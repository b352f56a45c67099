--------------------------- MODULE MCCostFormula ---------------------------
(* A TLC instance of CostFormula, in units of 16 instructions.  On four points: all
   counts of one block from a few, with a second block that is a steep, a slow or a
   bent line, a curve, or nearly a constant, and a third that waits.  On six points,
   which can be split: steps and kinks.  And points that are too few. *)
EXTENDS CostFormula
ThreeBlocks == {"b", "c", "omp"}
Waiting == {"omp"}
Four == <<1, 2, 3, 4>>
Six == <<1, 2, 3, 5, 8, 9>>
Line(p) == [i \in 1..Len(p) |-> 20 * p[i]]
Slow(p) == p
Bent(p) == [i \in 1..Len(p) |-> IF i = 1 THEN 100 ELSE 400 * (p[i] - 1)]
Curve(p) == [i \in 1..Len(p) |-> p[i] * p[i] * p[i]]
Near(p) == [i \in 1..Len(p) |-> 40 + (i % 2) * 3]
Pair(p, f, g) == [points |-> p, count |-> [b \in ThreeBlocks |-> IF b = "b" THEN f ELSE g]]
Given ==
  {Pair(Four, f, g) : f \in [1..4 -> {0, 1, 7, 11, 85, 88, 200}],
               g \in {Line(Four), Slow(Four), Bent(Four), Curve(Four), Near(Four)}}
  \cup {Pair(Six, f, Line(Six)) : f \in [1..6 -> {2, 30, 60}]}
  \cup {Pair(p, p, p) : p \in {<<1>>, <<1, 2>>}}
=============================================================================
