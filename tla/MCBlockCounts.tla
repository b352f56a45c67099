--------------------------- MODULE MCBlockCounts ---------------------------
(* TLC instances of BlockCounts, both with a module f, generated code g, two places
   and slots for two or three blocks.  One process, with blocks at two offsets, so that a
   fourth overflows; the module has three symbols, one of which holds no block, and
   lists two of them.  Two processes, with a block per file, a table of one module, and
   a region with a key of a state "n", a key of a state "m" and the "<other>" key. *)
EXTENDS ExitReport, TLC
CONSTANTS f1, g1, x1, x2, k1, k2, kother, R

TwoFiles == {f1, g1}
FileNames == (f1 :> "f") @@ (g1 :> "g")
OnlyG == {g1}
TwoPlaces == {x1, x2}
TwoOffsets == {2, 6}
OneOffset == {2}
ThreeKeys == {k1, k2, kother}
OneRegion == [k \in ThreeKeys |-> R]
States == (k1 :> <<<<"n", 1>>>>) @@ (k2 :> <<<<"m", 1>>>>) @@ (kother :> <<>>)
TwoKeys == {k1, kother}
OnlyOther == {kother}
Symbol(name, start, end) == [name |-> name, start |-> start, end |-> end]
\* 2 is in a symbol; 6 is in none, and nearest to the second of four.
InModule == [n \in {"f"} |-> [o \in TwoOffsets |-> IF o = 2 THEN Symbol("a", 2, 4) ELSE NoSymbol]]
Symbols == [n \in {"f"} |-> <<Symbol("d", 8, 9), Symbol("b", 4, 5), Symbol("a", 2, 4), Symbol("c", 7, 8)>>]
Swap == Permutations(TwoPlaces)
=============================================================================
