---------------------------- MODULE CostFormula ----------------------------
(***************************************************************************)
(* The cost formula of a region, lib/derive.py, for one declared state:    *)
(* every block of the region has a count per call at each observed point   *)
(* of the state; derive_regime fits a line to each block and adds those    *)
(* that hold to the formula, derive may split the points into two regimes, *)
(* and regime_for says which regime answers for a value.                   *)
(*                                                                         *)
(* A fit is exact here: over n points, slope, intercept and mean are whole *)
(* multiples of 1/den, the same for all blocks, so sums and comparisons    *)
(* are of integers.  Counts are whole, in units of which ABS_TOL has       *)
(* AbsTol.  Which of the splits that derive may choose it chooses is left  *)
(* open: it takes the one whose irregular fractions have the least mean.   *)
(* Symbols, several states and the marker's own cost are left out.         *)
(***************************************************************************)
EXTENDS Integers, Sequences, FiniteSets, FiniteSetsExt

CONSTANTS
  Blocks,
  Runtime,   \* blocks of OpenMP runtime modules, whose work is waiting
  Inputs,    \* [points, count]: the state's values, rising, and count[b][i]
  AbsTol,    \* ABS_TOL
  RelDen,    \* 1 / REL_TOL
  MinValues, MinSplit, \* MIN_VALUES, MIN_SPLIT
  IrrDen     \* 1 / max_irr

ASSUME InputsAssumption ==
  /\ Runtime \subseteq Blocks /\ IsFiniteSet(Blocks)
  /\ \A in \in Inputs :
       /\ in.points \in Seq(Int)
       /\ \A i \in 1..Len(in.points) - 1 : in.points[i] < in.points[i + 1]
       /\ in.count \in [Blocks -> [1..Len(in.points) -> Nat]]
ASSUME ToleranceAssumption ==
  /\ AbsTol \in Nat /\ RelDen \in Nat \ {0} /\ IrrDen \in Nat \ {0}
  /\ MinValues \in Nat /\ MinValues >= 3 /\ MinSplit \in Nat \ {0}

VARIABLES
  input,   \* the points and counts read
  regimes, \* the regimes derived
  done
vars == <<input, regimes, done>>

x == input.points
y(b) == input.count[b]
Work == Blocks \ Runtime
Magnitude(n) == IF n < 0 THEN -n ELSE n

\* The tolerance at a count, times RelDen.
Theta(count) == Max({RelDen * AbsTol, count})
Top(b, P) == Max({y(b)[i] : i \in P})
Width(P) == Max({x[i] : i \in P}) - Min({x[i] : i \in P})

-----------------------------------------------------------------------------
(***************************************************************************)
(* affine_fit: the least-squares line through points P of a block.         *)
(***************************************************************************)
Spread(P) ==
  LET sx == SumFunctionOnSet(x, P)
  IN  Cardinality(P) * SumFunction([i \in P |-> x[i] * x[i]]) - sx * sx
Den(P) == Cardinality(P) * Spread(P)

Fit(b, P) ==
  LET n  == Cardinality(P)
      sx == SumFunctionOnSet(x, P)
      sy == SumFunctionOnSet(y(b), P)
      a  == n * SumFunction([i \in P |-> x[i] * y(b)[i]]) - sx * sy
  IN  [a |-> n * a, c |-> sy * Spread(P) - sx * a, mean |-> sy * Spread(P)]
Off(b, P, i) == LET f == Fit(b, P) IN Magnitude(Den(P) * y(b)[i] - f.a * x[i] - f.c)

-----------------------------------------------------------------------------
(***************************************************************************)
(* derive_regime                                                           *)
(***************************************************************************)
\* The line holds at every point, relative to the count at that point, and its
\* intercept is not far below zero.
Holds_bug(b, P) == \A i \in P : RelDen * Off(b, P, i) <= Den(P) * Theta(Top(b, P))
Holds(b, P) ==
  /\ \A i \in P : RelDen * Off(b, P, i) <= Den(P) * Theta(y(b)[i])
  /\ -RelDen * Fit(b, P).c <= Den(P) * Theta(Top(b, P))

\* The slope matters over the range, or there is nothing but the slope.
Scales_inexact_bug(b, P) == RelDen * Magnitude(Fit(b, P).a) * Width(P) > Den(P) * Theta(Top(b, P))
Scales(b, P) ==
  \/ RelDen * Magnitude(Fit(b, P).a) * Width(P) > Den(P) * Theta(Top(b, P))
  \/ Fit(b, P).a # 0 /\ \A i \in P : Off(b, P, i) = 0

Affine(P)    == {b \in Work : Holds(b, P) /\ Scales(b, P)}
Constant(P)  == {b \in Work : Holds(b, P) /\ ~Scales(b, P)}
Irregular(P) == {b \in Work : ~Holds(b, P)}

\* a and c are in units of 1/den, irr is tabulated at the points.
Regime(P) ==
  [points |-> P, den |-> Den(P),
   a   |-> SumFunction([b \in Affine(P) |-> Fit(b, P).a]),
   c   |-> SumFunction([b \in Affine(P) |-> Fit(b, P).c])
             + SumFunction([b \in Constant(P) |-> Fit(b, P).mean]),
   irr |-> [i \in P |-> SumFunction([b \in Irregular(P) |-> y(b)[i]])]]
Enough_bug(P) == P # {}
Enough(P) == Cardinality(P) >= MinValues

Formula(r, v) == r.a * v + r.c
Total(r, i) == Formula(r, x[i]) + r.den * r.irr[i]

-----------------------------------------------------------------------------
(***************************************************************************)
(* derive                                                                  *)
(***************************************************************************)
Points == 1..Len(x)

\* irr_share of all points against max_irr
ManyIrregular(r) ==
  IrrDen * r.den * SumFunction(r.irr) > SumFunction([i \in r.points |-> Total(r, i)])
Upper(i) == i + 1..Len(x)
Splits == MinSplit..Len(x) - MinSplit
MaySplit == ManyIrregular(Regime(Points)) /\ Len(x) >= 2 * MinSplit

Derive ==
  /\ ~done /\ done' = TRUE
  /\ \/ regimes' = IF Enough(Points) THEN <<Regime(Points)>> ELSE <<>>
     \/ /\ Enough(Points) /\ MaySplit
        /\ \E i \in Splits :
             /\ Enough(1..i) /\ Enough(Upper(i))
             /\ regimes' = <<Regime(1..i), Regime(Upper(i))>>
  /\ UNCHANGED input

\* regime_for: a value between two regimes belongs to neither.
For(v) ==
  IF Len(regimes) = 1 \/ v <= x[Max(regimes[1].points)] THEN 1
  ELSE IF v >= x[Min(regimes[2].points)] THEN 2 ELSE 0

Init == input \in Inputs /\ regimes = <<>> /\ done = FALSE
Next == Derive \/ (done /\ UNCHANGED vars)
Spec == Init /\ [][Next]_vars

-----------------------------------------------------------------------------
TypeOK ==
  /\ done \in BOOLEAN /\ Len(regimes) <= 2
  /\ \A n \in 1..Len(regimes) :
       LET r == regimes[n]
       IN  /\ r.points \subseteq Points /\ r.den \in Nat \ {0}
           /\ r.a \in Int /\ r.c \in Int /\ r.irr \in [r.points -> Nat]

\* The count of b is a line over the points: a slope over the first two, and every
\* other point on it; and it is not far below zero where the state is 0.
OnLine(b, P) ==
  LET i == Min(P)
      j == Min(P \ {i})
      run == x[j] - x[i]
      rise == y(b)[j] - y(b)[i]
  IN  /\ \A k \in P : (y(b)[k] - y(b)[i]) * run = rise * (x[k] - x[i])
      /\ RelDen * (rise * x[i] - y(b)[i] * run) <= run * Theta(Top(b, P))
Measured(i) == SumFunction([b \in Work |-> y(b)[i]])

\* SPEC.md P1: counts that are affine in the state give their exact cost, in one
\* regime, at every value of the state and not only at the observed ones: the formula
\* goes through the counts.
FormulaExact ==
  done /\ Enough(Points) /\ (\A b \in Work : OnLine(b, Points)) =>
    /\ Len(regimes) = 1
    /\ \A i \in Points : Formula(regimes[1], x[i]) = regimes[1].den * Measured(i)

\* SPEC.md P2 and P3, with the bound that the code keeps: at an observed point the
\* formula of the regime that answers for it, and the irregular counts tabulated
\* there, are off by at most the tolerance of each block that scales, and twice the
\* tolerance of the largest count of each that is taken for a constant.
ErrorBounded ==
  \A i \in Points : regimes # <<>> =>
    LET r == regimes[For(x[i])]
    IN  /\ i \in r.points
        /\ RelDen * Magnitude(Total(r, i) - r.den * Measured(i))
             <= r.den * (SumFunction([b \in Affine(r.points) |-> Theta(y(b)[i])])
                          + SumFunction([b \in Constant(r.points) |-> 2 * Theta(Top(b, r.points))]))

=============================================================================
