------------------------ MODULE CostFormulaProofs ------------------------
(***************************************************************************)
(* Theorems of CostFormula, for every set of inputs, whatever the points,  *)
(* counts and tolerances.  The algorithm takes one step; what there is to  *)
(* prove is the arithmetic of the fit: that the points spread, so that     *)
(* there is a line; that the fit of counts on a line is that line, so that *)
(* no tolerance matters and nothing is irregular; and how far a fit that   *)
(* holds, or a mean that replaces it, is from each count.                  *)
(***************************************************************************)
EXTENDS CostFormula, SumLemmas, SequenceTheorems

-----------------------------------------------------------------------------
(***************************************************************************)
(* Numbers                                                                 *)
(***************************************************************************)
\* A factor that is not negative keeps an order.
LEMMA TimesAtMost == ASSUME NEW a \in Nat, NEW b \in Int, NEW c \in Int, b <= c PROVE a * b <= a * c
OBVIOUS

\* A positive factor can be taken away on both sides.
LEMMA CancelAtMost ==
  ASSUME NEW a \in Nat \ {0}, NEW b \in Int, NEW c \in Int, a * b <= a * c
  PROVE  b <= c
OBVIOUS

\* And from an equation.
LEMMA CancelZero == ASSUME NEW a \in Int, NEW b \in Int, a # 0, a * b = 0 PROVE b = 0
OBVIOUS

\* A square is not negative, and positive if its root is not 0.
LEMMA Square == ASSUME NEW a \in Int PROVE a * a \in Nat /\ (a # 0 => a * a > 0)
OBVIOUS

\* What a magnitude is.
LEMMA MagnitudeIs ==
  ASSUME NEW a \in Int
  PROVE  /\ Magnitude(a) \in Nat /\ a <= Magnitude(a) /\ -a <= Magnitude(a)
         /\ Magnitude(a) = a \/ Magnitude(a) = -a
         /\ Magnitude(a) = 0 <=> a = 0
BY DEF Magnitude

\* The magnitude of a product.
LEMMA MagnitudeTimes ==
  ASSUME NEW a \in Int, NEW b \in Int
  PROVE  Magnitude(a * b) = Magnitude(a) * Magnitude(b)
BY DEF Magnitude

\* A number between a bound and its opposite.
LEMMA MagnitudeAtMost ==
  ASSUME NEW a \in Int, NEW w \in Int, a <= w, -a <= w
  PROVE  Magnitude(a) <= w
BY DEF Magnitude

\* The tolerance at a count.
LEMMA ThetaIs ==
  ASSUME NEW n \in Int
  PROVE  Theta(n) \in Nat /\ n <= Theta(n) /\ \A m \in Int : m <= n => Theta(m) <= Theta(n)
<1>1. RelDen * AbsTol \in Nat
  BY ToleranceAssumption
<1>2. ASSUME NEW m \in Int
      PROVE  /\ Theta(m) \in {RelDen * AbsTol, m}
             /\ RelDen * AbsTol <= Theta(m) /\ m <= Theta(m)
  <2> DEFINE S == {RelDen * AbsTol, m}
  <2>1. IsFiniteSet({m}) /\ S = {m} \cup {RelDen * AbsTol}
    BY FS_Singleton
  <2>2. IsFiniteSet(S)
    BY <2>1, FS_AddElement
  <2>3. S # {} /\ S \subseteq Int
    <3>1. RelDen * AbsTol \in Int
      BY <1>1
    <3> QED BY ONLY <1>2, <3>1 DEF S
  <2> HIDE DEF S
  <2>4. Max(S) \in S /\ \A k \in S : k <= Max(S)
    BY <2>2, <2>3, MaxIs
  <2> QED BY <2>4 DEF Theta, S
<1> QED BY <1>1, <1>2

-----------------------------------------------------------------------------
(***************************************************************************)
(* The sums of a fit                                                       *)
(***************************************************************************)
\* Points with whole values and counts.
Data(P) == IsFiniteSet(P) /\ \A i \in P : x[i] \in Int /\ \A b \in Blocks : y(b)[i] \in Nat
Distinct(P) == \A i, j \in P : x[i] = x[j] => i = j

N(P) == Cardinality(P)
SX(P) == SumFunctionOnSet(x, P)
SXX(P) == SumFunction([i \in P |-> x[i] * x[i]])
SY(b, P) == SumFunctionOnSet(y(b), P)
SXY(b, P) == SumFunction([i \in P |-> x[i] * y(b)[i]])
Slope(b, P) == N(P) * SXY(b, P) - SX(P) * SY(b, P)

\* The types of these sums.
LEMMA SumTypes ==
  ASSUME NEW P, Data(P)
  PROVE  /\ N(P) \in Nat /\ SX(P) \in Int /\ SXX(P) \in Int /\ Spread(P) \in Int /\ Den(P) \in Int
         /\ \A b \in Blocks : SY(b, P) \in Nat /\ SXY(b, P) \in Int /\ Slope(b, P) \in Int
<1>1. N(P) \in Nat
  BY FS_CardinalityType DEF Data, N
<1>2. SX(P) \in Int
  BY SumInt DEF Data, SX
<1>3. SXX(P) \in Int
  <2> DEFINE f == [i \in P |-> x[i] * x[i]]
  <2>1. \A i \in P : f[i] \in Int
    BY DEF Data
  <2>2. SXX(P) = SumFunctionOnSet(f, P)
    BY DEF SXX, SumFunction
  <2> HIDE DEF f
  <2> QED BY <2>1, <2>2, SumInt DEF Data
<1>4. ASSUME NEW b \in Blocks PROVE SY(b, P) \in Nat /\ SXY(b, P) \in Int
  <2> DEFINE f == [i \in P |-> x[i] * y(b)[i]]
             g == y(b)
  <2>1. \A i \in P : f[i] \in Int /\ g[i] \in Nat
    BY DEF Data
  <2>2. SXY(b, P) = SumFunctionOnSet(f, P) /\ SY(b, P) = SumFunctionOnSet(g, P)
    BY DEF SXY, SY, SumFunction
  <2> HIDE DEF f, g
  <2> QED BY <2>1, <2>2, SumInt, SumNat DEF Data
<1>5. Spread(P) = N(P) * SXX(P) - SX(P) * SX(P)
  BY DEF Spread, N, SXX, SX
<1>6. Spread(P) \in Int
  BY <1>1, <1>2, <1>3, <1>5
<1>7. Den(P) \in Int
  BY <1>1, <1>6 DEF Den, N
<1>8. \A b \in Blocks : Slope(b, P) \in Int
  BY <1>1, <1>2, <1>4 DEF Slope
<1> QED BY <1>1, <1>2, <1>3, <1>4, <1>6, <1>7, <1>8

\* A fit in terms of these sums.
LEMMA FitIs ==
  ASSUME NEW P, NEW b
  PROVE  /\ Spread(P) = N(P) * SXX(P) - SX(P) * SX(P) /\ Den(P) = N(P) * Spread(P)
         /\ Fit(b, P).a = N(P) * Slope(b, P)
         /\ Fit(b, P).c = SY(b, P) * Spread(P) - SX(P) * Slope(b, P)
         /\ Fit(b, P).mean = SY(b, P) * Spread(P)
BY DEF Spread, Den, Fit, N, SX, SXX, SY, SXY, Slope

\* The squares of the distances from a number.
LEMMA SquaresAbout ==
  ASSUME NEW P, Data(P), NEW a \in Int,
         NEW h, \A i \in P : h[i] = (x[i] - a) * (x[i] - a)
  PROVE  SumFunctionOnSet(h, P) = SXX(P) - 2 * a * SX(P) + N(P) * (a * a)
<1> DEFINE f == [i \in P |-> x[i] * x[i]]
           k == [i \in P |-> a * a]
           g == [i \in P |-> (-2 * a) * x[i] + a * a]
           d == -2 * a
<1>1. IsFiniteSet(P) /\ \A i \in P : x[i] \in Int
  BY DEF Data
<1>2. \A i \in P : x[i] \in Int /\ k[i] \in Int /\ k[i] = a * a /\ g[i] = d * x[i] + k[i] /\ g[i] \in Int
  BY <1>1
<1>3. ASSUME NEW i \in P PROVE f[i] \in Int /\ g[i] \in Int /\ h[i] = f[i] + g[i]
  <2>1. x[i] \in Int /\ f[i] = x[i] * x[i] /\ g[i] = (-2 * a) * x[i] + a * a /\ h[i] = (x[i] - a) * (x[i] - a)
    BY <1>1
  <2> HIDE DEF f, g
  <2> QED BY <2>1
<1>4. SXX(P) = SumFunctionOnSet(f, P) /\ SX(P) = SumFunctionOnSet(x, P) /\ d \in Int
  BY DEF SXX, SX, SumFunction
<1> HIDE DEF f, g, k, d
<1>5. SumFunctionOnSet(h, P) = SumFunctionOnSet(f, P) + SumFunctionOnSet(g, P)
  BY <1>1, <1>3, SumPlus
<1>6. Linear(g, d, x, k, P)
  BY <1>2, <1>4 DEF Linear
<1>7. SumFunctionOnSet(g, P) = d * SumFunctionOnSet(x, P) + SumFunctionOnSet(k, P)
  BY <1>1, <1>6, SumLinear
<1>8. SumFunctionOnSet(k, P) = Cardinality(P) * (a * a)
  <2>1. a * a \in Int
    OBVIOUS
  <2> QED BY <1>1, <1>2, <2>1, SumConst
<1>9. SX(P) \in Int /\ SXX(P) \in Int /\ N(P) \in Nat
  BY SumTypes
<1> QED BY <1>4, <1>5, <1>7, <1>8, <1>9 DEF d, N

\* The points' spread grows with each point by the squares of its distances.
LEMMA SpreadStep ==
  ASSUME NEW P, Data(P), NEW c \in P,
         NEW h, \A i \in P \ {c} : h[i] = (x[i] - x[c]) * (x[i] - x[c])
  PROVE  Spread(P) = Spread(P \ {c}) + SumFunctionOnSet(h, P \ {c})
<1> DEFINE T == P \ {c}
<1>1. Data(T) /\ IsFiniteSet(P) /\ x[c] \in Int /\ \A i \in P : x[i] \in Int
  BY FS_Subset DEF Data
<1>2. N(P) = N(T) + 1 /\ N(T) \in Nat
  <2>1. Cardinality(T) = Cardinality(P) - 1 /\ Cardinality(P) \in Nat
    BY <1>1, FS_RemoveElement, FS_CardinalityType
  <2> QED BY <2>1, <1>1, SumTypes DEF N
<1>3. SX(P) = x[c] + SX(T)
  BY <1>1, SumTake DEF SX
<1>4. SXX(P) = x[c] * x[c] + SXX(T)
  <2> DEFINE f == [i \in P |-> x[i] * x[i]]
             g == [i \in T |-> x[i] * x[i]]
  <2>1. \A i \in P : f[i] = x[i] * x[i] /\ f[i] \in Int
    BY <1>1
  <2>2. SXX(P) = SumFunctionOnSet(f, P) /\ SXX(T) = SumFunctionOnSet(g, T)
    BY DEF SXX, SumFunction
  <2>3. \A i \in T : f[i] = g[i]
    OBVIOUS
  <2> HIDE DEF f, g
  <2>4. SumFunctionOnSet(f, P) = f[c] + SumFunctionOnSet(f, T)
    <3>1. \A i \in P : f[i] \in Int
      BY ONLY <2>1
    <3>2. SumFunctionOnSet(f, P) = f[c] + SumFunctionOnSet(f, P \ {c})
      BY ONLY <1>1, <3>1, c \in P, SumTake
    <3> QED BY ONLY <3>2 DEF T
  <2>5. SumFunctionOnSet(f, T) = SumFunctionOnSet(g, T)
    <3>1. IsFiniteSet(T)
      BY <1>1 DEF Data
    <3> HIDE DEF T
    <3> QED BY <3>1, <2>3, SumSame
  <2> QED BY <2>1, <2>2, <2>4, <2>5
<1> HIDE DEF T
<1>5. SumFunctionOnSet(h, T) = SXX(T) - 2 * x[c] * SX(T) + N(T) * (x[c] * x[c])
  BY <1>1, SquaresAbout DEF T
<1>6. SX(T) \in Int /\ SXX(T) \in Int
  BY <1>1, SumTypes
<1>7. Spread(P) = N(P) * SXX(P) - SX(P) * SX(P) /\ Spread(T) = N(T) * SXX(T) - SX(T) * SX(T)
  BY FitIs
<1>8. Spread(P) = (N(T) + 1) * (x[c] * x[c] + SXX(T)) - (x[c] + SX(T)) * (x[c] + SX(T))
  BY ONLY <1>2, <1>3, <1>4, <1>7
<1>9. x[c] \in Int /\ N(T) \in Int
  BY <1>1, <1>2
<1>10. (N(T) + 1) * (x[c] * x[c] + SXX(T)) - (x[c] + SX(T)) * (x[c] + SX(T))
         = (N(T) * SXX(T) - SX(T) * SX(T)) + (SXX(T) - 2 * x[c] * SX(T) + N(T) * (x[c] * x[c]))
  <2> DEFINE n == N(T)
             s == SX(T)
             q == SXX(T)
             a == x[c]
  <2>1. n \in Int /\ s \in Int /\ q \in Int /\ a \in Int
    BY ONLY <1>6, <1>9
  <2> HIDE DEF n, s, q, a
  <2>2. (n + 1) * (a * a + q) - (a + s) * (a + s) = (n * q - s * s) + (q - 2 * a * s + n * (a * a))
    BY ONLY <2>1
  <2> QED BY ONLY <2>2 DEF n, s, q, a
<1>11. Spread(P) = Spread(T) + SumFunctionOnSet(h, T)
  BY ONLY <1>5, <1>7, <1>8, <1>10
<1> QED BY <1>11 DEF T

\* The spread is not negative.
LEMMA SpreadNat == ASSUME NEW P, Data(P) PROVE Spread(P) \in Nat
<1> DEFINE G == {s \in SUBSET P : Spread(s) \in Nat}
<1>1. ASSUME NEW s \in SUBSET P, \A i \in s : s \ {i} \in G PROVE s \in G
  <2>1. CASE s = {}
    <3>1. SX(s) = 0 /\ N(s) = 0
      BY <2>1, SumEmpty, FS_EmptySet DEF SX, N
    <3>2. Data(s)
      BY <2>1, FS_EmptySet DEF Data
    <3>3. SXX(s) \in Int /\ Spread(s) = N(s) * SXX(s) - SX(s) * SX(s)
      BY <3>2, SumTypes, FitIs
    <3> QED BY <3>1, <3>3
  <2>2. CASE s # {}
    <3>1. PICK c \in s : TRUE
      BY <2>2
    <3>2. Data(s) /\ IsFiniteSet(s \ {c}) /\ \A i \in s : x[i] \in Int
      BY FS_Subset DEF Data
    <3> DEFINE h == [i \in s |-> (x[i] - x[c]) * (x[i] - x[c])]
    <3>3. \A i \in s \ {c} : h[i] = (x[i] - x[c]) * (x[i] - x[c])
      OBVIOUS
    <3>4. \A i \in s \ {c} : h[i] \in Nat
      <4>1. ASSUME NEW i \in s PROVE (x[i] - x[c]) * (x[i] - x[c]) \in Nat
        <5>1. x[i] - x[c] \in Int
          BY <3>1, <3>2
        <5> QED BY <5>1, Square
      <4> QED BY <4>1
    <3> HIDE DEF h
    <3>5. Spread(s) = Spread(s \ {c}) + SumFunctionOnSet(h, s \ {c})
      BY <3>2, <3>3, SpreadStep
    <3>6. SumFunctionOnSet(h, s \ {c}) \in Nat
      BY <3>2, <3>4, SumNat
    <3> QED BY <1>1, <3>1, <3>5, <3>6
  <2> QED BY <2>1, <2>2
<1>2. P \in G
  <2>1. IsFiniteSet(P)
    BY DEF Data
  <2> HIDE DEF G
  <2> QED BY ONLY <1>1, <2>1, SetInduction
<1> QED BY <1>2

\* It is positive for two points: there is a line through them.
LEMMA SpreadPositive ==
  ASSUME NEW P, Data(P), Distinct(P), NEW c \in P, NEW e \in P, c # e
  PROVE  Spread(P) > 0 /\ N(P) > 0 /\ Den(P) > 0
<1> DEFINE T == P \ {c}
           h == [i \in P |-> (x[i] - x[c]) * (x[i] - x[c])]
<1>1. Data(T) /\ IsFiniteSet(T) /\ IsFiniteSet(P) /\ \A i \in P : x[i] \in Int
  BY FS_Subset DEF Data
<1>2. \A i \in T : h[i] = (x[i] - x[c]) * (x[i] - x[c])
  OBVIOUS
<1>3. \A i \in T : h[i] \in Nat /\ h[i] > 0
  <2>1. ASSUME NEW i \in T
        PROVE  (x[i] - x[c]) * (x[i] - x[c]) \in Nat /\ (x[i] - x[c]) * (x[i] - x[c]) > 0
    <3>1. x[i] - x[c] \in Int /\ x[i] - x[c] # 0
      BY <1>1 DEF Distinct
    <3> QED BY <3>1, Square
  <2> QED BY <2>1
<1>4. e \in T
  OBVIOUS
<1> HIDE DEF h
<1>5. Spread(P) = Spread(T) + SumFunctionOnSet(h, T)
  BY <1>1, <1>2, SpreadStep
<1>6. SumFunctionOnSet(h, T) = h[e] + SumFunctionOnSet(h, T \ {e})
  BY <1>1, <1>3, <1>4, SumTake
<1>7. SumFunctionOnSet(h, T \ {e}) \in Nat
  <2>1. IsFiniteSet(T \ {e})
    BY <1>1, FS_Subset
  <2> QED BY <2>1, <1>3, SumNat
<1>8. Spread(T) \in Nat
  BY <1>1, SpreadNat
<1>9. Spread(P) > 0
  BY <1>3, <1>4, <1>5, <1>6, <1>7, <1>8
<1>10. N(P) > 0 /\ N(P) \in Nat /\ Spread(P) \in Int
  <2>1. Cardinality(P) # 0
    BY <1>1, FS_EmptySet
  <2> QED BY <2>1, SumTypes DEF N
<1>11. Den(P) > 0
  BY <1>9, <1>10, FitIs
<1> QED BY <1>9, <1>10, <1>11

-----------------------------------------------------------------------------
(***************************************************************************)
(* The inputs                                                              *)
(***************************************************************************)
\* The points rise from each to every later one.
LEMMA Rises ==
  ASSUME input \in Inputs
  PROVE  \A i, j \in Points : i < j => x[i] < x[j]
<1>1. x \in Seq(Int) /\ \A i \in 1..Len(x) - 1 : x[i] < x[i + 1]
  BY InputsAssumption DEF x
<1>2. Len(x) \in Nat /\ \A i \in Points : x[i] \in Int
  BY <1>1 DEF Points
<1> DEFINE T == {j \in Points : \E i \in Points : i < j /\ ~(x[i] < x[j])}
<1>3. SUFFICES ASSUME T # {} PROVE FALSE
  BY DEF T
<1>4. T \subseteq Nat
  BY <1>2 DEF Points
<1> HIDE DEF T
<1>5. PICK j \in T : \A k \in T : j <= k
  BY <1>3, <1>4, LeastNat
<1>6. PICK i \in Points : j \in Points /\ i < j /\ ~(x[i] < x[j])
  BY <1>5 DEF T
<1>7. j - 1 \in 1..Len(x) - 1 /\ j - 1 \in Points /\ (j - 1) + 1 = j /\ i <= j - 1 /\ ~(j <= j - 1)
  BY <1>2, <1>6 DEF Points
<1>8. x[j - 1] < x[j]
  BY <1>1, <1>7
<1>9. i = j - 1 \/ x[i] < x[j - 1]
  <2>1. j - 1 \notin T
    BY <1>5, <1>7
  <2>2. i = j - 1 \/ i < j - 1
    BY <1>6, <1>7 DEF Points
  <2> QED BY <2>1, <2>2, <1>6, <1>7 DEF T
<1>10. x[i] \in Int /\ x[j] \in Int /\ x[j - 1] \in Int
  BY <1>2, <1>6, <1>7
<1> QED BY <1>6, <1>8, <1>9, <1>10

\* Any of the points of an input are data of a fit.
LEMMA InputData ==
  ASSUME input \in Inputs, NEW P, P \subseteq Points
  PROVE  Data(P) /\ Distinct(P)
<1>1. x \in Seq(Int) /\ Len(x) \in Nat /\ \A i \in Points : x[i] \in Int
  BY InputsAssumption DEF x, Points
<1>2. IsFiniteSet(P)
  <2>1. IsFiniteSet(Points)
    BY <1>1, FS_Interval DEF Points
  <2> QED BY <2>1, FS_Subset
<1>3. ASSUME NEW b \in Blocks, NEW i \in Points PROVE y(b)[i] \in Nat
  <2>1. input.count \in [Blocks -> [1..Len(x) -> Nat]]
    BY InputsAssumption DEF x
  <2>2. y(b) \in [1..Len(x) -> Nat]
    BY <2>1 DEF y
  <2> QED BY <2>2 DEF Points
<1>4. \A i, j \in Points : x[i] = x[j] => i = j
  <2>1. ASSUME NEW i \in Points, NEW j \in Points, x[i] = x[j] PROVE i = j
    <3>1. i \in Int /\ j \in Int /\ x[i] \in Int /\ x[j] \in Int
      BY <1>1 DEF Points
    <3>2. ~(i < j) /\ ~(j < i)
      BY <2>1, <3>1, Rises
    <3> QED BY <3>1, <3>2
  <2> QED BY <2>1
<1> QED BY <1>1, <1>2, <1>3, <1>4 DEF Data, Distinct

\* Points enough for a regime are at least two.
LEMMA EnoughTwo ==
  ASSUME NEW P, IsFiniteSet(P), Enough(P)
  PROVE  \E c, e \in P : c # e
<1>1. Cardinality(P) \in Nat /\ Cardinality(P) >= 3
  <2>1. Cardinality(P) >= MinValues /\ MinValues >= 3 /\ MinValues \in Nat
    BY ToleranceAssumption DEF Enough
  <2> QED BY <2>1, FS_CardinalityType
<1>2. PICK c \in P : TRUE
  BY <1>1, FS_EmptySet
<1>3. IsFiniteSet(P \ {c}) /\ Cardinality(P \ {c}) = Cardinality(P) - 1
  BY FS_RemoveElement
<1>4. PICK e \in P \ {c} : TRUE
  BY <1>1, <1>3, FS_EmptySet
<1> QED BY <1>2, <1>4

\* A fit has whole coefficients, in units of 1/den.
LEMMA FitTypes ==
  ASSUME NEW P, Data(P), NEW b \in Blocks
  PROVE  /\ Fit(b, P).a \in Int /\ Fit(b, P).c \in Int /\ Fit(b, P).mean \in Int
         /\ \A i \in P : Off(b, P, i) \in Nat
<1>1. N(P) \in Nat /\ SX(P) \in Int /\ Spread(P) \in Int /\ Den(P) \in Int /\ SY(b, P) \in Nat /\ Slope(b, P) \in Int
  BY SumTypes
<1>2. Fit(b, P).a \in Int /\ Fit(b, P).c \in Int /\ Fit(b, P).mean \in Int
  BY <1>1, FitIs
<1>3. ASSUME NEW i \in P PROVE Off(b, P, i) \in Nat
  <2>1. x[i] \in Int /\ y(b)[i] \in Int
    BY DEF Data
  <2>2. Den(P) * y(b)[i] - Fit(b, P).a * x[i] - Fit(b, P).c \in Int
    BY <1>1, <1>2, <2>1
  <2> QED BY <2>2, MagnitudeIs DEF Off
<1> QED BY <1>2, <1>3

\* A sum over a function is one over its domain.
LEMMA SumOver == ASSUME NEW f PROVE SumFunction(f) = SumFunctionOnSet(f, DOMAIN f)
BY DEF SumFunction

\* The blocks that do work, and their kinds.
LEMMA Kinds ==
  ASSUME NEW P
  PROVE  /\ IsFiniteSet(Work) /\ Work \subseteq Blocks
         /\ IsFiniteSet(Affine(P)) /\ IsFiniteSet(Constant(P)) /\ IsFiniteSet(Irregular(P))
         /\ Affine(P) \cup Constant(P) \cup Irregular(P) = Work
         /\ Affine(P) \cap Constant(P) = {} /\ (Affine(P) \cup Constant(P)) \cap Irregular(P) = {}
         /\ IsFiniteSet(Affine(P) \cup Constant(P))
<1>1. IsFiniteSet(Work) /\ Work \subseteq Blocks
  BY InputsAssumption, FS_Subset DEF Work
<1>2. Affine(P) \subseteq Work /\ Constant(P) \subseteq Work /\ Irregular(P) \subseteq Work
  BY DEF Affine, Constant, Irregular
<1>3. /\ Affine(P) \cup Constant(P) \cup Irregular(P) = Work
      /\ Affine(P) \cap Constant(P) = {} /\ (Affine(P) \cup Constant(P)) \cap Irregular(P) = {}
  BY DEF Affine, Constant, Irregular
<1>4. Affine(P) \cup Constant(P) \subseteq Work
  BY <1>2
<1> QED BY <1>1, <1>2, <1>3, <1>4, FS_Subset

-----------------------------------------------------------------------------
(***************************************************************************)
(* How far a regime is from the counts                                     *)
(***************************************************************************)
\* On S, k times the magnitude of e is at most d times t.
Within(e, t, k, d, S) ==
  /\ k \in Nat /\ d \in Nat
  /\ \A b \in S : e[b] \in Int /\ t[b] \in Int /\ k * Magnitude(e[b]) <= d * t[b]

\* Then the same holds of the sums.
LEMMA SumWithin ==
  ASSUME NEW e, NEW t, NEW k, NEW d, NEW S, IsFiniteSet(S), Within(e, t, k, d, S)
  PROVE  k * Magnitude(SumFunctionOnSet(e, S)) <= d * SumFunctionOnSet(t, S)
<1> DEFINE z == [b \in S |-> 0]
           up == [b \in S |-> k * e[b]]
           down == [b \in S |-> (-k) * e[b]]
           most == [b \in S |-> d * t[b]]
           m == -k
<1>1. k \in Nat /\ d \in Nat /\ m \in Int
  BY DEF Within
<1>2. ASSUME NEW b \in S
      PROVE  /\ e[b] \in Int /\ t[b] \in Int /\ z[b] \in Int
             /\ up[b] \in Int /\ up[b] = k * e[b] + z[b]
             /\ down[b] \in Int /\ down[b] = m * e[b] + z[b]
             /\ most[b] \in Int /\ most[b] = d * t[b] + z[b]
             /\ up[b] <= most[b] /\ down[b] <= most[b]
  <2>1. e[b] \in Int /\ t[b] \in Int /\ k * Magnitude(e[b]) <= d * t[b]
    BY DEF Within
  <2>2. up[b] = k * e[b] /\ down[b] = (-k) * e[b] /\ most[b] = d * t[b] /\ z[b] = 0
    OBVIOUS
  <2>3. k * e[b] \in Int /\ (-k) * e[b] \in Int /\ d * t[b] \in Int
    BY ONLY <1>1, <2>1
  <2>4. k * e[b] <= k * Magnitude(e[b]) /\ (-k) * e[b] <= k * Magnitude(e[b])
    <3>1. Magnitude(e[b]) \in Nat /\ e[b] <= Magnitude(e[b]) /\ -e[b] <= Magnitude(e[b])
      BY <2>1, MagnitudeIs
    <3>2. -e[b] \in Int /\ k * (-e[b]) = (-k) * e[b]
      BY ONLY <1>1, <2>1
    <3>3. k * e[b] <= k * Magnitude(e[b])
      BY ONLY <1>1, <2>1, <3>1, TimesAtMost
    <3>4. k * (-e[b]) <= k * Magnitude(e[b])
      BY ONLY <1>1, <3>1, <3>2, TimesAtMost
    <3> QED BY ONLY <3>2, <3>3, <3>4
  <2>5. k * Magnitude(e[b]) \in Int
    BY <1>1, <2>1, MagnitudeIs
  <2>6. k * e[b] <= d * t[b] /\ (-k) * e[b] <= d * t[b]
    BY ONLY <2>1, <2>3, <2>4, <2>5
  <2> HIDE DEF z, up, down, most
  <2> QED BY ONLY <2>1, <2>2, <2>3, <2>6 DEF m
<1> HIDE DEF z, up, down, most, m
<1>3. SumFunctionOnSet(z, S) = 0
  BY SumZero DEF z
<1>4. SumFunctionOnSet(up, S) = k * SumFunctionOnSet(e, S) + SumFunctionOnSet(z, S)
  <2>1. Linear(up, k, e, z, S)
    BY <1>1, <1>2 DEF Linear
  <2> QED BY <2>1, SumLinear
<1>5. SumFunctionOnSet(down, S) = m * SumFunctionOnSet(e, S) + SumFunctionOnSet(z, S)
  <2>1. Linear(down, m, e, z, S)
    BY <1>1, <1>2 DEF Linear
  <2> QED BY <2>1, SumLinear
<1>6. SumFunctionOnSet(most, S) = d * SumFunctionOnSet(t, S) + SumFunctionOnSet(z, S)
  <2>1. Linear(most, d, t, z, S)
    BY <1>1, <1>2 DEF Linear
  <2> QED BY <2>1, SumLinear
<1>7. SumFunctionOnSet(up, S) <= SumFunctionOnSet(most, S)
  <2>1. AtMost(up, most, S)
    BY <1>2 DEF AtMost
  <2> QED BY <2>1, SumAtMost
<1>8. SumFunctionOnSet(down, S) <= SumFunctionOnSet(most, S)
  <2>1. AtMost(down, most, S)
    BY <1>2 DEF AtMost
  <2> QED BY <2>1, SumAtMost
<1>9. SumFunctionOnSet(e, S) \in Int /\ SumFunctionOnSet(t, S) \in Int
  BY <1>2, SumInt
<1> DEFINE se == SumFunctionOnSet(e, S)
           st == SumFunctionOnSet(t, S)
<1>10. k * se <= d * st /\ (-k) * se <= d * st
  BY ONLY <1>1, <1>3, <1>4, <1>5, <1>6, <1>7, <1>8, <1>9 DEF m
<1>11. Magnitude(se) = se \/ Magnitude(se) = -se
  BY <1>9, MagnitudeIs
<1>12. k * (-se) = (-k) * se
  BY ONLY <1>1, <1>9
<1> QED BY ONLY <1>10, <1>11, <1>12

\* The points' distances from one of them sum up to at most their number times the width.
LEMMA SumOfDistances ==
  ASSUME NEW P, Data(P), NEW i \in P
  PROVE  Width(P) \in Nat /\ Magnitude(SX(P) - N(P) * x[i]) <= N(P) * Width(P)
<1> DEFINE X == {x[k] : k \in P}
           e == [k \in P |-> x[k] - x[i]]
           w == [k \in P |-> Width(P)]
           t == [k \in P |-> -x[i]]
<1>1. IsFiniteSet(P) /\ (\A k \in P : x[k] \in Int) /\ X # {} /\ X \subseteq Int
  BY DEF Data
<1>2. IsFiniteSet(X)
  <2>1. X = ImageOf(x, P)
    BY DEF ImageOf
  <2> QED BY <1>1, <2>1, ImageFinite
<1> HIDE DEF X
<1>3. /\ Max(X) \in Int /\ (\A v \in X : v <= Max(X))
      /\ Min(X) \in Int /\ (\A v \in X : Min(X) <= v)
  BY <1>1, <1>2, MaxIs, MinIs
<1>4. Width(P) = Max(X) - Min(X) /\ \A k \in P : x[k] \in X
  BY DEF Width, X
<1>5. Width(P) \in Nat
  BY <1>1, <1>3, <1>4
<1>6. ASSUME NEW k \in P
      PROVE  e[k] \in Int /\ w[k] = Width(P) /\ t[k] = -x[i] /\ Magnitude(e[k]) <= Width(P)
  <2>1. x[k] \in Int /\ x[i] \in Int /\ x[k] <= Max(X) /\ Min(X) <= x[k] /\ x[i] <= Max(X) /\ Min(X) <= x[i]
    BY <1>1, <1>3, <1>4
  <2>2. x[k] - x[i] \in Int /\ x[k] - x[i] <= Width(P) /\ -(x[k] - x[i]) <= Width(P)
    BY ONLY <1>3, <1>4, <2>1
  <2>3. Magnitude(x[k] - x[i]) <= Width(P)
    BY <1>5, <2>2, MagnitudeAtMost
  <2> QED BY <2>2, <2>3
<1>7. \A k \in P : x[k] \in Int /\ t[k] \in Int /\ e[k] = 1 * x[k] + t[k]
  BY <1>1
<1> HIDE DEF e, w, t
<1>8. SumFunctionOnSet(e, P) = 1 * SumFunctionOnSet(x, P) + SumFunctionOnSet(t, P)
  <2>1. Linear(e, 1, x, t, P)
    BY <1>7 DEF Linear
  <2> QED BY <2>1, <1>1, SumLinear
<1>9. SumFunctionOnSet(t, P) = Cardinality(P) * (-x[i])
  <2>1. -x[i] \in Int
    BY <1>1
  <2> QED BY <2>1, <1>1, <1>6, SumConst
<1>10. SumFunctionOnSet(w, P) = Cardinality(P) * Width(P)
  BY <1>1, <1>5, <1>6, SumConst
<1>11. 1 * Magnitude(SumFunctionOnSet(e, P)) <= 1 * SumFunctionOnSet(w, P)
  <2>1. Within(e, w, 1, 1, P)
    <3>1. ASSUME NEW k \in P
          PROVE  e[k] \in Int /\ w[k] \in Int /\ 1 * Magnitude(e[k]) <= 1 * w[k]
      <4>1. e[k] \in Int /\ w[k] \in Nat /\ Magnitude(e[k]) <= w[k] /\ Magnitude(e[k]) \in Nat
        BY <1>5, <1>6, MagnitudeIs
      <4> QED BY ONLY <4>1
    <3> QED BY <3>1 DEF Within
  <2> QED BY <2>1, <1>1, SumWithin
<1>12. SX(P) = SumFunctionOnSet(x, P) /\ N(P) = Cardinality(P) /\ SX(P) \in Int /\ N(P) \in Nat /\ x[i] \in Int
  BY <1>1, SumTypes DEF SX, N
<1>13. SumFunctionOnSet(e, P) = SX(P) - N(P) * x[i]
  BY ONLY <1>8, <1>9, <1>12
<1>14. Magnitude(SX(P) - N(P) * x[i]) \in Nat
  BY <1>12, MagnitudeIs
<1> QED BY <1>5, <1>10, <1>11, <1>12, <1>13, <1>14

\* The largest count of a block, and its tolerance.
LEMMA TopIs ==
  ASSUME NEW P, Data(P), NEW b \in Blocks, NEW i \in P
  PROVE  /\ Top(b, P) \in Nat /\ \A k \in P : y(b)[k] <= Top(b, P)
         /\ Theta(Top(b, P)) \in Nat
         /\ \A k \in P : Theta(y(b)[k]) \in Nat /\ Theta(y(b)[k]) <= Theta(Top(b, P))
<1> DEFINE Y == {y(b)[k] : k \in P}
           g == y(b)
<1>1. IsFiniteSet(P) /\ (\A k \in P : y(b)[k] \in Nat) /\ Y # {} /\ Y \subseteq Nat /\ Y \subseteq Int
  BY DEF Data
<1>2. IsFiniteSet(Y)
  <2>1. Y = ImageOf(g, P)
    BY DEF ImageOf
  <2> HIDE DEF g, Y
  <2> QED BY <1>1, <2>1, ImageFinite
<1>3. \A k \in P : y(b)[k] \in Y
  OBVIOUS
<1>4. Top(b, P) = Max(Y)
  BY DEF Top
<1> HIDE DEF Y
<1>5. Max(Y) \in Y /\ \A v \in Y : v <= Max(Y)
  BY <1>1, <1>2, MaxIs
<1>6. Top(b, P) \in Nat /\ \A k \in P : y(b)[k] <= Top(b, P)
  BY <1>1, <1>3, <1>4, <1>5
<1>7. Theta(Top(b, P)) \in Nat /\ \A m \in Int : m <= Top(b, P) => Theta(m) <= Theta(Top(b, P))
  <2>1. Top(b, P) \in Int
    BY <1>6
  <2> QED BY <2>1, ThetaIs
<1>8. ASSUME NEW k \in P PROVE Theta(y(b)[k]) \in Nat /\ Theta(y(b)[k]) <= Theta(Top(b, P))
  <2>1. y(b)[k] \in Int /\ y(b)[k] <= Top(b, P)
    BY <1>1, <1>6
  <2> QED BY <2>1, <1>7, ThetaIs
<1> QED BY <1>6, <1>7, <1>8

\* A fit that holds is off by at most the tolerance of the count.
LEMMA AffineOff ==
  ASSUME NEW P, Data(P), NEW b \in Blocks, NEW i \in P, Holds(b, P)
  PROVE  RelDen * Magnitude(Fit(b, P).a * x[i] + Fit(b, P).c - Den(P) * y(b)[i]) <= Den(P) * Theta(y(b)[i])
<1> DEFINE d == Den(P) * y(b)[i] - Fit(b, P).a * x[i] - Fit(b, P).c
<1>1. RelDen * Magnitude(d) <= Den(P) * Theta(y(b)[i])
  BY DEF Holds, Off
<1>2. /\ Fit(b, P).a \in Int /\ Fit(b, P).c \in Int /\ Den(P) \in Int
      /\ x[i] \in Int /\ y(b)[i] \in Int
  BY FitTypes, SumTypes DEF Data
<1>3. d \in Int /\ Fit(b, P).a * x[i] + Fit(b, P).c - Den(P) * y(b)[i] = -d
  BY ONLY <1>2
<1>4. Magnitude(-d) = Magnitude(d)
  BY ONLY <1>3 DEF Magnitude
<1> QED BY ONLY <1>1, <1>3, <1>4

\* A mean, in place of a fit that holds and whose slope does not matter, is off by at
\* most twice the tolerance of the largest count.
LEMMA ConstantOff ==
  ASSUME NEW P, Data(P), NEW b \in Blocks, NEW i \in P, Holds(b, P), ~Scales(b, P), Den(P) \in Nat
  PROVE  RelDen * Magnitude(Fit(b, P).mean - Den(P) * y(b)[i]) <= Den(P) * (2 * Theta(Top(b, P)))
<1> DEFINE F == Fit(b, P)
           th == Theta(Top(b, P))
           ti == Theta(y(b)[i])
           p == F.mean - F.c - F.a * x[i]
           q == F.a * x[i] + F.c - Den(P) * y(b)[i]
<1>1. /\ F.a \in Int /\ F.c \in Int /\ F.mean \in Int /\ x[i] \in Int /\ y(b)[i] \in Int
      /\ N(P) \in Nat /\ SX(P) \in Int /\ Slope(b, P) \in Int /\ Width(P) \in Nat
      /\ th \in Nat /\ ti \in Nat /\ ti <= th /\ RelDen \in Nat
  BY FitTypes, SumTypes, SumOfDistances, TopIs, ToleranceAssumption DEF Data
<1>2. F.a = N(P) * Slope(b, P) /\ F.mean - F.c = SX(P) * Slope(b, P)
  <2>1. Spread(P) \in Int /\ SY(b, P) \in Int
    BY SumTypes
  <2>2. F.a = N(P) * Slope(b, P) /\ F.c = SY(b, P) * Spread(P) - SX(P) * Slope(b, P) /\ F.mean = SY(b, P) * Spread(P)
    BY FitIs
  <2> HIDE DEF F
  <2> QED BY ONLY <1>1, <2>1, <2>2
<1> HIDE DEF F
<1>3. p = (SX(P) - N(P) * x[i]) * Slope(b, P)
  BY ONLY <1>1, <1>2
<1> DEFINE dist == SX(P) - N(P) * x[i]
           s == Magnitude(Slope(b, P))
<1>4. dist \in Int /\ Magnitude(p) = Magnitude(dist) * s
  <2>1. dist \in Int
    BY ONLY <1>1
  <2>2. Magnitude(dist * Slope(b, P)) = Magnitude(dist) * Magnitude(Slope(b, P))
    BY <1>1, <2>1, MagnitudeTimes
  <2> QED BY ONLY <1>3, <2>1, <2>2
<1>5. Magnitude(F.a) = N(P) * s
  <2>1. Magnitude(N(P) * Slope(b, P)) = Magnitude(N(P)) * Magnitude(Slope(b, P))
    BY <1>1, MagnitudeTimes
  <2>2. Magnitude(N(P)) = N(P)
    BY <1>1 DEF Magnitude
  <2> QED BY <1>2, <2>1, <2>2
<1>6. s \in Nat /\ Magnitude(dist) \in Nat /\ Magnitude(dist) <= N(P) * Width(P)
  BY <1>1, <1>4, MagnitudeIs, SumOfDistances
<1> DEFINE w == Width(P)
           da == Magnitude(F.a)
<1>7. Magnitude(p) <= da * w
  <2>1. s * Magnitude(dist) <= s * (N(P) * w)
    <3>1. N(P) * w \in Int /\ Magnitude(dist) \in Int
      BY ONLY <1>1, <1>6
    <3> QED BY ONLY <1>6, <3>1, TimesAtMost
  <2>2. s * (N(P) * w) = (N(P) * s) * w /\ s * Magnitude(dist) = Magnitude(dist) * s
    BY ONLY <1>1, <1>6
  <2> QED BY ONLY <1>4, <1>5, <2>1, <2>2
<1>8. RelDen * da * w <= Den(P) * th
  <2>1. ~(RelDen * da * w > Den(P) * th)
    BY DEF Scales, F
  <2>2. RelDen * da * w \in Int /\ Den(P) * th \in Int
    <3>1. da \in Nat
      BY <1>1, MagnitudeIs
    <3> QED BY ONLY <1>1, <3>1, Den(P) \in Nat
  <2> QED BY ONLY <2>1, <2>2
<1>9. p \in Int /\ q \in Int /\ F.mean - Den(P) * y(b)[i] = p + q
  BY ONLY <1>1, Den(P) \in Nat
<1>10. RelDen * Magnitude(p) <= Den(P) * th
  <2>1. Magnitude(p) \in Nat /\ da \in Nat
    BY <1>1, <1>9, MagnitudeIs
  <2>2. RelDen * Magnitude(p) <= RelDen * (da * w)
    <3>1. da * w \in Int /\ Magnitude(p) \in Int
      BY ONLY <1>1, <2>1
    <3> QED BY ONLY <1>1, <1>7, <3>1, TimesAtMost
  <2>3. RelDen * (da * w) = RelDen * da * w
    BY ONLY <1>1, <2>1
  <2>4. RelDen * Magnitude(p) \in Int /\ RelDen * (da * w) \in Int /\ Den(P) * th \in Int
    BY ONLY <1>1, <2>1, Den(P) \in Nat
  <2> QED BY ONLY <1>8, <2>2, <2>3, <2>4
<1>11. RelDen * Magnitude(q) <= Den(P) * th
  <2>1. RelDen * Magnitude(q) <= Den(P) * ti
    BY AffineOff DEF F
  <2>2. Den(P) * ti <= Den(P) * th
    BY ONLY <1>1, Den(P) \in Nat, TimesAtMost
  <2>3. RelDen * Magnitude(q) \in Int /\ Den(P) * ti \in Int /\ Den(P) * th \in Int
    <3>1. Magnitude(q) \in Nat
      BY <1>9, MagnitudeIs
    <3> QED BY ONLY <1>1, <3>1, Den(P) \in Nat
  <2> QED BY ONLY <2>1, <2>2, <2>3
<1> HIDE DEF p, q, th, ti, dist, s, w, da
<1>12. Magnitude(p + q) <= Magnitude(p) + Magnitude(q) /\ Magnitude(p) \in Nat /\ Magnitude(q) \in Nat
       /\ Magnitude(p + q) \in Nat
  BY ONLY <1>9 DEF Magnitude
<1>13. RelDen * Magnitude(p + q) <= RelDen * (Magnitude(p) + Magnitude(q))
  <2>1. Magnitude(p) + Magnitude(q) \in Int /\ Magnitude(p + q) \in Int
    BY ONLY <1>12
  <2> QED BY ONLY <1>1, <1>12, <2>1, TimesAtMost
<1>14. RelDen * (Magnitude(p) + Magnitude(q)) = RelDen * Magnitude(p) + RelDen * Magnitude(q)
       /\ Den(P) * (2 * th) = Den(P) * th + Den(P) * th
  BY ONLY <1>1, <1>12, Den(P) \in Nat
<1>15. RelDen * Magnitude(p + q) <= Den(P) * (2 * th)
  <2>1. /\ RelDen * Magnitude(p + q) \in Int /\ RelDen * Magnitude(p) \in Int /\ RelDen * Magnitude(q) \in Int
        /\ Den(P) * th \in Int
    BY ONLY <1>1, <1>12, Den(P) \in Nat
  <2> QED BY ONLY <1>10, <1>11, <1>13, <1>14, <2>1
<1> QED BY <1>9, <1>15 DEF F, th

Slopes(P) == [b \in Affine(P) |-> Fit(b, P).a]
Intercepts(P) == [b \in Affine(P) |-> Fit(b, P).c]
Means(P) == [b \in Constant(P) |-> Fit(b, P).mean]
CountsAt(S, i) == [b \in S |-> y(b)[i]]
Rest(P) == [i \in P |-> SumFunctionOnSet(CountsAt(Irregular(P), i), Irregular(P))]

\* A regime in terms of these sums.
LEMMA RegimeIs ==
  ASSUME NEW P
  PROVE  /\ Regime(P).points = P /\ Regime(P).den = Den(P)
         /\ Regime(P).a = SumFunctionOnSet(Slopes(P), Affine(P))
         /\ Regime(P).c = SumFunctionOnSet(Intercepts(P), Affine(P)) + SumFunctionOnSet(Means(P), Constant(P))
         /\ Regime(P).irr = Rest(P)
<1>1. /\ SumFunction(Slopes(P)) = SumFunctionOnSet(Slopes(P), Affine(P))
      /\ SumFunction(Intercepts(P)) = SumFunctionOnSet(Intercepts(P), Affine(P))
      /\ SumFunction(Means(P)) = SumFunctionOnSet(Means(P), Constant(P))
      /\ \A i \in P : SumFunction(CountsAt(Irregular(P), i)) = SumFunctionOnSet(CountsAt(Irregular(P), i), Irregular(P))
  BY SumOver DEF Slopes, Intercepts, Means, CountsAt
<1>2. /\ Regime(P).points = P /\ Regime(P).den = Den(P)
      /\ Regime(P).a = SumFunction(Slopes(P))
      /\ Regime(P).c = SumFunction(Intercepts(P)) + SumFunction(Means(P))
      /\ Regime(P).irr = [i \in P |-> SumFunction(CountsAt(Irregular(P), i))]
  BY DEF Regime, Slopes, Intercepts, Means, CountsAt
<1>3. [i \in P |-> SumFunction(CountsAt(Irregular(P), i))] = Rest(P)
  BY <1>1 DEF Rest
<1> QED BY <1>1, <1>2, <1>3

\* The types of these functions.
LEMMA PartTypes ==
  ASSUME NEW P, Data(P)
  PROVE  /\ \A b \in Affine(P) : Slopes(P)[b] \in Int /\ Intercepts(P)[b] \in Int
         /\ \A b \in Constant(P) : Means(P)[b] \in Int
         /\ \A S \in SUBSET Work : \A i \in P : \A b \in S : CountsAt(S, i)[b] \in Nat
<1>1. Affine(P) \subseteq Blocks /\ Constant(P) \subseteq Blocks /\ Work \subseteq Blocks
  BY Kinds
<1>2. \A b \in Affine(P) : Slopes(P)[b] = Fit(b, P).a /\ Intercepts(P)[b] = Fit(b, P).c
  BY DEF Slopes, Intercepts
<1>3. \A b \in Constant(P) : Means(P)[b] = Fit(b, P).mean
  BY DEF Means
<1>4. \A S \in SUBSET Work : \A i \in P : \A b \in S : CountsAt(S, i)[b] = y(b)[i]
  BY DEF CountsAt
<1>5. \A b \in Blocks : \A i \in P : y(b)[i] \in Nat
  BY DEF Data
<1> QED BY <1>1, <1>2, <1>3, <1>4, <1>5, FitTypes

\* A regime of data with a line through them is well formed.
LEMMA RegimeTypes ==
  ASSUME NEW P, Data(P), Den(P) > 0
  PROVE  /\ Regime(P).den \in Nat \ {0} /\ Regime(P).a \in Int /\ Regime(P).c \in Int
         /\ Regime(P).irr \in [P -> Nat]
<1>1. Den(P) \in Nat \ {0}
  BY SumTypes
<1>2. SumFunctionOnSet(Slopes(P), Affine(P)) \in Int
  BY PartTypes, Kinds, SumInt
<1>3. SumFunctionOnSet(Intercepts(P), Affine(P)) \in Int
  BY PartTypes, Kinds, SumInt
<1>4. SumFunctionOnSet(Means(P), Constant(P)) \in Int
  BY PartTypes, Kinds, SumInt
<1>5. ASSUME NEW i \in P PROVE SumFunctionOnSet(CountsAt(Irregular(P), i), Irregular(P)) \in Nat
  <2>1. Irregular(P) \in SUBSET Work /\ IsFiniteSet(Irregular(P))
    BY Kinds
  <2>2. \A b \in Irregular(P) : CountsAt(Irregular(P), i)[b] \in Nat
    BY <2>1, PartTypes
  <2> QED BY <2>1, <2>2, SumNat
<1>6. Rest(P) \in [P -> Nat]
  BY <1>5 DEF Rest
<1>7. Regime(P).a \in Int /\ Regime(P).c \in Int
  BY <1>2, <1>3, <1>4, RegimeIs
<1> QED BY <1>1, <1>6, <1>7, RegimeIs

\* What the affine blocks add to the total of a regime, beside their counts.
AffineOver(P, i) == [b \in Affine(P) |-> Fit(b, P).a * x[i] + Fit(b, P).c - Den(P) * y(b)[i]]
\* And the constant ones.
ConstantOver(P, i) == [b \in Constant(P) |-> Fit(b, P).mean - Den(P) * y(b)[i]]

\* The total of a regime is off by what the affine and the constant blocks add.
LEMMA TotalOver ==
  ASSUME NEW P, Data(P), Den(P) > 0, NEW i \in P
  PROVE  Total(Regime(P), i) - Den(P) * Measured(i)
           = SumFunctionOnSet(AffineOver(P, i), Affine(P)) + SumFunctionOnSet(ConstantOver(P, i), Constant(P))
<1> DEFINE A == Affine(P)
           C == Constant(P)
           I == Irregular(P)
           d == Den(P)
           m == -d
           u == CountsAt(Work, i)
           fa == [b \in A |-> x[i] * Slopes(P)[b] + Intercepts(P)[b]]
<1>1. /\ IsFiniteSet(A) /\ IsFiniteSet(C) /\ IsFiniteSet(I) /\ A \cup C \cup I = Work
      /\ A \cap C = {} /\ (A \cup C) \cap I = {} /\ IsFiniteSet(A \cup C)
  BY Kinds
<1>2. d \in Int /\ m \in Int /\ x[i] \in Int
  BY SumTypes DEF Data
<1>3. \A b \in Work : u[b] \in Int /\ u[b] = y(b)[i]
  <2>1. \A b \in Work : u[b] \in Nat
    BY PartTypes
  <2> QED BY <2>1 DEF CountsAt
<1>4. ASSUME NEW b \in A
      PROVE  /\ Slopes(P)[b] \in Int /\ Intercepts(P)[b] \in Int /\ u[b] \in Int
             /\ fa[b] \in Int /\ fa[b] = x[i] * Slopes(P)[b] + Intercepts(P)[b]
             /\ AffineOver(P, i)[b] = m * u[b] + fa[b]
  <2>1. Slopes(P)[b] \in Int /\ Intercepts(P)[b] \in Int /\ u[b] \in Int /\ u[b] = y(b)[i]
    BY PartTypes, <1>1, <1>3
  <2>2. fa[b] = x[i] * Slopes(P)[b] + Intercepts(P)[b]
    OBVIOUS
  <2>3. AffineOver(P, i)[b] = Slopes(P)[b] * x[i] + Intercepts(P)[b] - d * u[b]
    BY <2>1 DEF AffineOver, Slopes, Intercepts
  <2> HIDE DEF fa, u, A, d
  <2> QED BY ONLY <1>2, <2>1, <2>2, <2>3 DEF m
<1>5. ASSUME NEW b \in C
      PROVE  Means(P)[b] \in Int /\ u[b] \in Int /\ ConstantOver(P, i)[b] = m * u[b] + Means(P)[b]
  <2>1. Means(P)[b] \in Int /\ u[b] \in Int /\ u[b] = y(b)[i]
    BY PartTypes, <1>1, <1>3
  <2>2. ConstantOver(P, i)[b] = Means(P)[b] - d * u[b]
    BY <2>1 DEF ConstantOver, Means
  <2> HIDE DEF u, C, d
  <2> QED BY ONLY <1>2, <2>1, <2>2 DEF m
<1> DEFINE irr == SumFunctionOnSet(CountsAt(Irregular(P), i), Irregular(P))
<1>6. irr = SumFunctionOnSet(u, I)
  <2> DEFINE g == CountsAt(Irregular(P), i)
  <2>1. \A b \in I : g[b] = u[b]
    BY <1>1 DEF CountsAt
  <2> HIDE DEF g, u
  <2>2. SumFunctionOnSet(g, I) = SumFunctionOnSet(u, I)
    BY <1>1, <2>1, SumSame
  <2> QED BY <2>2 DEF g
<1>7. Measured(i) = SumFunctionOnSet(u, Work)
  BY SumOver DEF Measured, CountsAt
<1>8. Total(Regime(P), i)
        = SumFunctionOnSet(Slopes(P), A) * x[i] + (SumFunctionOnSet(Intercepts(P), A) + SumFunctionOnSet(Means(P), C)) + d * irr
  <2>1. Regime(P).irr[i] = irr
    <3>1. Rest(P)[i] = irr
      BY DEF Rest
    <3> QED BY <3>1, RegimeIs
  <2> HIDE DEF irr
  <2> QED BY <2>1, RegimeIs DEF Total, Formula
<1> HIDE DEF u, fa, A, C, I, d, m, irr
<1>9. SumFunctionOnSet(fa, A) = x[i] * SumFunctionOnSet(Slopes(P), A) + SumFunctionOnSet(Intercepts(P), A)
  <2>1. Linear(fa, x[i], Slopes(P), Intercepts(P), A)
    BY <1>2, <1>4 DEF Linear
  <2> QED BY <2>1, <1>1, SumLinear
<1>10. SumFunctionOnSet(AffineOver(P, i), A) = m * SumFunctionOnSet(u, A) + SumFunctionOnSet(fa, A)
  <2>1. Linear(AffineOver(P, i), m, u, fa, A)
    BY <1>2, <1>4 DEF Linear
  <2> QED BY <2>1, <1>1, SumLinear
<1>11. SumFunctionOnSet(ConstantOver(P, i), C) = m * SumFunctionOnSet(u, C) + SumFunctionOnSet(Means(P), C)
  <2>1. Linear(ConstantOver(P, i), m, u, Means(P), C)
    BY <1>2, <1>5 DEF Linear
  <2> QED BY <2>1, <1>1, SumLinear
<1>12. SumFunctionOnSet(u, A \cup C) = SumFunctionOnSet(u, A) + SumFunctionOnSet(u, C)
  <2>1. \A b \in A \cup C : u[b] \in Int
    BY <1>1, <1>3
  <2> QED BY <2>1, <1>1, SumUnion
<1>13. SumFunctionOnSet(u, Work) = SumFunctionOnSet(u, A \cup C) + SumFunctionOnSet(u, I)
  <2>1. \A b \in (A \cup C) \cup I : u[b] \in Int
    BY <1>1, <1>3
  <2>2. SumFunctionOnSet(u, (A \cup C) \cup I) = SumFunctionOnSet(u, A \cup C) + SumFunctionOnSet(u, I)
    BY <2>1, <1>1, SumUnion
  <2> QED BY <2>2, <1>1
<1>14. /\ SumFunctionOnSet(u, A) \in Int /\ SumFunctionOnSet(u, C) \in Int /\ SumFunctionOnSet(u, I) \in Int
       /\ SumFunctionOnSet(Slopes(P), A) \in Int /\ SumFunctionOnSet(Intercepts(P), A) \in Int
       /\ SumFunctionOnSet(Means(P), C) \in Int
  <2>1. (\A b \in A : u[b] \in Int) /\ (\A b \in C : u[b] \in Int) /\ \A b \in I : u[b] \in Int
    BY <1>1, <1>3
  <2>2. SumFunctionOnSet(u, A) \in Int /\ SumFunctionOnSet(u, C) \in Int /\ SumFunctionOnSet(u, I) \in Int
    BY <2>1, <1>1, SumInt
  <2>3. SumFunctionOnSet(Slopes(P), A) \in Int /\ SumFunctionOnSet(Intercepts(P), A) \in Int
    BY <1>1, <1>4, SumInt
  <2>4. SumFunctionOnSet(Means(P), C) \in Int
    BY <1>1, <1>5, SumInt
  <2> QED BY <2>2, <2>3, <2>4
<1> DEFINE ua == SumFunctionOnSet(u, A)
           uc == SumFunctionOnSet(u, C)
           ui == SumFunctionOnSet(u, I)
           sa == SumFunctionOnSet(Slopes(P), A)
           si == SumFunctionOnSet(Intercepts(P), A)
           sm == SumFunctionOnSet(Means(P), C)
<1>15. m = -d /\ ua \in Int /\ uc \in Int /\ ui \in Int /\ sa \in Int /\ si \in Int /\ sm \in Int
  BY <1>14 DEF m
<1>16. Total(Regime(P), i) - d * Measured(i) = (sa * x[i] + (si + sm) + d * ui) - d * ((ua + uc) + ui)
  BY ONLY <1>6, <1>7, <1>8, <1>12, <1>13
<1>17. SumFunctionOnSet(AffineOver(P, i), A) + SumFunctionOnSet(ConstantOver(P, i), C)
         = (m * ua + (x[i] * sa + si)) + (m * uc + sm)
  BY ONLY <1>9, <1>10, <1>11
<1> HIDE DEF ua, uc, ui, sa, si, sm
<1>18. (sa * x[i] + (si + sm) + d * ui) - d * ((ua + uc) + ui) = (m * ua + (x[i] * sa + si)) + (m * uc + sm)
  BY ONLY <1>2, <1>15
<1> QED BY ONLY <1>16, <1>17, <1>18 DEF A, C, d

\* The error of a regime at its points.
LEMMA RegimeError ==
  ASSUME NEW P, Data(P), Den(P) > 0, NEW i \in P
  PROVE  RelDen * Magnitude(Total(Regime(P), i) - Den(P) * Measured(i))
           <= Den(P) * (SumFunction([b \in Affine(P) |-> Theta(y(b)[i])])
                         + SumFunction([b \in Constant(P) |-> 2 * Theta(Top(b, P))]))
<1> DEFINE A == Affine(P)
           C == Constant(P)
           e == AffineOver(P, i)
           g == ConstantOver(P, i)
           te == [b \in A |-> Theta(y(b)[i])]
           tg == [b \in C |-> 2 * Theta(Top(b, P))]
<1>1. IsFiniteSet(A) /\ IsFiniteSet(C) /\ A \subseteq Blocks /\ C \subseteq Blocks
  BY Kinds
<1>2. Den(P) \in Nat /\ RelDen \in Nat
  BY SumTypes, ToleranceAssumption
<1>3. ASSUME NEW b \in A
      PROVE  e[b] \in Int /\ te[b] \in Int /\ RelDen * Magnitude(e[b]) <= Den(P) * te[b]
  <2>1. b \in Blocks /\ Holds(b, P)
    BY <1>1 DEF Affine
  <2>2. e[b] = Fit(b, P).a * x[i] + Fit(b, P).c - Den(P) * y(b)[i] /\ te[b] = Theta(y(b)[i])
    BY DEF AffineOver
  <2>3. RelDen * Magnitude(Fit(b, P).a * x[i] + Fit(b, P).c - Den(P) * y(b)[i]) <= Den(P) * Theta(y(b)[i])
    BY <2>1, AffineOff
  <2>4. Fit(b, P).a \in Int /\ Fit(b, P).c \in Int /\ x[i] \in Int /\ y(b)[i] \in Int /\ Theta(y(b)[i]) \in Int
    BY <2>1, FitTypes, ThetaIs DEF Data
  <2> HIDE DEF e, te
  <2> QED BY ONLY <1>2, <2>2, <2>3, <2>4
<1>4. ASSUME NEW b \in C
      PROVE  g[b] \in Int /\ tg[b] \in Int /\ RelDen * Magnitude(g[b]) <= Den(P) * tg[b]
  <2>1. b \in Blocks /\ Holds(b, P) /\ ~Scales(b, P)
    BY <1>1 DEF Constant
  <2>2. g[b] = Fit(b, P).mean - Den(P) * y(b)[i] /\ tg[b] = 2 * Theta(Top(b, P))
    BY DEF ConstantOver
  <2>3. RelDen * Magnitude(Fit(b, P).mean - Den(P) * y(b)[i]) <= Den(P) * (2 * Theta(Top(b, P)))
    BY <1>2, <2>1, ConstantOff
  <2>4. Fit(b, P).mean \in Int /\ y(b)[i] \in Int /\ Theta(Top(b, P)) \in Int
    BY <2>1, FitTypes, TopIs DEF Data
  <2> HIDE DEF g, tg
  <2> QED BY ONLY <1>2, <2>2, <2>3, <2>4
<1>5. Total(Regime(P), i) - Den(P) * Measured(i) = SumFunctionOnSet(e, A) + SumFunctionOnSet(g, C)
  BY TotalOver
<1>6. SumFunction(te) = SumFunctionOnSet(te, A) /\ SumFunction(tg) = SumFunctionOnSet(tg, C)
  BY SumOver
<1> HIDE DEF A, C, e, g, te, tg
<1>7. RelDen * Magnitude(SumFunctionOnSet(e, A)) <= Den(P) * SumFunctionOnSet(te, A)
  <2>1. Within(e, te, RelDen, Den(P), A)
    BY <1>2, <1>3 DEF Within
  <2> QED BY <2>1, <1>1, SumWithin
<1>8. RelDen * Magnitude(SumFunctionOnSet(g, C)) <= Den(P) * SumFunctionOnSet(tg, C)
  <2>1. Within(g, tg, RelDen, Den(P), C)
    BY <1>2, <1>4 DEF Within
  <2> QED BY <2>1, <1>1, SumWithin
<1> DEFINE p == SumFunctionOnSet(e, A)
           q == SumFunctionOnSet(g, C)
           tp == SumFunctionOnSet(te, A)
           tq == SumFunctionOnSet(tg, C)
<1>9. p \in Int /\ q \in Int /\ tp \in Int /\ tq \in Int
  BY <1>1, <1>3, <1>4, SumInt
<1>10. RelDen * Magnitude(p) <= Den(P) * tp /\ RelDen * Magnitude(q) <= Den(P) * tq
  BY <1>7, <1>8
<1> HIDE DEF p, q, tp, tq
<1>11. Magnitude(p + q) <= Magnitude(p) + Magnitude(q) /\ Magnitude(p) \in Nat /\ Magnitude(q) \in Nat
       /\ Magnitude(p + q) \in Nat
  BY ONLY <1>9 DEF Magnitude
<1>12. RelDen * Magnitude(p + q) <= RelDen * (Magnitude(p) + Magnitude(q))
  <2>1. Magnitude(p) + Magnitude(q) \in Int /\ Magnitude(p + q) \in Int
    BY ONLY <1>11
  <2> QED BY ONLY <1>2, <1>11, <2>1, TimesAtMost
<1>13. RelDen * Magnitude(p + q) <= Den(P) * (tp + tq)
  <2>1. RelDen * (Magnitude(p) + Magnitude(q)) = RelDen * Magnitude(p) + RelDen * Magnitude(q)
        /\ Den(P) * (tp + tq) = Den(P) * tp + Den(P) * tq
    BY ONLY <1>2, <1>9, <1>11
  <2>2. /\ RelDen * Magnitude(p + q) \in Int /\ RelDen * Magnitude(p) \in Int /\ RelDen * Magnitude(q) \in Int
        /\ Den(P) * tp \in Int /\ Den(P) * tq \in Int
    BY ONLY <1>2, <1>9, <1>11
  <2> QED BY ONLY <1>10, <1>12, <2>1, <2>2
<1>14. RelDen * Magnitude(Total(Regime(P), i) - Den(P) * Measured(i)) <= Den(P) * (SumFunction(te) + SumFunction(tg))
  BY ONLY <1>5, <1>6, <1>13 DEF p, q, tp, tq
<1> QED BY <1>14 DEF te, tg, A, C

-----------------------------------------------------------------------------
(***************************************************************************)
(* Counts on a line                                                        *)
(***************************************************************************)
\* On S, m times f is d times g plus h.
Balanced(m, f, d, g, h, S) ==
  /\ m \in Int /\ d \in Int
  /\ \A k \in S : f[k] \in Int /\ g[k] \in Int /\ h[k] \in Int /\ m * f[k] = d * g[k] + h[k]

\* Then the same holds of the sums.
LEMMA SumBalanced ==
  ASSUME NEW m, NEW f, NEW d, NEW g, NEW h, NEW S, IsFiniteSet(S), Balanced(m, f, d, g, h, S)
  PROVE  m * SumFunctionOnSet(f, S) = d * SumFunctionOnSet(g, S) + SumFunctionOnSet(h, S)
<1> DEFINE z == [k \in S |-> 0]
           u == [k \in S |-> m * f[k]]
<1>1. m \in Int /\ d \in Int
  BY DEF Balanced
<1>2. ASSUME NEW k \in S
      PROVE  /\ f[k] \in Int /\ g[k] \in Int /\ h[k] \in Int /\ z[k] \in Int
             /\ u[k] \in Int /\ u[k] = m * f[k] + z[k] /\ u[k] = d * g[k] + h[k]
  <2>1. f[k] \in Int /\ g[k] \in Int /\ h[k] \in Int /\ m * f[k] = d * g[k] + h[k]
    BY DEF Balanced
  <2>2. u[k] = m * f[k] /\ z[k] = 0
    OBVIOUS
  <2> HIDE DEF u, z
  <2> QED BY ONLY <1>1, <2>1, <2>2
<1>3. SumFunctionOnSet(z, S) = 0
  <2>1. \A k \in S : z[k] = 0
    OBVIOUS
  <2> HIDE DEF z
  <2> QED BY <2>1, SumZero
<1> HIDE DEF z, u
<1>4. SumFunctionOnSet(u, S) = m * SumFunctionOnSet(f, S) + SumFunctionOnSet(z, S)
  <2>1. Linear(u, m, f, z, S)
    BY <1>1, <1>2 DEF Linear
  <2> QED BY <2>1, SumLinear
<1>5. SumFunctionOnSet(u, S) = d * SumFunctionOnSet(g, S) + SumFunctionOnSet(h, S)
  <2>1. Linear(u, d, g, h, S)
    BY <1>1, <1>2 DEF Linear
  <2> QED BY <2>1, SumLinear
<1>6. SumFunctionOnSet(f, S) \in Int
  BY <1>2, SumInt
<1>7. m * SumFunctionOnSet(f, S) + 0 = m * SumFunctionOnSet(f, S)
  BY ONLY <1>1, <1>6
<1> QED BY ONLY <1>3, <1>4, <1>5, <1>7

\* The slope that a line through the counts gives to their fit.
LEMMA LineSlope ==
  ASSUME NEW P, Data(P), NEW b \in Blocks, NEW run \in Int, NEW rise \in Int, NEW d \in Int,
         \A k \in P : run * y(b)[k] = rise * x[k] + d
  PROVE  /\ run * SY(b, P) = rise * SX(P) + N(P) * d
         /\ run * Slope(b, P) = rise * Spread(P)
<1> DEFINE cd == [k \in P |-> d]
           xd == [k \in P |-> d * x[k]]
           z == [k \in P |-> 0]
           xx == [k \in P |-> x[k] * x[k]]
           xy == [k \in P |-> x[k] * y(b)[k]]
           g == y(b)
<1>1. IsFiniteSet(P) /\ \A k \in P : x[k] \in Int /\ g[k] \in Int
  BY DEF Data
<1>2. ASSUME NEW k \in P
      PROVE  /\ cd[k] = d /\ z[k] = 0 /\ xd[k] = d * x[k] /\ xx[k] = x[k] * x[k] /\ xy[k] = x[k] * g[k]
             /\ xd[k] \in Int /\ xx[k] \in Int /\ xy[k] \in Int
             /\ run * g[k] = rise * x[k] + cd[k]
             /\ run * xy[k] = rise * xx[k] + xd[k]
             /\ 1 * xd[k] = d * x[k] + z[k]
  <2>1. cd[k] = d /\ z[k] = 0 /\ xd[k] = d * x[k] /\ xx[k] = x[k] * x[k] /\ xy[k] = x[k] * g[k]
    OBVIOUS
  <2>2. run * g[k] = rise * x[k] + d /\ x[k] \in Int /\ g[k] \in Int
    BY <1>1
  <2> HIDE DEF cd, z, xd, xx, xy, g
  <2>3. xd[k] \in Int /\ xx[k] \in Int /\ xy[k] \in Int
    BY ONLY <2>1, <2>2, d \in Int
  <2>4. run * (x[k] * g[k]) = rise * (x[k] * x[k]) + d * x[k]
    <3>1. run * (x[k] * g[k]) = x[k] * (run * g[k])
      BY ONLY <2>2, run \in Int
    <3>2. x[k] * (rise * x[k] + d) = rise * (x[k] * x[k]) + d * x[k]
      BY ONLY <2>2, rise \in Int, d \in Int
    <3> QED BY ONLY <2>2, <3>1, <3>2
  <2>5. 1 * xd[k] = d * x[k] + z[k]
    BY ONLY <2>1, <2>3
  <2> QED BY ONLY <2>1, <2>2, <2>3, <2>4, <2>5
<1>3. SXX(P) = SumFunctionOnSet(xx, P) /\ SXY(b, P) = SumFunctionOnSet(xy, P)
  BY SumOver DEF SXX, SXY
<1>4. SX(P) = SumFunctionOnSet(x, P) /\ SY(b, P) = SumFunctionOnSet(g, P) /\ N(P) = Cardinality(P)
  BY DEF SX, SY, N
<1> HIDE DEF cd, z, xd, xx, xy, g
<1>5. run * SumFunctionOnSet(g, P) = rise * SumFunctionOnSet(x, P) + SumFunctionOnSet(cd, P)
  <2>1. Balanced(run, g, rise, x, cd, P)
    BY <1>1, <1>2 DEF Balanced
  <2> QED BY <2>1, <1>1, SumBalanced
<1>6. SumFunctionOnSet(cd, P) = Cardinality(P) * d
  BY <1>1, <1>2, SumConst
<1>7. run * SumFunctionOnSet(xy, P) = rise * SumFunctionOnSet(xx, P) + SumFunctionOnSet(xd, P)
  <2>1. Balanced(run, xy, rise, xx, xd, P)
    BY <1>2 DEF Balanced
  <2> QED BY <2>1, <1>1, SumBalanced
<1>8. 1 * SumFunctionOnSet(xd, P) = d * SumFunctionOnSet(x, P) + SumFunctionOnSet(z, P)
  <2>1. Balanced(1, xd, d, x, z, P)
    BY <1>1, <1>2 DEF Balanced
  <2> QED BY <2>1, <1>1, SumBalanced
<1>9. SumFunctionOnSet(z, P) = 0 /\ SumFunctionOnSet(xd, P) \in Int
  BY <1>1, <1>2, SumZero, SumInt
<1>10. N(P) \in Nat /\ SX(P) \in Int /\ SXX(P) \in Int /\ SY(b, P) \in Int /\ SXY(b, P) \in Int
  BY SumTypes
<1>11. run * SY(b, P) = rise * SX(P) + N(P) * d
  BY ONLY <1>4, <1>5, <1>6
<1>12. run * SXY(b, P) = rise * SXX(P) + d * SX(P)
  <2>1. SumFunctionOnSet(xd, P) = d * SX(P)
    BY ONLY <1>4, <1>8, <1>9, <1>10, d \in Int
  <2> QED BY ONLY <1>3, <1>7, <2>1
<1>13. Slope(b, P) = N(P) * SXY(b, P) - SX(P) * SY(b, P) /\ Spread(P) = N(P) * SXX(P) - SX(P) * SX(P)
  BY FitIs DEF Slope
<1> DEFINE n == N(P)
           sx == SX(P)
           sxx == SXX(P)
           sy == SY(b, P)
           sxy == SXY(b, P)
<1>14. n \in Int /\ sx \in Int /\ sxx \in Int /\ sy \in Int /\ sxy \in Int
       /\ run * sy = rise * sx + n * d /\ run * sxy = rise * sxx + d * sx
  BY <1>10, <1>11, <1>12
<1> HIDE DEF n, sx, sxx, sy, sxy
<1>15. run * (n * sxy - sx * sy) = rise * (n * sxx - sx * sx)
  <2>1. run * (n * sxy - sx * sy) = n * (run * sxy) - sx * (run * sy)
    BY ONLY <1>14, run \in Int
  <2>2. n * (rise * sxx + d * sx) - sx * (rise * sx + n * d) = rise * (n * sxx - sx * sx)
    BY ONLY <1>14, rise \in Int, d \in Int
  <2> QED BY ONLY <1>14, <2>1, <2>2
<1> QED BY ONLY <1>11, <1>13, <1>15 DEF n, sx, sxx, sy, sxy

\* The fit of counts on a line is that line, and it holds.
LEMMA LineFit ==
  ASSUME NEW P, Data(P), Den(P) > 0, NEW b \in Blocks,
         NEW run \in Nat \ {0}, NEW rise \in Int, NEW d \in Int,
         \A k \in P : run * y(b)[k] = rise * x[k] + d,
         RelDen * (-d) <= run * Theta(Top(b, P)), P # {}
  PROVE  (\A k \in P : Off(b, P, k) = 0) /\ Holds(b, P)
<1> DEFINE F == Fit(b, P)
           D == Den(P)
           n == N(P)
           sx == SX(P)
           sy == SY(b, P)
           s == Slope(b, P)
           w == Spread(P)
           th == Theta(Top(b, P))
<1>1. n \in Int /\ sx \in Int /\ sy \in Int /\ s \in Int /\ w \in Int /\ D \in Nat
      /\ RelDen \in Nat /\ th \in Nat /\ run \in Int
  BY SumTypes, TopIs, ToleranceAssumption
<1>2. run * sy = rise * sx + n * d /\ run * s = rise * w
  BY LineSlope
<1>3. D = n * w /\ F.a = n * s /\ F.c = sy * w - sx * s
  BY FitIs
<1>4. F.a \in Int /\ F.c \in Int
  BY FitTypes
<1>5. RelDen * (-d) <= run * th
  OBVIOUS
<1> HIDE DEF F, D, n, sx, sy, s, w, th
<1>6. run * F.c = D * d
  <2>1. run * (sy * w - sx * s) = (run * sy) * w - sx * (run * s)
    BY ONLY <1>1
  <2>2. (rise * sx + n * d) * w - sx * (rise * w) = (n * w) * d
    BY ONLY <1>1, rise \in Int, d \in Int
  <2> QED BY ONLY <1>2, <1>3, <2>1, <2>2
<1>7. ASSUME NEW k \in P PROVE D * y(b)[k] - F.a * x[k] - F.c = 0
  <2> DEFINE v == y(b)[k]
             t == x[k]
  <2>1. v \in Int /\ t \in Int /\ run * v = rise * t + d
    BY DEF Data
  <2> HIDE DEF v, t
  <2>2. run * (D * v - F.a * t - F.c) = D * (run * v) - (n * (run * s)) * t - run * F.c
    BY ONLY <1>1, <1>3, <1>4, <2>1
  <2>3. D * (rise * t + d) - (n * (rise * w)) * t - D * d = 0
    <3>1. (n * (rise * w)) * t = (n * w) * (rise * t)
      BY ONLY <1>1, <2>1, rise \in Int
    <3>2. D * (rise * t + d) = D * (rise * t) + D * d /\ D * (rise * t) \in Int /\ D * d \in Int
      BY ONLY <1>1, <2>1, rise \in Int, d \in Int
    <3> QED BY ONLY <1>3, <3>1, <3>2
  <2>4. run * (D * v - F.a * t - F.c) = 0
    BY ONLY <1>2, <1>6, <2>1, <2>2, <2>3
  <2>5. D * v - F.a * t - F.c \in Int /\ run # 0
    BY ONLY <1>1, <1>4, <2>1, run \in Nat \ {0}
  <2>6. D * v - F.a * t - F.c = 0
    BY ONLY <1>1, <2>4, <2>5, CancelZero
  <2> QED BY <2>6 DEF v, t
<1>8. \A k \in P : Off(b, P, k) = 0
  BY <1>7, MagnitudeIs DEF Off, D, F
<1>9. -RelDen * F.c <= D * th
  <2>1. D * (RelDen * (-d)) <= D * (run * th)
    <3>1. RelDen * (-d) \in Int /\ run * th \in Int
      BY ONLY <1>1, d \in Int
    <3> QED BY ONLY <1>1, <1>5, <3>1, TimesAtMost
  <2>2. D * (RelDen * (-d)) = (-RelDen) * (D * d) /\ D * (run * th) = run * (D * th)
    BY ONLY <1>1, d \in Int
  <2>3. (-RelDen) * (run * F.c) = run * (-RelDen * F.c)
    BY ONLY <1>1, <1>4
  <2>4. run * (-RelDen * F.c) <= run * (D * th)
    BY ONLY <1>6, <2>1, <2>2, <2>3
  <2>5. -RelDen * F.c \in Int /\ D * th \in Int
    BY ONLY <1>1, <1>4
  <2> QED BY ONLY run \in Nat \ {0}, <2>4, <2>5, CancelAtMost
<1>10. ASSUME NEW k \in P PROVE RelDen * Off(b, P, k) <= D * Theta(y(b)[k])
  <2>1. Theta(y(b)[k]) \in Nat /\ Off(b, P, k) = 0
    BY <1>8, TopIs
  <2>2. D * Theta(y(b)[k]) \in Nat
    BY ONLY <1>1, <2>1
  <2> QED BY ONLY <1>1, <2>1, <2>2
<1> QED BY <1>8, <1>9, <1>10 DEF Holds, D, F, th

\* Any input's points, enough for a regime, have a line through them.
LEMMA EnoughData ==
  ASSUME input \in Inputs, NEW P, P \subseteq Points, Enough(P)
  PROVE  Data(P) /\ P # {} /\ Den(P) > 0 /\ N(P) > 0
<1>1. Data(P) /\ Distinct(P)
  BY InputData
<1>2. PICK c \in P, e \in P : c # e
  BY <1>1, EnoughTwo DEF Data
<1> QED BY <1>1, <1>2, SpreadPositive

\* A block whose counts are on a line.
LEMMA OnLineFit ==
  ASSUME input \in Inputs, NEW P, P \subseteq Points, Enough(P), NEW b \in Blocks, OnLine(b, P)
  PROVE  (\A k \in P : Off(b, P, k) = 0) /\ Holds(b, P)
<1> DEFINE i == Min(P)
           j == Min(P \ {i})
           run == x[j] - x[i]
           rise == y(b)[j] - y(b)[i]
           d == run * y(b)[i] - rise * x[i]
<1>1. Data(P) /\ IsFiniteSet(P) /\ P # {} /\ Den(P) > 0
  BY EnoughData DEF Data
<1>2. P \subseteq Int
  <2>1. Len(x) \in Nat
    BY InputsAssumption DEF x
  <2> QED BY <2>1 DEF Points
<1>3. i \in P /\ \A k \in P : i <= k
  BY <1>1, <1>2, MinIs
<1>4. j \in P /\ j # i
  <2>1. IsFiniteSet(P \ {i}) /\ P \ {i} # {} /\ P \ {i} \subseteq Int
    <3>1. \E c, e \in P : c # e
      BY <1>1, EnoughTwo
    <3>2. P \ {i} # {}
      <4> HIDE DEF i
      <4> QED BY <3>1
    <3>3. P \ {i} \subseteq P
      OBVIOUS
    <3>4. IsFiniteSet(P \ {i})
      BY ONLY <1>1, <3>3, FS_Subset
    <3>5. P \ {i} \subseteq Int
      BY ONLY <1>2, <3>3
    <3> QED BY ONLY <3>2, <3>4, <3>5
  <2>2. j \in P \ {i}
    BY <2>1, MinIs
  <2> QED BY <2>2
<1>5. \A k \in P : x[k] \in Int /\ y(b)[k] \in Int
  BY <1>1 DEF Data
<1>6. run \in Nat \ {0}
  <2>1. i < j
    <3>1. i \in Int /\ j \in Int /\ i <= j /\ j # i
      BY ONLY <1>2, <1>3, <1>4
    <3> HIDE DEF i, j
    <3> QED BY ONLY <3>1
  <2>2. x[i] < x[j]
    BY <1>3, <1>4, <2>1, Rises
  <2> QED BY <1>3, <1>4, <1>5, <2>2
<1>7. rise \in Int /\ d \in Int
  <2>1. y(b)[i] \in Int /\ y(b)[j] \in Int /\ x[i] \in Int /\ run \in Int
    BY <1>3, <1>4, <1>5, <1>6
  <2>2. rise \in Int
    BY <2>1
  <2> HIDE DEF run, rise
  <2> QED BY ONLY <2>1, <2>2 DEF d
<1>8. /\ \A k \in P : (y(b)[k] - y(b)[i]) * run = rise * (x[k] - x[i])
      /\ RelDen * (rise * x[i] - y(b)[i] * run) <= run * Theta(Top(b, P))
  BY DEF OnLine
<1>9. x[i] \in Int /\ y(b)[i] \in Int /\ d = run * y(b)[i] - rise * x[i]
  BY <1>3, <1>5
<1> HIDE DEF run, rise, d, i, j
<1>10. ASSUME NEW k \in P PROVE run * y(b)[k] = rise * x[k] + d
  <2> DEFINE v == y(b)[k]
             t == x[k]
             vi == y(b)[i]
             ti == x[i]
  <2>1. v \in Int /\ t \in Int /\ vi \in Int /\ ti \in Int /\ d = run * vi - rise * ti
        /\ (v - vi) * run = rise * (t - ti)
    BY <1>5, <1>8, <1>9
  <2> HIDE DEF v, t, vi, ti
  <2>2. (v - vi) * run = run * v - run * vi /\ rise * (t - ti) = rise * t - rise * ti
    BY ONLY <1>6, <1>7, <2>1
  <2>3. run * v \in Int /\ run * vi \in Int /\ rise * t \in Int /\ rise * ti \in Int
    BY ONLY <1>6, <1>7, <2>1
  <2>4. run * v = rise * t + d
    BY ONLY <2>1, <2>2, <2>3
  <2> QED BY <2>4 DEF v, t
<1>11. RelDen * (-d) <= run * Theta(Top(b, P))
  <2>1. -d = rise * x[i] - y(b)[i] * run
    BY ONLY <1>6, <1>7, <1>9
  <2> QED BY ONLY <1>8, <2>1
<1> QED BY <1>1, <1>6, <1>7, <1>10, <1>11, LineFit

\* Where every block's counts are on a line nothing is irregular, a constant has no
\* slope, and the formula of the regime goes through the counts.
LEMMA LinesExact ==
  ASSUME input \in Inputs, NEW P, P \subseteq Points, Enough(P), \A b \in Work : OnLine(b, P)
  PROVE  /\ \A i \in P : Regime(P).irr[i] = 0
         /\ \A i \in P : Total(Regime(P), i) = Den(P) * Measured(i)
         /\ \A i \in P : Formula(Regime(P), x[i]) = Den(P) * Measured(i)
         /\ \A i \in P : Measured(i) \in Nat
<1>1. Data(P) /\ P # {} /\ Den(P) > 0 /\ N(P) > 0 /\ Work \subseteq Blocks
  BY EnoughData, Kinds
<1>2. \A b \in Work : (\A k \in P : Off(b, P, k) = 0) /\ Holds(b, P)
  BY <1>1, OnLineFit
<1>3. Irregular(P) = {}
  BY <1>2 DEF Irregular
<1>4. ASSUME NEW i \in P PROVE Regime(P).irr[i] = 0
  <2>1. SumFunctionOnSet(CountsAt(Irregular(P), i), Irregular(P)) = 0
    BY <1>3, SumEmpty
  <2>2. Rest(P)[i] = 0
    BY <2>1 DEF Rest
  <2> QED BY <2>2, RegimeIs
<1>5. ASSUME NEW i \in P
      PROVE  Total(Regime(P), i) = Den(P) * Measured(i) /\ Measured(i) \in Nat
  <2> DEFINE e == AffineOver(P, i)
             g == ConstantOver(P, i)
             u == CountsAt(Work, i)
  <2>1. ASSUME NEW b \in Work
        PROVE  /\ Fit(b, P).a * x[i] + Fit(b, P).c - Den(P) * y(b)[i] = 0
               /\ Fit(b, P).a \in Int /\ Fit(b, P).c \in Int /\ x[i] \in Int /\ y(b)[i] \in Int
    <3>1. /\ Fit(b, P).a \in Int /\ Fit(b, P).c \in Int /\ x[i] \in Int /\ y(b)[i] \in Int
          /\ Den(P) \in Int /\ b \in Blocks
      BY <1>1, FitTypes, SumTypes DEF Data
    <3>2. Off(b, P, i) = 0
      BY <1>2
    <3> DEFINE q == Den(P) * y(b)[i] - Fit(b, P).a * x[i] - Fit(b, P).c
    <3>3. Magnitude(q) = 0
      BY <3>2 DEF Off
    <3>4. q \in Int
      BY ONLY <3>1
    <3>5. q = 0
      BY <3>3, <3>4, MagnitudeIs
    <3>6. Fit(b, P).a * x[i] + Fit(b, P).c - Den(P) * y(b)[i] = -q
      BY ONLY <3>1
    <3> QED BY <3>1, <3>5, <3>6
  <2>2. \A b \in Affine(P) : e[b] = 0
    <3>1. \A b \in Affine(P) : e[b] = Fit(b, P).a * x[i] + Fit(b, P).c - Den(P) * y(b)[i] /\ b \in Work
      BY DEF AffineOver, Affine
    <3> QED BY <2>1, <3>1
  <2>3. ASSUME NEW b \in Constant(P) PROVE g[b] = 0
    <3>1. b \in Work /\ ~Scales(b, P)
      BY DEF Constant
    <3>2. Fit(b, P).a = 0
      BY <1>2, <3>1 DEF Scales
    <3>3. /\ N(P) \in Int /\ SX(P) \in Int /\ Slope(b, P) \in Int /\ N(P) # 0
          /\ SY(b, P) \in Int /\ Spread(P) \in Int
      BY <1>1, <3>1, SumTypes
    <3>4. Slope(b, P) = 0
      <4>1. N(P) * Slope(b, P) = 0
        BY <3>2, FitIs
      <4> QED BY ONLY <3>3, <4>1, CancelZero
    <3>5. Fit(b, P).mean = Fit(b, P).c
      <4>1. Fit(b, P).c = SY(b, P) * Spread(P) - SX(P) * Slope(b, P) /\ Fit(b, P).mean = SY(b, P) * Spread(P)
        BY FitIs
      <4> QED BY ONLY <3>3, <3>4, <4>1
    <3>6. g[b] = Fit(b, P).mean - Den(P) * y(b)[i]
      BY DEF ConstantOver
    <3>7. Fit(b, P).c - Den(P) * y(b)[i] = 0
      <4>1. /\ Fit(b, P).a * x[i] + Fit(b, P).c - Den(P) * y(b)[i] = 0
            /\ Fit(b, P).a \in Int /\ Fit(b, P).c \in Int
            /\ x[i] \in Int /\ y(b)[i] \in Int /\ Den(P) \in Int
        BY <1>1, <2>1, <3>1, SumTypes
      <4>2. Fit(b, P).a * x[i] + Fit(b, P).c = Fit(b, P).c
        BY ONLY <3>2, <4>1
      <4> QED BY ONLY <4>1, <4>2
    <3> QED BY <3>5, <3>6, <3>7
  <2>4. SumFunctionOnSet(e, Affine(P)) = 0 /\ SumFunctionOnSet(g, Constant(P)) = 0
    <3> HIDE DEF e, g
    <3> QED BY <2>2, <2>3, Kinds, SumZero
  <2>5. Total(Regime(P), i) - Den(P) * Measured(i) = 0
    BY <1>1, <2>4, TotalOver
  <2>6. Measured(i) \in Nat
    <3>1. Measured(i) = SumFunctionOnSet(u, Work)
      BY SumOver DEF Measured, CountsAt
    <3>2. \A b \in Work : u[b] \in Nat
      BY <1>1, PartTypes
    <3> HIDE DEF u
    <3> QED BY <3>1, <3>2, Kinds, SumNat
  <2>7. Total(Regime(P), i) \in Int /\ Den(P) * Measured(i) \in Int
    <3>1. /\ Regime(P).a \in Int /\ Regime(P).c \in Int /\ Regime(P).den \in Int /\ x[i] \in Int
          /\ Den(P) \in Int
      BY <1>1, RegimeTypes, SumTypes DEF Data
    <3>2. Total(Regime(P), i) = Regime(P).a * x[i] + Regime(P).c + Regime(P).den * 0
      BY <1>4 DEF Total, Formula
    <3> QED BY ONLY <2>6, <3>1, <3>2
  <2> QED BY ONLY <2>5, <2>6, <2>7
<1>6. ASSUME NEW i \in P PROVE Formula(Regime(P), x[i]) = Total(Regime(P), i)
  <2>1. /\ Regime(P).a \in Int /\ Regime(P).c \in Int /\ Regime(P).den \in Int /\ x[i] \in Int
    BY <1>1, RegimeTypes DEF Data
  <2>2. Total(Regime(P), i) = Formula(Regime(P), x[i]) + Regime(P).den * 0
    BY <1>4 DEF Total
  <2>3. Formula(Regime(P), x[i]) \in Int
    BY <2>1 DEF Formula
  <2> QED BY ONLY <2>1, <2>2, <2>3
<1> QED BY <1>4, <1>5, <1>6

\* Such a regime has no irregular work, and is not split.
LEMMA LinesRegular ==
  ASSUME input \in Inputs, NEW P, P \subseteq Points, Enough(P), \A b \in Work : OnLine(b, P)
  PROVE  ~ManyIrregular(Regime(P))
<1> DEFINE r == Regime(P)
           t == [i \in P |-> Total(r, i)]
<1>1. /\ Data(P) /\ Den(P) > 0 /\ r.points = P /\ r.den = Den(P) /\ Den(P) \in Nat
      /\ IsFiniteSet(P) /\ r.irr \in [P -> Nat]
  BY EnoughData, RegimeIs, RegimeTypes, SumTypes DEF Data
<1>2. /\ \A i \in P : r.irr[i] = 0
      /\ \A i \in P : Total(r, i) = Den(P) * Measured(i) /\ Measured(i) \in Nat
  BY LinesExact
<1> DEFINE rest == r.irr
<1>3. SumFunction(rest) = 0
  <2>1. DOMAIN rest = P /\ \A i \in P : rest[i] = 0
    BY <1>1, <1>2
  <2> HIDE DEF rest
  <2> QED BY <2>1, <1>1, SumOver, SumZero
<1>4. SumFunction(t) \in Nat
  <2>1. \A i \in P : t[i] \in Nat
    <3>1. \A i \in P : t[i] = Den(P) * Measured(i) /\ Measured(i) \in Nat
      BY <1>2
    <3>2. ASSUME NEW n \in Nat PROVE Den(P) * n \in Nat
      BY <1>1
    <3> QED BY <3>1, <3>2
  <2>2. DOMAIN t = P
    OBVIOUS
  <2> HIDE DEF t
  <2> QED BY <2>1, <2>2, <1>1, SumOver, SumNat
<1>5. ManyIrregular(r) <=> IrrDen * r.den * SumFunction(rest) > SumFunction(t)
  BY <1>1 DEF ManyIrregular
<1>6. IrrDen * r.den * 0 = 0
  <2>1. IrrDen \in Int /\ r.den \in Int
    BY <1>1, ToleranceAssumption
  <2> QED BY ONLY <2>1
<1> HIDE DEF t, rest
<1> QED BY <1>3, <1>4, <1>5, <1>6 DEF r

-----------------------------------------------------------------------------
(***************************************************************************)
(* What derive returns                                                     *)
(***************************************************************************)
\* One regime for all points if they are enough, or one for each side of a split.
Whole == regimes = IF Enough(Points) THEN <<Regime(Points)>> ELSE <<>>
SplitAt(i) ==
  /\ i \in Splits /\ Enough(1..i) /\ Enough(Upper(i))
  /\ regimes = <<Regime(1..i), Regime(Upper(i))>>
Derived == Whole \/ (Enough(Points) /\ MaySplit /\ \E i \in Splits : SplitAt(i))

IInv ==
  /\ input \in Inputs /\ done \in BOOLEAN
  /\ ~done => regimes = <<>>
  /\ done => Derived

\* What is derived from the same input is the same.
LEMMA SameInput ==
  ASSUME input' = input
  PROVE  /\ x' = x /\ Points' = Points /\ Splits' = Splits /\ (\A i : Upper(i)' = Upper(i))
         /\ (\A P : Regime(P)' = Regime(P))
         /\ (\A P : Enough(P)' <=> Enough(P))
         /\ MaySplit' <=> MaySplit
<1>1. x' = x /\ \A b : y(b)' = y(b)
  BY DEF x, y
<1>2. Points' = Points /\ Splits' = Splits /\ \A i : Upper(i)' = Upper(i)
  BY <1>1 DEF Points, Splits, Upper
<1>3. \A P : Spread(P)' = Spread(P) /\ Width(P)' = Width(P)
  BY <1>1 DEF Spread, Width
<1>4. \A P : Den(P)' = Den(P)
  BY <1>3 DEF Den
<1>5. \A b, P : Fit(b, P)' = Fit(b, P) /\ Top(b, P)' = Top(b, P)
  BY <1>1, <1>3 DEF Fit, Top
<1>6. \A b, P, i : Off(b, P, i)' = Off(b, P, i)
  BY <1>1, <1>4, <1>5 DEF Off
<1>7. \A b, P : (Holds(b, P)' <=> Holds(b, P)) /\ (Scales(b, P)' <=> Scales(b, P))
  BY <1>1, <1>3, <1>4, <1>5, <1>6 DEF Holds, Scales
<1>8. \A P : Affine(P)' = Affine(P) /\ Constant(P)' = Constant(P) /\ Irregular(P)' = Irregular(P)
  BY <1>7 DEF Affine, Constant, Irregular
<1>9. \A P : Regime(P)' = Regime(P)
  BY <1>1, <1>4, <1>5, <1>8 DEF Regime
<1>10. \A P : Enough(P)' <=> Enough(P)
  BY DEF Enough
<1>11. \A r : ManyIrregular(r)' <=> ManyIrregular(r)
  BY <1>1 DEF ManyIrregular, Total, Formula
<1>12. MaySplit' <=> MaySplit
  BY <1>1, <1>2, <1>9, <1>11 DEF MaySplit
<1> QED BY <1>1, <1>2, <1>9, <1>10, <1>12

\* The invariant holds initially, and in every state after it.
THEOREM Invariance == Spec => []IInv
<1>1. Init => IInv
  BY DEF Init, IInv
<1>2. IInv /\ [Next]_vars => IInv'
  <2> SUFFICES ASSUME IInv, [Next]_vars PROVE IInv'
    OBVIOUS
  <2>1. input' = input /\ input' \in Inputs
    BY DEF Next, Derive, IInv, vars
  <2>2. /\ Points' = Points /\ Splits' = Splits /\ (\A i : Upper(i)' = Upper(i))
        /\ (\A P : Regime(P)' = Regime(P))
        /\ (\A P : Enough(P)' <=> Enough(P))
        /\ MaySplit' <=> MaySplit
    BY <2>1, SameInput
  <2>3. CASE Derive
    <3>1. done' = TRUE
      BY <2>3 DEF Derive
    <3>2. CASE regimes' = IF Enough(Points) THEN <<Regime(Points)>> ELSE <<>>
      <4>1. Whole'
        BY <2>2, <3>2 DEF Whole
      <4> QED BY <2>1, <3>1, <4>1 DEF IInv, Derived
    <3>3. CASE /\ Enough(Points) /\ MaySplit
               /\ \E i \in Splits :
                    /\ Enough(1..i) /\ Enough(Upper(i))
                    /\ regimes' = <<Regime(1..i), Regime(Upper(i))>>
      <4>1. PICK i \in Splits :
              /\ Enough(1..i) /\ Enough(Upper(i))
              /\ regimes' = <<Regime(1..i), Regime(Upper(i))>>
        BY <3>3
      <4>2. SplitAt(i)'
        BY <2>2, <4>1 DEF SplitAt
      <4>3. MaySplit' /\ Enough(Points)'
        BY <2>2, <3>3
      <4>4. Derived'
        BY <2>2, <4>2, <4>3 DEF Derived
      <4> QED BY <2>1, <3>1, <4>4 DEF IInv
    <3> QED BY <2>3, <3>2, <3>3 DEF Derive
  <2>4. CASE UNCHANGED vars
    <3>1. done' = done /\ regimes' = regimes
      BY <2>4 DEF vars
    <3>2. (Whole => Whole') /\ \A i : SplitAt(i) => SplitAt(i)'
      BY <2>2, <3>1 DEF Whole, SplitAt
    <3>3. Derived => Derived'
      BY <2>2, <3>2 DEF Derived
    <3> QED BY <2>1, <3>1, <3>3 DEF IInv
  <2> QED BY <2>3, <2>4 DEF Next
<1> QED BY <1>1, <1>2, PTL DEF Spec

\* The regimes derived are of some of the points, enough for a line.
Of(r, P) == P \subseteq Points /\ Enough(P) /\ r = Regime(P)

\* What there is, when there is a regime.
LEMMA DerivedIs ==
  ASSUME IInv, regimes # <<>>
  PROVE  \/ Enough(Points) /\ regimes = <<Regime(Points)>>
         \/ /\ Enough(Points) /\ MaySplit
            /\ \E i \in Splits : SplitAt(i) /\ i \in Points /\ i + 1 \in Points
                                 /\ 1..i \subseteq Points /\ Upper(i) \subseteq Points
<1>1. Derived
  BY DEF IInv
<1>2. CASE Whole
  BY <1>2 DEF Whole
<1>3. CASE Enough(Points) /\ MaySplit /\ \E i \in Splits : SplitAt(i)
  <2>1. PICK i \in Splits : SplitAt(i)
    BY <1>3
  <2>2. Len(x) \in Nat
    BY InputsAssumption DEF x, IInv
  <2>3. i \in Int /\ 1 <= i /\ i + 1 <= Len(x)
    BY <2>2, ToleranceAssumption DEF Splits
  <2>4. i \in Points /\ i + 1 \in Points /\ 1..i \subseteq Points /\ Upper(i) \subseteq Points
    BY <2>2, <2>3 DEF Points, Upper
  <2> QED BY <1>3, <2>1, <2>4
<1> QED BY <1>1, <1>2, <1>3 DEF Derived

\* Every regime of a state has its types.
LEMMA RegimeOK ==
  ASSUME input \in Inputs, NEW r, NEW P, Of(r, P)
  PROVE  /\ r.points \subseteq Points /\ r.den \in Nat \ {0}
         /\ r.a \in Int /\ r.c \in Int /\ r.irr \in [r.points -> Nat]
<1>1. Data(P) /\ Den(P) > 0 /\ r = Regime(P) /\ P \subseteq Points
  BY EnoughData DEF Of
<1>2. r.points = P
  BY <1>1, RegimeIs
<1> QED BY <1>1, <1>2, RegimeTypes

\* Type correctness: every regime has a positive denominator, so there is a line to
\* speak of, whole coefficients and a table over its own points.
THEOREM TypeCorrect == Spec => []TypeOK
<1>1. IInv => TypeOK
  <2> SUFFICES ASSUME IInv PROVE TypeOK
    OBVIOUS
  <2>1. input \in Inputs /\ done \in BOOLEAN
    BY DEF IInv
  <2>2. CASE regimes = <<>>
    BY <2>1, <2>2 DEF TypeOK
  <2>3. CASE Enough(Points) /\ regimes = <<Regime(Points)>>
    <3>1. Of(Regime(Points), Points)
      BY <2>3 DEF Of
    <3>2. Len(regimes) = 1 /\ regimes[1] = Regime(Points)
      BY <2>3
    <3>3. \A n \in 1..Len(regimes) : Of(regimes[n], Points)
      BY <3>1, <3>2
    <3>4. \A n \in 1..Len(regimes) :
            /\ regimes[n].points \subseteq Points /\ regimes[n].den \in Nat \ {0}
            /\ regimes[n].a \in Int /\ regimes[n].c \in Int /\ regimes[n].irr \in [regimes[n].points -> Nat]
      BY <2>1, <3>3, RegimeOK
    <3> QED BY <2>1, <3>2, <3>4 DEF TypeOK
  <2>4. ASSUME NEW i \in Splits, SplitAt(i), 1..i \subseteq Points, Upper(i) \subseteq Points PROVE TypeOK
    <3>1. Of(Regime(1..i), 1..i) /\ Of(Regime(Upper(i)), Upper(i))
      BY <2>4 DEF Of, SplitAt
    <3>2. Len(regimes) = 2 /\ regimes[1] = Regime(1..i) /\ regimes[2] = Regime(Upper(i))
      BY <2>4 DEF SplitAt
    <3>3. \A n \in 1..Len(regimes) : \E P : Of(regimes[n], P)
      BY <3>1, <3>2
    <3>4. \A n \in 1..Len(regimes) :
            /\ regimes[n].points \subseteq Points /\ regimes[n].den \in Nat \ {0}
            /\ regimes[n].a \in Int /\ regimes[n].c \in Int /\ regimes[n].irr \in [regimes[n].points -> Nat]
      BY <2>1, <3>3, RegimeOK
    <3> QED BY <2>1, <3>2, <3>4 DEF TypeOK
  <2> QED BY <2>2, <2>3, <2>4, DerivedIs
<1> QED BY <1>1, Invariance, PTL

\* Counts that are affine in the state, whatever the points, the number of blocks and
\* the tolerances, give one regime and their exact cost.
THEOREM FormulaAlways == Spec => []FormulaExact
<1>1. IInv => FormulaExact
  <2> SUFFICES ASSUME IInv, done, Enough(Points), \A b \in Work : OnLine(b, Points)
               PROVE  /\ Len(regimes) = 1
                      /\ \A i \in Points : Formula(regimes[1], x[i]) = regimes[1].den * Measured(i)
    BY DEF FormulaExact
  <2>1. input \in Inputs /\ Derived
    BY DEF IInv
  <2>2. ~MaySplit
    BY <2>1, LinesRegular DEF MaySplit
  <2>3. regimes = <<Regime(Points)>>
    BY <2>1, <2>2 DEF Derived, Whole
  <2>4. Len(regimes) = 1 /\ regimes[1] = Regime(Points)
    BY <2>3
  <2>5. \A i \in Points : Formula(Regime(Points), x[i]) = Den(Points) * Measured(i)
    BY <2>1, LinesExact
  <2>6. Regime(Points).den = Den(Points)
    BY RegimeIs
  <2> QED BY <2>4, <2>5, <2>6
<1> QED BY <1>1, Invariance, PTL

\* The bound on the error of one regime.
Bounded(r, i) ==
  RelDen * Magnitude(Total(r, i) - r.den * Measured(i))
    <= r.den * (SumFunction([b \in Affine(r.points) |-> Theta(y(b)[i])])
                 + SumFunction([b \in Constant(r.points) |-> 2 * Theta(Top(b, r.points))]))

\* It holds of every regime of a state at its points.
LEMMA OfBounded ==
  ASSUME input \in Inputs, NEW P, P \subseteq Points, Enough(P), NEW i \in P
  PROVE  Bounded(Regime(P), i)
<1>1. Data(P) /\ Den(P) > 0 /\ Regime(P).points = P /\ Regime(P).den = Den(P)
  BY EnoughData, RegimeIs
<1>2. RelDen * Magnitude(Total(Regime(P), i) - Den(P) * Measured(i))
        <= Den(P) * (SumFunction([b \in Affine(P) |-> Theta(y(b)[i])])
                      + SumFunction([b \in Constant(P) |-> 2 * Theta(Top(b, P))]))
  BY <1>1, RegimeError
<1> QED BY <1>1, <1>2 DEF Bounded

\* At every observed point there is a regime that answers, of which it is a point, and
\* whose error there is within the tolerances of the blocks.
THEOREM ErrorAlways == Spec => []ErrorBounded
<1>1. IInv => ErrorBounded
  <2> SUFFICES ASSUME IInv, NEW k \in Points, regimes # <<>>
               PROVE  k \in regimes[For(x[k])].points /\ Bounded(regimes[For(x[k])], k)
    BY DEF ErrorBounded, Bounded
  <2>1. input \in Inputs
    BY DEF IInv
  <2>2. Len(x) \in Nat /\ \A j \in Points : x[j] \in Int
    <3>1. x \in Seq(Int)
      BY <2>1, InputsAssumption DEF x
    <3> QED BY <3>1 DEF Points
  <2>3. CASE Enough(Points) /\ regimes = <<Regime(Points)>>
    <3>1. Len(regimes) = 1 /\ regimes[1] = Regime(Points)
      BY <2>3
    <3>2. For(x[k]) = 1
      BY <3>1 DEF For
    <3>3. Bounded(Regime(Points), k) /\ Regime(Points).points = Points
      BY <2>1, <2>3, OfBounded, RegimeIs
    <3> QED BY <3>1, <3>2, <3>3
  <2>4. ASSUME NEW i \in Splits, SplitAt(i), i \in Points, i + 1 \in Points,
               1..i \subseteq Points, Upper(i) \subseteq Points
        PROVE  k \in regimes[For(x[k])].points /\ Bounded(regimes[For(x[k])], k)
    <3>1. /\ Len(regimes) = 2 /\ regimes[1] = Regime(1..i) /\ regimes[2] = Regime(Upper(i))
          /\ Enough(1..i) /\ Enough(Upper(i))
      BY <2>4 DEF SplitAt
    <3>2. regimes[1].points = 1..i /\ regimes[2].points = Upper(i)
      BY <3>1, RegimeIs
    <3>3. i \in Int /\ k \in Int /\ 1 <= i /\ 1 <= k /\ i + 1 <= Len(x) /\ k <= Len(x)
      BY <2>2, <2>4 DEF Points
    <3>4. Max(1..i) = i
      <4>1. IsFiniteSet(1..i) /\ 1..i # {} /\ 1..i \subseteq Int /\ i \in 1..i
        <5>1. IsFiniteSet(1..i)
          BY ONLY <3>3, FS_Interval
        <5>2. i \in 1..i /\ 1..i \subseteq Int
          BY ONLY <3>3
        <5> QED BY ONLY <5>1, <5>2
      <4>2. Max(1..i) \in 1..i /\ i <= Max(1..i)
        BY <4>1, MaxIs
      <4> QED BY <3>3, <4>2
    <3>5. Min(Upper(i)) = i + 1
      <4>1. IsFiniteSet(Upper(i)) /\ Upper(i) # {} /\ Upper(i) \subseteq Int /\ i + 1 \in Upper(i)
        <5>1. IsFiniteSet(i + 1..Len(x))
          <6>1. i + 1 \in Int /\ Len(x) \in Int
            BY <2>2, <3>3
          <6> QED BY ONLY <6>1, FS_Interval
        <5>2. i + 1 \in i + 1..Len(x) /\ i + 1..Len(x) \subseteq Int
          BY <2>2, <3>3
        <5> QED BY <5>1, <5>2 DEF Upper
      <4>2. Min(Upper(i)) \in Upper(i) /\ Min(Upper(i)) <= i + 1
        BY <4>1, MinIs
      <4> QED BY <2>2, <3>3, <4>2 DEF Upper
    <3>6. x[k] \in Int /\ x[i] \in Int /\ x[i + 1] \in Int
      BY <2>2, <2>4
    <3>7. CASE k <= i
      <4>1. x[k] <= x[i]
        BY <2>1, <2>4, <3>3, <3>6, <3>7, Rises
      <4>2. For(x[k]) = 1
        BY <3>2, <3>4, <4>1 DEF For
      <4>3. k \in 1..i
        BY <3>3, <3>7
      <4>4. Bounded(Regime(1..i), k)
        BY <2>1, <2>4, <3>1, <4>3, OfBounded
      <4> QED BY <3>1, <3>2, <4>2, <4>3, <4>4
    <3>8. CASE ~(k <= i)
      <4>1. i < k /\ (k = i + 1 \/ i + 1 < k)
        BY <3>3, <3>8
      <4>2. x[i] < x[k] /\ x[k] >= x[i + 1]
        BY <2>1, <2>4, <3>6, <4>1, Rises
      <4>3. For(x[k]) = 2
        BY <3>1, <3>2, <3>4, <3>5, <3>6, <4>2 DEF For
      <4>4. k \in Upper(i)
        BY <3>3, <3>8, <2>2 DEF Upper
      <4>5. Bounded(Regime(Upper(i)), k)
        BY <2>1, <2>4, <3>1, <4>4, OfBounded
      <4> QED BY <3>1, <3>2, <4>3, <4>4, <4>5
    <3> QED BY <3>7, <3>8
  <2> QED BY <2>3, <2>4, DerivedIs
<1> QED BY <1>1, Invariance, PTL
=============================================================================
