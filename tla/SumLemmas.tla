--------------------------- MODULE SumLemmas ---------------------------
(***************************************************************************)
(* What the sums and folds of the other modules obey: SumFunctionOnSet of  *)
(* the community modules, over a finite set, and FoldLeft, over a          *)
(* sequence.  Both are recursive over subsets, and the induction theorems  *)
(* of the library have operators as parameters; so the induction is set up *)
(* here from WFMin, for a set G of the sets that have the property.        *)
(* The last part is about InOrder.                                         *)
(***************************************************************************)
EXTENDS FiniteSetsExt, Ordering, FiniteSetTheorems, TLAPS

-----------------------------------------------------------------------------
(***************************************************************************)
(* Induction                                                               *)
(***************************************************************************)
\* A set of numbers has a least one.
LEMMA LeastNat ==
  ASSUME NEW T, T \subseteq Nat, T # {}
  PROVE  \E n \in T : \A m \in T : n <= m
<1> DEFINE R == OpToRel(<, Nat)
<1>1. IsWellFoundedOn(R, Nat)
  BY NatLessThanWellFounded
<1>2. \A m, n \in Nat : <<m, n>> \in R <=> m < n
  BY DEF OpToRel
<1> HIDE DEF R
<1>3. PICK n \in T : \A m \in T : ~ (<<m, n>> \in R)
  BY ONLY <1>1, T \subseteq Nat, T # {}, WFMin
<1>4. \A m \in T : ~(m < n)
  BY <1>2, <1>3
<1> QED BY <1>4

\* A set has what every set has that has it when its smaller sets do.
LEMMA SetInduction ==
  ASSUME NEW S, IsFiniteSet(S), NEW G,
         \A T \in SUBSET S : (\A x \in T : T \ {x} \in G) => T \in G
  PROVE  S \in G
<1> SUFFICES ASSUME S \notin G PROVE FALSE
  OBVIOUS
<1> DEFINE Bad == {T \in SUBSET S : T \notin G}
           Sizes == {Cardinality(T) : T \in Bad}
<1>1. \A T \in SUBSET S : IsFiniteSet(T) /\ Cardinality(T) \in Nat
  BY FS_Subset, FS_CardinalityType
<1>2. PICK n \in Sizes : \A m \in Sizes : n <= m
  <2>1. Sizes \subseteq Nat /\ Sizes # {}
    BY <1>1
  <2> HIDE DEF Sizes
  <2> QED BY <2>1, LeastNat
<1>3. PICK T \in Bad : Cardinality(T) = n
  OBVIOUS
<1>4. ASSUME NEW x \in T PROVE T \ {x} \in G
  <2>1. T \ {x} \in SUBSET S /\ Cardinality(T \ {x}) = n - 1 /\ n \in Nat
    BY <1>1, <1>3, FS_RemoveElement
  <2>2. T \ {x} \notin Bad
    BY <1>2, <2>1
  <2> QED BY <2>1, <2>2
<1> QED BY <1>3, <1>4

-----------------------------------------------------------------------------
(***************************************************************************)
(* The recursion is well defined                                           *)
(***************************************************************************)
\* The recursion, as FoldFunctionOnSet and MapThenFoldSet define it.
Pick(s) == CHOOSE x \in s : TRUE
At(g, f, s) == IF s = {} THEN 0 ELSE f[Pick(s)] + g[s \ {Pick(s)}]
IsRec(g, f, S) == g = [s \in SUBSET S |-> At(g, f, s)]
Rec(f, S) == CHOOSE g : IsRec(g, f, S)

\* A sum is the recursion's value for the whole set.
LEMMA Unfold == ASSUME NEW f, NEW S PROVE SumFunctionOnSet(f, S) = Rec(f, S)[S]
BY DEF SumFunctionOnSet, FoldFunctionOnSet, MapThenFoldSet, Rec, IsRec, At, Pick

\* What is picked of a set is in it.
LEMMA PickIn == ASSUME NEW S, S # {} PROVE Pick(S) \in S
BY DEF Pick

\* A finite set has one function that satisfies the recursion on its subsets.
LEMMA RecExists ==
  ASSUME NEW f, NEW S, IsFiniteSet(S)
  PROVE  IsRec(Rec(f, S), f, S)
<1> DEFINE UpTo(n) == {s \in SUBSET S : Cardinality(s) <= n}
           Good == {n \in Nat : \E g : \A s \in UpTo(n) : g[s] = At(g, f, s)}
<1>1. \A s \in SUBSET S : IsFiniteSet(s) /\ Cardinality(s) \in Nat
  BY FS_Subset, FS_CardinalityType
<1>2. 0 \in Good
  <2> DEFINE g == [s \in SUBSET S |-> 0]
  <2>1. \A s \in UpTo(0) : g[s] = At(g, f, s)
    BY <1>1, FS_EmptySet DEF At
  <2> QED BY <2>1
<1>3. ASSUME NEW n \in Good PROVE n + 1 \in Good
  <2>1. PICK g : \A s \in UpTo(n) : g[s] = At(g, f, s)
    OBVIOUS
  <2> DEFINE h == [s \in SUBSET S |-> At(g, f, s)]
  <2>2. ASSUME NEW s \in UpTo(n + 1) PROVE h[s] = At(h, f, s)
    <3>1. CASE s = {}
      BY <3>1 DEF At
    <3>2. CASE s # {}
      <4>1. /\ s \ {Pick(s)} \in SUBSET S /\ Cardinality(s \ {Pick(s)}) = Cardinality(s) - 1
            /\ Cardinality(s) \in Nat
        BY <3>2, <1>1, PickIn, FS_RemoveElement
      <4>2. s \ {Pick(s)} \in UpTo(n)
        BY <4>1
      <4>3. h[s \ {Pick(s)}] = g[s \ {Pick(s)}]
        BY <2>1, <4>2
      <4>4. h[s] = At(g, f, s)
        OBVIOUS
      <4> HIDE DEF h
      <4> QED BY <3>2, <4>3, <4>4 DEF At
    <3> QED BY <3>1, <3>2
  <2> HIDE DEF h
  <2> QED BY <2>2
<1>4. Good = Nat
  <2> SUFFICES ASSUME Nat \ Good # {} PROVE FALSE
    OBVIOUS
  <2>1. PICK n \in Nat \ Good : \A m \in Nat \ Good : n <= m
    <3> HIDE DEF Good
    <3> QED BY LeastNat
  <2>2. n # 0
    BY <1>2
  <2>3. n - 1 \in Nat /\ n - 1 \in Good
    <3>1. n - 1 \in Nat /\ ~(n <= n - 1)
      BY <2>2
    <3> HIDE DEF Good
    <3> QED BY <2>1, <3>1
  <2>4. (n - 1) + 1 \in Good
    <3> HIDE DEF Good
    <3> QED BY <2>3, <1>3
  <2> QED BY <2>3, <2>4
<1>5. PICK g : \A s \in UpTo(Cardinality(S)) : g[s] = At(g, f, s)
  BY <1>1, <1>4
<1>6. \A s \in SUBSET S : s \in UpTo(Cardinality(S))
  BY FS_Subset, FS_CardinalityType
<1> DEFINE h == [s \in SUBSET S |-> g[s]]
<1>7. ASSUME NEW s \in SUBSET S PROVE At(h, f, s) = h[s]
  <2>1. At(h, f, s) = At(g, f, s)
    BY DEF At
  <2> QED BY <2>1, <1>5, <1>6
<1>8. IsRec(h, f, S)
  BY <1>7 DEF IsRec
<1> HIDE DEF h
<1> QED BY <1>8 DEF Rec

\* So the recursion may be unfolded once, at every subset.
LEMMA RecAt ==
  ASSUME NEW f, NEW S, IsFiniteSet(S), NEW s \in SUBSET S
  PROVE  Rec(f, S)[s] = IF s = {} THEN 0 ELSE f[Pick(s)] + Rec(f, S)[s \ {Pick(s)}]
<1>1. PICK g : g = Rec(f, S)
  OBVIOUS
<1>2. IsRec(g, f, S)
  BY <1>1, RecExists
<1>3. g[s] = At(g, f, s)
  BY <1>2 DEF IsRec
<1> QED BY <1>1, <1>3 DEF At

\* A subset has the same sum in every set it belongs to, and so for every function
\* that agrees on it.
LEMMA RecSame ==
  ASSUME NEW f, NEW g, NEW S, NEW T, IsFiniteSet(S), IsFiniteSet(T),
         NEW U, U \subseteq S, U \subseteq T, \A x \in U : f[x] = g[x]
  PROVE  Rec(f, S)[U] = Rec(g, T)[U]
<1> DEFINE G == {s \in SUBSET U : Rec(f, S)[s] = Rec(g, T)[s]}
<1>1. IsFiniteSet(U)
  BY FS_Subset
<1>2. ASSUME NEW s \in SUBSET U, \A x \in s : s \ {x} \in G PROVE s \in G
  <2>1. s \in SUBSET S /\ s \in SUBSET T
    OBVIOUS
  <2>2. CASE s = {}
    BY <2>1, <2>2, RecAt
  <2>3. CASE s # {}
    <3>1. Pick(s) \in s
      BY <2>3, PickIn
    <3>2. Rec(f, S)[s \ {Pick(s)}] = Rec(g, T)[s \ {Pick(s)}] /\ f[Pick(s)] = g[Pick(s)]
      BY <3>1, <1>2
    <3> QED BY <2>1, <2>3, <3>2, RecAt
  <2> QED BY <2>2, <2>3
<1>3. U \in G
  <2> HIDE DEF G
  <2> QED BY <1>1, <1>2, SetInduction
<1> QED BY <1>3

-----------------------------------------------------------------------------
(***************************************************************************)
(* Sums                                                                    *)
(***************************************************************************)
\* The sum of nothing.
LEMMA SumEmpty == ASSUME NEW f PROVE SumFunctionOnSet(f, {}) = 0
<1>1. Rec(f, {})[{}] = 0
  BY RecAt, FS_EmptySet
<1> QED BY <1>1, Unfold

\* A sum takes one element after another.
LEMMA SumPick ==
  ASSUME NEW f, NEW S, IsFiniteSet(S), S # {}
  PROVE  Pick(S) \in S /\ SumFunctionOnSet(f, S) = f[Pick(S)] + SumFunctionOnSet(f, S \ {Pick(S)})
<1>1. Rec(f, S)[S] = f[Pick(S)] + Rec(f, S)[S \ {Pick(S)}]
  BY RecAt
<1>2. Rec(f, S)[S \ {Pick(S)}] = Rec(f, S \ {Pick(S)})[S \ {Pick(S)}]
  <2>1. IsFiniteSet(S \ {Pick(S)})
    BY FS_Subset
  <2> QED BY <2>1, RecSame
<1> QED BY <1>1, <1>2, Unfold, PickIn

\* A sum depends on the values of the function in the set, and on nothing else.
LEMMA SumSame ==
  ASSUME NEW f, NEW g, NEW S, IsFiniteSet(S), \A x \in S : f[x] = g[x]
  PROVE  SumFunctionOnSet(f, S) = SumFunctionOnSet(g, S)
BY RecSame, Unfold

\* The type of a sum.
LEMMA SumInt ==
  ASSUME NEW f, NEW S, IsFiniteSet(S), \A x \in S : f[x] \in Int
  PROVE  SumFunctionOnSet(f, S) \in Int
<1> DEFINE G == {s \in SUBSET S : SumFunctionOnSet(f, s) \in Int}
<1>1. ASSUME NEW s \in SUBSET S, \A x \in s : s \ {x} \in G PROVE s \in G
  <2>1. CASE s = {}
    BY <2>1, SumEmpty
  <2>2. CASE s # {}
    <3>1. Pick(s) \in s /\ SumFunctionOnSet(f, s) = f[Pick(s)] + SumFunctionOnSet(f, s \ {Pick(s)})
      BY <2>2, SumPick, FS_Subset
    <3>2. SumFunctionOnSet(f, s \ {Pick(s)}) \in Int
      BY <1>1, <3>1
    <3> QED BY <3>1, <3>2
  <2> QED BY <2>1, <2>2
<1>2. S \in G
  <2> HIDE DEF G
  <2> QED BY <1>1, SetInduction
<1> QED BY <1>2

\* A sum of natural numbers is one.
LEMMA SumNat ==
  ASSUME NEW f, NEW S, IsFiniteSet(S), \A x \in S : f[x] \in Nat
  PROVE  SumFunctionOnSet(f, S) \in Nat
<1> DEFINE G == {s \in SUBSET S : SumFunctionOnSet(f, s) \in Nat}
<1>1. ASSUME NEW s \in SUBSET S, \A x \in s : s \ {x} \in G PROVE s \in G
  <2>1. CASE s = {}
    BY <2>1, SumEmpty
  <2>2. CASE s # {}
    <3>1. Pick(s) \in s /\ SumFunctionOnSet(f, s) = f[Pick(s)] + SumFunctionOnSet(f, s \ {Pick(s)})
      BY <2>2, SumPick, FS_Subset
    <3>2. SumFunctionOnSet(f, s \ {Pick(s)}) \in Nat
      BY <1>1, <3>1
    <3> QED BY <3>1, <3>2
  <2> QED BY <2>1, <2>2
<1>2. S \in G
  <2> HIDE DEF G
  <2> QED BY <1>1, SetInduction
<1> QED BY <1>2

\* The order in which a sum is taken does not matter.
LEMMA SumTake ==
  ASSUME NEW f, NEW S, IsFiniteSet(S), \A x \in S : f[x] \in Int, NEW a \in S
  PROVE  SumFunctionOnSet(f, S) = f[a] + SumFunctionOnSet(f, S \ {a})
<1> DEFINE G == {s \in SUBSET S : \A x \in s : SumFunctionOnSet(f, s) = f[x] + SumFunctionOnSet(f, s \ {x})}
<1>1. \A s \in SUBSET S : IsFiniteSet(s) /\ SumFunctionOnSet(f, s) \in Int
  BY SumInt, FS_Subset
<1>2. ASSUME NEW s \in SUBSET S, \A x \in s : s \ {x} \in G,
             NEW x \in s
      PROVE  SumFunctionOnSet(f, s) = f[x] + SumFunctionOnSet(f, s \ {x})
  <2>1. PICK c : c = Pick(s)
    OBVIOUS
  <2>2. c \in s /\ SumFunctionOnSet(f, s) = f[c] + SumFunctionOnSet(f, s \ {c})
    BY <2>1, <1>1, SumPick
  <2>3. CASE x = c
    BY <2>2, <2>3
  <2>4. CASE x # c
    <3> DEFINE rest == s \ {c, x}
    <3>1. (s \ {c}) \ {x} = rest /\ (s \ {x}) \ {c} = rest /\ rest \in SUBSET S
      OBVIOUS
    <3>2. SumFunctionOnSet(f, s \ {c}) = f[x] + SumFunctionOnSet(f, rest)
      BY <1>2, <2>2, <2>4, <3>1
    <3>3. SumFunctionOnSet(f, s \ {x}) = f[c] + SumFunctionOnSet(f, rest)
      BY <1>2, <2>2, <2>4, <3>1
    <3>4. f[x] \in Int /\ f[c] \in Int /\ SumFunctionOnSet(f, rest) \in Int
      BY <2>2, <1>1, <3>1
    <3> HIDE DEF rest
    <3> QED BY <2>2, <3>2, <3>3, <3>4
  <2> QED BY <2>3, <2>4
<1>3. S \in G
  <2>1. ASSUME NEW s \in SUBSET S, \A x \in s : s \ {x} \in G PROVE s \in G
    BY <2>1, <1>2
  <2> HIDE DEF G
  <2> QED BY <2>1, SetInduction
<1> QED BY <1>3

\* One element more.
LEMMA SumAdd ==
  ASSUME NEW f, NEW S, IsFiniteSet(S), NEW a, a \notin S, \A x \in S \cup {a} : f[x] \in Int
  PROVE  SumFunctionOnSet(f, S \cup {a}) = f[a] + SumFunctionOnSet(f, S)
<1>1. IsFiniteSet(S \cup {a}) /\ (S \cup {a}) \ {a} = S
  BY FS_AddElement
<1>2. a \in S \cup {a}
  OBVIOUS
<1> QED BY <1>1, <1>2, SumTake

\* One term changes.
LEMMA SumChange ==
  ASSUME NEW f, NEW g, NEW S, IsFiniteSet(S), NEW a \in S,
         \A x \in S : f[x] \in Int /\ g[x] \in Int, \A x \in S : x # a => g[x] = f[x]
  PROVE  SumFunctionOnSet(g, S) = SumFunctionOnSet(f, S) + (g[a] - f[a])
<1>1. IsFiniteSet(S \ {a})
  BY FS_Subset
<1>2. SumFunctionOnSet(g, S \ {a}) = SumFunctionOnSet(f, S \ {a}) /\ SumFunctionOnSet(f, S \ {a}) \in Int
  BY <1>1, SumSame, SumInt
<1>3. SumFunctionOnSet(g, S) = g[a] + SumFunctionOnSet(g, S \ {a}) /\ SumFunctionOnSet(f, S) = f[a] + SumFunctionOnSet(f, S \ {a})
  BY SumTake
<1>4. g[a] \in Int /\ f[a] \in Int
  OBVIOUS
<1> QED BY ONLY <1>2, <1>3, <1>4

\* A sum of zeros.
LEMMA SumZero ==
  ASSUME NEW f, NEW S, IsFiniteSet(S), \A x \in S : f[x] = 0
  PROVE  SumFunctionOnSet(f, S) = 0
<1> DEFINE G == {s \in SUBSET S : SumFunctionOnSet(f, s) = 0}
<1>1. ASSUME NEW s \in SUBSET S, \A x \in s : s \ {x} \in G PROVE s \in G
  <2>1. CASE s = {}
    BY <2>1, SumEmpty
  <2>2. CASE s # {}
    <3>1. Pick(s) \in s /\ SumFunctionOnSet(f, s) = f[Pick(s)] + SumFunctionOnSet(f, s \ {Pick(s)})
      BY <2>2, SumPick, FS_Subset
    <3>2. SumFunctionOnSet(f, s \ {Pick(s)}) = 0 /\ f[Pick(s)] = 0
      BY <1>1, <3>1
    <3> QED BY <3>1, <3>2
  <2> QED BY <2>1, <2>2
<1>2. S \in G
  <2> HIDE DEF G
  <2> QED BY <1>1, SetInduction
<1> QED BY <1>2

\* Terms that are 0 do not matter.
LEMMA SumSupport ==
  ASSUME NEW f, NEW S, IsFiniteSet(S), \A x \in S : f[x] \in Int,
         NEW T \in SUBSET S, \A x \in S \ T : f[x] = 0
  PROVE  SumFunctionOnSet(f, T) = SumFunctionOnSet(f, S)
<1> DEFINE G == {s \in SUBSET S : SumFunctionOnSet(f, s \cap T) = SumFunctionOnSet(f, s)}
<1>1. ASSUME NEW s \in SUBSET S, \A x \in s : s \ {x} \in G PROVE s \in G
  <2>1. CASE s \subseteq T
    <3>1. s \cap T = s
      BY <2>1
    <3> QED BY <3>1
  <2>2. ASSUME NEW x \in s, x \notin T PROVE s \in G
    <3>1. (s \ {x}) \cap T = s \cap T
      BY <2>2
    <3>2. SumFunctionOnSet(f, s \cap T) = SumFunctionOnSet(f, s \ {x})
      BY <1>1, <2>2, <3>1
    <3>3. SumFunctionOnSet(f, s) = f[x] + SumFunctionOnSet(f, s \ {x}) /\ IsFiniteSet(s)
      BY FS_Subset, SumTake
    <3>4. f[x] = 0 /\ SumFunctionOnSet(f, s \ {x}) \in Int
      BY <2>2, <3>3, SumInt, FS_Subset
    <3> QED BY <3>2, <3>3, <3>4
  <2> QED BY <2>1, <2>2
<1>2. S \in G
  <2> HIDE DEF G
  <2> QED BY <1>1, SetInduction
<1>3. S \cap T = T
  OBVIOUS
<1> QED BY <1>2, <1>3

\* The sum of sums.
LEMMA SumPlus ==
  ASSUME NEW f, NEW g, NEW h, NEW S, IsFiniteSet(S),
         \A x \in S : f[x] \in Int /\ g[x] \in Int /\ h[x] = f[x] + g[x]
  PROVE  SumFunctionOnSet(h, S) = SumFunctionOnSet(f, S) + SumFunctionOnSet(g, S)
<1> DEFINE G == {s \in SUBSET S :
             SumFunctionOnSet(h, s) = SumFunctionOnSet(f, s) + SumFunctionOnSet(g, s)}
<1>1. ASSUME NEW s \in SUBSET S, \A x \in s : s \ {x} \in G PROVE s \in G
  <2>1. CASE s = {}
    BY <2>1, SumEmpty
  <2>2. CASE s # {}
    <3>1. PICK c \in s : c = Pick(s)
      BY <2>2, PickIn
    <3>2. IsFiniteSet(s) /\ IsFiniteSet(s \ {c})
      BY FS_Subset
    <3>3. /\ SumFunctionOnSet(f, s) = f[c] + SumFunctionOnSet(f, s \ {c})
          /\ SumFunctionOnSet(g, s) = g[c] + SumFunctionOnSet(g, s \ {c})
          /\ SumFunctionOnSet(h, s) = h[c] + SumFunctionOnSet(h, s \ {c})
      BY <3>1, <3>2, SumPick
    <3>4. SumFunctionOnSet(h, s \ {c}) = SumFunctionOnSet(f, s \ {c}) + SumFunctionOnSet(g, s \ {c})
      BY <1>1, <3>1
    <3>5. SumFunctionOnSet(f, s \ {c}) \in Int /\ SumFunctionOnSet(g, s \ {c}) \in Int
      BY <3>2, SumInt
    <3>6. f[c] \in Int /\ g[c] \in Int /\ h[c] = f[c] + g[c]
      BY <3>1
    <3>7. SumFunctionOnSet(h, s) = SumFunctionOnSet(f, s) + SumFunctionOnSet(g, s)
      BY ONLY <3>3, <3>4, <3>5, <3>6
    <3> QED BY <3>7
  <2> QED BY <2>1, <2>2
<1>2. S \in G
  <2> HIDE DEF G
  <2> QED BY <1>1, SetInduction
<1> QED BY <1>2

\* The sum over two disjoint sets.
LEMMA SumUnion ==
  ASSUME NEW f, NEW S, NEW T, IsFiniteSet(S), IsFiniteSet(T), S \cap T = {},
         \A x \in S \cup T : f[x] \in Int
  PROVE  SumFunctionOnSet(f, S \cup T) = SumFunctionOnSet(f, S) + SumFunctionOnSet(f, T)
<1> DEFINE U == S \cup T
           g == [x \in U |-> IF x \in S THEN f[x] ELSE 0]
           h == [x \in U |-> IF x \in T THEN f[x] ELSE 0]
<1>1. IsFiniteSet(U)
  BY FS_Union
<1>2. SumFunctionOnSet(f, U) = SumFunctionOnSet(g, U) + SumFunctionOnSet(h, U)
  BY <1>1, SumPlus
<1>3. SumFunctionOnSet(g, U) = SumFunctionOnSet(g, S) /\ SumFunctionOnSet(g, S) = SumFunctionOnSet(f, S)
  BY <1>1, SumSupport, SumSame
<1>4. SumFunctionOnSet(h, U) = SumFunctionOnSet(h, T) /\ SumFunctionOnSet(h, T) = SumFunctionOnSet(f, T)
  BY <1>1, SumSupport, SumSame
<1> QED BY <1>2, <1>3, <1>4

\* In S, g is f with d more at a.
OneMore(f, g, S, a, d) ==
  d \in Int /\ \A x \in S : f[x] \in Int /\ g[x] = f[x] + (IF x = a THEN d ELSE 0)

\* Then its sum is d more, if a is in S.
LEMMA SumOneMore ==
  ASSUME NEW f, NEW g, NEW S, IsFiniteSet(S), NEW a, NEW d, OneMore(f, g, S, a, d)
  PROVE  SumFunctionOnSet(g, S) = SumFunctionOnSet(f, S) + (IF a \in S THEN d ELSE 0)
<1> USE DEF OneMore
<1>1. \A x \in S : f[x] \in Int /\ g[x] \in Int
  OBVIOUS
<1>2. SumFunctionOnSet(f, S) \in Int
  BY <1>1, SumInt
<1>3. CASE a \in S
  <2>1. \A x \in S : x # a => g[x] = f[x]
    OBVIOUS
  <2>2. SumFunctionOnSet(g, S) = SumFunctionOnSet(f, S) + (g[a] - f[a])
    BY ONLY <1>1, <1>3, <2>1, IsFiniteSet(S), SumChange
  <2>3. g[a] = f[a] + d /\ f[a] \in Int /\ d \in Int
    BY <1>3
  <2> QED BY <1>2, <1>3, <2>2, <2>3
<1>4. CASE a \notin S
  <2>1. \A x \in S : f[x] = g[x]
    BY <1>4
  <2>2. SumFunctionOnSet(f, S) = SumFunctionOnSet(g, S)
    BY ONLY <2>1, IsFiniteSet(S), SumSame
  <2> QED BY <1>2, <1>4, <2>2
<1> QED BY <1>3, <1>4

-----------------------------------------------------------------------------
(***************************************************************************)
(* Sums over images and tables                                             *)
(***************************************************************************)
ImageOf(e, S) == {e[x] : x \in S}

\* The image of a finite set is finite.
LEMMA ImageFinite ==
  ASSUME NEW e, NEW S, IsFiniteSet(S)
  PROVE  IsFiniteSet(ImageOf(e, S))
<1> DEFINE g == [x \in S |-> e[x]]
<1>1. g \in Surjection(S, ImageOf(e, S))
  BY DEF Surjection, ImageOf
<1> HIDE DEF g
<1> QED BY <1>1, FS_Surjection

\* On S, e is injective, and h is f after e.
Renames(e, f, h, S) ==
  /\ \A x, y \in S : e[x] = e[y] => x = y
  /\ \A x \in S : h[x] = f[e[x]] /\ h[x] \in Int

\* A sum does not depend on what its terms are called.
LEMMA SumImage ==
  ASSUME NEW f, NEW e, NEW h, NEW S, IsFiniteSet(S), Renames(e, f, h, S)
  PROVE  SumFunctionOnSet(f, ImageOf(e, S)) = SumFunctionOnSet(h, S)
<1> USE DEF Renames
<1> DEFINE G == {s \in SUBSET S : SumFunctionOnSet(f, ImageOf(e, s)) = SumFunctionOnSet(h, s)}
<1>1. ASSUME NEW s \in SUBSET S, \A x \in s : s \ {x} \in G PROVE s \in G
  <2>1. CASE s = {}
    <3>1. ImageOf(e, s) = {}
      BY <2>1 DEF ImageOf
    <3> QED BY <2>1, <3>1, SumEmpty
  <2>2. CASE s # {}
    <3>1. PICK a \in s : TRUE
      BY <2>2
    <3> DEFINE u == s \ {a}
    <3>2. IsFiniteSet(s) /\ IsFiniteSet(u) /\ IsFiniteSet(ImageOf(e, u))
      BY FS_Subset, ImageFinite
    <3>3. \A x \in s : h[x] \in Int
      OBVIOUS
    <3>4. SumFunctionOnSet(h, s) = h[a] + SumFunctionOnSet(h, u)
      BY ONLY <3>1, <3>2, <3>3, SumTake
    <3>5. ImageOf(e, s) = ImageOf(e, u) \cup {e[a]} /\ e[a] \notin ImageOf(e, u)
      BY <3>1 DEF ImageOf
    <3>6. \A y \in ImageOf(e, u) \cup {e[a]} : f[y] \in Int
      <4>1. \A x \in s : f[e[x]] \in Int
        OBVIOUS
      <4> QED BY <4>1, <3>1 DEF ImageOf
    <3>7. SumFunctionOnSet(f, ImageOf(e, u) \cup {e[a]}) = f[e[a]] + SumFunctionOnSet(f, ImageOf(e, u))
      BY ONLY <3>2, <3>5, <3>6, SumAdd
    <3>8. SumFunctionOnSet(f, ImageOf(e, u)) = SumFunctionOnSet(h, u) /\ h[a] = f[e[a]]
      BY <1>1, <3>1
    <3> QED BY <3>4, <3>5, <3>7, <3>8
  <2> QED BY <2>1, <2>2
<1>2. S \in G
  <2> HIDE DEF G
  <2> QED BY ONLY IsFiniteSet(S), <1>1, SetInduction
<1> QED BY <1>2

\* d is the table c with rows and columns exchanged.
Transposes(d, c, S, T) == \A x \in S, y \in T : d[y][x] = c[x][y] /\ c[x][y] \in Int
\* rows are the sums of the rows of c.
RowSums(rows, c, S, T) == \A x \in S : rows[x] = SumFunctionOnSet(c[x], T)

\* A table may be summed by rows or by columns.
LEMMA SumSwap ==
  ASSUME NEW c, NEW d, NEW S, NEW T, IsFiniteSet(S), IsFiniteSet(T), Transposes(d, c, S, T),
         NEW rows, RowSums(rows, c, S, T), NEW columns, RowSums(columns, d, T, S)
  PROVE  SumFunctionOnSet(rows, S) = SumFunctionOnSet(columns, T)
<1> USE DEF Transposes, RowSums
<1> DEFINE Part(s) == [y \in T |-> SumFunctionOnSet(d[y], s)]
           G == {s \in SUBSET S : SumFunctionOnSet(rows, s) = SumFunctionOnSet(Part(s), T)}
<1>1. ASSUME NEW s \in SUBSET S, \A x \in s : s \ {x} \in G PROVE s \in G
  <2>1. CASE s = {}
    <3>1. \A y \in T : Part(s)[y] = 0
      BY <2>1, SumEmpty
    <3> HIDE DEF Part
    <3>2. SumFunctionOnSet(Part(s), T) = 0
      BY <3>1, SumZero
    <3> QED BY <2>1, <3>2, SumEmpty
  <2>2. CASE s # {}
    <3>1. PICK a \in s : TRUE
      BY <2>2
    <3> DEFINE u == s \ {a}
    <3>2. IsFiniteSet(s) /\ IsFiniteSet(u)
      BY FS_Subset
    <3>3. \A x \in s : rows[x] \in Int
      <4>1. ASSUME NEW x \in s PROVE SumFunctionOnSet(c[x], T) \in Int
        BY SumInt
      <4> QED BY <4>1
    <3>4. SumFunctionOnSet(rows, s) = rows[a] + SumFunctionOnSet(rows, u) /\ rows[a] = SumFunctionOnSet(c[a], T)
      BY <3>1, <3>2, <3>3, SumTake
    <3>5. ASSUME NEW y \in T
          PROVE  /\ c[a][y] \in Int /\ Part(u)[y] \in Int
                 /\ Part(s)[y] = c[a][y] + Part(u)[y]
      <4> DEFINE g == d[y]
      <4>1. (\A x \in s : g[x] \in Int) /\ g[a] = c[a][y]
        BY <3>1
      <4>2. Part(u)[y] = SumFunctionOnSet(g, u) /\ Part(s)[y] = SumFunctionOnSet(g, s)
        OBVIOUS
      <4> HIDE DEF g, Part
      <4>3. SumFunctionOnSet(g, s) = g[a] + SumFunctionOnSet(g, u)
        BY <4>1, <3>1, <3>2, SumTake
      <4>4. SumFunctionOnSet(g, u) \in Int
        BY <4>1, <3>2, SumInt
      <4> QED BY <3>1, <4>1, <4>2, <4>3, <4>4
    <3>6. SumFunctionOnSet(Part(s), T) = SumFunctionOnSet(c[a], T) + SumFunctionOnSet(Part(u), T)
      <4> DEFINE f == c[a]
                 g == Part(u)
                 h == Part(s)
      <4>1. \A y \in T : f[y] \in Int /\ g[y] \in Int /\ h[y] = f[y] + g[y]
        BY <3>5
      <4> HIDE DEF f, g, h
      <4>2. SumFunctionOnSet(h, T) = SumFunctionOnSet(f, T) + SumFunctionOnSet(g, T)
        BY <4>1, SumPlus
      <4> QED BY <4>2 DEF f, g, h
    <3>7. SumFunctionOnSet(rows, u) = SumFunctionOnSet(Part(u), T)
      BY <1>1, <3>1
    <3> HIDE DEF Part
    <3> QED BY <3>4, <3>6, <3>7
  <2> QED BY <2>1, <2>2
<1>2. S \in G
  <2> HIDE DEF G
  <2> QED BY ONLY IsFiniteSet(S), <1>1, SetInduction
<1>3. \A y \in T : Part(S)[y] = columns[y]
  OBVIOUS
<1>4. SumFunctionOnSet(Part(S), T) = SumFunctionOnSet(columns, T)
  <2> DEFINE f == Part(S)
  <2>1. \A y \in T : f[y] = columns[y]
    BY <1>3
  <2> HIDE DEF f
  <2>2. SumFunctionOnSet(f, T) = SumFunctionOnSet(columns, T)
    BY <2>1, SumSame
  <2> QED BY <2>2 DEF f
<1> QED BY <1>2, <1>4

-----------------------------------------------------------------------------
(***************************************************************************)
(* Sums and arithmetic                                                     *)
(***************************************************************************)
\* On S, h is d times f plus g.
Linear(h, d, f, g, S) ==
  d \in Int /\ \A x \in S : f[x] \in Int /\ g[x] \in Int /\ h[x] = d * f[x] + g[x]

\* A sum is linear.
LEMMA SumLinear ==
  ASSUME NEW f, NEW g, NEW h, NEW d, NEW S, IsFiniteSet(S), Linear(h, d, f, g, S)
  PROVE  SumFunctionOnSet(h, S) = d * SumFunctionOnSet(f, S) + SumFunctionOnSet(g, S)
<1> USE DEF Linear
<1> DEFINE G == {s \in SUBSET S :
             SumFunctionOnSet(h, s) = d * SumFunctionOnSet(f, s) + SumFunctionOnSet(g, s)}
<1>1. ASSUME NEW s \in SUBSET S, \A x \in s : s \ {x} \in G PROVE s \in G
  <2>1. CASE s = {}
    <3>1. SumFunctionOnSet(h, s) = 0 /\ SumFunctionOnSet(f, s) = 0 /\ SumFunctionOnSet(g, s) = 0
      BY <2>1, SumEmpty
    <3> QED BY <3>1
  <2>2. CASE s # {}
    <3>1. PICK c \in s : c = Pick(s)
      BY <2>2, PickIn
    <3>2. IsFiniteSet(s) /\ IsFiniteSet(s \ {c})
      BY FS_Subset
    <3>3. /\ SumFunctionOnSet(f, s) = f[c] + SumFunctionOnSet(f, s \ {c})
          /\ SumFunctionOnSet(g, s) = g[c] + SumFunctionOnSet(g, s \ {c})
          /\ SumFunctionOnSet(h, s) = h[c] + SumFunctionOnSet(h, s \ {c})
      BY <3>1, <3>2, SumPick
    <3>4. SumFunctionOnSet(h, s \ {c}) = d * SumFunctionOnSet(f, s \ {c}) + SumFunctionOnSet(g, s \ {c})
      BY <1>1, <3>1
    <3>5. SumFunctionOnSet(f, s \ {c}) \in Int /\ SumFunctionOnSet(g, s \ {c}) \in Int
      BY <3>2, SumInt
    <3>6. f[c] \in Int /\ g[c] \in Int /\ h[c] = d * f[c] + g[c] /\ d \in Int
      BY <3>1
    <3>7. SumFunctionOnSet(h, s) = d * SumFunctionOnSet(f, s) + SumFunctionOnSet(g, s)
      BY ONLY <3>3, <3>4, <3>5, <3>6
    <3> QED BY <3>7
  <2> QED BY <2>1, <2>2
<1>2. S \in G
  <2> HIDE DEF G
  <2> QED BY ONLY IsFiniteSet(S), <1>1, SetInduction
<1> QED BY <1>2

\* The sum of one number for every element.
LEMMA SumConst ==
  ASSUME NEW f, NEW d \in Int, NEW S, IsFiniteSet(S), \A x \in S : f[x] = d
  PROVE  SumFunctionOnSet(f, S) = Cardinality(S) * d
<1> DEFINE G == {s \in SUBSET S : SumFunctionOnSet(f, s) = Cardinality(s) * d}
<1>1. ASSUME NEW s \in SUBSET S, \A x \in s : s \ {x} \in G PROVE s \in G
  <2>1. CASE s = {}
    <3>1. SumFunctionOnSet(f, s) = 0 /\ Cardinality(s) = 0
      BY <2>1, SumEmpty, FS_EmptySet
    <3> QED BY <3>1
  <2>2. CASE s # {}
    <3>1. PICK c \in s : c = Pick(s)
      BY <2>2, PickIn
    <3>2. IsFiniteSet(s) /\ Cardinality(s \ {c}) = Cardinality(s) - 1 /\ Cardinality(s) \in Nat
      BY <3>1, FS_Subset, FS_RemoveElement, FS_CardinalityType
    <3>3. SumFunctionOnSet(f, s) = f[c] + SumFunctionOnSet(f, s \ {c})
      BY <3>1, <3>2, SumPick
    <3>4. SumFunctionOnSet(f, s \ {c}) = Cardinality(s \ {c}) * d /\ f[c] = d
      BY <1>1, <3>1
    <3>5. SumFunctionOnSet(f, s) = Cardinality(s) * d
      BY ONLY d \in Int, <3>2, <3>3, <3>4
    <3> QED BY <3>5
  <2> QED BY <2>1, <2>2
<1>2. S \in G
  <2> HIDE DEF G
  <2> QED BY ONLY IsFiniteSet(S), <1>1, SetInduction
<1> QED BY <1>2

\* On S, f is at most g.
AtMost(f, g, S) == \A x \in S : f[x] \in Int /\ g[x] \in Int /\ f[x] <= g[x]

\* Then its sum is, too.
LEMMA SumAtMost ==
  ASSUME NEW f, NEW g, NEW S, IsFiniteSet(S), AtMost(f, g, S)
  PROVE  SumFunctionOnSet(f, S) <= SumFunctionOnSet(g, S)
<1> USE DEF AtMost
<1> DEFINE h == [x \in S |-> g[x] - f[x]]
<1>1. \A x \in S : h[x] \in Nat
  OBVIOUS
<1>2. \A x \in S : f[x] \in Int /\ h[x] \in Int /\ g[x] = f[x] + h[x]
  OBVIOUS
<1> HIDE DEF h
<1>3. SumFunctionOnSet(g, S) = SumFunctionOnSet(f, S) + SumFunctionOnSet(h, S)
  BY <1>2, SumPlus
<1>4. SumFunctionOnSet(h, S) \in Nat /\ SumFunctionOnSet(f, S) \in Int
  BY <1>1, SumNat, SumInt
<1> QED BY <1>3, <1>4

-----------------------------------------------------------------------------
(***************************************************************************)
(* Folds over sequences: FoldLeft of the community modules takes a         *)
(* function of all sets of positions, by the largest position of each.     *)
(***************************************************************************)
\* The largest of a finite set of numbers.
LEMMA MaxIs ==
  ASSUME NEW S, IsFiniteSet(S), S # {}, S \subseteq Int
  PROVE  Max(S) \in S /\ \A n \in S : n <= Max(S)
<1> DEFINE G == {s \in SUBSET S : s # {} => \E m \in s : \A n \in s : n <= m}
<1>1. ASSUME NEW s \in SUBSET S, \A n \in s : s \ {n} \in G PROVE s \in G
  <2> SUFFICES ASSUME s # {} PROVE \E m \in s : \A n \in s : n <= m
    OBVIOUS
  <2>1. PICK c \in s : TRUE
    OBVIOUS
  <2>2. CASE s \ {c} = {}
    BY <2>1, <2>2
  <2>3. CASE s \ {c} # {}
    <3>1. PICK m \in s \ {c} : \A n \in s \ {c} : n <= m
      BY <1>1, <2>1, <2>3
    <3>2. m \in Int /\ c \in Int
      BY <2>1
    <3>3. CASE c <= m
      BY <3>1, <3>3
    <3>4. CASE ~(c <= m)
      <4>1. \A n \in s : n \in Int /\ (n = c \/ n <= m)
        BY <3>1
      <4>2. \A n \in s : n <= c
        BY <3>2, <3>4, <4>1
      <4> QED BY <2>1, <4>2
    <3> QED BY <3>3, <3>4
  <2> QED BY <2>2, <2>3
<1>2. S \in G
  <2> HIDE DEF G
  <2> QED BY ONLY IsFiniteSet(S), <1>1, SetInduction
<1>3. \E m \in S : \A n \in S : m >= n
  BY <1>2
<1>4. Max(S) \in S /\ \A n \in S : Max(S) >= n
  BY <1>3 DEF Max
<1> QED BY <1>4

\* The smallest.
LEMMA MinIs ==
  ASSUME NEW S, IsFiniteSet(S), S # {}, S \subseteq Int
  PROVE  Min(S) \in S /\ \A n \in S : Min(S) <= n
<1> DEFINE G == {s \in SUBSET S : s # {} => \E m \in s : \A n \in s : m <= n}
<1>1. ASSUME NEW s \in SUBSET S, \A n \in s : s \ {n} \in G PROVE s \in G
  <2> SUFFICES ASSUME s # {} PROVE \E m \in s : \A n \in s : m <= n
    OBVIOUS
  <2>1. PICK c \in s : TRUE
    OBVIOUS
  <2>2. CASE s \ {c} = {}
    BY <2>1, <2>2
  <2>3. CASE s \ {c} # {}
    <3>1. PICK m \in s \ {c} : \A n \in s \ {c} : m <= n
      BY <1>1, <2>1, <2>3
    <3>2. m \in Int /\ c \in Int
      BY <2>1
    <3>3. CASE m <= c
      BY <3>1, <3>3
    <3>4. CASE ~(m <= c)
      <4>1. \A n \in s : n \in Int /\ (n = c \/ m <= n)
        BY <3>1
      <4>2. \A n \in s : c <= n
        BY <3>2, <3>4, <4>1
      <4> QED BY <2>1, <4>2
    <3> QED BY <3>3, <3>4
  <2> QED BY <2>2, <2>3
<1>2. S \in G
  <2> HIDE DEF G
  <2> QED BY ONLY IsFiniteSet(S), <1>1, SetInduction
<1>3. \E m \in S : \A n \in S : m <= n
  BY <1>2
<1> QED BY <1>3 DEF Min

\* What 0 has, and each next number when the one before has it, all have.
LEMMA NumberInduction ==
  ASSUME NEW G, 0 \in G, \A n \in Nat : n \in G => n + 1 \in G
  PROVE  \A n \in Nat : n \in G
<1> SUFFICES ASSUME Nat \ G # {} PROVE FALSE
  OBVIOUS
<1>1. PICK n \in Nat \ G : \A m \in Nat \ G : n <= m
  BY LeastNat
<1>2. n - 1 \in Nat /\ ~(n <= n - 1) /\ (n - 1) + 1 = n
  OBVIOUS
<1>3. n - 1 \in G
  BY <1>1, <1>2
<1> QED BY <1>1, <1>2, <1>3

\* The largest of some of the first numbers, and what is left without it.
LEMMA LastOf ==
  ASSUME NEW k \in Nat, NEW s \in SUBSET (1..(k + 1)), s # {}
  PROVE  Max(s) \in s /\ s \ {Max(s)} \in SUBSET (1..k)
<1>1. IsFiniteSet(1..(k + 1))
  <2>1. 1 \in Int /\ k + 1 \in Int
    OBVIOUS
  <2> QED BY <2>1, FS_Interval
<1>2. IsFiniteSet(s)
  BY <1>1, FS_Subset
<1>3. \A n \in s : n \in 1..(k + 1) /\ n \in Int
  OBVIOUS
<1>4. s \subseteq Int
  BY <1>3
<1>5. Max(s) \in s /\ \A n \in s : n <= Max(s)
  BY <1>2, <1>4, MaxIs
<1>6. PICK m : m = Max(s)
  OBVIOUS
<1>7. m \in s /\ m \in 1..(k + 1) /\ \A n \in s : n <= m /\ n \in 1..(k + 1)
  BY <1>3, <1>5, <1>6
<1>8. ASSUME NEW n \in s \ {m} PROVE n \in 1..k
  <2>1. n <= m /\ n # m /\ n \in 1..(k + 1) /\ m \in 1..(k + 1)
    BY <1>7
  <2> QED BY <2>1
<1>9. s \ {m} \in SUBSET (1..k)
  BY <1>8
<1> QED BY <1>5, <1>6, <1>9

\* The largest of the first k numbers.
LEMMA LastOfAll ==
  ASSUME NEW k \in Nat \ {0}
  PROVE  Max(1..k) = k /\ (1..k) \ {k} = 1..(k - 1)
<1>1. k \in 1..k /\ \A n \in 1..k : k >= n
  OBVIOUS
<1>2. \A x \in 1..k : (\A y \in 1..k : x >= y) => x = k
  OBVIOUS
<1>3. Max(1..k) = k
  BY <1>1, <1>2 DEF Max
<1>4. ASSUME NEW i PROVE i \in (1..k) \ {k} <=> i \in 1..(k - 1)
  OBVIOUS
<1>5. (1..k) \ {k} = 1..(k - 1)
  BY <1>4
<1> QED BY <1>3, <1>5

\* The function a fold takes, of the sets of the first n positions: step[v, k] is what
\* becomes of v at position k.
Taken(g, base, step, s) == IF s = {} THEN base ELSE step[<<g[s \ {Max(s)}], Max(s)>>]

\* There is one, with values in any set that the steps do not leave.
Closed(V, step, n) == \A v \in V, k \in 1..n : step[<<v, k>>] \in V
TakenIn(g, V, base, step, n) ==
  \A s \in SUBSET (1..n) : g[s] \in V /\ g[s] = Taken(g, base, step, s)
LEMMA FoldExists ==
  ASSUME NEW n \in Nat, NEW V, NEW base \in V, NEW step, Closed(V, step, n)
  PROVE  \E g : TakenIn(g, V, base, step, n)
<1> USE DEF Closed, TakenIn
<1> DEFINE Fits(g, k) == \A s \in SUBSET (1..k) : g[s] \in V /\ g[s] = Taken(g, base, step, s)
           Good == {k \in Nat : k <= n => \E g : Fits(g, k)}
<1>1. 0 \in Good
  <2> DEFINE g == [s \in SUBSET (1..0) |-> base]
  <2>1. \A s \in SUBSET (1..0) : s = {}
    OBVIOUS
  <2>2. Fits(g, 0)
    BY <2>1 DEF Taken
  <2> HIDE DEF Fits
  <2> QED BY <2>2
<1>2. ASSUME NEW k \in Nat, k \in Good PROVE k + 1 \in Good
  <2> SUFFICES ASSUME k + 1 <= n PROVE \E g : Fits(g, k + 1)
    OBVIOUS
  <2>1. PICK g : Fits(g, k)
    <3> HIDE DEF Fits
    <3> QED BY <1>2
  <2> DEFINE h == [s \in SUBSET (1..(k + 1)) |-> Taken(g, base, step, s)]
  <2>2. ASSUME NEW s \in SUBSET (1..(k + 1)) PROVE h[s] \in V /\ h[s] = Taken(h, base, step, s)
    <3>1. h[s] = Taken(g, base, step, s)
      OBVIOUS
    <3>2. CASE s = {}
      BY <3>1, <3>2 DEF Taken
    <3>3. CASE s # {}
      <4>1. Max(s) \in s /\ s \ {Max(s)} \in SUBSET (1..k)
        BY <3>3, LastOf
      <4>2. g[s \ {Max(s)}] \in V /\ g[s \ {Max(s)}] = Taken(g, base, step, s \ {Max(s)})
        BY <2>1, <4>1
      <4>3. s \ {Max(s)} \in SUBSET (1..(k + 1))
        BY <4>1
      <4>4. h[s \ {Max(s)}] = g[s \ {Max(s)}]
        BY <4>2, <4>3
      <4>5. Max(s) \in 1..n
        <5>1. \A m \in 1..(k + 1) : m \in 1..n
          OBVIOUS
        <5>2. s \subseteq 1..(k + 1)
          OBVIOUS
        <5> QED BY ONLY <4>1, <5>1, <5>2
      <4> HIDE DEF h
      <4> QED BY <3>1, <3>3, <4>2, <4>4, <4>5 DEF Taken
    <3> QED BY ONLY <3>2, <3>3
  <2> HIDE DEF h
  <2>3. Fits(h, k + 1)
    BY <2>2
  <2> HIDE DEF Fits
  <2> QED BY <2>3
<1>3. n \in Good
  <2> HIDE DEF Good
  <2> QED BY <1>1, <1>2, NumberInduction
<1>4. n <= n
  OBVIOUS
<1> QED BY <1>3, <1>4

\* What every step keeps, the whole fold keeps.
LEMMA FoldKeeps ==
  ASSUME NEW n \in Nat, NEW V, NEW g, g[{}] \in V,
         \A k \in 1..n : g[1..(k - 1)] \in V => g[1..k] \in V
  PROVE  g[1..n] \in V
<1> DEFINE Good == {k \in Nat : k <= n => g[1..k] \in V}
<1>1. 0 \in Good
  <2>1. 1..0 = {}
    OBVIOUS
  <2> QED BY <2>1
<1>2. ASSUME NEW k \in Nat, k \in Good PROVE k + 1 \in Good
  <2> SUFFICES ASSUME k + 1 <= n PROVE g[1..(k + 1)] \in V
    OBVIOUS
  <2>1. k + 1 \in 1..n /\ (k + 1) - 1 = k /\ k <= n
    OBVIOUS
  <2> QED BY <1>2, <2>1
<1>3. n \in Good
  <2> HIDE DEF Good
  <2> QED BY <1>1, <1>2, NumberInduction
<1>4. n <= n
  OBVIOUS
<1> QED BY <1>3, <1>4

\* The largest of some of the first numbers is one of them.
LEMMA LastIn ==
  ASSUME NEW k \in Nat, NEW s \in SUBSET (1..k), s # {}
  PROVE  Max(s) \in s
<1>1. s \in SUBSET (1..(k + 1))
  <2>1. \A i \in 1..k : i \in 1..(k + 1)
    OBVIOUS
  <2> QED BY <2>1
<1> QED BY <1>1, LastOf

\* The first of the first numbers.
LEMMA FirstOfAll ==
  ASSUME NEW l \in Nat, NEW k \in 1..l
  PROVE  1..k \in SUBSET (1..l) /\ 1..k # {}
<1>1. \A i \in 1..k : i \in 1..l
  OBVIOUS
<1>2. 1 \in 1..k
  OBVIOUS
<1> QED BY <1>1, <1>2
\* The same as a function of the sets of the first n positions, and of those only.
Table(h, V, base, step, n) ==
  /\ h = [s \in SUBSET (1..n) |-> h[s]]
  /\ \A s \in SUBSET (1..n) :
       /\ h[s] \in V
       /\ s = {} => h[s] = base
       /\ s # {} => /\ Max(s) \in 1..n /\ h[s \ {Max(s)}] \in V
                    /\ h[s] = step[<<h[s \ {Max(s)}], Max(s)>>]
LEMMA TableExists ==
  ASSUME NEW n \in Nat, NEW V, NEW base \in V, NEW step, Closed(V, step, n)
  PROVE  \E h : Table(h, V, base, step, n)
<1>1. PICK g : TakenIn(g, V, base, step, n)
  BY FoldExists
<1> DEFINE h == [s \in SUBSET (1..n) |-> g[s]]
<1>2. \A s \in SUBSET (1..n) : h[s] = g[s]
  OBVIOUS
<1>3. h = [s \in SUBSET (1..n) |-> h[s]]
  OBVIOUS
<1> HIDE DEF h
<1>4. ASSUME NEW s \in SUBSET (1..n)
      PROVE  /\ h[s] \in V /\ (s = {} => h[s] = base)
             /\ s # {} => /\ Max(s) \in 1..n /\ h[s \ {Max(s)}] \in V
                          /\ h[s] = step[<<h[s \ {Max(s)}], Max(s)>>]
  <2>1. h[s] \in V /\ h[s] = Taken(g, base, step, s)
    BY <1>1, <1>2 DEF TakenIn
  <2>2. CASE s = {}
    BY <2>1, <2>2 DEF Taken
  <2>3. CASE s # {}
    <3>1. Max(s) \in s
      BY <2>3, LastIn
    <3>2. Max(s) \in 1..n /\ s \ {Max(s)} \in SUBSET (1..n)
      BY <3>1
    <3>3. h[s \ {Max(s)}] = g[s \ {Max(s)}] /\ g[s \ {Max(s)}] \in V
      BY <1>1, <1>2, <3>2 DEF TakenIn
    <3> QED BY <2>1, <2>3, <3>2, <3>3 DEF Taken
  <2> QED BY <2>2, <2>3
<1>5. Table(h, V, base, step, n)
  BY <1>3, <1>4 DEF Table
<1> QED BY <1>5

\* The values a fold runs through, from the first to the last.
LEMMA FoldRuns ==
  ASSUME NEW n \in Nat, NEW V, NEW base \in V, NEW step, Closed(V, step, n), NEW g, g[{}] = base,
         \A k \in 1..n : g[1..(k - 1)] \in V => g[1..k] = step[<<g[1..(k - 1)], k>>]
  PROVE  \A k \in 0..n : g[1..k] \in V
<1> DEFINE Good == {k \in Nat : k <= n => g[1..k] \in V}
<1>1. 0 \in Good
  <2>1. 1..0 = {}
    OBVIOUS
  <2> QED BY <2>1
<1>2. ASSUME NEW k \in Nat, k \in Good PROVE k + 1 \in Good
  <2> SUFFICES ASSUME k + 1 <= n PROVE g[1..(k + 1)] \in V
    OBVIOUS
  <2>1. k + 1 \in 1..n /\ (k + 1) - 1 = k /\ k <= n
    OBVIOUS
  <2>2. g[1..k] \in V
    BY <1>2, <2>1
  <2>3. g[1..(k + 1)] = step[<<g[1..k], k + 1>>]
    BY <2>1, <2>2
  <2> QED BY <2>1, <2>2, <2>3 DEF Closed
<1>3. \A k \in Nat : k \in Good
  <2> HIDE DEF Good
  <2> QED BY <1>1, <1>2, NumberInduction
<1> QED BY <1>3

-----------------------------------------------------------------------------
(***************************************************************************)
(* Orders                                                                  *)
(***************************************************************************)
\* before[x] are the elements before x in an order of all of them, and s has them in it.
Orders(before) ==
  /\ IsFiniteSet(DOMAIN before)
  /\ \A x \in DOMAIN before : before[x] \subseteq DOMAIN before /\ x \notin before[x]
  /\ \A x, y \in DOMAIN before :
       /\ x = y \/ x \in before[y] \/ y \in before[x]
       /\ x \in before[y] => before[x] \subseteq before[y]
Arranges(s, before) ==
  /\ s \in [1..Cardinality(DOMAIN before) -> DOMAIN before]
  /\ \A x \in DOMAIN before : \E i \in 1..Cardinality(DOMAIN before) : s[i] = x
  /\ \A i, j \in 1..Cardinality(DOMAIN before) : i < j <=> s[i] \in before[s[j]]

\* In an order, an element has more before it the later it comes.
LEMMA RankGrows ==
  ASSUME NEW before, Orders(before), NEW x \in DOMAIN before, NEW y \in DOMAIN before
  PROVE  /\ Cardinality(before[x]) \in 0..(Cardinality(DOMAIN before) - 1)
         /\ x \in before[y] <=> Cardinality(before[x]) < Cardinality(before[y])
         /\ x = y <=> Cardinality(before[x]) = Cardinality(before[y])
<1> DEFINE S == DOMAIN before
           card(z) == Cardinality(before[z])
<1>1. IsFiniteSet(S) /\ Cardinality(S) \in Nat
  BY FS_CardinalityType DEF Orders
<1>2. ASSUME NEW z \in S
      PROVE  IsFiniteSet(before[z]) /\ card(z) \in Nat /\ card(z) <= Cardinality(S) - 1
  <2>1. before[z] \in SUBSET (S \ {z})
    BY DEF Orders
  <2>2. IsFiniteSet(S \ {z}) /\ Cardinality(S \ {z}) = Cardinality(S) - 1
    BY <1>1, FS_RemoveElement
  <2> QED BY <2>1, <2>2, FS_Subset, FS_CardinalityType
<1>3. ASSUME NEW z \in S, NEW w \in S, z \in before[w] PROVE card(z) < card(w)
  <2>1. before[z] \in SUBSET before[w] /\ before[z] # before[w]
    BY <1>3 DEF Orders
  <2>2. card(z) <= card(w) /\ card(z) # card(w)
    BY <1>2, <2>1, FS_Subset
  <2> QED BY <1>2, <2>2
<1>4. x = y \/ x \in before[y] \/ y \in before[x]
  BY DEF Orders
<1>5. card(x) \in Nat /\ card(y) \in Nat /\ card(x) <= Cardinality(S) - 1
  BY <1>2
<1>6. x \in before[y] => card(x) < card(y)
  BY <1>3
<1>7. y \in before[x] => card(y) < card(x)
  BY <1>3
<1>8. x = y => x \notin before[y]
  BY DEF Orders
<1> HIDE DEF card, S
<1>9. card(x) \in 0..(Cardinality(S) - 1)
  BY <1>1, <1>5
<1>10. (x \in before[y] <=> card(x) < card(y)) /\ (x = y <=> card(x) = card(y))
  BY <1>4, <1>5, <1>6, <1>7, <1>8
<1> QED BY <1>9, <1>10 DEF card, S

\* InOrder arranges the elements of an order.
LEMMA OrderIs ==
  ASSUME NEW before, Orders(before)
  PROVE  Arranges(InOrder(before), before)
<1> DEFINE S == DOMAIN before
           rank == [x \in S |-> Cardinality(before[x])]
<1>1. PICK n \in Nat : n = Cardinality(S) /\ IsFiniteSet(S)
  BY FS_CardinalityType DEF Orders
<1>2. rank \in Injection(S, 0..(n - 1))
  <2>1. \A x \in S : Cardinality(before[x]) \in 0..(n - 1)
    BY <1>1, RankGrows
  <2>2. \A x, y \in S : rank[x] = rank[y] => x = y
    BY RankGrows
  <2> QED BY <2>1, <2>2 DEF Injection, IsInjective
<1>3. IsFiniteSet(0..(n - 1)) /\ Cardinality(0..(n - 1)) = n
  <2>1. 0 \in Int /\ n - 1 \in Int
    OBVIOUS
  <2>2. IsFiniteSet(0..(n - 1)) /\ Cardinality(0..(n - 1)) = IF 0 > n - 1 THEN 0 ELSE (n - 1) - 0 + 1
    BY <2>1, FS_Interval
  <2> QED BY <2>2
<1> HIDE DEF rank
<1>4. rank \in Surjection(S, 0..(n - 1))
  BY <1>1, <1>2, <1>3, FS_Injection
<1>5. PICK s : s = InOrder(before)
  OBVIOUS
<1>6. s = [i \in 1..n |-> CHOOSE x \in S : Cardinality(before[x]) = i - 1]
  BY <1>1, <1>5 DEF InOrder
<1>7. ASSUME NEW i \in 1..n PROVE s[i] \in S /\ Cardinality(before[s[i]]) = i - 1
  <2>1. i - 1 \in 0..(n - 1)
    OBVIOUS
  <2>2. \E x \in S : Cardinality(before[x]) = i - 1
    BY <1>4, <2>1 DEF Surjection, rank
  <2> QED BY <1>6, <2>2
<1> HIDE DEF S
<1>8. s \in [1..n -> S]
  BY <1>6, <1>7
<1>9. ASSUME NEW x \in S PROVE \E i \in 1..n : s[i] = x
  <2>1. Cardinality(before[x]) \in 0..(n - 1)
    BY <1>1, RankGrows DEF S
  <2>2. PICK i \in 1..n : i - 1 = Cardinality(before[x])
    <3>1. Cardinality(before[x]) + 1 \in 1..n /\ (Cardinality(before[x]) + 1) - 1 = Cardinality(before[x])
      BY <2>1
    <3> QED BY <3>1
  <2>3. s[i] = x
    BY <1>7, <2>2, RankGrows DEF S
  <2> QED BY <2>3
<1>10. ASSUME NEW i \in 1..n, NEW j \in 1..n PROVE i < j <=> s[i] \in before[s[j]]
  <2>1. s[i] \in before[s[j]] <=> Cardinality(before[s[i]]) < Cardinality(before[s[j]])
    BY <1>7, RankGrows DEF S
  <2>2. Cardinality(before[s[i]]) = i - 1 /\ Cardinality(before[s[j]]) = j - 1
    BY <1>7
  <2> QED BY <2>1, <2>2
<1> QED BY <1>1, <1>5, <1>8, <1>9, <1>10 DEF Arranges, S
=============================================================================
