------------------------- MODULE LateAttachProofs -------------------------
(***************************************************************************)
(* Proofs about LateAttach for any number of threads and begins: the       *)
(* client's stack is a suffix of the program's, whoever attaches when, the *)
(* begin that started DynamoRIO is in it, and what is not in it is         *)
(* reported.                                                               *)
(***************************************************************************)
EXTENDS LateAttach, SequenceTheorems, TLAPS

-----------------------------------------------------------------------------
(***************************************************************************)
(* Suffixes, element by element, and the begins of a thread, which rise.   *)
(***************************************************************************)
\* s is what the last elements of n are.
Tops(s, n) ==
  /\ Len(s) <= Len(n)
  /\ \A i \in 1..Len(s) : s[i] = n[Len(n) - Len(s) + i]

\* The open begins of a thread that made b: each later than those below it.
Rising(n, b) ==
  /\ Len(n) <= b
  /\ \A i \in 1..Len(n) : n[i] <= b
  /\ \A i, j \in 1..Len(n) : i < j => n[i] < n[j]

\* A sequence and what Append makes of it.
LEMMA AppendIs ==
  ASSUME NEW S, NEW s \in Seq(S), NEW x \in S, NEW r, r = Append(s, x)
  PROVE  /\ Len(s) \in Nat /\ r \in Seq(S) /\ Len(r) = Len(s) + 1
         /\ r[Len(s) + 1] = x /\ \A i \in 1..Len(s) : r[i] = s[i]
OBVIOUS

\* A sequence and what Front makes of it.
LEMMA FrontIs ==
  ASSUME NEW S, NEW s \in Seq(S), s # <<>>, NEW r, r = Front(s)
  PROVE  /\ Len(s) \in Nat \ {0} /\ r \in Seq(S) /\ Len(r) = Len(s) - 1
         /\ \A i \in 1..(Len(s) - 1) : r[i] = s[i]
<1> DEFINE m == Len(s)
<1>1. m \in Nat \ {0}
  OBVIOUS
<1>2. \A i \in 1..(m - 1) : s[i] \in S
  BY ElementOfSeq, <1>1
<1>3. r = SubSeq(s, 1, m - 1)
  BY DEF Front
<1> HIDE DEF m
<1>4. /\ r \in Seq(S) /\ Len(r) = IF 1 <= m - 1 THEN (m - 1) - 1 + 1 ELSE 0
      /\ \A i \in 1..((m - 1) - 1 + 1) : r[i] = s[1 + i - 1]
  BY <1>1, <1>2, <1>3, SubSeqProperties
<1>5. /\ m \in Nat \ {0} /\ r \in Seq(S) /\ Len(r) = m - 1
      /\ \A i \in 1..(m - 1) : r[i] = s[i]
  BY <1>1, <1>4
<1> QED BY <1>5 DEF m

\* A function over the first numbers is a sequence.
LEMMA FunctionIsSeq ==
  ASSUME NEW S, NEW m \in Nat, NEW f \in [1..m -> S]
  PROVE  f \in Seq(S) /\ Len(f) = m
OBVIOUS

\* The suffixes of the model are those told by their elements.
LEMMA TopsAreSuffix ==
  ASSUME NEW S, NEW s \in Seq(S), NEW n \in Seq(S), Tops(s, n)
  PROVE  IsSuffix(s, n)
<1> DEFINE l == Len(s)
           m == Len(n)
           rs == Reverse(s)
           rn == Reverse(n)
<1>1. l \in Nat /\ m \in Nat /\ l <= m /\ \A i \in 1..l : s[i] = n[m - l + i]
  BY DEF Tops
<1>2. /\ rs = [i \in 1..l |-> s[(l - i) + 1]] /\ rn = [i \in 1..m |-> n[(m - i) + 1]]
  BY DEF Reverse
<1>3. /\ \A i \in 1..l : s[i] \in S
      /\ \A i \in 1..m : n[i] \in S
  BY ElementOfSeq
<1> HIDE DEF l, m
<1>4. rs \in Seq(S) /\ Len(rs) = l
  <2>1. rs \in [1..l -> S]
    BY <1>1, <1>2, <1>3
  <2> QED BY <1>1, <2>1, FunctionIsSeq
<1>5. rn \in Seq(S) /\ Len(rn) = m
  <2>1. rn \in [1..m -> S]
    BY <1>1, <1>2, <1>3
  <2> QED BY <1>1, <2>1, FunctionIsSeq
<1>6. \A i \in 1..l : rs[i] = rn[i] /\ rs[i] \in S
  <2> TAKE i \in 1..l
  <2>1. (l - i) + 1 \in 1..l /\ (m - i) + 1 = m - l + ((l - i) + 1) /\ i \in 1..m
    BY <1>1
  <2> QED BY <1>1, <1>2, <1>3, <2>1
<1> HIDE DEF rs, rn
<1> DEFINE a == SubSeq(rs, 1, l)
           c == SubSeq(rn, 1, l)
<1>7. /\ a \in Seq(S) /\ Len(a) = IF 1 <= l THEN l - 1 + 1 ELSE 0
      /\ \A i \in 1..(l - 1 + 1) : a[i] = rs[1 + i - 1]
  BY <1>1, <1>6, SubSeqProperties
<1>8. /\ c \in Seq(S) /\ Len(c) = IF 1 <= l THEN l - 1 + 1 ELSE 0
      /\ \A i \in 1..(l - 1 + 1) : c[i] = rn[1 + i - 1]
  BY <1>1, <1>6, SubSeqProperties
<1> HIDE DEF a, c
<1>9. Len(a) = l /\ Len(c) = l /\ \A i \in 1..l : a[i] = c[i]
  BY <1>1, <1>6, <1>7, <1>8
<1>10. a = c
  BY <1>7, <1>8, <1>9, SeqEqual
<1> QED BY <1>1, <1>4, <1>5, <1>10 DEF IsSuffix, IsPrefix, a, c, rs, rn

\* A region opened in both.
LEMMA TopsAppend ==
  ASSUME NEW S, NEW s \in Seq(S), NEW n \in Seq(S), NEW x \in S, Tops(s, n)
  PROVE  Tops(Append(s, x), Append(n, x))
<1> DEFINE a == Append(s, x)
           c == Append(n, x)
<1>1. /\ Len(s) \in Nat /\ Len(a) = Len(s) + 1 /\ a[Len(s) + 1] = x
      /\ \A i \in 1..Len(s) : a[i] = s[i]
  BY AppendIs
<1>2. /\ Len(n) \in Nat /\ Len(c) = Len(n) + 1 /\ c[Len(n) + 1] = x
      /\ \A i \in 1..Len(n) : c[i] = n[i]
  BY AppendIs
<1> HIDE DEF a, c
<1>3. Len(a) <= Len(c)
  BY <1>1, <1>2 DEF Tops
<1>4. ASSUME NEW i \in 1..Len(a)
      PROVE  a[i] = c[Len(c) - Len(a) + i]
  <2>1. CASE i = Len(s) + 1
    BY <1>1, <1>2, <2>1 DEF Tops
  <2>2. CASE i # Len(s) + 1
    <3>1. i \in 1..Len(s) /\ Len(c) - Len(a) + i = Len(n) - Len(s) + i
      BY <1>1, <1>2, <2>2
    <3>2. Len(n) - Len(s) + i \in 1..Len(n)
      BY <1>1, <1>2, <3>1 DEF Tops
    <3> QED BY <1>1, <1>2, <3>1, <3>2 DEF Tops
  <2> QED BY <2>1, <2>2
<1>5. Tops(a, c)
  BY <1>3, <1>4 DEF Tops
<1> QED BY <1>5 DEF a, c

\* A region closed in both: it is the same one.
LEMMA TopsFront ==
  ASSUME NEW S, NEW s \in Seq(S), NEW n \in Seq(S), s # <<>>, Tops(s, n)
  PROVE  n # <<>> /\ Last(s) = Last(n) /\ Tops(Front(s), Front(n))
<1> DEFINE a == Front(s)
           c == Front(n)
<1>1. /\ Len(s) \in Nat \ {0} /\ Len(a) = Len(s) - 1
      /\ \A i \in 1..(Len(s) - 1) : a[i] = s[i]
  BY FrontIs
<1>2. n # <<>>
  BY <1>1 DEF Tops
<1>3. /\ Len(n) \in Nat \ {0} /\ Len(c) = Len(n) - 1
      /\ \A i \in 1..(Len(n) - 1) : c[i] = n[i]
  BY <1>2, FrontIs
<1>4. s[Len(s)] = n[Len(n)]
  <2>1. Len(s) \in 1..Len(s) /\ Len(n) - Len(s) + Len(s) = Len(n)
    BY <1>1, <1>3
  <2> QED BY <2>1 DEF Tops
<1> HIDE DEF a, c
<1>5. Len(a) <= Len(c)
  BY <1>1, <1>3 DEF Tops
<1>6. ASSUME NEW i \in 1..Len(a)
      PROVE  a[i] = c[Len(c) - Len(a) + i]
  <2>1. i \in 1..(Len(s) - 1) /\ i \in 1..Len(s) /\ Len(c) - Len(a) + i = Len(n) - Len(s) + i
    BY <1>1, <1>3
  <2>2. Len(n) - Len(s) + i \in 1..(Len(n) - 1)
    BY <1>1, <1>3, <2>1 DEF Tops
  <2> QED BY <1>1, <1>3, <2>1, <2>2 DEF Tops
<1>7. Tops(a, c)
  BY <1>5, <1>6 DEF Tops
<1> QED BY <1>2, <1>4, <1>7 DEF Last, a, c

\* The last of a sequence.
LEMMA LastIs ==
  ASSUME NEW S, NEW s \in Seq(S), s # <<>>
  PROVE  Len(s) \in Nat \ {0} /\ Last(s) = s[Len(s)] /\ Last(s) \in S
BY DEF Last

\* Nothing, and the last alone, are suffixes.
LEMMA TopsFew ==
  ASSUME NEW S, NEW n \in Seq(S)
  PROVE  Tops(<<>>, n) /\ (n # <<>> => Tops(<<Last(n)>>, n))
BY DEF Tops, Last

\* A begin is later than those before it.
LEMMA RisingAppend ==
  ASSUME NEW B \in Nat, NEW n \in Seq(1..B), NEW b \in Nat, b + 1 <= B, Rising(n, b)
  PROVE  Rising(Append(n, b + 1), b + 1)
<1> DEFINE c == Append(n, b + 1)
<1>1. /\ Len(n) \in Nat /\ Len(c) = Len(n) + 1 /\ c[Len(n) + 1] = b + 1
      /\ \A i \in 1..Len(n) : c[i] = n[i]
  BY AppendIs
<1>2. \A i \in 1..Len(n) : n[i] \in 1..B
  BY ElementOfSeq
<1> HIDE DEF c
<1>3. \A i \in 1..Len(n) : c[i] <= b
  BY <1>1 DEF Rising
<1>4. \A i \in 1..Len(c) : i \in 1..Len(n) \/ i = Len(n) + 1
  BY <1>1
<1>5. ASSUME NEW i \in 1..Len(c), NEW j \in 1..Len(c), i < j
      PROVE  c[i] < c[j]
  <2>1. i \in 1..Len(n)
    BY <1>1, <1>5
  <2>2. CASE j \in 1..Len(n)
    BY <1>1, <1>5, <2>1, <2>2 DEF Rising
  <2>3. CASE j = Len(n) + 1
    BY <1>1, <1>2, <1>3, <2>1, <2>3
  <2> QED BY <1>4, <2>2, <2>3
<1>6. Len(c) <= b + 1 /\ \A i \in 1..Len(c) : c[i] <= b + 1
  BY <1>1, <1>2, <1>3, <1>4 DEF Rising
<1>7. Rising(c, b + 1)
  BY <1>5, <1>6 DEF Rising
<1> QED BY <1>7 DEF c

\* What stays open after an end, without the one that ended.
LEMMA RisingFront ==
  ASSUME NEW B \in Nat, NEW n \in Seq(1..B), NEW b \in Nat, n # <<>>, Rising(n, b)
  PROVE  /\ Rising(Front(n), b)
         /\ \A x \in ToSet(Front(n)) : x \in ToSet(n) /\ x # Last(n)
<1> DEFINE c == Front(n)
<1>1. /\ Len(n) \in Nat \ {0} /\ c \in Seq(1..B) /\ Len(c) = Len(n) - 1
      /\ \A i \in 1..(Len(n) - 1) : c[i] = n[i]
  BY FrontIs
<1>2. \A i \in 1..Len(n) : n[i] \in 1..B
  BY ElementOfSeq
<1> HIDE DEF c
<1>3. Rising(c, b)
  BY <1>1 DEF Rising
<1>4. ASSUME NEW x \in ToSet(c)
      PROVE  x \in ToSet(n) /\ x # Last(n)
  <2>1. PICK i \in DOMAIN c : x = c[i]
    BY DEF ToSet
  <2>2. i \in 1..(Len(n) - 1) /\ i \in 1..Len(n) /\ Len(n) \in 1..Len(n) /\ i < Len(n)
    BY <1>1
  <2>3. x = n[i] /\ n[i] < n[Len(n)]
    BY <1>1, <2>1, <2>2 DEF Rising
  <2> QED BY <1>2, <2>2, <2>3 DEF ToSet, Last
<1> QED BY <1>3, <1>4 DEF c

\* The elements of a sequence that grew, and of one that lost its last.
LEMMA Members ==
  ASSUME NEW S, NEW s \in Seq(S)
  PROVE  /\ \A x \in S : ToSet(Append(s, x)) = ToSet(s) \cup {x}
         /\ s # <<>> => /\ Last(s) \in ToSet(s)
                        /\ \A x \in ToSet(s) : x = Last(s) \/ x \in ToSet(Front(s))
         /\ ToSet(s) \subseteq S
<1>1. DOMAIN s = 1..Len(s) /\ Len(s) \in Nat
  OBVIOUS
<1>2. ASSUME NEW x \in S
      PROVE  ToSet(Append(s, x)) = ToSet(s) \cup {x}
  <2> DEFINE r == Append(s, x)
  <2>1. /\ r \in Seq(S) /\ Len(r) = Len(s) + 1
        /\ r[Len(s) + 1] = x /\ \A i \in 1..Len(s) : r[i] = s[i]
    BY AppendIs
  <2> HIDE DEF r
  <2>2. DOMAIN r = 1..(Len(s) + 1)
    BY <2>1
  <2>3. ToSet(r) = ToSet(s) \cup {x}
    BY <1>1, <2>1, <2>2 DEF ToSet
  <2> QED BY <2>3 DEF r
<1>3. ASSUME s # <<>>
      PROVE  /\ Last(s) \in ToSet(s)
             /\ \A x \in ToSet(s) : x = Last(s) \/ x \in ToSet(Front(s))
  <2> DEFINE r == Front(s)
  <2>1. /\ Len(s) \in Nat \ {0} /\ r \in Seq(S) /\ Len(r) = Len(s) - 1
        /\ \A i \in 1..(Len(s) - 1) : r[i] = s[i]
    BY <1>3, FrontIs
  <2> HIDE DEF r
  <2>2. DOMAIN r = 1..(Len(s) - 1)
    BY <2>1
  <2>3. \A x \in ToSet(s) : x = Last(s) \/ x \in ToSet(r)
    <3> TAKE x \in ToSet(s)
    <3>1. PICK i \in 1..Len(s) : x = s[i]
      BY <1>1 DEF ToSet
    <3>2. i = Len(s) \/ i \in 1..(Len(s) - 1)
      BY <2>1
    <3> QED BY <2>1, <2>2, <3>1, <3>2 DEF ToSet, Last
  <2> QED BY <1>1, <2>1, <2>3 DEF ToSet, Last, r
<1>4. ToSet(s) \subseteq S
  BY <1>1, ElementOfSeq DEF ToSet
<1> QED BY <1>2, <1>3, <1>4

-----------------------------------------------------------------------------
(***************************************************************************)
(* The inductive invariant.                                                *)
(***************************************************************************)
\* The steps of late_attach, and those after DynamoRIO started.
Attaching == {"recheck", "claim", "attach", "giveup", "finish", "again"}
Started == {"finish", "again"}

\* The begins of a thread rise, and it has one open while it is in its handler.
NestInv ==
  \A t \in Threads :
    /\ Rising(nest[t], begun[t]) /\ starter[t] <= begun[t]
    /\ pc[t] # "app" => nest[t] # <<>>

\* What the client knows: a suffix, and nothing before DynamoRIO runs.
SeenInv ==
  \A t \in Threads :
    /\ Tops(seen[t], nest[t])
    /\ ~dr => seen[t] = <<>>

\* Only a late start attaches, and the first claim keeps all later begins out, so a
\* thread in late_attach began before DynamoRIO ran.
AttachInv ==
  /\ late /\ dr => attach_state # 0
  /\ \A t \in Threads :
       /\ pc[t] \in Attaching \ {"recheck", "claim"} => attach_state # 0
       /\ pc[t] \in {"attach", "finish", "again"} => late
       /\ pc[t] \in Started => dr
       /\ late /\ pc[t] \in Attaching => seen[t] = <<>>

\* The begin in which the thread started DynamoRIO: the call it is about to make
\* again, and one the client saw after that.
StarterInv ==
  \A t \in Threads :
    IF pc[t] \in Started THEN starter[t] = Last(nest[t])
    ELSE starter[t] \in ToSet(nest[t]) => starter[t] \in ToSet(seen[t])

\* What the theorems rest on.
IInv == TypeOK /\ NestInv /\ SeenInv /\ AttachInv /\ StarterInv /\ LostAreReported

\* The numbers the code is built with allow a first begin.
LEMMA FirstBegin == \A t \in Threads : IInv /\ nest[t] # <<>> => 0 < MaxDepth
<1> SUFFICES ASSUME NEW t \in Threads, IInv, nest[t] # <<>>
             PROVE  0 < MaxDepth
  OBVIOUS
<1>1. Len(nest[t]) \in Nat \ {0}
  BY DEF IInv, TypeOK
<1>2. begun[t] \in 0..MaxBegins /\ Len(nest[t]) <= begun[t]
  BY DEF IInv, TypeOK, NestInv, Rising
<1> QED BY <1>1, <1>2, BeginsAssumption

\* The state a run starts from.
LEMMA InitIInv == Init => IInv
<1> SUFFICES ASSUME Init PROVE IInv
  OBVIOUS
<1>1. TypeOK
  <2>1. late \in BOOLEAN /\ dr \in BOOLEAN
    BY DEF Init
  <2>2. 0 \in 0..MaxBegins /\ <<>> \in Seq(1..MaxBegins)
    BY BeginsAssumption
  <2>3. begun \in [Threads -> 0..MaxBegins] /\ starter \in [Threads -> 0..MaxBegins]
    BY <2>2 DEF Init
  <2>4. nest \in [Threads -> Seq(1..MaxBegins)] /\ seen \in [Threads -> Seq(1..MaxBegins)]
    BY <2>2 DEF Init
  <2> QED BY <2>1, <2>3, <2>4 DEF Init, TypeOK
<1>2. NestInv
  BY DEF Init, NestInv, Rising
<1>3. SeenInv
  BY DEF Init, SeenInv, Tops
<1>4. AttachInv
  BY DEF Init, AttachInv, Attaching, Started
<1>5. StarterInv
  BY DEF Init, StarterInv, Started, ToSet
<1>6. LostAreReported
  BY DEF Init, LostAreReported
<1> QED BY <1>1, <1>2, <1>3, <1>4, <1>5, <1>6 DEF IInv

-----------------------------------------------------------------------------
(***************************************************************************)
(* Preserved by every step.                                                *)
(***************************************************************************)
\* A step of a handler that changes pc[t] and attach_state only.
Moves(t) ==
  /\ pc[t] # "app"
  /\ \E where \in {"app", "check"} \cup Attaching : pc' = [pc EXCEPT ![t] = where]
  /\ attach_state' \in 0..2
  /\ UNCHANGED <<late, dr, begun, nest, seen, unmatched, missed, starter>>

\* Such a step leaves what does not depend on where it leads.
LEMMA MovesKeep ==
  ASSUME IInv, NEW t \in Threads, Moves(t)
  PROVE  TypeOK' /\ NestInv' /\ SeenInv' /\ LostAreReported'
<1>1. pc' \in [Threads -> {"app", "check"} \cup Attaching]
  BY DEF IInv, TypeOK, Moves, Attaching
<1>2. \A u \in Threads : pc'[u] # "app" => pc[u] # "app"
  BY DEF IInv, TypeOK, Moves
<1>3. TypeOK'
  BY <1>1 DEF IInv, TypeOK, Moves, Attaching
<1>4. NestInv'
  BY <1>2 DEF IInv, NestInv, Moves
<1>5. SeenInv' /\ LostAreReported'
  BY DEF IInv, SeenInv, LostAreReported, Moves
<1> QED BY <1>3, <1>4, <1>5

\* The steps that are such, with where they lead.
LEMMA CheckKeeps == ASSUME IInv, NEW t \in Threads, Check(t) PROVE IInv'
<1>1. DOMAIN pc = Threads
  BY DEF IInv, TypeOK
<1>2. Moves(t)
  BY DEF Check, Goto, Moves, Attaching, IInv, TypeOK
<1>3. AttachInv'
  <2>1. CASE attach_state = 0
    <3>1. pc' = [pc EXCEPT ![t] = "recheck"] /\ UNCHANGED <<late, dr, attach_state, seen>>
      BY <2>1 DEF Check, Goto
    <3>2. late => seen[t] = <<>>
      BY <2>1 DEF IInv, AttachInv, SeenInv
    <3> QED BY <1>1, <3>1, <3>2 DEF IInv, AttachInv, Attaching, Started
  <2>2. CASE attach_state # 0
    <3>1. pc' = [pc EXCEPT ![t] = "app"] /\ UNCHANGED <<late, dr, attach_state, seen>>
      BY <2>2 DEF Check, Goto
    <3> QED BY <1>1, <3>1 DEF IInv, AttachInv, Attaching, Started
  <2> QED BY <2>1, <2>2
<1>4. StarterInv'
  <2>1. pc[t] \notin Started /\ pc'[t] \notin Started
    BY <1>1 DEF Check, Goto, Started
  <2>2. \A u \in Threads \ {t} : pc'[u] = pc[u]
    BY DEF Check, Goto
  <2>3. UNCHANGED <<nest, seen, starter>>
    BY DEF Check
  <2> QED BY <2>1, <2>2, <2>3 DEF IInv, StarterInv
<1> QED BY <1>2, <1>3, <1>4, MovesKeep DEF IInv

\* The second test.
LEMMA RecheckKeeps == ASSUME IInv, NEW t \in Threads, Recheck(t) PROVE IInv'
<1>1. DOMAIN pc = Threads
  BY DEF IInv, TypeOK
<1>2. Moves(t)
  BY DEF Recheck, Goto, Moves, Attaching, IInv, TypeOK
<1>3. AttachInv'
  <2>1. CASE attach_state = 0
    <3>1. pc' = [pc EXCEPT ![t] = "claim"] /\ UNCHANGED <<late, dr, attach_state, seen>>
      BY <2>1 DEF Recheck, Goto
    <3>2. late => seen[t] = <<>>
      BY DEF IInv, AttachInv, Recheck, Attaching
    <3> QED BY <1>1, <3>1, <3>2 DEF IInv, AttachInv, Attaching, Started
  <2>2. CASE attach_state # 0
    <3>1. pc' = [pc EXCEPT ![t] = "app"] /\ UNCHANGED <<late, dr, attach_state, seen>>
      BY <2>2 DEF Recheck, Goto
    <3> QED BY <1>1, <3>1 DEF IInv, AttachInv, Attaching, Started
  <2> QED BY <2>1, <2>2
<1>4. StarterInv'
  <2>1. pc[t] \notin Started /\ pc'[t] \notin Started
    BY <1>1 DEF Recheck, Goto, Started
  <2>2. \A u \in Threads \ {t} : pc'[u] = pc[u]
    BY DEF Recheck, Goto
  <2>3. UNCHANGED <<nest, seen, starter>>
    BY DEF Recheck
  <2> QED BY <2>1, <2>2, <2>3 DEF IInv, StarterInv
<1> QED BY <1>2, <1>3, <1>4, MovesKeep DEF IInv

\* attach_state is set, and stays so.
LEMMA ClaimKeeps == ASSUME IInv, NEW t \in Threads, Claim(t) PROVE IInv'
<1>1. DOMAIN pc = Threads
  BY DEF IInv, TypeOK
<1>2. Moves(t)
  <2>1. /\ \E where \in {"attach", "giveup"} : pc' = [pc EXCEPT ![t] = where]
        /\ attach_state' = 1 /\ pc[t] # "app"
    BY DEF Claim, Goto
  <2>2. UNCHANGED <<late, dr, begun, nest, seen, unmatched, missed, starter>>
    BY DEF Claim
  <2>3. {"attach", "giveup"} \subseteq {"app", "check"} \cup Attaching /\ attach_state' \in 0..2
    BY <2>1 DEF Attaching
  <2> QED BY <2>1, <2>2, <2>3 DEF Moves
<1>3. AttachInv'
  <2>1. /\ pc' = [pc EXCEPT ![t] = IF late THEN "attach" ELSE "giveup"]
        /\ attach_state' = 1 /\ UNCHANGED <<late, dr, seen>>
    BY DEF Claim, Goto
  <2>2. late => seen[t] = <<>>
    BY DEF IInv, AttachInv, Claim, Attaching
  <2> QED BY <1>1, <2>1, <2>2 DEF IInv, AttachInv, Attaching, Started
<1>4. StarterInv'
  <2>1. pc[t] \notin Started /\ pc'[t] \notin Started
    BY <1>1 DEF Claim, Goto, Started
  <2>2. \A u \in Threads \ {t} : pc'[u] = pc[u]
    BY DEF Claim, Goto
  <2>3. UNCHANGED <<nest, seen, starter>>
    BY DEF Claim
  <2> QED BY <2>1, <2>2, <2>3 DEF IInv, StarterInv
<1> QED BY <1>2, <1>3, <1>4, MovesKeep DEF IInv

\* No attach: the begin returns.
LEMMA GiveUpKeeps == ASSUME IInv, NEW t \in Threads, GiveUp(t) PROVE IInv'
<1>1. DOMAIN pc = Threads
  BY DEF IInv, TypeOK
<1>2. Moves(t)
  BY DEF GiveUp, Goto, Moves, Attaching, IInv, TypeOK
<1>3. AttachInv'
  <2>1. /\ pc' = [pc EXCEPT ![t] = "app"]
        /\ attach_state' = 2 /\ UNCHANGED <<late, dr, seen>>
    BY DEF GiveUp, Goto
  <2> QED BY <1>1, <2>1 DEF IInv, AttachInv, Attaching, Started
<1>4. StarterInv'
  <2>1. pc[t] \notin Started /\ pc'[t] \notin Started
    BY <1>1 DEF GiveUp, Goto, Started
  <2>2. \A u \in Threads \ {t} : pc'[u] = pc[u]
    BY DEF GiveUp, Goto
  <2>3. UNCHANGED <<nest, seen, starter>>
    BY DEF GiveUp
  <2> QED BY <2>1, <2>2, <2>3 DEF IInv, StarterInv
<1> QED BY <1>2, <1>3, <1>4, MovesKeep DEF IInv

\* After the attach: the call is made again.
LEMMA FinishKeeps == ASSUME IInv, NEW t \in Threads, Finish(t) PROVE IInv'
<1>1. DOMAIN pc = Threads
  BY DEF IInv, TypeOK
<1>2. /\ pc[t] = "finish" /\ pc' = [pc EXCEPT ![t] = "again"]
      /\ attach_state' = 2 /\ UNCHANGED <<late, dr, seen, nest, starter>>
  BY DEF Finish, Goto, After
<1>3. Moves(t)
  BY <1>2 DEF Finish, Moves, Attaching, IInv, TypeOK
<1>4. AttachInv'
  BY <1>1, <1>2 DEF IInv, AttachInv, Attaching, Started
<1>5. StarterInv'
  <2>1. pc[t] \in Started /\ pc'[t] \in Started
    BY <1>1, <1>2 DEF Started
  <2>2. \A u \in Threads \ {t} : pc'[u] = pc[u]
    BY <1>2
  <2> QED BY <1>2, <2>1, <2>2 DEF IInv, StarterInv
<1> QED BY <1>3, <1>4, <1>5, MovesKeep DEF IInv

\* DynamoRIO starts, or does not.
LEMMA AttachKeeps == ASSUME IInv, NEW t \in Threads, Attach(t) PROVE IInv'
<1>1. DOMAIN pc = Threads /\ DOMAIN starter = Threads
  BY DEF IInv, TypeOK
<1>2. /\ pc[t] = "attach"
      /\ UNCHANGED <<late, attach_state, begun, nest, seen, unmatched, missed>>
  BY DEF Attach
<1>3. late /\ seen[t] = <<>> /\ attach_state # 0 /\ nest[t] # <<>>
  BY <1>2 DEF IInv, AttachInv, NestInv, Attaching
<1>4. CASE /\ dr' = TRUE /\ starter' = [starter EXCEPT ![t] = Last(nest[t])]
           /\ pc' = [pc EXCEPT ![t] = "finish"]
  <2>1. /\ Len(nest[t]) \in 1..Len(nest[t]) /\ nest[t] \in Seq(1..MaxBegins)
        /\ begun[t] \in Nat
    BY <1>3, BeginsAssumption DEF IInv, TypeOK
  <2>2. Last(nest[t]) \in 1..MaxBegins /\ Last(nest[t]) <= begun[t]
    <3>1. Last(nest[t]) = nest[t][Len(nest[t])] /\ Last(nest[t]) \in 1..MaxBegins
      BY <1>3, <2>1, LastIs
    <3> QED BY <2>1, <3>1 DEF IInv, NestInv, Rising
  <2>3. TypeOK'
    <3>1. starter' \in [Threads -> 0..MaxBegins]
      BY <1>4, <2>2 DEF IInv, TypeOK
    <3>2. pc' \in [Threads -> {"app", "check", "recheck", "claim", "attach", "giveup",
                               "finish", "again"}]
      BY <1>4 DEF IInv, TypeOK
    <3> QED BY <1>2, <1>4, <3>1, <3>2 DEF IInv, TypeOK
  <2>4. NestInv'
    BY <1>1, <1>2, <1>3, <1>4, <2>2 DEF IInv, NestInv
  <2>5. SeenInv' /\ LostAreReported'
    BY <1>2, <1>4 DEF IInv, SeenInv, LostAreReported
  <2>6. AttachInv'
    BY <1>1, <1>2, <1>3, <1>4 DEF IInv, AttachInv, Attaching, Started
  <2>7. StarterInv'
    <3>1. pc'[t] \in Started /\ starter'[t] = Last(nest'[t])
      BY <1>1, <1>2, <1>4 DEF Started
    <3>2. \A u \in Threads \ {t} : pc'[u] = pc[u] /\ starter'[u] = starter[u]
      BY <1>4
    <3> QED BY <1>2, <3>1, <3>2 DEF IInv, StarterInv
  <2> QED BY <2>3, <2>4, <2>5, <2>6, <2>7 DEF IInv
<1>5. CASE pc' = [pc EXCEPT ![t] = "giveup"] /\ UNCHANGED <<dr, starter>>
  <2>1. Moves(t)
    BY <1>2, <1>5 DEF Moves, Attaching, IInv, TypeOK
  <2>2. AttachInv'
    BY <1>1, <1>2, <1>3, <1>5 DEF IInv, AttachInv, Attaching, Started
  <2>3. StarterInv'
    <3>1. pc[t] \notin Started /\ pc'[t] \notin Started
      BY <1>1, <1>2, <1>5 DEF Started
    <3>2. \A u \in Threads \ {t} : pc'[u] = pc[u]
      BY <1>5
    <3> QED BY <1>2, <1>5, <3>1, <3>2 DEF IInv, StarterInv
  <2> QED BY <2>1, <2>2, <2>3, MovesKeep DEF IInv
<1> QED BY <1>4, <1>5 DEF Attach, Goto

\* What the client's wrapper adds to a stack that is not full.
LEMMA EntryIs ==
  ASSUME IInv, NEW t \in Threads, NEW b, Entry(t, b), Len(seen[t]) < MaxDepth
  PROVE  /\ dr => seen' = [seen EXCEPT ![t] = Append(seen[t], b)]
         /\ ~dr => seen' = seen
BY DEF Entry

\* The call made again shows the client the begin that started DynamoRIO.
LEMMA AgainKeeps == ASSUME IInv, NEW t \in Threads, Again(t) PROVE IInv'
<1> DEFINE b == Last(nest[t])
<1>1. DOMAIN pc = Threads /\ DOMAIN seen = Threads
  BY DEF IInv, TypeOK
<1>2. /\ pc[t] = "again" /\ pc' = [pc EXCEPT ![t] = "check"] /\ Entry(t, b)
      /\ UNCHANGED <<late, dr, attach_state, begun, nest, unmatched, missed, starter>>
  BY DEF Again, Goto
<1>3. late /\ dr /\ seen[t] = <<>> /\ attach_state # 0 /\ nest[t] # <<>> /\ starter[t] = b
  BY <1>2 DEF IInv, AttachInv, NestInv, StarterInv, Attaching, Started
<1>4. Len(seen[t]) < MaxDepth
  BY <1>3, FirstBegin
<1>5. seen' = [seen EXCEPT ![t] = <<b>>]
  <2>1. seen' = [seen EXCEPT ![t] = Append(seen[t], b)]
    BY <1>2, <1>3, <1>4, EntryIs
  <2> QED BY <1>3, <2>1
<1>6. nest[t] \in Seq(1..MaxBegins) /\ b \in 1..MaxBegins
  <2>1. nest[t] \in Seq(1..MaxBegins)
    BY DEF IInv, TypeOK
  <2> QED BY <1>3, <2>1, LastIs
<1> HIDE DEF b
<1>7. TypeOK'
  <2>1. seen' \in [Threads -> Seq(1..MaxBegins)]
    BY <1>5, <1>6 DEF IInv, TypeOK
  <2>2. pc' \in [Threads -> {"app", "check", "recheck", "claim", "attach", "giveup",
                             "finish", "again"}]
    BY <1>2 DEF IInv, TypeOK
  <2> QED BY <1>2, <2>1, <2>2 DEF IInv, TypeOK
<1>8. NestInv'
  BY <1>1, <1>2, <1>3 DEF IInv, NestInv
<1>9. SeenInv'
  <2>1. Tops(<<b>>, nest[t])
    BY <1>3, <1>6, TopsFew DEF b
  <2>2. seen'[t] = <<b>> /\ \A u \in Threads \ {t} : seen'[u] = seen[u]
    BY <1>1, <1>5
  <2> QED BY <1>2, <1>3, <2>1, <2>2 DEF IInv, SeenInv
<1>10. AttachInv'
  BY <1>1, <1>2, <1>3, <1>5 DEF IInv, AttachInv, Attaching, Started
<1>11. StarterInv'
  <2>1. seen'[t] = <<b>> /\ starter'[t] = b
    BY <1>1, <1>2, <1>3, <1>5
  <2>2. b \in ToSet(<<b>>)
    BY DEF ToSet
  <2>3. pc'[t] \notin Started
    BY <1>1, <1>2 DEF Started
  <2>4. \A u \in Threads \ {t} : pc'[u] = pc[u] /\ seen'[u] = seen[u]
    BY <1>2, <1>5
  <2> QED BY <1>2, <2>1, <2>2, <2>3, <2>4 DEF IInv, StarterInv
<1>12. LostAreReported'
  BY <1>2 DEF IInv, LostAreReported
<1> QED BY <1>7, <1>8, <1>9, <1>10, <1>11, <1>12 DEF IInv

\* A begin, which the client sees under DynamoRIO.
LEMMA BeginKeeps == ASSUME IInv, NEW t \in Threads, Begin(t) PROVE IInv'
<1> DEFINE b == begun[t] + 1
<1>1. /\ DOMAIN pc = Threads /\ DOMAIN seen = Threads /\ DOMAIN nest = Threads
      /\ DOMAIN begun = Threads
      /\ begun[t] \in 0..MaxBegins /\ nest[t] \in Seq(1..MaxBegins)
      /\ seen[t] \in Seq(1..MaxBegins) /\ starter[t] \in 0..MaxBegins
      /\ MaxBegins \in Nat /\ MaxDepth \in Nat /\ MaxBegins <= MaxDepth
  BY BeginsAssumption DEF IInv, TypeOK
<1>2. /\ pc[t] = "app" /\ begun[t] < MaxBegins
      /\ begun' = [begun EXCEPT ![t] = b]
      /\ UNCHANGED <<late, dr, attach_state, unmatched, missed, starter>>
      /\ pc' = [pc EXCEPT ![t] = "check"]
  BY DEF Begin, Goto
<1>3. begun'[t] = b /\ b \in 1..MaxBegins /\ begun[t] \in Nat
  BY <1>1, <1>2
<1>4. /\ nest' = [nest EXCEPT ![t] = Append(nest[t], b)]
      /\ Entry(t, b)
  BY <1>3 DEF Begin
<1>5. Tops(seen[t], nest[t]) /\ Rising(nest[t], begun[t]) /\ starter[t] <= begun[t]
  BY DEF IInv, SeenInv, NestInv
<1>6. Len(seen[t]) < MaxDepth
  <2>1. Len(seen[t]) \in Nat /\ Len(nest[t]) \in Nat
    BY <1>1
  <2> QED BY <1>1, <1>2, <1>5, <2>1 DEF Tops, Rising
<1>7. /\ dr => seen' = [seen EXCEPT ![t] = Append(seen[t], b)]
      /\ ~dr => seen' = seen
  BY <1>4, <1>6, EntryIs
<1> HIDE DEF b
<1>8. Append(nest[t], b) \in Seq(1..MaxBegins) /\ Append(seen[t], b) \in Seq(1..MaxBegins)
  BY <1>1, <1>3
<1>9. \A u \in Threads \ {t} : /\ pc'[u] = pc[u] /\ seen'[u] = seen[u] /\ nest'[u] = nest[u]
                               /\ begun'[u] = begun[u]
  <2>1. \A u \in Threads \ {t} : seen'[u] = seen[u]
    <3>1. CASE dr
      <4>1. seen' = [seen EXCEPT ![t] = Append(seen[t], b)]
        BY <1>7, <3>1
      <4>2. \A u \in DOMAIN seen \ {t} : seen'[u] = seen[u]
        BY <4>1
      <4> QED BY <1>1, <4>2
    <3>2. CASE ~dr
      BY <1>7, <3>2
    <3> QED BY <3>1, <3>2
  <2> QED BY <1>2, <1>4, <2>1
<1>10. nest'[t] = Append(nest[t], b) /\ nest'[t] # <<>> /\ pc'[t] = "check"
  <2>1. Append(nest[t], b) # <<>>
    BY <1>1, <1>3
  <2> QED BY <1>1, <1>2, <1>4, <2>1
<1>11. TypeOK'
  <2>1. seen' \in [Threads -> Seq(1..MaxBegins)] /\ nest' \in [Threads -> Seq(1..MaxBegins)]
    BY <1>4, <1>7, <1>8 DEF IInv, TypeOK
  <2>2. pc' \in [Threads -> {"app", "check", "recheck", "claim", "attach", "giveup",
                             "finish", "again"}]
    BY <1>2 DEF IInv, TypeOK
  <2>3. begun' \in [Threads -> 0..MaxBegins]
    BY <1>2, <1>3 DEF IInv, TypeOK
  <2> QED BY <1>2, <2>1, <2>2, <2>3 DEF IInv, TypeOK
<1>12. NestInv'
  <2>1. Rising(nest'[t], begun'[t])
    <3>1. begun[t] + 1 <= MaxBegins
      BY <1>1, <1>2
    <3> QED BY <1>1, <1>3, <1>5, <1>10, <3>1, RisingAppend DEF b
  <2>2. starter'[t] <= begun'[t]
    BY <1>1, <1>2, <1>3, <1>5 DEF b
  <2> QED BY <1>2, <1>9, <1>10, <2>1, <2>2 DEF IInv, NestInv
<1>13. SeenInv'
  <2>1. Tops(seen'[t], nest'[t])
    <3>1. CASE dr
      <4>1. seen'[t] = Append(seen[t], b)
        BY <1>1, <1>7, <3>1
      <4> QED BY <1>1, <1>3, <1>5, <1>10, <4>1, TopsAppend
    <3>2. CASE ~dr
      <4>1. seen'[t] = <<>>
        BY <1>7, <3>2 DEF IInv, SeenInv
      <4> QED BY <1>8, <1>10, <4>1, TopsFew
    <3> QED BY <3>1, <3>2
  <2>2. ~dr' => seen'[t] = <<>>
    BY <1>2, <1>7 DEF IInv, SeenInv
  <2> QED BY <1>2, <1>9, <2>1, <2>2 DEF IInv, SeenInv
<1>14. AttachInv'
  BY <1>2, <1>9, <1>10 DEF IInv, AttachInv, Attaching, Started
<1>15. StarterInv'
  <2>1. starter'[t] \in ToSet(nest'[t]) => starter'[t] \in ToSet(seen'[t])
    <3> SUFFICES ASSUME starter[t] \in ToSet(nest'[t])
                 PROVE  starter[t] \in ToSet(seen'[t])
      BY <1>2
    <3>1. starter[t] # b
      BY <1>1, <1>3, <1>5 DEF b
    <3>2. starter[t] \in ToSet(nest[t])
      <4>1. ToSet(Append(nest[t], b)) = ToSet(nest[t]) \cup {b}
        BY <1>1, <1>3, Members
      <4> QED BY <1>10, <3>1, <4>1
    <3>3. starter[t] \in ToSet(seen[t])
      BY <1>2, <3>2 DEF IInv, StarterInv, Started
    <3>4. CASE dr
      <4>1. seen'[t] = Append(seen[t], b)
        BY <1>1, <1>7, <3>4
      <4> QED BY <1>1, <1>3, <3>3, <4>1, Members
    <3>5. CASE ~dr
      BY <1>7, <3>3, <3>5
    <3> QED BY <3>4, <3>5
  <2>2. pc'[t] \notin Started
    BY <1>10 DEF Started
  <2> QED BY <1>2, <1>9, <2>1, <2>2 DEF IInv, StarterInv
<1>16. LostAreReported'
  BY <1>2 DEF IInv, LostAreReported
<1> QED BY <1>11, <1>12, <1>13, <1>14, <1>15, <1>16 DEF IInv

\* An end: the client closes the region the program closes, or misses it and says so.
LEMMA EndKeeps == ASSUME IInv, NEW t \in Threads, End(t) PROVE IInv'
<1>1. /\ DOMAIN seen = Threads /\ DOMAIN nest = Threads
      /\ begun[t] \in 0..MaxBegins /\ nest[t] \in Seq(1..MaxBegins)
      /\ seen[t] \in Seq(1..MaxBegins) /\ MaxBegins \in Nat
  BY BeginsAssumption DEF IInv, TypeOK
<1>2. /\ pc[t] = "app" /\ nest[t] # <<>>
      /\ nest' = [nest EXCEPT ![t] = Front(nest[t])]
      /\ UNCHANGED <<late, dr, attach_state, pc, begun, starter>>
      /\ missed' = IF dr /\ Last(nest[t]) \notin ToSet(seen[t])
                   THEN [missed EXCEPT ![t] = @ + 1] ELSE missed
  BY DEF End
<1>3. Tops(seen[t], nest[t]) /\ Rising(nest[t], begun[t])
  BY DEF IInv, SeenInv, NestInv
<1>4. /\ Front(nest[t]) \in Seq(1..MaxBegins) /\ nest'[t] = Front(nest[t])
      /\ \A u \in Threads \ {t} : nest'[u] = nest[u]
  BY <1>1, <1>2, FrontIs
<1>5. /\ Rising(Front(nest[t]), begun[t])
      /\ \A x \in ToSet(Front(nest[t])) : x \in ToSet(nest[t]) /\ x # Last(nest[t])
  <2>1. begun[t] \in Nat
    BY <1>1
  <2> QED BY <1>1, <1>2, <1>3, <2>1, RisingFront
\* What there is to show of the client's stack and of the counters.
<1> DEFINE Good(r) == /\ r \in Seq(1..MaxBegins) /\ Tops(r, Front(nest[t]))
                      /\ (~dr => r = <<>>) /\ (seen[t] = <<>> => r = <<>>)
                      /\ \A x \in ToSet(Front(nest[t])) : x \in ToSet(seen[t]) => x \in ToSet(r)
<1>6. /\ Good(seen'[t]) /\ (\A u \in Threads \ {t} : seen'[u] = seen[u])
      /\ seen' \in [Threads -> Seq(1..MaxBegins)]
      /\ unmatched' \in [Threads -> Nat] /\ missed' \in [Threads -> Nat]
      /\ \A u \in Threads : unmatched'[u] = missed'[u]
  <2>1. /\ unmatched \in [Threads -> Nat] /\ missed \in [Threads -> Nat]
        /\ \A u \in Threads : unmatched[u] = missed[u]
    BY DEF IInv, TypeOK, LostAreReported
  <2>2. seen \in [Threads -> Seq(1..MaxBegins)]
    BY DEF IInv, TypeOK
  <2>3. CASE dr /\ seen[t] # <<>>
    <3>1. seen' = [seen EXCEPT ![t] = Front(seen[t])] /\ unmatched' = unmatched
      BY <2>3 DEF End
    <3>2. Last(seen[t]) = Last(nest[t]) /\ Tops(Front(seen[t]), Front(nest[t]))
      BY <1>1, <1>3, <2>3, TopsFront
    <3>3. /\ Last(seen[t]) \in ToSet(seen[t])
          /\ \A x \in ToSet(seen[t]) : x = Last(seen[t]) \/ x \in ToSet(Front(seen[t]))
      BY <1>1, <2>3, Members
    <3>4. missed' = missed
      BY <1>2, <3>2, <3>3
    <3>5. Front(seen[t]) \in Seq(1..MaxBegins)
      BY <1>1, <2>3, FrontIs
    <3>6. Good(Front(seen[t]))
      BY <1>5, <2>3, <3>2, <3>3, <3>5
    <3> HIDE DEF Good
    <3> QED BY <1>1, <2>1, <2>2, <3>1, <3>4, <3>5, <3>6
  <2>4. CASE ~(dr /\ seen[t] # <<>>)
    <3>1. seen[t] = <<>>
      BY <2>4 DEF IInv, SeenInv
    <3>2. seen' = seen /\ unmatched' = IF dr THEN Strays(t) ELSE unmatched
      BY <2>4 DEF End
    <3>3. ToSet(seen[t]) = {}
      BY <3>1 DEF ToSet
    <3>4. Good(seen[t])
      BY <1>1, <1>4, <3>1, <3>3, TopsFew
    <3> HIDE DEF Good
    <3>5. CASE dr
      <4>1. /\ unmatched' = [unmatched EXCEPT ![t] = @ + 1]
            /\ missed' = [missed EXCEPT ![t] = @ + 1]
        BY <1>2, <3>2, <3>3, <3>5 DEF Strays
      <4>2. /\ unmatched' \in [Threads -> Nat] /\ missed' \in [Threads -> Nat]
            /\ \A u \in Threads : unmatched'[u] = missed'[u]
        BY <2>1, <4>1
      <4>3. seen'[t] = seen[t] /\ \A u \in Threads \ {t} : seen'[u] = seen[u]
        BY <3>2
      <4> QED BY <2>2, <3>2, <3>4, <4>2, <4>3
    <3>6. CASE ~dr
      <4>1. unmatched' = unmatched /\ missed' = missed
        BY <1>2, <3>2, <3>6
      <4> QED BY <2>1, <2>2, <3>2, <3>4, <4>1
    <3> QED BY <3>5, <3>6
  <2> QED BY <2>3, <2>4
<1>7. TypeOK'
  <2>1. nest' \in [Threads -> Seq(1..MaxBegins)]
    BY <1>2, <1>4 DEF IInv, TypeOK
  <2> QED BY <1>2, <1>6, <2>1 DEF IInv, TypeOK
<1>8. NestInv'
  BY <1>2, <1>4, <1>5 DEF IInv, NestInv
<1>9. SeenInv'
  BY <1>2, <1>4, <1>6 DEF IInv, SeenInv
<1>10. AttachInv'
  <2>1. pc[t] \notin Attaching
    BY <1>2 DEF Attaching
  <2> QED BY <1>2, <1>6, <2>1 DEF IInv, AttachInv
<1>11. StarterInv'
  <2>1. pc[t] \notin Started
    BY <1>2 DEF Started
  <2>2. starter[t] \in ToSet(nest'[t]) => starter[t] \in ToSet(seen'[t])
    <3>1. starter[t] \in ToSet(nest[t]) => starter[t] \in ToSet(seen[t])
      BY <2>1 DEF IInv, StarterInv
    <3> QED BY <1>4, <1>5, <1>6, <3>1
  <2> QED BY <1>2, <1>4, <1>6, <2>1, <2>2 DEF IInv, StarterInv
<1>12. LostAreReported'
  BY <1>6 DEF LostAreReported
<1> QED BY <1>7, <1>8, <1>9, <1>10, <1>11, <1>12 DEF IInv

\* A step of any kind.
LEMMA NextKeeps == IInv /\ [Next]_vars => IInv'
<1> SUFFICES ASSUME IInv, [Next]_vars PROVE IInv'
  OBVIOUS
<1>1. CASE UNCHANGED vars
  BY <1>1 DEF vars, IInv, TypeOK, NestInv, SeenInv, AttachInv, StarterInv, LostAreReported
<1>2. ASSUME NEW t \in Threads, Handler(t) \/ Begin(t) \/ End(t)
      PROVE  IInv'
  BY <1>2, CheckKeeps, RecheckKeeps, ClaimKeeps, AttachKeeps, GiveUpKeeps, FinishKeeps,
     AgainKeeps, BeginKeeps, EndKeeps DEF Handler
<1> QED BY <1>1, <1>2 DEF Next, Finished

-----------------------------------------------------------------------------
(***************************************************************************)
(* The theorems.                                                           *)
(***************************************************************************)
\* IInv holds of every reachable state.
THEOREM Invariance == Spec => []IInv
<1>1. Init => IInv
  BY InitIInv
<1>2. IInv /\ [Next]_vars => IInv'
  BY NextKeeps
<1> QED BY <1>1, <1>2, PTL DEF Spec

\* The variables of late attach keep their types.
THEOREM TypeCorrect == Spec => []TypeOK
<1>1. IInv => TypeOK
  BY DEF IInv
<1> QED BY <1>1, Invariance, PTL

\* What the client knows of a thread are the last regions it opened, each once and in
\* order, whichever threads test and set attach_state when.
THEOREM SuffixAlways == Spec => []SeenIsSuffix
<1>1. IInv => SeenIsSuffix
  <2> SUFFICES ASSUME IInv, NEW t \in Threads
               PROVE  IsSuffix(seen[t], nest[t])
    BY DEF SeenIsSuffix
  <2>1. seen[t] \in Seq(1..MaxBegins) /\ nest[t] \in Seq(1..MaxBegins)
    BY DEF IInv, TypeOK
  <2>2. Tops(seen[t], nest[t])
    BY DEF IInv, SeenInv
  <2> QED BY <2>1, <2>2, TopsAreSuffix
<1> QED BY <1>1, Invariance, PTL

\* The begin in which DynamoRIO was started is itself seen, for as long as it is open.
THEOREM StarterAlways == Spec => []StarterIsSeen
<1>1. IInv => StarterIsSeen
  BY DEF IInv, StarterInv, StarterIsSeen, Started
<1> QED BY <1>1, Invariance, PTL

\* Each begin lost to another thread's attach is counted as an unmatched end when it
\* ends, and nothing else is.
THEOREM LossesReported == Spec => []LostAreReported
<1>1. IInv => LostAreReported
  BY DEF IInv
<1> QED BY <1>1, Invariance, PTL

=============================================================================
