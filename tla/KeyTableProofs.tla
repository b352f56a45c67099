------------------------- MODULE KeyTableProofs -------------------------
(***************************************************************************)
(* Proofs about KeyTable for any threads, combinations, hashes and         *)
(* budgets: what a begin gets is the key of its combination's name, and    *)
(* KeyTable implements KeyMap.                                             *)
(***************************************************************************)
EXTENDS KeyTable, SequenceTheorems, FiniteSetTheorems, TLAPS

(***************************************************************************)
(* The inductive invariant: the table and the names of the keys are        *)
(* inverse to each other, a private cache agrees with the table where it   *)
(* has anything, and a key that was given for a combination is the one its *)
(* name still finds.                                                       *)
(***************************************************************************)
TableInv == \A n \in Names : table[n] # 0 => Denotes(table[n]) = n
KeysInv == \A k \in 1..Len(keys) : table[Denotes(k)] = k
CacheInv == \A t \in Threads, n \in Names : cache[t][n] # 0 => cache[t][n] = table[n]

\* A combination that was folded is never given a key of its own.
Folded(c) == table[c] = 0 /\ ~Fits(c)
GivenInv ==
  \A g \in given :
    IF keys[g[2]].other
    THEN RegionOf[keys[g[2]].combo] = RegionOf[g[1]] /\ Folded(g[1])
    ELSE keys[g[2]].combo = g[1]

ControlInv ==
  \A t \in Threads :
    /\ pc[t] = "lookup" => combo[t] \in Combos
    /\ pc[t] \in {"slots", "alloc"} => want[t] # 0

IInv == TypeOK /\ TableInv /\ KeysInv /\ CacheInv /\ GivenInv /\ ControlInv

-----------------------------------------------------------------------------
Key == [combo : Combos, other : BOOLEAN]

LEMMA FunctionIsSeq ==
  ASSUME NEW S, NEW n \in Nat, NEW s \in [1..n -> S]
  PROVE  s \in Seq(S) /\ Len(s) = n
OBVIOUS

\* What a key's name says is one of the strings of the table.
LEMMA DenotesName ==
  ASSUME TypeOK, NEW k \in 1..Len(keys)
  PROVE  /\ keys[k] \in Key
         /\ Denotes(k) \in Names
         /\ keys[k].other <=> Denotes(k) \in Regions
<1>1. keys \in Seq(Key)
  BY DEF TypeOK, Key
<1>2. keys[k] \in Key
  BY ONLY <1>1, k \in 1..Len(keys), ElementOfSeq
<1> QED BY <1>2, CombosAssumption DEF Key, Denotes, Names, Regions

LEMMA DenotesPrime ==
  ASSUME TypeOK', NEW k \in 1..Len(keys')
  PROVE  /\ keys'[k] \in Key
         /\ Denotes(k)' \in Names
         /\ keys'[k].other <=> Denotes(k)' \in Regions
<1>1. keys' \in Seq(Key)
  BY DEF TypeOK, Key
<1>2. keys'[k] \in Key
  BY ONLY <1>1, k \in 1..Len(keys'), ElementOfSeq
<1> QED BY <1>2, CombosAssumption DEF Key, Denotes, Names, Regions

LEMMA NameKind ==
  ASSUME NEW c \in Combos
  PROVE  /\ Name(c) \in Names /\ c \in Names /\ RegionOf[c] \in Regions
         /\ RegionOf[c] \in Names /\ c # RegionOf[c]
         /\ Name(c) = c \/ (Name(c) = RegionOf[c] /\ Folded(c))
BY CombosAssumption DEF Name, Names, Regions, Folded

\* A lookup leaves the keys and the table as they are and gets the key of the name, ...
LEMMA LookupOld ==
  ASSUME TypeOK, ControlInv, NEW t \in Threads, Lookup(t),
         table[Name(combo[t])] # 0
  PROVE  /\ combo[t] \in Combos
         /\ Found(combo[t]) = table[Name(combo[t])]
         /\ Found(combo[t]) \in 1..Len(keys)
         /\ UNCHANGED <<keys, table, tslots>>
<1>1. combo[t] \in Combos /\ Name(combo[t]) \in Names
  BY NameKind DEF Lookup, ControlInv
<1>2. Found(combo[t]) = table[Name(combo[t])]
  BY DEF Found
<1>3. table[Name(combo[t])] \in 0..Len(keys) /\ Len(keys) \in Nat
  BY <1>1, LenProperties DEF TypeOK
<1>4. Found(combo[t]) \in 1..Len(keys) /\ ~(Found(combo[t]) > Len(keys))
  BY <1>2, <1>3
<1>5. UNCHANGED <<keys, table, tslots>>
  BY <1>4 DEF Lookup
<1> QED BY <1>1, <1>2, <1>4, <1>5

\* ... or makes the key and enters it in the table.
LEMMA LookupNew ==
  ASSUME TypeOK, ControlInv, NEW t \in Threads, Lookup(t),
         table[Name(combo[t])] = 0
  PROVE  /\ combo[t] \in Combos
         /\ Found(combo[t]) = Len(keys) + 1
         /\ keys' \in Seq(Key) /\ Len(keys') = Len(keys) + 1
         /\ \A k \in 1..Len(keys) : keys'[k] = keys[k]
         /\ keys'[Len(keys) + 1] =
              [combo |-> combo[t], other |-> Name(combo[t]) # combo[t]]
         /\ table' = [table EXCEPT ![Name(combo[t])] = Len(keys) + 1]
         /\ tslots' \in [1..Len(keys) + 1 -> SUBSET Slots]
         /\ \A k \in 1..Len(keys) : tslots'[k] = tslots[k]
         /\ tslots'[Len(keys) + 1] = {}
<1>1. combo[t] \in Combos /\ Name(combo[t]) \in Names
  BY NameKind DEF Lookup, ControlInv
<1>2. Found(combo[t]) = Len(keys) + 1
  BY DEF Found
<1>3. keys \in Seq(Key) /\ Len(keys) \in Nat
  BY LenProperties DEF TypeOK, Key
<1>4. /\ keys' = Append(keys, [combo |-> combo[t], other |-> Name(combo[t]) # combo[t]])
      /\ table' = [table EXCEPT ![Name(combo[t])] = Len(keys) + 1]
      /\ tslots' = Append(tslots, {})
  BY <1>2, <1>3 DEF Lookup
<1>5. [combo |-> combo[t], other |-> Name(combo[t]) # combo[t]] \in Key
  BY <1>1 DEF Key
<1>6. /\ keys' \in Seq(Key) /\ Len(keys') = Len(keys) + 1
      /\ \A k \in 1..Len(keys) : keys'[k] = keys[k]
      /\ keys'[Len(keys) + 1] = [combo |-> combo[t], other |-> Name(combo[t]) # combo[t]]
  BY <1>3, <1>4, <1>5, AppendProperties
<1>7. tslots \in Seq(SUBSET Slots) /\ Len(tslots) = Len(keys)
  <2>1. tslots \in [1..Len(keys) -> SUBSET Slots]
    BY DEF TypeOK
  <2> QED BY ONLY <2>1, <1>3, FunctionIsSeq
<1>8. /\ Append(tslots, {}) \in Seq(SUBSET Slots) /\ Len(Append(tslots, {})) = Len(keys) + 1
      /\ \A k \in 1..Len(keys) : Append(tslots, {})[k] = tslots[k]
      /\ Append(tslots, {})[Len(keys) + 1] = {}
  <2>1. {} \in SUBSET Slots OBVIOUS
  <2> QED BY ONLY <2>1, <1>7, AppendProperties
<1>9. tslots' \in [1..Len(keys) + 1 -> SUBSET Slots]
  BY <1>4, <1>8, LenProperties
<1> QED BY <1>1, <1>2, <1>4, <1>6, <1>8, <1>9
-----------------------------------------------------------------------------
(***************************************************************************)
(* Types and control                                                       *)
(***************************************************************************)
LEMMA InitInv == Init => IInv
<1> SUFFICES ASSUME Init PROVE IInv
  OBVIOUS
<1>1. keys = <<>> /\ Len(keys) = 0
  BY DEF Init
<1>2. TypeOK
  <2>1. keys \in Seq([combo : Combos, other : BOOLEAN])
    BY <1>1
  <2>2. tslots \in [1..Len(keys) -> SUBSET Slots]
    BY <1>1 DEF Init
  <2>3. table \in [Names -> 0..Len(keys)] /\ used \in [Regions -> Nat] /\ nlisted \in 0..Listed
    BY <1>1, BudgetAssumption DEF Init
  <2>4. cache \in [Threads -> [Names -> 0..Len(keys)]]
    BY <1>1 DEF Init
  <2>5. fast \in [Threads -> [Cells -> [hash : {0} \cup {Hash[c] : c \in Combos},
                                        key : 0..Len(keys)]]]
    BY <1>1 DEF Init, Empty
  <2>6. bytes \in Nat /\ denied \in BOOLEAN
    BY DEF Init
  <2>7. /\ pc \in [Threads -> {"app", "lookup", "slots", "alloc"}]
        /\ combo \in [Threads -> Combos \cup {NoCombo}]
        /\ want \in [Threads -> 0..Len(keys)]
        /\ whose \in [Threads -> Threads]
        /\ into \in [Threads -> {NoAnswer} \cup 0..Len(keys)]
        /\ given \subseteq Combos \X (1..Len(keys))
    BY <1>1 DEF Init
  <2> QED BY <2>1, <2>2, <2>3, <2>4, <2>5, <2>6, <2>7 DEF TypeOK
<1>3. TableInv /\ KeysInv /\ CacheInv /\ GivenInv /\ ControlInv
  BY <1>1 DEF Init, TableInv, KeysInv, CacheInv, GivenInv, ControlInv
<1> QED BY <1>2, <1>3 DEF IInv

\* get_key ends: the key is the thread's, and the caches and answers keep their types.
LEMMA GotType ==
  ASSUME TypeOK, NEW t \in Threads, NEW c \in Combos, NEW k \in 1..Len(keys'), Got(t, c, k),
         Len(keys) \in Nat, Len(keys') \in Nat, Len(keys) <= Len(keys')
  PROVE  /\ pc' \in [Threads -> {"app", "lookup", "slots", "alloc"}]
         /\ combo' \in [Threads -> Combos \cup {NoCombo}]
         /\ want' \in [Threads -> 0..Len(keys')]
         /\ given' \subseteq Combos \X (1..Len(keys'))
<1>1. want \in [Threads -> 0..Len(keys)] /\ given \subseteq Combos \X (1..Len(keys))
  BY DEF TypeOK
<1>2. want' \in [Threads -> 0..Len(keys')]
  BY <1>1 DEF Got
<1>3. given' \subseteq Combos \X (1..Len(keys'))
  BY <1>1 DEF Got
<1> QED BY <1>2, <1>3 DEF Got, TypeOK

FastOK(f, n) ==
  f \in [Threads -> [Cells -> [hash : {0} \cup {Hash[c] : c \in Combos}, key : 0..n]]]

LEMMA RememberType ==
  ASSUME NEW t \in Threads, NEW c \in Combos, NEW m \in Nat, NEW n \in Nat, m <= n,
         FastOK(fast, m), NEW k \in 0..n, Remember(t, c, k)
  PROVE  FastOK(fast', n)
<1>1. Cell[c] \in Cells /\ Hash[c] \in {0} \cup {Hash[d] : d \in Combos}
  BY DEF Cells
<1>2. [hash |-> Hash[c], key |-> k] \in [hash : {0} \cup {Hash[d] : d \in Combos}, key : 0..n]
  BY <1>1
<1>3. FastOK(fast, n)
  BY DEF FastOK
<1> QED BY <1>1, <1>2, <1>3 DEF Remember, FastOK

LEMMA BeginType ==
  ASSUME IInv, NEW t \in Threads, NEW c \in Combos, Begin(t, c)
  PROVE  TypeOK' /\ ControlInv'
<1>1. keys \in Seq(Key) /\ Len(keys) \in Nat /\ FastOK(fast, Len(keys)) /\ c \in Names
  BY LenProperties, NameKind DEF IInv, TypeOK, Key, FastOK
<1>2. UNCHANGED <<keys, table, used, nlisted, cache, tslots, bytes, denied, into, whose>>
  BY DEF Begin, tables, arrays
<1> DEFINE hit == fast[t][Cell[c]].key
<1>3. CASE FastHit(t, c)
  <2>1. Got(t, c, hit) /\ UNCHANGED fast
    BY <1>3 DEF Begin
  <2>2. hit \in 1..Len(keys) /\ hit # 0
    <3>1. Cell[c] \in Cells
      BY DEF Cells
    <3>2. hit \in 0..Len(keys)
      BY <3>1, <1>1 DEF FastOK
    <3>3. hit # 0
      BY <1>3 DEF FastHit
    <3> QED BY <3>2, <3>3, <1>1
  <2> HIDE DEF hit
  <2>3. /\ pc' \in [Threads -> {"app", "lookup", "slots", "alloc"}]
        /\ combo' \in [Threads -> Combos \cup {NoCombo}]
        /\ want' \in [Threads -> 0..Len(keys')]
        /\ given' \subseteq Combos \X (1..Len(keys'))
    BY <2>1, <2>2, <1>1, <1>2, GotType DEF IInv
  <2>4. TypeOK'
    BY <2>1, <2>3, <1>2 DEF IInv, TypeOK
  <2>5. ControlInv'
    BY <2>1, <2>2 DEF IInv, TypeOK, ControlInv, Got
  <2> QED BY <2>4, <2>5
<1>4. CASE ~FastHit(t, c) /\ cache[t][c] # 0
  <2>1. Got(t, c, cache[t][c]) /\ Remember(t, c, cache[t][c])
    BY <1>4 DEF Begin
  <2>2. cache[t][c] \in 1..Len(keys)
    BY <1>1, <1>4 DEF IInv, TypeOK
  <2>3. /\ pc' \in [Threads -> {"app", "lookup", "slots", "alloc"}]
        /\ combo' \in [Threads -> Combos \cup {NoCombo}]
        /\ want' \in [Threads -> 0..Len(keys')]
        /\ given' \subseteq Combos \X (1..Len(keys'))
    BY <2>1, <2>2, <1>1, <1>2, GotType DEF IInv
  <2>4. FastOK(fast', Len(keys))
    BY <2>1, <2>2, <1>1, RememberType
  <2>5. TypeOK'
    BY <2>3, <2>4, <1>2 DEF IInv, TypeOK, FastOK
  <2>6. ControlInv'
    BY <2>1, <2>2 DEF IInv, TypeOK, ControlInv, Got
  <2> QED BY <2>5, <2>6
<1>5. CASE ~FastHit(t, c) /\ cache[t][c] = 0
  <2>1. /\ combo' = [combo EXCEPT ![t] = c]
        /\ pc' = [pc EXCEPT ![t] = "lookup"]
        /\ UNCHANGED <<fast, want, given>>
    BY <1>5 DEF Begin
  <2>2. TypeOK'
    BY <2>1, <1>2 DEF IInv, TypeOK
  <2>3. ControlInv'
    BY <2>1 DEF IInv, TypeOK, ControlInv
  <2> QED BY <2>2, <2>3
<1> QED BY <1>3, <1>4, <1>5

\* region_key_budget: counts only grow.
LEMMA CountType ==
  ASSUME TypeOK, NEW r \in Regions, CountKey(r)
  PROVE  /\ used' \in [Regions -> Nat] /\ nlisted' \in 0..Listed
         /\ \A q \in Regions : used'[q] >= used[q]
BY BudgetAssumption DEF TypeOK, CountKey, MayEnter, Entered

LEMMA LookupType ==
  ASSUME IInv, NEW t \in Threads, Lookup(t)
  PROVE  TypeOK' /\ ControlInv'
<1> DEFINE c == combo[t]
           n == Name(c)
           k == Found(c)
<1>1. /\ Cached(t, n, k) /\ Remember(t, c, k) /\ Got(t, c, k)
      /\ UNCHANGED <<bytes, denied, into, whose>>
  BY DEF Lookup
<1>2. /\ c \in Combos /\ n \in Names /\ RegionOf[c] \in Regions
      /\ Len(keys) \in Nat /\ keys \in Seq(Key)
  BY NameKind, LenProperties DEF Lookup, IInv, ControlInv, TypeOK, Key
<1>3. /\ k \in 1..Len(keys') /\ Len(keys') \in Nat /\ Len(keys) <= Len(keys')
      /\ keys' \in Seq(Key)
      /\ tslots' \in [1..Len(keys') -> SUBSET Slots]
      /\ table' \in [Names -> 0..Len(keys')]
  <2>1. CASE table[n] # 0
    <3>1. k \in 1..Len(keys) /\ UNCHANGED <<keys, table, tslots>>
      BY <2>1, LookupOld DEF IInv
    <3> QED BY <3>1, <1>2 DEF IInv, TypeOK
  <2>2. CASE table[n] = 0
    <3>1. /\ k = Len(keys) + 1 /\ keys' \in Seq(Key) /\ Len(keys') = Len(keys) + 1
          /\ table' = [table EXCEPT ![n] = Len(keys) + 1]
          /\ tslots' \in [1..Len(keys) + 1 -> SUBSET Slots]
      BY <2>2, LookupNew DEF IInv
    <3>2. table \in [Names -> 0..Len(keys)]
      BY DEF IInv, TypeOK
    <3> HIDE DEF n, k
    <3>3. table' \in [Names -> 0..Len(keys')]
      BY <3>1, <3>2, <1>2
    <3> QED BY <3>1, <3>3, <1>2
  <2> QED BY <2>1, <2>2
<1>4. used' \in [Regions -> Nat] /\ nlisted' \in 0..Listed
  BY <1>2, CountType DEF Lookup, IInv, TypeOK
<1> HIDE DEF c, n, k
<1>5. /\ pc' \in [Threads -> {"app", "lookup", "slots", "alloc"}]
      /\ combo' \in [Threads -> Combos \cup {NoCombo}]
      /\ want' \in [Threads -> 0..Len(keys')]
      /\ given' \subseteq Combos \X (1..Len(keys'))
  BY <1>1, <1>2, <1>3, GotType DEF IInv
<1>6. FastOK(fast', Len(keys'))
  <2>1. FastOK(fast, Len(keys)) /\ k \in 0..Len(keys')
    BY <1>3 DEF IInv, TypeOK, FastOK
  <2> QED BY <2>1, <1>1, <1>2, <1>3, RememberType
<1>7. cache' \in [Threads -> [Names -> 0..Len(keys')]]
  <2>1. cache \in [Threads -> [Names -> 0..Len(keys)]]
    BY DEF IInv, TypeOK
  <2>2. cache \in [Threads -> [Names -> 0..Len(keys')]]
    BY <2>1, <1>2, <1>3
  <2> QED BY <2>2, <1>1, <1>2, <1>3 DEF Cached
<1>8. into' \in [Threads -> {NoAnswer} \cup 0..Len(keys')] /\ whose' \in [Threads -> Threads]
      /\ bytes' \in Nat /\ denied' \in BOOLEAN
  BY <1>1, <1>2, <1>3 DEF IInv, TypeOK
<1>9. TypeOK'
  BY <1>3, <1>4, <1>5, <1>6, <1>7, <1>8 DEF TypeOK, FastOK, Key
<1>10. ControlInv'
  BY <1>1, <1>3 DEF IInv, TypeOK, ControlInv, Got
<1> QED BY <1>9, <1>10
LEMMA SlotsType ==
  ASSUME IInv, NEW t \in Threads, Slots1(t) \/ Slots2(t) \/ \E u \in Threads : Steer(t, u)
  PROVE  TypeOK' /\ ControlInv'
<1>1. Len(keys) \in Nat /\ want[t] \in 0..Len(keys) /\ whose[t] \in Threads
  BY LenProperties DEF IInv, TypeOK
<1>2. ASSUME NEW k \in 0..Len(keys), Serve(t, k)
      PROVE  /\ into' \in [Threads -> {NoAnswer} \cup 0..Len(keys)]
             /\ whose' \in [Threads -> Threads]
             /\ pc' \in [Threads -> {"app", "lookup", "slots", "alloc"}]
             /\ \A u \in Threads : pc'[u] # "app" => pc'[u] = pc[u]
  BY <1>1, <1>2 DEF Serve, IInv, TypeOK
<1>3. CASE Slots1(t)
  <2>1. UNCHANGED <<tables, caches, tslots, bytes, denied, combo, want, given>>
    BY <1>3 DEF Slots1
  <2>2. CASE Has(want[t], whose[t])
    <3>1. Serve(t, want[t])
      BY <1>3, <2>2 DEF Slots1
    <3>2. TypeOK'
      BY <3>1, <2>1, <1>1, <1>2 DEF IInv, TypeOK, tables, caches
    <3>3. ControlInv'
      BY <3>1, <2>1, <1>1, <1>2 DEF IInv, ControlInv
    <3> QED BY <3>2, <3>3
  <2>3. CASE ~Has(want[t], whose[t])
    <3>1. pc' = [pc EXCEPT ![t] = "alloc"] /\ UNCHANGED <<into, whose>> /\ pc[t] = "slots"
      BY <1>3, <2>3 DEF Slots1
    <3>2. TypeOK'
      BY <3>1, <2>1 DEF IInv, TypeOK, tables, caches
    <3>3. ControlInv'
      BY <3>1, <2>1 DEF IInv, TypeOK, ControlInv
    <3> QED BY <3>2, <3>3
  <2> QED BY <2>2, <2>3
<1>4. CASE Slots2(t)
  <2>1. UNCHANGED <<tables, caches, combo, want, given>> /\ pc[t] = "alloc"
    BY <1>4 DEF Slots2
  <2>2. want[t] \in 1..Len(keys)
    BY <2>1, <1>1 DEF IInv, ControlInv
  <2>3. Serve(t, want[t]) \/ Serve(t, 0)
    BY <1>4 DEF Slots2, NoArray
  <2>4. tslots' \in [1..Len(keys) -> SUBSET Slots] /\ bytes' \in Nat /\ denied' \in BOOLEAN
    <3>1. Index[whose[t]] \in Slots
      BY <1>1 DEF Slots
    <3>2. tslots \in [1..Len(keys) -> SUBSET Slots] /\ bytes \in Nat /\ denied \in BOOLEAN
      BY DEF IInv, TypeOK
    <3>3. CASE UNCHANGED <<tslots, bytes>> /\ denied' \in {TRUE, denied}
      BY <3>2, <3>3
    <3>4. CASE /\ tslots' = [tslots EXCEPT ![want[t]] = @ \cup {Index[whose[t]]}]
               /\ bytes' = bytes + 1 /\ UNCHANGED denied
      BY <3>1, <3>2, <3>4, <2>2
    <3> QED BY <3>3, <3>4, <1>4 DEF Slots2
  <2>5. TypeOK'
    BY <2>1, <2>3, <2>4, <1>1, <1>2 DEF IInv, TypeOK, tables, caches
  <2>6. ControlInv'
    BY <2>1, <2>3, <1>1, <1>2 DEF IInv, ControlInv
  <2> QED BY <2>5, <2>6
<1>5. ASSUME NEW u \in Threads, Steer(t, u) PROVE TypeOK' /\ ControlInv'
  <2>1. TypeOK'
    BY <1>5 DEF Steer, IInv, TypeOK, tables, caches, arrays
  <2>2. ControlInv'
    BY <1>5 DEF Steer, IInv, TypeOK, ControlInv, tables, caches, arrays
  <2> QED BY <2>1, <2>2
<1> QED BY <1>3, <1>4, <1>5

-----------------------------------------------------------------------------
(***************************************************************************)
(* The table, the caches and the answers                                   *)
(***************************************************************************)
\* What is folded stays folded: neither the memory nor a region's budget comes back.
LEMMA StaysFolded ==
  ASSUME TypeOK, NEW d \in Combos, ~Fits(d), bytes' \in Nat, bytes' >= bytes,
         \A q \in Regions : used'[q] \in Nat /\ used'[q] >= used[q]
  PROVE  ~Fits(d)'
<1>1. RegionOf[d] \in Regions /\ used[RegionOf[d]] \in Nat /\ bytes \in Nat
  BY DEF Regions, TypeOK
<1>2. used'[RegionOf[d]] \in Nat /\ used'[RegionOf[d]] >= used[RegionOf[d]]
  BY <1>1
<1>3. CASE Full
  <2>1. bytes + 1 > Budget
    BY <1>3 DEF Full
  <2>2. bytes' + 1 > Budget
    BY ONLY <2>1, <1>1, bytes' \in Nat, bytes' >= bytes, BudgetAssumption
  <2> QED BY <2>2 DEF Fits, Full
<1>4. CASE ~BelowBudget(RegionOf[d])
  <2>1. used[RegionOf[d]] > 0 /\ ~(used[RegionOf[d]] < PerRegion)
    BY <1>4 DEF BelowBudget, Entered
  <2>2. used'[RegionOf[d]] > 0 /\ ~(used'[RegionOf[d]] < PerRegion)
    BY <2>1, <1>1, <1>2, BudgetAssumption
  <2> QED BY <2>2 DEF Fits, BelowBudget, Entered
<1> QED BY <1>3, <1>4 DEF Fits

\* Where keys, table and budgets stay as they are, so does what they mean.
LEMMA TablesSame ==
  ASSUME IInv, UNCHANGED <<keys, table, used, cache>>, bytes' \in Nat, bytes' >= bytes,
         UNCHANGED given
  PROVE  TableInv' /\ KeysInv' /\ CacheInv' /\ GivenInv'
<1>1. TableInv' /\ KeysInv'
  BY DEF IInv, TableInv, KeysInv, Denotes
<1>2. CacheInv'
  BY DEF IInv, CacheInv
<1>3. ASSUME NEW d \in Combos, Folded(d) PROVE Folded(d)'
  BY <1>3, StaysFolded DEF IInv, TypeOK, Folded
<1>4. GivenInv'
  BY <1>3 DEF IInv, TypeOK, GivenInv
<1> QED BY <1>1, <1>2, <1>4

\* A cache of the thread has the key of the combination's own name.
LEMMA CachedKey ==
  ASSUME IInv, NEW t \in Threads, NEW c \in Combos,
         NEW k \in 1..Len(keys), (FastHit(t, c) /\ k = fast[t][Cell[c]].key) \/ k = cache[t][c]
  PROVE  table[c] = k /\ ~keys[k].other /\ keys[k].combo = c
<1>1. c \in Names /\ c \notin Regions /\ k # 0
  BY CombosAssumption DEF Names
<1>2. CASE FastHit(t, c) /\ k = fast[t][Cell[c]].key
  <2>1. ~keys[k].other /\ keys[k].combo = c
    BY <1>2 DEF FastHit, Matches
  <2>2. table[c] = k
    BY <2>1 DEF IInv, KeysInv, Denotes
  <2> QED BY <2>1, <2>2
<1>3. CASE k = cache[t][c]
  <2>1. table[c] = k /\ Denotes(k) = c
    BY <1>1, <1>3 DEF IInv, CacheInv, TableInv
  <2>2. ~keys[k].other
    BY <2>1, <1>1, DenotesName DEF IInv
  <2> QED BY <2>1, <2>2 DEF Denotes
<1> QED BY <1>2, <1>3

LEMMA BeginTables ==
  ASSUME IInv, NEW t \in Threads, NEW c \in Combos, Begin(t, c)
  PROVE  TableInv' /\ KeysInv' /\ CacheInv' /\ GivenInv'
<1>1. UNCHANGED <<keys, table, used, nlisted, cache, bytes>>
  BY DEF Begin, tables, arrays
<1>2. TableInv' /\ KeysInv'
  BY <1>1 DEF IInv, TableInv, KeysInv, Denotes
<1>3. CacheInv'
  BY <1>1 DEF IInv, CacheInv
<1>4. \A d \in Combos : Folded(d) => Folded(d)'
  BY <1>1 DEF Folded, Fits, Full, BelowBudget, Entered
<1>5. \/ UNCHANGED given
      \/ \E k \in 1..Len(keys) : /\ given' = given \cup {<<c, k>>}
                                 /\ ~keys[k].other /\ keys[k].combo = c
  <2>1. CASE FastHit(t, c)
    <3> DEFINE k == fast[t][Cell[c]].key
    <3>1. given' = given \cup {<<c, k>>}
      BY <2>1 DEF Begin, Got
    <3>2. k \in 1..Len(keys)
      <4>1. TypeOK' /\ <<c, k>> \in given'
        BY <3>1, BeginType
      <4> QED BY <4>1, <1>1 DEF TypeOK
    <3>3. ~keys[k].other /\ keys[k].combo = c
      BY <2>1 DEF FastHit, Matches
    <3> HIDE DEF k
    <3> QED BY <3>1, <3>2, <3>3
  <2>2. CASE ~FastHit(t, c) /\ cache[t][c] # 0
    <3> DEFINE k == cache[t][c]
    <3>1. given' = given \cup {<<c, k>>}
      BY <2>2 DEF Begin, Got
    <3>2. k \in 1..Len(keys)
      <4>1. TypeOK' /\ <<c, k>> \in given'
        BY <3>1, BeginType
      <4> QED BY <4>1, <1>1 DEF TypeOK
    <3>3. ~keys[k].other /\ keys[k].combo = c
      BY <3>2, CachedKey
    <3> HIDE DEF k
    <3> QED BY <3>1, <3>2, <3>3
  <2>3. CASE ~FastHit(t, c) /\ cache[t][c] = 0
    BY <2>3 DEF Begin
  <2> QED BY <2>1, <2>2, <2>3
<1>6. GivenInv'
  <2>1. CASE UNCHANGED given
    BY <2>1, <1>1, <1>4 DEF IInv, TypeOK, GivenInv
  <2>2. ASSUME NEW k \in 1..Len(keys), given' = given \cup {<<c, k>>},
               ~keys[k].other, keys[k].combo = c
        PROVE  GivenInv'
    BY <2>2, <1>1, <1>4 DEF IInv, TypeOK, GivenInv
  <2> QED BY <2>1, <2>2, <1>5
<1> QED BY <1>2, <1>3, <1>6

\* The entry of a new name is the only one that changes.
LEMMA LookupTables ==
  ASSUME IInv, NEW t \in Threads, Lookup(t),
         NEW c, c = combo[t], NEW n, n = Name(c), NEW k, k = Found(c)
  PROVE  TableInv' /\ KeysInv' /\ CacheInv' /\ GivenInv'
<1>1. /\ c \in Combos /\ n \in Names /\ c \in Names /\ RegionOf[c] \in Regions
      /\ n = c \/ (n = RegionOf[c] /\ Folded(c))
      /\ c \notin Regions
  BY NameKind, CombosAssumption DEF Lookup, IInv, ControlInv, Names
<1>2. /\ Len(keys) \in Nat /\ Len(keys') \in Nat /\ Len(keys) <= Len(keys')
      /\ k \in 1..Len(keys')
      /\ \A i \in 1..Len(keys) : keys'[i] = keys[i]
      /\ TypeOK'
      /\ table'[n] = k
      /\ \A m \in Names : table'[m] = IF m = n THEN k ELSE table[m]
      /\ table[n] # 0 => k \in 1..Len(keys) /\ table[n] = k /\ keys' = keys
      /\ table[n] = 0 => /\ k = Len(keys) + 1 /\ Len(keys') = Len(keys) + 1
                         /\ keys'[k] = [combo |-> c, other |-> n # c]
  <2>1. TypeOK' /\ Len(keys) \in Nat /\ table \in [Names -> 0..Len(keys)]
    BY LookupType, LenProperties DEF IInv, TypeOK
  <2>2. CASE table[n] # 0
    <3>1. k = table[n] /\ k \in 1..Len(keys) /\ UNCHANGED <<keys, table, tslots>>
      BY <2>2, LookupOld DEF IInv
    <3> QED BY <3>1, <2>1, <2>2
  <2>3. CASE table[n] = 0
    <3>1. /\ k = Len(keys) + 1 /\ Len(keys') = Len(keys) + 1
          /\ \A i \in 1..Len(keys) : keys'[i] = keys[i]
          /\ keys'[Len(keys) + 1] = [combo |-> c, other |-> n # c]
          /\ table' = [table EXCEPT ![n] = Len(keys) + 1]
      BY <2>3, LookupNew DEF IInv
    <3> QED BY <3>1, <2>1, <2>3, <1>1
  <2> QED BY <2>2, <2>3
<1>3. /\ Cached(t, n, k) /\ Got(t, c, k) /\ UNCHANGED bytes
      /\ IF n = c /\ table[c] = 0 THEN CountKey(RegionOf[c]) ELSE UNCHANGED <<used, nlisted>>
  BY DEF Lookup
<1>4. \A i \in 1..Len(keys) : Denotes(i)' = Denotes(i)
  BY <1>2 DEF Denotes
<1>5. Denotes(k)' = n
  <2>1. CASE table[n] # 0
    BY <2>1, <1>1, <1>2, <1>4 DEF IInv, TableInv
  <2>2. CASE table[n] = 0
    <3>1. keys'[k] = [combo |-> c, other |-> n # c]
      BY <2>2, <1>2
    <3>2. keys'[k].combo = c /\ keys'[k].other = (n # c)
      BY ONLY <3>1
    <3>3. CASE n = c
      BY <3>2, <3>3 DEF Denotes
    <3>4. CASE n # c
      BY <3>2, <3>4, <1>1 DEF Denotes
    <3> QED BY <3>3, <3>4
  <2> QED BY <2>1, <2>2
<1>6. TableInv'
  <2> SUFFICES ASSUME NEW m \in Names, NEW i, i = table'[m], i # 0 PROVE Denotes(i)' = m
    BY DEF TableInv, Denotes
  <2>1. CASE m = n
    BY <2>1, <1>2, <1>5
  <2>2. CASE m # n
    <3>1. table'[m] = table[m] /\ table[m] \in 1..Len(keys)
      BY <2>2, <1>2 DEF IInv, TypeOK
    <3>2. Denotes(table[m]) = m
      BY <3>1, <1>2 DEF IInv, TableInv
    <3> QED BY <3>1, <3>2, <1>4
  <2> QED BY <2>1, <2>2
<1>7. KeysInv'
  <2> SUFFICES ASSUME NEW i \in 1..Len(keys') PROVE table'[Denotes(i)'] = i
    BY DEF KeysInv
  <2>1. CASE i = k
    BY <2>1, <1>2, <1>5
  <2>2. CASE i # k
    <3>1. i \in 1..Len(keys)
      BY <2>2, <1>2
    <3>2. Denotes(i)' = Denotes(i) /\ table[Denotes(i)] = i /\ Denotes(i) \in Names
      BY <3>1, <1>4, DenotesName DEF IInv, KeysInv
    <3>3. Denotes(i) # n
      BY <3>1, <3>2, <2>2, <1>2
    <3> QED BY <3>2, <3>3, <1>2
  <2> QED BY <2>1, <2>2
<1>8. CacheInv'
  <2> SUFFICES ASSUME NEW u \in Threads, NEW m \in Names, cache'[u][m] # 0
               PROVE  cache'[u][m] = table'[m]
    BY DEF CacheInv
  <2>1. cache[u][m] # 0 => cache[u][m] = table[m]
    BY DEF IInv, CacheInv
  <2>2. cache'[u][m] = cache[u][m] \/ (m = n /\ cache'[u][m] = k)
    BY <1>3, <1>1 DEF Cached, IInv, TypeOK
  <2>3. table[m] # 0 => table'[m] = table[m]
    BY <1>2
  <2>4. CASE m = n /\ cache'[u][m] = k
    BY <2>4, <1>2
  <2>5. CASE cache'[u][m] = cache[u][m]
    BY <2>5, <2>1, <2>3
  <2> QED BY <2>2, <2>4, <2>5
<1>9. GivenInv'
  <2>1. \A q \in Regions : used'[q] \in Nat /\ used'[q] >= used[q]
    BY <1>1, <1>3, CountType DEF IInv, TypeOK
  <2>2. \A d \in Combos : Folded(d) => Folded(d)'
    <3> SUFFICES ASSUME NEW d \in Combos, Folded(d) PROVE Folded(d)'
      OBVIOUS
    <3>1. ~Fits(d)'
      BY <2>1, <1>3, StaysFolded DEF Folded, IInv, TypeOK
    <3>2. d # n
      <4>1. d = c => ~Fits(c) /\ table[c] = 0
        BY DEF Folded
      <4>2. n = c => d # c
        <5> SUFFICES ASSUME n = c, d = c PROVE FALSE
          OBVIOUS
        <5>1. Name(c) = RegionOf[c]
          BY <4>1 DEF Name
        <5> QED BY <5>1, <1>1
      <4> QED BY <4>2, <1>1, CombosAssumption
    <3>3. d \in Names
      BY DEF Names
    <3> QED BY <3>1, <3>2, <3>3, <1>2 DEF Folded
  <2> SUFFICES ASSUME NEW g \in given'
               PROVE  (IF keys[g[2]].other
                       THEN RegionOf[keys[g[2]].combo] = RegionOf[g[1]] /\ Folded(g[1])
                       ELSE keys[g[2]].combo = g[1])'
    BY DEF GivenInv
  <2>3. g \in given \/ g = <<c, k>>
    BY <1>3 DEF Got
  <2>4. CASE g \in given
    <3>1. g[1] \in Combos /\ g[2] \in 1..Len(keys) /\ keys'[g[2]] = keys[g[2]]
      BY <2>4, <1>2 DEF IInv, TypeOK
    <3>2. IF keys[g[2]].other
          THEN RegionOf[keys[g[2]].combo] = RegionOf[g[1]] /\ Folded(g[1])
          ELSE keys[g[2]].combo = g[1]
      BY <2>4 DEF IInv, GivenInv
    <3> QED BY <3>1, <3>2, <2>2
  <2>5. CASE g = <<c, k>>
    <3>1. keys'[k].other = (n # c)
      <4>1. keys'[k].other <=> Denotes(k)' \in Regions
        BY <1>2, DenotesPrime
      <4>2. keys'[k].other \in BOOLEAN
        BY <1>2, DenotesPrime DEF Key
      <4> QED BY <4>1, <4>2, <1>1, <1>5
    <3>2. CASE n = c
      BY <3>1, <3>2, <2>5, <1>5 DEF Denotes
    <3>3. CASE n # c
      <4>1. RegionOf[keys'[k].combo] = RegionOf[c]
        BY <3>1, <3>3, <1>1, <1>5 DEF Denotes
      <4>2. Folded(c)'
        BY <3>3, <1>1, <2>2
      <4> QED BY <3>1, <3>3, <4>1, <4>2, <2>5
    <3> QED BY <3>2, <3>3
  <2> QED BY <2>3, <2>4, <2>5
<1> QED BY <1>6, <1>7, <1>8, <1>9

LEMMA SlotsTables ==
  ASSUME IInv, NEW t \in Threads,
         Slots1(t) \/ Slots2(t) \/ \E u \in Threads : Steer(t, u)
  PROVE  TableInv' /\ KeysInv' /\ CacheInv' /\ GivenInv'
<1>1. UNCHANGED <<keys, table, used, cache, given>>
  BY DEF Slots1, Slots2, Steer, tables, caches
<1>2. bytes \in Nat
  BY DEF IInv, TypeOK
<1>3. bytes' = bytes \/ bytes' = bytes + 1
  BY DEF Slots1, Slots2, Steer, arrays
<1>4. bytes' \in Nat /\ bytes' >= bytes
  BY ONLY <1>2, <1>3
<1> QED BY <1>1, <1>4, TablesSame

\* A step of no thread changes nothing.
LEMMA StutterInv == ASSUME IInv, UNCHANGED vars PROVE IInv'
<1>1. TypeOK' /\ ControlInv'
  BY DEF IInv, TypeOK, ControlInv, vars, tables, caches, arrays, control
<1>2. bytes' \in Nat /\ bytes' >= bytes
  BY DEF IInv, TypeOK, vars, arrays
<1>3. TableInv' /\ KeysInv' /\ CacheInv' /\ GivenInv'
  BY <1>2, TablesSame DEF vars, tables, caches
<1> QED BY <1>1, <1>3 DEF IInv

LEMMA StepInv == ASSUME IInv, [Next]_vars PROVE IInv'
<1>1. CASE UNCHANGED vars
  BY <1>1, StutterInv
<1>2. ASSUME NEW t \in Threads, NEW c \in Combos, Begin(t, c) PROVE IInv'
  BY <1>2, BeginType, BeginTables DEF IInv
<1>3. ASSUME NEW t \in Threads, Lookup(t) PROVE IInv'
  BY <1>3, LookupType, LookupTables DEF IInv
<1>4. ASSUME NEW t \in Threads, Slots1(t) \/ Slots2(t) \/ \E u \in Threads : Steer(t, u)
      PROVE  IInv'
  BY <1>4, SlotsType, SlotsTables DEF IInv
<1> QED BY <1>1, <1>2, <1>3, <1>4 DEF Next

\* What the table, the caches and the answers mean holds in every state (get_key).
THEOREM Invariance == Spec => []IInv
<1>1. Init => IInv
  BY InitInv
<1>2. IInv /\ [Next]_vars => IInv'
  BY StepInv
<1> QED BY <1>1, <1>2, PTL DEF Spec

-----------------------------------------------------------------------------
(***************************************************************************)
(* One key for a combination, and the abstract map                         *)
(***************************************************************************)
LEMMA OneKeyInv == IInv => OneKey
<1> SUFFICES ASSUME IInv, NEW g \in given, NEW h \in given, g[1] = h[1] PROVE g[2] = h[2]
  BY DEF OneKey
<1> DEFINE c == g[1]
<1>1. /\ c \in Combos /\ c \in Names /\ RegionOf[c] \in Names
      /\ g[2] \in 1..Len(keys) /\ h[2] \in 1..Len(keys)
  BY NameKind DEF IInv, TypeOK
<1>2. /\ table[Denotes(g[2])] = g[2] /\ table[Denotes(h[2])] = h[2]
      /\ keys[g[2]].other \in BOOLEAN /\ keys[h[2]].other \in BOOLEAN
  BY <1>1, DenotesName DEF IInv, KeysInv, Key
<1>3. /\ IF keys[g[2]].other THEN Denotes(g[2]) = RegionOf[c] /\ table[c] = 0
                             ELSE Denotes(g[2]) = c
      /\ IF keys[h[2]].other THEN Denotes(h[2]) = RegionOf[c] /\ table[c] = 0
                             ELSE Denotes(h[2]) = c
  BY <1>1 DEF IInv, GivenInv, Folded, Denotes
<1> HIDE DEF c
<1> QED BY <1>1, <1>2, <1>3

AnswersRight ==
  /\ \A g \in given : Answer(g[1]) = Denotes(g[2])
  /\ \A c \in Combos : (\A g \in given : g[1] # c) => Answer(c) = NoCombo

LEMMA AnswersInv == IInv => AnswersRight
<1> SUFFICES ASSUME IInv PROVE AnswersRight
  OBVIOUS
<1>1. ASSUME NEW g \in given PROVE Answer(g[1]) = Denotes(g[2])
  <2>1. Answers(g[1]) = {g[2]}
    BY OneKeyInv DEF OneKey, Answers
  <2> QED BY <2>1 DEF Answer
<1>2. ASSUME NEW c \in Combos, \A g \in given : g[1] # c PROVE Answer(c) = NoCombo
  BY <1>2 DEF Answer, Answers
<1> QED BY <1>1, <1>2 DEF AnswersRight

LEMMA AfterStep == IInv' => OneKey' /\ AnswersRight'
<1>1. IInv => OneKey /\ AnswersRight
  BY OneKeyInv, AnswersInv
<1> QED BY <1>1, PTL

\* What the map of KeyMap does when a begin gets a key.
LEMMA GotIsAsk ==
  ASSUME IInv, IInv', NEW t \in Threads, NEW c \in Combos, NEW k \in 1..Len(keys'),
         want' = [want EXCEPT ![t] = k], given' = given \cup {<<c, k>>},
         \A i \in 1..Len(keys) : keys'[i] = keys[i],
         \/ Len(keys') = Len(keys)
         \/ Len(keys') = Len(keys) + 1 /\ k = Len(keys) + 1
  PROVE  KM!Ask(t, c)
<1> DEFINE Seen == [i \in 1..Len(keys) |-> Denotes(i)]
           n == IF keys'[k].other THEN RegionOf[keys'[k].combo] ELSE keys'[k].combo
<1>1. Len(keys) \in Nat /\ Len(keys') \in Nat
  BY LenProperties DEF IInv, TypeOK
<1>2. n = Denotes(k)'
  BY DEF Denotes
<1>3. \A i \in 1..Len(keys) : Denotes(i)' = Denotes(i)
  BY <1>1 DEF Denotes
<1>4. n \in {c, RegionOf[c]}
  <2>1. <<c, k>> \in given'
    OBVIOUS
  <2>2. IF keys'[k].other THEN RegionOf[keys'[k].combo] = RegionOf[c]
                          ELSE keys'[k].combo = c
    BY <2>1 DEF IInv, GivenInv
  <2> QED BY <2>2
<1>5. Answer(c)' = n
  <2>1. PICK g \in given' : g = <<c, k>>
    OBVIOUS
  <2>2. Answer(g[1])' = Denotes(g[2])'
    BY AfterStep DEF AnswersRight
  <2>3. g[1] = c /\ g[2] = k
    BY <2>1
  <2> HIDE DEF n
  <2> QED BY <2>2, <2>3, <1>2
<1>6. \A d \in Combos : d # c => Answer(d)' = Answer(d)
  <2> SUFFICES ASSUME NEW d \in Combos, d # c PROVE Answer(d)' = Answer(d)
    OBVIOUS
  <2>1. CASE \E g \in given : g[1] = d
    <3>1. PICK g \in given : g[1] = d
      BY <2>1
    <3>2. Answer(d) = Denotes(g[2]) /\ g[2] \in 1..Len(keys)
      BY <3>1, AnswersInv DEF AnswersRight, IInv, TypeOK
    <3>3. Answer(d)' = Denotes(g[2])'
      BY <3>1, AfterStep DEF AnswersRight
    <3> QED BY <3>2, <3>3, <1>3
  <2>2. CASE \A g \in given : g[1] # d
    <3>1. Answer(d) = NoCombo
      BY <2>2, AnswersInv DEF AnswersRight
    <3>2. \A g \in given' : g[1] # d
      BY <2>2
    <3>3. Answer(d)' = NoCombo
      BY <3>2, AfterStep DEF AnswersRight
    <3> QED BY <3>1, <3>3
  <2> QED BY <2>1, <2>2
<1>7. n \in KM!MayBeNamed(c)
  <2>1. CASE \E g \in given : g[1] = c
    <3>1. PICK g \in given : g[1] = c
      BY <2>1
    <3>2. g[2] = k
      <4>1. PICK h \in given' : h = <<c, k>>
        OBVIOUS
      <4>2. h[1] = c /\ h[2] = k
        BY <4>1
      <4>3. g \in given' /\ OneKey'
        BY AfterStep
      <4> QED BY <4>2, <4>3, <3>1 DEF OneKey
    <3>3. g[2] \in 1..Len(keys) /\ Answer(c) = Denotes(g[2])
      BY <3>1, AnswersInv DEF AnswersRight, IInv, TypeOK
    <3>4. Answer(c) = n
      BY <3>2, <3>3, <1>2, <1>3
    <3> HIDE DEF n
    <3> QED BY <3>4, <1>4 DEF KM!MayBeNamed
  <2>2. CASE \A g \in given : g[1] # c
    <3>1. Answer(c) = NoCombo
      BY <2>2, AnswersInv DEF AnswersRight
    <3> HIDE DEF n
    <3> QED BY <3>1, <1>4 DEF KM!MayBeNamed
  <2> QED BY <2>1, <2>2
<1>8. [d \in Combos |-> Answer(d)]' = [[d \in Combos |-> Answer(d)] EXCEPT ![c] = n]
  <2> HIDE DEF n
  <2> QED BY <1>5, <1>6
<1>9. \/ \E i \in 1..Len(Seen) : /\ Seen[i] = n /\ Seen' = Seen
                                 /\ want' = [want EXCEPT ![t] = i]
      \/ /\ \A i \in 1..Len(Seen) : Seen[i] # n
         /\ Seen' = Append(Seen, n)
         /\ want' = [want EXCEPT ![t] = Len(Seen) + 1]
  <2>1. Len(Seen) = Len(keys) /\ \A i \in 1..Len(keys) : Seen[i] = Denotes(i)
    BY <1>1
  <2>2. CASE Len(keys') = Len(keys)
    <3>1. Seen' = Seen
      BY <2>2, <1>3
    <3>2. Seen[k] = n /\ k \in 1..Len(Seen)
      BY <2>1, <2>2, <1>2, <1>3
    <3> HIDE DEF Seen, n
    <3> QED BY <3>1, <3>2
  <2>3. CASE Len(keys') = Len(keys) + 1 /\ k = Len(keys) + 1
    <3>1. \A i \in 1..Len(Seen) : Seen[i] # n
      <4> SUFFICES ASSUME NEW i \in 1..Len(keys), Denotes(i) = n PROVE FALSE
        BY <2>1
      <4>1. Denotes(i)' = Denotes(k)'
        BY <1>2, <1>3
      <4>2. table'[Denotes(i)'] = i /\ table'[Denotes(k)'] = k
        BY <1>1, <2>3 DEF IInv, KeysInv
      <4> QED BY <4>1, <4>2, <2>3, <1>1
    <3>2. Seen' = Append(Seen, n)
      <4>1. Seen' = [i \in 1..Len(keys) + 1 |-> Denotes(i)']
        BY <2>3
      <4>2. \A i \in 1..Len(keys) + 1 : Denotes(i)' = IF i = Len(keys) + 1 THEN n ELSE Denotes(i)
        BY <2>3, <1>1, <1>2, <1>3
      <4> HIDE DEF n
      <4> QED BY <4>1, <4>2, <1>1
    <3> HIDE DEF Seen, n
    <3> QED BY <3>1, <3>2, <2>1, <2>3
  <2> QED BY <2>2, <2>3
<1> QED
  <2> HIDE DEF n
  <2> QED BY <1>7, <1>8, <1>9 DEF KM!Ask

LEMMA BeginIsAsk ==
  ASSUME IInv, IInv', NEW t \in Threads, NEW c \in Combos, Begin(t, c)
  PROVE  KM!Ask(t, c) \/ UNCHANGED <<keys, want, given>>
<1>1. keys' = keys /\ Len(keys) \in Nat
  BY LenProperties DEF Begin, tables, IInv, TypeOK
<1>2. ASSUME NEW k, Got(t, c, k) PROVE KM!Ask(t, c)
  <2>1. PICK g \in given' : g = <<c, k>>
    BY <1>2 DEF Got
  <2>2. k \in 1..Len(keys')
    BY <2>1 DEF IInv, TypeOK
  <2> QED BY <1>1, <1>2, <2>2, GotIsAsk DEF Got
<1>3. CASE FastHit(t, c)
  BY <1>3, <1>2 DEF Begin
<1>4. CASE ~FastHit(t, c) /\ cache[t][c] # 0
  BY <1>4, <1>2 DEF Begin
<1>5. CASE ~FastHit(t, c) /\ cache[t][c] = 0
  BY <1>1, <1>5 DEF Begin
<1> QED BY <1>3, <1>4, <1>5

LEMMA LookupIsAsk ==
  ASSUME IInv, IInv', NEW t \in Threads, Lookup(t)
  PROVE  KM!Ask(t, combo[t])
<1>1. PICK c \in Combos : c = combo[t]
  BY DEF Lookup, IInv, ControlInv
<1>2. PICK k : k = Found(c)
  OBVIOUS
<1>3. Got(t, c, k)
  BY <1>1, <1>2 DEF Lookup
<1>4. Len(keys) \in Nat
  BY LenProperties DEF IInv, TypeOK
<1>5. CASE table[Name(c)] # 0
  <2>1. k \in 1..Len(keys) /\ keys' = keys
    BY <1>1, <1>2, <1>5, LookupOld DEF IInv
  <2> QED BY <1>1, <1>3, <2>1, GotIsAsk DEF Got
<1>6. CASE table[Name(c)] = 0
  <2>1. /\ k = Len(keys) + 1 /\ Len(keys') = Len(keys) + 1
        /\ \A i \in 1..Len(keys) : keys'[i] = keys[i]
    BY <1>1, <1>2, <1>6, LookupNew DEF IInv
  <2>2. k \in 1..Len(keys')
    BY <2>1, <1>4
  <2> QED BY <1>1, <1>3, <2>1, <2>2, GotIsAsk DEF Got
<1> QED BY <1>5, <1>6

LEMMA SameIsStutter ==
  ASSUME UNCHANGED <<keys, want, given>>
  PROVE  UNCHANGED <<[k \in 1..Len(keys) |-> Denotes(k)], [c \in Combos |-> Answer(c)], want>>
<1>1. [k \in 1..Len(keys) |-> Denotes(k)]' = [k \in 1..Len(keys) |-> Denotes(k)]
  BY DEF Denotes
<1>2. [c \in Combos |-> Answer(c)]' = [c \in Combos |-> Answer(c)]
  BY DEF Answer, Answers, Denotes
<1> QED BY <1>1, <1>2

\* KeyTable implements KeyMap: a begin that finds its key in a cache or in the table,
\* or makes it, is an Ask, and everything else a stutter (get_key, remember_key).
THEOREM Refinement == Spec => ImplementsKeyMap
<1>1. Init => KM!Init
  <2> SUFFICES ASSUME Init PROVE KM!Init
    OBVIOUS
  <2>1. [k \in 1..Len(keys) |-> Denotes(k)] = <<>>
    BY DEF Init
  <2>2. \A c \in Combos : Answer(c) = NoCombo
    BY DEF Init, Answer, Answers
  <2>3. [c \in Combos |-> Answer(c)] = [c \in Combos |-> NoCombo]
    BY <2>2
  <2> QED BY <2>1, <2>3 DEF Init, KM!Init
<1>2. IInv /\ IInv' /\ [Next]_vars
        => [KM!Next]_<<[k \in 1..Len(keys) |-> Denotes(k)], [c \in Combos |-> Answer(c)], want>>
  <2> SUFFICES ASSUME IInv, IInv', [Next]_vars
               PROVE  KM!Next \/ UNCHANGED <<keys, want, given>>
    BY SameIsStutter
  <2>1. CASE UNCHANGED vars
    BY <2>1 DEF vars, tables, control
  <2>2. ASSUME NEW t \in Threads, NEW c \in Combos, Begin(t, c)
        PROVE  KM!Next \/ UNCHANGED <<keys, want, given>>
    BY <2>2, BeginIsAsk DEF KM!Next
  <2>3. ASSUME NEW t \in Threads, Lookup(t) PROVE KM!Next
    <3>1. combo[t] \in Combos
      BY <2>3 DEF Lookup, IInv, ControlInv
    <3> QED BY <3>1, <2>3, LookupIsAsk DEF KM!Next
  <2>4. ASSUME NEW t \in Threads, Slots1(t) \/ Slots2(t) \/ \E u \in Threads : Steer(t, u)
        PROVE  UNCHANGED <<keys, want, given>>
    BY <2>4 DEF Slots1, Slots2, Steer, tables
  <2> QED BY <2>1, <2>2, <2>3, <2>4 DEF Next
<1>3. Spec => []IInv
  BY Invariance
<1> QED BY <1>1, <1>2, <1>3, PTL DEF Spec, ImplementsKeyMap, KM!Spec

-----------------------------------------------------------------------------
(***************************************************************************)
(* The arrays                                                              *)
(***************************************************************************)
LEMMA CountedStep == ASSUME IInv, [Next]_vars, CountedOrSaid PROVE CountedOrSaid'
<1>1. ASSUME UNCHANGED <<into, denied, tslots>> PROVE CountedOrSaid'
  BY <1>1 DEF CountedOrSaid, Has
<1>2. CASE UNCHANGED vars
  BY <1>1, <1>2 DEF vars, arrays
<1>3. ASSUME NEW t \in Threads, NEW c \in Combos, Begin(t, c) PROVE CountedOrSaid'
  BY <1>1, <1>3 DEF Begin, arrays
<1>4. ASSUME NEW t \in Threads, NEW u \in Threads, Steer(t, u) PROVE CountedOrSaid'
  BY <1>1, <1>4 DEF Steer, arrays
<1>5. ASSUME NEW t \in Threads, Lookup(t) PROVE CountedOrSaid'
  <2>1. UNCHANGED <<into, denied>>
    BY <1>5 DEF Lookup
  <2>2. \A k \in 1..Len(keys) : tslots'[k] = tslots[k]
    BY <1>5, LookupOld, LookupNew DEF IInv
  <2>3. ASSUME NEW u \in Threads, into[u] # NoAnswer, into[u] > 0 PROVE into[u] \in 1..Len(keys)
    BY <2>3, LenProperties DEF IInv, TypeOK
  <2> QED BY <2>1, <2>2, <2>3 DEF CountedOrSaid, Has
<1>6. ASSUME NEW t \in Threads, NEW k, Serve(t, k),
             \A i \in 1..Len(keys) : tslots[i] \subseteq tslots'[i],
             denied => denied', (k = 0 /\ denied') \/ (k > 0 /\ Index[whose[t]] \in tslots'[k])
      PROVE  CountedOrSaid'
  <2>1. into' = [into EXCEPT ![whose[t]] = k]
    BY <1>6 DEF Serve
  <2>2. \A u \in Threads : into[u] \in {NoAnswer} \cup 0..Len(keys) /\ Len(keys) \in Nat
    BY LenProperties DEF IInv, TypeOK
  <2>3. ASSUME NEW u \in Threads, u # whose[t] PROVE
          \/ into'[u] = NoAnswer
          \/ into'[u] = 0 /\ denied'
          \/ into'[u] > 0 /\ Index[u] \in tslots'[into'[u]]
    <3>1. into'[u] = into[u]
      BY <2>1, <2>3
    <3> QED BY <1>6, <2>2, <3>1 DEF CountedOrSaid, Has
  <2>4. whose[t] \in Threads /\ into'[whose[t]] = k
    BY <2>1 DEF IInv, TypeOK
  <2> QED BY <1>6, <2>3, <2>4 DEF CountedOrSaid, Has
<1>7. ASSUME NEW t \in Threads, pc[t] \in {"slots", "alloc"} PROVE want[t] \in 1..Len(keys)
  BY <1>7, LenProperties DEF IInv, TypeOK, ControlInv
<1>8. ASSUME NEW t \in Threads, Slots1(t) PROVE CountedOrSaid'
  <2>1. CASE Has(want[t], whose[t])
    BY <1>6, <1>7, <1>8, <2>1 DEF Slots1, Has
  <2>2. CASE ~Has(want[t], whose[t])
    BY <1>1, <1>8, <2>2 DEF Slots1
  <2> QED BY <2>1, <2>2
<1>9. ASSUME NEW t \in Threads, Slots2(t) PROVE CountedOrSaid'
  <2>1. want[t] \in 1..Len(keys) /\ Len(keys) \in Nat /\ tslots \in [1..Len(keys) -> SUBSET Slots]
    BY <1>7, <1>9, LenProperties DEF Slots2, IInv, TypeOK
  <2>2. CASE ~MustAllocate(t)
    BY <1>6, <1>9, <2>1, <2>2 DEF Slots2, MustAllocate, Has
  <2>3. CASE /\ tslots' = [tslots EXCEPT ![want[t]] = @ \cup {Index[whose[t]]}]
             /\ Serve(t, want[t]) /\ UNCHANGED denied
    BY <1>6, <2>1, <2>3
  <2>4. CASE denied' = TRUE /\ Serve(t, 0) /\ UNCHANGED tslots
    BY <1>6, <2>4
  <2> QED BY <1>9, <2>2, <2>3, <2>4 DEF Slots2, NoArray
<1> QED BY <1>2, <1>3, <1>4, <1>5, <1>8, <1>9 DEF Next

Arrays == {p \in (1..Len(keys)) \X Slots : p[2] \in tslots[p[1]]}
BytesInv == IsFiniteSet(Arrays) /\ BytesExact

\* Where no key gets an array, there are as many as before.
LEMMA ArraysSame ==
  ASSUME BytesInv, TypeOK, TypeOK', Len(keys') >= Len(keys), bytes' = bytes,
         \A k \in 1..Len(keys') : tslots'[k] = IF k \in 1..Len(keys) THEN tslots[k] ELSE {}
  PROVE  BytesInv'
<1>1. Len(keys) \in Nat /\ Len(keys') \in Nat
  BY LenProperties DEF TypeOK
<1>2. ASSUME NEW p \in (1..Len(keys')) \X Slots PROVE p \in Arrays' <=> p \in Arrays
  <2>1. p[1] \in 1..Len(keys') /\ p = <<p[1], p[2]>> /\ p[2] \in Slots
    OBVIOUS
  <2> QED BY <2>1, <1>1 DEF Arrays
<1>3. Arrays \subseteq (1..Len(keys')) \X Slots /\ Arrays' \subseteq (1..Len(keys')) \X Slots
  BY <1>1 DEF Arrays
<1>4. Arrays' = Arrays
  BY <1>2, <1>3
<1>5. bytes = Cardinality(Arrays) /\ bytes <= Budget
  BY DEF BytesInv, BytesExact, Arrays
<1>6. bytes' = Cardinality(Arrays') /\ bytes' <= Budget
  BY <1>4, <1>5
<1> QED BY <1>4, <1>6 DEF BytesInv, BytesExact, Arrays

LEMMA BytesStep == ASSUME IInv, IInv', [Next]_vars, BytesInv PROVE BytesInv'
<1>1. /\ Len(keys) \in Nat /\ tslots \in [1..Len(keys) -> SUBSET Slots]
      /\ TypeOK /\ TypeOK' /\ bytes \in Nat
  BY LenProperties DEF IInv, TypeOK
<1>2. ASSUME UNCHANGED <<bytes, tslots, keys>> PROVE BytesInv'
  BY <1>2 DEF BytesInv, BytesExact, Arrays
<1>3. CASE UNCHANGED vars
  BY <1>2, <1>3 DEF vars, arrays, tables
<1>4. ASSUME NEW t \in Threads, NEW c \in Combos, Begin(t, c) PROVE BytesInv'
  BY <1>2, <1>4 DEF Begin, arrays, tables
<1>5. ASSUME NEW t \in Threads, NEW u \in Threads, Steer(t, u) PROVE BytesInv'
  BY <1>2, <1>5 DEF Steer, arrays, tables
<1>6. ASSUME NEW t \in Threads, Slots1(t) PROVE BytesInv'
  BY <1>2, <1>6 DEF Slots1, tables
<1>7. ASSUME NEW t \in Threads, Lookup(t) PROVE BytesInv'
  <2>1. bytes' = bytes
    BY <1>7 DEF Lookup
  <2>2. CASE table[Name(combo[t])] # 0
    BY <1>2, <1>7, <2>1, <2>2, LookupOld DEF IInv
  <2>3. CASE table[Name(combo[t])] = 0
    <3>1. /\ Len(keys') = Len(keys) + 1 /\ tslots'[Len(keys) + 1] = {}
          /\ \A k \in 1..Len(keys) : tslots'[k] = tslots[k]
      BY <1>7, <2>3, LookupNew DEF IInv
    <3>2. \A k \in 1..Len(keys') : tslots'[k] = IF k \in 1..Len(keys) THEN tslots[k] ELSE {}
      <4> SUFFICES ASSUME NEW k \in 1..Len(keys')
                   PROVE  tslots'[k] = IF k \in 1..Len(keys) THEN tslots[k] ELSE {}
        OBVIOUS
      <4>1. k \in 1..Len(keys) \/ (k = Len(keys) + 1 /\ k \notin 1..Len(keys))
        BY ONLY <3>1, <1>1, k \in 1..Len(keys')
      <4> QED BY <4>1, <3>1
    <3>3. Len(keys') >= Len(keys)
      BY ONLY <3>1, <1>1
    <3> QED BY <1>1, <2>1, <3>2, <3>3, ArraysSame
  <2> QED BY <2>2, <2>3
<1>8. ASSUME NEW t \in Threads, Slots2(t) PROVE BytesInv'
  <2>1. keys' = keys
    BY <1>8 DEF Slots2, tables
  <2>2. CASE UNCHANGED <<tslots, bytes>>
    BY <1>2, <2>1, <2>2
  <2>3. CASE /\ MustAllocate(t) /\ ~Full /\ bytes' = bytes + 1
             /\ tslots' = [tslots EXCEPT ![want[t]] = @ \cup {Index[whose[t]]}]
    <3>1. PICK k, x : k = want[t] /\ x = Index[whose[t]]
      OBVIOUS
    <3>2. k \in 1..Len(keys)
      BY <1>1, <1>8, <3>1 DEF Slots2, IInv, TypeOK, ControlInv
    <3>3. x \in Slots
      BY <3>1 DEF IInv, TypeOK, Slots
    <3>4. x \notin tslots[k]
      BY <2>3, <3>1 DEF MustAllocate, Has
    <3>5. tslots' = [tslots EXCEPT ![k] = @ \cup {x}]
      BY <2>3, <3>1
    <3>6. ASSUME NEW p \in (1..Len(keys)) \X Slots
          PROVE  p \in Arrays' <=> p \in Arrays \/ p = <<k, x>>
      <4>1. p[1] \in 1..Len(keys) /\ p[2] \in Slots /\ p = <<p[1], p[2]>>
        OBVIOUS
      <4>2. tslots'[p[1]] = IF p[1] = k THEN tslots[k] \cup {x} ELSE tslots[p[1]]
        BY <4>1, <3>5, <1>1
      <4> QED BY <4>1, <4>2, <2>1 DEF Arrays
    <3>7. Arrays' = Arrays \cup {<<k, x>>}
      <4>1. /\ Arrays \subseteq (1..Len(keys)) \X Slots /\ <<k, x>> \in (1..Len(keys)) \X Slots
            /\ Arrays' \subseteq (1..Len(keys)) \X Slots
        BY <3>2, <3>3, <2>1 DEF Arrays
      <4> QED BY <4>1, <3>6
    <3>8. <<k, x>> \notin Arrays
      BY <3>4 DEF Arrays
    <3>9. IsFiniteSet(Arrays) /\ bytes = Cardinality(Arrays)
      BY DEF BytesInv, BytesExact, Arrays
    <3>10. IsFiniteSet(Arrays') /\ Cardinality(Arrays') = bytes + 1
      BY <3>7, <3>8, <3>9, FS_AddElement
    <3>11. bytes' <= Budget
      BY <2>3, <1>1, BudgetAssumption DEF Full
    <3> QED BY <2>3, <3>10, <3>11 DEF BytesInv, BytesExact, Arrays
  <2> QED BY <1>8, <2>2, <2>3 DEF Slots2
<1> QED BY <1>3, <1>4, <1>5, <1>6, <1>7, <1>8 DEF Next

LEMMA ArraysInit == Init => BytesInv /\ CountedOrSaid
<1> SUFFICES ASSUME Init PROVE BytesInv /\ CountedOrSaid
  OBVIOUS
<1>1. Arrays = {} /\ bytes = 0
  BY DEF Init, Arrays
<1>2. BytesInv
  BY <1>1, FS_EmptySet, BudgetAssumption DEF BytesInv, BytesExact, Arrays
<1> QED BY <1>2 DEF Init, CountedOrSaid

-----------------------------------------------------------------------------
(***************************************************************************)
(* The budget of keys per region                                           *)
(***************************************************************************)
\* A region that region_keys lists has as many keys as its entry says; one that it
\* does not list came when it was full, or is too long for an entry of its own.
BudgetInv ==
  \A r \in Regions :
    /\ IsFiniteSet(OwnKeys(r)) /\ used[r] <= PerRegion
    /\ Entered(r) => Cardinality(OwnKeys(r)) = used[r]
    /\ ~Entered(r) /\ r \notin Long /\ OwnKeys(r) # {} => nlisted >= Listed
    /\ r \in Long => used[r] = 0

LEMMA BudgetSame ==
  ASSUME BudgetInv, UNCHANGED <<keys, used, nlisted>> PROVE BudgetInv'
BY DEF BudgetInv, OwnKeys, Own, Entered

\* A key made for a combination adds to the keys of its region, a bucket to none.
LEMMA OwnAdds ==
  ASSUME TypeOK, NEW c, NEW other \in BOOLEAN, Len(keys') = Len(keys) + 1,
         \A k \in 1..Len(keys) : keys'[k] = keys[k],
         keys'[Len(keys) + 1] = [combo |-> c, other |-> other], NEW r \in Regions
  PROVE  OwnKeys(r)' = IF ~other /\ RegionOf[c] = r
                       THEN OwnKeys(r) \cup {Len(keys) + 1} ELSE OwnKeys(r)
<1>1. Len(keys) \in Nat
  BY LenProperties DEF TypeOK
<1>2. keys'[Len(keys) + 1].combo = c /\ keys'[Len(keys) + 1].other = other
  OBVIOUS
<1>3. ASSUME NEW k PROVE k \in OwnKeys(r)' <=>
        k \in OwnKeys(r) \/ (k = Len(keys) + 1 /\ ~other /\ RegionOf[c] = r)
  BY <1>1, <1>2 DEF OwnKeys, Own
<1> QED BY <1>3

LEMMA LookupBudget ==
  ASSUME IInv, NEW t \in Threads, Lookup(t), BudgetInv,
         NEW c, c = combo[t], table[Name(c)] = 0
  PROVE  BudgetInv'
<1>1. c \in Combos /\ RegionOf[c] \in Regions /\ Len(keys) \in Nat /\ nlisted \in Nat
  BY NameKind, LenProperties, BudgetAssumption DEF Lookup, IInv, ControlInv, TypeOK
<1>2. \A r \in Regions : used[r] \in Nat
  BY DEF IInv, TypeOK
<1>3. \A r \in Regions : OwnKeys(r)' = IF Name(c) = c /\ RegionOf[c] = r
                                       THEN OwnKeys(r) \cup {Len(keys) + 1} ELSE OwnKeys(r)
  <2>1. PICK other \in BOOLEAN : other = (Name(c) # c)
    OBVIOUS
  <2>2. /\ Len(keys') = Len(keys) + 1
        /\ \A k \in 1..Len(keys) : keys'[k] = keys[k]
        /\ keys'[Len(keys) + 1] = [combo |-> c, other |-> other]
    BY <2>1, LookupNew DEF IInv
  <2>3. ASSUME NEW r \in Regions
        PROVE  OwnKeys(r)' = IF ~other /\ RegionOf[c] = r
                             THEN OwnKeys(r) \cup {Len(keys) + 1} ELSE OwnKeys(r)
    BY <2>2, OwnAdds DEF IInv
  <2> QED BY <2>1, <2>3
<1>4. \A r \in Regions : Len(keys) + 1 \notin OwnKeys(r)
  BY <1>1 DEF OwnKeys, Own
<1>5. CASE Name(c) # c
  <2>1. UNCHANGED <<used, nlisted>>
    BY <1>5 DEF Lookup
  <2>2. \A r \in Regions : OwnKeys(r)' = OwnKeys(r)
    BY <1>3, <1>5
  <2> QED BY <2>1, <2>2 DEF BudgetInv, Entered
<1>6. CASE Name(c) = c
  <2>1. PICK q \in Regions : q = RegionOf[c]
    BY <1>1
  <2>2. CountKey(q) /\ BelowBudget(q)
    <3>1. table[c] = 0 /\ c # RegionOf[c]
      BY <1>1, <1>6, NameKind
    <3>2. Fits(c)
      BY <1>6, <3>1 DEF Name
    <3> QED BY <1>6, <2>1, <3>1, <3>2 DEF Lookup, Fits
  <2>3. nlisted' >= nlisted
    BY <2>2, <1>1 DEF CountKey
  <2>4. ASSUME NEW r \in Regions, r # q
        PROVE  OwnKeys(r)' = OwnKeys(r) /\ used'[r] = used[r]
    BY <1>3, <2>1, <2>2, <2>4 DEF CountKey, IInv, TypeOK
  <2>5. /\ IsFiniteSet(OwnKeys(q)') /\ OwnKeys(q)' # {}
        /\ Cardinality(OwnKeys(q)') = Cardinality(OwnKeys(q)) + 1
    <3>1. OwnKeys(q)' = OwnKeys(q) \cup {Len(keys) + 1}
      BY <1>3, <1>6, <2>1
    <3>2. IsFiniteSet(OwnKeys(q)) /\ Len(keys) + 1 \notin OwnKeys(q)
      BY <1>4 DEF BudgetInv
    <3> QED BY <3>1, <3>2, FS_AddElement
  <2>6. /\ used'[q] <= PerRegion
        /\ used'[q] > 0 => Cardinality(OwnKeys(q)') = used'[q]
        /\ ~(used'[q] > 0) /\ q \notin Long => nlisted' >= Listed
        /\ q \in Long => used'[q] = 0
    <3>1. CASE q \in Long
      BY <2>2, <3>1, BudgetAssumption DEF CountKey, BudgetInv
    <3>2. CASE q \notin Long /\ Entered(q)
      <4>1. used'[q] = used[q] + 1
        BY <2>2, <3>2 DEF CountKey, IInv, TypeOK
      <4>2. used[q] > 0 /\ used[q] < PerRegion /\ Cardinality(OwnKeys(q)) = used[q]
        BY <2>2, <3>2 DEF BelowBudget, Entered, BudgetInv
      <4> QED BY <3>2, <4>1, <4>2, <1>2, <2>5, BudgetAssumption
    <3>3. CASE q \notin Long /\ MayEnter(q)
      <4>1. used[q] = 0 /\ OwnKeys(q) = {}
        BY <3>3, <1>1, <1>2, BudgetAssumption DEF MayEnter, Entered, BudgetInv
      <4>2. used'[q] = 1
        BY <2>2, <3>3, <4>1 DEF CountKey, IInv, TypeOK
      <4>3. Cardinality(OwnKeys(q)') = 1
        BY <2>5, <4>1, FS_EmptySet
      <4> QED BY <3>3, <4>2, <4>3, BudgetAssumption
    <3>4. CASE q \notin Long /\ ~Entered(q) /\ ~MayEnter(q)
      <4>1. used'[q] = used[q] /\ used[q] = 0
        BY <2>2, <3>4, <1>2 DEF CountKey, Entered
      <4>2. nlisted >= Listed
        BY <3>4, <1>1, BudgetAssumption DEF MayEnter
      <4>3. nlisted' >= Listed
        BY <2>2, <3>4, <4>2 DEF CountKey
      <4> QED BY <3>4, <4>1, <4>3, BudgetAssumption
    <3> QED BY <3>1, <3>2, <3>3, <3>4
  <2>7. nlisted' \in Nat
    BY <2>2, <1>1 DEF CountKey
  <2>8. ASSUME NEW r \in Regions, nlisted >= Listed PROVE nlisted' >= Listed
    BY <2>3, <2>7, <2>8, <1>1, BudgetAssumption
  <2>9. ASSUME NEW r \in Regions
        PROVE  /\ IsFiniteSet(OwnKeys(r)') /\ used'[r] <= PerRegion
               /\ used'[r] > 0 => Cardinality(OwnKeys(r)') = used'[r]
               /\ ~(used'[r] > 0) /\ r \notin Long /\ OwnKeys(r)' # {} => nlisted' >= Listed
               /\ r \in Long => used'[r] = 0
    <3>1. CASE r = q
      BY <3>1, <2>5, <2>6
    <3>2. CASE r # q
      BY <3>2, <2>4, <2>8 DEF BudgetInv, Entered
    <3> QED BY <3>1, <3>2
  <2> QED BY <2>9 DEF BudgetInv, Entered
<1> QED BY <1>5, <1>6

LEMMA BudgetStep == ASSUME IInv, [Next]_vars, BudgetInv PROVE BudgetInv'
<1>1. CASE UNCHANGED vars
  BY <1>1, BudgetSame DEF vars, tables
<1>2. ASSUME NEW t \in Threads, NEW c \in Combos, Begin(t, c) PROVE BudgetInv'
  BY <1>2, BudgetSame DEF Begin, tables
<1>3. ASSUME NEW t \in Threads, Slots1(t) \/ Slots2(t) \/ \E u \in Threads : Steer(t, u)
      PROVE  BudgetInv'
  BY <1>3, BudgetSame DEF Slots1, Slots2, Steer, tables
<1>4. ASSUME NEW t \in Threads, Lookup(t) PROVE BudgetInv'
  <2>1. CASE table[Name(combo[t])] = 0
    BY <1>4, <2>1, LookupBudget
  <2>2. CASE table[Name(combo[t])] # 0
    <3>1. keys' = keys
      BY <1>4, <2>2, LookupOld DEF IInv
    <3>2. UNCHANGED <<used, nlisted>>
      BY <1>4, <2>2 DEF Lookup
    <3> QED BY <3>1, <3>2, BudgetSame
  <2> QED BY <2>1, <2>2
<1> QED BY <1>1, <1>2, <1>3, <1>4 DEF Next

LEMMA BudgetInit == Init => BudgetInv
<1> SUFFICES ASSUME Init PROVE BudgetInv
  OBVIOUS
<1>1. \A r \in Regions : OwnKeys(r) = {} /\ used[r] = 0
  BY DEF Init, OwnKeys, Own
<1> QED BY <1>1, FS_EmptySet, BudgetAssumption DEF BudgetInv, Entered

-----------------------------------------------------------------------------
(***************************************************************************)
(* The theorems                                                            *)
(***************************************************************************)
\* Every variable keeps its type, and no entry of a table or a cache, no answer and
\* no request names a key that was not made (get_key, slots_for).
THEOREM TypeCorrect == Spec => []TypeOK
<1>1. IInv => TypeOK
  BY DEF IInv
<1> QED BY <1>1, Invariance, PTL

\* All begins that name a combination get the same key, whatever the threads, the
\* hashes and the budgets are (get_key).
THEOREM OneKeyAlways == Spec => []OneKey
<1>1. IInv => OneKey
  BY OneKeyInv
<1> QED BY <1>1, Invariance, PTL

\* No listed region gets more keys of its own than KEYS_PER_REGION (region_key_budget).
THEOREM BudgetAlways == Spec => []BudgetHonoured
<1>1. Init => BudgetInv
  BY BudgetInit
<1>2. IInv /\ BudgetInv /\ [Next]_vars => BudgetInv'
  BY BudgetStep
<1>3. BudgetInv => BudgetHonoured
  BY DEF BudgetInv, BudgetHonoured
<1> QED BY <1>1, <1>2, <1>3, Invariance, PTL DEF Spec

\* counter_bytes is what the arrays take, and stays within COUNTER_BUDGET, however
\* the threads race for them (slots_for).
THEOREM BytesAlways == Spec => []BytesExact
<1>1. Init => BytesInv
  BY ArraysInit
<1>2. IInv /\ IInv' /\ BytesInv /\ [Next]_vars => BytesInv'
  BY BytesStep
<1>3. BytesInv => BytesExact
  BY DEF BytesInv
<1> QED BY <1>1, <1>2, <1>3, Invariance, PTL DEF Spec

\* Every thread counts into the array of its own slot, or into none after the run was
\* told to say so (slots_for).
THEOREM CountedAlways == Spec => []CountedOrSaid
<1>1. Init => CountedOrSaid
  BY ArraysInit
<1>2. IInv /\ CountedOrSaid /\ [Next]_vars => CountedOrSaid'
  BY CountedStep
<1> QED BY <1>1, <1>2, Invariance, PTL DEF Spec
=============================================================================
