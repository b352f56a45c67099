------------------------ MODULE BlockCountsProofs ------------------------
(***************************************************************************)
(* Theorems of BlockCounts and ExitReport, for every number of processes,  *)
(* every finite set of files, places, offsets and keys, every debug        *)
(* information, and every size of the tables.                              *)
(*                                                                         *)
(* The invariant says what the tables of a process say of each other, and  *)
(* three equations between what the processes hold and what ran: calls,    *)
(* executions, and executions block by block.  The equations are stated    *)
(* for every set of keys, since a region and a state point are sets of     *)
(* keys to the readers.  The second part shows that what the readers make  *)
(* of the files are the terms of these equations under other names.  The   *)
(* last part is about the report of a key: what each loop of write_key     *)
(* keeps, turn by turn, and so what it leaves.                             *)
(***************************************************************************)
EXTENDS ExitReport, SumLemmas, SequenceTheorems

-----------------------------------------------------------------------------
(***************************************************************************)
(* The invariant                                                           *)
(***************************************************************************)
\* A slot is one address's.
SlotInv == \A p \in Processes : \A i, j \in 1..Len(slots[p]) : slots[p][i].pc = slots[p][j].pc => i = j

\* Before an overflow, a translated block has the slot of its address.
FragmentInv ==
  /\ DOMAIN fragment = Processes
  /\ \A p \in Processes : overflow[p] = 0 =>
       \A pc \in DOMAIN fragment[p] : slots[p][fragment[p][pc]].pc = pc

\* A key is made once, and before it is used.
KeyInv ==
  \A p \in Processes :
    /\ \A i, j \in 1..Len(keys[p]) : keys[p][i] = keys[p][j] => i = j
    /\ \A k \in Keys : count[p][k] > 0 \/ open[p] = k => \E i \in 1..Len(keys[p]) : keys[p][i] = k

\* Only slots in use have counts, and only keys of instances.
CountInv ==
  \A p \in Processes, k \in Keys, s \in Slots :
    vec[p][k][s] # 0 => s <= Len(slots[p]) /\ (count[p][k] > 0 \/ open[p] = k)

TableFull(p) == Cardinality(Recorded(p)) >= MaxModules

\* A recorded module was mapped at its place, and what is mapped is recorded unless it
\* is no module or the table is full.
ModuleInv ==
  \A p \in Processes, x \in Places :
    /\ modules[p][x] # NoName => \E f \in placed[p][x] \ Generated : modules[p][x] = NameOf[f]
    /\ mapped[p][x] # NoFile =>
         /\ mapped[p][x] \in placed[p][x]
         /\ mapped[p][x] \in Generated \/ modules[p][x] # NoName \/ TableFull(p)

\* A slot's module is the one of its place; it has none if generated code was there,
\* or no module could be recorded.
HomeInv ==
  \A p \in Processes : \A i \in 1..Len(slots[p]) :
    LET x == slots[p][i].pc[1]
    IN  /\ placed[p][x] # {}
        /\ slots[p][i].mod # NoPlace => slots[p][i].mod = x /\ modules[p][x] # NoName
        /\ slots[p][i].mod = NoPlace =>
             \E f \in placed[p][x] : f \in Generated \/ (modules[p][x] = NoName /\ TableFull(p))

\* What a process holds of a key, and what a key has executed.
Cells == Processes \X Keys
Begun == [q \in Cells |-> count[q[1]][q[2]] + (IF open[q[1]] = q[2] THEN 1 ELSE 0)]
Held == [q \in Cells |-> SumFunctionOnSet(vec[q[1]][q[2]], Slots)]
Executed == [k \in Keys |-> SumFunctionOnSet(ran[k], Blocks)]

\* The slots of p that stand for block b, and what they hold.
Stand(p, b) ==
  {s \in Slots : /\ s <= Len(slots[p]) /\ slots[p][s].pc[2] = b[2]
                 /\ b[1] \in placed[p][slots[p][s].pc[1]]}
Shares(q, b) == [s \in Slots |-> IF s \in Stand(q[1], b) THEN vec[q[1]][q[2]][s] ELSE 0]
HeldOf(b) == [q \in Cells |-> SumFunctionOnSet(Shares(q, b), Slots)]
RanOf(b) == [k \in Keys |-> ran[k][b]]

\* One file per place.
Single == \A p \in Processes, x \in Places : \A f, g \in placed[p][x] : f = g

\* No call is lost.
CallsInv == \A P \in SUBSET Keys : SumFunctionOnSet(Begun, Processes \X P) = SumFunctionOnSet(called, P)
\* No execution is lost.
TotalInv == \A P \in SUBSET Keys : SumFunctionOnSet(Held, Processes \X P) = SumFunctionOnSet(Executed, P)
\* And without overflows each is held by a slot of its block.
BlockInv ==
  Silent /\ Single =>
    \A P \in SUBSET Keys, b \in Blocks :
      SumFunctionOnSet(HeldOf(b), Processes \X P) = SumFunctionOnSet(RanOf(b), P)

IInv ==
  /\ TypeOK /\ SlotInv /\ FragmentInv /\ KeyInv /\ CountInv /\ ModuleInv /\ HomeInv
  /\ CallsInv /\ TotalInv /\ BlockInv

-----------------------------------------------------------------------------
(***************************************************************************)
(* Types                                                                   *)
(***************************************************************************)
SlotType == [pc : Pcs, mod : Places \cup {NoPlace}]

\* The types of one process's tables.
LEMMA ProcessTypes ==
  ASSUME TypeOK, NEW p \in Processes
  PROVE  /\ mapped[p] \in [Places -> Files \cup {NoFile}]
         /\ modules[p] \in [Places -> {NameOf[f] : f \in Files} \cup {NoName}]
         /\ slots[p] \in Seq(SlotType) /\ Len(slots[p]) \in 0..MaxSlots
         /\ DOMAIN fragment[p] \subseteq Pcs
         /\ \A pc \in DOMAIN fragment[p] : fragment[p][pc] \in 1..Len(slots[p])
         /\ overflow[p] \in Nat /\ keys[p] \in Seq(Keys) /\ open[p] \in Keys \cup {NoKey}
         /\ vec[p] \in [Keys -> [Slots -> Nat]] /\ count[p] \in [Keys -> Nat]
         /\ placed[p] \in [Places -> SUBSET Files]
<1>1. slots[p] \in Seq(SlotType)
  BY DEF TypeOK, SlotType
<1>2. Len(slots[p]) \in 0..MaxSlots
  <2>1. Len(slots[p]) \in Nat /\ Len(slots[p]) <= MaxSlots
    BY <1>1, LenProperties DEF TypeOK
  <2> QED BY <2>1, BoundsAssumption
<1> QED BY <1>1, <1>2 DEF TypeOK

\* The types of a slot in use.
LEMMA SlotFields ==
  ASSUME TypeOK, NEW p \in Processes, NEW i \in 1..Len(slots[p])
  PROVE  /\ i \in Slots /\ slots[p][i] \in SlotType
         /\ slots[p][i].pc \in Pcs /\ slots[p][i].pc[1] \in Places /\ slots[p][i].pc[2] \in Offsets
         /\ slots[p][i].mod \in Places \cup {NoPlace}
<1>1. slots[p] \in Seq(SlotType) /\ Len(slots[p]) \in 0..MaxSlots
  BY ProcessTypes
<1>2. slots[p][i] \in SlotType
  BY <1>1, ElementOfSeq
<1>3. i \in Slots
  BY <1>1, BoundsAssumption DEF Slots
<1>4. slots[p][i].pc \in Pcs /\ slots[p][i].mod \in Places \cup {NoPlace}
  BY <1>2 DEF SlotType
<1> QED BY <1>2, <1>3, <1>4 DEF Pcs

\* All sums are over finite sets.
LEMMA FiniteSums ==
  /\ IsFiniteSet(Processes) /\ IsFiniteSet(Slots) /\ IsFiniteSet(Blocks) /\ IsFiniteSet(Cells)
  /\ \A P \in SUBSET Keys : IsFiniteSet(P) /\ IsFiniteSet(Processes \X P) /\ Processes \X P \subseteq Cells
<1>1. IsFiniteSet(Processes) /\ IsFiniteSet(Slots)
  <2>1. NProcesses \in Int /\ MaxSlots \in Int /\ 1 \in Int
    BY BoundsAssumption
  <2> QED BY <2>1, FS_Interval DEF Processes, Slots
<1>2. IsFiniteSet(Blocks)
  BY FiniteAssumption, FS_Product DEF Blocks
<1>3. ASSUME NEW P \in SUBSET Keys
      PROVE  IsFiniteSet(P) /\ IsFiniteSet(Processes \X P) /\ Processes \X P \subseteq Cells
  <2>1. IsFiniteSet(P)
    BY FiniteAssumption, FS_Subset
  <2>2. IsFiniteSet(Processes \X P)
    BY <1>1, <2>1, FS_Product
  <2> QED BY <2>1, <2>2 DEF Cells
<1>4. IsFiniteSet(Cells)
  BY <1>3 DEF Cells
<1> QED BY <1>1, <1>2, <1>3, <1>4

\* All terms are natural numbers.
LEMMA NumberTerms ==
  ASSUME TypeOK
  PROVE  /\ \A q \in Cells : Begun[q] \in Nat /\ Held[q] \in Nat
         /\ \A k \in Keys : called[k] \in Nat /\ Executed[k] \in Nat
         /\ \A b \in Blocks : (\A q \in Cells : HeldOf(b)[q] \in Nat) /\ (\A k \in Keys : RanOf(b)[k] \in Nat)
<1>1. ASSUME NEW q \in Cells PROVE Begun[q] \in Nat /\ Held[q] \in Nat
  <2>1. q[1] \in Processes /\ q[2] \in Keys
    BY DEF Cells
  <2>2. count[q[1]][q[2]] \in Nat /\ vec[q[1]][q[2]] \in [Slots -> Nat]
    BY <2>1 DEF TypeOK
  <2>3. SumFunctionOnSet(vec[q[1]][q[2]], Slots) \in Nat
    BY <2>2, FiniteSums, SumNat
  <2> QED BY <2>2, <2>3 DEF Begun, Held
<1>2. ASSUME NEW k \in Keys PROVE called[k] \in Nat /\ Executed[k] \in Nat
  <2>1. called[k] \in Nat /\ ran[k] \in [Blocks -> Nat]
    BY DEF TypeOK
  <2>2. SumFunctionOnSet(ran[k], Blocks) \in Nat
    BY <2>1, FiniteSums, SumNat
  <2> QED BY <2>1, <2>2 DEF Executed
<1>3. ASSUME NEW b \in Blocks, NEW q \in Cells PROVE HeldOf(b)[q] \in Nat
  <2>1. q[1] \in Processes /\ q[2] \in Keys
    BY DEF Cells
  <2>2. vec[q[1]][q[2]] \in [Slots -> Nat]
    BY <2>1 DEF TypeOK
  <2>3. \A s \in Slots : Shares(q, b)[s] \in Nat
    BY <2>2 DEF Shares
  <2>4. SumFunctionOnSet(Shares(q, b), Slots) \in Nat
    BY <2>3, FiniteSums, SumNat
  <2> QED BY <2>4 DEF HeldOf
<1>4. ASSUME NEW b \in Blocks, NEW k \in Keys PROVE RanOf(b)[k] \in Nat
  BY DEF TypeOK, RanOf
<1> QED BY <1>1, <1>2, <1>3, <1>4

-----------------------------------------------------------------------------
(***************************************************************************)
(* The beginning                                                           *)
(***************************************************************************)
\* The invariant holds initially.
LEMMA InitIInv == Init => IInv
<1> SUFFICES ASSUME Init PROVE IInv
  OBVIOUS
<1> USE DEF Init
<1>1. TypeOK
  <2>1. now \in 1..NProcesses + 1
    BY BoundsAssumption
  <2>2. slots \in [Processes -> Seq([pc : Pcs, mod : Places \cup {NoPlace}])] /\ keys \in [Processes -> Seq(Keys)]
    BY EmptySeq
  <2>3. \A p \in Processes : Len(slots[p]) <= MaxSlots
    BY EmptySeq, BoundsAssumption
  <2> QED BY <2>1, <2>2, <2>3 DEF TypeOK
<1>2. SlotInv /\ FragmentInv /\ HomeInv
  BY EmptySeq DEF SlotInv, FragmentInv, HomeInv
<1>3. KeyInv
  BY EmptySeq, NamesAssumption DEF KeyInv
<1>4. CountInv
  BY DEF CountInv
<1>5. ModuleInv
  BY DEF ModuleInv
<1>6. CallsInv
  <2> SUFFICES ASSUME NEW P \in SUBSET Keys
               PROVE  SumFunctionOnSet(Begun, Processes \X P) = SumFunctionOnSet(called, P)
    BY DEF CallsInv
  <2>1. \A q \in Processes \X P : Begun[q] = 0
    <3>1. \A q \in Processes \X P : /\ q \in Cells /\ q[1] \in Processes /\ q[2] \in Keys
                                    /\ count[q[1]][q[2]] = 0 /\ open[q[1]] # q[2]
      BY NamesAssumption DEF Cells
    <3> QED BY <3>1 DEF Begun
  <2>2. SumFunctionOnSet(Begun, Processes \X P) = 0
    BY <2>1, FiniteSums, SumZero
  <2>3. \A k \in P : called[k] = 0
    OBVIOUS
  <2>4. SumFunctionOnSet(called, P) = 0
    BY <2>3, FiniteSums, SumZero
  <2> QED BY <2>2, <2>4
<1>7. TotalInv
  <2> SUFFICES ASSUME NEW P \in SUBSET Keys
               PROVE  SumFunctionOnSet(Held, Processes \X P) = SumFunctionOnSet(Executed, P)
    BY DEF TotalInv
  <2>1. ASSUME NEW q \in Processes \X P PROVE Held[q] = 0
    <3>1. q \in Cells /\ \A s \in Slots : vec[q[1]][q[2]][s] = 0
      BY DEF Cells
    <3>2. SumFunctionOnSet(vec[q[1]][q[2]], Slots) = 0
      BY <3>1, FiniteSums, SumZero
    <3> QED BY <3>1, <3>2 DEF Held
  <2>2. SumFunctionOnSet(Held, Processes \X P) = 0
    BY <2>1, FiniteSums, SumZero
  <2>3. ASSUME NEW k \in P PROVE Executed[k] = 0
    <3>1. k \in Keys /\ \A b \in Blocks : ran[k][b] = 0
      OBVIOUS
    <3>2. SumFunctionOnSet(ran[k], Blocks) = 0
      BY <3>1, FiniteSums, SumZero
    <3> QED BY <3>1, <3>2 DEF Executed
  <2>4. SumFunctionOnSet(Executed, P) = 0
    BY <2>3, FiniteSums, SumZero
  <2> QED BY <2>2, <2>4
<1>8. BlockInv
  <2> SUFFICES ASSUME NEW P \in SUBSET Keys, NEW b \in Blocks
               PROVE  SumFunctionOnSet(HeldOf(b), Processes \X P) = SumFunctionOnSet(RanOf(b), P)
    BY DEF BlockInv
  <2>1. ASSUME NEW q \in Processes \X P PROVE HeldOf(b)[q] = 0
    <3>1. q \in Cells /\ \A s \in Slots : vec[q[1]][q[2]][s] = 0
      BY DEF Cells
    <3>2. \A s \in Slots : Shares(q, b)[s] = 0
      BY <3>1 DEF Shares
    <3>3. SumFunctionOnSet(Shares(q, b), Slots) = 0
      BY <3>2, FiniteSums, SumZero
    <3> QED BY <3>1, <3>3 DEF HeldOf
  <2>2. SumFunctionOnSet(HeldOf(b), Processes \X P) = 0
    BY <2>1, FiniteSums, SumZero
  <2>3. \A k \in P : RanOf(b)[k] = 0
    BY DEF RanOf
  <2>4. SumFunctionOnSet(RanOf(b), P) = 0
    BY <2>3, FiniteSums, SumZero
  <2> QED BY <2>2, <2>4
<1> QED BY <1>1, <1>2, <1>3, <1>4, <1>5, <1>6, <1>7, <1>8 DEF IInv

-----------------------------------------------------------------------------
(***************************************************************************)
(* Steps that run no block                                                 *)
(***************************************************************************)
\* A step that maps nothing and leaves the slots alone keeps what is said of places.
LEMMA HomesUnchanged ==
  ASSUME ModuleInv, HomeInv, UNCHANGED <<mapped, modules, placed, slots>>
  PROVE  ModuleInv' /\ HomeInv'
<1>1. \A q : TableFull(q)' <=> TableFull(q)
  BY DEF TableFull, Recorded
<1>2. ModuleInv'
  BY <1>1 DEF ModuleInv
<1>3. HomeInv'
  BY <1>1 DEF HomeInv
<1> QED BY <1>2, <1>3

\* A step that runs nothing and leaves slots and places alone keeps the blocks' counts.
LEMMA SharesUnchanged ==
  ASSUME BlockInv, UNCHANGED <<slots, placed, overflow, vec, ran>>
  PROVE  BlockInv'
<1>1. (Silent <=> Silent') /\ (Single <=> Single')
  BY DEF Silent, Single
<1>2. ASSUME NEW b PROVE HeldOf(b)' = HeldOf(b) /\ RanOf(b)' = RanOf(b)
  <2>1. \A p : Stand(p, b)' = Stand(p, b)
    BY DEF Stand
  <2>2. \A q : Shares(q, b)' = Shares(q, b)
    BY <2>1 DEF Shares
  <2> QED BY <2>2 DEF HeldOf, RanOf
<1> QED BY <1>1, <1>2 DEF BlockInv

\* The exit of a process changes none of its tables.
LEMMA ExitKeeps == ASSUME IInv, NEW p \in Processes, Exit(p) PROVE IInv'
<1> USE DEF IInv, Exit, clientVars, boundVars, historyVars
<1>1. TypeOK'
  <2>1. now' \in 1..NProcesses + 1
    BY BoundsAssumption DEF Processes
  <2> QED BY <2>1 DEF TypeOK
<1>2. SlotInv' /\ FragmentInv' /\ KeyInv' /\ CountInv'
  BY DEF SlotInv, FragmentInv, KeyInv, CountInv
<1>3. ModuleInv' /\ HomeInv'
  BY HomesUnchanged
<1>4. CallsInv'
  <2>1. Begun' = Begun
    BY DEF Begun
  <2> QED BY <2>1 DEF CallsInv
<1>5. TotalInv'
  <2>1. Held' = Held /\ Executed' = Executed
    BY DEF Held, Executed
  <2> QED BY <2>1 DEF TotalInv
<1>6. BlockInv'
  BY SharesUnchanged
<1> QED BY <1>1, <1>2, <1>3, <1>4, <1>5, <1>6

\* Unmapping drops fragments, and nothing else of the client's.
LEMMA UnloadKeeps == ASSUME IInv, NEW p \in Processes, NEW x \in Places, Unload(p, x) PROVE IInv'
<1> USE DEF IInv, boundVars, historyVars
<1> DEFINE rest == [pc \in {q \in DOMAIN fragment[p] : q[1] # x} |-> fragment[p][pc]]
<1>1. /\ fragment' = [fragment EXCEPT ![p] = rest]
      /\ mapped' = [mapped EXCEPT ![p][x] = NoFile]
      /\ UNCHANGED <<modules, slots, overflow, keys, open, vec, count, now,
                     loads, begins, runs, placed, ran, called>>
  BY DEF Unload
<1>2. /\ DOMAIN rest \subseteq DOMAIN fragment[p]
      /\ \A pc \in DOMAIN rest : rest[pc] = fragment[p][pc]
  OBVIOUS
<1> HIDE DEF rest
<1>3. /\ DOMAIN fragment' = Processes
      /\ \A q \in Processes : /\ DOMAIN fragment'[q] \subseteq DOMAIN fragment[q]
                              /\ \A pc \in DOMAIN fragment'[q] : fragment'[q][pc] = fragment[q][pc]
  <2>1. DOMAIN fragment = Processes
    BY DEF FragmentInv
  <2>2. DOMAIN fragment' = Processes /\ fragment'[p] = rest
        /\ \A q \in Processes : q # p => fragment'[q] = fragment[q]
    BY <1>1, <2>1
  <2> QED BY <1>2, <2>2
<1>4. /\ mapped' \in [Processes -> [Places -> Files \cup {NoFile}]]
      /\ \A q \in Processes, y \in Places : mapped'[q][y] = mapped[q][y] \/ mapped'[q][y] = NoFile
  BY <1>1 DEF TypeOK
<1>5. TypeOK'
  <2>1. \A q \in Processes : /\ Len(slots'[q]) <= MaxSlots
                             /\ DOMAIN fragment'[q] \subseteq Pcs
                             /\ \A pc \in DOMAIN fragment'[q] : fragment'[q][pc] \in 1..Len(slots'[q])
    BY <1>1, <1>3 DEF TypeOK
  <2> QED BY <1>1, <1>4, <2>1 DEF TypeOK
<1>6. SlotInv' /\ KeyInv' /\ CountInv'
  BY <1>1 DEF SlotInv, KeyInv, CountInv
<1>7. FragmentInv'
  BY <1>1, <1>3 DEF FragmentInv
<1>8. ModuleInv' /\ HomeInv'
  <2>1. \A q \in Processes : Recorded(q)' = Recorded(q) /\ (TableFull(q) <=> TableFull(q)')
    BY <1>1 DEF Recorded, TableFull
  <2>2. ModuleInv'
    BY <1>1, <1>4, <2>1 DEF ModuleInv
  <2>3. HomeInv'
    BY <1>1, <2>1 DEF HomeInv
  <2> QED BY <2>2, <2>3
<1>9. CallsInv' /\ TotalInv'
  <2>1. Begun' = Begun /\ Held' = Held /\ Executed' = Executed
    BY <1>1 DEF Begun, Held, Executed
  <2> QED BY <1>1, <2>1 DEF CallsInv, TotalInv
<1>10. BlockInv'
  BY <1>1, SharesUnchanged
<1> QED BY <1>5, <1>6, <1>7, <1>8, <1>9, <1>10

\* An instance that begins is one call, and may make a key.
LEMMA BeginKeeps == ASSUME IInv, NEW p \in Processes, NEW k \in Keys, Begin(p, k) PROVE IInv'
<1> USE DEF IInv
<1>1. /\ open[p] = NoKey /\ open' = [open EXCEPT ![p] = k]
      /\ called' = [called EXCEPT ![k] = @ + 1] /\ begins' = begins + 1
      /\ keys' = IF \E i \in 1..Len(keys[p]) : keys[p][i] = k THEN keys
                 ELSE [keys EXCEPT ![p] = Append(keys[p], k)]
      /\ UNCHANGED <<mapped, modules, slots, fragment, overflow, vec, count, now,
                     loads, runs, placed, ran>>
  BY DEF Begin
<1>2. keys[p] \in Seq(Keys) /\ Len(keys[p]) \in Nat
  BY ProcessTypes, LenProperties
<1>3. /\ open' \in [Processes -> Keys \cup {NoKey}] /\ open'[p] = k
      /\ \A q \in Processes \ {p} : open'[q] = open[q]
  BY <1>1 DEF TypeOK
<1>4. /\ called' \in [Keys -> Nat]
      /\ \A l \in Keys : called'[l] = called[l] + (IF l = k THEN 1 ELSE 0)
  <2>1. called \in [Keys -> Nat] /\ called' = [called EXCEPT ![k] = called[k] + 1]
    BY <1>1 DEF TypeOK
  <2> QED BY ONLY k \in Keys, <2>1
<1>5. /\ keys' \in [Processes -> Seq(Keys)]
      /\ \A q \in Processes \ {p} : keys'[q] = keys[q]
      /\ \A i \in 1..Len(keys[p]) : i \in 1..Len(keys'[p]) /\ keys'[p][i] = keys[p][i]
      /\ \E i \in 1..Len(keys'[p]) : keys'[p][i] = k
      /\ \A i, j \in 1..Len(keys'[p]) : keys'[p][i] = keys'[p][j] => i = j
  <2>1. CASE \E i \in 1..Len(keys[p]) : keys[p][i] = k
    <3>1. keys' = keys
      BY <1>1, <2>1
    <3> QED BY <2>1, <3>1 DEF TypeOK, KeyInv
  <2>2. CASE ~ \E i \in 1..Len(keys[p]) : keys[p][i] = k
    <3> DEFINE n == Len(keys[p])
               t == Append(keys[p], k)
    <3>1. /\ t \in Seq(Keys) /\ Len(t) = n + 1 /\ t[n + 1] = k
          /\ \A i \in 1..n : t[i] = keys[p][i]
      BY <1>2, AppendProperties
    <3>2. keys' = [keys EXCEPT ![p] = t]
      BY <1>1, <2>2
    <3>3. n \in Nat /\ 1..(n + 1) = 1..n \cup {n + 1} /\ n + 1 \in 1..(n + 1)
      BY <1>2
    <3> HIDE DEF t
    <3>4. keys' \in [Processes -> Seq(Keys)] /\ keys'[p] = t
          /\ \A q \in Processes \ {p} : keys'[q] = keys[q]
      BY <3>1, <3>2 DEF TypeOK
    <3>5. \A i, j \in 1..n : keys[p][i] = keys[p][j] => i = j
      BY DEF KeyInv
    <3>6. \A i \in 1..n : keys[p][i] # k
      BY <2>2
    <3> HIDE DEF n
    <3>7. \A i, j \in 1..(n + 1) : t[i] = t[j] => i = j
      BY <3>1, <3>3, <3>5, <3>6
    <3>8. \A i \in 1..n : i \in 1..Len(t) /\ t[i] = keys[p][i]
      BY <3>1, <3>3
    <3>9. \E i \in 1..Len(t) : t[i] = k
      BY <3>1, <3>3
    <3> QED BY <3>1, <3>4, <3>7, <3>8, <3>9 DEF n
  <2> QED BY <2>1, <2>2
<1>6. TypeOK'
  <2>1. \A q \in Processes : /\ Len(slots'[q]) <= MaxSlots
                             /\ DOMAIN fragment'[q] \subseteq Pcs
                             /\ \A pc \in DOMAIN fragment'[q] : fragment'[q][pc] \in 1..Len(slots'[q])
    BY <1>1 DEF TypeOK
  <2>2. loads' \in Nat /\ begins' \in Nat /\ runs' \in Nat /\ now' \in 1..NProcesses + 1
    BY <1>1 DEF TypeOK
  <2> QED BY <1>1, <1>3, <1>4, <1>5, <2>1, <2>2 DEF TypeOK
<1>7. SlotInv' /\ FragmentInv'
  BY <1>1 DEF SlotInv, FragmentInv
<1>8. KeyInv'
  <2> SUFFICES ASSUME NEW q \in Processes
               PROVE  /\ \A i, j \in 1..Len(keys'[q]) : keys'[q][i] = keys'[q][j] => i = j
                      /\ \A l \in Keys : count'[q][l] > 0 \/ open'[q] = l => \E i \in 1..Len(keys'[q]) : keys'[q][i] = l
    BY DEF KeyInv
  <2>1. count'[q] = count[q]
    BY <1>1
  <2>2. CASE q # p
    <3>1. keys'[q] = keys[q] /\ open'[q] = open[q]
      BY <1>3, <1>5, <2>2
    <3> QED BY <2>1, <3>1 DEF KeyInv
  <2>3. CASE q = p
    <3>1. \A l \in Keys : count[p][l] > 0 => \E i \in 1..Len(keys[p]) : keys[p][i] = l
      BY DEF KeyInv
    <3> QED BY <1>3, <1>5, <2>1, <2>3, <3>1
  <2> QED BY <2>2, <2>3
<1>9. CountInv'
  <2> SUFFICES ASSUME NEW q \in Processes, NEW l \in Keys, NEW s \in Slots, vec[q][l][s] # 0
               PROVE  s <= Len(slots[q]) /\ (count[q][l] > 0 \/ open'[q] = l)
    BY <1>1 DEF CountInv
  <2>1. s <= Len(slots[q]) /\ (count[q][l] > 0 \/ open[q] = l)
    BY DEF CountInv
  <2>2. open[p] # l
    BY <1>1, NamesAssumption
  <2> QED BY <1>3, <2>1, <2>2
<1>10. ModuleInv' /\ HomeInv'
  BY <1>1, HomesUnchanged
<1>11. CallsInv'
  <2> SUFFICES ASSUME NEW P \in SUBSET Keys
               PROVE  SumFunctionOnSet(Begun', Processes \X P) = SumFunctionOnSet(called', P)
    BY DEF CallsInv
  <2> DEFINE f == Begun
             g == Begun'
             a == <<p, k>>
             S == Processes \X P
  <2>1. IsFiniteSet(S) /\ S \subseteq Cells /\ IsFiniteSet(P)
    BY FiniteSums
  <2>2. \A q \in Cells : f[q] \in Nat
    BY NumberTerms
  <2>3. ASSUME NEW q \in Cells PROVE g[q] = f[q] + (IF q = a THEN 1 ELSE 0)
    <3>1. PICK r \in Processes, l \in Keys : q = <<r, l>>
      BY DEF Cells
    <3>2. g[q] = count[r][l] + (IF open'[r] = l THEN 1 ELSE 0)
      BY <1>1, <3>1 DEF Begun
    <3>3. f[q] = count[r][l] + (IF open[r] = l THEN 1 ELSE 0)
      BY <3>1 DEF Begun
    <3>4. count[r][l] \in Nat
      BY DEF TypeOK
    <3>5. q = a <=> r = p /\ l = k
      BY <3>1
    <3> HIDE DEF f, g, a
    <3>6. open[p] # l
      BY <1>1, NamesAssumption
    <3> QED BY <1>3, <3>2, <3>3, <3>4, <3>5, <3>6
  <2>4. a \in S <=> k \in P
    OBVIOUS
  <2>5. SumFunctionOnSet(Begun, Processes \X P) = SumFunctionOnSet(called, P)
    BY DEF CallsInv
  <2> HIDE DEF f, g, a, S
  <2>6. OneMore(f, g, S, a, 1)
    BY <2>1, <2>2, <2>3 DEF OneMore
  <2>7. SumFunctionOnSet(g, S) = SumFunctionOnSet(f, S) + (IF a \in S THEN 1 ELSE 0)
    BY <2>1, <2>6, SumOneMore
  <2>8. OneMore(called, called', P, k, 1)
    BY <1>4, NumberTerms DEF OneMore
  <2>9. SumFunctionOnSet(called', P) = SumFunctionOnSet(called, P) + (IF k \in P THEN 1 ELSE 0)
    BY <2>1, <2>8, SumOneMore
  <2> QED BY <2>4, <2>5, <2>7, <2>9 DEF f, g, S
<1>12. TotalInv'
  <2>1. Held' = Held /\ Executed' = Executed
    BY <1>1 DEF Held, Executed
  <2> QED BY <2>1 DEF TotalInv
<1>13. BlockInv'
  BY <1>1, SharesUnchanged
<1> QED BY <1>6, <1>7, <1>8, <1>9, <1>10, <1>11, <1>12, <1>13

\* An instance that ends is counted.
LEMMA EndKeeps == ASSUME IInv, NEW p \in Processes, End(p) PROVE IInv'
<1> USE DEF IInv, boundVars, historyVars
<1>1. PICK k \in Keys : k = open[p]
  <2>1. open[p] \in Keys \cup {NoKey} /\ open[p] # NoKey
    BY ProcessTypes DEF End
  <2> QED BY <2>1
<1>2. /\ count' = [count EXCEPT ![p][k] = @ + 1] /\ open' = [open EXCEPT ![p] = NoKey]
      /\ UNCHANGED <<mapped, modules, slots, fragment, overflow, keys, vec, now,
                     loads, begins, runs, placed, ran, called>>
  BY <1>1 DEF End
<1>3. /\ count' \in [Processes -> [Keys -> Nat]]
      /\ \A q \in Processes, l \in Keys : count'[q][l] = count[q][l] + (IF q = p /\ l = k THEN 1 ELSE 0)
  BY <1>2 DEF TypeOK
<1>4. /\ open' \in [Processes -> Keys \cup {NoKey}] /\ open'[p] = NoKey
      /\ \A q \in Processes \ {p} : open'[q] = open[q]
  BY <1>2 DEF TypeOK
<1>5. \A l \in Keys : l # NoKey
  BY NamesAssumption
<1>6. \A q \in Processes, l \in Keys : count[q][l] \in Nat
  BY DEF TypeOK
<1>7. TypeOK'
  BY <1>2, <1>3, <1>4 DEF TypeOK
<1>8. SlotInv' /\ FragmentInv'
  BY <1>2 DEF SlotInv, FragmentInv
<1>9. \A q \in Processes, l \in Keys :
        count'[q][l] > 0 \/ open'[q] = l <=> count[q][l] > 0 \/ open[q] = l
  BY <1>1, <1>3, <1>4, <1>5, <1>6
<1>10. KeyInv' /\ CountInv'
  BY <1>2, <1>9 DEF KeyInv, CountInv
<1>11. ModuleInv' /\ HomeInv'
  BY <1>2, HomesUnchanged
<1>12. Begun' = Begun
  <2>1. ASSUME NEW q \in Cells
        PROVE  count'[q[1]][q[2]] + (IF open'[q[1]] = q[2] THEN 1 ELSE 0)
                 = count[q[1]][q[2]] + (IF open[q[1]] = q[2] THEN 1 ELSE 0)
    <3>1. PICK r \in Processes, l \in Keys : q[1] = r /\ q[2] = l
      BY DEF Cells
    <3> QED BY <1>1, <1>3, <1>4, <1>5, <1>6, <3>1
  <2> QED BY <2>1 DEF Begun
<1>13. CallsInv' /\ TotalInv'
  <2>1. Held' = Held /\ Executed' = Executed
    BY <1>2 DEF Held, Executed
  <2> QED BY <1>2, <1>12, <2>1 DEF CallsInv, TotalInv
<1>14. BlockInv'
  BY <1>2, SharesUnchanged
<1> QED BY <1>7, <1>8, <1>10, <1>11, <1>13, <1>14

\* A place keeps its module, and has one file more.
LEMMA LoadKeeps ==
  ASSUME IInv, NEW p \in Processes, NEW f \in Files, NEW x \in Places, Load(p, f, x)
  PROVE  IInv'
<1> USE DEF IInv
<1> DEFINE named == f \notin Generated /\ x \notin Recorded(p) /\ Cardinality(Recorded(p)) < MaxModules
<1>1. /\ mapped[p][x] = NoFile /\ mapped' = [mapped EXCEPT ![p][x] = f]
      /\ modules' = IF named THEN [modules EXCEPT ![p][x] = NameOf[f]] ELSE modules
      /\ placed' = [placed EXCEPT ![p][x] = @ \cup {f}] /\ loads' = loads + 1
      /\ UNCHANGED <<slots, fragment, overflow, keys, open, vec, count, now,
                     begins, runs, ran, called>>
  BY DEF Load
<1>2. /\ mapped' \in [Processes -> [Places -> Files \cup {NoFile}]]
      /\ \A q \in Processes, y \in Places :
           mapped'[q][y] = IF q = p /\ y = x THEN f ELSE mapped[q][y]
  BY <1>1 DEF TypeOK
<1>3. /\ placed' \in [Processes -> [Places -> SUBSET Files]]
      /\ \A q \in Processes, y \in Places :
           placed'[q][y] = IF q = p /\ y = x THEN placed[q][y] \cup {f} ELSE placed[q][y]
  BY <1>1 DEF TypeOK
<1>4. /\ modules' \in [Processes -> [Places -> {NameOf[g] : g \in Files} \cup {NoName}]]
      /\ \A q \in Processes, y \in Places :
           modules'[q][y] = IF named /\ q = p /\ y = x THEN NameOf[f] ELSE modules[q][y]
  BY <1>1 DEF TypeOK
<1>5. named => modules[p][x] = NoName /\ ~TableFull(p) /\ f \notin Generated
  <2>1. Cardinality(Recorded(p)) \in Nat
    <3>1. IsFiniteSet(Recorded(p))
      BY FiniteAssumption, FS_Subset DEF Recorded
    <3> QED BY <3>1, FS_CardinalityType
  <2> QED BY <2>1, BoundsAssumption DEF Recorded, TableFull
<1>6. ~named => f \in Generated \/ modules[p][x] # NoName \/ TableFull(p)
  <2>1. Cardinality(Recorded(p)) \in Nat
    <3>1. IsFiniteSet(Recorded(p))
      BY FiniteAssumption, FS_Subset DEF Recorded
    <3> QED BY <3>1, FS_CardinalityType
  <2> QED BY <2>1, BoundsAssumption DEF Recorded, TableFull
<1> HIDE DEF named
<1>7. ASSUME NEW q \in Processes, TableFull(q)
      PROVE  TableFull(q)' /\ \A y \in Places : modules'[q][y] = modules[q][y]
  <2>1. \A y \in Places : modules'[q][y] = modules[q][y]
    BY <1>4, <1>5, <1>7
  <2>2. Recorded(q)' = Recorded(q)
    BY <2>1 DEF Recorded
  <2> QED BY <1>7, <2>1, <2>2 DEF TableFull
<1>8. \A q \in Processes, y \in Places :
        /\ placed[q][y] \subseteq placed'[q][y]
        /\ modules[q][y] # NoName => modules'[q][y] = modules[q][y]
  BY <1>3, <1>4, <1>5
<1>9. TypeOK'
  <2>1. \A q \in Processes : /\ Len(slots'[q]) <= MaxSlots
                             /\ DOMAIN fragment'[q] \subseteq Pcs
                             /\ \A pc \in DOMAIN fragment'[q] : fragment'[q][pc] \in 1..Len(slots'[q])
    BY <1>1 DEF TypeOK
  <2>2. loads' \in Nat /\ begins' \in Nat /\ runs' \in Nat /\ now' \in 1..NProcesses + 1
    BY <1>1 DEF TypeOK
  <2> QED BY <1>1, <1>2, <1>3, <1>4, <2>1, <2>2 DEF TypeOK
<1>10. SlotInv' /\ FragmentInv' /\ KeyInv' /\ CountInv'
  BY <1>1 DEF SlotInv, FragmentInv, KeyInv, CountInv
<1>11. ModuleInv'
  <2> SUFFICES ASSUME NEW q \in Processes, NEW y \in Places
               PROVE  /\ modules'[q][y] # NoName => \E g \in placed'[q][y] \ Generated : modules'[q][y] = NameOf[g]
                      /\ mapped'[q][y] # NoFile =>
                           /\ mapped'[q][y] \in placed'[q][y]
                           /\ mapped'[q][y] \in Generated \/ modules'[q][y] # NoName \/ TableFull(q)'
    BY DEF ModuleInv
  <2>1. CASE q = p /\ y = x
    <3>1. mapped'[q][y] = f /\ f \in placed'[q][y]
      BY <1>2, <1>3, <2>1
    <3>2. CASE named
      <4>1. modules'[q][y] = NameOf[f] /\ NameOf[f] # NoName /\ f \notin Generated
        BY <1>4, <1>5, <2>1, <3>2, NamesAssumption
      <4> QED BY <3>1, <4>1
    <3>3. CASE ~named
      <4>1. modules'[q][y] = modules[q][y]
        BY <1>4, <3>3
      <4>2. modules[q][y] # NoName => \E g \in placed[q][y] \ Generated : modules[q][y] = NameOf[g]
        BY DEF ModuleInv
      <4>3. f \in Generated \/ modules[q][y] # NoName \/ TableFull(q)'
        BY <1>6, <1>7, <2>1, <3>3
      <4> QED BY <1>8, <3>1, <4>1, <4>2, <4>3
    <3> QED BY <3>2, <3>3
  <2>2. CASE ~(q = p /\ y = x)
    <3>1. modules'[q][y] = modules[q][y] /\ mapped'[q][y] = mapped[q][y] /\ placed'[q][y] = placed[q][y]
      BY <1>2, <1>3, <1>4, <2>2
    <3> QED BY <1>7, <3>1 DEF ModuleInv
  <2> QED BY <2>1, <2>2
<1>12. HomeInv'
  <2> SUFFICES ASSUME NEW q \in Processes, NEW i \in 1..Len(slots[q]),
                      NEW y, y = slots[q][i].pc[1]
               PROVE  /\ placed'[q][y] # {}
                      /\ slots[q][i].mod # NoPlace => slots[q][i].mod = y /\ modules'[q][y] # NoName
                      /\ slots[q][i].mod = NoPlace =>
                           \E g \in placed'[q][y] : g \in Generated \/ (modules'[q][y] = NoName /\ TableFull(q)')
    <3>1. slots' = slots
      BY <1>1
    <3> QED BY <3>1 DEF HomeInv
  <2>1. y \in Places
    BY SlotFields
  <2>2. /\ placed[q][y] # {}
        /\ slots[q][i].mod # NoPlace => slots[q][i].mod = y /\ modules[q][y] # NoName
        /\ slots[q][i].mod = NoPlace =>
             \E g \in placed[q][y] : g \in Generated \/ (modules[q][y] = NoName /\ TableFull(q))
    BY DEF HomeInv
  <2> QED BY <1>7, <1>8, <2>1, <2>2
<1>13. CallsInv' /\ TotalInv'
  <2>1. Begun' = Begun /\ Held' = Held /\ Executed' = Executed
    BY <1>1 DEF Begun, Held, Executed
  <2> QED BY <1>1, <2>1 DEF CallsInv, TotalInv
<1>14. BlockInv'
  <2> SUFFICES ASSUME Silent', Single', NEW P \in SUBSET Keys, NEW b \in Blocks
               PROVE  SumFunctionOnSet(HeldOf(b)', Processes \X P) = SumFunctionOnSet(RanOf(b)', P)
    BY DEF BlockInv
  <2>1. Silent
    BY <1>1 DEF Silent
  <2>2. Single
    BY <1>8 DEF Single
  <2>3. ASSUME NEW q \in Processes PROVE Stand(q, b)' = Stand(q, b)
    <3>1. ASSUME NEW s \in Slots, s <= Len(slots[q])
          PROVE  b[1] \in placed'[q][slots[q][s].pc[1]] <=> b[1] \in placed[q][slots[q][s].pc[1]]
      <4>1. s \in 1..Len(slots[q])
        BY <3>1, ProcessTypes DEF Slots
      <4>2. PICK y \in Places : y = slots[q][s].pc[1]
        BY <4>1, SlotFields
      <4>3. placed[q][y] # {}
        BY <4>1, <4>2 DEF HomeInv
      <4>4. \A g, h \in placed'[q][y] : g = h
        BY DEF Single
      <4> QED BY <1>8, <4>2, <4>3, <4>4
    <3> QED BY <1>1, <3>1 DEF Stand
  <2>4. ASSUME NEW q \in Cells PROVE Shares(q, b)' = Shares(q, b)
    <3>1. q[1] \in Processes
      BY DEF Cells
    <3> QED BY <1>1, <2>3, <3>1 DEF Shares
  <2>5. HeldOf(b)' = HeldOf(b) /\ RanOf(b)' = RanOf(b)
    BY <1>1, <2>4 DEF HeldOf, RanOf
  <2> QED BY <2>1, <2>2, <2>5 DEF BlockInv
<1> QED BY <1>9, <1>10, <1>11, <1>12, <1>13, <1>14

-----------------------------------------------------------------------------
(***************************************************************************)
(* Running a block                                                         *)
(***************************************************************************)
\* The slot of a block is its fragment's, its address's, the last, or the next.
LEMMA SlotCases ==
  ASSUME IInv, NEW p \in Processes, NEW pc \in Pcs, NEW s, s = SlotFor(p, pc)
  PROVE  /\ s \in Slots
         /\ \/ s \in 1..Len(slots[p])
            \/ s = Len(slots[p]) + 1 /\ SlotOf(p, pc) = {} /\ pc \notin DOMAIN fragment[p]
         /\ s \in 1..Len(slots[p]) =>
              \/ pc \in DOMAIN fragment[p] /\ s = fragment[p][pc]
              \/ slots[p][s].pc = pc
              \/ Crowded(p, pc)
         /\ Crowded(p, pc) => s \in 1..Len(slots[p])
<1> USE DEF IInv
<1> DEFINE n == Len(slots[p])
<1>1. n \in 0..MaxSlots /\ \A q \in DOMAIN fragment[p] : fragment[p][q] \in 1..n
  BY ProcessTypes
<1>2. MaxSlots \in Nat \ {0} /\ Slots = 1..MaxSlots
  BY BoundsAssumption DEF Slots
<1>3. SlotOf(p, pc) = {i \in 1..n : slots[p][i].pc = pc} /\ (Full(p) <=> n >= MaxSlots)
  BY DEF SlotOf, Full
<1>4. s = IF pc \in DOMAIN fragment[p] THEN fragment[p][pc]
          ELSE IF SlotOf(p, pc) # {} THEN CHOOSE i \in SlotOf(p, pc) : TRUE
          ELSE IF Full(p) THEN MaxSlots ELSE n + 1
  BY DEF SlotFor
<1>5. Crowded(p, pc) <=> pc \notin DOMAIN fragment[p] /\ SlotOf(p, pc) = {} /\ Full(p)
  BY DEF Crowded
<1> HIDE DEF n
<1>6. CASE pc \in DOMAIN fragment[p]
  BY <1>1, <1>2, <1>4, <1>5, <1>6 DEF n
<1>7. CASE pc \notin DOMAIN fragment[p] /\ SlotOf(p, pc) # {}
  <2>1. s \in SlotOf(p, pc)
    BY <1>4, <1>7
  <2>2. s \in 1..n /\ slots[p][s].pc = pc
    BY <1>3, <2>1
  <2> QED BY <1>1, <1>2, <1>5, <1>7, <2>2 DEF n
<1>8. CASE pc \notin DOMAIN fragment[p] /\ SlotOf(p, pc) = {} /\ Full(p)
  <2>1. s = MaxSlots /\ n = MaxSlots
    BY <1>1, <1>2, <1>3, <1>4, <1>8
  <2> QED BY <1>2, <1>5, <1>8, <2>1 DEF n
<1>9. CASE pc \notin DOMAIN fragment[p] /\ SlotOf(p, pc) = {} /\ ~Full(p)
  <2>1. s = n + 1 /\ n < MaxSlots
    BY <1>1, <1>2, <1>3, <1>4, <1>9
  <2> QED BY <1>1, <1>2, <1>5, <1>9, <2>1 DEF n
<1> QED BY <1>6, <1>7, <1>8, <1>9

\* What a step of p does that runs block b at pc in slot s under key k.
RunsIn(p, pc, s, k, b) ==
  /\ s \in Slots /\ k = open[p] /\ b \in Blocks /\ pc[2] = b[2] /\ b[1] = mapped[p][pc[1]]
  /\ b[1] \in placed[p][pc[1]]
  /\ UNCHANGED <<mapped, modules, keys, open, count, now, loads, begins, placed, called>>
  /\ \A q \in Processes \ {p} : slots'[q] = slots[q] /\ fragment'[q] = fragment[q] /\ overflow'[q] = overflow[q]
  /\ Len(slots'[p]) \in 0..MaxSlots /\ s \in 1..Len(slots'[p])
  /\ \A i \in 1..Len(slots[p]) : i \in 1..Len(slots'[p]) /\ slots'[p][i] = slots[p][i]
  /\ \A i \in 1..Len(slots'[p]) :
       \/ i \in 1..Len(slots[p])
       \/ /\ i = s /\ i = Len(slots[p]) + 1 /\ SlotOf(p, pc) = {}
          /\ slots'[p][i] = [pc |-> pc, mod |-> ModuleAt(p, pc[1])]
  /\ DOMAIN fragment' = Processes
  /\ DOMAIN fragment'[p] = DOMAIN fragment[p] \cup {pc} /\ fragment'[p][pc] = s
  /\ \A q \in DOMAIN fragment[p] : q # pc => fragment'[p][q] = fragment[p][q]
  /\ overflow'[p] \in Nat
  /\ overflow'[p] = 0 => overflow[p] = 0 /\ slots'[p][s].pc = pc
  /\ \A q \in Processes, l \in Keys, i \in Slots :
       vec'[q][l][i] = vec[q][l][i] + (IF q = p /\ l = k /\ i = s THEN 1 ELSE 0)
  /\ \A l \in Keys, c \in Blocks :
       ran'[l][c] = ran[l][c] + (IF l = k /\ c = b THEN 1 ELSE 0)

\* That is what Run does.
LEMMA RunTypes ==
  ASSUME IInv, NEW p \in Processes, NEW pc \in Pcs, Run(p, pc)
  PROVE  TypeOK' /\ RunsIn(p, pc, SlotFor(p, pc), open[p], <<mapped[p][pc[1]], pc[2]>>)
<1> USE DEF IInv
<1>1. PICK s : s = SlotFor(p, pc)
  OBVIOUS
<1>2. PICK k : k = open[p]
  OBVIOUS
<1> DEFINE n == Len(slots[p])
           new == [pc |-> pc, mod |-> ModuleAt(p, pc[1])]
           b == <<mapped[p][pc[1]], pc[2]>>
<1>3. /\ mapped[p][pc[1]] # NoFile /\ runs' = runs + 1
      /\ fragment' = [fragment EXCEPT ![p] =
           [q \in DOMAIN fragment[p] \cup {pc} |-> IF q = pc THEN s ELSE fragment[p][q]]]
      /\ slots' = IF s > n THEN [slots EXCEPT ![p] = Append(slots[p], new)] ELSE slots
      /\ overflow' = IF Crowded(p, pc) THEN [overflow EXCEPT ![p] = @ + 1] ELSE overflow
      /\ vec' = IF k = NoKey THEN vec ELSE [vec EXCEPT ![p][k][s] = @ + 1]
      /\ ran' = IF k = NoKey THEN ran ELSE [ran EXCEPT ![k][b] = @ + 1]
      /\ UNCHANGED <<mapped, modules, keys, open, count, now, loads, begins, placed, called>>
  BY <1>1, <1>2 DEF Run
<1>4. /\ pc[1] \in Places /\ pc[2] \in Offsets /\ mapped[p][pc[1]] \in Files
      /\ mapped[p][pc[1]] \in placed[p][pc[1]]
  <2>1. pc[1] \in Places /\ pc[2] \in Offsets
    BY DEF Pcs
  <2>2. mapped[p][pc[1]] \in Files \cup {NoFile}
    BY <2>1, ProcessTypes
  <2> QED BY <1>3, <2>1, <2>2 DEF ModuleInv
<1>5. b \in Blocks /\ b[1] = mapped[p][pc[1]] /\ b[2] = pc[2]
  BY <1>4 DEF Blocks
<1>6. new \in SlotType
  <2>1. ModuleAt(p, pc[1]) \in Places \cup {NoPlace}
    BY <1>4 DEF ModuleAt
  <2> QED BY <2>1 DEF SlotType
<1>7. slots[p] \in Seq(SlotType) /\ n \in 0..MaxSlots /\ n \in Nat
  BY ProcessTypes, BoundsAssumption
<1>8. /\ s \in Slots
      /\ s \in 1..n \/ (s = n + 1 /\ SlotOf(p, pc) = {} /\ pc \notin DOMAIN fragment[p])
      /\ s \in 1..n =>
           \/ pc \in DOMAIN fragment[p] /\ s = fragment[p][pc]
           \/ slots[p][s].pc = pc
           \/ Crowded(p, pc)
      /\ Crowded(p, pc) => s \in 1..n
  BY <1>1, SlotCases
<1> HIDE DEF n, new, b
<1>9. /\ \A q \in Processes \ {p} : slots'[q] = slots[q]
      /\ slots' \in [Processes -> Seq(SlotType)]
      /\ Len(slots'[p]) \in 0..MaxSlots /\ s \in 1..Len(slots'[p])
      /\ \A i \in 1..n : i \in 1..Len(slots'[p]) /\ slots'[p][i] = slots[p][i]
      /\ \A i \in 1..Len(slots'[p]) :
           i \in 1..n \/ (i = s /\ i = n + 1 /\ SlotOf(p, pc) = {} /\ slots'[p][i] = new)
      /\ s \notin 1..n => slots'[p][s] = new
  <2>1. slots \in [Processes -> Seq(SlotType)]
    BY DEF TypeOK, SlotType
  <2>2. CASE s \in 1..n
    <3>1. slots' = slots
      BY <1>3, <1>7, <2>2
    <3> QED BY <1>7, <2>1, <2>2, <3>1 DEF n
  <2>3. CASE s \notin 1..n
    <3>1. s = n + 1 /\ s > n /\ n + 1 \in 1..MaxSlots /\ SlotOf(p, pc) = {}
      BY <1>7, <1>8, <2>3 DEF Slots
    <3> DEFINE t == Append(slots[p], new)
    <3>2. /\ t \in Seq(SlotType) /\ Len(t) = n + 1 /\ t[n + 1] = new
          /\ \A i \in 1..n : t[i] = slots[p][i]
      BY <1>6, <1>7, AppendProperties DEF n
    <3>3. slots' = [slots EXCEPT ![p] = t]
      BY <1>3, <3>1
    <3> HIDE DEF t
    <3>4. /\ slots'[p] = t /\ slots' \in [Processes -> Seq(SlotType)]
          /\ \A q \in Processes \ {p} : slots'[q] = slots[q]
      BY <2>1, <3>2, <3>3
    <3>5. 1..(n + 1) = 1..n \cup {n + 1}
      BY <1>7
    <3>6. n + 1 \in 0..MaxSlots
      BY <1>7, <3>1
    <3> QED BY <2>3, <3>1, <3>2, <3>4, <3>5, <3>6
  <2> QED BY <2>2, <2>3
<1>10. /\ \A q \in Processes \ {p} : fragment'[q] = fragment[q]
       /\ DOMAIN fragment' = Processes
       /\ DOMAIN fragment'[p] = DOMAIN fragment[p] \cup {pc} /\ fragment'[p][pc] = s
       /\ \A q \in DOMAIN fragment[p] : q # pc => fragment'[p][q] = fragment[p][q]
  <2> DEFINE g == [q \in DOMAIN fragment[p] \cup {pc} |-> IF q = pc THEN s ELSE fragment[p][q]]
  <2>1. DOMAIN g = DOMAIN fragment[p] \cup {pc} /\ g[pc] = s
        /\ \A q \in DOMAIN fragment[p] : q # pc => g[q] = fragment[p][q]
    OBVIOUS
  <2>2. fragment' = [fragment EXCEPT ![p] = g]
    BY <1>3
  <2> HIDE DEF g
  <2>3. DOMAIN fragment' = Processes /\ fragment'[p] = g /\ \A q \in Processes \ {p} : fragment'[q] = fragment[q]
    BY <2>2 DEF FragmentInv
  <2> QED BY <2>1, <2>3
<1>11. /\ overflow' \in [Processes -> Nat]
       /\ \A q \in Processes \ {p} : overflow'[q] = overflow[q]
       /\ overflow'[p] = 0 => overflow[p] = 0 /\ ~Crowded(p, pc)
  <2>1. overflow \in [Processes -> Nat]
    BY DEF TypeOK
  <2>2. CASE Crowded(p, pc)
    <3>1. overflow' = [overflow EXCEPT ![p] = @ + 1]
      BY <1>3, <2>2
    <3> QED BY <2>1, <3>1
  <2>3. CASE ~Crowded(p, pc)
    <3>1. overflow' = overflow
      BY <1>3, <2>3
    <3> QED BY <2>1, <2>3, <3>1
  <2> QED BY <2>2, <2>3
<1>12. overflow'[p] = 0 => overflow[p] = 0 /\ slots'[p][s].pc = pc
  <2> SUFFICES ASSUME overflow'[p] = 0
               PROVE  overflow[p] = 0 /\ slots'[p][s].pc = pc
    OBVIOUS
  <2>1. overflow[p] = 0 /\ ~Crowded(p, pc)
    BY <1>11
  <2>2. CASE s \in 1..n
    <3>1. slots[p][s].pc = pc
      BY <1>8, <2>1, <2>2 DEF FragmentInv
    <3> QED BY <1>9, <2>1, <2>2, <3>1
  <2>3. CASE s \notin 1..n
    <3>1. slots'[p][s] = new
      BY <1>9, <2>3
    <3> QED BY <2>1, <3>1 DEF new
  <2> QED BY <2>2, <2>3
<1>13. k \in Keys \cup {NoKey} /\ NoKey \notin Keys
  BY <1>2, ProcessTypes, NamesAssumption
<1>14. /\ vec' \in [Processes -> [Keys -> [Slots -> Nat]]]
       /\ \A q \in Processes, l \in Keys, i \in Slots :
            vec'[q][l][i] = vec[q][l][i] + (IF q = p /\ l = k /\ i = s THEN 1 ELSE 0)
  <2>1. vec \in [Processes -> [Keys -> [Slots -> Nat]]]
    BY DEF TypeOK
  <2>2. CASE k = NoKey
    <3>1. vec' = vec
      BY <1>3, <2>2
    <3> QED BY <1>13, <2>1, <2>2, <3>1
  <2>3. CASE k # NoKey
    <3>1. vec' = [vec EXCEPT ![p][k][s] = @ + 1] /\ k \in Keys
      BY <1>3, <1>13, <2>3
    <3> QED BY <1>8, <2>1, <3>1
  <2> QED BY <2>2, <2>3
<1>15. /\ ran' \in [Keys -> [Blocks -> Nat]]
       /\ \A l \in Keys, c \in Blocks :
            ran'[l][c] = ran[l][c] + (IF l = k /\ c = b THEN 1 ELSE 0)
  <2>1. ran \in [Keys -> [Blocks -> Nat]]
    BY DEF TypeOK
  <2>2. CASE k = NoKey
    <3>1. ran' = ran
      BY <1>3, <2>2
    <3> QED BY <1>13, <2>1, <2>2, <3>1
  <2>3. CASE k # NoKey
    <3>1. ran' = [ran EXCEPT ![k][b] = @ + 1] /\ k \in Keys
      BY <1>3, <1>13, <2>3
    <3> QED BY <1>5, <2>1, <3>1
  <2> QED BY <2>2, <2>3
<1>16. TypeOK'
  <2>1. ASSUME NEW q \in Processes
        PROVE  /\ Len(slots'[q]) <= MaxSlots
               /\ DOMAIN fragment'[q] \subseteq Pcs
               /\ \A c \in DOMAIN fragment'[q] : fragment'[q][c] \in 1..Len(slots'[q])
    <3>1. /\ Len(slots[q]) \in 0..MaxSlots /\ DOMAIN fragment[q] \subseteq Pcs
          /\ \A c \in DOMAIN fragment[q] : fragment[q][c] \in 1..Len(slots[q])
      BY ProcessTypes
    <3>2. CASE q # p
      <4>1. slots'[q] = slots[q] /\ fragment'[q] = fragment[q]
        BY <1>9, <1>10, <3>2
      <4> QED BY <3>1, <4>1, BoundsAssumption
    <3>3. CASE q = p
      BY <1>9, <1>10, <3>1, <3>3, BoundsAssumption DEF n
    <3> QED BY <3>2, <3>3
  <2>2. runs' \in Nat /\ loads' \in Nat /\ begins' \in Nat /\ now' \in 1..NProcesses + 1
    BY <1>3 DEF TypeOK
  <2>3. /\ mapped' \in [Processes -> [Places -> Files \cup {NoFile}]]
        /\ modules' \in [Processes -> [Places -> {NameOf[f] : f \in Files} \cup {NoName}]]
        /\ keys' \in [Processes -> Seq(Keys)] /\ open' \in [Processes -> Keys \cup {NoKey}]
        /\ count' \in [Processes -> [Keys -> Nat]]
        /\ placed' \in [Processes -> [Places -> SUBSET Files]] /\ called' \in [Keys -> Nat]
    BY <1>3 DEF TypeOK
  <2> QED BY <1>9, <1>11, <1>14, <1>15, <2>1, <2>2, <2>3 DEF TypeOK, SlotType
<1>17. RunsIn(p, pc, s, k, b)
  BY <1>2, <1>3, <1>4, <1>5, <1>8, <1>9, <1>10, <1>11, <1>12, <1>14, <1>15 DEF RunsIn, n, new
<1> QED BY <1>1, <1>2, <1>16, <1>17 DEF b

\* A new slot is for an address that has none.
LEMMA RunTables ==
  ASSUME IInv, TypeOK', NEW p \in Processes, NEW pc \in Pcs, NEW s, NEW k, NEW b,
         RunsIn(p, pc, s, k, b)
  PROVE  SlotInv' /\ FragmentInv' /\ KeyInv' /\ CountInv'
<1> USE DEF IInv
<1>1. SlotInv'
  <2> SUFFICES ASSUME NEW q \in Processes, NEW i \in 1..Len(slots'[q]), NEW j \in 1..Len(slots'[q]),
                      slots'[q][i].pc = slots'[q][j].pc
               PROVE  i = j
    BY DEF SlotInv
  <2>1. CASE q # p
    <3>1. slots'[q] = slots[q]
      BY <2>1 DEF RunsIn
    <3> QED BY <3>1 DEF SlotInv
  <2>2. CASE q = p
    <3>1. ASSUME NEW l \in 1..Len(slots'[p]), l \notin 1..Len(slots[p])
          PROVE  l = s /\ SlotOf(p, pc) = {} /\ slots'[p][l].pc = pc
      <4>1. l = s /\ SlotOf(p, pc) = {} /\ slots'[p][l] = [pc |-> pc, mod |-> ModuleAt(p, pc[1])]
        BY <3>1 DEF RunsIn
      <4> QED BY <4>1
    <3>2. ASSUME NEW l \in 1..Len(slots[p])
          PROVE  slots'[p][l].pc = slots[p][l].pc /\ (SlotOf(p, pc) = {} => slots'[p][l].pc # pc)
      <4>1. slots'[p][l] = slots[p][l]
        BY DEF RunsIn
      <4>2. SlotOf(p, pc) = {} => slots[p][l].pc # pc
        BY DEF SlotOf
      <4> QED BY <4>1, <4>2
    <3>3. CASE i \in 1..Len(slots[p]) /\ j \in 1..Len(slots[p])
      BY <2>2, <3>2, <3>3 DEF SlotInv
    <3>4. CASE i \notin 1..Len(slots[p])
      BY <2>2, <3>1, <3>2, <3>4
    <3>5. CASE j \notin 1..Len(slots[p])
      BY <2>2, <3>1, <3>2, <3>5
    <3> QED BY <3>3, <3>4, <3>5
  <2> QED BY <2>1, <2>2
<1>2. FragmentInv'
  <2>1. DOMAIN fragment' = Processes
    BY DEF RunsIn
  <2>2. ASSUME NEW q \in Processes, overflow'[q] = 0, NEW c \in DOMAIN fragment'[q]
        PROVE  slots'[q][fragment'[q][c]].pc = c
    <3>1. CASE q # p
      <4>1. slots'[q] = slots[q] /\ fragment'[q] = fragment[q] /\ overflow'[q] = overflow[q]
        BY <3>1 DEF RunsIn
      <4> QED BY <2>2, <4>1 DEF FragmentInv
    <3>2. CASE q = p /\ c = pc
      <4>1. fragment'[p][pc] = s /\ slots'[p][s].pc = pc
        BY <2>2, <3>2 DEF RunsIn
      <4> QED BY <3>2, <4>1
    <3>3. CASE q = p /\ c # pc
      <4>1. c \in DOMAIN fragment[p] /\ fragment'[p][c] = fragment[p][c] /\ overflow[p] = 0
        BY <2>2, <3>3 DEF RunsIn
      <4>2. slots[p][fragment[p][c]].pc = c /\ fragment[p][c] \in 1..Len(slots[p])
        BY <4>1, ProcessTypes DEF FragmentInv
      <4>3. slots'[p][fragment[p][c]] = slots[p][fragment[p][c]]
        BY <4>2 DEF RunsIn
      <4> QED BY <3>3, <4>1, <4>2, <4>3
    <3> QED BY <3>1, <3>2, <3>3
  <2> QED BY <2>1, <2>2 DEF FragmentInv
<1>3. KeyInv'
  <2>1. UNCHANGED <<keys, count, open>>
    BY DEF RunsIn
  <2> QED BY <2>1 DEF KeyInv
<1>4. CountInv'
  <2> SUFFICES ASSUME NEW q \in Processes, NEW l \in Keys, NEW i \in Slots, vec'[q][l][i] # 0
               PROVE  i <= Len(slots'[q]) /\ (count[q][l] > 0 \/ open[q] = l)
    BY DEF CountInv, RunsIn
  <2>1. vec[q][l][i] \in Nat
    BY DEF TypeOK
  <2>2. vec'[q][l][i] = vec[q][l][i] + (IF q = p /\ l = k /\ i = s THEN 1 ELSE 0)
    BY DEF RunsIn
  <2>3. Len(slots[q]) \in 0..MaxSlots /\ i \in Nat /\ MaxSlots \in Nat
    BY ProcessTypes, BoundsAssumption DEF Slots
  <2>4. CASE vec[q][l][i] # 0
    <3>1. i <= Len(slots[q]) /\ (count[q][l] > 0 \/ open[q] = l)
      BY <2>4 DEF CountInv
    <3>2. i \in 1..Len(slots[q])
      BY <2>3, <3>1 DEF Slots
    <3>3. i \in 1..Len(slots'[q])
      <4>1. CASE q = p
        BY <3>2, <4>1 DEF RunsIn
      <4>2. CASE q # p
        BY <3>2, <4>2 DEF RunsIn
      <4> QED BY <4>1, <4>2
    <3> QED BY <3>1, <3>3
  <2>5. CASE vec[q][l][i] = 0
    <3>1. q = p /\ l = k /\ i = s
      BY <2>2, <2>5
    <3>2. s \in 1..Len(slots'[p]) /\ k = open[p]
      BY DEF RunsIn
    <3> QED BY <3>1, <3>2
  <2> QED BY <2>4, <2>5
<1> QED BY <1>1, <1>2, <1>3, <1>4

\* A new slot has the module of its place.
LEMMA RunHomes ==
  ASSUME IInv, TypeOK', NEW p \in Processes, NEW pc \in Pcs, NEW s, NEW k, NEW b,
         RunsIn(p, pc, s, k, b)
  PROVE  ModuleInv' /\ HomeInv'
<1> USE DEF IInv
<1>1. UNCHANGED <<mapped, modules, placed>>
  BY DEF RunsIn
<1>2. \A q \in Processes : TableFull(q)' <=> TableFull(q)
  BY <1>1 DEF TableFull, Recorded
<1>3. ModuleInv'
  BY <1>1, <1>2 DEF ModuleInv
<1> DEFINE Housed(q, r) ==
      /\ placed[q][r.pc[1]] # {}
      /\ r.mod # NoPlace => r.mod = r.pc[1] /\ modules[q][r.pc[1]] # NoName
      /\ r.mod = NoPlace =>
           \E f \in placed[q][r.pc[1]] : f \in Generated \/ (modules[q][r.pc[1]] = NoName /\ TableFull(q))
<1>4. \A q \in Processes : \A i \in 1..Len(slots[q]) : Housed(q, slots[q][i])
  BY DEF HomeInv
<1>5. Housed(p, [pc |-> pc, mod |-> ModuleAt(p, pc[1])])
  <2>1. pc[1] \in Places
    BY DEF Pcs
  <2>2. PICK y \in Places : y = pc[1]
    BY <2>1
  <2>3. mapped[p][y] \in placed[p][y] /\ mapped[p][y] # NoFile
    <3>1. b[1] \in Files /\ b[1] = mapped[p][y] /\ b[1] \in placed[p][y]
      BY <2>2 DEF RunsIn, Blocks
    <3> QED BY <3>1, NamesAssumption
  <2>4. mapped[p][y] \in Generated \/ modules[p][y] # NoName \/ TableFull(p)
    BY <2>3 DEF ModuleInv
  <2>5. ModuleAt(p, y) = IF mapped[p][y] \notin Generated /\ modules[p][y] # NoName THEN y ELSE NoPlace
    BY DEF ModuleAt, Recorded
  <2>6. y # NoPlace
    BY NamesAssumption
  <2> QED BY <2>2, <2>3, <2>4, <2>5, <2>6
<1>6. ASSUME NEW q \in Processes, NEW i \in 1..Len(slots'[q]) PROVE Housed(q, slots'[q][i])
  <2>1. PICK r : r = slots'[q][i]
    OBVIOUS
  <2> HIDE DEF Housed
  <2>2. CASE q # p
    <3>1. slots'[q] = slots[q]
      BY <2>2 DEF RunsIn
    <3> QED BY <1>4, <3>1
  <2>3. CASE q = p /\ i \in 1..Len(slots[p])
    <3>1. slots'[p][i] = slots[p][i]
      BY <2>3 DEF RunsIn
    <3> QED BY <1>4, <2>3, <3>1
  <2>4. CASE q = p /\ i \notin 1..Len(slots[p])
    <3>1. slots'[p][i] = [pc |-> pc, mod |-> ModuleAt(p, pc[1])]
      BY <2>4 DEF RunsIn
    <3> QED BY <1>5, <2>4, <3>1
  <2> QED BY <2>2, <2>3, <2>4
<1>7. HomeInv'
  <2>1. ASSUME NEW q \in Processes, NEW i \in 1..Len(slots'[q])
        PROVE  LET x == slots'[q][i].pc[1]
               IN  /\ placed'[q][x] # {}
                   /\ slots'[q][i].mod # NoPlace => slots'[q][i].mod = x /\ modules'[q][x] # NoName
                   /\ slots'[q][i].mod = NoPlace =>
                        \E f \in placed'[q][x] : f \in Generated \/ (modules'[q][x] = NoName /\ TableFull(q)')
    <3>1. Housed(q, slots'[q][i])
      BY <1>6
    <3> QED BY <1>1, <1>2, <3>1
  <2> HIDE DEF Housed
  <2> QED BY <2>1 DEF HomeInv
<1> QED BY <1>3, <1>7

\* What runs is held by its process under its key.
LEMMA RunTotals ==
  ASSUME IInv, NEW p \in Processes, NEW pc \in Pcs, NEW s, NEW k, NEW b,
         RunsIn(p, pc, s, k, b)
  PROVE  CallsInv' /\ TotalInv'
<1> USE DEF IInv
<1>1. CallsInv'
  <2>1. Begun' = Begun /\ called' = called
    BY DEF Begun, RunsIn
  <2> QED BY <2>1 DEF CallsInv
<1>2. ASSUME NEW q \in Cells
      PROVE  Held'[q] = Held[q] + (IF q = <<p, k>> THEN 1 ELSE 0)
  <2>1. PICK r \in Processes, l \in Keys : q = <<r, l>>
    BY DEF Cells
  <2> DEFINE f == vec[r][l]
             g == vec'[r][l]
             d == IF r = p /\ l = k THEN 1 ELSE 0
  <2>2. Held[q] = SumFunctionOnSet(f, Slots) /\ Held'[q] = SumFunctionOnSet(g, Slots)
    BY <2>1 DEF Held
  <2>3. \A i \in Slots : f[i] \in Nat
    BY DEF TypeOK
  <2>4. \A i \in Slots : g[i] = f[i] + (IF r = p /\ l = k /\ i = s THEN 1 ELSE 0)
    BY DEF RunsIn
  <2>5. s \in Slots
    BY DEF RunsIn
  <2> HIDE DEF f, g
  <2>6. OneMore(f, g, Slots, s, d)
    BY <2>3, <2>4 DEF OneMore
  <2>7. SumFunctionOnSet(g, Slots) = SumFunctionOnSet(f, Slots) + (IF s \in Slots THEN d ELSE 0)
    BY <2>6, FiniteSums, SumOneMore
  <2> QED BY <2>1, <2>2, <2>5, <2>7
<1>3. ASSUME NEW l \in Keys
      PROVE  Executed'[l] = Executed[l] + (IF l = k THEN 1 ELSE 0)
  <2> DEFINE f == ran[l]
             g == ran'[l]
             d == IF l = k THEN 1 ELSE 0
  <2>2. Executed[l] = SumFunctionOnSet(f, Blocks) /\ Executed'[l] = SumFunctionOnSet(g, Blocks)
    BY DEF Executed
  <2>3. \A c \in Blocks : f[c] \in Nat
    BY DEF TypeOK
  <2>4. \A c \in Blocks : g[c] = f[c] + (IF l = k /\ c = b THEN 1 ELSE 0)
    BY DEF RunsIn
  <2>5. b \in Blocks
    BY DEF RunsIn
  <2> HIDE DEF f, g
  <2>6. OneMore(f, g, Blocks, b, d)
    BY <2>3, <2>4 DEF OneMore
  <2>7. SumFunctionOnSet(g, Blocks) = SumFunctionOnSet(f, Blocks) + (IF b \in Blocks THEN d ELSE 0)
    BY <2>6, FiniteSums, SumOneMore
  <2> QED BY <2>2, <2>5, <2>7
<1>4. TotalInv'
  <2> SUFFICES ASSUME NEW P \in SUBSET Keys
               PROVE  SumFunctionOnSet(Held', Processes \X P) = SumFunctionOnSet(Executed', P)
    BY DEF TotalInv
  <2> DEFINE f == Held
             g == Held'
             a == <<p, k>>
             S == Processes \X P
  <2>1. IsFiniteSet(S) /\ S \subseteq Cells /\ IsFiniteSet(P)
    BY FiniteSums
  <2>2. \A q \in Cells : f[q] \in Nat
    BY NumberTerms
  <2>3. \A q \in Cells : g[q] = f[q] + (IF q = a THEN 1 ELSE 0)
    BY <1>2
  <2>4. a \in S <=> k \in P
    OBVIOUS
  <2>5. SumFunctionOnSet(Held, Processes \X P) = SumFunctionOnSet(Executed, P)
    BY DEF TotalInv
  <2> HIDE DEF f, g, a, S
  <2>6. OneMore(f, g, S, a, 1)
    BY <2>1, <2>2, <2>3 DEF OneMore
  <2>7. SumFunctionOnSet(g, S) = SumFunctionOnSet(f, S) + (IF a \in S THEN 1 ELSE 0)
    BY <2>1, <2>6, SumOneMore
  <2>8. OneMore(Executed, Executed', P, k, 1)
    BY <1>3, NumberTerms DEF OneMore
  <2>9. SumFunctionOnSet(Executed', P) = SumFunctionOnSet(Executed, P) + (IF k \in P THEN 1 ELSE 0)
    BY <2>1, <2>8, SumOneMore
  <2> QED BY <2>4, <2>5, <2>7, <2>9 DEF f, g, S
<1> QED BY <1>1, <1>4

\* Without overflows, what runs is held by a slot of its block.
LEMMA RunShares ==
  ASSUME IInv, NEW p \in Processes, NEW pc \in Pcs, NEW s, NEW k, NEW b,
         RunsIn(p, pc, s, k, b)
  PROVE  BlockInv'
<1> USE DEF IInv
<1> SUFFICES ASSUME Silent', Single', NEW P \in SUBSET Keys, NEW c \in Blocks
             PROVE  SumFunctionOnSet(HeldOf(c)', Processes \X P) = SumFunctionOnSet(RanOf(c)', P)
  BY DEF BlockInv
<1>1. s \in Slots /\ b \in Blocks /\ placed' = placed
  BY DEF RunsIn
<1>2. Silent /\ slots'[p][s].pc = pc
  <2>1. overflow'[p] = 0
    BY DEF Silent
  <2>2. overflow[p] = 0 /\ slots'[p][s].pc = pc
    BY <2>1 DEF RunsIn
  <2>3. \A q \in Processes \ {p} : overflow'[q] = overflow[q] /\ overflow'[q] = 0
    BY DEF RunsIn, Silent
  <2> QED BY <2>2, <2>3 DEF Silent
<1>3. Single
  BY <1>1 DEF Single
<1> DEFINE a == <<p, k>>
           e == IF c = b THEN 1 ELSE 0
<1>4. s \in Stand(p, c)' <=> c = b
  <2>1. s \in Stand(p, c)' <=> pc[2] = c[2] /\ c[1] \in placed[p][pc[1]]
    <3>1. s \in 1..Len(slots'[p]) /\ Len(slots'[p]) \in 0..MaxSlots
      BY DEF RunsIn
    <3>2. s <= Len(slots'[p])
      BY <3>1
    <3> QED BY <1>1, <1>2, <3>2 DEF Stand
  <2>2. pc[2] = b[2] /\ b[1] \in placed[p][pc[1]] /\ pc[1] \in Places
    BY DEF RunsIn, Pcs
  <2>3. \A f \in placed[p][pc[1]] : f = b[1]
    BY <1>3, <2>2 DEF Single
  <2>4. c[1] = b[1] /\ c[2] = b[2] <=> c = b
    BY <1>1 DEF Blocks
  <2> QED BY <2>1, <2>2, <2>3, <2>4
<1>5. ASSUME NEW q \in Processes, NEW i \in Slots, i <= Len(slots[q])
      PROVE  i \in Stand(q, c)' <=> i \in Stand(q, c)
  <2>1. i \in 1..Len(slots[q])
    BY <1>5, ProcessTypes DEF Slots
  <2>2. slots'[q][i] = slots[q][i] /\ i \in 1..Len(slots'[q])
    <3>1. CASE q = p
      BY <2>1, <3>1 DEF RunsIn
    <3>2. CASE q # p
      <4>1. slots'[q] = slots[q]
        BY <3>2 DEF RunsIn
      <4> QED BY <2>1, <4>1
    <3> QED BY <3>1, <3>2
  <2>3. i <= Len(slots'[q])
    BY <2>2
  <2> QED BY <1>1, <1>5, <2>2, <2>3 DEF Stand
<1>6. ASSUME NEW q \in Cells
      PROVE  HeldOf(c)'[q] = HeldOf(c)[q] + (IF q = a THEN e ELSE 0)
  <2>1. PICK r \in Processes, l \in Keys : q = <<r, l>>
    BY DEF Cells
  <2> DEFINE f == Shares(q, c)
             g == Shares(q, c)'
             d == IF q = a THEN e ELSE 0
  <2>2. HeldOf(c)[q] = SumFunctionOnSet(f, Slots) /\ HeldOf(c)'[q] = SumFunctionOnSet(g, Slots)
    BY DEF HeldOf
  <2>3. ASSUME NEW i \in Slots
        PROVE  f[i] \in Nat /\ g[i] = f[i] + (IF i = s THEN d ELSE 0)
    <3>1. vec[r][l][i] \in Nat
      BY DEF TypeOK
    <3>2. f[i] = IF i \in Stand(r, c) THEN vec[r][l][i] ELSE 0
      BY <2>1 DEF Shares
    <3>3. g[i] = IF i \in Stand(r, c)' THEN vec'[r][l][i] ELSE 0
      BY <2>1 DEF Shares
    <3>4. vec'[r][l][i] = vec[r][l][i] + (IF r = p /\ l = k /\ i = s THEN 1 ELSE 0)
      BY DEF RunsIn
    <3>5. q = a <=> r = p /\ l = k
      BY <2>1
    <3> HIDE DEF f, g, a
    <3>6. f[i] \in Nat
      BY <3>1, <3>2
    <3>7. CASE i <= Len(slots[r])
      <4>1. i \in Stand(r, c)' <=> i \in Stand(r, c)
        BY <1>5, <3>7
      <4>2. CASE r = p /\ l = k /\ i = s
        <5>1. i \in Stand(r, c)' <=> c = b
          BY <1>4, <4>2
        <5> QED BY <3>1, <3>2, <3>3, <3>4, <3>5, <4>1, <4>2, <5>1
      <4>3. CASE ~(r = p /\ l = k /\ i = s)
        BY <3>1, <3>2, <3>3, <3>4, <3>5, <4>1, <4>3
      <4> QED BY <4>2, <4>3
    <3>8. CASE ~(i <= Len(slots[r]))
      <4>1. vec[r][l][i] = 0
        BY <3>8 DEF CountInv
      <4>2. f[i] = 0
        BY <3>2, <4>1
      <4>3. CASE r = p /\ l = k /\ i = s
        <5>1. i \in Stand(r, c)' <=> c = b
          BY <1>4, <4>3
        <5> QED BY <3>3, <3>4, <3>5, <4>1, <4>2, <4>3, <5>1
      <4>4. CASE ~(r = p /\ l = k /\ i = s)
        <5>1. vec'[r][l][i] = 0
          BY <3>4, <4>1, <4>4
        <5> QED BY <3>3, <3>5, <4>2, <4>4, <5>1
      <4> QED BY <4>3, <4>4
    <3> QED BY <3>6, <3>7, <3>8
  <2>4. d \in Int
    OBVIOUS
  <2> HIDE DEF f, g, d
  <2>5. OneMore(f, g, Slots, s, d)
    BY <2>3, <2>4 DEF OneMore
  <2>6. SumFunctionOnSet(g, Slots) = SumFunctionOnSet(f, Slots) + (IF s \in Slots THEN d ELSE 0)
    BY <2>5, FiniteSums, SumOneMore
  <2> QED BY <1>1, <2>2, <2>6 DEF d
<1>7. ASSUME NEW l \in Keys
      PROVE  RanOf(c)'[l] = RanOf(c)[l] + (IF l = k THEN e ELSE 0)
  <2>1. ran'[l][c] = ran[l][c] + (IF l = k /\ c = b THEN 1 ELSE 0) /\ ran[l][c] \in Nat
    BY DEF RunsIn, TypeOK
  <2>2. RanOf(c)'[l] = ran'[l][c] /\ RanOf(c)[l] = ran[l][c]
    BY DEF RanOf
  <2> QED BY <2>1, <2>2
<1> DEFINE f == HeldOf(c)
           g == HeldOf(c)'
           u == RanOf(c)
           v == RanOf(c)'
           S == Processes \X P
<1>8. IsFiniteSet(S) /\ S \subseteq Cells /\ IsFiniteSet(P)
  BY FiniteSums
<1>9. (\A q \in Cells : f[q] \in Nat) /\ (\A l \in Keys : u[l] \in Nat)
  BY NumberTerms
<1>10. \A q \in Cells : g[q] = f[q] + (IF q = a THEN e ELSE 0)
  BY <1>6
<1>11. \A l \in Keys : v[l] = u[l] + (IF l = k THEN e ELSE 0)
  BY <1>7
<1>12. (a \in S <=> k \in P) /\ e \in Int
  OBVIOUS
<1>13. SumFunctionOnSet(f, S) = SumFunctionOnSet(u, P)
  BY <1>2, <1>3 DEF BlockInv
<1> HIDE DEF f, g, u, v, a, e, S
<1>14. OneMore(f, g, S, a, e)
  BY <1>8, <1>9, <1>10, <1>12 DEF OneMore
<1>15. SumFunctionOnSet(g, S) = SumFunctionOnSet(f, S) + (IF a \in S THEN e ELSE 0)
  BY <1>8, <1>14, SumOneMore
<1>16. OneMore(u, v, P, k, e)
  BY <1>9, <1>11, <1>12 DEF OneMore
<1>17. SumFunctionOnSet(v, P) = SumFunctionOnSet(u, P) + (IF k \in P THEN e ELSE 0)
  BY <1>8, <1>16, SumOneMore
<1>18. SumFunctionOnSet(g, S) = SumFunctionOnSet(v, P)
  BY <1>12, <1>13, <1>15, <1>17
<1> QED BY <1>18 DEF g, v, S

\* A block that runs keeps the invariant.
LEMMA RunKeeps == ASSUME IInv, NEW p \in Processes, NEW pc \in Pcs, Run(p, pc) PROVE IInv'
<1>1. PICK s, k, b : s = SlotFor(p, pc) /\ k = open[p] /\ b = <<mapped[p][pc[1]], pc[2]>>
  OBVIOUS
<1>2. TypeOK' /\ RunsIn(p, pc, s, k, b)
  BY <1>1, RunTypes
<1>3. SlotInv' /\ FragmentInv' /\ KeyInv' /\ CountInv'
  BY <1>2, RunTables
<1>4. ModuleInv' /\ HomeInv'
  BY <1>2, RunHomes
<1>5. CallsInv' /\ TotalInv'
  BY <1>2, RunTotals
<1>6. BlockInv'
  BY <1>2, RunShares
<1> QED BY <1>2, <1>3, <1>4, <1>5, <1>6 DEF IInv

\* Every step keeps the invariant.
LEMMA NextKeeps == IInv /\ [Next]_vars => IInv'
<1> SUFFICES ASSUME IInv, [Next]_vars PROVE IInv'
  OBVIOUS
<1>1. ASSUME NEW p \in Processes, End(p) PROVE IInv'
  BY <1>1, EndKeeps
<1>2. ASSUME NEW p \in Processes, Exit(p) PROVE IInv'
  BY <1>2, ExitKeeps
<1>3. ASSUME NEW p \in Processes, NEW k \in Keys, Begin(p, k) PROVE IInv'
  BY <1>3, BeginKeeps
<1>4. ASSUME NEW p \in Processes, NEW x \in Places, Unload(p, x) PROVE IInv'
  BY <1>4, UnloadKeeps
<1>5. ASSUME NEW p \in Processes, NEW x \in Places, NEW f \in Files, Load(p, f, x) PROVE IInv'
  BY <1>5, LoadKeeps
<1>6. ASSUME NEW p \in Processes, NEW pc \in Pcs, Run(p, pc) PROVE IInv'
  BY <1>6, RunKeeps
<1>7. CASE UNCHANGED vars
  <2> USE <1>7 DEF vars, clientVars, boundVars, historyVars, IInv
  <2>1. TypeOK'
    BY DEF TypeOK
  <2>2. SlotInv' /\ FragmentInv' /\ KeyInv' /\ CountInv'
    BY DEF SlotInv, FragmentInv, KeyInv, CountInv
  <2>3. ModuleInv' /\ HomeInv'
    BY HomesUnchanged
  <2>4. CallsInv' /\ TotalInv'
    <3>1. Begun' = Begun /\ Held' = Held /\ Executed' = Executed
      BY DEF Begun, Held, Executed
    <3> QED BY <3>1 DEF CallsInv, TotalInv
  <2>5. BlockInv'
    BY SharesUnchanged
  <2> QED BY <2>1, <2>2, <2>3, <2>4, <2>5
<1> QED BY <1>1, <1>2, <1>3, <1>4, <1>5, <1>6, <1>7 DEF Next, Finished

\* The invariant holds in every state of every behaviour.
THEOREM Invariance == Spec => []IInv
<1>1. Init => IInv
  BY InitIInv
<1>2. IInv /\ [Next]_vars => IInv'
  BY NextKeeps
<1> QED BY <1>1, <1>2, PTL DEF Spec

\* Every table has its type: no slot beyond the table, no fragment without a slot.
THEOREM TypeCorrect == Spec => []TypeOK
<1>1. IInv => TypeOK
  BY DEF IInv
<1> QED BY <1>1, Invariance, PTL

\* While no slot overflow is reported, a translated block counts into the slot of its
\* own address, and no other address has that slot.
THEOREM OwnSlotAlways == Spec => []OwnSlot
<1>1. ASSUME IInv PROVE OwnSlot
  <2> USE <1>1 DEF IInv
  <2> SUFFICES ASSUME NEW p \in Processes, overflow[p] = 0, NEW pc \in DOMAIN fragment[p]
               PROVE  SlotOf(p, pc) = {fragment[p][pc]}
    BY DEF OwnSlot
  <2>1. fragment[p][pc] \in 1..Len(slots[p])
    BY ProcessTypes
  <2>2. slots[p][fragment[p][pc]].pc = pc
    BY DEF FragmentInv
  <2>3. \A i \in 1..Len(slots[p]) : slots[p][i].pc = pc => i = fragment[p][pc]
    BY <2>1, <2>2 DEF SlotInv
  <2> QED BY <2>1, <2>2, <2>3 DEF SlotOf
<1> QED BY <1>1, Invariance, PTL

-----------------------------------------------------------------------------
(***************************************************************************)
(* What the readers have: records of keys                                  *)
(***************************************************************************)
\* The cell a record of a key was written from.
CellOf(m) == <<m[1], KeyAt(m)>>

\* A process has no more keys than there are.
LEMMA KeyIndices ==
  ASSUME IInv, NEW p \in Processes
  PROVE  Len(keys[p]) \in 0..Cardinality(Keys) /\ Cardinality(Keys) \in Nat
<1> DEFINE n == Len(keys[p])
           f == [i \in 1..n |-> keys[p][i]]
<1>1. keys[p] \in Seq(Keys) /\ n \in Nat
  BY ProcessTypes, LenProperties DEF IInv
<1>2. \A i \in 1..n : keys[p][i] \in Keys
  BY <1>1, ElementOfSeq
<1>3. \A i, j \in 1..n : keys[p][i] = keys[p][j] => i = j
  BY DEF IInv, KeyInv
<1>4. f \in Injection(1..n, Keys)
  BY <1>2, <1>3 DEF Injection, IsInjective
<1> HIDE DEF f
<1>5. IsFiniteSet(1..n) /\ Cardinality(1..n) = n
  <2>1. n \in Int /\ 1 \in Int /\ (IF 1 > n THEN 0 ELSE n - 1 + 1) = n
    BY <1>1
  <2> HIDE DEF n
  <2> QED BY <2>1, FS_Interval
<1>6. Cardinality(1..n) <= Cardinality(Keys) /\ Cardinality(Keys) \in Nat
  BY <1>4, <1>5, FS_Injection, FS_CardinalityType, FiniteAssumption
<1> QED BY <1>1, <1>5, <1>6

\* The types of a record.
LEMMA MineTypes ==
  ASSUME IInv, NEW r, NEW m \in Mine(r)
  PROVE  /\ m[1] \in Processes /\ m[2] \in 1..Len(keys[m[1]]) /\ m = <<m[1], m[2]>>
         /\ KeyAt(m) \in Keys /\ KeyAt(m) \in KeysOf(r) /\ CellOf(m) \in Cells
         /\ count[m[1]][KeyAt(m)] > 0
<1>1. m \in Processes \X (1..Cardinality(Keys)) /\ m[2] <= Len(keys[m[1]])
      /\ RegionOf[KeyAt(m)] = r /\ count[m[1]][KeyAt(m)] > 0
  BY DEF Mine
<1>2. m[1] \in Processes /\ m[2] \in 1..Cardinality(Keys) /\ m = <<m[1], m[2]>>
  BY <1>1
<1>3. Len(keys[m[1]]) \in Nat /\ keys[m[1]] \in Seq(Keys)
  BY <1>2, ProcessTypes, LenProperties DEF IInv
<1>4. m[2] \in 1..Len(keys[m[1]])
  BY <1>1, <1>2, <1>3
<1>5. KeyAt(m) \in Keys
  BY <1>3, <1>4, ElementOfSeq DEF KeyAt
<1> QED BY <1>1, <1>2, <1>4, <1>5 DEF CellOf, Cells, KeysOf

\* There are finitely many records.
LEMMA MineFinite == ASSUME NEW r PROVE IsFiniteSet(Mine(r))
<1>1. Cardinality(Keys) \in Nat
  BY FiniteAssumption, FS_CardinalityType
<1>2. IsFiniteSet(1..Cardinality(Keys))
  BY <1>1, FS_Interval
<1>3. IsFiniteSet(Processes \X (1..Cardinality(Keys)))
  BY <1>2, FiniteSums, FS_Product
<1> QED BY <1>3, FS_Subset DEF Mine

\* A key with closed instances has a record.
LEMMA MineHas ==
  ASSUME IInv, NEW r, NEW p \in Processes, NEW k \in KeysOf(r), count[p][k] > 0
  PROVE  \E m \in Mine(r) : CellOf(m) = <<p, k>>
<1>1. k \in Keys /\ RegionOf[k] = r
  BY DEF KeysOf
<1>2. PICK i \in 1..Len(keys[p]) : keys[p][i] = k
  BY <1>1 DEF IInv, KeyInv
<1> DEFINE m == <<p, i>>
<1>3. KeyAt(m) = k /\ m[1] = p /\ m[2] = i
  BY <1>2 DEF KeyAt
<1>4. i \in 1..Cardinality(Keys) /\ i <= Len(keys[p])
  BY <1>2, KeyIndices
<1>5. m \in Mine(r)
  BY <1>1, <1>3, <1>4 DEF Mine
<1>6. CellOf(m) = <<p, k>>
  BY <1>3 DEF CellOf
<1> QED BY <1>5, <1>6

\* Two records are of two cells.
LEMMA MineOnce ==
  ASSUME IInv, NEW r, NEW m \in Mine(r), NEW n \in Mine(r), CellOf(m) = CellOf(n)
  PROVE  m = n
<1>1. /\ m[1] \in Processes /\ m[2] \in 1..Len(keys[m[1]]) /\ m = <<m[1], m[2]>>
      /\ n[1] \in Processes /\ n[2] \in 1..Len(keys[n[1]]) /\ n = <<n[1], n[2]>>
  BY MineTypes
<1>2. m[1] = n[1] /\ keys[m[1]][m[2]] = keys[n[1]][n[2]]
  BY DEF CellOf, KeyAt
<1>3. m[2] = n[2]
  BY <1>1, <1>2 DEF IInv, KeyInv
<1> QED BY <1>1, <1>2, <1>3

\* A number of every cell, 0 where no instance was closed.
Counted(h) == \A q \in Cells : h[q] \in Int /\ (count[q[1]][q[2]] = 0 => h[q] = 0)
\* The records of the keys in P.
Records(M, r, P) == P \subseteq KeysOf(r) /\ M = {m \in Mine(r) : KeyAt(m) \in P}
\* g reads h through the records.
Gathers(g, h, M) == \A m \in M : g[m] = h[CellOf(m)]

\* What is summed over the records of some keys is summed over their cells.
LEMMA CellSum ==
  ASSUME IInv, NEW r, NEW P, NEW M, Records(M, r, P),
         NEW h, Counted(h), NEW g, Gathers(g, h, M)
  PROVE  SumFunctionOnSet(g, M) = SumFunctionOnSet(h, Processes \X P)
<1> DEFINE e == [m \in M |-> CellOf(m)]
           S == Processes \X P
<1>1. P \subseteq KeysOf(r) /\ M = {m \in Mine(r) : KeyAt(m) \in P} /\ P \in SUBSET Keys
  BY DEF Records, KeysOf
<1>2. IsFiniteSet(M)
  BY <1>1, MineFinite, FS_Subset
<1>3. IsFiniteSet(S) /\ S \subseteq Cells
  BY <1>1, FiniteSums
<1>4. ASSUME NEW m \in M PROVE e[m] = CellOf(m) /\ CellOf(m) \in Cells /\ CellOf(m) \in S
  <2>1. m \in Mine(r) /\ KeyAt(m) \in P
    BY <1>1
  <2>2. m[1] \in Processes /\ CellOf(m) \in Cells
    BY <2>1, MineTypes
  <2> QED BY <2>1, <2>2 DEF CellOf
<1>5. ASSUME NEW m \in M, NEW n \in M, e[m] = e[n] PROVE m = n
  BY <1>1, <1>4, <1>5, MineOnce
<1>6. ASSUME NEW m \in M PROVE g[m] = h[e[m]] /\ g[m] \in Int
  BY <1>4 DEF Gathers, Counted
<1>7. ASSUME NEW q \in S, q \notin ImageOf(e, M) PROVE h[q] = 0
  <2>1. PICK p \in Processes, k \in P : q = <<p, k>>
    OBVIOUS
  <2>2. k \in KeysOf(r) /\ k \in Keys /\ q \in Cells
    BY <1>1, <1>3
  <2>3. count[p][k] \in Nat
    BY <2>2 DEF IInv, TypeOK
  <2>4. ASSUME count[p][k] > 0 PROVE FALSE
    <3>1. PICK m \in Mine(r) : CellOf(m) = <<p, k>>
      BY <2>2, <2>4, MineHas
    <3>2. m \in M
      BY <1>1, <3>1 DEF CellOf
    <3>3. e[m] = q
      BY <1>4, <2>1, <3>1, <3>2
    <3> QED BY <1>7, <3>2, <3>3 DEF ImageOf
  <2>5. count[q[1]][q[2]] = 0
    BY <2>1, <2>3, <2>4
  <2> QED BY <2>2, <2>5 DEF Counted
<1>8. ImageOf(e, M) \in SUBSET S
  BY <1>4 DEF ImageOf
<1>9. \A q \in S : h[q] \in Int
  BY <1>3 DEF Counted
<1>10. Renames(e, h, g, M)
  BY <1>5, <1>6 DEF Renames
<1> HIDE DEF e, S
<1>11. SumFunctionOnSet(h, ImageOf(e, M)) = SumFunctionOnSet(g, M)
  BY <1>2, <1>10, SumImage
<1>12. SumFunctionOnSet(h, ImageOf(e, M)) = SumFunctionOnSet(h, S)
  BY <1>3, <1>7, <1>8, <1>9, SumSupport
<1> QED BY <1>11, <1>12 DEF S

-----------------------------------------------------------------------------
(***************************************************************************)
(* Calls                                                                   *)
(***************************************************************************)
\* When no instance is open, those begun are those closed.
LEMMA BegunEnded ==
  ASSUME IInv, AllEnded
  PROVE  /\ Counted(Begun)
         /\ \A q \in Cells : Begun[q] = count[q[1]][q[2]]
<1>1. ASSUME NEW q \in Cells PROVE Begun[q] = count[q[1]][q[2]]
  <2>1. PICK p \in Processes, k \in Keys : q = <<p, k>>
    BY DEF Cells
  <2>2. open[p] # k
    BY NamesAssumption DEF AllEnded
  <2>3. Begun[q] = count[p][k] + (IF open[p] = k THEN 1 ELSE 0)
    BY <2>1 DEF Begun
  <2>4. count[p][k] \in Nat
    BY DEF IInv, TypeOK
  <2> QED BY <2>1, <2>2, <2>3, <2>4
<1>2. \A q \in Cells : Begun[q] \in Int
  BY NumberTerms DEF IInv
<1> QED BY <1>1, <1>2 DEF Counted

\* A key with a record was called.
LEMMA MineCalled ==
  ASSUME IInv, AllEnded, NEW r, NEW m \in Mine(r)
  PROVE  called[KeyAt(m)] > 0
<1>1. PICK p \in Processes, k \in Keys : p = m[1] /\ k = KeyAt(m) /\ count[p][k] > 0
  BY MineTypes
<1> DEFINE S == Processes \X {k}
           a == <<p, k>>
<1>2. IsFiniteSet(S) /\ S \subseteq Cells /\ {k} \in SUBSET Keys /\ IsFiniteSet({k})
  BY FiniteSums
<1>3. SumFunctionOnSet(Begun, S) = SumFunctionOnSet(called, {k})
  BY <1>2 DEF IInv, CallsInv
<1>4. \A q \in S : Begun[q] \in Nat
  BY <1>2, NumberTerms DEF IInv
<1>5. Begun[a] > 0 /\ a \in S /\ Begun[a] \in Nat
  <2>1. a \in Cells /\ a \in S
    BY DEF Cells
  <2>2. Begun[a] = count[p][k]
    BY <2>1, BegunEnded
  <2> QED BY <1>1, <1>4, <2>1, <2>2
<1> HIDE DEF S, a
<1>6. SumFunctionOnSet(Begun, S) = Begun[a] + SumFunctionOnSet(Begun, S \ {a})
  BY <1>2, <1>4, <1>5, SumTake
<1>7. SumFunctionOnSet(Begun, S \ {a}) \in Nat
  <2>1. IsFiniteSet(S \ {a})
    BY <1>2, FS_Subset
  <2> QED BY <2>1, <1>4, SumNat
<1>8. SumFunctionOnSet(called, {k}) = called[k]
  <2>1. called[k] \in Int
    BY NumberTerms DEF IInv
  <2>2. SumFunctionOnSet(called, {k}) = called[k] + SumFunctionOnSet(called, {k} \ {k})
    BY <1>2, <2>1, SumTake
  <2>3. {k} \ {k} = {}
    OBVIOUS
  <2> QED BY <2>1, <2>2, <2>3, SumEmpty
<1>9. called[k] > 0
  BY <1>3, <1>5, <1>6, <1>7, <1>8
<1> QED BY <1>1, <1>9

\* Of the records with states one is the first.
LEMMA FirstNaming ==
  ASSUME IInv, NEW r, Naming(r) # {}
  PROVE  \E m \in Naming(r) : /\ Names(r) = NamesOf(KeyAt(m))
                              /\ \A n \in Naming(r) : m = n \/ Before(m, n)
<1> DEFINE T == {m[1] : m \in Naming(r)}
<1>1. \A m \in Naming(r) : m[1] \in Nat /\ m[2] \in Nat /\ m = <<m[1], m[2]>>
  <2>1. ASSUME NEW m \in Naming(r) PROVE m[1] \in Nat /\ m[2] \in Nat /\ m = <<m[1], m[2]>>
    <3>1. m \in Mine(r)
      BY DEF Naming
    <3>2. m[1] \in Processes /\ m[2] \in 1..Len(keys[m[1]]) /\ m = <<m[1], m[2]>>
      BY <3>1, MineTypes
    <3> QED BY <3>2 DEF Processes
  <2> QED BY <2>1
<1>2. T \subseteq Nat /\ T # {}
  BY <1>1
<1> HIDE DEF T
<1>3. PICK p \in T : \A q \in T : p <= q
  BY <1>2, LeastNat
<1> DEFINE U == {m[2] : m \in {n \in Naming(r) : n[1] = p}}
<1>4. U \subseteq Nat /\ U # {}
  BY <1>1, <1>3 DEF T
<1> HIDE DEF U
<1>5. PICK i \in U : \A j \in U : i <= j
  BY <1>4, LeastNat
<1>6. PICK m \in Naming(r) : m[1] = p /\ m[2] = i
  BY <1>5 DEF U
<1>7. ASSUME NEW n \in Naming(r) PROVE m = n \/ Before(m, n)
  <2>1. n[1] \in T /\ p <= n[1] /\ p \in Nat /\ n[1] \in Nat
    BY <1>1, <1>3, <1>6 DEF T
  <2>2. CASE n[1] = p
    <3>1. n[2] \in U /\ i <= n[2] /\ i \in Nat /\ n[2] \in Nat
      BY <1>1, <1>5, <1>6, <2>2 DEF U
    <3> QED BY <1>1, <1>6, <2>2, <3>1 DEF Before
  <2>3. CASE n[1] # p
    BY <1>6, <2>1, <2>3 DEF Before
  <2> QED BY <2>2, <2>3
<1>8. PICK c : c = CHOOSE l \in Naming(r) : \A n \in Naming(r) : l = n \/ Before(l, n)
  OBVIOUS
<1>9. c \in Naming(r) /\ \A n \in Naming(r) : c = n \/ Before(c, n)
  BY <1>6, <1>7, <1>8
<1>10. Names(r) = NamesOf(KeyAt(c))
  BY <1>8 DEF Names
<1> QED BY <1>9, <1>10

\* A record is not left out just when its key has the names of the region.
LEMMA PlacedMine ==
  ASSUME IInv, AllEnded, NEW r, OneNaming(r), NEW m \in Mine(r)
  PROVE  m \notin Left(r) <=> KeyAt(m) \notin Others /\ NamesOf(KeyAt(m)) = Names(r)
<1>1. PICK k \in Keys : k = KeyAt(m)
  BY MineTypes
<1>2. /\ StatesOf[k] \in Seq(STRING \X Int) /\ Len(StatesOf[k]) \in Nat
      /\ NamesOf(k) = [i \in 1..Len(StatesOf[k]) |-> StatesOf[k][i][1]]
  BY KeysAssumption, LenProperties DEF NamesOf
<1>3. Len(NamesOf(k)) = Len(StatesOf[k]) /\ (NamesOf(k) = <<>> <=> StatesOf[k] = <<>>)
  <2>1. NamesOf(k) \in Seq(STRING)
    <3>1. \A i \in 1..Len(StatesOf[k]) : StatesOf[k][i][1] \in STRING
      <4>1. \A i \in 1..Len(StatesOf[k]) : StatesOf[k][i] \in STRING \X Int
        BY <1>2, ElementOfSeq
      <4> QED BY <4>1
    <3> QED BY <1>2, <3>1, SeqDef
  <2>2. Len(NamesOf(k)) = Len(StatesOf[k])
    BY <1>2, <2>1, LenProperties
  <2> QED BY <1>2, <2>1, <2>2, EmptySeq
<1>4. m \notin Left(r) <=> k \notin Others /\ Len(StatesOf[k]) = Len(Names(r))
  BY <1>1 DEF Left
<1>5. CASE Naming(r) = {}
  <2>1. Names(r) = <<>>
    BY <1>5 DEF Names
  <2>2. k \notin Others => StatesOf[k] = <<>>
    BY <1>1, <1>5 DEF Naming
  <2>3. Len(<<>>) = 0
    OBVIOUS
  <2> QED BY <1>1, <1>3, <1>4, <2>1, <2>2, <2>3
<1>6. CASE Naming(r) # {}
  <2>1. PICK n \in Naming(r) : Names(r) = NamesOf(KeyAt(n))
    BY <1>6, FirstNaming
  <2>2. PICK l \in Keys : l = KeyAt(n) /\ l \in KeysOf(r) /\ called[l] > 0 /\ StatesOf[l] # <<>>
    <3>1. n \in Mine(r) /\ StatesOf[KeyAt(n)] # <<>>
      BY DEF Naming
    <3> QED BY <3>1, MineTypes, MineCalled
  <2>3. k \in KeysOf(r) /\ called[k] > 0
    BY <1>1, MineTypes, MineCalled
  <2>4. CASE StatesOf[k] # <<>>
    <3>1. NamesOf(k) = NamesOf(l)
      BY <2>2, <2>3, <2>4 DEF OneNaming
    <3> QED BY <1>1, <1>3, <1>4, <2>1, <2>2, <3>1
  <2>5. CASE StatesOf[k] = <<>>
    <3>1. Len(StatesOf[k]) = 0 /\ NamesOf(k) = <<>>
      BY <1>3, <2>5
    <3>2. /\ StatesOf[l] \in Seq(STRING \X Int) /\ Len(StatesOf[l]) \in Nat /\ Len(StatesOf[l]) # 0
      BY <2>2, KeysAssumption, LenProperties, EmptySeq
    <3>3. NamesOf(l) \in Seq(STRING) /\ Len(NamesOf(l)) = Len(StatesOf[l])
      <4>1. \A i \in 1..Len(StatesOf[l]) : StatesOf[l][i][1] \in STRING
        <5>1. \A i \in 1..Len(StatesOf[l]) : StatesOf[l][i] \in STRING \X Int
          BY <3>2, ElementOfSeq
        <5> QED BY <5>1
      <4>2. NamesOf(l) = [i \in 1..Len(StatesOf[l]) |-> StatesOf[l][i][1]]
        BY DEF NamesOf
      <4>3. NamesOf(l) \in Seq(STRING)
        BY <3>2, <4>1, <4>2, SeqDef
      <4> QED BY <3>2, <4>2, <4>3, LenProperties
    <3>4. Len(Names(r)) # 0
      BY <2>1, <2>2, <3>2, <3>3
    <3>5. Names(r) # <<>>
      BY <3>4
    <3> QED BY <1>1, <1>4, <3>1, <3>4, <3>5
  <2> QED BY <2>4, <2>5
<1> QED BY <1>5, <1>6

\* The keys of r that belong to no point.
Rest(r) == KeysOf(r) \ UNION {Belong(r, v) : v \in Points(r)}

\* The records at a point, and those left out, are the records of sets of keys.
LEMMA PointMine ==
  ASSUME IInv, AllEnded, NEW r, OneNaming(r)
  PROVE  /\ \A v : Records(AtPoint(r, v), r, Belong(r, v))
         /\ Records(Left(r), r, Rest(r))
<1>1. ASSUME NEW m \in Mine(r), NEW v
      PROVE  KeyAt(m) \in Belong(r, v) <=> m \notin Left(r) /\ PointOf(KeyAt(m)) = v
  <2>1. KeyAt(m) \in KeysOf(r)
    BY MineTypes
  <2>2. m \notin Left(r) <=> KeyAt(m) \notin Others /\ NamesOf(KeyAt(m)) = Names(r)
    BY PlacedMine
  <2> QED BY <2>1, <2>2 DEF Belong
<1>2. ASSUME NEW v PROVE Records(AtPoint(r, v), r, Belong(r, v))
  <2>1. Belong(r, v) \subseteq KeysOf(r)
    BY DEF Belong
  <2> QED BY <1>1, <2>1 DEF Records, AtPoint
<1>3. Records(Left(r), r, Rest(r))
  <2>1. ASSUME NEW m \in Mine(r) PROVE KeyAt(m) \in Rest(r) <=> m \in Left(r)
    <3>1. KeyAt(m) \in KeysOf(r)
      BY MineTypes
    <3>2. CASE m \in Left(r)
      <4>1. \A v \in Points(r) : KeyAt(m) \notin Belong(r, v)
        BY <1>1, <3>2
      <4> QED BY <3>1, <3>2, <4>1 DEF Rest
    <3>3. CASE m \notin Left(r)
      <4>1. PointOf(KeyAt(m)) \in Points(r)
        BY <3>3 DEF Points
      <4>2. KeyAt(m) \in Belong(r, PointOf(KeyAt(m)))
        BY <1>1, <3>3
      <4> QED BY <3>3, <4>1, <4>2 DEF Rest
    <3> QED BY <3>2, <3>3
  <2>2. Left(r) \subseteq Mine(r) /\ Rest(r) \subseteq KeysOf(r)
    BY DEF Left, Rest
  <2> QED BY <2>1, <2>2 DEF Records
<1> QED BY <1>2, <1>3

\* The triggers of the records of some keys are their calls.
LEMMA TriggersOf ==
  ASSUME IInv, AllEnded, NEW r, NEW P, NEW M, Records(M, r, P)
  PROVE  Triggers(M) = SumFunction([k \in P |-> called[k]])
<1> DEFINE g == [m \in M |-> count[m[1]][KeyAt(m)]]
           f == [k \in P |-> called[k]]
<1>1. P \in SUBSET Keys /\ M \subseteq Mine(r) /\ IsFiniteSet(P)
  <2>1. P \in SUBSET Keys /\ M \subseteq Mine(r)
    BY DEF Records, KeysOf
  <2> QED BY <2>1, FiniteSums
<1>2. Gathers(g, Begun, M)
  <2>1. ASSUME NEW m \in M PROVE g[m] = Begun[CellOf(m)]
    <3>1. CellOf(m) \in Cells
      BY <1>1, MineTypes
    <3>2. Begun[CellOf(m)] = count[CellOf(m)[1]][CellOf(m)[2]]
      BY <3>1, BegunEnded
    <3> QED BY <3>2 DEF CellOf
  <2> QED BY <2>1 DEF Gathers
<1>3. Triggers(M) = SumFunctionOnSet(g, M) /\ SumFunction(f) = SumFunctionOnSet(f, P)
  BY DEF Triggers, SumFunction
<1>4. \A k \in P : f[k] = called[k]
  OBVIOUS
<1> HIDE DEF f, g
<1>5. SumFunctionOnSet(g, M) = SumFunctionOnSet(Begun, Processes \X P)
  BY <1>2, BegunEnded, CellSum
<1>6. SumFunctionOnSet(Begun, Processes \X P) = SumFunctionOnSet(called, P)
  BY <1>1 DEF IInv, CallsInv
<1>7. SumFunctionOnSet(f, P) = SumFunctionOnSet(called, P)
  BY <1>1, <1>4, SumSame
<1> QED BY <1>3, <1>5, <1>6, <1>7 DEF f

\* Every call is placed at the point of its states, or counted as left out.
THEOREM CallsPlaced == Spec => []CallsAtPoints
<1>1. ASSUME IInv PROVE CallsAtPoints
  <2> SUFFICES ASSUME AllEnded, NEW r \in Regions, OneNaming(r)
               PROVE  /\ \A v \in Points(r) :
                           Triggers(AtPoint(r, v)) = SumFunction([k \in Belong(r, v) |-> called[k]])
                      /\ Dropped(r) = SumFunction([k \in Rest(r) |-> called[k]])
    BY DEF CallsAtPoints, Rest
  <2>1. ASSUME NEW v
        PROVE  Triggers(AtPoint(r, v)) = SumFunction([k \in Belong(r, v) |-> called[k]])
    BY <1>1, PointMine, TriggersOf
  <2>2. Dropped(r) = SumFunction([k \in Rest(r) |-> called[k]])
    BY <1>1, PointMine, TriggersOf DEF Dropped
  <2> QED BY <2>1, <2>2
<1> QED BY <1>1, Invariance, PTL

-----------------------------------------------------------------------------
(***************************************************************************)
(* Executions                                                              *)
(***************************************************************************)
\* What a slot is called: by the name of a file at its place, or by its address.
LEMMA IdentKinds ==
  ASSUME IInv, NEW p \in Processes, NEW s \in 1..Len(slots[p]), NEW pc, pc = slots[p][s].pc
  PROVE  /\ s \in Slots /\ pc \in Pcs /\ pc[1] \in Places /\ pc[2] \in Offsets /\ pc = <<pc[1], pc[2]>>
         /\ placed[p][pc[1]] # {} /\ placed[p][pc[1]] \subseteq Files
         /\ \/ /\ Ident(p, s) = <<modules[p][pc[1]], pc[2]>> /\ modules[p][pc[1]] # NoName
               /\ \E f \in placed[p][pc[1]] : modules[p][pc[1]] = NameOf[f]
            \/ /\ Ident(p, s) = <<NoName, pc>>
               /\ \E f \in placed[p][pc[1]] : f \in Generated \/ modules[p][pc[1]] = NoName
<1> USE DEF IInv
<1>1. s \in Slots /\ pc \in Pcs /\ pc[1] \in Places /\ pc[2] \in Offsets
  BY SlotFields
<1>2. pc = <<pc[1], pc[2]>>
  BY <1>1 DEF Pcs
<1>3. PICK x \in Places : x = pc[1]
  BY <1>1
<1>4. placed[p][x] # {} /\ placed[p][x] \subseteq Files
  <2>1. placed[p][x] \subseteq Files
    BY ProcessTypes
  <2> QED BY <1>3, <2>1 DEF HomeInv
<1>5. CASE slots[p][s].mod # NoPlace
  <2>1. slots[p][s].mod = x /\ modules[p][x] # NoName
    BY <1>3, <1>5 DEF HomeInv
  <2>2. Ident(p, s) = <<modules[p][x], pc[2]>>
    BY <1>5, <2>1 DEF Ident
  <2>3. \E f \in placed[p][x] : modules[p][x] = NameOf[f]
    BY <2>1 DEF ModuleInv
  <2> QED BY <1>1, <1>2, <1>3, <1>4, <2>1, <2>2, <2>3
<1>6. CASE slots[p][s].mod = NoPlace
  <2>1. Ident(p, s) = <<NoName, pc>>
    BY <1>6 DEF Ident
  <2>2. \E f \in placed[p][x] : f \in Generated \/ modules[p][x] = NoName
    BY <1>3, <1>6 DEF HomeInv
  <2> QED BY <1>1, <1>2, <1>3, <1>4, <2>1, <2>2
<1> QED BY <1>5, <1>6

\* If a process maps a file, or two of one name, at one place only, two of its slots
\* are called differently.
LEMMA IdentOnce ==
  ASSUME IInv, OnePlace, NEW p \in Processes, NEW i \in 1..Len(slots[p]), NEW j \in 1..Len(slots[p]),
         Ident(p, i) = Ident(p, j)
  PROVE  i = j
<1>1. PICK a : a = slots[p][i].pc
  OBVIOUS
<1>2. PICK b : b = slots[p][j].pc
  OBVIOUS
<1>3. /\ a[1] \in Places /\ a = <<a[1], a[2]>> /\ placed[p][a[1]] \subseteq Files
      /\ \/ /\ Ident(p, i) = <<modules[p][a[1]], a[2]>> /\ modules[p][a[1]] # NoName
            /\ \E f \in placed[p][a[1]] : modules[p][a[1]] = NameOf[f]
         \/ Ident(p, i) = <<NoName, a>>
  BY <1>1, IdentKinds
<1>4. /\ b[1] \in Places /\ b = <<b[1], b[2]>> /\ placed[p][b[1]] \subseteq Files
      /\ \/ /\ Ident(p, j) = <<modules[p][b[1]], b[2]>> /\ modules[p][b[1]] # NoName
            /\ \E f \in placed[p][b[1]] : modules[p][b[1]] = NameOf[f]
         \/ Ident(p, j) = <<NoName, b>>
  BY <1>2, IdentKinds
<1>5. a = b
  <2>1. CASE Ident(p, i) = <<NoName, a>>
    <3>1. Ident(p, j) = <<NoName, b>>
      BY <1>4, <2>1
    <3>2. <<NoName, a>> = <<NoName, b>>
      BY <2>1, <3>1
    <3> QED BY ONLY <3>2
  <2>2. CASE Ident(p, i) # <<NoName, a>>
    <3>1. Ident(p, i) = <<modules[p][a[1]], a[2]>> /\ modules[p][a[1]] # NoName
      BY <1>3, <2>2
    <3>2. Ident(p, j) = <<modules[p][b[1]], b[2]>>
      BY <1>4, <3>1
    <3>3. modules[p][a[1]] = modules[p][b[1]] /\ a[2] = b[2]
      <4>1. <<modules[p][a[1]], a[2]>> = <<modules[p][b[1]], b[2]>>
        BY <3>1, <3>2
      <4> QED BY ONLY <4>1
    <3>4. PICK f \in placed[p][a[1]] : modules[p][a[1]] = NameOf[f]
      BY <1>3, <2>2
    <3>5. PICK g \in placed[p][b[1]] : modules[p][b[1]] = NameOf[g]
      BY <1>4, <3>1, <3>3
    <3> DEFINE s == <<p, a[1], f>>
               t == <<p, b[1], g>>
    <3>6. s \in Sites /\ t \in Sites
      BY <1>3, <1>4 DEF Sites
    <3>7. s[1] = t[1] /\ NameOf[s[3]] = NameOf[t[3]]
      BY <3>3, <3>4, <3>5
    <3>8. s = t
      BY <3>6, <3>7 DEF OnePlace
    <3>9. a[1] = b[1]
      BY <3>8
    <3> QED BY <1>3, <1>4, <3>3, <3>9
  <2> QED BY <2>1, <2>2
<1> QED BY <1>1, <1>2, <1>5 DEF IInv, SlotInv

\* A key's vector by block has the count of every slot listed, under the slot's name.
LEMMA VecOfListed ==
  ASSUME IInv, OnePlace, NEW p \in Processes, NEW k \in Keys
  PROVE  /\ Listed(p, k) \subseteq Slots /\ Listed(p, k) \subseteq 1..Len(slots[p])
         /\ DOMAIN VecOf(p, k) = {Ident(p, s) : s \in Listed(p, k)}
         /\ \A s \in Listed(p, k) : Ident(p, s) \in DOMAIN VecOf(p, k) /\ VecOf(p, k)[Ident(p, s)] = vec[p][k][s]
         /\ \A s \in Slots \ Listed(p, k) : vec[p][k][s] = 0
<1> USE DEF IInv
<1>1. Listed(p, k) \subseteq Slots /\ Listed(p, k) \subseteq 1..Len(slots[p])
  BY SlotFields DEF Listed
<1>2. DOMAIN VecOf(p, k) = {Ident(p, s) : s \in Listed(p, k)}
  BY DEF VecOf
<1>3. ASSUME NEW s \in Listed(p, k)
      PROVE  Ident(p, s) \in DOMAIN VecOf(p, k) /\ VecOf(p, k)[Ident(p, s)] = vec[p][k][s]
  <2>1. Ident(p, s) \in DOMAIN VecOf(p, k)
    BY <1>2
  <2>2. VecOf(p, k)[Ident(p, s)] = vec[p][k][Max({i \in Listed(p, k) : Ident(p, i) = Ident(p, s)})]
    BY <2>1 DEF VecOf
  <2>3. {i \in Listed(p, k) : Ident(p, i) = Ident(p, s)} = {s}
    BY <1>1, IdentOnce
  <2>4. Max({s}) = s
    <3>1. s \in Nat
      BY <1>1 DEF Slots
    <3> QED BY <3>1 DEF Max
  <2> QED BY <2>1, <2>2, <2>3, <2>4
<1>4. ASSUME NEW s \in Slots \ Listed(p, k) PROVE vec[p][k][s] = 0
  <2>1. Len(slots[p]) \in 0..MaxSlots /\ s \in 1..MaxSlots
    BY ProcessTypes DEF Slots
  <2>2. vec[p][k][s] # 0 => s <= Len(slots[p])
    BY DEF CountInv
  <2> QED BY <2>1, <2>2, BoundsAssumption DEF Listed
<1> QED BY <1>1, <1>2, <1>3, <1>4

\* A sum of the vector by blocks is one of the slots they name.
LEMMA VecSum ==
  ASSUME IInv, OnePlace, NEW p \in Processes, NEW k \in Keys, NEW B, IsFiniteSet(B),
         NEW g, \A i \in B : g[i] = IF i \in DOMAIN VecOf(p, k) THEN VecOf(p, k)[i] ELSE 0,
         NEW h, \A s \in Slots : h[s] = IF s \in Listed(p, k) /\ Ident(p, s) \in B THEN vec[p][k][s] ELSE 0
  PROVE  SumFunctionOnSet(g, B) = SumFunctionOnSet(h, Slots)
<1>0. /\ Listed(p, k) \subseteq Slots /\ Listed(p, k) \subseteq 1..Len(slots[p])
      /\ DOMAIN VecOf(p, k) = {Ident(p, s) : s \in Listed(p, k)}
      /\ \A s \in Listed(p, k) : Ident(p, s) \in DOMAIN VecOf(p, k) /\ VecOf(p, k)[Ident(p, s)] = vec[p][k][s]
  BY VecOfListed
<1>1. \A s \in Slots : vec[p][k][s] \in Nat
  BY DEF IInv, TypeOK
<1> DEFINE S == {s \in Listed(p, k) : Ident(p, s) \in B}
           e == [s \in S |-> Ident(p, s)]
<1>2. S \subseteq Slots /\ IsFiniteSet(S) /\ IsFiniteSet(Slots)
  <2>1. S \subseteq Slots
    BY <1>0
  <2> QED BY <2>1, FiniteSums, FS_Subset
<1>3. \A s, t \in S : e[s] = e[t] => s = t
  BY <1>0, IdentOnce
<1>4. \A s \in S : h[s] = g[e[s]] /\ h[s] \in Int
  BY <1>0, <1>1, <1>2
<1>5. Renames(e, g, h, S)
  BY <1>3, <1>4 DEF Renames
<1>6. ImageOf(e, S) \in SUBSET B /\ \A i \in B \ ImageOf(e, S) : g[i] = 0
  <2>1. ImageOf(e, S) \in SUBSET B
    BY DEF ImageOf
  <2>2. ASSUME NEW i \in B, i \in DOMAIN VecOf(p, k) PROVE i \in ImageOf(e, S)
    <3>1. PICK s \in Listed(p, k) : i = Ident(p, s)
      BY <1>0, <2>2
    <3>2. s \in S /\ e[s] = i
      BY <3>1
    <3> QED BY <3>2 DEF ImageOf
  <2> QED BY <2>1, <2>2
<1>7. \A i \in B : g[i] \in Int
  <2>1. ASSUME NEW i \in B, i \in DOMAIN VecOf(p, k) PROVE g[i] \in Int
    <3>1. PICK s \in Listed(p, k) : i = Ident(p, s)
      BY <1>0, <2>1
    <3>2. s \in Slots /\ VecOf(p, k)[i] = vec[p][k][s]
      BY <1>0, <3>1
    <3> QED BY <1>1, <2>1, <3>2
  <2> QED BY <2>1
<1>8. \A s \in Slots : h[s] \in Int
  BY <1>1
<1>9. \A s \in Slots \ S : h[s] = 0
  OBVIOUS
<1> HIDE DEF S, e
<1>10. SumFunctionOnSet(g, ImageOf(e, S)) = SumFunctionOnSet(h, S)
  BY <1>2, <1>5, SumImage
<1>11. SumFunctionOnSet(g, ImageOf(e, S)) = SumFunctionOnSet(g, B)
  BY <1>6, <1>7, SumSupport
<1>12. SumFunctionOnSet(h, S) = SumFunctionOnSet(h, Slots)
  BY <1>2, <1>8, <1>9, SumSupport
<1> QED BY <1>10, <1>11, <1>12

\* The vector by block has all the key holds.
LEMMA VecTotal ==
  ASSUME IInv, OnePlace, NEW q \in Cells
  PROVE  SumFunction(VecOf(q[1], q[2])) = Held[q]
<1>1. PICK p \in Processes, k \in Keys : q = <<p, k>> /\ q[1] = p /\ q[2] = k
  BY DEF Cells
<1> DEFINE B == DOMAIN VecOf(p, k)
           g == VecOf(p, k)
           h == vec[p][k]
<1>2. /\ Listed(p, k) \subseteq Slots /\ B = {Ident(p, s) : s \in Listed(p, k)}
      /\ \A s \in Slots \ Listed(p, k) : vec[p][k][s] = 0
  BY VecOfListed
<1>3. IsFiniteSet(B)
  <2> DEFINE e == [s \in Listed(p, k) |-> Ident(p, s)]
  <2>1. B = ImageOf(e, Listed(p, k))
    BY <1>2 DEF ImageOf
  <2>2. IsFiniteSet(Listed(p, k))
    BY <1>2, FiniteSums, FS_Subset
  <2> HIDE DEF e, B
  <2> QED BY <2>1, <2>2, ImageFinite
<1>4. \A i \in B : g[i] = IF i \in DOMAIN VecOf(p, k) THEN VecOf(p, k)[i] ELSE 0
  OBVIOUS
<1>5. \A s \in Slots : h[s] = IF s \in Listed(p, k) /\ Ident(p, s) \in B THEN vec[p][k][s] ELSE 0
  BY <1>2
<1>6. SumFunction(VecOf(p, k)) = SumFunctionOnSet(g, B) /\ Held[q] = SumFunctionOnSet(h, Slots)
  BY <1>1 DEF SumFunction, Held
<1> HIDE DEF B, g, h
<1>7. SumFunctionOnSet(g, B) = SumFunctionOnSet(h, Slots)
  BY <1>3, <1>4, <1>5, VecSum
<1> QED BY <1>1, <1>6, <1>7

\* A process holds something only under keys with closed instances.
LEMMA HeldCounted ==
  ASSUME IInv, AllEnded
  PROVE  Counted(Held) /\ \A b \in Blocks : Counted(HeldOf(b))
<1>1. ASSUME NEW q \in Cells, count[q[1]][q[2]] = 0
      PROVE  \A s \in Slots : vec[q[1]][q[2]][s] = 0
  <2>1. PICK p \in Processes, k \in Keys : q[1] = p /\ q[2] = k
    BY DEF Cells
  <2>2. open[p] # k
    BY NamesAssumption DEF AllEnded
  <2>3. ASSUME NEW s \in Slots, vec[p][k][s] # 0 PROVE FALSE
    <3>1. count[p][k] > 0
      BY <2>2, <2>3 DEF IInv, CountInv
    <3> QED BY <1>1, <2>1, <3>1
  <2> QED BY <2>1, <2>3
<1>2. Counted(Held)
  <2>1. ASSUME NEW q \in Cells, count[q[1]][q[2]] = 0 PROVE Held[q] = 0
    <3>1. SumFunctionOnSet(vec[q[1]][q[2]], Slots) = 0
      BY <1>1, <2>1, FiniteSums, SumZero
    <3> QED BY <3>1 DEF Held
  <2>2. \A q \in Cells : Held[q] \in Int
    BY NumberTerms DEF IInv
  <2> QED BY <2>1, <2>2 DEF Counted
<1>3. ASSUME NEW b \in Blocks PROVE Counted(HeldOf(b))
  <2>1. ASSUME NEW q \in Cells, count[q[1]][q[2]] = 0 PROVE HeldOf(b)[q] = 0
    <3>1. \A s \in Slots : Shares(q, b)[s] = 0
      BY <1>1, <2>1 DEF Shares
    <3>2. SumFunctionOnSet(Shares(q, b), Slots) = 0
      BY <3>1, FiniteSums, SumZero
    <3> QED BY <3>2 DEF HeldOf
  <2>2. \A q \in Cells : HeldOf(b)[q] \in Int
    BY NumberTerms DEF IInv
  <2> QED BY <2>1, <2>2 DEF Counted
<1> QED BY <1>2, <1>3

\* What is read back for a region is all it ran, even if slots overflow or addresses
\* are used again.
THEOREM TotalsAlways == Spec => []TotalKept
<1>1. ASSUME IInv PROVE TotalKept
  <2> SUFFICES ASSUME AllEnded, OnePlace, NEW r \in Regions
               PROVE  SumFunction([m \in Mine(r) |-> SumFunction(VecOf(m[1], KeyAt(m)))])
                        = SumFunction([k \in KeysOf(r) |-> SumFunction(ran[k])])
    BY DEF TotalKept
  <2> DEFINE M == Mine(r)
             P == KeysOf(r)
             g == [m \in M |-> SumFunction(VecOf(m[1], KeyAt(m)))]
             f == [k \in P |-> SumFunction(ran[k])]
  <2>1. P \in SUBSET Keys /\ IsFiniteSet(P)
    <3>1. P \in SUBSET Keys
      BY DEF KeysOf
    <3> QED BY <3>1, FiniteSums
  <2>2. Records(M, r, P)
    BY <1>1, MineTypes DEF Records
  <2>3. Gathers(g, Held, M)
    <3>1. ASSUME NEW m \in M PROVE g[m] = Held[CellOf(m)]
      <4>1. CellOf(m) \in Cells
        BY <1>1, MineTypes
      <4>2. SumFunction(VecOf(CellOf(m)[1], CellOf(m)[2])) = Held[CellOf(m)]
        BY <1>1, <4>1, VecTotal
      <4>3. CellOf(m)[1] = m[1] /\ CellOf(m)[2] = KeyAt(m)
        BY DEF CellOf
      <4> QED BY <4>2, <4>3
    <3> QED BY <3>1 DEF Gathers
  <2>4. SumFunction(g) = SumFunctionOnSet(g, M) /\ SumFunction(f) = SumFunctionOnSet(f, P)
    BY DEF SumFunction
  <2>5. ASSUME NEW k \in P PROVE f[k] = Executed[k]
    <3>1. k \in Keys /\ DOMAIN ran[k] = Blocks
      BY <1>1, <2>1 DEF IInv, TypeOK
    <3> QED BY <3>1 DEF Executed, SumFunction
  <2> HIDE DEF f, g, M, P
  <2>6. Counted(Held)
    BY <1>1, HeldCounted
  <2>7. SumFunctionOnSet(g, M) = SumFunctionOnSet(Held, Processes \X P)
    BY <1>1, <2>2, <2>3, <2>6, CellSum
  <2>8. SumFunctionOnSet(Held, Processes \X P) = SumFunctionOnSet(Executed, P)
    BY <1>1, <2>1 DEF IInv, TotalInv
  <2>9. SumFunctionOnSet(f, P) = SumFunctionOnSet(Executed, P)
    BY <2>1, <2>5, SumSame
  <2>10. SumFunction(g) = SumFunction(f)
    BY <2>4, <2>7, <2>8, <2>9
  <2> QED BY <2>10 DEF f, g, M, P
<1> QED BY <1>1, Invariance, PTL

\* The parts of Stable.
LEMMA StableParts ==
  ASSUME Stable
  PROVE  /\ OnePlace
         /\ \A s, t \in Sites : s[1] = t[1] /\ s[2] = t[2] => s = t
         /\ \A s, t \in Sites : NameOf[s[3]] = NameOf[t[3]] => s[3] = t[3]
         /\ \A s, t \in Sites : Nameless(s[3]) /\ s[2] = t[2] => s[3] = t[3]
BY DEF Stable

\* A process then has one file at a place.
LEMMA StableOnce ==
  ASSUME TypeOK, Stable
  PROVE  Single /\ OnePlace
<1>1. ASSUME NEW p \in Processes, NEW x \in Places, NEW f \in placed[p][x], NEW g \in placed[p][x]
      PROVE  f = g
  <2> DEFINE s == <<p, x, f>>
             t == <<p, x, g>>
  <2>1. s \in Sites /\ t \in Sites
    BY ProcessTypes DEF Sites
  <2>2. s[1] = t[1] /\ s[2] = t[2]
    OBVIOUS
  <2>3. s = t
    <3> HIDE DEF s, t
    <3> QED BY <2>1, <2>2, StableParts
  <2> QED BY <2>3
<1> QED BY <1>1, StableParts DEF Single

\* The names of a block are by its file, and by the places of its file if it has no name.
LEMMA IdsParts ==
  ASSUME NEW b, NEW i
  PROVE  i \in IdsOf(b) <=>
           \E t \in Sites : /\ t[3] = b[1]
                            /\ \/ i = <<NameOf[b[1]], b[2]>>
                               \/ Nameless(b[1]) /\ i = <<NoName, <<t[2], b[2]>>>>
BY DEF IdsOf

\* A block has finitely many names.
LEMMA IdsFinite == ASSUME NEW b \in Blocks PROVE IsFiniteSet(IdsOf(b))
<1> DEFINE C == {NoName} \X (Places \X {b[2]})
           D == {<<NameOf[b[1]], b[2]>>}
<1>1. IsFiniteSet(C)
  <2>1. IsFiniteSet({b[2]}) /\ IsFiniteSet({NoName})
    BY FS_Singleton
  <2>2. IsFiniteSet(Places \X {b[2]})
    BY <2>1, FiniteAssumption, FS_Product
  <2> QED BY <2>1, <2>2, FS_Product
<1>2. IsFiniteSet(D)
  BY FS_Singleton
<1>3. IsFiniteSet(C \cup D)
  BY <1>1, <1>2, FS_Union
<1>4. \A i \in IdsOf(b) : i \in C \cup D
  <2>1. \A t \in Sites : t[2] \in Places
    BY DEF Sites
  <2> QED BY <2>1, IdsParts
<1> HIDE DEF C, D
<1> QED BY <1>3, <1>4, FS_Subset

\* The slots called by a name of a block are those that stand for it.
LEMMA StandIds ==
  ASSUME IInv, Stable, NEW p \in Processes, NEW s \in 1..Len(slots[p]), NEW b \in Blocks
  PROVE  Ident(p, s) \in IdsOf(b) <=> s \in Stand(p, b)
<1>1. PICK pc : pc = slots[p][s].pc
  OBVIOUS
<1>2. /\ s \in Slots /\ pc[1] \in Places /\ pc[2] \in Offsets /\ pc = <<pc[1], pc[2]>>
      /\ placed[p][pc[1]] # {} /\ placed[p][pc[1]] \subseteq Files
      /\ \/ /\ Ident(p, s) = <<modules[p][pc[1]], pc[2]>> /\ modules[p][pc[1]] # NoName
            /\ \E f \in placed[p][pc[1]] : modules[p][pc[1]] = NameOf[f]
         \/ /\ Ident(p, s) = <<NoName, pc>>
            /\ \E f \in placed[p][pc[1]] : f \in Generated \/ modules[p][pc[1]] = NoName
  BY <1>1, IdentKinds
<1>3. s \in Stand(p, b) <=> pc[2] = b[2] /\ b[1] \in placed[p][pc[1]]
  <2>1. s <= Len(slots[p])
    BY ProcessTypes DEF IInv
  <2> QED BY <1>1, <1>2, <2>1 DEF Stand
<1>4. b[1] \in Files /\ b = <<b[1], b[2]>> /\ NameOf[b[1]] # NoName
  BY NamesAssumption DEF Blocks
<1>5. PICK g \in placed[p][pc[1]] :
        \/ /\ Ident(p, s) = <<NameOf[g], pc[2]>> /\ NameOf[g] # NoName
        \/ /\ Ident(p, s) = <<NoName, pc>>
           /\ g \in Generated \/ modules[p][pc[1]] = NoName
  BY <1>2
<1> DEFINE t == <<p, pc[1], g>>
<1>6. t \in Sites /\ t[1] = p /\ t[2] = pc[1] /\ t[3] = g
  BY <1>2 DEF Sites
<1>7. \A f \in placed[p][pc[1]] : f = g
  BY <1>2, StableOnce DEF IInv, Single
<1> HIDE DEF t
<1>8. ASSUME s \in Stand(p, b) PROVE Ident(p, s) \in IdsOf(b)
  <2>1. pc[2] = b[2] /\ b[1] = g
    BY <1>3, <1>7, <1>8
  <2>2. CASE Ident(p, s) = <<NameOf[g], pc[2]>>
    BY <1>6, <2>1, <2>2, IdsParts
  <2>3. CASE Ident(p, s) = <<NoName, pc>> /\ (g \in Generated \/ modules[p][pc[1]] = NoName)
    <3>1. Nameless(b[1])
      BY <1>6, <2>1, <2>3 DEF Nameless
    <3>2. Ident(p, s) = <<NoName, <<t[2], b[2]>>>>
      BY <1>2, <1>6, <2>1, <2>3
    <3> QED BY <1>6, <2>1, <3>1, <3>2, IdsParts
  <2> QED BY <1>5, <2>2, <2>3
<1>9. ASSUME Ident(p, s) \in IdsOf(b) PROVE s \in Stand(p, b)
  <2>1. PICK u \in Sites : /\ u[3] = b[1]
                           /\ \/ Ident(p, s) = <<NameOf[b[1]], b[2]>>
                              \/ Nameless(b[1]) /\ Ident(p, s) = <<NoName, <<u[2], b[2]>>>>
    BY <1>9, IdsParts
  <2>2. CASE Ident(p, s) = <<NameOf[g], pc[2]>> /\ NameOf[g] # NoName
    <3>1. Ident(p, s) = <<NameOf[b[1]], b[2]>>
      BY <2>1, <2>2
    <3>2. <<NameOf[g], pc[2]>> = <<NameOf[b[1]], b[2]>>
      BY <2>2, <3>1
    <3>3. NameOf[g] = NameOf[b[1]] /\ pc[2] = b[2]
      BY ONLY <3>2
    <3>4. u[3] = t[3]
      BY <1>6, <2>1, <3>3, StableParts
    <3> QED BY <1>3, <1>6, <2>1, <3>3, <3>4
  <2>3. CASE Ident(p, s) = <<NoName, pc>>
    <3>1. Nameless(b[1]) /\ Ident(p, s) = <<NoName, <<u[2], b[2]>>>>
      <4>1. Ident(p, s) # <<NameOf[b[1]], b[2]>>
        <5>1. <<NoName, pc>> # <<NameOf[b[1]], b[2]>>
          BY <1>4
        <5> QED BY <2>3, <5>1
      <4> QED BY <2>1, <4>1
    <3>2. <<NoName, pc>> = <<NoName, <<u[2], b[2]>>>>
      BY <2>3, <3>1
    <3>3. pc = <<u[2], b[2]>>
      BY ONLY <3>2
    <3>4. pc[1] = u[2] /\ pc[2] = b[2]
      BY <3>3
    <3>5. u[3] = t[3]
      BY <1>6, <2>1, <3>1, <3>4, StableParts
    <3> QED BY <1>3, <1>6, <2>1, <3>4, <3>5
  <2> QED BY <1>5, <2>2, <2>3
<1> QED BY <1>8, <1>9

\* Under its names a block has in a key's vector what its slots hold.
LEMMA VecBlock ==
  ASSUME IInv, Stable, NEW b \in Blocks, NEW q \in Cells,
         NEW g, \A i \in IdsOf(b) :
                  g[i] = IF i \in DOMAIN VecOf(q[1], q[2]) THEN VecOf(q[1], q[2])[i] ELSE 0
  PROVE  SumFunctionOnSet(g, IdsOf(b)) = HeldOf(b)[q]
<1>1. PICK p \in Processes, k \in Keys : q = <<p, k>> /\ q[1] = p /\ q[2] = k
  BY DEF Cells
<1> DEFINE h == Shares(q, b)
           B == IdsOf(b)
<1>2. OnePlace /\ IsFiniteSet(B)
  BY StableParts, IdsFinite
<1>3. /\ Listed(p, k) \subseteq 1..Len(slots[p])
      /\ \A s \in Slots \ Listed(p, k) : vec[p][k][s] = 0
  BY ONLY IInv, p \in Processes, k \in Keys, <1>2, VecOfListed
<1>4. ASSUME NEW s \in Slots
      PROVE  h[s] = IF s \in Listed(p, k) /\ Ident(p, s) \in B THEN vec[p][k][s] ELSE 0
  <2>1. h[s] = IF s \in Stand(p, b) THEN vec[p][k][s] ELSE 0
    BY <1>1 DEF Shares
  <2> HIDE DEF h
  <2>2. CASE s \in Listed(p, k)
    <3>1. s \in 1..Len(slots[p])
      BY <1>3, <2>2
    <3>2. Ident(p, s) \in B <=> s \in Stand(p, b)
      BY <3>1, StandIds
    <3> QED BY <2>1, <2>2, <3>2
  <2>3. CASE s \notin Listed(p, k)
    BY <1>3, <2>1, <2>3
  <2> QED BY <2>2, <2>3
<1>5. \A i \in B : g[i] = IF i \in DOMAIN VecOf(p, k) THEN VecOf(p, k)[i] ELSE 0
  BY <1>1
<1>6. HeldOf(b)[q] = SumFunctionOnSet(h, Slots)
  BY DEF HeldOf
<1> HIDE DEF h, B
<1>7. SumFunctionOnSet(g, B) = SumFunctionOnSet(h, Slots)
  BY <1>2, <1>4, <1>5, VecSum
<1> QED BY <1>6, <1>7 DEF B

\* What the readers sum at a point for a block is what the processes hold of it.
LEMMA SummedOf ==
  ASSUME IInv, AllEnded, Stable, NEW r, OneNaming(r), NEW v, NEW b \in Blocks
  PROVE  SumFunction([i \in IdsOf(b) |-> Summed(r, v, i)])
           = SumFunctionOnSet(HeldOf(b), Processes \X Belong(r, v))
<1> DEFINE M == AtPoint(r, v)
           B == IdsOf(b)
           c == [i \in B |-> [m \in M |-> Count(m, i)]]
           d == [m \in M |-> [i \in B |-> Count(m, i)]]
           rows == [i \in B |-> SumFunctionOnSet(c[i], M)]
           columns == [m \in M |-> SumFunctionOnSet(d[m], B)]
<1>1. Records(M, r, Belong(r, v))
  BY PointMine
<1>2. M \subseteq Mine(r) /\ IsFiniteSet(M)
  <2>1. M \subseteq Mine(r)
    BY <1>1 DEF Records
  <2> QED BY <2>1, MineFinite, FS_Subset
<1>3. IsFiniteSet(B)
  BY IdsFinite
<1>4. \A i \in B, m \in M : c[i][m] = Count(m, i) /\ d[m][i] = Count(m, i)
  OBVIOUS
<1>5. ASSUME NEW i \in B, NEW m \in M PROVE c[i][m] \in Int
  <2>1. m[1] \in Processes /\ KeyAt(m) \in Keys
    BY <1>2, MineTypes
  <2>2. PICK p \in Processes, k \in Keys : p = m[1] /\ k = KeyAt(m)
    BY <2>1
  <2>3. c[i][m] = IF i \in DOMAIN VecOf(p, k) THEN VecOf(p, k)[i] ELSE 0
    BY <1>4, <2>2 DEF Count
  <2>4. /\ Listed(p, k) \subseteq Slots
        /\ DOMAIN VecOf(p, k) = {Ident(p, s) : s \in Listed(p, k)}
        /\ \A s \in Listed(p, k) : VecOf(p, k)[Ident(p, s)] = vec[p][k][s]
    BY StableParts, VecOfListed
  <2>5. \A s \in Slots : vec[p][k][s] \in Nat
    BY DEF IInv, TypeOK
  <2> HIDE DEF c, d
  <2>6. CASE i \in DOMAIN VecOf(p, k)
    <3>1. PICK s \in Listed(p, k) : i = Ident(p, s)
      BY <2>4, <2>6
    <3>2. VecOf(p, k)[i] = vec[p][k][s] /\ s \in Slots
      BY <2>4, <3>1
    <3> QED BY <2>3, <2>5, <2>6, <3>2
  <2>7. CASE i \notin DOMAIN VecOf(p, k)
    BY <2>3, <2>7
  <2> QED BY <2>6, <2>7
<1>6. SumFunction([i \in B |-> Summed(r, v, i)]) = SumFunctionOnSet(rows, B)
  <2>1. ASSUME NEW i \in B PROVE Summed(r, v, i) = rows[i]
    BY DEF Summed, SumFunction
  <2>2. [i \in B |-> Summed(r, v, i)] = rows
    BY <2>1
  <2>3. DOMAIN rows = B
    OBVIOUS
  <2> HIDE DEF rows
  <2> QED BY <2>2, <2>3 DEF SumFunction
<1>7. ASSUME NEW m \in M PROVE columns[m] = HeldOf(b)[CellOf(m)]
  <2> DEFINE g == d[m]
  <2>1. columns[m] = SumFunctionOnSet(g, B)
    OBVIOUS
  <2>2. \A i \in B : g[i] = Count(m, i)
    BY <1>4
  <2>3. CellOf(m) \in Cells /\ CellOf(m)[1] = m[1] /\ CellOf(m)[2] = KeyAt(m)
    BY <1>2, MineTypes DEF CellOf
  <2> HIDE DEF g, columns, c, d
  <2>4. \A i \in IdsOf(b) : g[i] = IF i \in DOMAIN VecOf(CellOf(m)[1], CellOf(m)[2])
                                   THEN VecOf(CellOf(m)[1], CellOf(m)[2])[i] ELSE 0
    BY <2>2, <2>3 DEF Count
  <2>5. SumFunctionOnSet(g, IdsOf(b)) = HeldOf(b)[CellOf(m)]
    BY <2>3, <2>4, VecBlock
  <2> QED BY <2>1, <2>5
<1>8. RowSums(rows, c, B, M) /\ RowSums(columns, d, M, B)
  BY DEF RowSums
<1>9. Transposes(d, c, B, M)
  BY <1>4, <1>5 DEF Transposes
<1> HIDE DEF rows, columns, c, d, M, B
<1>10. SumFunctionOnSet(rows, B) = SumFunctionOnSet(columns, M)
  BY <1>2, <1>3, <1>8, <1>9, SumSwap
<1>11. Gathers(columns, HeldOf(b), M)
  BY <1>7 DEF Gathers
<1>12. Counted(HeldOf(b))
  BY HeldCounted
<1>13. SumFunctionOnSet(columns, M) = SumFunctionOnSet(HeldOf(b), Processes \X Belong(r, v))
  BY <1>1, <1>11, <1>12, CellSum
<1> QED BY <1>6, <1>10, <1>13 DEF B

\* A run that reports nothing gives every block at every state point the executions it
\* had there, over all processes.
THEOREM BlocksAlways == Spec => []BlocksExact
<1>1. ASSUME IInv PROVE BlocksExact
  <2> SUFFICES ASSUME Silent, AllEnded, Stable, NEW r \in Regions, OneNaming(r),
                      NEW v \in Points(r), NEW b \in Blocks
               PROVE  SumFunction([i \in IdsOf(b) |-> Summed(r, v, i)])
                        = SumFunction([k \in Belong(r, v) |-> ran[k][b]])
    BY DEF BlocksExact
  <2> DEFINE P == Belong(r, v)
             f == [k \in P |-> ran[k][b]]
  <2>1. P \in SUBSET Keys /\ IsFiniteSet(P)
    <3>1. P \in SUBSET Keys
      BY DEF Belong, KeysOf
    <3> QED BY <3>1, FiniteSums
  <2>2. SumFunction(f) = SumFunctionOnSet(f, P)
    BY DEF SumFunction
  <2>3. \A k \in P : f[k] = RanOf(b)[k]
    BY <2>1 DEF RanOf
  <2> HIDE DEF f, P
  <2>4. SumFunctionOnSet(f, P) = SumFunctionOnSet(RanOf(b), P)
    BY <2>1, <2>3, SumSame
  <2>5. Single
    BY <1>1, StableOnce DEF IInv
  <2>6. SumFunctionOnSet(HeldOf(b), Processes \X P) = SumFunctionOnSet(RanOf(b), P)
    BY <1>1, <2>1, <2>5 DEF IInv, BlockInv
  <2>7. SumFunction([i \in IdsOf(b) |-> Summed(r, v, i)]) = SumFunctionOnSet(HeldOf(b), Processes \X P)
    BY <1>1, SummedOf DEF P
  <2>8. SumFunction([i \in IdsOf(b) |-> Summed(r, v, i)]) = SumFunction(f)
    BY <2>2, <2>4, <2>6, <2>7
  <2> QED BY <2>8 DEF f, P
<1> QED BY <1>1, Invariance, PTL

-----------------------------------------------------------------------------
(***************************************************************************)
(* The report: the nearest symbol.                                         *)
(***************************************************************************)
\* The first k symbols in the order of their offsets.
SortsSymbols(g, symbols, k) ==
  /\ g \in [1..k -> 1..k] /\ \A i \in 1..k : \E j \in 1..k : g[j] = i
  /\ \A i, j \in 1..k : i < j => symbols[g[i]].start <= symbols[g[j]].start

\* One more symbol goes before the first that starts later.
LEMMA ArrangeOneMore ==
  ASSUME NEW k \in Nat, NEW symbols, \A i \in 1..(k + 1) : symbols[i].start \in Nat,
         NEW g, SortsSymbols(g, symbols, k)
  PROVE  \E h : SortsSymbols(h, symbols, k + 1)
<1>0. \A i \in 1..k : g[i] \in 1..(k + 1)
  <2>1. g \in [1..k -> 1..k]
    BY DEF SortsSymbols
  <2>2. \A i \in 1..k : g[i] \in 1..k
    BY ONLY <2>1
  <2> QED BY <2>2
<1> DEFINE x == k + 1
           later == {j \in 1..(k + 1) : j <= k => symbols[g[j]].start > symbols[x].start}
<1>1. PICK at \in later : \A j \in later : at <= j
  <2>1. later \subseteq Nat /\ k + 1 \in later
    OBVIOUS
  <2> HIDE DEF later
  <2> QED BY <2>1, LeastNat
<1> DEFINE h == [j \in 1..(k + 1) |-> IF j < at THEN g[j] ELSE IF j = at THEN x ELSE g[j - 1]]
<1>2. at \in 1..(k + 1) /\ \A j \in 1..(k + 1) : j < at => j \in 1..k /\ symbols[g[j]].start <= symbols[x].start
  <2>1. at \in 1..(k + 1) /\ at \in Nat
    OBVIOUS
  <2>2. ASSUME NEW j \in 1..(k + 1), j < at PROVE j \in 1..k /\ symbols[g[j]].start <= symbols[x].start
    <3>1. j \in 1..k /\ j \notin later
      BY <1>1, <2>1, <2>2
    <3>2. g[j] \in 1..(k + 1)
      BY <3>1 DEF SortsSymbols
    <3>3. symbols[g[j]].start \in Nat /\ symbols[x].start \in Nat
      BY <3>2
    <3> QED BY <3>1, <3>3
  <2> QED BY <2>1, <2>2
<1>3. \A j \in 1..(k + 1) : j > at => j - 1 \in 1..k /\ symbols[g[j - 1]].start > symbols[x].start
  <2> SUFFICES ASSUME NEW j \in 1..(k + 1), j > at
               PROVE  j - 1 \in 1..k /\ symbols[g[j - 1]].start > symbols[x].start
    OBVIOUS
  <2>1. j - 1 \in 1..k /\ j - 1 >= at /\ at \in 1..k
    BY <1>2
  <2>2. symbols[g[at]].start > symbols[x].start
    BY <1>1, <2>1
  <2>3. g[at] \in 1..(k + 1) /\ g[j - 1] \in 1..(k + 1)
    BY <1>0, <2>1
  <2>4. at < j - 1 => symbols[g[at]].start <= symbols[g[j - 1]].start
    BY <2>1 DEF SortsSymbols
  <2>5. symbols[g[at]].start \in Nat /\ symbols[g[j - 1]].start \in Nat /\ symbols[x].start \in Nat
    BY <2>3
  <2>6. at = j - 1 => symbols[g[at]].start = symbols[g[j - 1]].start
    OBVIOUS
  <2>7. symbols[g[at]].start <= symbols[g[j - 1]].start
    BY <2>1, <2>4, <2>5, <2>6
  <2> QED BY ONLY <2>1, <2>2, <2>5, <2>7
<1> HIDE DEF later
<1>4. /\ \A j \in 1..(k + 1) : j < at => h[j] = g[j] /\ j \in 1..k
      /\ h[at] = x /\ at \in 1..(k + 1)
      /\ \A j \in 1..(k + 1) : j > at => h[j] = g[j - 1] /\ j - 1 \in 1..k
  BY <1>2, <1>3
<1>5. h = [j \in 1..(k + 1) |-> h[j]]
  OBVIOUS
<1> HIDE DEF h
<1>6. ASSUME NEW j \in 1..(k + 1) PROVE h[j] \in 1..(k + 1)
  <2>2. j < at \/ j = at \/ j > at
    BY <1>4
  <2> QED BY <1>0, <1>4, <2>2
<1>7. ASSUME NEW i \in 1..(k + 1) PROVE \E j \in 1..(k + 1) : h[j] = i
  <2>1. CASE i = k + 1
    BY <1>4, <2>1
  <2>2. CASE i \in 1..k
    <3>1. PICK j \in 1..k : g[j] = i
      BY <2>2 DEF SortsSymbols
    <3>2. CASE j < at
      BY <1>4, <3>1, <3>2
    <3>3. CASE j >= at
      <4>1. j + 1 \in 1..(k + 1) /\ j + 1 > at /\ (j + 1) - 1 = j
        BY <1>4, <3>3
      <4> QED BY <1>4, <3>1, <4>1
    <3> QED BY <1>4, <3>2, <3>3
  <2> QED BY <2>1, <2>2
<1>8. ASSUME NEW i \in 1..(k + 1), NEW j \in 1..(k + 1), i < j
      PROVE  symbols[h[i]].start <= symbols[h[j]].start
  <2>1. symbols[h[i]].start \in Nat /\ symbols[h[j]].start \in Nat /\ symbols[x].start \in Nat
    BY <1>6
  <2>2. CASE j < at
    <3>1. h[i] = g[i] /\ h[j] = g[j] /\ i \in 1..k /\ j \in 1..k
      BY <1>4, <1>8, <2>2
    <3> QED BY <1>8, <3>1 DEF SortsSymbols
  <2>3. CASE j = at
    <3>1. h[j] = x /\ h[i] = g[i] /\ symbols[g[i]].start <= symbols[x].start
      BY <1>2, <1>4, <1>8, <2>3
    <3> QED BY <3>1
  <2>4. CASE j > at /\ i < at
    <3>1. h[j] = g[j - 1] /\ h[i] = g[i] /\ symbols[g[i]].start <= symbols[x].start /\ symbols[g[j - 1]].start > symbols[x].start
      BY <1>2, <1>3, <1>4, <2>4
    <3> QED BY <2>1, <3>1
  <2>5. CASE j > at /\ i = at
    <3>1. h[j] = g[j - 1] /\ h[i] = x /\ symbols[g[j - 1]].start > symbols[x].start
      BY <1>3, <1>4, <2>5
    <3> QED BY <2>1, <3>1
  <2>6. CASE j > at /\ i > at
    <3>1. h[j] = g[j - 1] /\ h[i] = g[i - 1] /\ i - 1 \in 1..k /\ j - 1 \in 1..k /\ i - 1 < j - 1
      BY <1>4, <1>8, <2>6
    <3> QED BY <3>1 DEF SortsSymbols
  <2> QED BY <1>4, <1>8, <2>2, <2>3, <2>4, <2>5, <2>6
<1>9. h \in [1..(k + 1) -> 1..(k + 1)]
  BY <1>5, <1>6
<1> QED BY <1>7, <1>8, <1>9 DEF SortsSymbols

\* A listing can be sorted, and Sorted does it.
SortOf(r, symbols) ==
  /\ r \in Seq(SymbolInfo) /\ Len(r) = Len(symbols)
  /\ \A i, j \in 1..Len(r) : i < j => r[i].start <= r[j].start
  /\ \A i \in 1..Len(r) : \E j \in 1..Len(symbols) : r[i] = symbols[j]
  /\ \A j \in 1..Len(symbols) : \E i \in 1..Len(r) : r[i] = symbols[j]
LEMMA SortedIs ==
  ASSUME NEW symbols \in Seq(SymbolInfo), NEW r, r = Sorted(symbols)
  PROVE  SortOf(r, symbols)
<1>1. PICK l \in Nat : l = Len(symbols)
  BY LenProperties
<1>2. \A i \in 1..l : symbols[i] \in SymbolInfo /\ symbols[i].start \in Nat
  <2>1. \A i \in 1..l : symbols[i] \in SymbolInfo
    BY <1>1, ElementOfSeq
  <2> QED BY <2>1 DEF SymbolInfo
<1> DEFINE Good == {k \in Nat : k <= l => \E g : SortsSymbols(g, symbols, k)}
<1>3. 0 \in Good
  <2> DEFINE none == [i \in 1..0 |-> i]
  <2>1. SortsSymbols(none, symbols, 0)
    BY DEF SortsSymbols
  <2> HIDE DEF none
  <2> QED BY <2>1
<1>4. ASSUME NEW k \in Nat, k \in Good PROVE k + 1 \in Good
  <2> SUFFICES ASSUME k + 1 <= l PROVE \E g : SortsSymbols(g, symbols, k + 1)
    OBVIOUS
  <2>1. PICK g : SortsSymbols(g, symbols, k)
    BY <1>4
  <2>2. \A i \in 1..(k + 1) : symbols[i].start \in Nat
    BY <1>2
  <2> QED BY <2>1, <2>2, ArrangeOneMore
<1>5. l \in Good
  <2> HIDE DEF Good
  <2> QED BY <1>3, <1>4, NumberInduction
<1>6. PICK g : SortsSymbols(g, symbols, l)
  <2>1. l <= l
    OBVIOUS
  <2> QED BY <1>5, <2>1
<1>7. g \in [1..l -> 1..l] /\ Sorts(g, symbols)
  <2>1. {g[i] : i \in 1..l} = 1..l
    BY <1>6 DEF SortsSymbols
  <2> QED BY <1>1, <1>6, <2>1 DEF SortsSymbols, Sorts
<1> DEFINE order == CHOOSE f \in [1..l -> 1..l] : Sorts(f, symbols)
<1>8. order \in [1..l -> 1..l] /\ Sorts(order, symbols)
  BY <1>7
<1>9. r = [i \in 1..l |-> symbols[order[i]]]
  BY <1>1 DEF Sorted
<1> HIDE DEF order
<1>10. r \in Seq(SymbolInfo) /\ Len(r) = l /\ \A i \in 1..l : r[i] = symbols[order[i]]
  <2>1. \A i \in 1..l : symbols[order[i]] \in SymbolInfo
    BY <1>2, <1>8
  <2>2. r \in [1..l -> SymbolInfo]
    BY <1>9, <2>1
  <2>3. \A i \in 1..l : r[i] = symbols[order[i]]
    BY <1>9
  <2>4. r \in Seq(SymbolInfo) /\ Len(r) = l
    BY ONLY <2>2, l \in Nat
  <2> QED BY <2>3, <2>4
<1>11. \A j \in 1..l : \E i \in 1..l : order[i] = j
  <2>1. {order[i] : i \in 1..l} = 1..l
    BY <1>1, <1>8 DEF Sorts
  <2> QED BY <2>1
<1>12. \A i, j \in 1..l : i < j => r[i].start <= r[j].start
  <2>1. \A i, j \in 1..l : i < j => symbols[order[i]].start <= symbols[order[j]].start
    BY <1>1, <1>8 DEF Sorts
  <2> QED BY <1>10, <2>1
<1>13. \A i \in 1..l : order[i] \in 1..l
  BY <1>8
<1>14. \A i \in 1..l : \E j \in 1..l : r[i] = symbols[j]
  BY <1>10, <1>13
<1>15. ASSUME NEW j \in 1..l PROVE \E i \in 1..l : r[i] = symbols[j]
  <2>1. PICK i \in 1..l : order[i] = j
    BY <1>11
  <2> QED BY <1>10, <2>1
<1>16. 1..Len(r) = 1..l /\ 1..Len(symbols) = 1..l
  BY ONLY <1>1, <1>10
<1>17. Len(r) = Len(symbols) /\ \A i, j \in 1..Len(r) : i < j => r[i].start <= r[j].start
  BY ONLY <1>1, <1>10, <1>12
<1>18. \A i \in 1..Len(r) : \E j \in 1..Len(symbols) : r[i] = symbols[j]
  BY ONLY <1>14, <1>16
<1>19. \A j \in 1..Len(symbols) : \E i \in 1..Len(r) : r[i] = symbols[j]
  BY ONLY <1>15, <1>16
<1> QED BY ONLY <1>10, <1>17, <1>18, <1>19 DEF SortOf

\* One round of the bisection of syms, and the function that the bisection takes.
Halve(syms, o, b) ==
  LET mid == (b[1] + b[2] + 1) \div 2
  IN  IF b[1] >= b[2] THEN b
      ELSE IF syms[mid].start <= o THEN <<mid, b[2]>> ELSE <<b[1], mid - 1>>
HalveFold(g, syms, o) ==
  g = [t \in SUBSET (DOMAIN [i \in 1..Len(syms) |-> i]) |->
         IF t = {} THEN <<1, Len(syms)>> ELSE Halve(syms, o, g[t \ {Max(t)}])]
LEMMA NearestUnfold ==
  ASSUME NEW n, NEW o, NEW syms, syms = ModSyms[n]
  PROVE  Nearest(n, o) =
           IF syms = <<>> \/ syms[1].start > o THEN NoSymbol
           ELSE syms[((CHOOSE g : HalveFold(g, syms, o))[DOMAIN [i \in 1..Len(syms) |-> i]])[1]]
BY DEF Nearest, FoldLeft, MapThenFoldSet, HalveFold, Halve

\* A round keeps the symbol sought between the bounds, and brings them closer.
Between(syms, o) ==
  {b \in (1..Len(syms)) \X (1..Len(syms)) :
     b[1] <= b[2] /\ syms[b[1]].start <= o /\ \A i \in 1..Len(syms) : i > b[2] => syms[i].start > o}
LEMMA HalveKeeps ==
  ASSUME NEW syms \in Seq(SymbolInfo), NEW o \in Nat, NEW b \in Between(syms, o),
         \A i, j \in 1..Len(syms) : i < j => syms[i].start <= syms[j].start,
         NEW c, c = Halve(syms, o, b)
  PROVE  /\ c \in Between(syms, o)
         /\ b[1] = b[2] => c = b
         /\ b[1] < b[2] => c[2] - c[1] < b[2] - b[1]
<1>1. PICK l \in Nat : l = Len(syms)
  BY LenProperties
<1>2. PICK lo \in 1..l, hi \in 1..l : b = <<lo, hi>>
  BY <1>1 DEF Between
<1>3. lo <= hi /\ syms[lo].start <= o /\ \A i \in 1..l : i > hi => syms[i].start > o
  BY <1>1, <1>2 DEF Between
<1>4. CASE lo = hi
  <2>1. c = b
    BY <1>2, <1>4 DEF Halve
  <2> QED BY <1>2, <1>4, <2>1
<1>5. CASE lo < hi
  <2>1. PICK mid \in 1..l : mid = (lo + hi + 1) \div 2 /\ lo < mid /\ mid <= hi
    BY <1>5
  <2>2. c = IF syms[mid].start <= o THEN <<mid, hi>> ELSE <<lo, mid - 1>>
    BY <1>2, <1>5, <2>1 DEF Halve
  <2>3. \A i \in 1..l : syms[i].start \in Nat
    <3>1. \A i \in 1..l : syms[i] \in SymbolInfo
      BY <1>1, ElementOfSeq
    <3> QED BY <3>1 DEF SymbolInfo
  <2>4. CASE syms[mid].start <= o
    <3>1. c = <<mid, hi>>
      BY <2>2, <2>4
    <3>2. c \in Between(syms, o)
      BY ONLY <1>1, <1>3, <2>1, <2>4, <3>1 DEF Between
    <3>3. c[2] - c[1] < b[2] - b[1] /\ b[1] # b[2]
      BY ONLY <1>2, <1>5, <2>1, <3>1
    <3> QED BY <3>2, <3>3
  <2>5. CASE ~(syms[mid].start <= o)
    <3>1. c = <<lo, mid - 1>> /\ mid - 1 \in 1..l /\ lo <= mid - 1
      BY <2>1, <2>2, <2>5
    <3>2. ASSUME NEW i \in 1..l, i > mid - 1 PROVE syms[i].start > o
      <4>1. i = mid \/ syms[mid].start <= syms[i].start
        BY <1>1, <2>1, <3>2
      <4>2. syms[mid].start > o
        BY <2>1, <2>3, <2>5
      <4>3. syms[mid].start \in Nat /\ syms[i].start \in Nat
        BY <2>1, <2>3
      <4> QED BY ONLY <4>1, <4>2, <4>3, o \in Nat
    <3>3. c \in Between(syms, o)
      BY ONLY <1>1, <1>3, <2>1, <3>1, <3>2 DEF Between
    <3>4. c[2] - c[1] < b[2] - b[1] /\ b[1] # b[2]
      BY ONLY <1>2, <1>5, <2>1, <3>1
    <3> QED BY <3>3, <3>4
  <2> QED BY <2>4, <2>5
<1> QED BY <1>3, <1>4, <1>5

\* The bisection finds the last symbol that starts at the offset or before it.
LEMMA BisectionFinds ==
  ASSUME NEW syms \in Seq(SymbolInfo), NEW o \in Nat, syms # <<>>, syms[1].start <= o,
         \A i, j \in 1..Len(syms) : i < j => syms[i].start <= syms[j].start,
         NEW b, b = (CHOOSE g : HalveFold(g, syms, o))[DOMAIN [i \in 1..Len(syms) |-> i]]
  PROVE  b \in Between(syms, o) /\ b[1] = b[2]
<1> DEFINE V == Between(syms, o)
<1>1. PICK l \in Nat : l = Len(syms) /\ l > 0
  BY LenProperties, EmptySeq
<1>2. <<1, l>> \in V
  BY <1>1 DEF Between
<1> DEFINE step == [q \in V \X (1..l) |-> Halve(syms, o, q[1])]
<1>3. \A v \in V, i \in 1..l : step[<<v, i>>] = Halve(syms, o, v)
  OBVIOUS
<1>4. Closed(V, step, l)
  <2>1. ASSUME NEW v \in V PROVE Halve(syms, o, v) \in V
    BY HalveKeeps
  <2> HIDE DEF V, step
  <2> QED BY <1>3, <2>1 DEF Closed
<1> HIDE DEF step
<1>5. \E g : HalveFold(g, syms, o)
  <2>1. PICK h : Table(h, V, <<1, l>>, step, l)
    <3> HIDE DEF V
    <3> QED BY <1>2, <1>4, TableExists
  <2>2. ASSUME NEW t \in SUBSET (1..l)
        PROVE  h[t] = IF t = {} THEN <<1, l>> ELSE Halve(syms, o, h[t \ {Max(t)}])
    <3> HIDE DEF V
    <3> QED BY <1>3, <2>1 DEF Table
  <2>3. h = [t \in SUBSET (1..l) |-> h[t]]
    BY <2>1 DEF Table
  <2>4. h = [t \in SUBSET (1..l) |-> IF t = {} THEN <<1, l>> ELSE Halve(syms, o, h[t \ {Max(t)}])]
    BY ONLY <2>2, <2>3
  <2>5. HalveFold(h, syms, o)
    BY <1>1, <2>4 DEF HalveFold
  <2> QED BY <2>5
<1>6. PICK g : HalveFold(g, syms, o) /\ b = g[1..l]
  BY <1>1, <1>5
<1>7. \A t \in SUBSET (1..l) : g[t] = IF t = {} THEN <<1, l>> ELSE Halve(syms, o, g[t \ {Max(t)}])
  BY <1>1, <1>6 DEF HalveFold
<1>8. g[{}] = <<1, l>>
  BY <1>7
<1>9. ASSUME NEW i \in 1..l PROVE g[1..i] = Halve(syms, o, g[1..(i - 1)])
  <2>1. Max(1..i) = i /\ (1..i) \ {i} = 1..(i - 1)
    BY LastOfAll
  <2>2. 1..i \in SUBSET (1..l) /\ 1..i # {}
    BY FirstOfAll
  <2> QED BY <1>7, <2>1, <2>2
<1> HIDE DEF V
<1>10. \A i \in 0..l : g[1..i] \in V
  <2>1. \A i \in 1..l : g[1..(i - 1)] \in V => g[1..i] = step[<<g[1..(i - 1)], i>>]
    BY <1>3, <1>9
  <2> QED BY ONLY <1>2, <1>4, <1>8, <2>1, l \in Nat, FoldRuns
<1> DEFINE Gap(i) == g[1..i][2] - g[1..i][1]
           Good == {i \in Nat : i <= l => g[1..i][1] = g[1..i][2] \/ Gap(i) + i < l}
<1>11. 0 \in Good
  <2>1. 1..0 = {}
    OBVIOUS
  <2> QED BY <1>1, <1>8, <2>1
<1>12. ASSUME NEW i \in Nat, i \in Good PROVE i + 1 \in Good
  <2> SUFFICES ASSUME i + 1 <= l
               PROVE  g[1..(i + 1)][1] = g[1..(i + 1)][2] \/ Gap(i + 1) + (i + 1) < l
    OBVIOUS
  <2>1. i + 1 \in 1..l /\ (i + 1) - 1 = i /\ i \in 0..l /\ i + 1 \in 0..l
    OBVIOUS
  <2>2. PICK v, w : v = g[1..i] /\ w = g[1..(i + 1)]
    OBVIOUS
  <2>3. w = Halve(syms, o, v) /\ v \in Between(syms, o) /\ w \in Between(syms, o)
    BY <1>9, <1>10, <2>1, <2>2 DEF V
  <2>4. /\ v[1] = v[2] => w = v
        /\ v[1] < v[2] => w[2] - w[1] < v[2] - v[1]
    BY <2>3, HalveKeeps
  <2>5. /\ v[1] \in 1..l /\ v[2] \in 1..l /\ v[1] <= v[2]
        /\ w[1] \in 1..l /\ w[2] \in 1..l /\ w[1] <= w[2]
    BY <1>1, <2>3 DEF Between
  <2>6. v[1] = v[2] \/ (v[2] - v[1]) + i < l
    BY <1>12, <2>1, <2>2
  <2>7. w[1] = w[2] \/ (w[2] - w[1]) + (i + 1) < l
    BY <2>4, <2>5, <2>6
  <2> QED BY <2>2, <2>7
<1>13. l \in Good
  <2> HIDE DEF Good
  <2> QED BY <1>11, <1>12, NumberInduction
<1>14. l <= l /\ l \in 0..l
  OBVIOUS
<1>15. b \in Between(syms, o)
  BY <1>6, <1>10, <1>14 DEF V
<1>16. b[1] \in 1..l /\ b[2] \in 1..l /\ b[1] <= b[2]
  BY <1>1, <1>15 DEF Between
<1>17. b[1] = b[2] \/ (b[2] - b[1]) + l < l
  BY <1>6, <1>13, <1>14
<1> QED BY <1>15, <1>16, <1>17

\* nearest_symbol gives the last symbol of the listing that starts at the offset or
\* before it, or none if all start after it.
LEMMA NearestIs ==
  ASSUME NEW n \in DOMAIN Listing, NEW list, list = Listing[n], list \in Seq(SymbolInfo),
         NEW o \in Nat, NEW r, r = Nearest(n, o)
  PROVE  \/ r = NoSymbol /\ \A i \in 1..Len(list) : list[i].start > o
         \/ /\ \E i \in 1..Len(list) : r = list[i] /\ list[i].start <= o
            /\ \A i \in 1..Len(list) : list[i].start <= o => list[i].start <= r.start
<1>1. PICK syms : syms = Sorted(list) /\ syms = ModSyms[n]
  BY DEF ModSyms
<1>2. /\ syms \in Seq(SymbolInfo) /\ Len(syms) = Len(list)
      /\ \A i, j \in 1..Len(syms) : i < j => syms[i].start <= syms[j].start
      /\ \A i \in 1..Len(syms) : \E j \in 1..Len(list) : syms[i] = list[j]
      /\ \A j \in 1..Len(list) : \E i \in 1..Len(syms) : syms[i] = list[j]
  <2>1. list \in Seq(SymbolInfo) /\ syms = Sorted(list)
    BY <1>1
  <2>2. SortOf(syms, list)
    BY <2>1, SortedIs
  <2> QED BY <2>2 DEF SortOf
<1>3. Len(syms) \in Nat /\ \A i \in 1..Len(syms) : syms[i].start \in Nat
  <2>1. \A i \in 1..Len(syms) : syms[i] \in SymbolInfo
    BY <1>2, ElementOfSeq
  <2> QED BY <1>2, <2>1, LenProperties DEF SymbolInfo
<1>4. CASE syms = <<>> \/ syms[1].start > o
  <2>1. r = NoSymbol
    BY <1>1, <1>4, NearestUnfold
  <2>2. ASSUME NEW i \in 1..Len(list) PROVE list[i].start > o
    <3>1. PICK j \in 1..Len(syms) : syms[j] = list[i]
      BY <1>2
    <3>2. syms # <<>> /\ 1 \in 1..Len(syms)
      BY <1>2, <1>3, EmptySeq
    <3>3. syms[1].start > o
      BY <1>4, <3>2
    <3>4. j = 1 \/ syms[1].start <= syms[j].start
      <4>1. \A c, d \in 1..Len(syms) : c < d => syms[c].start <= syms[d].start
        BY ONLY <1>2
      <4>2. j = 1 \/ 1 < j
        BY ONLY <1>3, j \in 1..Len(syms)
      <4> QED BY ONLY <3>2, <4>1, <4>2, j \in 1..Len(syms)
    <3> QED BY <1>3, <3>1, <3>2, <3>3, <3>4
  <2> QED BY <2>1, <2>2
<1>5. CASE ~(syms = <<>> \/ syms[1].start > o)
  <2>1. PICK b : b = (CHOOSE g : HalveFold(g, syms, o))[DOMAIN [i \in 1..Len(syms) |-> i]]
    OBVIOUS
  <2>2. r = syms[b[1]]
    BY <1>1, <1>5, <2>1, NearestUnfold
  <2>3. syms # <<>> /\ 1 \in 1..Len(syms)
    BY <1>2, <1>3, <1>5, EmptySeq
  <2>4. syms[1].start <= o
    BY <1>3, <1>5, <2>3
  <2>5. b \in Between(syms, o) /\ b[1] = b[2]
    BY ONLY <1>2, <2>1, <2>3, <2>4, o \in Nat, BisectionFinds
  <2>6. PICK lo \in 1..Len(syms) : lo = b[1] /\ r = syms[lo] /\ syms[lo].start <= o
                                   /\ \A i \in 1..Len(syms) : i > lo => syms[i].start > o
    <3>1. PICK lo : lo = b[1]
      OBVIOUS
    <3>2. lo \in 1..Len(syms) /\ syms[lo].start <= o /\ \A i \in 1..Len(syms) : i > lo => syms[i].start > o
      BY ONLY <2>5, <3>1 DEF Between
    <3>3. r = syms[lo]
      BY <2>2, <3>1
    <3> QED BY ONLY <3>1, <3>2, <3>3
  <2>7. \E i \in 1..Len(list) : r = list[i] /\ list[i].start <= o
    <3>1. PICK i \in 1..Len(list) : syms[lo] = list[i]
      BY <1>2, <2>6
    <3>2. r = list[i] /\ list[i].start <= o
      BY <2>6, <3>1
    <3> QED BY <3>2
  <2>8. ASSUME NEW i \in 1..Len(list), list[i].start <= o PROVE list[i].start <= r.start
    <3>1. PICK j \in 1..Len(syms) : syms[j] = list[i]
      BY <1>2
    <3>2. syms[j].start \in Nat /\ ~(j > lo)
      BY <1>3, <2>6, <2>8, <3>1
    <3>3. \A c, d \in 1..Len(syms) : c < d => syms[c].start <= syms[d].start
      BY ONLY <1>2
    <3>4. j = lo \/ j < lo
      BY ONLY <1>3, <3>2, j \in 1..Len(syms), lo \in 1..Len(syms)
    <3>5. j = lo \/ syms[j].start <= syms[lo].start
      BY ONLY <3>3, <3>4, j \in 1..Len(syms), lo \in 1..Len(syms)
    <3>6. syms[j].start <= syms[lo].start
      BY ONLY <1>3, <3>5, j \in 1..Len(syms)
    <3> QED BY ONLY <2>6, <3>1, <3>6
  <2> QED BY <2>7, <2>8
<1> QED BY <1>4, <1>5

-----------------------------------------------------------------------------
(***************************************************************************)
(* The report: the loops that give slots their symbols.                    *)
(***************************************************************************)
\* The symbol table as write_key leaves it: an entry per symbol, and the slots that have
\* one have that of their own symbol.
SymbolOf(p, s) == KeyOf(Described(p, s))
Tables(p) ==
  {a \in [syms : Seq({Described(p, s) : s \in 1..Len(slots[p])}), of : [1..Len(slots[p]) -> Nat]] :
     /\ \A i, j \in 1..Len(a.syms) : KeyOf(a.syms[i]) = KeyOf(a.syms[j]) => i = j
     /\ \A s \in 1..Len(slots[p]) : a.of[s] # 0 =>
          a.of[s] \in 1..Len(a.syms) /\ KeyOf(a.syms[a.of[s]]) = SymbolOf(p, s)}
\* A slot keeps an entry once it has one.
More(p, a, b) == \A s \in 1..Len(slots[p]) : a.of[s] # 0 => b.of[s] # 0

\* Asking keeps the table one, and gives a listed slot an entry.
LEMMA AskKeeps ==
  ASSUME TypeOK, NEW p \in Processes, NEW k, NEW s \in 1..Len(slots[p]), NEW a \in Tables(p),
         NEW b, b = Ask(p, k, s, a)
  PROVE  b \in Tables(p) /\ More(p, a, b) /\ (s \in Listed(p, k) => b.of[s] # 0)
<1> DEFINE D == {Described(p, u) : u \in 1..Len(slots[p])}
           e == Described(p, s)
           known == {i \in 1..Len(a.syms) : KeyOf(a.syms[i]) = KeyOf(e)}
           n == IF known # {} THEN CHOOSE i \in known : TRUE ELSE Len(a.syms) + 1
           syms == IF known # {} THEN a.syms ELSE Append(a.syms, e)
           of == [a.of EXCEPT ![s] = n]
<1>1. a.syms \in Seq(D) /\ Len(a.syms) \in Nat /\ a.of \in [1..Len(slots[p]) -> Nat]
  BY DEF Tables
<1>2. /\ \A i, j \in 1..Len(a.syms) : KeyOf(a.syms[i]) = KeyOf(a.syms[j]) => i = j
      /\ \A u \in 1..Len(slots[p]) : a.of[u] # 0 =>
           a.of[u] \in 1..Len(a.syms) /\ KeyOf(a.syms[a.of[u]]) = SymbolOf(p, u)
  BY DEF Tables
<1>3. e \in D /\ KeyOf(e) = SymbolOf(p, s)
  BY DEF SymbolOf
<1>4. b = IF s \notin Listed(p, k) \/ a.of[s] # 0 THEN a ELSE [syms |-> syms, of |-> of]
  BY DEF Ask
<1>5. CASE s \notin Listed(p, k) \/ a.of[s] # 0
  <2>1. b = a
    BY <1>4, <1>5
  <2> QED BY <2>1, <1>5 DEF More
<1>6. CASE ~(s \notin Listed(p, k) \/ a.of[s] # 0)
  <2>1. b = [syms |-> syms, of |-> of]
    BY ONLY <1>4, <1>6
  <2>2. /\ syms \in Seq(D) /\ Len(syms) \in Nat /\ Len(a.syms) <= Len(syms)
        /\ n \in 1..Len(syms) /\ KeyOf(syms[n]) = KeyOf(e)
        /\ \A i \in 1..Len(a.syms) : syms[i] = a.syms[i]
        /\ \A i, j \in 1..Len(syms) : KeyOf(syms[i]) = KeyOf(syms[j]) => i = j
    <3>1. CASE known # {}
      <4>1. n \in known /\ syms = a.syms
        BY <3>1
      <4> HIDE DEF n, syms
      <4> QED BY <4>1, <1>1, <1>2
    <3>2. CASE known = {}
      <4>1. n = Len(a.syms) + 1 /\ syms = Append(a.syms, e)
        BY <3>2
      <4>2. /\ syms \in Seq(D) /\ Len(syms) = Len(a.syms) + 1 /\ syms[Len(a.syms) + 1] = e
            /\ \A i \in 1..Len(a.syms) : syms[i] = a.syms[i]
        <5> HIDE DEF D, e, n, syms, known
        <5>1. PICK seq : seq = a.syms
          OBVIOUS
        <5> QED BY ONLY <4>1, <1>1, <1>3, <5>1, AppendProperties
      <4>3. \A i \in 1..Len(a.syms) : KeyOf(a.syms[i]) # KeyOf(e)
        BY <3>2
      <4> HIDE DEF n, syms, known, e, D
      <4>4. ASSUME NEW i \in 1..Len(syms), NEW j \in 1..Len(syms), KeyOf(syms[i]) = KeyOf(syms[j]) PROVE i = j
        <5>1. (i \in 1..Len(a.syms) \/ i = Len(a.syms) + 1) /\ (j \in 1..Len(a.syms) \/ j = Len(a.syms) + 1)
          BY <1>1, <4>2
        <5> QED BY <1>2, <4>2, <4>3, <4>4, <5>1
      <4> QED BY <1>1, <4>1, <4>2, <4>4
    <3> QED BY <3>1, <3>2
  <2> HIDE DEF n, syms, known, e, D
  <2>3. of \in [1..Len(slots[p]) -> Nat] /\ of[s] = n /\ \A u \in 1..Len(slots[p]) : u # s => of[u] = a.of[u]
    BY <1>1, <2>2
  <2> HIDE DEF of
  <2>4. ASSUME NEW u \in 1..Len(slots[p]), of[u] # 0
        PROVE  of[u] \in 1..Len(syms) /\ KeyOf(syms[of[u]]) = SymbolOf(p, u)
    <3>1. CASE u = s
      BY <1>3, <2>2, <2>3, <3>1
    <3>2. CASE u # s
      <4>1. of[u] = a.of[u] /\ a.of[u] \in 1..Len(a.syms) /\ KeyOf(a.syms[a.of[u]]) = SymbolOf(p, u)
        BY <1>2, <2>3, <2>4, <3>2
      <4>2. syms[of[u]] = a.syms[of[u]] /\ of[u] \in 1..Len(syms)
        BY <1>1, <2>2, <4>1
      <4> QED BY <4>1, <4>2
    <3> QED BY <3>1, <3>2
  <2>5. b \in Tables(p)
    <3>1. b \in [syms : Seq(D), of : [1..Len(slots[p]) -> Nat]] /\ b.syms = syms /\ b.of = of
      BY <2>1, <2>2, <2>3
    <3> QED BY <2>2, <2>4, <3>1 DEF Tables, D
  <2>6. b.of[s] # 0 /\ More(p, a, b)
    <3>1. b.of = of
      BY <2>1
    <3> QED BY <2>2, <2>3, <3>1 DEF More
  <2> QED BY <2>5, <2>6
<1> QED BY <1>5, <1>6

\* The function that the loop over the slots of a key takes.
AskFold(g, p, k, acc) ==
  g = [t \in SUBSET (DOMAIN [s \in 1..Len(slots[p]) |-> s]) |->
         IF t = {} THEN acc
         ELSE Ask(p, k, [s \in 1..Len(slots[p]) |-> s][Max(t)], g[t \ {Max(t)}])]
LEMMA AskUnfold ==
  ASSUME NEW p, NEW k, NEW acc
  PROVE  AskAll(p, k, acc)
           = (CHOOSE g : AskFold(g, p, k, acc))[DOMAIN [s \in 1..Len(slots[p]) |-> s]]
BY DEF AskAll, FoldLeft, MapThenFoldSet, AskFold

\* After that loop every slot the key lists has an entry.
LEMMA AskAllKeeps ==
  ASSUME TypeOK, NEW p \in Processes, NEW k, NEW a \in Tables(p), NEW b, b = AskAll(p, k, a)
  PROVE  b \in Tables(p) /\ More(p, a, b) /\ \A s \in Listed(p, k) : b.of[s] # 0
<1> DEFINE V == Tables(p)
<1>1. PICK l \in Nat : l = Len(slots[p])
  BY ProcessTypes, BoundsAssumption
<1> DEFINE step == [q \in V \X (1..l) |-> Ask(p, k, q[2], q[1])]
<1>2. \A v \in V, s \in 1..l : step[<<v, s>>] = Ask(p, k, s, v)
  OBVIOUS
<1>3. Closed(V, step, l)
  <2>1. ASSUME NEW v \in V, NEW s \in 1..l PROVE Ask(p, k, s, v) \in V
    <3>1. v \in Tables(p) /\ s \in 1..Len(slots[p])
      BY <1>1
    <3> QED BY <3>1, AskKeeps
  <2> HIDE DEF V, step
  <2> QED BY <1>2, <2>1 DEF Closed
<1> HIDE DEF step
<1>4. \E g : AskFold(g, p, k, a)
  <2>1. PICK h : Table(h, V, a, step, l)
    <3>1. a \in V
      OBVIOUS
    <3> HIDE DEF V
    <3> QED BY <1>3, <3>1, TableExists
  <2>2. ASSUME NEW t \in SUBSET (1..l)
        PROVE  h[t] = IF t = {} THEN a ELSE Ask(p, k, [s \in 1..l |-> s][Max(t)], h[t \ {Max(t)}])
    <3> HIDE DEF V
    <3> QED BY <1>2, <2>1 DEF Table
  <2>3. h = [t \in SUBSET (1..l) |-> h[t]]
    BY <2>1 DEF Table
  <2>4. h = [t \in SUBSET (1..l) |-> IF t = {} THEN a ELSE Ask(p, k, [s \in 1..l |-> s][Max(t)], h[t \ {Max(t)}])]
    BY ONLY <2>2, <2>3
  <2>5. AskFold(h, p, k, a)
    BY <1>1, <2>4 DEF AskFold
  <2> QED BY <2>5
<1>5. PICK g : AskFold(g, p, k, a) /\ b = g[1..l]
  BY <1>1, <1>4, AskUnfold
<1>6. \A t \in SUBSET (1..l) : g[t] = IF t = {} THEN a ELSE Ask(p, k, [s \in 1..l |-> s][Max(t)], g[t \ {Max(t)}])
  BY <1>1, <1>5 DEF AskFold
<1>7. g[{}] = a
  BY <1>6
<1>8. ASSUME NEW s \in 1..l PROVE g[1..s] = Ask(p, k, s, g[1..(s - 1)])
  <2>1. Max(1..s) = s /\ (1..s) \ {s} = 1..(s - 1)
    BY LastOfAll
  <2>2. 1..s \in SUBSET (1..l) /\ 1..s # {}
    BY FirstOfAll
  <2> QED BY <1>6, <2>1, <2>2
<1> HIDE DEF V
<1>9. \A s \in 0..l : g[1..s] \in V
  <2>1. a \in V
    BY DEF V
  <2>2. \A s \in 1..l : g[1..(s - 1)] \in V => g[1..s] = step[<<g[1..(s - 1)], s>>]
    BY <1>2, <1>8
  <2> QED BY <1>3, <1>7, <2>1, <2>2, FoldRuns
<1> DEFINE Good == {s \in Nat : s <= l => /\ More(p, a, g[1..s])
                                         /\ \A u \in Listed(p, k) : u <= s => g[1..s].of[u] # 0}
<1>10. 0 \in Good
  <2>1. 1..0 = {}
    OBVIOUS
  <2>2. \A u \in Listed(p, k) : ~(u <= 0)
    BY <1>1 DEF Listed
  <2> QED BY <1>7, <2>1, <2>2 DEF More
<1>11. ASSUME NEW s \in Nat, s \in Good PROVE s + 1 \in Good
  <2> SUFFICES ASSUME s + 1 <= l
               PROVE  /\ More(p, a, g[1..(s + 1)])
                      /\ \A u \in Listed(p, k) : u <= s + 1 => g[1..(s + 1)].of[u] # 0
    OBVIOUS
  <2>1. s + 1 \in 1..l /\ (s + 1) - 1 = s /\ s \in 0..l
    OBVIOUS
  <2>2. g[1..(s + 1)] = Ask(p, k, s + 1, g[1..s]) /\ g[1..s] \in Tables(p)
    BY <1>8, <1>9, <2>1 DEF V
  <2>3. More(p, g[1..s], g[1..(s + 1)]) /\ (s + 1 \in Listed(p, k) => g[1..(s + 1)].of[s + 1] # 0)
    BY <1>1, <2>1, <2>2, AskKeeps
  <2>4. More(p, a, g[1..s]) /\ \A u \in Listed(p, k) : u <= s => g[1..s].of[u] # 0
    BY <1>11
  <2>5. \A u \in Listed(p, k) : u \in 1..Len(slots[p]) /\ (u <= s + 1 => u <= s \/ u = s + 1)
    BY <1>1 DEF Listed
  <2> QED BY <2>3, <2>4, <2>5 DEF More
<1>12. l \in Good
  <2> HIDE DEF Good
  <2> QED BY <1>10, <1>11, NumberInduction
<1>13. l <= l /\ l \in 0..l
  OBVIOUS
<1>14. \A u \in Listed(p, k) : u <= l
  BY <1>1 DEF Listed
<1> QED BY <1>5, <1>9, <1>12, <1>13, <1>14 DEF V

\* The function that the loop over the keys takes.
NoSymbols(p) == [syms |-> <<>>, of |-> [s \in 1..Len(slots[p]) |-> 0]]
KeyFold(g, p) ==
  g = [t \in SUBSET (DOMAIN [i \in 1..Len(keys[p]) |-> i]) |->
         IF t = {} THEN NoSymbols(p)
         ELSE AskAll(p, keys[p][[i \in 1..Len(keys[p]) |-> i][Max(t)]], g[t \ {Max(t)}])]
LEMMA SymbolizeUnfold ==
  ASSUME NEW p
  PROVE  Symbolize(p) = (CHOOSE g : KeyFold(g, p))[DOMAIN [i \in 1..Len(keys[p]) |-> i]]
BY DEF Symbolize, FoldLeft, MapThenFoldSet, KeyFold, NoSymbols

\* In the end every slot that some key lists has an entry.
LEMMA SymbolizeIs ==
  ASSUME TypeOK, NEW p \in Processes, NEW b, b = Symbolize(p)
  PROVE  /\ b \in Tables(p)
         /\ \A i \in 1..Len(keys[p]) : \A s \in Listed(p, keys[p][i]) : b.of[s] # 0
<1> DEFINE V == Tables(p)
           a == NoSymbols(p)
<1>1. PICK l \in Nat : l = Len(keys[p])
  BY ProcessTypes, LenProperties
<1>2. a \in V
  <2>1. <<>> \in Seq({Described(p, s) : s \in 1..Len(slots[p])}) /\ Len(<<>>) = 0
    BY EmptySeq
  <2>2. \A s \in 1..Len(slots[p]) : a.of[s] = 0
    BY DEF NoSymbols
  <2>3. a.syms = <<>> /\ a \in [syms : Seq({Described(p, s) : s \in 1..Len(slots[p])}), of : [1..Len(slots[p]) -> Nat]]
    BY <2>1 DEF NoSymbols
  <2>4. \A i \in 1..Len(a.syms) : FALSE
    BY <2>1, <2>3
  <2> HIDE DEF a
  <2> QED BY <2>2, <2>3, <2>4 DEF Tables
<1> DEFINE step == [q \in V \X (1..l) |-> AskAll(p, keys[p][q[2]], q[1])]
<1>3. \A v \in V, i \in 1..l : step[<<v, i>>] = AskAll(p, keys[p][i], v)
  OBVIOUS
<1>4. Closed(V, step, l)
  <2>1. ASSUME NEW v \in V, NEW i \in 1..l PROVE AskAll(p, keys[p][i], v) \in V
    BY AskAllKeeps
  <2> HIDE DEF V, step
  <2> QED BY <1>3, <2>1 DEF Closed
<1> HIDE DEF step, a
<1>5. \E g : KeyFold(g, p)
  <2>1. PICK h : Table(h, V, a, step, l)
    <3> HIDE DEF V
    <3> QED BY <1>2, <1>4, TableExists
  <2>2. ASSUME NEW t \in SUBSET (1..l)
        PROVE  h[t] = IF t = {} THEN a ELSE AskAll(p, keys[p][[i \in 1..l |-> i][Max(t)]], h[t \ {Max(t)}])
    <3> HIDE DEF V
    <3> QED BY <1>3, <2>1 DEF Table
  <2>3. h = [t \in SUBSET (1..l) |-> h[t]]
    BY <2>1 DEF Table
  <2>4. h = [t \in SUBSET (1..l) |->
               IF t = {} THEN a ELSE AskAll(p, keys[p][[i \in 1..l |-> i][Max(t)]], h[t \ {Max(t)}])]
    BY ONLY <2>2, <2>3
  <2>5. KeyFold(h, p)
    BY <1>1, <2>4 DEF KeyFold, a
  <2> QED BY <2>5
<1>6. PICK g : KeyFold(g, p) /\ b = g[1..l]
  BY <1>1, <1>5, SymbolizeUnfold
<1>7. \A t \in SUBSET (1..l) : g[t] = IF t = {} THEN a ELSE AskAll(p, keys[p][[i \in 1..l |-> i][Max(t)]], g[t \ {Max(t)}])
  BY <1>1, <1>6 DEF KeyFold, a
<1>8. g[{}] = a
  BY <1>7
<1>9. ASSUME NEW i \in 1..l PROVE g[1..i] = AskAll(p, keys[p][i], g[1..(i - 1)])
  <2>1. Max(1..i) = i /\ (1..i) \ {i} = 1..(i - 1)
    BY LastOfAll
  <2>2. 1..i \in SUBSET (1..l) /\ 1..i # {}
    BY FirstOfAll
  <2> QED BY <1>7, <2>1, <2>2
<1> HIDE DEF V
<1>10. \A i \in 0..l : g[1..i] \in V
  <2>1. \A i \in 1..l : g[1..(i - 1)] \in V => g[1..i] = step[<<g[1..(i - 1)], i>>]
    BY <1>3, <1>9
  <2> QED BY ONLY <1>2, <1>4, <1>8, <2>1, l \in Nat, FoldRuns
<1> DEFINE Good == {i \in Nat : i <= l =>
                      \A j \in 1..i : \A s \in Listed(p, keys[p][j]) : g[1..i].of[s] # 0}
<1>11. 0 \in Good
  OBVIOUS
<1>12. ASSUME NEW i \in Nat, i \in Good PROVE i + 1 \in Good
  <2> SUFFICES ASSUME i + 1 <= l, NEW j \in 1..(i + 1), NEW s \in Listed(p, keys[p][j])
               PROVE  g[1..(i + 1)].of[s] # 0
    OBVIOUS
  <2>1. i + 1 \in 1..l /\ (i + 1) - 1 = i /\ i \in 0..l
    OBVIOUS
  <2>2. g[1..(i + 1)] = AskAll(p, keys[p][i + 1], g[1..i]) /\ g[1..i] \in Tables(p)
    BY <1>9, <1>10, <2>1 DEF V
  <2>3. More(p, g[1..i], g[1..(i + 1)]) /\ \A u \in Listed(p, keys[p][i + 1]) : g[1..(i + 1)].of[u] # 0
    BY <2>2, AskAllKeeps
  <2>4. j \in 1..i => g[1..i].of[s] # 0
    BY <1>12
  <2>5. s \in 1..Len(slots[p]) /\ (j \in 1..i \/ j = i + 1)
    BY DEF Listed
  <2> QED BY <2>3, <2>4, <2>5 DEF More
<1>13. l \in Good
  <2> HIDE DEF Good
  <2> QED BY <1>11, <1>12, NumberInduction
<1>14. l <= l /\ l \in 0..l
  OBVIOUS
<1> QED BY <1>1, <1>6, <1>10, <1>13, <1>14 DEF V

-----------------------------------------------------------------------------
(***************************************************************************)
(* The report: sums per symbol.                                            *)
(***************************************************************************)
\* The key of a slot's own symbol, and the function the slot lies in.
Placed(k, h, place, start) ==
  k = <<place, start, <<>>>> /\ h = <<place, start>> /\ place \in Places /\ start \in Nat \ {0}
Sure == FALSE
NoSymbolName == <<"<no symbol>", Sure>>
NoModuleName == <<"<no module>", Sure>>
Unnamed(k, h, place) ==
  k = <<place, 0, NoSymbolName>> /\ h = <<place, -1>> /\ place \in Places
Homeless(k, h) == k = <<NoPlace, 0, NoModuleName>> /\ h = <<NoPlace, 0>>
Kinds(k, h) ==
  \/ \E place, start : Placed(k, h, place, start)
  \/ \E place : Unnamed(k, h, place)
  \/ Homeless(k, h)

\* The key of an entry with no start, and with one.
LEMMA UnnamedKey ==
  ASSUME NEW mod, NEW name, NEW unsure
  PROVE  KeyOf(Entry(mod, 0, name, unsure)) = <<mod, 0, <<name, unsure>>>>
BY DEF Entry, KeyOf
LEMMA PlacedKey ==
  ASSUME NEW mod, NEW start, start # 0, NEW name, NEW unsure
  PROVE  KeyOf(Entry(mod, start, name, unsure)) = <<mod, start, <<>>>>
BY DEF Entry, KeyOf

\* What a slot of a module at a place gets from the debug information.
LEMMA DescribedKinds ==
  ASSUME IInv, NEW p \in Processes, NEW s \in 1..Len(slots[p])
  PROVE  Kinds(SymbolOf(p, s), Home(p, s))
<1> DEFINE at == slots[p][s]
           mod == modules[p][at.mod]
           o == at.pc[2]
           info == Located[mod][o]
           list == Listing[mod]
           near == Nearest(mod, o)
           before == {i \in 1..Len(list) : list[i].start <= o}
<1>1. TypeOK
  BY DEF IInv
<1>2. at.mod \in Places \cup {NoPlace} /\ o \in Offsets /\ o \in Nat
  BY <1>1, SlotFields, DebugAssumption
<1>3. CASE at.mod = NoPlace
  <2>1. Described(p, s) = Entry(NoPlace, 0, "<no module>", Sure)
    BY <1>3 DEF Described, Sure
  <2>2. SymbolOf(p, s) = <<NoPlace, 0, NoModuleName>>
    BY <2>1, UnnamedKey DEF SymbolOf, NoModuleName
  <2>3. Home(p, s) = <<NoPlace, 0>>
    BY <1>3 DEF Home
  <2> QED BY <2>2, <2>3 DEF Kinds, Homeless
<1>4. CASE at.mod # NoPlace
  <2>1. at.mod \in Places /\ mod # NoName
    <3>1. at.mod = at.pc[1] /\ modules[p][at.pc[1]] # NoName
      BY <1>4 DEF IInv, HomeInv
    <3> QED BY <1>2, <1>4, <3>1
  <2>2. PICK f \in Files \ Generated : mod = NameOf[f]
    <3>1. placed[p][at.mod] \in SUBSET Files
      BY <1>1, <2>1, ProcessTypes
    <3>2. \E f \in placed[p][at.mod] \ Generated : mod = NameOf[f]
      BY <2>1 DEF IInv, ModuleInv
    <3> QED BY <3>1, <3>2
  <2>3. info \in SymbolInfo \cup {NoSymbol} /\ mod \in DOMAIN Listing /\ list \in Seq(SymbolInfo)
    BY <1>2, <2>2, DebugAssumption
  <2> HIDE DEF o, info, list, near, mod
  <2>4. Described(p, s) = IF info # NoSymbol
                          THEN Entry(at.mod, info.start, info.name, info.end > info.start /\ o >= info.end)
                          ELSE IF near # NoSymbol THEN Entry(at.mod, near.start, near.name, TRUE)
                          ELSE Entry(at.mod, 0, "<no symbol>", Sure)
    BY <1>4 DEF Described, o, info, near, mod, Sure
  <2>5. Home(p, s) = <<at.mod, IF info # NoSymbol THEN info.start
                               ELSE IF before = {} THEN -1 ELSE Max({list[i].start : i \in before})>>
    BY <1>4 DEF Home, o, info, list, mod
  <2>6. ASSUME NEW start \in Nat \ {0}, NEW name, NEW unsure,
               Described(p, s) = Entry(at.mod, start, name, unsure), Home(p, s) = <<at.mod, start>>
        PROVE  Placed(SymbolOf(p, s), Home(p, s), at.mod, start)
    <3>1. SymbolOf(p, s) = <<at.mod, start, <<>>>>
      BY <2>6, PlacedKey DEF SymbolOf
    <3> QED BY <2>1, <2>6, <3>1 DEF Placed
  <2>7. CASE info # NoSymbol
    <3>1. info.start \in Nat \ {0}
      BY <2>3, <2>7 DEF SymbolInfo
    <3>2. Described(p, s) = Entry(at.mod, info.start, info.name, info.end > info.start /\ o >= info.end)
          /\ Home(p, s) = <<at.mod, info.start>>
      BY <2>4, <2>5, <2>7
    <3> QED BY <2>6, <3>1, <3>2 DEF Kinds
  <2>8. CASE info = NoSymbol
    <3>1. \A i \in 1..Len(list) : list[i] \in SymbolInfo /\ list[i].start \in Nat \ {0} /\ list[i] # NoSymbol
      <4>1. \A i \in 1..Len(list) : list[i] \in SymbolInfo
        BY <2>3, ElementOfSeq
      <4> QED BY <4>1, DebugAssumption DEF SymbolInfo
    <3>2. \/ near = NoSymbol /\ \A i \in 1..Len(list) : list[i].start > o
          \/ /\ \E i \in 1..Len(list) : near = list[i] /\ list[i].start <= o
             /\ \A i \in 1..Len(list) : list[i].start <= o => list[i].start <= near.start
      <4>1. o \in Nat /\ list = Listing[mod] /\ near = Nearest(mod, o)
        BY <1>2 DEF o, list, near
      <4> QED BY ONLY <2>3, <4>1, NearestIs
    <3>3. CASE near = NoSymbol /\ \A i \in 1..Len(list) : list[i].start > o
      <4>1. before = {}
        BY <1>2, <3>1, <3>3 DEF o
      <4>2. Home(p, s) = <<at.mod, -1>> /\ Described(p, s) = Entry(at.mod, 0, "<no symbol>", Sure)
        BY <2>4, <2>5, <2>8, <3>3, <4>1
      <4>3. SymbolOf(p, s) = <<at.mod, 0, NoSymbolName>>
        BY <4>2, UnnamedKey DEF SymbolOf, NoSymbolName
      <4> QED BY <2>1, <4>2, <4>3 DEF Kinds, Unnamed
    <3>4. CASE /\ \E i \in 1..Len(list) : near = list[i] /\ list[i].start <= o
               /\ \A i \in 1..Len(list) : list[i].start <= o => list[i].start <= near.start
      <4>1. PICK i \in 1..Len(list) : near = list[i] /\ list[i].start <= o
        BY <3>4
      <4>2. near # NoSymbol /\ near.start \in Nat \ {0} /\ i \in before
        BY <3>1, <4>1
      <4>3. PICK starts : starts = {list[j].start : j \in before}
        OBVIOUS
      <4>4. near.start \in starts /\ (\A x \in starts : near.start >= x) /\ \A x \in starts : x \in Nat
        BY <3>1, <3>4, <4>1, <4>2, <4>3
      <4>5. Max(starts) = near.start
        <5>1. \A x \in starts : (\A y \in starts : x >= y) => x = near.start
          BY <4>2, <4>4
        <5> QED BY <4>4, <5>1 DEF Max
      <4>6. Home(p, s) = <<at.mod, near.start>> /\ Described(p, s) = Entry(at.mod, near.start, near.name, TRUE)
        BY <2>4, <2>5, <2>8, <4>2, <4>3, <4>5
      <4> QED BY <2>6, <4>2, <4>6 DEF Kinds
    <3> QED BY <3>2, <3>3, <3>4
  <2> QED BY <2>7, <2>8
<1> QED BY <1>3, <1>4

\* Two slots have one symbol if they lie in one function.
LEMMA SymbolHome ==
  ASSUME NEW k, NEW h, Kinds(k, h), NEW l, NEW i, Kinds(l, i)
  PROVE  k = l <=> h = i
<1>1. NoPlace \notin Places
  BY NamesAssumption
<1>2. ASSUME NEW x, NEW y, Placed(k, h, x, y) PROVE k = l <=> h = i
  <2>1. ASSUME NEW z, NEW w, Placed(l, i, z, w) PROVE k = l <=> h = i
    BY <1>2, <2>1 DEF Placed
  <2>2. ASSUME NEW z, Unnamed(l, i, z) PROVE k = l <=> h = i
    BY <1>2, <2>2 DEF Placed, Unnamed
  <2>3. CASE Homeless(l, i)
    BY <1>1, <1>2, <2>3 DEF Placed, Homeless
  <2> QED BY <2>1, <2>2, <2>3 DEF Kinds
<1>3. ASSUME NEW x, Unnamed(k, h, x) PROVE k = l <=> h = i
  <2>1. ASSUME NEW z, NEW w, Placed(l, i, z, w) PROVE k = l <=> h = i
    BY <1>3, <2>1 DEF Placed, Unnamed
  <2>2. ASSUME NEW z, Unnamed(l, i, z) PROVE k = l <=> h = i
    BY <1>3, <2>2 DEF Unnamed
  <2>3. CASE Homeless(l, i)
    BY <1>1, <1>3, <2>3 DEF Unnamed, Homeless
  <2> QED BY <2>1, <2>2, <2>3 DEF Kinds
<1>4. CASE Homeless(k, h)
  <2>1. ASSUME NEW z, NEW w, Placed(l, i, z, w) PROVE k = l <=> h = i
    BY <1>1, <1>4, <2>1 DEF Placed, Homeless
  <2>2. ASSUME NEW z, Unnamed(l, i, z) PROVE k = l <=> h = i
    BY <1>1, <1>4, <2>2 DEF Unnamed, Homeless
  <2>3. CASE Homeless(l, i)
    BY <1>4, <2>3 DEF Homeless
  <2> QED BY <2>1, <2>2, <2>3 DEF Kinds
<1> QED BY <1>2, <1>3, <1>4 DEF Kinds

\* A key's symbols are counted in one cell if and only if they are one function.
LEMMA SameEntry ==
  ASSUME IInv, NEW p \in Processes, NEW i \in 1..Len(keys[p]), NEW b, b = Symbolize(p),
         NEW s \in Listed(p, keys[p][i]), NEW u \in Listed(p, keys[p][i])
  PROVE  b.of[s] \in 1..Len(b.syms) /\ (b.of[u] = b.of[s] <=> Home(p, u) = Home(p, s))
<1>1. TypeOK
  BY DEF IInv
<1>2. s \in 1..Len(slots[p]) /\ u \in 1..Len(slots[p])
  BY DEF Listed
<1>3. b \in Tables(p) /\ b.of[s] # 0 /\ b.of[u] # 0
  BY <1>1, SymbolizeIs
<1>4. /\ b.of[s] \in 1..Len(b.syms) /\ KeyOf(b.syms[b.of[s]]) = SymbolOf(p, s)
      /\ b.of[u] \in 1..Len(b.syms) /\ KeyOf(b.syms[b.of[u]]) = SymbolOf(p, u)
      /\ \A x, y \in 1..Len(b.syms) : KeyOf(b.syms[x]) = KeyOf(b.syms[y]) => x = y
  BY <1>2, <1>3 DEF Tables
<1>5. b.of[u] = b.of[s] <=> SymbolOf(p, u) = SymbolOf(p, s)
  BY ONLY <1>4
<1>6. SymbolOf(p, u) = SymbolOf(p, s) <=> Home(p, u) = Home(p, s)
  BY <1>2, DescribedKinds, SymbolHome
<1> QED BY <1>4, <1>5, <1>6

\* A report is about a key of a process.
LEMMA ReportedIs ==
  ASSUME IInv, NEW m \in Reported
  PROVE  m[1] \in Processes /\ m[2] \in 1..Len(keys[m[1]])
<1>1. m[1] \in Processes /\ m[2] \in 1..Cardinality(Keys) /\ m[2] <= Len(keys[m[1]])
  BY DEF Reported
<1>2. Cardinality(Keys) \in Nat /\ Len(keys[m[1]]) \in Nat
  <2>1. TypeOK
    BY DEF IInv
  <2>2. keys[m[1]] \in Seq(Keys)
    BY <1>1, <2>1, ProcessTypes
  <2> QED BY <2>2, FiniteAssumption, FS_CardinalityType, LenProperties
<1> QED BY <1>1, <1>2

\* What a key's report gives a function is what its blocks ran (event_exit, write_key).
THEOREM SymbolsAlways == Spec => []SymbolsExact
<1>1. ASSUME IInv PROVE SymbolsExact
  <2> SUFFICES ASSUME NEW m \in Reported, NEW p, p = m[1], NEW k, k = keys[p][m[2]],
                      NEW s \in Listed(p, k)
               PROVE  SymSums(p, k)[Symbolize(p).of[s]]
                        = SumFunction([u \in {t \in Listed(p, k) : Home(p, t) = Home(p, s)} |-> vec[p][k][u]])
    BY DEF SymbolsExact, SumsAt
  <2>1. p \in Processes /\ m[2] \in 1..Len(keys[p])
    BY <1>1, ReportedIs
  <2>2. PICK b : b = Symbolize(p)
    OBVIOUS
  <2>3. b.of[s] \in 1..Len(b.syms) /\ \A t \in Listed(p, k) : b.of[t] = b.of[s] <=> Home(p, t) = Home(p, s)
    BY <1>1, <2>1, <2>2, SameEntry
  <2>4. {t \in Listed(p, k) : b.of[t] = b.of[s]} = {t \in Listed(p, k) : Home(p, t) = Home(p, s)}
    BY <2>3
  <2>5. SymSums(p, k) = [i \in 1..Len(b.syms) |->
                           SumFunction([u \in {t \in Listed(p, k) : b.of[t] = i} |-> vec[p][k][u]])]
    BY <2>2 DEF SymSums, SumsBy
  <2>6. SymSums(p, k)[b.of[s]] = SumFunction([u \in {t \in Listed(p, k) : b.of[t] = b.of[s]} |-> vec[p][k][u]])
    BY <2>3, <2>5
  <2> QED BY <2>2, <2>4, <2>6
<1> QED BY <1>1, Invariance, PTL

-----------------------------------------------------------------------------
(***************************************************************************)
(* The report: the largest symbols.                                        *)
(***************************************************************************)
\* The list after the first k sums: their largest, the largest first, and all that are
\* not zero if there is room.
Tops(sums) == Seq([idx : 1..Len(sums), count : Nat])
Some(sums, k) == {i \in 1..k : sums[i] # 0}
ShownIn(top) == {top[j].idx : j \in 1..Len(top)}
Larger(sums, top, k) ==
  /\ Len(top) <= TopCap /\ ShownIn(top) \subseteq Some(sums, k)
  /\ Len(top) < TopCap => ShownIn(top) = Some(sums, k)
  /\ \A i, j \in 1..Len(top) : top[i].idx = top[j].idx => i = j
  /\ \A j \in 1..Len(top) : top[j].count = sums[top[j].idx]
  /\ \A i, j \in 1..Len(top) : i < j => top[i].count >= top[j].count
  /\ \A i \in Some(sums, k) \ ShownIn(top), j \in 1..Len(top) : sums[i] <= top[j].count

\* The place of a new entry: after the entries that are not smaller.
LEMMA InsertPlace ==
  ASSUME NEW m \in Nat, NEW amount, \A j \in 1..m : amount[j] \in Nat, NEW n \in Nat,
         \A i, j \in 1..m : i < j => amount[i] >= amount[j],
         NEW stay \in SUBSET (1..m), \A j \in 1..m : j \in stay <=> ~Passes(amount[j], n),
         NEW at, stay = {} => at = 1, stay # {} => at = Max(stay) + 1
  PROVE  /\ at \in 1..(m + 1)
         /\ \A j \in 1..m : j < at => amount[j] >= n
         /\ \A j \in 1..m : j >= at => amount[j] < n
<1>1. \A j \in 1..m : j \in stay <=> amount[j] >= n
  BY DEF Passes
<1>2. CASE stay = {}
  BY <1>1, <1>2
<1>3. CASE stay # {}
  <2>1. stay \in SUBSET (1..m) /\ stay \subseteq Int
    OBVIOUS
  <2>2. IsFiniteSet(stay)
    <3>1. 1 \in Int /\ m \in Int
      OBVIOUS
    <3> QED BY <2>1, <3>1, FS_Interval, FS_Subset
  <2>3. PICK t : t = Max(stay) /\ t \in stay /\ \A j \in stay : j <= t
    BY <1>3, <2>1, <2>2, MaxIs
  <2>4. t \in 1..m /\ at = t + 1 /\ amount[t] >= n
    BY <1>1, <1>3, <2>1, <2>3
  <2>5. ASSUME NEW j \in 1..m, j < at PROVE amount[j] >= n
    <3>1. j = t \/ amount[j] >= amount[t]
      BY <2>4, <2>5
    <3> QED BY <2>4, <3>1
  <2>6. ASSUME NEW j \in 1..m, j >= at PROVE amount[j] < n
    <3>1. j \notin stay
      BY <2>3, <2>4, <2>6
    <3> QED BY <1>1, <3>1
  <2> QED BY <2>4, <2>5, <2>6
<1> QED BY <1>2, <1>3

\* topn_insert leaves a list, whatever the order of the one it is given.
LEMMA InsertTyped ==
  ASSUME NEW sums, Len(sums) \in Nat, NEW top \in Tops(sums), NEW k \in 1..Len(sums), NEW n \in Nat
  PROVE  TopInsert(top, k, n) \in Tops(sums)
<1> DEFINE E == [idx : 1..Len(sums), count : Nat]
           m == IF Len(top) < TopCap THEN Len(top) ELSE TopCap - 1
           stay == {j \in 1..m : ~Passes(top[j].count, n)}
           at == IF stay = {} THEN 1 ELSE Max(stay) + 1
           e == [idx |-> k, count |-> n]
           new == [j \in 1..(m + 1) |-> IF j < at THEN top[j] ELSE IF j = at THEN e ELSE top[j - 1]]
<1>1. Len(top) \in Nat /\ m \in Nat /\ m <= Len(top) /\ \A j \in 1..Len(top) : top[j] \in E
  <2>1. Len(top) \in Nat /\ \A j \in 1..Len(top) : top[j] \in E
    BY LenProperties, ElementOfSeq DEF Tops
  <2> QED BY <2>1, TopAssumption
<1>2. TopInsert(top, k, n) = IF Len(top) = TopCap /\ n <= top[TopCap].count THEN top ELSE new
  BY DEF TopInsert
<1>3. at \in 1..(m + 1)
  <2>1. stay \in SUBSET (1..m)
    OBVIOUS
  <2> HIDE DEF m, stay
  <2>2. stay # {} => Max(stay) \in stay
    BY <1>1, <2>1, LastIn
  <2>3. CASE stay = {}
    BY <1>1, <2>3
  <2>4. CASE stay # {}
    <3>1. PICK t \in 1..m : t = Max(stay)
      BY <2>1, <2>2, <2>4
    <3>2. at = t + 1
      BY <2>4, <3>1
    <3> QED BY <1>1, <3>1, <3>2
  <2> QED BY <2>3, <2>4
<1>4. e \in E
  OBVIOUS
<1> HIDE DEF at, m, stay, e, E
<1>5. \A j \in 1..(m + 1) : (j < at => j \in 1..Len(top)) /\ (j > at => j - 1 \in 1..Len(top))
  BY <1>1, <1>3
<1>6. new \in [1..(m + 1) -> E]
  BY <1>1, <1>3, <1>4, <1>5
<1> HIDE DEF new
<1>7. PICK l \in Nat : l = m + 1
  BY <1>1
<1>8. new \in Seq(E)
  BY ONLY <1>6, <1>7
<1> QED BY <1>2, <1>8 DEF Tops, E

\* What topn_insert leaves when the new sum has a place: the entries kept, the first m of
\* the list, and the new one at its place.
Inserted(sums, new, top, k, n, m, at) ==
  /\ m \in Nat /\ at \in 1..(m + 1) /\ m <= Len(top)
  /\ m = (IF Len(top) < TopCap THEN Len(top) ELSE TopCap - 1)
  /\ new \in Tops(sums) /\ Len(new) = m + 1
  /\ \A j \in 1..m : j < at => new[j] = top[j] /\ top[j].count >= n
  /\ new[at].idx = k /\ new[at].count = n
  /\ \A j \in 1..m : j >= at => new[j + 1] = top[j] /\ top[j].count < n
LEMMA InsertedIs ==
  ASSUME NEW sums, NEW top \in Tops(sums), Len(top) <= TopCap,
         \A i, j \in 1..Len(top) : i < j => top[i].count >= top[j].count,
         NEW k \in 1..Len(sums), NEW n \in Nat, ~(Len(top) = TopCap /\ n <= top[TopCap].count),
         NEW new, new = TopInsert(top, k, n)
  PROVE  \E m, at : Inserted(sums, new, top, k, n, m, at)
<1> DEFINE E == [idx : 1..Len(sums), count : Nat]
           m == IF Len(top) < TopCap THEN Len(top) ELSE TopCap - 1
           stay == {j \in 1..m : ~Passes(top[j].count, n)}
           at == IF stay = {} THEN 1 ELSE Max(stay) + 1
           e == [idx |-> k, count |-> n]
<1>1. Len(top) \in Nat /\ m \in Nat /\ m <= Len(top) /\ \A j \in 1..Len(top) : top[j] \in E /\ top[j].count \in Nat
  <2>1. Len(top) \in Nat /\ \A j \in 1..Len(top) : top[j] \in E
    BY LenProperties, ElementOfSeq DEF Tops
  <2> QED BY <2>1, TopAssumption
<1>2. new = [j \in 1..(m + 1) |-> IF j < at THEN top[j] ELSE IF j = at THEN e ELSE top[j - 1]]
  BY DEF TopInsert
<1>3. /\ at \in 1..(m + 1)
      /\ \A j \in 1..m : j < at => top[j].count >= n
      /\ \A j \in 1..m : j >= at => top[j].count < n
  <2> DEFINE amount == [j \in 1..m |-> top[j].count]
  <2>1. \A j \in 1..m : amount[j] = top[j].count /\ amount[j] \in Nat
    BY <1>1
  <2>2. \A i, j \in 1..m : i < j => amount[i] >= amount[j]
    BY <1>1, <2>1
  <2>3. stay \in SUBSET (1..m) /\ \A j \in 1..m : j \in stay <=> ~Passes(amount[j], n)
    BY <2>1
  <2> HIDE DEF m, stay, amount
  <2>4. /\ at \in 1..(m + 1)
        /\ \A j \in 1..m : j < at => amount[j] >= n
        /\ \A j \in 1..m : j >= at => amount[j] < n
    <3>1. PICK place : place = at
      OBVIOUS
    <3>2. (stay = {} => place = 1) /\ (stay # {} => place = Max(stay) + 1)
      BY <3>1
    <3>3. /\ place \in 1..(m + 1)
          /\ \A j \in 1..m : j < place => amount[j] >= n
          /\ \A j \in 1..m : j >= place => amount[j] < n
      BY ONLY <1>1, <2>1, <2>2, <2>3, <3>2, n \in Nat, InsertPlace
    <3> QED BY <3>1, <3>3
  <2> QED BY <2>1, <2>4
<1> HIDE DEF at, m, stay
<1>4. e \in E
  OBVIOUS
<1>5. \A j \in 1..(m + 1) : (j < at => j \in 1..m) /\ (j > at => j - 1 \in 1..m)
  BY <1>1, <1>3
<1>6. \A j \in 1..(m + 1) : new[j] \in E
  BY <1>1, <1>2, <1>3, <1>4, <1>5
<1>7. new \in Seq(E) /\ Len(new) = m + 1
  <2>1. new \in [1..(m + 1) -> E] /\ m + 1 \in Nat
    BY <1>1, <1>2, <1>6
  <2>2. PICK l \in Nat : l = m + 1
    BY <2>1
  <2> HIDE DEF E
  <2>3. new \in [1..l -> E]
    BY <2>1, <2>2
  <2>4. new \in Seq(E) /\ Len(new) = l
    BY ONLY <2>3, l \in Nat
  <2> QED BY <2>2, <2>4
<1>8. \A j \in 1..m : j >= at => j + 1 \in 1..(m + 1) /\ new[j + 1] = top[j]
  BY <1>1, <1>2, <1>3
<1>9. new[at] = e /\ \A j \in 1..m : j < at => new[j] = top[j]
  BY <1>1, <1>2, <1>3
<1>10. m = IF Len(top) < TopCap THEN Len(top) ELSE TopCap - 1
  BY DEF m
<1>11. e.idx = k /\ e.count = n
  OBVIOUS
<1>12. Inserted(sums, new, top, k, n, m, at)
  <2> HIDE DEF e
  <2> QED BY ONLY <1>1, <1>3, <1>7, <1>8, <1>9, <1>10, <1>11 DEF Tops, Inserted, E
<1> QED BY <1>12

\* A sum that enters, or does not, leaves a list of the largest.
LEMMA InsertKeeps ==
  ASSUME NEW sums, Len(sums) \in Nat, \A i \in 1..Len(sums) : sums[i] \in Nat,
         NEW k \in 1..Len(sums), NEW top \in Tops(sums), Larger(sums, top, k - 1),
         NEW new, new = IF sums[k] = 0 THEN top ELSE TopInsert(top, k, sums[k])
  PROVE  new \in Tops(sums) /\ Larger(sums, new, k)
<1> DEFINE n == sums[k]
<1>1. PICK l \in Nat : l = Len(top)
  BY LenProperties DEF Tops
<1>2. \A j \in 1..l : top[j].idx \in 1..Len(sums) /\ top[j].count \in Nat
  <2>1. \A j \in 1..l : top[j] \in [idx : 1..Len(sums), count : Nat]
    BY <1>1, ElementOfSeq DEF Tops
  <2> QED BY <2>1
<1>3. /\ l <= TopCap /\ \A j \in 1..l : top[j].idx \in Some(sums, k - 1)
      /\ l < TopCap => \A i \in Some(sums, k - 1) : i \in ShownIn(top)
      /\ \A i, j \in 1..l : top[i].idx = top[j].idx => i = j
      /\ \A j \in 1..l : top[j].count = sums[top[j].idx]
      /\ \A i, j \in 1..l : i < j => top[i].count >= top[j].count
      /\ \A i \in Some(sums, k - 1) : i \notin ShownIn(top) => \A j \in 1..l : sums[i] <= top[j].count
  BY <1>1 DEF Larger, ShownIn
<1>4. n \in Nat /\ TopCap \in Nat \ {0}
  BY TopAssumption
<1>5. CASE n = 0
  <2>1. Some(sums, k) = Some(sums, k - 1)
    BY <1>5 DEF Some
  <2> QED BY <1>5, <2>1 DEF Larger
<1>6. CASE n # 0 /\ l = TopCap /\ n <= top[TopCap].count
  <2>1. new = top
    BY <1>1, <1>6 DEF TopInsert
  <2>2. \A i \in Some(sums, k) : i = k \/ i \in Some(sums, k - 1)
    BY DEF Some
  <2>3. Some(sums, k - 1) \subseteq Some(sums, k)
    BY DEF Some
  <2>4. ASSUME NEW j \in 1..l PROVE n <= top[j].count
    <3>1. j = TopCap \/ top[j].count >= top[TopCap].count
      BY <1>3, <1>4, <1>6
    <3>2. TopCap \in 1..l
      BY <1>4, <1>6
    <3> QED BY <1>2, <1>4, <1>6, <3>1, <3>2
  <2>5. \A i \in Some(sums, k) \ ShownIn(top), j \in 1..l : sums[i] <= top[j].count
    BY <1>3, <2>2, <2>4
  <2>6. Larger(sums, top, k)
    BY <1>1, <1>4, <1>6, <2>3, <2>5 DEF Larger
  <2> QED BY <2>1, <2>6
<1>7. CASE n # 0 /\ ~(l = TopCap /\ n <= top[TopCap].count)
  <2>1. new = TopInsert(top, k, n)
    BY <1>7
  <2> HIDE DEF n
  <2>2. PICK m, at : Inserted(sums, new, top, k, n, m, at)
    <3>1. /\ Len(top) <= TopCap /\ ~(Len(top) = TopCap /\ n <= top[TopCap].count)
          /\ \A i, j \in 1..Len(top) : i < j => top[i].count >= top[j].count
      BY <1>1, <1>3, <1>7
    <3> QED BY ONLY <1>4, <2>1, <3>1, top \in Tops(sums), k \in 1..Len(sums), InsertedIs
  <2>3. /\ m \in Nat /\ at \in 1..(m + 1) /\ m <= l /\ new \in Tops(sums) /\ Len(new) = m + 1
        /\ m = (IF l < TopCap THEN l ELSE TopCap - 1)
    BY <1>1, <2>2 DEF Inserted
  <2>4. /\ \A j \in 1..m : j < at => new[j] = top[j] /\ top[j].count >= n
        /\ new[at].idx = k /\ new[at].count = n
        /\ \A j \in 1..m : j >= at => new[j + 1] = top[j] /\ top[j].count < n
    BY <2>2 DEF Inserted
  <2>5. \A j \in 1..m : j \in 1..l
    BY <2>3
  \* Every entry of the new list but the new one is an old one, and the old ones are in
  \* their old order.
  <2> DEFINE old(j) == IF j < at THEN j ELSE j - 1
  <2>6. \A j \in 1..(m + 1) : j # at =>
          old(j) \in 1..m /\ new[j] = top[old(j)]
          /\ (j < at => top[old(j)].count >= n) /\ (j > at => top[old(j)].count < n)
    <3> TAKE j \in 1..(m + 1)
    <3>1. CASE j < at
      <4>1. j \in 1..m /\ old(j) = j /\ ~(j > at)
        BY <2>3, <3>1
      <4>2. new[j] = top[j] /\ top[j].count >= n
        BY <2>4, <3>1, <4>1
      <4> HIDE DEF old
      <4> QED BY <4>1, <4>2
    <3>2. CASE j > at
      <4>1. PICK i \in 1..m : i = j - 1 /\ i >= at /\ i + 1 = j /\ old(j) = i /\ ~(j < at)
        BY <2>3, <3>2
      <4>2. new[j] = top[i] /\ top[i].count < n
        BY <2>4, <4>1
      <4> HIDE DEF old
      <4> QED BY <4>1, <4>2
    <3> QED BY <2>3, <3>1, <3>2
  <2>7. \A i, j \in 1..(m + 1) : i # at /\ j # at =>
          (old(i) = old(j) => i = j) /\ (i < j => old(i) < old(j))
    BY <2>3
  <2>8. \A j \in 1..m : \E i \in 1..(m + 1) : new[i] = top[j]
    <3> TAKE j \in 1..m
    <3>1. CASE j < at
      BY <2>3, <2>4, <3>1
    <3>2. CASE j >= at
      <4>1. j + 1 \in 1..(m + 1) /\ new[j + 1] = top[j]
        BY <2>3, <2>4, <3>2
      <4> QED BY <4>1
    <3> QED BY <2>3, <3>1, <3>2
  <2> HIDE DEF old
  <2>9. /\ k \in Some(sums, k) /\ k \notin Some(sums, k - 1)
        /\ \A i : i \in Some(sums, k) <=> i = k \/ i \in Some(sums, k - 1)
    BY <1>7 DEF Some, n
  <2>10. \A j \in 1..(m + 1) : new[j].idx \in Some(sums, k)
    BY <1>3, <2>4, <2>5, <2>6, <2>9
  <2>11. \A j \in 1..(m + 1) : new[j].count = sums[new[j].idx] /\ new[j].count \in Nat
    BY <1>2, <1>3, <1>4, <2>4, <2>5, <2>6 DEF n
  <2>12. ASSUME NEW i \in 1..(m + 1), NEW j \in 1..(m + 1), new[i].idx = new[j].idx PROVE i = j
    <3>1. \A x \in 1..(m + 1) : x # at => new[x].idx # k
      BY <1>3, <2>5, <2>6, <2>9
    <3>2. CASE i # at /\ j # at
      <4>1. old(i) = old(j)
        BY <1>3, <2>5, <2>6, <2>12, <3>2
      <4> QED BY <2>7, <3>2, <4>1
    <3> QED BY <2>4, <2>12, <3>1, <3>2
  <2>13. ASSUME NEW i \in 1..(m + 1), NEW j \in 1..(m + 1), i < j PROVE new[i].count >= new[j].count
    <3>1. CASE i # at /\ j # at
      <4>1. old(i) \in 1..l /\ old(j) \in 1..l /\ old(i) < old(j)
        BY <2>5, <2>6, <2>7, <2>13, <3>1
      <4> QED BY <1>3, <2>6, <3>1, <4>1
    <3>2. CASE i = at
      <4>1. j # at /\ j > at
        BY <2>3, <2>13, <3>2
      <4>2. new[j].count < n /\ new[i].count = n
        BY <2>4, <2>6, <3>2, <4>1
      <4> QED BY <1>4, <2>11, <4>2
    <3>3. CASE j = at
      <4>1. i # at /\ i < at
        BY <2>3, <2>13, <3>3
      <4> QED BY <2>4, <2>6, <3>3, <4>1
    <3> QED BY <3>1, <3>2, <3>3
  <2>14. \A i : i \in ShownIn(new) <=> \E j \in 1..(m + 1) : new[j].idx = i
    BY <2>3 DEF ShownIn
  <2>15. \A i : i \in ShownIn(top) <=> \E j \in 1..l : top[j].idx = i
    BY <1>1 DEF ShownIn
  <2>16. \A j \in 1..m : top[j].idx \in ShownIn(new)
    BY <2>8, <2>14
  <2>17. k \in ShownIn(new)
    BY <2>3, <2>4, <2>14
  <2>18. ASSUME m + 1 < TopCap, NEW i \in Some(sums, k) PROVE i \in ShownIn(new)
    <3>1. m = l /\ l < TopCap
      BY <1>4, <2>3, <2>18
    <3>2. i = k \/ \E j \in 1..l : top[j].idx = i
      BY <1>3, <2>9, <2>15, <3>1
    <3> QED BY <2>16, <2>17, <3>1, <3>2
  <2>19. ASSUME NEW i \in Some(sums, k), i \notin ShownIn(new), NEW j \in 1..(m + 1)
         PROVE  sums[i] <= new[j].count
    <3>1. i # k /\ i \in Some(sums, k - 1)
      BY <2>9, <2>17, <2>19
    <3>2. i \notin ShownIn(top) \/ \E x \in 1..l : top[x].idx = i /\ x \notin 1..m
      BY <2>15, <2>16, <2>19
    <3>3. l = TopCap /\ m = TopCap - 1
      <4>1. CASE i \notin ShownIn(top)
        BY <1>1, <1>3, <1>4, <2>3, <3>1, <4>1
      <4>2. CASE \E x \in 1..l : x \notin 1..m
        BY <1>3, <1>4, <2>3, <4>2
      <4> QED BY <3>2, <4>1, <4>2
    <3>4. TopCap \in 1..l /\ top[TopCap].count < n
      BY <1>2, <1>4, <1>7, <3>3
    <3>5. sums[i] <= top[TopCap].count
      <4>1. CASE i \notin ShownIn(top)
        BY <1>3, <3>1, <3>4, <4>1
      <4>2. CASE \E x \in 1..l : top[x].idx = i /\ x \notin 1..m
        <5>1. PICK x \in 1..l : top[x].idx = i /\ x \notin 1..m
          BY <4>2
        <5>2. x = TopCap
          BY <1>4, <2>3, <3>3, <5>1
        <5> QED BY <1>2, <1>3, <3>4, <5>1, <5>2
      <4> QED BY <3>2, <4>1, <4>2
    <3>6. top[TopCap].count <= new[j].count
      <4>1. CASE j = at
        BY <1>2, <1>4, <2>4, <3>4, <4>1
      <4>2. CASE j # at
        <5>1. old(j) \in 1..l /\ old(j) < TopCap /\ new[j] = top[old(j)]
          BY <1>4, <2>5, <2>6, <3>3, <4>2
        <5> QED BY <1>3, <3>4, <5>1
      <4> QED BY <4>1, <4>2
    <3>7. sums[i] \in Nat
      <4>1. i \in 1..Len(sums)
        BY <3>1 DEF Some
      <4> QED BY <4>1
    <3>8. top[TopCap].count \in Nat /\ new[j].count \in Nat
      BY <1>2, <2>11, <3>4
    <3> QED BY ONLY <3>5, <3>6, <3>7, <3>8
  <2>20. m + 1 <= TopCap
    BY <1>3, <1>4, <2>3
  <2>21. ShownIn(new) \subseteq Some(sums, k)
    BY <2>10, <2>14
  <2>22. m + 1 < TopCap => ShownIn(new) = Some(sums, k)
    BY <2>18, <2>21
  <2> QED BY <2>3, <2>11, <2>12, <2>13, <2>19, <2>20, <2>21, <2>22 DEF Larger
<1> QED BY <1>1, <1>5, <1>6, <1>7

\* The function that the loop over the sums takes.
TopFold(g, sums) ==
  g = [t \in SUBSET (DOMAIN [i \in 1..Len(sums) |-> i]) |->
         IF t = {} THEN <<>>
         ELSE LET i == [i \in 1..Len(sums) |-> i][Max(t)]
              IN  IF sums[i] = 0 THEN g[t \ {Max(t)}] ELSE TopInsert(g[t \ {Max(t)}], i, sums[i])]
LEMMA TopUnfold ==
  ASSUME NEW sums
  PROVE  TopOf(sums) = (CHOOSE g : TopFold(g, sums))[DOMAIN [i \in 1..Len(sums) |-> i]]
BY DEF TopOf, FoldLeft, MapThenFoldSet, TopFold

\* The list of the sums of a key is one of the largest.
LEMMA TopIs ==
  ASSUME NEW sums, Len(sums) \in Nat, \A i \in 1..Len(sums) : sums[i] \in Nat,
         NEW top, top = TopOf(sums)
  PROVE  top \in Tops(sums) /\ Larger(sums, top, Len(sums))
<1> DEFINE V == Tops(sums)
           Entered(i, v) == IF sums[i] = 0 THEN v ELSE TopInsert(v, i, sums[i])
<1>1. PICK l \in Nat : l = Len(sums)
  OBVIOUS
<1>2. <<>> \in V /\ Len(<<>>) = 0
  BY EmptySeq DEF Tops
<1> DEFINE step == [q \in V \X (1..l) |-> Entered(q[2], q[1])]
<1>3. \A v \in V, i \in 1..l : step[<<v, i>>] = Entered(i, v)
  OBVIOUS
<1>4. Closed(V, step, l)
  <2>1. ASSUME NEW v \in V, NEW i \in 1..l PROVE Entered(i, v) \in V
    BY <1>1, InsertTyped
  <2> HIDE DEF V, step, Entered
  <2> QED BY <1>3, <2>1 DEF Closed
<1> HIDE DEF step
<1>5. \E g : TopFold(g, sums)
  <2>1. PICK h : Table(h, V, <<>>, step, l)
    <3> HIDE DEF V
    <3> QED BY <1>2, <1>4, TableExists
  <2>2. ASSUME NEW t \in SUBSET (1..l)
        PROVE  h[t] = IF t = {} THEN <<>> ELSE Entered([i \in 1..l |-> i][Max(t)], h[t \ {Max(t)}])
    <3> HIDE DEF V, Entered
    <3> QED BY <1>3, <2>1 DEF Table
  <2>3. h = [t \in SUBSET (1..l) |-> h[t]]
    BY <2>1 DEF Table
  <2> HIDE DEF Entered
  <2>4. h = [t \in SUBSET (1..l) |-> IF t = {} THEN <<>> ELSE Entered([i \in 1..l |-> i][Max(t)], h[t \ {Max(t)}])]
    BY ONLY <2>2, <2>3
  <2>5. TopFold(h, sums)
    BY <1>1, <2>4 DEF TopFold, Entered
  <2> QED BY <2>5
<1>6. PICK g : TopFold(g, sums) /\ top = g[1..l]
  BY <1>1, <1>5, TopUnfold
<1>7. \A t \in SUBSET (1..l) : g[t] = IF t = {} THEN <<>> ELSE Entered([i \in 1..l |-> i][Max(t)], g[t \ {Max(t)}])
  BY <1>1, <1>6 DEF TopFold
<1> HIDE DEF V, Entered
<1>8. g[{}] = <<>>
  BY <1>7
<1>9. ASSUME NEW i \in 1..l PROVE g[1..i] = Entered(i, g[1..(i - 1)])
  <2>1. Max(1..i) = i /\ (1..i) \ {i} = 1..(i - 1)
    BY LastOfAll
  <2>2. 1..i \in SUBSET (1..l) /\ 1..i # {}
    BY FirstOfAll
  <2> QED BY <1>7, <2>1, <2>2
<1> DEFINE Good == {i \in Nat : i <= l => g[1..i] \in V /\ Larger(sums, g[1..i], i)}
<1>10. 0 \in Good
  <2>1. 1..0 = {} /\ Some(sums, 0) = {}
    BY DEF Some
  <2>2. PICK v : v = <<>> /\ Len(v) = 0
    BY <1>2
  <2>3. ShownIn(v) = {} /\ 1..Len(v) = {}
    BY <2>2 DEF ShownIn
  <2>4. Len(v) <= TopCap /\ ShownIn(v) = Some(sums, 0) /\ \A j \in 1..Len(v) : FALSE
    BY <2>1, <2>2, <2>3, TopAssumption
  <2>5. Larger(sums, v, 0)
    BY ONLY <2>4 DEF Larger
  <2> QED BY <1>2, <1>8, <2>1, <2>2, <2>5
<1>11. ASSUME NEW i \in Nat, i \in Good PROVE i + 1 \in Good
  <2> SUFFICES ASSUME i + 1 <= l PROVE g[1..(i + 1)] \in V /\ Larger(sums, g[1..(i + 1)], i + 1)
    OBVIOUS
  <2>1. i + 1 \in 1..l /\ (i + 1) - 1 = i /\ i <= l
    OBVIOUS
  <2>2. g[1..i] \in V /\ Larger(sums, g[1..i], (i + 1) - 1)
    BY <1>11, <2>1
  <2>3. g[1..(i + 1)] = Entered(i + 1, g[1..i])
    BY <1>9, <2>1
  <2> QED BY <1>1, <2>1, <2>2, <2>3, InsertKeeps DEF V, Entered
<1>12. l \in Good
  <2> HIDE DEF Good
  <2> QED BY <1>10, <1>11, NumberInduction
<1>13. l <= l
  OBVIOUS
<1> QED BY <1>1, <1>6, <1>12, <1>13 DEF V


\* A list shows as many symbols as it has room for.
LEMMA TopCounts ==
  ASSUME NEW sums, Len(sums) \in Nat, NEW top \in Tops(sums), Larger(sums, top, Len(sums)),
         NEW all, all = Some(sums, Len(sums)), NEW shown, shown = ShownIn(top)
  PROVE  Len(top) = Min({TopCap, Cardinality(all)}) /\ Cardinality(shown) = Len(top)
<1>1. PICK l \in Nat : l = Len(top)
  BY LenProperties DEF Tops
<1>2. IsFiniteSet(all)
  <2>1. 1 \in Int /\ Len(sums) \in Int
    OBVIOUS
  <2> QED BY <2>1, FS_Interval, FS_Subset DEF Some
<1>3. Cardinality(shown) = l
  <2> DEFINE f == [j \in 1..l |-> top[j].idx]
  <2>1. shown = {f[j] : j \in 1..l}
    BY <1>1 DEF ShownIn
  <2>2. \A i, j \in 1..l : f[i] = f[j] => i = j
    BY <1>1 DEF Larger
  <2>3. f \in [1..l -> shown]
    BY <2>1
  <2>4. \A t \in shown : \E j \in 1..l : f[j] = t
    BY <2>1
  <2> HIDE DEF f
  <2>5. f \in Bijection(1..l, shown)
    BY <2>2, <2>3, <2>4 DEF Bijection, Injection, Surjection, IsInjective
  <2> QED BY <2>5, FS_CountingElements DEF ExistsBijection
<1>4. PICK a \in Nat : a = Cardinality(all)
  BY <1>2, FS_CardinalityType
<1>5. l <= a /\ l <= TopCap /\ (l < TopCap => l = a) /\ TopCap \in Nat
  <2>1. shown \in SUBSET all
    BY DEF Larger
  <2>2. l <= a
    BY <1>2, <1>3, <1>4, <2>1, FS_Subset
  <2>3. l < TopCap => shown = all
    BY <1>1 DEF Larger
  <2>4. l <= TopCap
    BY <1>1 DEF Larger
  <2> QED BY <1>3, <1>4, <2>2, <2>3, <2>4, TopAssumption
<1>6. Min({TopCap, a}) = l
  <2>1. l \in {TopCap, a} /\ \A x \in {TopCap, a} : l <= x
    BY <1>5
  <2>2. \A x \in {TopCap, a} : (\A y \in {TopCap, a} : x <= y) => x = l
    BY <1>5, <2>1
  <2> QED BY <2>1, <2>2 DEF Min
<1> QED BY <1>1, <1>3, <1>4, <1>6

\* A key's sums are natural numbers.
LEMMA SumsNat ==
  ASSUME IInv, NEW p \in Processes, NEW i \in 1..Len(keys[p]), NEW sums, sums = SymSums(p, keys[p][i])
  PROVE  Len(sums) \in Nat /\ \A n \in 1..Len(sums) : sums[n] \in Nat
<1> DEFINE k == keys[p][i]
           b == Symbolize(p)
           ofEntry(n) == {u \in Listed(p, k) : b.of[u] = n}
<1>1. TypeOK
  BY DEF IInv
<1>2. PICK l \in Nat : l = Len(b.syms)
  <2>1. b \in Tables(p)
    BY <1>1, SymbolizeIs
  <2> QED BY <2>1, LenProperties DEF Tables
<1>3. vec[p][k] \in [Slots -> Nat] /\ Len(slots[p]) \in 0..MaxSlots
  <2>1. keys[p] \in Seq(Keys) /\ Len(slots[p]) \in 0..MaxSlots /\ vec[p] \in [Keys -> [Slots -> Nat]]
    BY <1>1, ProcessTypes
  <2>2. k \in Keys
    BY <2>1, ElementOfSeq
  <2> QED BY <2>1, <2>2
<1>4. ASSUME NEW n \in 1..l PROVE SumFunction([s \in ofEntry(n) |-> vec[p][k][s]]) \in Nat
  <2>1. ofEntry(n) \in SUBSET Slots
    BY <1>3, BoundsAssumption DEF Listed, Slots
  <2> DEFINE f == [s \in ofEntry(n) |-> vec[p][k][s]]
  <2>2. DOMAIN f = ofEntry(n) /\ IsFiniteSet(ofEntry(n))
    BY <2>1, FiniteSums, FS_Subset
  <2>3. \A s \in ofEntry(n) : f[s] \in Nat
    BY <1>3, <2>1
  <2> HIDE DEF f, ofEntry
  <2>4. SumFunctionOnSet(f, DOMAIN f) \in Nat
    BY <2>2, <2>3, SumNat
  <2> QED BY <2>4 DEF SumFunction, f
<1>5. sums = [n \in 1..l |-> SumFunction([s \in ofEntry(n) |-> vec[p][k][s]])]
  BY <1>2 DEF SymSums, SumsBy
<1> HIDE DEF ofEntry
<1>6. sums \in [1..l -> Nat]
  BY <1>4, <1>5
<1>7. Len(sums) = l
  BY ONLY <1>6, l \in Nat
<1> QED BY <1>6, <1>7

\* The list of any sums is the largest of them.
LEMMA LargestIs ==
  ASSUME NEW sums, Len(sums) \in Nat, \A i \in 1..Len(sums) : sums[i] \in Nat
  PROVE  LargestOf(sums)
<1>1. PICK top : top = TopOf(sums)
  OBVIOUS
<1>2. PICK all, shown : all = Some(sums, Len(sums)) /\ shown = ShownIn(top)
  OBVIOUS
<1>3. top \in Tops(sums) /\ Larger(sums, top, Len(sums))
  BY <1>1, TopIs
<1>4. Len(top) = Min({TopCap, Cardinality(all)}) /\ Cardinality(shown) = Len(top)
  BY <1>2, <1>3, TopCounts
<1>5. /\ \A j \in 1..Len(top) : top[j].count = sums[top[j].idx]
      /\ \A i, j \in 1..Len(top) : i < j => top[i].count >= top[j].count
      /\ \A i \in all \ shown, j \in 1..Len(top) : sums[i] <= top[j].count
  BY <1>2, <1>3 DEF Larger
<1>6. all = {i \in 1..Len(sums) : sums[i] # 0} /\ shown = {top[j].idx : j \in 1..Len(top)}
  BY <1>2 DEF Some, ShownIn
<1> QED BY <1>1, <1>4, <1>5, <1>6 DEF LargestOf, Largest

\* The list of a key's symbols is its largest: sorted, and complete when it has room
\* (write_key, topn_insert).
THEOREM TopAlways == Spec => []TopIsLargest
<1>1. ASSUME IInv PROVE TopIsLargest
  <2>1. ASSUME NEW m \in Reported PROVE LargestOf(SymSums(m[1], keys[m[1]][m[2]]))
    <3>1. m[1] \in Processes /\ m[2] \in 1..Len(keys[m[1]])
      BY <1>1, ReportedIs
    <3> QED BY <1>1, <3>1, SumsNat, LargestIs
  <2> QED BY <2>1 DEF TopIsLargest
<1> QED BY <1>1, Invariance, PTL
=============================================================================
