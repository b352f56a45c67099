--------------------------- MODULE BlockCounts ---------------------------
(***************************************************************************)
(* Basic-block counts from the client to the formulas: client/drperf.c     *)
(* gives every block of a process a slot and adds its executions to the    *)
(* slot under the innermost region's key; each process writes its keys and *)
(* slots; lib/runner.py puts the files of a run together, block by block,  *)
(* and lib/derive.py sums the keys of a region at each of its state        *)
(* points.                                                                 *)
(*                                                                         *)
(* A process maps files at places and executes their blocks; a block is a  *)
(* file and an offset, its address a place and an offset.  One block       *)
(* execution counts one.  The slot table is only read and written under    *)
(* slots_lock, and a key has one array per thread, summed at exit; so one  *)
(* thread per process is enough.  The processes share nothing before their *)
(* files are read, so they run one after another.  Symbols, modules' sums  *)
(* and the text of the files are left out.  placed, ran and called are     *)
(* history.                                                                *)
(***************************************************************************)
EXTENDS Integers, Sequences, FiniteSets, FiniteSetsExt

CONSTANTS
  NProcesses, \* processes of the run, in the order of their files' names
  Files,      \* files a process can map
  NameOf,     \* the base name of a file
  Generated,  \* files that are no modules: code generated at run time
  Places,     \* addresses files are mapped at
  Offsets,    \* offsets of blocks in a file
  Keys,       \* region keys
  RegionOf,   \* the region of a key
  StatesOf,   \* its declared states: a sequence of <<name, value>>
  Others,     \* the "<other>" keys of regions whose budget is used up
  MaxSlots,   \* opt_max_slots
  MaxModules, \* MAX_MODULES
  MaxLoads,   \* bound: files mapped
  MaxBegins,  \* bound: instances
  MaxRuns,    \* bound: block executions
  NoFile, NoPlace, NoName, NoKey

ASSUME BoundsAssumption ==
  /\ NProcesses \in Nat \ {0} /\ MaxSlots \in Nat \ {0} /\ MaxModules \in Nat
  /\ MaxLoads \in Nat /\ MaxBegins \in Nat /\ MaxRuns \in Nat
ASSUME FiniteAssumption ==
  /\ IsFiniteSet(Files) /\ IsFiniteSet(Places) /\ IsFiniteSet(Offsets) /\ IsFiniteSet(Keys)
ASSUME NamesAssumption ==
  /\ NoFile \notin Files /\ NoPlace \notin Places /\ NoKey \notin Keys
  /\ \A f \in Files : NameOf[f] # NoName
ASSUME KeysAssumption ==
  /\ Generated \subseteq Files
  /\ \A k \in Keys : StatesOf[k] \in Seq(STRING \X Int)
  /\ \A k \in Others : k \in Keys /\ StatesOf[k] = <<>>

VARIABLES
  mapped,   \* mapped[p][x]: the file at place x, or NoFile
  modules,  \* modules[p][x]: the name of the module recorded at x, or NoName
  slots,    \* slots[p]: slot_pc and slot_mod of the slots in use
  fragment, \* fragment[p]: translated blocks and their slots
  overflow, \* overflow[p]: slots_overflow
  keys,     \* keys[p]: the keys made, oldest first
  open,     \* open[p]: the innermost key, or NoKey
  vec,      \* vec[p][k]: counts per slot
  count,    \* count[p][k]: closed instances
  now,      \* the process that runs; those before it have exited
  loads, begins, runs, \* for the bounds
  placed,   \* history: placed[p][x], the files ever mapped there
  ran,      \* history: ran[k], executions per block, over all processes
  called    \* history: called[k], instances begun
clientVars == <<modules, slots, fragment, overflow, keys, open, vec, count>>
boundVars == <<loads, begins, runs>>
historyVars == <<placed, ran, called>>
vars == <<mapped, clientVars, now, boundVars, historyVars>>

Processes == 1..NProcesses
Slots == 1..MaxSlots
Blocks == Files \X Offsets
Pcs == Places \X Offsets
Regions == {RegionOf[k] : k \in Keys}

-----------------------------------------------------------------------------
(***************************************************************************)
(* The client.                                                             *)
(***************************************************************************)
Recorded(p) == {x \in Places : modules[p][x] # NoName}

\* event_module_load: a place keeps the first module recorded there.
Load(p, f, x) ==
  /\ p = now /\ loads < MaxLoads /\ loads' = loads + 1
  /\ mapped[p][x] = NoFile
  /\ mapped' = [mapped EXCEPT ![p][x] = f]
  /\ modules' =
       IF f \notin Generated /\ x \notin Recorded(p) /\ Cardinality(Recorded(p)) < MaxModules
       THEN [modules EXCEPT ![p][x] = NameOf[f]] ELSE modules
  /\ placed' = [placed EXCEPT ![p][x] = @ \cup {f}]
  /\ UNCHANGED <<slots, fragment, overflow, keys, open, vec, count, now,
                 begins, runs, ran, called>>

\* The client does not register for unloads; DynamoRIO drops the fragments.
Unload(p, x) ==
  /\ p = now /\ mapped[p][x] # NoFile
  /\ mapped' = [mapped EXCEPT ![p][x] = NoFile]
  /\ fragment' = [fragment EXCEPT ![p] =
       [pc \in {q \in DOMAIN @ : q[1] # x} |-> @[pc]]]
  /\ UNCHANGED <<modules, slots, overflow, keys, open, vec, count, now, boundVars,
                 historyVars>>

\* module_index_for_pc; the place stands for the index.
ModuleAt(p, x) ==
  IF mapped[p][x] \notin Generated /\ x \in Recorded(p) THEN x ELSE NoPlace

SlotOf(p, pc) == {s \in 1..Len(slots[p]) : slots[p][s].pc = pc}
Full_bug(p) == Len(slots[p]) > MaxSlots
Full(p) == Len(slots[p]) >= MaxSlots

\* event_analysis: a block's slot, a new one, or the last of a full table.
SlotFor(p, pc) ==
  IF pc \in DOMAIN fragment[p] THEN fragment[p][pc]
  ELSE IF SlotOf(p, pc) # {} THEN CHOOSE s \in SlotOf(p, pc) : TRUE
  ELSE IF Full(p) THEN MaxSlots ELSE Len(slots[p]) + 1
Crowded_bug(p, pc) ==
  pc \notin DOMAIN fragment[p] /\ SlotOf(p, pc) = {} /\ Len(slots[p]) > MaxSlots
Crowded(p, pc) == pc \notin DOMAIN fragment[p] /\ SlotOf(p, pc) = {} /\ Full(p)

\* The marker path: an instance of k begins; get_key makes a key the first time.
Begin(p, k) ==
  /\ p = now /\ open[p] = NoKey /\ begins < MaxBegins /\ begins' = begins + 1
  /\ open' = [open EXCEPT ![p] = k]
  /\ keys' = IF \E i \in 1..Len(keys[p]) : keys[p][i] = k THEN keys
             ELSE [keys EXCEPT ![p] = Append(@, k)]
  /\ called' = [called EXCEPT ![k] = @ + 1]
  /\ UNCHANGED <<mapped, modules, slots, fragment, overflow, vec, count, now,
                 loads, runs, placed, ran>>

\* close_frame
End(p) ==
  /\ p = now /\ open[p] # NoKey
  /\ count' = [count EXCEPT ![p][open[p]] = @ + 1]
  /\ open' = [open EXCEPT ![p] = NoKey]
  /\ UNCHANGED <<mapped, modules, slots, fragment, overflow, keys, vec, now,
                 boundVars, historyVars>>

\* A block is translated the first time it runs, and again after its file was
\* unmapped; the code event_insert puts into it counts while an instance is open.
Run(p, pc) ==
  /\ p = now /\ mapped[p][pc[1]] # NoFile
  /\ runs < MaxRuns /\ runs' = runs + 1
  /\ LET s == SlotFor(p, pc)
     IN  /\ fragment' = [fragment EXCEPT ![p] =
              [q \in DOMAIN @ \cup {pc} |-> IF q = pc THEN s ELSE @[q]]]
         /\ slots' = IF s > Len(slots[p])
                     THEN [slots EXCEPT ![p] =
                             Append(@, [pc |-> pc, mod |-> ModuleAt(p, pc[1])])]
                     ELSE slots
         /\ overflow' = IF Crowded(p, pc) THEN [overflow EXCEPT ![p] = @ + 1] ELSE overflow
         /\ vec' = IF open[p] = NoKey THEN vec
                   ELSE [vec EXCEPT ![p][open[p]][s] = @ + 1]
  /\ ran' = IF open[p] = NoKey THEN ran
            ELSE [ran EXCEPT ![open[p]][<<mapped[p][pc[1]], pc[2]>>] = @ + 1]
  /\ UNCHANGED <<mapped, modules, keys, open, count, now, loads, begins, placed, called>>

\* event_exit: the files are written, and hold what the client holds now.
Exit(p) ==
  /\ p = now
  /\ now' = now + 1
  /\ UNCHANGED <<mapped, clientVars, boundVars, historyVars>>

-----------------------------------------------------------------------------
(***************************************************************************)
(* The files and their readers.                                            *)
(***************************************************************************)
\* write_key: the slots a key's record lists.
Listed_bug(p, k) == {s \in 1..Len(slots[p]) - 1 : vec[p][k][s] # 0}
Listed(p, k) == {s \in 1..Len(slots[p]) : vec[p][k][s] # 0}

\* The .slots table and blocks_of_set: what a block is called in every process.
Ident_bug(p, s) == slots[p][s].pc
Ident(p, s) ==
  LET at == slots[p][s]
  IN  IF at.mod = NoPlace THEN <<NoName, at.pc>> ELSE <<modules[p][at.mod], at.pc[2]>>

\* A key's vector by block: of two slots of one block the later one is kept.
VecOf(p, k) ==
  [b \in {Ident(p, s) : s \in Listed(p, k)} |->
     vec[p][k][Max({s \in Listed(p, k) : Ident(p, s) = b})]]

\* per_state: the keys of a region, in the order of the files.
KeyAt(m) == keys[m[1]][m[2]]
Mine(r) == {m \in Processes \X (1..Cardinality(Keys)) :
              /\ m[2] <= Len(keys[m[1]]) /\ RegionOf[KeyAt(m)] = r
              /\ count[m[1]][KeyAt(m)] > 0}
Before(m, n) == m[1] < n[1] \/ (m[1] = n[1] /\ m[2] < n[2])

NamesOf(k) == [i \in 1..Len(StatesOf[k]) |-> StatesOf[k][i][1]]
PointOf(k) == [i \in 1..Len(StatesOf[k]) |-> StatesOf[k][i][2]]

\* The states' names: those of the first key that has any.
Naming(r) == {m \in Mine(r) : KeyAt(m) \notin Others /\ StatesOf[KeyAt(m)] # <<>>}
Names(r) ==
  IF Naming(r) = {} THEN <<>>
  ELSE NamesOf(KeyAt(CHOOSE m \in Naming(r) : \A n \in Naming(r) : m = n \/ Before(m, n)))

Left_bug(r) == {m \in Mine(r) : Len(StatesOf[KeyAt(m)]) # Len(Names(r))}
Left(r) ==
  {m \in Mine(r) : KeyAt(m) \in Others \/ Len(StatesOf[KeyAt(m)]) # Len(Names(r))}
AtPoint(r, v) == {m \in Mine(r) \ Left(r) : PointOf(KeyAt(m)) = v}
Points(r) == {PointOf(KeyAt(m)) : m \in Mine(r) \ Left(r)}

Triggers(ms) == SumFunction([m \in ms |-> count[m[1]][KeyAt(m)]])
Count(m, b) ==
  LET f == VecOf(m[1], KeyAt(m)) IN IF b \in DOMAIN f THEN f[b] ELSE 0

\* What per_state has of block b at point v, and the calls it left out.
Summed(r, v, b) == SumFunction([m \in AtPoint(r, v) |-> Count(m, b)])
Dropped(r) == Triggers(Left(r))

-----------------------------------------------------------------------------
Init ==
  /\ mapped = [p \in Processes |-> [x \in Places |-> NoFile]]
  /\ modules = [p \in Processes |-> [x \in Places |-> NoName]]
  /\ slots = [p \in Processes |-> <<>>]
  /\ fragment = [p \in Processes |-> <<>>]
  /\ overflow = [p \in Processes |-> 0]
  /\ keys = [p \in Processes |-> <<>>]
  /\ open = [p \in Processes |-> NoKey]
  /\ vec = [p \in Processes |-> [k \in Keys |-> [s \in Slots |-> 0]]]
  /\ count = [p \in Processes |-> [k \in Keys |-> 0]]
  /\ now = 1
  /\ loads = 0 /\ begins = 0 /\ runs = 0
  /\ placed = [p \in Processes |-> [x \in Places |-> {}]]
  /\ ran = [k \in Keys |-> [b \in Blocks |-> 0]]
  /\ called = [k \in Keys |-> 0]

\* Every process has exited and the files are read.
Finished == now > NProcesses /\ UNCHANGED vars

Next ==
  \/ \E p \in Processes :
       \/ End(p) \/ Exit(p)
       \/ \E k \in Keys : Begin(p, k)
       \/ \E x \in Places : Unload(p, x) \/ \E f \in Files : Load(p, f, x)
       \/ \E pc \in Pcs : Run(p, pc)
  \/ Finished

Spec == Init /\ [][Next]_vars

-----------------------------------------------------------------------------
TypeOK ==
  /\ mapped \in [Processes -> [Places -> Files \cup {NoFile}]]
  /\ modules \in [Processes -> [Places -> {NameOf[f] : f \in Files} \cup {NoName}]]
  /\ slots \in [Processes -> Seq([pc : Pcs, mod : Places \cup {NoPlace}])]
  /\ \A p \in Processes : /\ Len(slots[p]) <= MaxSlots
                          /\ DOMAIN fragment[p] \subseteq Pcs
                          /\ \A pc \in DOMAIN fragment[p] : fragment[p][pc] \in 1..Len(slots[p])
  /\ overflow \in [Processes -> Nat]
  /\ keys \in [Processes -> Seq(Keys)]
  /\ open \in [Processes -> Keys \cup {NoKey}]
  /\ vec \in [Processes -> [Keys -> [Slots -> Nat]]]
  /\ count \in [Processes -> [Keys -> Nat]]
  /\ now \in 1..NProcesses + 1
  /\ loads \in Nat /\ begins \in Nat /\ runs \in Nat
  /\ placed \in [Processes -> [Places -> SUBSET Files]]
  /\ ran \in [Keys -> [Blocks -> Nat]]
  /\ called \in [Keys -> Nat]

\* While a process reports no slot overflow, every translated block counts into
\* the slot of its own address: no other address shares it.
OwnSlot ==
  \A p \in Processes : overflow[p] = 0 =>
    \A pc \in DOMAIN fragment[p] : SlotOf(p, pc) = {fragment[p][pc]}

\* What the readers take for granted of the files of a run.
Sites == {s \in Processes \X Places \X Files : s[3] \in placed[s[1]][s[2]]}
Nameless(f) == f \in Generated \/ \E s \in Sites : s[3] = f /\ modules[s[1]][s[2]] = NoName
\* A process maps a file at one place only, and no two files of one name.
OnePlace ==
  \A s, t \in Sites :
    s[1] = t[1] /\ (s[3] = t[3] \/ NameOf[s[3]] = NameOf[t[3]]) => s = t
\* Nor does it map two files at one place; and names, and the places of files that
\* are in no module table, mean the same in all processes.
Stable ==
  /\ OnePlace
  /\ \A s, t \in Sites :
       /\ s[1] = t[1] /\ s[2] = t[2] => s = t
       /\ NameOf[s[3]] = NameOf[t[3]] => s[3] = t[3]
       /\ Nameless(s[3]) /\ s[2] = t[2] => s[3] = t[3]

Read == now > NProcesses
AllEnded == \A p \in Processes : open[p] = NoKey
Silent == \A p \in Processes : overflow[p] = 0

KeysOf(r) == {k \in Keys : RegionOf[k] = r}
\* The region declares the same states wherever it is begun.
OneNaming(r) ==
  \A k, l \in KeysOf(r) : called[k] > 0 /\ called[l] > 0 /\ StatesOf[k] # <<>> /\ StatesOf[l] # <<>>
    => NamesOf(k) = NamesOf(l)
\* The keys of r that belong to point v.
Belong(r, v) == {k \in KeysOf(r) \ Others : PointOf(k) = v /\ NamesOf(k) = Names(r)}

\* The names a block goes by in the files, if its file was mapped.
IdsOf(b) ==
  LET at == {s \in Sites : s[3] = b[1]}
  IN  {<<NameOf[b[1]], b[2]>> : s \in at}
        \cup {<<NoName, <<s[2], b[2]>>>> : s \in {t \in at : Nameless(b[1])}}

\* A run that reports nothing gives every block, at every state point, exactly the
\* executions it had there, over all processes of the run, wherever each of them
\* mapped the block's file.
BlocksExact ==
  Read /\ Silent /\ AllEnded /\ Stable =>
    \A r \in Regions : OneNaming(r) =>
      \A v \in Points(r), b \in Blocks :
        SumFunction([i \in IdsOf(b) |-> Summed(r, v, i)])
          = SumFunction([k \in Belong(r, v) |-> ran[k][b]])

\* A full slot table, or an address used again by other code, gives counts to the
\* wrong block but loses none: what is read back for a region is all it ran.
TotalKept ==
  Read /\ AllEnded /\ OnePlace =>
    \A r \in Regions :
      SumFunction([m \in Mine(r) |-> SumFunction(VecOf(m[1], KeyAt(m)))])
        = SumFunction([k \in KeysOf(r) |-> SumFunction(ran[k])])

\* Every call is placed at the point of its states, or counted as left out.
CallsAtPoints ==
  Read /\ AllEnded =>
    \A r \in Regions : OneNaming(r) =>
      /\ \A v \in Points(r) :
           Triggers(AtPoint(r, v)) = SumFunction([k \in Belong(r, v) |-> called[k]])
      /\ Dropped(r) = SumFunction([k \in KeysOf(r) \ UNION {Belong(r, v) : v \in Points(r)}
                                     |-> called[k]])

=============================================================================
