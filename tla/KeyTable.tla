---------------------------- MODULE KeyTable ----------------------------
(***************************************************************************)
(* The keys of client/drperf.c and their counter arrays: get_key, with its *)
(* two caches per thread, the shared table and the budget of keys per      *)
(* region, and slots_for, which grants a key an array per thread within    *)
(* the counter budget.                                                     *)
(*                                                                         *)
(* A combination stands for what a begin call names: the region, the       *)
(* declared states and the outermost region.  The string key built of it   *)
(* is the combination itself, or its region for "region\1<other>".  The    *)
(* caches of a thread are private to it and a table entry is only read or  *)
(* written under keys_lock, so a lookup is one step and a thread can be    *)
(* overtaken only where it takes keys_lock.                                *)
(*                                                                         *)
(* An operator whose name ends in _bug is the definition after it with a   *)
(* slip, as in MarkerPath.                                                 *)
(***************************************************************************)
EXTENDS Naturals, Sequences, FiniteSets

CONSTANTS
  Threads,
  Index,      \* t->index: a slot of tslots, shared by threads past MAX_THREADS
  Combos,     \* combinations
  RegionOf,   \* the region of a combination
  Long,       \* regions whose name RNAME_MAX cuts, so that no copy equals it
  Hash,       \* the content hash of a combination
  Cell,       \* its entry of fast[512], a function of the hash
  PerRegion,  \* KEYS_PER_REGION
  Listed,     \* entries of region_keys
  Budget,     \* arrays that fit in COUNTER_BUDGET
  NoCombo, NoAnswer

Regions == {RegionOf[c] : c \in Combos}
Cells   == {Cell[c] : c \in Combos}
Names   == Combos \cup Regions
Slots   == {Index[t] : t \in Threads}

ASSUME CombosAssumption ==
  /\ Combos # {} /\ Combos \cap Regions = {} /\ Long \subseteq Regions
  /\ \A c, d \in Combos : Hash[c] = Hash[d] => Cell[c] = Cell[d]
ASSUME BudgetAssumption ==
  PerRegion \in Nat \ {0} /\ Listed \in Nat /\ Budget \in Nat

VARIABLES
  keys,     \* the keys made, by index: the combination copied into each, and
            \* whether it is its region's "<other>" bucket
  table,    \* key_table: the key of a string, 0 for none
  used,     \* region_keys[i].n of a region that has an entry, 0 without
  nlisted,  \* nregion_keys
  cache,    \* cache[t]: t->key_cache
  fast,     \* fast[t]: t->fast
  tslots,   \* tslots[k]: the slots for which key k has an array
  bytes,    \* counter_bytes, in arrays
  denied,   \* counter_denied > 0
  pc,       \* pc[t]: where t waits for keys_lock, or runs
  combo,    \* combo[t]: the combination t looks up
  want,     \* want[t]: the key whose array t asks for, 0 for none yet
  whose,    \* whose[t]: the thread it asks for: itself, or one it steers
  into,     \* into[u]: the last answer of slots_for for u: the key whose array
            \* it is, 0 for dummy_slots, NoAnswer before the first
  given     \* history: the combinations and the keys they were given

tables  == <<keys, table, used, nlisted>>
caches  == <<cache, fast>>
arrays  == <<tslots, bytes, denied, into>>
control == <<pc, combo, want, whose>>
vars == <<tables, caches, arrays, control, given>>

Empty == [hash |-> 0, key |-> 0]
Own   == {k \in 1..Len(keys) : ~keys[k].other}   \* keys of one combination

-----------------------------------------------------------------------------
(***************************************************************************)
(* get_key                                                                 *)
(***************************************************************************)
\* key_matches: against the copies the key owns.
Matches_bug(k, c) == TRUE
Matches(k, c) ==
  ~keys[k].other /\ keys[k].combo = c /\ RegionOf[c] \notin Long

FastHit(t, c) ==
  LET f == fast[t][Cell[c]]
  IN  f.key # 0 /\ f.hash = Hash[c] /\ Matches(f.key, c)

\* remember_key
Remember(t, c, k) ==
  fast' = [fast EXCEPT ![t][Cell[c]] = [hash |-> Hash[c], key |-> k]]

\* The key k is what get_key returns: the frame is pushed, slots_for is next.
Got(t, c, k) ==
  /\ want' = [want EXCEPT ![t] = k]
  /\ given' = given \cup {<<c, k>>}
  /\ pc' = [pc EXCEPT ![t] = "slots"]
  /\ combo' = [combo EXCEPT ![t] = NoCombo]

\* begin_common up to the first lock get_key takes, if it takes one.
Begin(t, c) ==
  /\ pc[t] = "app"
  /\ IF FastHit(t, c)
     THEN Got(t, c, fast[t][Cell[c]].key) /\ UNCHANGED fast
     ELSE IF cache[t][c] # 0
     THEN Got(t, c, cache[t][c]) /\ Remember(t, c, cache[t][c])
     ELSE /\ combo' = [combo EXCEPT ![t] = c]
          /\ pc' = [pc EXCEPT ![t] = "lookup"]
          /\ UNCHANGED <<fast, want, given>>
  /\ UNCHANGED <<tables, cache, arrays, whose>>

\* region_key_budget: a region of which region_keys holds no copy is entered
\* while there is room, and has a key in any case.
Entered(r) == used[r] > 0
BelowBudget_atmost_bug(r) == Entered(r) => used[r] <= PerRegion
BelowBudget(r) == Entered(r) => used[r] < PerRegion
MayEnter_bug(r) == ~Entered(r)
MayEnter(r) == ~Entered(r) /\ nlisted < Listed

CountKey(r) ==
  /\ used' = IF (Entered(r) \/ MayEnter(r)) /\ r \notin Long
             THEN [used EXCEPT ![r] = @ + 1] ELSE used
  /\ nlisted' = IF MayEnter(r) THEN nlisted + 1 ELSE nlisted

\* "counter_bytes + opt_max_slots * sizeof(uint64) > COUNTER_BUDGET"
Full == bytes + 1 > Budget

Fits(c) == ~Full /\ BelowBudget(RegionOf[c])

\* The string under which get_key makes or finds the key.
Name_bug(c) == IF ~Fits(c) THEN RegionOf[c] ELSE c
Name(c) == IF table[c] = 0 /\ ~Fits(c) THEN RegionOf[c] ELSE c

\* The key of that string, a new one if there is none.
Found_bug(c) == IF table[c] = 0 THEN Len(keys) + 1 ELSE table[c]
Found(c) == IF table[Name(c)] = 0 THEN Len(keys) + 1 ELSE table[Name(c)]

\* key_cache keeps what it has.
Cached(t, n, k) ==
  cache' = IF cache[t][n] = 0 THEN [cache EXCEPT ![t][n] = k] ELSE cache

\* The section of get_key under keys_lock, and the private stores after it.
Lookup(t) ==
  LET c == combo[t]
      n == Name(c)
      k == Found(c)
  IN
  /\ pc[t] = "lookup"
  /\ IF k > Len(keys)
     THEN /\ keys' = Append(keys, [combo |-> c, other |-> n # c])
          /\ table' = [table EXCEPT ![n] = k]
          /\ tslots' = Append(tslots, {})
     ELSE UNCHANGED <<keys, table, tslots>>
  /\ IF n = c /\ table[c] = 0
     THEN CountKey(RegionOf[c])
     ELSE UNCHANGED <<used, nlisted>>
  /\ Cached(t, n, k)
  /\ Remember(t, c, k)
  /\ Got(t, c, k)
  /\ UNCHANGED <<bytes, denied, into, whose>>

-----------------------------------------------------------------------------
(***************************************************************************)
(* slots_for                                                               *)
(***************************************************************************)
Has(k, u) == Index[u] \in tslots[k]

\* dummy_slots when there is no array, never a null pointer.
NoArray_bug(k) == k
NoArray(k) == 0

Serve(t, k) ==
  /\ into' = [into EXCEPT ![whose[t]] = k]
  /\ whose' = [whose EXCEPT ![t] = t]
  /\ pc' = [pc EXCEPT ![t] = "app"]

\* The test before the lock
Slots1(t) ==
  /\ pc[t] = "slots"
  /\ IF Has(want[t], whose[t])
     THEN Serve(t, want[t])
     ELSE pc' = [pc EXCEPT ![t] = "alloc"] /\ UNCHANGED <<into, whose>>
  /\ UNCHANGED <<tables, caches, tslots, bytes, denied, combo, want, given>>

\* ... and the section under keys_lock, which tests again.
MustAllocate_bug(t) == TRUE
MustAllocate(t) == ~Has(want[t], whose[t])

Slots2(t) ==
  LET k == want[t] IN
  /\ pc[t] = "alloc"
  /\ IF ~MustAllocate(t)
     THEN Serve(t, k) /\ UNCHANGED <<tslots, bytes, denied>>
     ELSE \/ /\ ~Full
             /\ tslots' = [tslots EXCEPT ![k] = @ \cup {Index[whose[t]]}]
             /\ bytes' = bytes + 1
             /\ Serve(t, k)
             /\ UNCHANGED denied
          \/ \* out of budget, or dr_raw_mem_alloc fails
             /\ denied' = TRUE
             /\ Serve(t, NoArray(k))
             /\ UNCHANGED <<tslots, bytes>>
  /\ UNCHANGED <<tables, caches, combo, want, given>>

\* update_shared on the leader: it asks for the array of its innermost key in
\* another thread.
Steer(t, u) ==
  /\ pc[t] = "app" /\ want[t] # 0 /\ u # t
  /\ whose' = [whose EXCEPT ![t] = u]
  /\ pc' = [pc EXCEPT ![t] = "slots"]
  /\ UNCHANGED <<tables, caches, arrays, combo, want, given>>
-----------------------------------------------------------------------------
Init ==
  /\ keys = <<>> /\ tslots = <<>>
  /\ table = [n \in Names |-> 0]
  /\ used = [r \in Regions |-> 0] /\ nlisted = 0
  /\ cache = [t \in Threads |-> [n \in Names |-> 0]]
  /\ fast = [t \in Threads |-> [h \in Cells |-> Empty]]
  /\ bytes = 0 /\ denied = FALSE
  /\ pc = [t \in Threads |-> "app"]
  /\ combo = [t \in Threads |-> NoCombo]
  /\ want = [t \in Threads |-> 0]
  /\ whose = [t \in Threads |-> t]
  /\ into = [t \in Threads |-> NoAnswer]
  /\ given = {}

Next ==
  \E t \in Threads :
    \/ \E c \in Combos : Begin(t, c)
    \/ Lookup(t) \/ Slots1(t) \/ Slots2(t)
    \/ \E u \in Threads : Steer(t, u)

Spec == Init /\ [][Next]_vars

-----------------------------------------------------------------------------
TypeOK ==
  /\ keys \in Seq([combo : Combos, other : BOOLEAN])
  /\ tslots \in [1..Len(keys) -> SUBSET Slots]
  /\ table \in [Names -> 0..Len(keys)]
  /\ used \in [Regions -> Nat]
  /\ nlisted \in 0..Listed
  /\ cache \in [Threads -> [Names -> 0..Len(keys)]]
  /\ fast \in [Threads -> [Cells -> [hash : {0} \cup {Hash[c] : c \in Combos},
                                    key : 0..Len(keys)]]]
  /\ bytes \in Nat /\ denied \in BOOLEAN
  /\ pc \in [Threads -> {"app", "lookup", "slots", "alloc"}]
  /\ combo \in [Threads -> Combos \cup {NoCombo}]
  /\ want \in [Threads -> 0..Len(keys)]
  /\ whose \in [Threads -> Threads]
  /\ into \in [Threads -> {NoAnswer} \cup 0..Len(keys)]
  /\ given \subseteq Combos \X (1..Len(keys))

\* One combination, one key: every begin that names it, on any thread and
\* through whichever cache, gets the same, so its counts are not split.
OneKey ==
  \A g, h \in given : g[1] = h[1] => g[2] = h[2]

OwnKeys(r) == {k \in Own : RegionOf[keys[k].combo] = r}

\* A region that region_keys lists has KEYS_PER_REGION keys of its own at most.
BudgetHonoured ==
  \A r \in Regions : Entered(r) => Cardinality(OwnKeys(r)) <= PerRegion

\* Two threads that ask for the same array at once get the same one:
\* counter_bytes is what the arrays take and never exceeds the budget.
BytesExact ==
  /\ bytes = Cardinality({p \in (1..Len(keys)) \X Slots : p[2] \in tslots[p[1]]})
  /\ bytes <= Budget

\* A thread counts into an array that is there, in its own slot of the key, or
\* nowhere, and then the run says so (the comment in slots_for).
CountedOrSaid ==
  \A u \in Threads :
    \/ into[u] = NoAnswer
    \/ into[u] = 0 /\ denied
    \/ into[u] > 0 /\ Has(into[u], u)

-----------------------------------------------------------------------------
(***************************************************************************)
(* The keys as KeyMap sees them                                            *)
(***************************************************************************)
\* What the name of key k says: its combination, or the bucket of a region.
Denotes(k) == IF keys[k].other THEN RegionOf[keys[k].combo] ELSE keys[k].combo

Answers(c) == {g[2] : g \in {h \in given : h[1] = c}}

\* The name under which c is counted, NoCombo before the first begin names it.
Answer(c) ==
  IF Answers(c) = {} THEN NoCombo ELSE Denotes(CHOOSE k \in Answers(c) : TRUE)

KM == INSTANCE KeyMap WITH
  names  <- [k \in 1..Len(keys) |-> Denotes(k)],
  map    <- [c \in Combos |-> Answer(c)],
  got    <- want,
  NoName <- NoCombo

\* Whatever the caches, the lock and the budget do, a begin is an Ask of the
\* abstract map: one key per name, and a combination never changes its name.
ImplementsKeyMap == KM!Spec
=============================================================================
