---------------------------- MODULE MarkerPath ----------------------------
(***************************************************************************)
(* The marker path of client/drperf.c: which counter array every thread    *)
(* of the profiled program counts into.                                    *)
(*                                                                         *)
(* A thread with an open region counts into the region's key; a thread     *)
(* with none follows the innermost region of one thread, the leader.  The  *)
(* pointer of a thread (raw TLS slot 1, cur) is stored by the thread       *)
(* itself in its marker callbacks and by the leader in steer_follower,     *)
(* under no common lock, so each callback is cut here at every load and    *)
(* store of state another thread uses.                                     *)
(*                                                                         *)
(* A key stands for its counter array in the thread at hand (slots_for     *)
(* granted), NoKey for dummy_slots (slots_for(NULL)) and Unset for the     *)
(* zero that raw TLS holds before the first set_thread_cur.                *)
(*                                                                         *)
(* crossed, opened and raced are history variables: no action's guard or   *)
(* effect on another variable reads them.                                  *)
(*                                                                         *)
(* An operator whose name ends in _bug is the definition after it with a   *)
(* slip that a change of the code could make.  No specification uses it:   *)
(* put in the place of that definition, it shows that a property notices.  *)
(***************************************************************************)
EXTENDS Naturals, Sequences

CONSTANTS
  Threads,   \* the threads the process ever creates
  Started,   \* those registered before the first marker call
  Keys,      \* region keys
  MaxDepth,  \* MAX_DEPTH
  NoThread, NoKey, Unset

ASSUME ThreadsAssumption ==
  /\ Started \subseteq Threads /\ Started # {}
  /\ NoThread \notin Threads
ASSUME KeysAssumption ==
  /\ NoKey \notin Keys /\ Unset \notin Keys /\ NoKey # Unset
ASSUME DepthAssumption == MaxDepth \in Nat \ {0}

VARIABLES
  registered,  \* the thread list; nthreads_seen is its size, nothing leaves it
  alive,       \* threads whose alive flag is set
  stack,       \* stack[t]: the keys of t's open frames, outermost first
  cur,         \* cur[t]: raw TLS slot 1 of t
  followed,    \* followed[t]: t->followed
  leader,      \* L.leader
  shared,      \* L.shared_key
  lock,        \* holder of leader_lock
  pc,          \* pc[t]: the next load or store of t's callback, "app" outside
  op,          \* op[t]: the callback t is in
  val,         \* val[t]: its local key (NoKey while it has none)
  todo,        \* the lock holder's walk over the list: threads still ahead,
  aim,         \*   the thread it is steering,
  seen,        \*   and the t->followed it loaded as the expected value
  crossed,     \* history: threads that crossed a walk since their last callback
  opened,      \* history: the thread aimed at has begun a region since
  raced        \* history: a thread registered inside another's lock-free update

people  == <<registered, alive>>
pointer == <<cur, followed>>
common  == <<leader, shared>>
walk    == <<todo, aim, seen>>
control == <<pc, op, val>>
history == <<crossed, opened, raced>>
vars == <<people, stack, pointer, common, lock, control, walk, history>>

Top(s) == s[Len(s)]
Slots == Keys \cup {NoKey}            \* what slots_for can return

\* t is inside the branch of update_shared that takes no lock.
LockFree(t) == pc[t] \in {"fastlead", "fastread", "faststore"}

\* A walk is between its test of u's depth and its last store for u.
Aimed(u) == aim = u

\* readers of threads_rw: a walk holds it for all its steps
Walking == \E w \in Threads : pc[w] \in {"walk", "expect", "steer", "mark"}

Goto(t, where) == pc' = [pc EXCEPT ![t] = where]

Enter(t, what, where) ==
  /\ op' = [op EXCEPT ![t] = what]
  /\ Goto(t, where)

(***************************************************************************)
(* The three ways a walk and a callback of the thread u cross that leave u *)
(* with a wrong pointer or a wrong followed until its next callback.       *)
(***************************************************************************)
\* u is storing a shared key it loaded before the update that steers to k: the
\* exchange on u comes too early, or finds the half-stored pointer and fails.
StaleStore(u, k) == pc[u] \in {"set", "note"} /\ stack[u] = <<>> /\ val[u] # k

\* Since the walk looked at u, u has opened a region of the very key the walk
\* expects to find in cur.
SameKey(u) == opened /\ stack[u] # <<>> /\ Top(stack[u]) = seen

\* u notes its own store between the walk's exchange and the walk's note of it.
NotedFirst(u) == \E w \in Threads : pc[w] = "mark" /\ aim = u /\ val[w] # val[u]

Cross(u, how) == crossed' = IF how THEN crossed \cup {u} ELSE crossed

\* u opens a callback that stores its pointer anew.
Restore(u) == crossed' = crossed \ {u}

\* The callback returns: to the program, or to the thread's end.
Return(t) ==
  /\ Goto(t, IF t \in alive THEN "app" ELSE "gone")
  /\ op' = [op EXCEPT ![t] = "none"]
  /\ val' = [val EXCEPT ![t] = NoKey]

(***************************************************************************)
(* Callbacks.                                                              *)
(***************************************************************************)
Linked_bug(t) == registered
Linked(t) == registered \cup {t}

\* event_thread_init up to its release of threads_rw.
Register(t) ==
  /\ pc[t] = "new"
  /\ ~Walking
  /\ registered' = Linked(t)
  /\ alive' = alive \cup {t}
  /\ Enter(t, "init", "load")
  /\ Restore(t)
  /\ raced' = (raced \/ \E u \in Threads : LockFree(u))
  /\ UNCHANGED <<stack, pointer, common, lock, val, walk, opened>>

\* begin_common: the frame is pushed, its key is the pointer to store.  The
\* overflow branch (depth_overflows) changes nothing here.
Begin(t, k) ==
  /\ pc[t] = "app" /\ t \in alive
  /\ Len(stack[t]) < MaxDepth
  /\ stack' = [stack EXCEPT ![t] = Append(@, k)]
  /\ val' = [val EXCEPT ![t] = k]
  /\ Enter(t, "begin", "set")
  /\ Restore(t)
  /\ opened' = (opened \/ Aimed(t))
  /\ UNCHANGED <<people, pointer, common, lock, walk, raced>>

\* pre_end: frame i is the innermost of its name, it and all above it are
\* closed.  Only a depth of zero is visible to other threads, so the loop is
\* one step.
End(t, i) ==
  /\ pc[t] = "app" /\ t \in alive
  /\ i \in 1..Len(stack[t])
  /\ \A j \in (i + 1)..Len(stack[t]) : stack[t][j] # stack[t][i]
  /\ stack' = [stack EXCEPT ![t] = SubSeq(@, 1, i - 1)]
  /\ val' = [val EXCEPT ![t] = IF i > 1 THEN stack[t][i - 1] ELSE NoKey]
  /\ Enter(t, "end", IF i > 1 THEN "set" ELSE "load")
  /\ Restore(t)
  /\ UNCHANGED <<people, pointer, common, lock, walk, opened, raced>>

\* event_thread_exit: the open frames are closed, ...
Exit(t) ==
  /\ pc[t] = "app" /\ t \in alive
  /\ stack' = [stack EXCEPT ![t] = <<>>]
  /\ Enter(t, "exit", "die")
  /\ UNCHANGED <<people, pointer, common, lock, val, walk, history>>

\* ... then alive is cleared under the write lock.
Die(t) ==
  /\ pc[t] = "die"
  /\ ~Walking
  /\ alive' = alive \ {t}
  /\ Goto(t, "test")
  /\ UNCHANGED <<registered, stack, pointer, common, lock, op, val, walk, history>>

(***************************************************************************)
(* set_thread_cur, preceded by the load of shared_key where the thread has *)
(* no open region.                                                         *)
(***************************************************************************)
LoadShared(t) ==
  /\ pc[t] = "load"
  /\ val' = [val EXCEPT ![t] = shared]
  /\ Goto(t, "set")
  /\ UNCHANGED <<people, stack, pointer, common, lock, op, walk, history>>

SetCur(t) ==
  /\ pc[t] = "set"
  /\ cur' = [cur EXCEPT ![t] = val[t]]
  /\ Goto(t, "note")
  /\ UNCHANGED <<people, stack, followed, common, lock, op, val, walk, history>>

NoteFollowed(t) ==
  /\ pc[t] = "note"
  /\ followed' = [followed EXCEPT ![t] = val[t]]
  /\ IF op[t] \in {"init", "fast"}
     THEN Return(t)
     ELSE Goto(t, "test") /\ UNCHANGED <<op, val>>
  /\ Cross(t, NotedFirst(t))
  /\ UNCHANGED <<people, stack, cur, common, lock, walk, opened, raced>>

\* "if (leader == NULL || leader == t)" in begin_common, "if (leader == t)" in
\* pre_end and event_thread_exit.
Leaderless(t) == op[t] = "begin" /\ leader = NoThread
MustUpdate_noexit_bug(t) == (leader = t /\ op[t] # "exit") \/ Leaderless(t)
MustUpdate_noend_bug(t) == (leader = t /\ op[t] # "end") \/ Leaderless(t)
MustUpdate(t) == leader = t \/ Leaderless(t)

\* The test is made outside leader_lock.
TestLeader(t) ==
  /\ pc[t] = "test"
  /\ IF MustUpdate(t)
     THEN Goto(t, "mode") /\ UNCHANGED <<op, val>>
     ELSE Return(t)
  /\ UNCHANGED <<people, stack, pointer, common, lock, walk, history>>

(***************************************************************************)
(* update_shared.                                                          *)
(***************************************************************************)
\* nthreads_seen <= 1: one thread is registered, the caller.
TestThreads(t) ==
  /\ pc[t] = "mode"
  /\ Goto(t, IF registered = {t} THEN "fastlead" ELSE "lock")
  /\ UNCHANGED <<people, stack, pointer, common, lock, op, val, walk, history>>

\* What a read of the leader's innermost key by t can return.  It is exact on
\* t's own stack and on that of a thread outside its callbacks; otherwise it
\* races with the owner's stores, and depth and key may be of different times.
LeaderTop(t) ==
  IF leader = NoThread THEN {NoKey}
  ELSE IF leader # t /\ pc[leader] # "app" THEN Slots
  ELSE IF stack[leader] = <<>> THEN {NoKey}
  ELSE {Top(stack[leader])}

\* The lock-free branch.  self is NULL when the caller is exiting.
FastLead(t) ==
  /\ pc[t] = "fastlead"
  /\ leader' = IF t \in alive /\ stack[t] # <<>> THEN t ELSE NoThread
  /\ Goto(t, "fastread")
  /\ UNCHANGED <<people, stack, pointer, shared, lock, op, val, walk, history>>

\* It does not test the depth again, so the key of a leader that another
\* thread put there in between can be any.
FastRead(t) ==
  /\ pc[t] = "fastread"
  /\ \E k \in IF leader \in {t, NoThread} THEN LeaderTop(t) ELSE Slots :
       val' = [val EXCEPT ![t] = k]
  /\ Goto(t, "faststore")
  /\ UNCHANGED <<people, stack, pointer, common, lock, op, walk, history>>

FastStore(t) ==
  /\ pc[t] = "faststore"
  /\ shared' = val[t]
  /\ IF t \in alive /\ stack[t] = <<>>
     THEN Enter(t, "fast", "load") /\ Restore(t) /\ UNCHANGED val
     ELSE Return(t) /\ UNCHANGED crossed
  /\ UNCHANGED <<people, stack, pointer, leader, lock, walk, opened, raced>>

Lock(t) ==
  /\ pc[t] = "lock" /\ lock = NoThread
  /\ lock' = t
  /\ Goto(t, "drop")
  /\ UNCHANGED <<people, stack, pointer, common, op, val, walk, history>>

\* "if (leader != NULL && !leader->alive) leader = NULL"
Remaining == IF leader \in alive THEN leader ELSE NoThread

DropDead(t) ==
  /\ pc[t] = "drop"
  /\ leader' = Remaining
  /\ Goto(t, "claim")
  /\ UNCHANGED <<people, stack, pointer, shared, lock, op, val, walk, history>>

\* "if (leader == NULL && self != NULL && self->depth > 0) leader = self"
MayLead_bug(t) == t \in alive /\ stack[t] # <<>>
MayLead(t) == leader = NoThread /\ t \in alive /\ stack[t] # <<>>

Claim(t) ==
  /\ pc[t] = "claim"
  /\ leader' = IF MayLead(t) THEN t ELSE leader
  /\ Goto(t, "top")
  /\ UNCHANGED <<people, stack, pointer, shared, lock, op, val, walk, history>>

ReadTop(t) ==
  /\ pc[t] = "top"
  /\ \E k \in LeaderTop(t) : val' = [val EXCEPT ![t] = k]
  /\ Goto(t, "publish")
  /\ UNCHANGED <<people, stack, pointer, common, lock, op, walk, history>>

\* The threads the walk passes: the whole list, the caller with it.
Visited_bug(t) == registered \ {t}
Visited(t) == registered

\* "if (nk != shared_key)": the followers are walked only if the key changed.
Publish(t) ==
  /\ pc[t] = "publish"
  /\ shared' = val[t]
  /\ IF val[t] = shared
     THEN Goto(t, "unlock") /\ UNCHANGED todo
     ELSE Goto(t, "walk") /\ todo' = Visited(t)
  /\ UNCHANGED <<people, stack, pointer, leader, lock, op, val, aim, seen, history>>

\* "t->alive && t->depth == 0"
Follows_bug(u) == u \in alive
Follows(u) == u \in alive /\ stack[u] = <<>>

Ahead(u) == todo \ {u}

\* One turn of the list, in any order (the code's is newest first): u is
\* steered if it is alive and has no open region now.
Walk(t, u) ==
  /\ pc[t] = "walk" /\ u \in todo
  /\ todo' = Ahead(u)
  /\ IF Follows(u)
     THEN /\ aim' = u
          /\ Goto(t, "expect")
     ELSE UNCHANGED <<aim, pc>>
  /\ UNCHANGED <<people, stack, pointer, common, lock, op, val, seen, history>>

WalkDone(t) ==
  /\ pc[t] = "walk" /\ todo = {}
  /\ Goto(t, "unlock")
  /\ UNCHANGED <<people, stack, pointer, common, lock, op, val, walk, history>>

\* steer_follower: load t->followed, ...
LoadExpected(t) ==
  /\ pc[t] = "expect"
  /\ seen' = followed[aim]
  /\ Goto(t, "steer")
  /\ Cross(aim, StaleStore(aim, val[t]))
  /\ UNCHANGED <<people, stack, pointer, common, lock, op, val, todo, aim, opened, raced>>

\* ... exchange cur if it still holds that, ...
Matches == cur[aim] = seen

\* without the if: followed is stored whether or not the exchange was made
Steer_bug(t) ==
  /\ pc[t] = "steer" /\ Goto(t, "mark")
  /\ cur' = IF Matches THEN [cur EXCEPT ![aim] = val[t]] ELSE cur
  /\ Cross(aim, Matches /\ SameKey(aim))
  /\ UNCHANGED <<people, stack, followed, common, lock, op, val, todo, aim, seen, opened, raced>>

Steer(t) ==
  /\ pc[t] = "steer"
  /\ IF Matches
     THEN cur' = [cur EXCEPT ![aim] = val[t]] /\ Goto(t, "mark")
          /\ Cross(aim, SameKey(aim)) /\ UNCHANGED <<aim, opened>>
     ELSE Goto(t, "walk") /\ aim' = NoThread
          /\ opened' = FALSE /\ UNCHANGED <<cur, crossed>>
  /\ seen' = Unset
  /\ UNCHANGED <<people, stack, followed, common, lock, op, val, todo, raced>>

\* ... and remember what was installed.
Marked(t) == [followed EXCEPT ![aim] = val[t]]

Mark(t) ==
  /\ pc[t] = "mark"
  /\ followed' = Marked(t)
  /\ aim' = NoThread
  /\ opened' = FALSE
  /\ Goto(t, "walk")
  /\ UNCHANGED <<people, stack, cur, common, lock, op, val, todo, seen, crossed, raced>>

Released_bug(t) == IF leader = t THEN NoThread ELSE lock
Released(t) == NoThread

Unlock(t) ==
  /\ pc[t] = "unlock"
  /\ lock' = Released(t)
  /\ Return(t)
  /\ UNCHANGED <<people, stack, pointer, common, walk, history>>

-----------------------------------------------------------------------------
Init ==
  /\ registered = Started
  /\ alive = Started
  /\ stack = [t \in Threads |-> <<>>]
  /\ cur = [t \in Threads |-> IF t \in Started THEN NoKey ELSE Unset]
  /\ followed = cur
  /\ leader = NoThread
  /\ shared = NoKey
  /\ lock = NoThread
  /\ pc = [t \in Threads |-> IF t \in Started THEN "app" ELSE "new"]
  /\ op = [t \in Threads |-> "none"]
  /\ val = [t \in Threads |-> NoKey]
  /\ todo = {} /\ aim = NoThread /\ seen = Unset
  /\ crossed = {} /\ opened = FALSE /\ raced = FALSE

\* The steps of a callback under way: the thread is scheduled, so they happen.
Handler(t) ==
  \/ LoadShared(t) \/ SetCur(t) \/ NoteFollowed(t) \/ Die(t)
  \/ TestLeader(t) \/ TestThreads(t)
  \/ FastLead(t) \/ FastRead(t) \/ FastStore(t)
  \/ Lock(t) \/ DropDead(t) \/ Claim(t) \/ ReadTop(t) \/ Publish(t)
  \/ \E u \in Threads : Walk(t, u)
  \/ WalkDone(t) \/ LoadExpected(t) \/ Steer(t) \/ Mark(t) \/ Unlock(t)

\* The calls the profiled program makes: any, at any time.
Call(t) ==
  \/ Register(t)
  \/ \E k \in Keys : Begin(t, k)
  \/ \E i \in 1..MaxDepth : End(t, i)
  \/ Exit(t)

\* Every thread that ever started has exited.
Finished ==
  /\ \A t \in Threads : pc[t] = "gone"
  /\ UNCHANGED vars

Next == (\E t \in Threads : Handler(t) \/ Call(t)) \/ Finished

Spec == Init /\ [][Next]_vars

FairSpec == Spec /\ \A t \in Threads : WF_vars(Handler(t))

-----------------------------------------------------------------------------
\* Every variable has the type of the C object it models.
TypeOK ==
  /\ registered \subseteq Threads
  /\ alive \subseteq registered
  /\ stack \in [Threads -> Seq(Keys)]
  /\ cur \in [Threads -> Slots \cup {Unset}]
  /\ followed \in [Threads -> Slots \cup {Unset}]
  /\ leader \in Threads \cup {NoThread}
  /\ shared \in Slots
  /\ lock \in Threads \cup {NoThread}
  /\ pc \in [Threads -> {"new", "app", "load", "set", "note", "test", "mode",
                         "fastlead", "fastread", "faststore", "lock", "drop",
                         "claim", "top", "publish", "walk", "expect", "steer",
                         "mark", "unlock", "die", "gone"}]
  /\ op \in [Threads -> {"none", "init", "begin", "end", "exit", "fast"}]
  /\ val \in [Threads -> Slots]
  /\ todo \subseteq Threads
  /\ aim \in Threads \cup {NoThread}
  /\ seen \in Slots \cup {Unset}
  /\ crossed \subseteq Threads
  /\ opened \in BOOLEAN
  /\ raced \in BOOLEAN

\* The leader is a live thread, or one whose exit callback is still under way:
\* no thread that is gone goes on being followed.
LeaderIsLive ==
  leader # NoThread => leader \in alive \/ op[leader] = "exit"

\* The counting code runs in the program, outside the callbacks, and writes
\* through cur: it is never null there (the comment in slots_for).
CounterNeverNull ==
  \A t \in Threads : pc[t] = "app" => cur[t] # Unset

\* leader and shared_key are not being changed by anyone.
AtRest ==
  /\ lock = NoThread
  /\ \A t \in Threads : ~LockFree(t)
  /\ leader # NoThread => pc[leader] = "app"

Innermost(t) == IF stack[t] = <<>> THEN NoKey ELSE Top(stack[t])

\* Between updates shared_key is the leader's innermost key, and null without a
\* leader, unless a second thread started inside a lock-free update.
SharedIsLeaders ==
  ~raced /\ AtRest =>
    shared = IF leader = NoThread THEN NoKey ELSE Innermost(leader)

\* A thread running inside its own region counts into that region's key: the
\* exchange never takes it away, wherever it falls in the thread's callback,
\* but from a thread whose key is the expected one.
OwnRegionCounted ==
  \A t \in Threads \ crossed :
    pc[t] = "app" /\ stack[t] # <<>> => cur[t] = Top(stack[t])

\* A running thread with no region of its own counts into shared_key as soon as
\* no update is under way: whatever the interleaving, there are no other ways
\* for a follower to miss the leader than a lock-free update raced by a
\* registration, and a crossing.
FollowersCounted ==
  ~raced /\ AtRest =>
    \A t \in Threads \ crossed :
      pc[t] = "app" /\ stack[t] = <<>> => cur[t] = shared

\* A thread no walk is aimed at holds in followed what it counts into, so that
\* the next exchange on it succeeds: followed, which two threads write without
\* a lock, falls behind cur only by a crossing.
Steerable ==
  ~raced =>
    \A t \in Threads \ crossed :
      pc[t] = "app" /\ ~Aimed(t) => cur[t] = followed[t]

\* A live leader is replaced only while it is the one registered thread and has
\* no open region.
LeaderStays ==
  [][leader' # leader /\ leader \in alive /\ ~raced =>
       stack[leader] = <<>> /\ registered = {leader}]_vars

\* Every begin and end of the leader returns: it is never starved of leader_lock,
\* whatever the other threads call (weak fairness only: the lock is not fair).
\* A lock-free update that raced a registration can unseat it, and then it can
\* wait for ever.
LeaderReturns ==
  \A t \in Threads :
    leader = t /\ op[t] \in {"begin", "end"} ~> pc[t] = "app" \/ raced

-----------------------------------------------------------------------------
(***************************************************************************)
(* What the documents and comments say without the exceptions.             *)
(***************************************************************************)
\* drperf.c:331-334, README.md:185-187
OwnRegionAlways ==
  \A t \in Threads : pc[t] = "app" /\ stack[t] # <<>> => cur[t] = Top(stack[t])

=============================================================================
