----------------------- MODULE MarkerPathInvariant -----------------------
(***************************************************************************)
(* The inductive invariant of MarkerPath: what holds of the threads' local *)
(* states in the middle of an update, from which the properties at rest    *)
(* follow.  Model-checked by MCMarkerPath, proved in MarkerPathProofs.     *)
(***************************************************************************)
EXTENDS MarkerPath

\* t is between a load of what it will store and its last store of followed.
Storing(t) == pc[t] \in {"load", "set", "note"}

HoldsLock(t) ==
  pc[t] \in {"drop", "claim", "top", "publish", "walk", "expect", "steer", "mark", "unlock"}
Steering(t) == pc[t] \in {"walk", "expect", "steer", "mark"}

\* Which callback a thread can be in at each of its program points, and which
\* threads are registered and alive there.
LifeInv ==
  \A t \in Threads :
    /\ pc[t] = "new" <=> t \notin registered
    /\ pc[t] \in {"new", "app", "gone"} <=> op[t] = "none"
    /\ t \in alive <=> pc[t] \notin {"new", "gone"} /\ (op[t] = "exit" => pc[t] = "die")
    /\ pc[t] = "die" => op[t] = "exit"
    /\ Storing(t) => op[t] # "exit"
    /\ op[t] \in {"init", "fast"} => Storing(t)
    /\ pc[t] = "new" \/ op[t] = "exit" \/ pc[t] = "load" => stack[t] = <<>>
    /\ op[t] \in {"init", "fast"} => stack[t] = <<>>
    /\ op[t] = "begin" => stack[t] # <<>>

\* A dead leader is one whose exit callback has not yet dropped it; a thread
\* that returns without an update is not the leader.
LeaderInv ==
  /\ leader # NoThread =>
       leader \in alive \/ pc[leader] \in {"test", "mode", "fastlead", "lock", "drop"}
  /\ \A t \in Threads : op[t] \in {"init", "fast"} /\ leader = t => raced

\* The lock, and the walk that only its holder makes.
LockInv ==
  /\ \A t \in Threads : HoldsLock(t) <=> lock = t
  /\ todo # {} => lock # NoThread /\ Steering(lock)
  /\ aim # NoThread <=> lock # NoThread /\ pc[lock] \in {"expect", "steer", "mark"}
  /\ aim # NoThread => aim \in alive /\ aim \notin todo

\* cur is set once the thread has run its first callback.
SetInv ==
  \A t \in Threads :
    cur[t] = Unset => pc[t] = "new" \/ (op[t] = "init" /\ pc[t] \in {"load", "set"})

\* The pointer of a thread with a region, from its own store on.
Own(t) ==
  stack[t] # <<>> =>
    /\ pc[t] \in {"set", "note"} => val[t] = Top(stack[t])
    /\ pc[t] \notin {"load", "set"} => cur[t] = Top(stack[t])

OwnInv ==
  /\ \A t \in Threads \ crossed : Own(t)
  /\ \A t \in Threads : Aimed(t) /\ stack[t] # <<>> => opened

AimedBy(t, where) == Aimed(t) /\ pc[lock] \in where

\* followed against cur, and both against the walk aimed at the thread.
Match(t) ==
  /\ pc[t] = "note" => cur[t] = val[t]
  /\ ~Storing(t) /\ ~AimedBy(t, {"mark"}) => cur[t] = followed[t]
  /\ ~Storing(t) /\ AimedBy(t, {"mark"}) => cur[t] = val[lock]
  /\ stack[t] = <<>> /\ op[t] # "exit" /\ AimedBy(t, {"steer", "mark"}) =>
       /\ pc[t] \in {"set", "note"} => val[t] = val[lock]
       /\ ~Storing(t) => cur[t] \in {seen, val[lock]}

MatchInv == ~raced => \A t \in Threads \ crossed : Match(t)

LeaderKey == IF leader = NoThread THEN NoKey ELSE Innermost(leader)

\* The leader is not between a change of its stack and its own update.
LeaderSteady == leader # NoThread => pc[leader] = "app"

\* A lock-free update is made by the one registered thread, which is the leader
\* if it has a region and finds its own key.
AloneInv ==
  \A t \in Threads : LockFree(t) =>
    /\ registered = {t}
    /\ leader \in {t, NoThread}
    /\ pc[t] # "fastlead" => (leader = t <=> stack[t] # <<>>)
    /\ pc[t] = "faststore" => val[t] = LeaderKey

\* An update under the lock publishes the leader's key, unless the leader is
\* itself waiting to do so.
UpdateInv ==
  \A t \in Threads :
    /\ pc[t] = "publish" /\ (LeaderSteady \/ leader = t) => val[t] = LeaderKey
    /\ Steering(t) \/ pc[t] = "unlock" => val[t] = shared
    /\ Steering(t) \/ pc[t] = "unlock" =>
         (LeaderSteady \/ leader = t => shared = LeaderKey)

RestInv == AtRest => shared = LeaderKey

\* shared_key against the leader's stack, at each point of an update.
SharedInv == ~raced => AloneInv /\ UpdateInv /\ RestInv

\* The pointer of a thread without a region that no walk has still to visit.
Follow(t) ==
  stack[t] = <<>> /\ op[t] # "exit" /\ t \notin todo /\ ~Aimed(t) =>
    /\ pc[t] \in {"set", "note"} => val[t] = shared
    /\ ~Storing(t) /\ ~LockFree(t) => cur[t] = shared

FollowInv == ~raced => \A t \in alive \ crossed : Follow(t)

IInv ==
  /\ TypeOK
  /\ LifeInv
  /\ LeaderInv
  /\ LockInv
  /\ SetInv
  /\ OwnInv
  /\ MatchInv
  /\ SharedInv
  /\ FollowInv
=============================================================================
