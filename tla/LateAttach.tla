--------------------------- MODULE LateAttach ---------------------------
(***************************************************************************)
(* Late attach: perfmark/perfmark.c starts DynamoRIO inside the first      *)
(* begin of the process and then makes that call again, so that the        *)
(* client, which only sees calls that enter under DynamoRIO, sees it.      *)
(*                                                                         *)
(* attach_state is a plain int that any thread tests and sets without a    *)
(* lock, so a begin is cut at each of its loads and stores.  What is       *)
(* outside the library is dr_app_setup_and_start, which takes over every   *)
(* thread when it succeeds; under DynamoRIO, a second call may do either.  *)
(*                                                                         *)
(* A begin is named by its number in its thread.  The client's side of a   *)
(* thread is the stack of the begins it saw (client/drperf.c).             *)
(***************************************************************************)
EXTENDS Naturals, Sequences, SequencesExt

CONSTANTS
  Threads,
  MaxDepth,   \* MAX_DEPTH of the client
  MaxBegins   \* bound: begins of a thread

\* Overflow of the client's stack is RegionStack's.
ASSUME BeginsAssumption ==
  MaxBegins \in Nat /\ MaxDepth \in Nat /\ MaxBegins <= MaxDepth

VARIABLES
  late,          \* DRPERF_LATE is set
  dr,            \* the process runs under DynamoRIO
  attach_state,  \* 0 unchecked, 1 attaching, 2 done or disabled
  pc,            \* pc[t]: the next load or store of t's begin, "app" outside
  begun,         \* begun[t]: begins made
  nest,          \* nest[t]: the program's open regions
  seen,          \* seen[t]: those the client knows
  unmatched,     \* unmatched[t]: ends the client had no region for
  missed,        \* history: missed[t], regions it never saw ended under DynamoRIO
  starter        \* history: starter[t], the begin in which t's attach succeeded

vars == <<late, dr, attach_state, pc, begun, nest, seen, unmatched, missed, starter>>

Goto(t, where) == pc' = [pc EXCEPT ![t] = where]

\* The client's wrapper runs at the entry of the function, under DynamoRIO.
Entry(t, b) ==
  seen' = IF dr /\ Len(seen[t]) < MaxDepth
          THEN [seen EXCEPT ![t] = Append(@, b)]
          ELSE seen

-----------------------------------------------------------------------------
\* perfmark_begin and perfmark_begin_v, called by the program
Begin(t) ==
  /\ pc[t] = "app" /\ begun[t] < MaxBegins
  /\ begun' = [begun EXCEPT ![t] = @ + 1]
  /\ nest' = [nest EXCEPT ![t] = Append(@, begun'[t])]
  /\ Entry(t, begun'[t])
  /\ Goto(t, "check")
  /\ UNCHANGED <<late, dr, attach_state, unmatched, missed, starter>>

\* "if (attach_state == 0 && late_attach())"
Check(t) ==
  /\ pc[t] = "check"
  /\ Goto(t, IF attach_state = 0 THEN "recheck" ELSE "app")
  /\ UNCHANGED <<late, dr, attach_state, begun, nest, seen, unmatched, missed, starter>>

\* late_attach: "if (attach_state != 0) return 0"
Recheck(t) ==
  /\ pc[t] = "recheck"
  /\ Goto(t, IF attach_state = 0 THEN "claim" ELSE "app")
  /\ UNCHANGED <<late, dr, attach_state, begun, nest, seen, unmatched, missed, starter>>

Claim(t) ==
  /\ pc[t] = "claim"
  /\ attach_state' = 1
  /\ Goto(t, IF late THEN "attach" ELSE "giveup")
  /\ UNCHANGED <<late, dr, begun, nest, seen, unmatched, missed, starter>>

\* drperf_attach_now, if the library is preloaded
Attach(t) ==
  /\ pc[t] = "attach"
  /\ \/ /\ dr' = TRUE
        /\ starter' = [starter EXCEPT ![t] = Last(nest[t])]
        /\ Goto(t, "finish")
     \/ /\ Goto(t, "giveup")
        /\ UNCHANGED <<dr, starter>>
  /\ UNCHANGED <<late, attach_state, begun, nest, seen, unmatched, missed>>

\* DRPERF_LATE is not set, or the attach failed: return 0.
GiveUp(t) ==
  /\ pc[t] = "giveup"
  /\ attach_state' = 2
  /\ Goto(t, "app")
  /\ UNCHANGED <<late, dr, begun, nest, seen, unmatched, missed, starter>>

\* What a successful attach leaves in attach_state, and where it goes on.
After_count_bug(t) == [state |-> attach_state + 1, pc |-> "again"]
After_bug(t) == [state |-> 0, pc |-> "again"]
After_return_bug(t) == [state |-> 2, pc |-> "app"]
After(t) == [state |-> 2, pc |-> "again"]

Finish(t) ==
  /\ pc[t] = "finish"
  /\ attach_state' = After(t).state
  /\ Goto(t, After(t).pc)
  /\ UNCHANGED <<late, dr, begun, nest, seen, unmatched, missed, starter>>

\* again(...): the same call, now entering under DynamoRIO
Again(t) ==
  /\ pc[t] = "again"
  /\ Entry(t, Last(nest[t]))
  /\ Goto(t, "check")
  /\ UNCHANGED <<late, dr, attach_state, begun, nest, unmatched, missed, starter>>

\* perfmark_end: pre_end closes the innermost region it knows of the name.  All
\* regions have one name here, the case where one could pass for another.
Strays_bug(t) == unmatched
Strays(t) == [unmatched EXCEPT ![t] = @ + 1]

End(t) ==
  /\ pc[t] = "app" /\ nest[t] # <<>>
  /\ nest' = [nest EXCEPT ![t] = Front(@)]
  /\ IF dr /\ seen[t] # <<>>
     THEN seen' = [seen EXCEPT ![t] = Front(@)] /\ UNCHANGED unmatched
     ELSE unmatched' = (IF dr THEN Strays(t) ELSE unmatched) /\ UNCHANGED seen
  /\ missed' = IF dr /\ Last(nest[t]) \notin ToSet(seen[t])
               THEN [missed EXCEPT ![t] = @ + 1] ELSE missed
  /\ UNCHANGED <<late, dr, attach_state, pc, begun, starter>>

-----------------------------------------------------------------------------
Init ==
  /\ late \in BOOLEAN
  /\ dr \in IF late THEN {FALSE} ELSE BOOLEAN   \* native, or all under drrun
  /\ attach_state = 0
  /\ pc = [t \in Threads |-> "app"]
  /\ begun = [t \in Threads |-> 0]
  /\ nest = [t \in Threads |-> <<>>]
  /\ seen = [t \in Threads |-> <<>>]
  /\ unmatched = [t \in Threads |-> 0]
  /\ missed = [t \in Threads |-> 0]
  /\ starter = [t \in Threads |-> 0]

\* The steps of a begin under way
Handler(t) ==
  \/ Check(t) \/ Recheck(t) \/ Claim(t) \/ Attach(t)
  \/ GiveUp(t) \/ Finish(t) \/ Again(t)

\* The program has made its begins and ended them.
Finished ==
  /\ \A t \in Threads : pc[t] = "app" /\ nest[t] = <<>> /\ begun[t] = MaxBegins
  /\ UNCHANGED vars

Next == (\E t \in Threads : Handler(t) \/ Begin(t) \/ End(t)) \/ Finished

Spec == Init /\ [][Next]_vars

FairSpec == Spec /\ \A t \in Threads : WF_vars(Handler(t))

-----------------------------------------------------------------------------
TypeOK ==
  /\ late \in BOOLEAN /\ dr \in BOOLEAN
  /\ attach_state \in 0..2
  /\ pc \in [Threads -> {"app", "check", "recheck", "claim", "attach", "giveup",
                         "finish", "again"}]
  /\ begun \in [Threads -> 0..MaxBegins]
  /\ nest \in [Threads -> Seq(1..MaxBegins)]
  /\ seen \in [Threads -> Seq(1..MaxBegins)]
  /\ unmatched \in [Threads -> Nat] /\ missed \in [Threads -> Nat]
  /\ starter \in [Threads -> 0..MaxBegins]

\* The client knows the last regions the thread opened, each once and in order:
\* the call made again never shows a region twice, also when two threads attach.
SeenIsSuffix ==
  \A t \in Threads : IsSuffix(seen[t], nest[t])

\* The begin in which DynamoRIO was started is itself seen (perfmark.c:11-14).
StarterIsSeen ==
  \A t \in Threads :
    pc[t] = "app" /\ starter[t] \in ToSet(nest[t]) => starter[t] \in ToSet(seen[t])

\* A begin lost to the attach of another thread never passes for a later one: it
\* shows as an unmatched end, if it ends under DynamoRIO.
LostAreReported ==
  \A t \in Threads : unmatched[t] = missed[t]

\* Every begin returns to the program, once the attach it may call does.
BeginReturns ==
  \A t \in Threads : pc[t] # "app" ~> pc[t] = "app"
=============================================================================
