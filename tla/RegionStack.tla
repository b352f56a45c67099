--------------------------- MODULE RegionStack ---------------------------
(***************************************************************************)
(* The frames of client/drperf.c: what a begin, an end, a declared state   *)
(* and a thread's exit do to a thread's region stack, its statistics and   *)
(* its trace, and what lib/derive.py reads back from the trace.            *)
(*                                                                         *)
(* Everything here is private to its thread but the counters (sequence     *)
(* numbers, records, losses), which are atomic; so a callback is one step  *)
(* up to its sequence number, and one more per frame it closes.  Time is   *)
(* the thread's instruction count (clock).  System calls, timestamps and   *)
(* the minima and maxima of a key go the way of its sums and are left out. *)
(*                                                                         *)
(* nest, ran, own, above, said and tidy are history: what the program did, *)
(* whatever the client made of it.  An operator whose name ends in _bug is *)
(* the definition after it with a slip, as in MarkerPath.                  *)
(***************************************************************************)
EXTENDS Integers, Sequences, FiniteSetsExt

CONSTANTS
  Threads,
  Keys,        \* region keys
  RegionOf,    \* the region of a key
  MaxDepth,    \* MAX_DEPTH
  MaxStates,   \* MAX_STATES
  TraceLimit,  \* opt_trace: records kept, 0 for no trace
  MaxCalls,    \* bound: marker calls the program makes
  MaxClock     \* bound: instructions a thread runs

ASSUME BoundsAssumption ==
  /\ MaxDepth \in Nat \ {0} /\ MaxStates \in Nat /\ TraceLimit \in Nat
  /\ MaxCalls \in Nat /\ MaxClock \in Nat
ASSUME ThreadsAssumption == IsFiniteSet(Threads)
ASSUME RegionAssumption == RegionOf \in [Keys -> {RegionOf[k] : k \in Keys}]

VARIABLES
  clock,     \* clock[t]: raw TLS slot 0, instructions run
  stack,     \* stack[t]: open frames, outermost first
  closing,   \* closing[t]: the end under way, or Idle
  alive,     \* threads that have not exited
  count,     \* count[t][k]: closed instances of k (kstats_t.count)
  selfSum,   \* selfSum[t][k]: kstats_t.self_sum
  trace,     \* trace[t]: the records written for t
  seq,       \* seq_counter
  records,   \* trace_records, those beyond the limit included
  dropped,   \* trace_dropped
  unmatched, \* unmatched_ends
  overflows, \* depth_overflows
  stateOver, \* state_overflows
  implicit,  \* instances closed by another region's end or by thread exit
  calls,     \* calls made, for the bound
  nest,      \* history: nest[t], the regions the program is in
  ran,       \* history: ran[t][k], instructions it ran innermost in k
  tidy       \* history: threads whose every end was of the innermost region

clientVars  == <<stack, closing, alive, count, selfSum, trace>>
countVars   == <<seq, records, dropped, unmatched, overflows, stateOver, implicit>>
programVars == <<nest, ran, tidy>>
vars == <<clock, clientVars, countVars, calls, programVars>>

Regions == {RegionOf[k] : k \in Keys}
Idle == [to |-> 0, end |-> 0]
Depth(t) == Len(stack[t])
Top(s) == s[Len(s)]
Below(s, i) == {s[j].seq : j \in 1..(i - 1)}   \* the frames below frame i of s

Call == calls < MaxCalls /\ calls' = calls + 1
Outside(t) == t \in alive /\ closing[t] = Idle
NextSeq == IF TraceLimit > 0 THEN seq + 1 ELSE seq

(***************************************************************************)
(* The program and its marker calls.                                       *)
(***************************************************************************)
Add(f, k) == [f EXCEPT ![k] = @ + 1]

\* t runs one instruction.
Run(t) ==
  /\ Outside(t) /\ clock[t] < MaxClock
  /\ clock' = [clock EXCEPT ![t] = @ + 1]
  /\ stack' = IF stack[t] = <<>> THEN stack
              ELSE [stack EXCEPT ![t][Depth(t)].own = @ + 1]
  /\ ran' = IF nest[t] = <<>> THEN ran ELSE [ran EXCEPT ![t] = Add(@, Top(nest[t]))]
  /\ UNCHANGED <<closing, alive, count, selfSum, trace, countVars, calls, nest, tidy>>

HasRoom(t) == Depth(t) < MaxDepth

\* begin_common
Begin(t, k) ==
  /\ Outside(t) /\ Call
  /\ nest' = [nest EXCEPT ![t] = Append(@, k)]
  /\ IF HasRoom(t)
     THEN /\ stack' = [stack EXCEPT ![t] = Append(@,
               [key |-> k, total |-> clock[t], kids |-> 0, seq |-> NextSeq, states |-> 0,
                own |-> 0, said |-> 0, above |-> Below(stack[t], Depth(t) + 1)])]
          /\ seq' = NextSeq
          /\ UNCHANGED overflows
     ELSE /\ overflows' = overflows + 1
          /\ UNCHANGED <<stack, seq>>
  /\ UNCHANGED <<clock, closing, alive, count, selfSum, trace, records, dropped,
                 unmatched, stateOver, implicit, ran, tidy>>

\* The frame pre_end finds: the innermost of the region.
Found(t, r) == {i \in 1..Depth(t) : RegionOf[stack[t][i].key] = r}
Innermost(S) == {i \in S : \A j \in S : j <= i}

\* What an end of r does to the program's own nesting.
Leave(t, r) ==
  LET orderly == nest[t] # <<>> /\ RegionOf[Top(nest[t])] = r
  IN  /\ nest' = IF orderly THEN [nest EXCEPT ![t] = SubSeq(@, 1, Len(@) - 1)] ELSE nest
      /\ tidy' = IF orderly THEN tidy ELSE tidy \ {t}

Strays_bug(t) == IF stack[t] # <<>> THEN unmatched + 1 ELSE unmatched
Strays(t) == unmatched + 1

\* pre_end, up to the sequence number its closes share
End(t, r) ==
  /\ Outside(t) /\ Call
  /\ Leave(t, r)
  /\ IF Found(t, r) = {}
     THEN unmatched' = Strays(t) /\ UNCHANGED <<closing, seq>>
     ELSE /\ \E i \in Innermost(Found(t, r)) :
               closing' = [closing EXCEPT ![t] =
                 [to |-> i, end |-> IF TraceLimit > 0 THEN seq + 1 ELSE 0]]
          /\ seq' = NextSeq
          /\ UNCHANGED unmatched
  /\ UNCHANGED <<clock, stack, alive, count, selfSum, trace, records, dropped,
                 overflows, stateOver, implicit, ran>>

ExitSeq == seq + 1

\* event_thread_exit: every open frame is closed, all of them implicitly.
Exit(t) ==
  /\ Outside(t)
  /\ alive' = alive \ {t}
  /\ seq' = ExitSeq
  /\ closing' = IF stack[t] = <<>> THEN closing
                ELSE [closing EXCEPT ![t] = [to |-> 1, end |-> ExitSeq]]
  /\ UNCHANGED <<clock, stack, count, selfSum, trace, records, dropped, unmatched,
                 overflows, stateOver, implicit, calls, programVars>>

\* The instance is closed by another region's end, or by its thread's exit.
Forced_bug(t) == Depth(t) > closing[t].to
Forced(t) == t \notin alive \/ Depth(t) > closing[t].to

\* What the frame below is charged.
Charge_bug(incl, self) == self
Charge(incl, self) == incl

Lost_bug == dropped
Lost == dropped + 1

\* close_frame with trace_append: the innermost frame, its cost charged to the
\* frame below.  record == 0 < limit is the atomic add against opt_trace.
Close(t) ==
  LET n == Depth(t)
      f == stack[t][n]
      incl == clock[t] - f.total
      self == incl - f.kids
      forced == Forced(t)
      kept == records < TraceLimit
      rest == SubSeq(stack[t], 1, n - 1)
      rec == [key |-> f.key, seq |-> f.seq, end |-> closing[t].end, incl |-> incl,
              self |-> self, states |-> f.states, implicit |-> forced,
              own |-> f.own, said |-> f.said, above |-> f.above]
  IN
  /\ closing[t] # Idle
  /\ count' = [count EXCEPT ![t] = Add(@, f.key)]
  /\ selfSum' = [selfSum EXCEPT ![t][f.key] = @ + self]
  /\ implicit' = IF forced THEN implicit + 1 ELSE implicit
  /\ stack' = [stack EXCEPT ![t] =
                 IF n = 1 THEN rest ELSE [rest EXCEPT ![n - 1].kids = @ + Charge(incl, self)]]
  /\ closing' = IF n = closing[t].to THEN [closing EXCEPT ![t] = Idle] ELSE closing
  /\ IF TraceLimit = 0 THEN UNCHANGED <<trace, records, dropped>>
     ELSE /\ records' = records + 1
          /\ trace' = IF kept THEN [trace EXCEPT ![t] = @ \cup {rec}] ELSE trace
          /\ dropped' = IF kept THEN dropped ELSE Lost
  /\ UNCHANGED <<clock, alive, seq, unmatched, overflows, stateOver, calls, programVars>>

StatesLost == stateOver + 1

\* pre_state: a state declared for the innermost region.
State(t) ==
  /\ Outside(t) /\ Call
  /\ stack[t] # <<>>
  /\ LET f == Top(stack[t])
         room == f.states < MaxStates
     IN  /\ stack' = [stack EXCEPT ![t][Depth(t)] =
                        [f EXCEPT !.said = @ + 1, !.states = IF room THEN @ + 1 ELSE @]]
         /\ stateOver' = IF room THEN stateOver ELSE StatesLost
  /\ UNCHANGED <<clock, closing, alive, count, selfSum, trace, seq, records, dropped,
                 unmatched, overflows, implicit, programVars>>

-----------------------------------------------------------------------------
Init ==
  /\ clock = [t \in Threads |-> 0]
  /\ stack = [t \in Threads |-> <<>>]
  /\ closing = [t \in Threads |-> Idle]
  /\ alive = Threads
  /\ count = [t \in Threads |-> [k \in Keys |-> 0]]
  /\ selfSum = [t \in Threads |-> [k \in Keys |-> 0]]
  /\ trace = [t \in Threads |-> {}]
  /\ seq = 0 /\ records = 0 /\ dropped = 0 /\ unmatched = 0
  /\ overflows = 0 /\ stateOver = 0 /\ implicit = 0 /\ calls = 0
  /\ nest = [t \in Threads |-> <<>>]
  /\ ran = [t \in Threads |-> [k \in Keys |-> 0]]
  /\ tidy = Threads

\* Every thread has exited and its frames are closed.
Finished ==
  /\ alive = {} /\ \A t \in Threads : closing[t] = Idle
  /\ UNCHANGED vars

Next ==
  \/ \E t \in Threads :
       \/ Run(t) \/ Exit(t) \/ Close(t) \/ State(t)
       \/ \E k \in Keys : Begin(t, k)
       \/ \E r \in Regions : End(t, r)
  \/ Finished

Spec == Init /\ [][Next]_vars

-----------------------------------------------------------------------------
Record == [key : Keys, seq : Nat, end : Nat, incl : Int, self : Int,
           states : Nat, implicit : BOOLEAN, own : Nat, said : Nat, above : SUBSET Nat]
Frame == [key : Keys, total : Nat, kids : Int, seq : Nat, states : Nat,
          own : Nat, said : Nat, above : SUBSET Nat]

TypeOK ==
  /\ clock \in [Threads -> Nat]
  /\ stack \in [Threads -> Seq(Frame)]
  /\ closing \in [Threads -> [to : Nat, end : Nat]]
  /\ alive \subseteq Threads
  /\ count \in [Threads -> [Keys -> Nat]]
  /\ selfSum \in [Threads -> [Keys -> Int]]
  /\ trace \in [Threads -> SUBSET Record]
  /\ seq \in Nat /\ records \in Nat /\ dropped \in Nat /\ unmatched \in Nat
  /\ overflows \in Nat /\ stateOver \in Nat /\ implicit \in Nat /\ calls \in Nat
  /\ nest \in [Threads -> Seq(Keys)]
  /\ ran \in [Threads -> [Keys -> Nat]]
  /\ tidy \subseteq Threads
  /\ \A t \in Threads : Depth(t) <= MaxDepth /\ closing[t].to <= Depth(t)

\* The self count of a trigger, computed from clocks and from what its children
\* reported, is the number of instructions run while it was innermost
\* (SPEC.md, Composition), however its frames were closed.
SelfIsOwn ==
  \A t \in Threads : \A r \in trace[t] : r.self = r.own /\ r.incl >= r.self

\* derive.py, nested_map: the triggers whose sequence numbers lie in those of p
\* (before it leaves out those of p's own region).
Inside_strict_bug(t, p) == {r \in trace[t] : p.seq < r.seq /\ r.end < p.end}
Inside_self_bug(t, p) == {r \in trace[t] : p.seq <= r.seq /\ r.end <= p.end}
Inside(t, p) == {r \in trace[t] : p.seq < r.seq /\ r.end <= p.end}

\* What lib/derive.py takes for nested in p is what ran while p was open, also
\* where one end or a thread's exit closed several frames with one number.
NestingIsAncestry ==
  \A t \in Threads : \A p \in trace[t] :
    Inside(t, p) = {r \in trace[t] : p.seq \in r.above}

\* Sequence numbers are those of SPEC.md: no two triggers of any threads share
\* a begin, and each begins before it ends.
BeginsUnique ==
  \A t, u \in Threads : \A p \in trace[t], r \in trace[u] :
    p.seq < p.end /\ (p.seq = r.seq => t = u /\ p = r)

\* The inclusive count of a trigger is its own and its descendants'.
InclIsSubtree ==
  dropped = 0 =>
    \A t \in Threads : \A p \in trace[t] :
      p.incl = p.own + SumFunction([r \in Inside(t, p) |-> r.own])

\* The JSON statistics and the trace tell the same of every key until the trace
\* limit drops a record, and from then on trace_dropped says so.
StatsAreTrace ==
  TraceLimit > 0 /\ dropped = 0 =>
    \A t \in Threads, k \in Keys :
      LET ofKey == {r \in trace[t] : r.key = k}
      IN  /\ count[t][k] = Cardinality(ofKey)
          /\ selfSum[t][k] = SumFunction([r \in ofKey |-> r.self])

AllIdle == \A t \in Threads : closing[t] = Idle

\* Every begin of a program that ends its innermost region is accounted for: it
\* is open, was ended, or shows in a counter.
BooksBalance ==
  AllIdle /\ tidy = Threads =>
    SumFunction([t \in Threads |-> Len(nest[t])]) + unmatched
      = SumFunction([t \in Threads |-> Depth(t)]) + implicit + overflows

\* A program that ends what it begins, and whose run reports no unmatched end,
\* has exactly its own instructions in every key: depth overflow cannot go
\* unnoticed once the regions are closed.  Its triggers have the states that were
\* declared in them, unless the run reports that some were not kept.
SilentMeansExact ==
  \A t \in tidy :
    nest[t] = <<>> /\ closing[t] = Idle /\ unmatched = 0 =>
      /\ selfSum[t] = ran[t]
      /\ stateOver = 0 => \A r \in trace[t] : r.states = r.said

-----------------------------------------------------------------------------
\* lib/runner.py, validity: what a caller of the run is told.
Reported == dropped > 0 \/ unmatched > 0 \/ stateOver > 0

\* runner.py:60-63: the counts stop being exact when the client runs out of
\* room, and validity says what went wrong.
OverflowReported ==
  alive = {} /\ AllIdle /\ overflows > 0 => Reported

-----------------------------------------------------------------------------
(***************************************************************************)
(* The inductive invariant behind SelfIsOwn and NestingIsAncestry.         *)
(***************************************************************************)
\* Where the instructions that frame i runs as the innermost one stop.
Until(t, i) == IF i = Depth(t) THEN clock[t] ELSE stack[t][i + 1].total

ClosingInv == \A t \in Threads : closing[t] = Idle \/ closing[t].to \in 1..Depth(t)

\* The part of a frame's time that its closed children do not account for, nor
\* its open child, is what it ran itself.
FrameInv ==
  \A t \in Threads : \A i \in 1..Depth(t) :
    LET f == stack[t][i]
    IN  f.kids >= 0 /\ f.own = Until(t, i) - f.total - f.kids

\* Sequence numbers grow along the stack, and a frame knows those below it.
SeqInv ==
  \A t \in Threads :
    /\ \A i \in 1..Depth(t) :
         /\ stack[t][i].seq <= seq
         /\ closing[t] # Idle => stack[t][i].seq < closing[t].end
         /\ stack[t][i].above = Below(stack[t], i)
    /\ \A i, j \in 1..Depth(t) : i < j => stack[t][i].seq < stack[t][j].seq
    /\ closing[t].end <= seq

\* A record against the counter and against the end under way.
RecordInv ==
  \A t \in Threads : \A r \in trace[t] :
    /\ r.seq < r.end /\ r.end <= seq
    /\ \A x \in r.above : x < r.seq
    /\ closing[t] # Idle => r.end <= closing[t].end

\* A record against a frame still open: inside it, or over before it began.
OpenInv ==
  \A t \in Threads : \A r \in trace[t], i \in 1..Depth(t) :
    LET b == stack[t][i].seq
    IN  IF b \in r.above THEN b < r.seq ELSE r.end < b

\* No sequence number is used for two begins.
UniqueInv ==
  \A t, u \in Threads :
    /\ \A i \in 1..Depth(t), j \in 1..Depth(u) :
         stack[t][i].seq = stack[u][j].seq => t = u /\ i = j
    /\ \A i \in 1..Depth(t), r \in trace[u] : stack[t][i].seq # r.seq

TraceInv ==
  TraceLimit > 0 =>
    /\ SeqInv /\ RecordInv /\ OpenInv /\ UniqueInv
    /\ NestingIsAncestry /\ BeginsUnique

\* Without a trace there are no records.
UntracedInv == TraceLimit = 0 => \A t \in Threads : trace[t] = {}

IInv ==
  TypeOK /\ ClosingInv /\ FrameInv /\ SelfIsOwn /\ TraceInv /\ UntracedInv
=============================================================================
