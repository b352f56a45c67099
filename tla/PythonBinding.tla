--------------------------- MODULE PythonBinding ---------------------------
(***************************************************************************)
(* The Python markers on the C extension: perfmark/python/perfmark.py and  *)
(* _perfmark.c turn `with` blocks, decorated calls, exceptions and keyword *)
(* states into begin, state and end calls, client/drperf.c keeps a frame   *)
(* per begin, and lib/derive.py reads the states back from the trace.      *)
(*                                                                         *)
(* One thread; the client's side of a call is a function of its record     *)
(* (RegionStack has its counts and sequence numbers).  A state is a name   *)
(* and a value, both texts; Ints are the texts of integers.  The fallback  *)
(* on ctypes, and late attach, are left out.  id, declared and later of a  *)
(* frame, abandoned and mixed are history.                                 *)
(***************************************************************************)
EXTENDS Integers, SequencesExt, Ordering

CONSTANTS
  Regions,
  Keywords,    \* the keyword states a region is given: sequences of <<name, value>>
  Ints,        \* values that are integers and no bools
  Wide,        \* those that no long long holds
  Notes,       \* states the program attaches to an open region
  PyStates,    \* KEY_STATES of perfmark.py
  ExtStates,   \* MAX_KEY_STATES of _perfmark.c
  KeyStates,   \* KEY_STATES of the client
  MaxStates, MaxDepth, \* as in the client
  Calibrating, \* PERFMARK_CALIBRATE
  Repeats,     \* calibrate's n
  MaxCalls     \* bound: statements of the program that use markers

ASSUME StatesAssumption ==
  /\ Wide \subseteq Ints /\ "-1" \in Ints \ Wide
  /\ PyStates \in Nat \ {0} /\ ExtStates \in Nat \ {0} /\ KeyStates \in Nat \ {0}
  /\ MaxStates \in Nat /\ MaxDepth \in Nat \ {0}
  /\ Calibrating \in BOOLEAN /\ Repeats \in Nat /\ MaxCalls \in Nat
\* The extension passes on all states that the Python code makes part of a key: 8 and 4.
ASSUME PassedAssumption == PyStates <= ExtStates
\* A keyword is named once, and none has the name of a captured state (a keyword is an
\* identifier, and NAME@exit is none).  A note can have any name, a keyword's too.
ASSUME NamesAssumption ==
  /\ Notes \subseteq STRING \X STRING
  /\ \A s \in Keywords :
       /\ s \in Seq(STRING \X STRING)
       /\ \A i, j \in 1..Len(s) : s[i][1] = s[j][1] => i = j
  /\ \A s, t \in Keywords : \A i \in 1..Len(s), j \in 1..Len(t) : s[i][1] \o "@exit" # t[j][1]

VARIABLES
  client,    \* [stack, trace, unmatched, overflows, stateOver]
  blocks,    \* the program's open `with` blocks, decorated calls and begins
  functions, \* decorated functions: their region objects
  raising,   \* an exception is propagating
  pending,   \* _calibrate_pending
  calls,     \* for the bound, and the next id
  abandoned, \* history: frames whose begin raised, or whose end was skipped
  mixed      \* history: one of them was in a block of its own region
vars == <<client, blocks, functions, raising, pending, calls, abandoned, mixed>>

-----------------------------------------------------------------------------
(***************************************************************************)
(* The client's side of a marker call.                                     *)
(***************************************************************************)
\* pre_begin and pre_begin_v, with begin_common
ClientBegin(c, region, key, id, declared) ==
  LET over == IF Len(key) > KeyStates THEN 1 ELSE 0
      frame == [region |-> region, key |-> SubSeq(key, 1, Min({KeyStates, Len(key)})),
                extra |-> <<>>, id |-> id, declared |-> declared, later |-> <<>>]
  IN  IF Len(c.stack) = MaxDepth
      THEN [c EXCEPT !.overflows = @ + 1, !.stateOver = @ + over]
      ELSE [c EXCEPT !.stack = Append(@, frame), !.stateOver = @ + over]

\* pre_state
NoRoom_bug(f) == Len(f.extra) > MaxStates
NoRoom(f) == Len(f.extra) >= MaxStates
ClientState(c, s) ==
  IF c.stack = <<>> THEN c
  ELSE IF NoRoom(Last(c.stack)) THEN [c EXCEPT !.stateOver = @ + 1]
  ELSE [c EXCEPT !.stack[Len(c.stack)].extra = Append(@, s)]

\* pre_end: the frames above the region's innermost one are closed with it.
ClientEnd(c, region) ==
  LET of == {i \in 1..Len(c.stack) : c.stack[i].region = region}
      at == Max(of)
  IN  IF of = {} THEN [c EXCEPT !.unmatched = @ + 1]
      ELSE [c EXCEPT !.stack = SubSeq(@, 1, at - 1),
                     !.trace = @ \cup {c.stack[i] : i \in at..Len(c.stack)}]

-----------------------------------------------------------------------------
(***************************************************************************)
(* The binding.                                                            *)
(***************************************************************************)
IsKey_bug(key, s) == Len(key) < PyStates
IsKey(key, s) == s[2] \in Ints /\ Len(key) < PyStates

\* _split_state
Split(states) ==
  FoldLeft(LAMBDA acc, s : IF IsKey(acc.key, s) THEN [acc EXCEPT !.key = Append(@, s)]
                           ELSE [acc EXCEPT !.extra = Append(@, s)],
           [key |-> <<>>, extra |-> <<>>], states)

\* region.__init__ and Region_init
Object(region, states) ==
  [region |-> region, key |-> Split(states).key, extra |-> Split(states).extra,
   declared |-> states]

\* PyLong_AsLongLong: -1, with an exception set, for a value that does not fit.
AsLongLong(v) == IF v \in Wide THEN "-1" ELSE v

\* The states Region_enter passes on.
Passed(obj) ==
  [i \in 1..Min({ExtStates, Len(obj.key)}) |-> <<obj.key[i][1], AsLongLong(obj.key[i][2])>>]

\* Region_enter; it raises after its calls have been made.
Enter(c, obj, id) ==
  FoldLeft(ClientState, ClientBegin(c, obj.region, Passed(obj), id, obj.declared), obj.extra)
EnterRaises(obj) == \E i \in 1..Min({ExtStates, Len(obj.key)}) : obj.key[i][2] \in Wide

Marker(c, name) == ClientEnd(ClientBegin(c, name, <<>>, 0, <<>>), name)

\* calibrate: an empty region, and n of them inside another
Calibrate(c) ==
  LET outer == ClientBegin(Marker(c, "_perfmark_calibration_loop"),
                           "_perfmark_calibration_outer", <<>>, 0, <<>>)
  IN  ClientEnd(FoldLeft(LAMBDA d, i : Marker(d, "_perfmark_calibration"), outer,
                         [i \in 1..Repeats |-> i]), "_perfmark_calibration_outer")

\* region.__init__ calibrates before the first region, whoever makes it.
Made == IF pending THEN Calibrate(client) ELSE client

-----------------------------------------------------------------------------
(***************************************************************************)
(* The program.                                                            *)
(***************************************************************************)
Handled == calls < MaxCalls /\ calls' = calls + 1   \* in a finally clause too
Statement == ~raising /\ Handled
Block(obj, kind) == [region |-> obj.region, kind |-> kind, id |-> calls']

\* The frame of the call is left to the ends of the blocks below.
Abandon(c, id, region) ==
  LET left == {i \in 1..Len(c.stack) : c.stack[i].id = id}
  IN  /\ abandoned' = abandoned \cup {c.stack[i].id : i \in left}
      /\ mixed' = (mixed \/ (left # {} /\ \E i \in 1..Len(blocks') : blocks'[i].region = region))

\* `with region(...)` as it starts, or a decorated call: the block is entered, and
\* will be left, only if __enter__ returns.
Start(c, obj, kind) ==
  /\ client' = Enter(c, obj, calls')
  /\ raising' = EnterRaises(obj)
  /\ IF EnterRaises(obj)
     THEN blocks' = blocks /\ Abandon(client', calls', obj.region)
     ELSE blocks' = Append(blocks, Block(obj, "block")) /\ UNCHANGED <<abandoned, mixed>>

With(region, states) ==
  /\ Statement
  /\ Start(Made, Object(region, states), "block")
  /\ pending' = FALSE
  /\ UNCHANGED functions

\* @region(...) on a function
Decorate(region, states) ==
  /\ Statement
  /\ client' = Made /\ pending' = FALSE
  /\ functions' = functions \cup {Object(region, states)}
  /\ UNCHANGED <<blocks, raising, abandoned, mixed>>

Call(f) ==
  /\ Statement /\ f \in functions
  /\ Start(client, f, "block")
  /\ UNCHANGED <<functions, pending>>

\* begin(name, state, value), mod_begin: a value that does not fit raises first.
Begin(region, s) ==
  /\ Statement
  /\ raising' = (s[2] \in Wide)
  /\ IF s[2] \in Wide THEN UNCHANGED <<client, blocks>>
     ELSE /\ client' = ClientBegin(client, region, <<s>>, calls', <<s>>)
          /\ blocks' = Append(blocks, Block([region |-> region], "bare"))
  /\ UNCHANGED <<functions, pending, abandoned, mixed>>

\* The body of the innermost block ends, or end(name) is called: Region_exit.
Leave ==
  /\ ~raising /\ blocks # <<>>
  /\ client' = ClientEnd(client, Last(blocks).region)
  /\ blocks' = Front(blocks)
  /\ UNCHANGED <<functions, raising, pending, calls, abandoned, mixed>>

\* region.state and state; later keeps what the program attached to a frame.
Noted(c, s) ==
  IF c.stack = <<>> THEN c ELSE [c EXCEPT !.stack[Len(c.stack)].later = Append(@, s)]
Attach(s) ==
  /\ Statement
  /\ client' = Noted(ClientState(client, s), s)
  /\ UNCHANGED <<blocks, functions, raising, pending, abandoned, mixed>>

AtExit_bug(s) == <<s[1], "later">>
AtExit(s) == <<s[1] \o "@exit", "later">>

\* capture_exit, of the states declared for the block: in a region of its own
Capture ==
  LET frames == {i \in 1..Len(client.stack) : client.stack[i].id = Last(blocks).id}
      names == client.stack[Max(frames)].declared
  IN  /\ blocks # <<>> /\ frames # {} /\ Handled
      /\ client' = FoldLeft(ClientState, Marker(client, "_perfmark_capture"),
                            [i \in 1..Len(names) |-> AtExit(names[i])])
      /\ UNCHANGED <<blocks, functions, raising, pending, abandoned, mixed>>

\* The program raises, or a handler catches what propagates.
Raise == Statement /\ raising' = TRUE
         /\ UNCHANGED <<client, blocks, functions, pending, abandoned, mixed>>
Catch == raising /\ raising' = FALSE
         /\ UNCHANGED <<client, blocks, functions, pending, calls, abandoned, mixed>>

Unwound_bug(c, b) == c
Unwound(c, b) == IF b.kind = "block" THEN ClientEnd(c, b.region) ELSE c

\* The exception leaves a block: __exit__ and the wrapper's finally clause make the
\* end call and let it propagate; after a begin, end is never reached.
Unwind ==
  /\ raising /\ blocks # <<>>
  /\ blocks' = Front(blocks)
  /\ client' = Unwound(client, Last(blocks))
  /\ IF Last(blocks).kind = "block" THEN UNCHANGED <<abandoned, mixed>>
     ELSE Abandon(client, Last(blocks).id, Last(blocks).region)
  /\ UNCHANGED <<functions, raising, pending, calls>>

Init ==
  /\ client = [stack |-> <<>>, trace |-> {}, unmatched |-> 0, overflows |-> 0, stateOver |-> 0]
  /\ blocks = <<>> /\ functions = {} /\ raising = FALSE /\ pending = Calibrating
  /\ calls = 0 /\ abandoned = {} /\ mixed = FALSE

Finished == calls = MaxCalls /\ UNCHANGED vars

Next ==
  \/ \E r \in Regions, s \in Keywords : With(r, s) \/ Decorate(r, s)
  \/ \E r \in Regions, s \in Keywords : Len(s) = 1 /\ s[1][2] \in Ints /\ Begin(r, s[1])
  \/ \E f \in functions : Call(f)
  \/ \E s \in Notes : Attach(s)
  \/ Leave \/ Capture \/ Raise \/ Catch \/ Unwind
  \/ Finished

Spec == Init /\ [][Next]_vars

-----------------------------------------------------------------------------
TypeOK ==
  /\ \A f \in ToSet(client.stack) \cup client.trace :
       f.id \in 0..calls /\ Len(f.key) <= KeyStates /\ Len(f.extra) <= MaxStates
  /\ Len(client.stack) <= MaxDepth
  /\ client.unmatched \in Nat /\ client.overflows \in Nat /\ client.stateOver \in Nat
  /\ \A b \in ToSet(blocks) : b.region \in Regions /\ b.kind \in {"block", "bare"} /\ b.id \in 1..calls
  /\ \A f \in functions : f.region \in Regions /\ f.declared \in Keywords
  /\ raising \in BOOLEAN /\ pending \in BOOLEAN /\ mixed \in BOOLEAN
  /\ calls \in 0..MaxCalls /\ abandoned \subseteq 1..calls

\* Whatever blocks the program nests, however it leaves them, the client has a frame
\* for each open one, in their order, and besides them only frames that were
\* abandoned: by a begin without its end, or by an __enter__ that raised after
\* its begin call.  Two things break this: a begin beyond MAX_DEPTH, and an abandoned
\* frame in a block of its own region, which the block's end closes for its own.
Bracketed ==
  client.overflows = 0 /\ ~mixed =>
    LET live == {i \in 1..Len(client.stack) : client.stack[i].id \notin abandoned}
    IN  \E at \in [1..Len(blocks) -> live] :
          /\ \A k \in 1..Len(blocks) :
               /\ client.stack[at[k]].id = blocks[k].id
               /\ client.stack[at[k]].region = blocks[k].region
          /\ \A k, l \in 1..Len(blocks) : k < l => at[k] < at[l]
          /\ \A i \in live : \E k \in 1..Len(blocks) : at[k] = i

\* The elements of a sequence at some of its places.
Picked(s, places) ==
  LET at == InOrder([i \in places |-> {j \in places : j < i}])
  IN  [k \in 1..Cardinality(places) |-> s[at[k]]]

\* The "state" object of a trace record, declared states first: of two values of one
\* name a reader keeps the first one's place and the last one's value.
Written(f) == f.key \o f.extra
ReadBack(f) ==
  LET w == Written(f)
      first == {i \in 1..Len(w) : \A j \in 1..i - 1 : w[j][1] # w[i][1]}
      latest == [i \in first |-> w[Max({j \in 1..Len(w) : w[j][1] = w[i][1]})]]
  IN  Picked(latest, first)
\* derive.key_state
KeyState(f) == SubSeq(ReadBack(f), 1, Min({Len(f.key), Len(ReadBack(f))}))

\* The value a reader has to get for a declared state: the one at the block's start,
\* unless the program itself attached one of that name to the frame; then its last one.
Expected(later, s) ==
  LET same == {k \in 1..Len(later) : later[k][1] = s[1]}
  IN  IF same = {} THEN s ELSE later[Max(same)]

\* What lib/derive.py takes for the declared states of a trigger are the first
\* integers among the block's keywords, by name and place, and its other keywords are in
\* the record too, unless a counter says that states were lost.  Their values are those
\* at the block's start but where the program attached a state under a declared name: that
\* one is read in its place, and no counter says so.  Captured states never replace one.
StatesRead ==
  client.overflows = 0 /\ client.stateOver = 0 =>
    \A f \in client.trace : f.id # 0 /\ f.id \notin abandoned =>
      LET ints == Picked(f.declared, {i \in 1..Len(f.declared) : f.declared[i][2] \in Ints})
          first == SubSeq(ints, 1, Min({PyStates, Len(ints)}))
      IN  /\ KeyState(f) = [k \in 1..Len(first) |-> Expected(f.later, first[k])]
          /\ {Expected(f.later, s) : s \in ToSet(f.declared)} \subseteq ToSet(ReadBack(f))
=============================================================================
