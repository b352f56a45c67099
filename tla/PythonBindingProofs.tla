------------------------ MODULE PythonBindingProofs ------------------------
(***************************************************************************)
(* Theorems of PythonBinding, for all regions, keywords, notes and limits. *)
(*                                                                         *)
(* The first part says what the marker calls and the folds of the binding  *)
(* make of the client's record, as far as ids and regions of its frames    *)
(* go: nothing beyond what they open and close, unless a begin overflows.  *)
(* The second is the invariant: open blocks and frames that were not       *)
(* abandoned have the same ids in the same order, and no abandoned frame   *)
(* hides a live one of its region, so that an end closes its own frame.    *)
(*                                                                         *)
(* The third part is about states: what _split_state makes of them, what   *)
(* each call adds to a frame while nothing is lost, the invariant that a   *)
(* frame that was not abandoned tells the states it was given, and that a  *)
(* reader of its record finds them.                                        *)
(***************************************************************************)
EXTENDS PythonBinding, SumLemmas, SequenceTheorems

-----------------------------------------------------------------------------
(***************************************************************************)
(* Types                                                                   *)
(***************************************************************************)
\* (that a literal is in STRING is not known to the provers)
Text == STRING \cup {"-1"}
Pair == Text \X Text
State == Pair \cup {AtExit(s) : s \in Pair}

\* The regions of the binding's own markers.
Own == {"_perfmark_calibration", "_perfmark_calibration_loop",
        "_perfmark_calibration_outer", "_perfmark_capture"}
Names == Regions \cup Own

\* Frames and clients of a program that has made n calls.
Shape(n) == [region : Names, key : Seq(Pair), extra : Seq(State), id : 0..n, declared : Seq(Pair),
             later : Seq(Pair)]
Frame(n) == {f \in Shape(n) : Len(f.key) <= KeyStates /\ Len(f.extra) <= MaxStates}
Client(n) ==
  {c \in [stack : Seq(Frame(n)), trace : SUBSET Frame(n),
          unmatched : Nat, overflows : Nat, stateOver : Nat] : Len(c.stack) <= MaxDepth}

\* The frames of d are those of c, but for their states.
Same(c, d) ==
  /\ Len(d.stack) = Len(c.stack)
  /\ \A i \in 1..Len(c.stack) :
       d.stack[i].id = c.stack[i].id /\ d.stack[i].region = c.stack[i].region
\* Unless a begin was lost on the way.
Keeps(c, d) ==
  /\ c.overflows <= d.overflows
  /\ c.overflows = d.overflows => Same(c, d)
\* The frames of d are those of c and one on top.
OnTop(c, d, region, id) ==
  /\ Len(d.stack) = Len(c.stack) + 1
  /\ d.stack[Len(d.stack)].id = id /\ d.stack[Len(d.stack)].region = region
  /\ \A i \in 1..Len(c.stack) :
       d.stack[i].id = c.stack[i].id /\ d.stack[i].region = c.stack[i].region
Opens(c, d, region, id) ==
  /\ c.overflows <= d.overflows
  /\ c.overflows = d.overflows => OnTop(c, d, region, id)
\* The frames of d are those of c below frame a.
Below(c, d, a) ==
  /\ Len(d.stack) = a - 1
  /\ \A i \in 1..(a - 1) :
       d.stack[i].id = c.stack[i].id /\ d.stack[i].region = c.stack[i].region

-----------------------------------------------------------------------------
(***************************************************************************)
(* Sequences                                                               *)
(***************************************************************************)
\* A sequence and what Append makes of it.
LEMMA AppendIs ==
  ASSUME NEW S, NEW s \in Seq(S), NEW x \in S, NEW r, r = Append(s, x)
  PROVE  /\ Len(s) \in Nat /\ r \in Seq(S) /\ Len(r) = Len(s) + 1
         /\ r[Len(s) + 1] = x /\ \A i \in 1..Len(s) : r[i] = s[i]
OBVIOUS

\* The first elements of a sequence.
LEMMA FirstIs ==
  ASSUME NEW S, NEW s \in Seq(S), NEW n \in Nat, n <= Len(s), NEW r, r = SubSeq(s, 1, n)
  PROVE  r \in Seq(S) /\ Len(r) = n /\ \A i \in 1..n : r[i] = s[i]
<1> DEFINE m == Len(s)
<1>1. m \in Nat /\ n <= m
  OBVIOUS
<1>2. \A i \in 1..n : s[i] \in S
  <2>1. \A i \in 1..n : i \in 1..Len(s)
    BY <1>1
  <2> QED BY <2>1, ElementOfSeq
<1>3. /\ r \in Seq(S) /\ Len(r) = IF 1 <= n THEN n - 1 + 1 ELSE 0
      /\ \A i \in 1..(n - 1 + 1) : r[i] = s[1 + i - 1]
  BY <1>2, SubSeqProperties
<1>4. (IF 1 <= n THEN n - 1 + 1 ELSE 0) = n
  OBVIOUS
<1>5. ASSUME NEW i \in 1..n PROVE r[i] = s[i]
  <2>1. i \in 1..(n - 1 + 1) /\ 1 + i - 1 = i
    OBVIOUS
  <2> QED BY <1>3, <2>1
<1> QED BY <1>3, <1>4, <1>5

\* A sequence without its last element.
LEMMA FrontIs ==
  ASSUME NEW S, NEW s \in Seq(S), s # <<>>, NEW r, r = Front(s)
  PROVE  /\ Len(s) \in Nat \ {0} /\ r \in Seq(S) /\ Len(r) = Len(s) - 1
         /\ \A i \in 1..(Len(s) - 1) : r[i] = s[i]
<1>1. Len(s) \in Nat \ {0}
  OBVIOUS
<1>2. PICK n : n = Len(s) - 1
  OBVIOUS
<1>3. r = SubSeq(s, 1, n)
  BY <1>2 DEF Front
<1>4. n \in Nat /\ n <= Len(s)
  BY <1>1, <1>2
<1>5. r \in Seq(S) /\ Len(r) = n /\ \A i \in 1..n : r[i] = s[i]
  BY <1>3, <1>4, FirstIs
<1> QED BY <1>1, <1>2, <1>5

\* A function over the first numbers is a sequence.
LEMMA FunctionIsSeq ==
  ASSUME NEW S, NEW m \in Nat, NEW f \in [1..m -> S]
  PROVE  f \in Seq(S) /\ Len(f) = m
OBVIOUS

\* The smaller of two numbers.
LEMMA MinOfTwo ==
  ASSUME NEW a \in Nat, NEW b \in Nat
  PROVE  Min({a, b}) \in Nat /\ Min({a, b}) <= a /\ Min({a, b}) <= b
<1>1. \E x \in {a, b} : \A y \in {a, b} : x <= y
  OBVIOUS
<1>2. Min({a, b}) \in {a, b} /\ \A y \in {a, b} : Min({a, b}) <= y
  BY <1>1 DEF Min
<1> QED BY <1>2

-----------------------------------------------------------------------------
(***************************************************************************)
(* The client's side of a call.                                            *)
(***************************************************************************)
\* The parts of a client.
LEMMA ClientIs ==
  ASSUME NEW n \in Nat, NEW c \in Client(n)
  PROVE  /\ c.stack \in Seq(Frame(n)) /\ Len(c.stack) \in Nat /\ Len(c.stack) <= MaxDepth
         /\ \A i \in 1..Len(c.stack) : c.stack[i] \in Frame(n)
         /\ c.trace \subseteq Frame(n)
         /\ c.unmatched \in Nat /\ c.overflows \in Nat /\ c.stateOver \in Nat
<1>1. /\ c.stack \in Seq(Frame(n)) /\ c.trace \subseteq Frame(n) /\ Len(c.stack) <= MaxDepth
      /\ c.unmatched \in Nat /\ c.overflows \in Nat /\ c.stateOver \in Nat
  BY DEF Client
<1>2. \A i \in 1..Len(c.stack) : c.stack[i] \in Frame(n)
  BY <1>1, ElementOfSeq
<1> QED BY <1>1, <1>2, LenProperties

\* And what makes one.
LEMMA IsClient ==
  ASSUME NEW n \in Nat, NEW d, NEW st \in Seq(Frame(n)), Len(st) <= MaxDepth,
         NEW tr \in SUBSET Frame(n), NEW u \in Nat, NEW o \in Nat, NEW v \in Nat,
         d = [stack |-> st, trace |-> tr, unmatched |-> u, overflows |-> o, stateOver |-> v]
  PROVE  d \in Client(n)
BY DEF Client

\* A client is its parts.
LEMMA ClientEta ==
  ASSUME NEW n \in Nat, NEW c \in Client(n)
  PROVE  c = [stack |-> c.stack, trace |-> c.trace, unmatched |-> c.unmatched,
              overflows |-> c.overflows, stateOver |-> c.stateOver]
BY DEF Client

\* A begin pushes one frame, or is counted as an overflow.
LEMMA BeginIs ==
  ASSUME NEW n \in Nat, NEW c \in Client(n), NEW region \in Names, NEW key \in Seq(Pair),
         NEW id \in 0..n, NEW declared \in Seq(Pair),
         NEW d, d = ClientBegin(c, region, key, id, declared)
  PROVE  d \in Client(n) /\ Opens(c, d, region, id)
<1> DEFINE over == IF Len(key) > KeyStates THEN 1 ELSE 0
           m == Min({KeyStates, Len(key)})
           cut == SubSeq(key, 1, m)
           frame == [region |-> region, key |-> cut, extra |-> <<>>, id |-> id, declared |-> declared,
                     later |-> <<>>]
<1>1. over \in Nat /\ m \in Nat /\ m <= KeyStates /\ m <= Len(key)
  BY StatesAssumption, MinOfTwo, LenProperties
<1>2. cut \in Seq(Pair) /\ Len(cut) <= KeyStates
  <2>1. PICK q : q = cut
    OBVIOUS
  <2> HIDE DEF m
  <2>2. q \in Seq(Pair) /\ Len(q) = m
    BY <1>1, <2>1, FirstIs
  <2> QED BY <1>1, <2>1, <2>2
<1> HIDE DEF cut
<1>3. frame \in Frame(n) /\ frame.id = id /\ frame.region = region
  <2>1. <<>> \in Seq(State) /\ Len(<<>>) <= MaxStates /\ <<>> \in Seq(Pair)
    BY StatesAssumption
  <2> QED BY <1>2, <2>1 DEF Frame, Shape
<1>4. d = IF Len(c.stack) = MaxDepth
          THEN [c EXCEPT !.overflows = c.overflows + 1, !.stateOver = c.stateOver + over]
          ELSE [c EXCEPT !.stack = Append(c.stack, frame), !.stateOver = c.stateOver + over]
  BY DEF ClientBegin, cut
<1> HIDE DEF over, frame
<1>5. CASE Len(c.stack) = MaxDepth
  <2>1. d = [stack |-> c.stack, trace |-> c.trace, unmatched |-> c.unmatched,
             overflows |-> c.overflows + 1, stateOver |-> c.stateOver + over]
    BY <1>4, <1>5 DEF Client
  <2>2. d \in Client(n)
    <3>1. /\ c.stack \in Seq(Frame(n)) /\ Len(c.stack) <= MaxDepth
          /\ c.trace \in SUBSET Frame(n) /\ c.unmatched \in Nat
      BY ClientIs
    <3>2. c.overflows + 1 \in Nat /\ c.stateOver + over \in Nat
      BY <1>1, ClientIs
    <3> QED BY <2>1, <3>1, <3>2, IsClient
  <2>3. c.overflows \in Nat /\ d.overflows = c.overflows + 1
    BY <2>1, ClientIs
  <2> QED BY <2>2, <2>3 DEF Opens
<1>6. CASE Len(c.stack) # MaxDepth
  <2> DEFINE st == Append(c.stack, frame)
  <2>1. d = [stack |-> st, trace |-> c.trace, unmatched |-> c.unmatched,
             overflows |-> c.overflows, stateOver |-> c.stateOver + over]
    BY <1>4, <1>6 DEF Client
  <2>2. /\ Len(c.stack) \in Nat /\ st \in Seq(Frame(n)) /\ Len(st) = Len(c.stack) + 1
        /\ st[Len(c.stack) + 1] = frame /\ \A i \in 1..Len(c.stack) : st[i] = c.stack[i]
    BY <1>3, ClientIs, AppendIs
  <2> HIDE DEF st
  <2>3. Len(st) <= MaxDepth
    BY <1>6, <2>2, ClientIs, StatesAssumption
  <2>4. d \in Client(n)
    <3>1. c.trace \in SUBSET Frame(n) /\ c.unmatched \in Nat /\ c.overflows \in Nat
      BY ClientIs
    <3>2. c.stateOver + over \in Nat
      BY <1>1, ClientIs
    <3> QED BY <2>1, <2>2, <2>3, <3>1, <3>2, IsClient
  <2>5. d.stack = st /\ d.overflows = c.overflows /\ c.overflows \in Nat
    BY <2>1, ClientIs
  <2>6. OnTop(c, d, region, id)
    BY <1>3, <2>2, <2>5 DEF OnTop
  <2> QED BY <2>4, <2>5, <2>6 DEF Opens
<1> QED BY <1>5, <1>6

\* The fields of a frame.
LEMMA FrameIs ==
  ASSUME NEW n \in Nat, NEW f \in Frame(n)
  PROVE  /\ f.region \in Names /\ f.key \in Seq(Pair) /\ f.extra \in Seq(State) /\ f.id \in 0..n
         /\ f.declared \in Seq(Pair) /\ Len(f.key) <= KeyStates /\ Len(f.extra) <= MaxStates
         /\ f.later \in Seq(Pair)
         /\ f = [region |-> f.region, key |-> f.key, extra |-> f.extra, id |-> f.id,
                 declared |-> f.declared, later |-> f.later]
BY DEF Frame, Shape

\* A frame with other attached states.
LEMMA WithStates ==
  ASSUME NEW n \in Nat, NEW f \in Frame(n), NEW e
  PROVE  [f EXCEPT !.extra = e]
           = [region |-> f.region, key |-> f.key, extra |-> e, id |-> f.id, declared |-> f.declared,
              later |-> f.later]
<1>1. f \in [region : Names, key : Seq(Pair), extra : Seq(State), id : 0..n, declared : Seq(Pair),
             later : Seq(Pair)]
  BY DEF Frame, Shape
<1> QED BY ONLY <1>1, SMTT(40)

\* A frame with other notes.
LEMMA WithNotes ==
  ASSUME NEW n \in Nat, NEW f \in Frame(n), NEW e
  PROVE  [f EXCEPT !.later = e]
           = [region |-> f.region, key |-> f.key, extra |-> f.extra, id |-> f.id,
              declared |-> f.declared, later |-> e]
<1>1. f \in [region : Names, key : Seq(Pair), extra : Seq(State), id : 0..n, declared : Seq(Pair),
             later : Seq(Pair)]
  BY DEF Frame, Shape
<1> QED BY ONLY <1>1, SMTT(40)

\* A state goes to the innermost frame, or is counted as lost, or goes nowhere.
LEMMA StateIs ==
  ASSUME NEW n \in Nat, NEW c \in Client(n), NEW s \in State,
         NEW d, d = ClientState(c, s)
  PROVE  d \in Client(n) /\ d.overflows = c.overflows /\ Same(c, d)
<1>1. CASE d = c
  BY <1>1 DEF Same
<1>2. CASE d = [c EXCEPT !.stateOver = c.stateOver + 1]
  <2>1. d = [stack |-> c.stack, trace |-> c.trace, unmatched |-> c.unmatched,
             overflows |-> c.overflows, stateOver |-> c.stateOver + 1]
    BY <1>2 DEF Client
  <2>2. /\ c.stack \in Seq(Frame(n)) /\ Len(c.stack) <= MaxDepth /\ c.trace \in SUBSET Frame(n)
        /\ c.unmatched \in Nat /\ c.overflows \in Nat /\ c.stateOver + 1 \in Nat
    BY ClientIs
  <2>3. d \in Client(n)
    BY <2>1, <2>2, IsClient
  <2> QED BY <2>1, <2>3 DEF Same
<1>3. CASE /\ c.stack # <<>> /\ ~NoRoom(Last(c.stack))
           /\ d = [c EXCEPT !.stack[Len(c.stack)].extra = Append(c.stack[Len(c.stack)].extra, s)]
  <2> DEFINE l == Len(c.stack)
             f == c.stack[l]
             e == Append(f.extra, s)
             g == [f EXCEPT !.extra = e]
             st == [c.stack EXCEPT ![l] = g]
  <2>1. l \in Nat \ {0} /\ f \in Frame(n) /\ c.stack \in Seq(Frame(n)) /\ l <= MaxDepth
    <3>1. c.stack \in Seq(Frame(n)) /\ \A i \in 1..Len(c.stack) : c.stack[i] \in Frame(n)
      BY ClientIs
    <3>2. l \in Nat \ {0}
      BY <1>3, <3>1
    <3> QED BY <3>1, <3>2, ClientIs
  <2>2. e \in Seq(State) /\ Len(e) <= MaxStates
    <3>1. f.extra \in Seq(State)
      BY <2>1, FrameIs
    <3>2. PICK x : x = f.extra
      OBVIOUS
    <3>3. e \in Seq(State) /\ Len(e) = Len(x) + 1 /\ Len(x) \in Nat
      BY <3>1, <3>2, AppendIs
    <3>4. ~(Len(x) >= MaxStates)
      BY <1>3, <3>2 DEF NoRoom, Last
    <3> HIDE DEF e
    <3> QED BY <3>3, <3>4, StatesAssumption
  <2> HIDE DEF e
  <2>3. g \in Frame(n) /\ g.id = f.id /\ g.region = f.region
    <3>1. g = [region |-> f.region, key |-> f.key, extra |-> e, id |-> f.id,
               declared |-> f.declared, later |-> f.later]
      BY <2>1, WithStates
    <3> QED BY <2>1, <2>2, <3>1, FrameIs DEF Frame, Shape
  <2>4. /\ st \in Seq(Frame(n)) /\ Len(st) = l /\ st[l] = g
        /\ \A i \in 1..l : i # l => st[i] = c.stack[i]
    BY <2>1, <2>3
  <2>5. d = [stack |-> st, trace |-> c.trace, unmatched |-> c.unmatched,
             overflows |-> c.overflows, stateOver |-> c.stateOver]
    <3>1. d = [c EXCEPT !.stack = st]
      BY <1>3 DEF e
    <3> QED BY <3>1 DEF Client
  <2>6. /\ c.trace \in SUBSET Frame(n) /\ c.unmatched \in Nat /\ c.overflows \in Nat
        /\ c.stateOver \in Nat
    BY ClientIs
  <2> HIDE DEF st
  <2>7. d \in Client(n)
    BY <2>1, <2>4, <2>5, <2>6, IsClient
  <2>8. d.stack = st /\ d.overflows = c.overflows
    BY <2>5
  <2>9. \A i \in 1..l : st[i].id = c.stack[i].id /\ st[i].region = c.stack[i].region
    <3> HIDE DEF g
    <3> QED BY <2>3, <2>4
  <2> QED BY <2>4, <2>7, <2>8, <2>9 DEF Same
<1> QED BY <1>1, <1>2, <1>3 DEF ClientState

\* Frame f becomes e, on top.
Changed(c, d, f, e) ==
  /\ c.stack # <<>> /\ Len(d.stack) = Len(c.stack)
  /\ f = c.stack[Len(c.stack)] /\ e = d.stack[Len(c.stack)]
  /\ \A i \in 1..Len(c.stack) : i # Len(c.stack) => d.stack[i] = c.stack[i]

\* A note is remembered for the innermost frame, if there is one.
LEMMA NotedIs ==
  ASSUME NEW n \in Nat, NEW c \in Client(n), NEW s \in Pair, NEW d, d = Noted(c, s)
  PROVE  /\ d \in Client(n) /\ d.trace = c.trace
         /\ d.overflows = c.overflows /\ d.stateOver = c.stateOver
         /\ \/ c.stack = <<>> /\ d = c
            \/ \E f, e : /\ Changed(c, d, f, e) /\ f \in Frame(n)
                         /\ e.region = f.region /\ e.key = f.key /\ e.id = f.id
                         /\ e.declared = f.declared /\ e.extra = f.extra
                         /\ e.later = Append(f.later, s)
<1>1. /\ c.stack \in Seq(Frame(n)) /\ Len(c.stack) \in Nat /\ Len(c.stack) <= MaxDepth
      /\ c.trace \in SUBSET Frame(n) /\ c.unmatched \in Nat /\ c.overflows \in Nat
      /\ c.stateOver \in Nat
  BY ClientIs
<1>2. CASE c.stack = <<>>
  BY <1>2 DEF Noted
<1>3. CASE c.stack # <<>>
  <2>1. PICK l : l = Len(c.stack) /\ l \in Nat \ {0}
    BY <1>1, <1>3
  <2>2. l \in 1..l
    BY <2>1
  <2>3. PICK f \in Frame(n) : f = c.stack[l]
    BY <1>1, <2>1, <2>2, ElementOfSeq
  <2>4. PICK x : x = Append(f.later, s)
    OBVIOUS
  <2>5. PICK e : e = [f EXCEPT !.later = x]
    OBVIOUS
  <2>6. PICK st : st = [c.stack EXCEPT ![l] = e]
    OBVIOUS
  <2>7. d = [c EXCEPT !.stack = st]
    BY <1>3, <2>1, <2>3, <2>4, <2>5, <2>6 DEF Noted
  <2>8. d = [stack |-> st, trace |-> c.trace, unmatched |-> c.unmatched,
             overflows |-> c.overflows, stateOver |-> c.stateOver]
    BY <2>7 DEF Client
  <2>9. e = [region |-> f.region, key |-> f.key, extra |-> f.extra, id |-> f.id,
             declared |-> f.declared, later |-> x]
    BY <2>3, <2>5, WithNotes
  <2>10. x \in Seq(Pair)
    BY <2>3, <2>4, FrameIs, AppendIs
  <2>11. e \in Frame(n)
    BY <2>3, <2>9, <2>10, FrameIs DEF Frame, Shape
  <2>12. /\ st \in Seq(Frame(n)) /\ Len(st) = l /\ st[l] = e
         /\ \A i \in 1..l : i # l => st[i] = c.stack[i]
    BY <1>1, <2>1, <2>2, <2>6, <2>11
  <2>13. d \in Client(n)
    BY <1>1, <2>1, <2>8, <2>12, IsClient
  <2>14. Changed(c, d, f, e)
    BY <1>3, <2>1, <2>3, <2>8, <2>12 DEF Changed
  <2>15. /\ e.region = f.region /\ e.key = f.key /\ e.id = f.id
         /\ e.declared = f.declared /\ e.extra = f.extra /\ e.later = Append(f.later, s)
    BY <2>4, <2>9
  <2>16. d.trace = c.trace /\ d.overflows = c.overflows /\ d.stateOver = c.stateOver
    BY <2>8
  <2> QED BY <2>13, <2>14, <2>15, <2>16
<1> QED BY <1>2, <1>3

\* It leaves the frames as they are.
LEMMA NotedSame ==
  ASSUME NEW n \in Nat, NEW c \in Client(n), NEW s \in Pair, NEW d, d = Noted(c, s)
  PROVE  Same(c, d)
<1>1. Len(c.stack) \in Nat
  BY ClientIs
<1>2. CASE d = c
  BY <1>2 DEF Same
<1>3. ASSUME NEW f, NEW e, Changed(c, d, f, e), e.region = f.region, e.id = f.id
      PROVE  Same(c, d)
  BY <1>1, <1>3 DEF Changed, Same
<1> QED BY <1>2, <1>3, NotedIs

\* An end closes the frames from the innermost one of its region on.
LEMMA EndIs ==
  ASSUME NEW n \in Nat, NEW c \in Client(n), NEW region, NEW d, d = ClientEnd(c, region)
  PROVE  /\ d \in Client(n) /\ d.overflows = c.overflows
         /\ \A a \in 1..Len(c.stack) :
              c.stack[a].region = region
                /\ (\A i \in 1..Len(c.stack) : c.stack[i].region = region => i <= a)
              => Below(c, d, a)
<1> DEFINE of == {i \in 1..Len(c.stack) : c.stack[i].region = region}
           m == Max(of)
<1>1. d = IF of = {} THEN [c EXCEPT !.unmatched = c.unmatched + 1]
          ELSE [c EXCEPT !.stack = SubSeq(c.stack, 1, m - 1),
                         !.trace = c.trace \cup {c.stack[i] : i \in m..Len(c.stack)}]
  BY DEF ClientEnd
<1>2. /\ c.stack \in Seq(Frame(n)) /\ Len(c.stack) <= MaxDepth /\ Len(c.stack) \in Nat
      /\ c.trace \in SUBSET Frame(n) /\ c.unmatched \in Nat /\ c.overflows \in Nat /\ c.stateOver \in Nat
      /\ \A i \in 1..Len(c.stack) : c.stack[i] \in Frame(n)
  BY ClientIs
<1>3. CASE of = {}
  <2>1. d = [stack |-> c.stack, trace |-> c.trace, unmatched |-> c.unmatched + 1,
             overflows |-> c.overflows, stateOver |-> c.stateOver]
    BY <1>1, <1>3 DEF Client
  <2>2. c.unmatched + 1 \in Nat
    BY <1>2
  <2>3. d \in Client(n)
    BY <1>2, <2>1, <2>2, IsClient
  <2> QED BY <1>3, <2>1, <2>3
<1>4. CASE of # {}
  <2> DEFINE st == SubSeq(c.stack, 1, m - 1)
             tr == c.trace \cup {c.stack[i] : i \in m..Len(c.stack)}
  <2>1. m \in of /\ \A i \in of : i <= m
    <3>1. IsFiniteSet(1..Len(c.stack))
      <4>1. 1 \in Int /\ Len(c.stack) \in Int
        BY <1>2
      <4> QED BY <4>1, FS_Interval
    <3>2. IsFiniteSet(of)
      BY <3>1, FS_Subset
    <3>3. of \subseteq Int
      OBVIOUS
    <3> HIDE DEF of
    <3> QED BY <1>4, <3>2, <3>3, MaxIs
  <2>2. m \in 1..Len(c.stack)
    BY <2>1
  <2> HIDE DEF m
  <2>3. PICK l \in Nat : l = m - 1 /\ l <= Len(c.stack)
    BY <1>2, <2>2
  <2>4. st = SubSeq(c.stack, 1, l)
    BY <2>3
  <2>5. st \in Seq(Frame(n)) /\ Len(st) = l /\ \A i \in 1..l : st[i] = c.stack[i]
    <3> HIDE DEF st
    <3> QED BY <1>2, <2>3, <2>4, FirstIs
  <2>6. Len(st) <= MaxDepth
    <3> HIDE DEF st
    <3> QED BY <1>2, <2>3, <2>5, StatesAssumption
  <2>7. tr \in SUBSET Frame(n)
    BY <1>2, <2>2
  <2>8. d = [stack |-> st, trace |-> tr, unmatched |-> c.unmatched,
             overflows |-> c.overflows, stateOver |-> c.stateOver]
    BY <1>1, <1>4 DEF Client
  <2> HIDE DEF st, tr
  <2>9. d \in Client(n)
    BY <1>2, <2>5, <2>6, <2>7, <2>8, IsClient
  <2>10. d.stack = st /\ d.overflows = c.overflows
    BY <2>8
  <2>11. ASSUME NEW a \in 1..Len(c.stack), c.stack[a].region = region,
                \A i \in 1..Len(c.stack) : c.stack[i].region = region => i <= a
         PROVE  Below(c, d, a)
    <3>1. a = m
      BY <2>1, <2>2, <2>11
    <3> QED BY <2>3, <2>5, <2>10, <3>1 DEF Below
  <2> QED BY <2>9, <2>10, <2>11
<1> QED BY <1>3, <1>4

\* An end closes what was opened last.
LEMMA CloseIs ==
  ASSUME NEW n \in Nat, NEW c \in Client(n), NEW b \in Client(n), NEW name, NEW id,
         Opens(c, b, name, id), NEW d, d = ClientEnd(b, name)
  PROVE  d \in Client(n) /\ Keeps(c, d)
<1>1. /\ d \in Client(n) /\ d.overflows = b.overflows
      /\ \A a \in 1..Len(b.stack) :
           b.stack[a].region = name
             /\ (\A i \in 1..Len(b.stack) : b.stack[i].region = name => i <= a)
           => Below(b, d, a)
  BY EndIs
<1>2. ASSUME OnTop(c, b, name, id) PROVE Same(c, d)
  <2>1. Len(c.stack) \in Nat
    BY ClientIs
  <2>2. /\ Len(b.stack) = Len(c.stack) + 1 /\ b.stack[Len(b.stack)].region = name
        /\ \A i \in 1..Len(c.stack) :
             b.stack[i].id = c.stack[i].id /\ b.stack[i].region = c.stack[i].region
    BY <1>2 DEF OnTop
  <2>3. Below(b, d, Len(b.stack))
    <3>1. Len(b.stack) \in 1..Len(b.stack) /\ \A i \in 1..Len(b.stack) : i <= Len(b.stack)
      BY <2>1, <2>2
    <3> QED BY <1>1, <2>2, <3>1
  <2>4. /\ Len(d.stack) = Len(c.stack)
        /\ \A i \in 1..Len(c.stack) :
             d.stack[i].id = b.stack[i].id /\ d.stack[i].region = b.stack[i].region
    BY <2>1, <2>2, <2>3 DEF Below
  <2> QED BY <2>2, <2>4 DEF Same
<1> QED BY <1>1, <1>2 DEF Opens, Keeps

\* An empty region leaves everything as it was.
LEMMA MarkerIs ==
  ASSUME NEW n \in Nat, NEW c \in Client(n), NEW name \in Names, NEW d, d = Marker(c, name)
  PROVE  d \in Client(n) /\ Keeps(c, d)
<1> DEFINE b == ClientBegin(c, name, <<>>, 0, <<>>)
<1>1. <<>> \in Seq(Pair) /\ 0 \in 0..n
  OBVIOUS
<1>2. b \in Client(n) /\ Opens(c, b, name, 0)
  BY <1>1, BeginIs
<1>3. d = ClientEnd(b, name)
  BY DEF Marker
<1> HIDE DEF b
<1> QED BY <1>2, <1>3, CloseIs

\* What comes after each other keeps what both keep.
LEMMA KeepsTrans ==
  ASSUME NEW n \in Nat, NEW b \in Client(n), NEW c \in Client(n), NEW d \in Client(n),
         Keeps(b, c), Keeps(c, d)
  PROVE  Keeps(b, d)
<1>1. b.overflows \in Nat /\ c.overflows \in Nat /\ d.overflows \in Nat
  BY ClientIs
<1>2. ASSUME b.overflows = d.overflows PROVE Same(b, d)
  <2>1. Same(b, c) /\ Same(c, d)
    BY <1>1, <1>2 DEF Keeps
  <2> QED BY <2>1 DEF Same
<1> QED BY <1>1, <1>2 DEF Keeps

\* And opens what either opens.
LEMMA OpensAfter ==
  ASSUME NEW n \in Nat, NEW b \in Client(n), NEW c \in Client(n), NEW d \in Client(n),
         NEW region, NEW id, Keeps(b, c), Opens(c, d, region, id)
  PROVE  Opens(b, d, region, id)
<1>1. b.overflows \in Nat /\ c.overflows \in Nat /\ d.overflows \in Nat
  BY ClientIs
<1>2. ASSUME b.overflows = d.overflows PROVE OnTop(b, d, region, id)
  <2>1. Same(b, c) /\ OnTop(c, d, region, id)
    BY <1>1, <1>2 DEF Keeps, Opens
  <2> QED BY <2>1 DEF Same, OnTop
<1> QED BY <1>1, <1>2 DEF Keeps, Opens

\* And the other way round.
LEMMA OpensBefore ==
  ASSUME NEW n \in Nat, NEW b \in Client(n), NEW c \in Client(n), NEW d \in Client(n),
         NEW region, NEW id, Opens(b, c, region, id), Keeps(c, d)
  PROVE  Opens(b, d, region, id)
<1>1. b.overflows \in Nat /\ c.overflows \in Nat /\ d.overflows \in Nat
  BY ClientIs
<1>2. ASSUME b.overflows = d.overflows PROVE OnTop(b, d, region, id)
  <2>1. OnTop(b, c, region, id) /\ Same(c, d)
    BY <1>1, <1>2 DEF Keeps, Opens
  <2>2. Len(b.stack) \in Nat
    BY ClientIs
  <2> QED BY <2>1, <2>2 DEF Same, OnTop
<1> QED BY <1>1, <1>2 DEF Keeps, Opens

-----------------------------------------------------------------------------
(***************************************************************************)
(* The folds of the binding.                                               *)
(***************************************************************************)
\* The function that attaching the states of a sequence takes.
StatesFold(g, c, seq) ==
  g = [s \in SUBSET (DOMAIN seq) |->
         IF s = {} THEN c ELSE ClientState(g[s \ {Max(s)}], seq[Max(s)])]
LEMMA StatesUnfold ==
  ASSUME NEW c, NEW seq
  PROVE  FoldLeft(ClientState, c, seq) = (CHOOSE g : StatesFold(g, c, seq))[DOMAIN seq]
BY DEF FoldLeft, MapThenFoldSet, StatesFold

\* What the client is after each of the states.
StatesRun(n, g, c, seq) ==
  /\ g[{}] = c
  /\ \A k \in 1..Len(seq) :
       g[1..(k - 1)] \in Client(n) /\ g[1..k] \in Client(n) /\ g[1..k] = ClientState(g[1..(k - 1)], seq[k])
LEMMA StatesRuns ==
  ASSUME NEW n \in Nat, NEW c \in Client(n), NEW seq \in Seq(State),
         NEW d, d = FoldLeft(ClientState, c, seq)
  PROVE  \E g : StatesRun(n, g, c, seq) /\ d = g[1..Len(seq)]
<1>1. PICK l \in Nat : l = Len(seq) /\ DOMAIN seq = 1..l /\ \A k \in 1..l : seq[k] \in State
  <2>1. Len(seq) \in Nat /\ DOMAIN seq = 1..Len(seq) /\ \A k \in 1..Len(seq) : seq[k] \in State
    BY ElementOfSeq, LenProperties
  <2> QED BY <2>1
<1>2. PICK V : V = Client(n)
  OBVIOUS
<1>3. c \in V /\ \A v \in V, k \in 1..l : ClientState(v, seq[k]) \in V
  <2>1. ASSUME NEW v \in V, NEW k \in 1..l PROVE ClientState(v, seq[k]) \in V
    BY <1>1, <1>2, StateIs
  <2> QED BY <1>2, <2>1
<1>4. \E g : StatesFold(g, c, seq)
  <2> DEFINE step == [p \in V \X (1..l) |-> ClientState(p[1], seq[p[2]])]
  <2>1. \A v \in V, k \in 1..l : step[<<v, k>>] = ClientState(v, seq[k])
    OBVIOUS
  <2>2. Closed(V, step, l)
    BY <1>3, <2>1 DEF Closed
  <2> HIDE DEF step
  <2>3. PICK g : TakenIn(g, V, c, step, l)
    BY <1>3, <2>2, FoldExists
  <2> DEFINE h == [s \in SUBSET (1..l) |-> g[s]]
  <2>4. ASSUME NEW s \in SUBSET (1..l)
        PROVE  h[s] = IF s = {} THEN c ELSE ClientState(h[s \ {Max(s)}], seq[Max(s)])
    <3>1. h[s] = Taken(g, c, step, s)
      BY <2>3 DEF TakenIn
    <3>2. CASE s = {}
      BY <3>1, <3>2 DEF Taken
    <3>3. CASE s # {}
      <4>1. Max(s) \in 1..l
        <5>1. Max(s) \in s
          BY <3>3, LastIn
        <5> QED BY <5>1
      <4>2. s \ {Max(s)} \in SUBSET (1..l)
        OBVIOUS
      <4>3. h[s \ {Max(s)}] = g[s \ {Max(s)}] /\ g[s \ {Max(s)}] \in V
        BY <2>3, <4>2 DEF TakenIn
      <4> HIDE DEF h
      <4>4. Taken(g, c, step, s) = step[<<g[s \ {Max(s)}], Max(s)>>]
        BY <3>3 DEF Taken
      <4> QED BY <2>1, <3>1, <3>3, <4>1, <4>3, <4>4
    <3> QED BY <3>2, <3>3
  <2>5. h = [s \in SUBSET (1..l) |-> IF s = {} THEN c ELSE ClientState(h[s \ {Max(s)}], seq[Max(s)])]
    <3> HIDE DEF h
    <3>1. h = [s \in SUBSET (1..l) |-> h[s]]
      BY DEF h
    <3> QED BY <2>4, <3>1
  <2> HIDE DEF h
  <2>6. StatesFold(h, c, seq)
    BY <1>1, <2>5 DEF StatesFold
  <2> QED BY <2>6
<1>5. PICK g : StatesFold(g, c, seq) /\ d = g[DOMAIN seq]
  BY <1>4, StatesUnfold
<1>6. \A s \in SUBSET (1..l) : g[s] = IF s = {} THEN c ELSE ClientState(g[s \ {Max(s)}], seq[Max(s)])
  BY <1>1, <1>5 DEF StatesFold
<1>7. g[{}] = c
  BY <1>6
<1>8. ASSUME NEW k \in 1..l PROVE g[1..k] = ClientState(g[1..(k - 1)], seq[k])
  <2>1. Max(1..k) = k /\ (1..k) \ {k} = 1..(k - 1)
    BY LastOfAll
  <2>2. 1..k \in SUBSET (1..l) /\ 1..k # {}
    BY FirstOfAll
  <2> QED BY <1>6, <2>1, <2>2
<1>9. ASSUME NEW k \in 0..l PROVE g[1..k] \in V
  <2>1. g[{}] \in V /\ \A j \in 1..k : j \in 1..l
    BY <1>3, <1>7
  <2>2. ASSUME NEW j \in 1..k, g[1..(j - 1)] \in V PROVE g[1..j] \in V
    <3>1. j \in 1..l
      BY <2>1
    <3>2. g[1..j] = ClientState(g[1..(j - 1)], seq[j])
      BY <1>8, <3>1
    <3> QED BY <1>3, <2>2, <3>1, <3>2
  <2>3. k \in Nat
    OBVIOUS
  <2> QED BY <2>1, <2>2, <2>3, FoldKeeps
<1>10. \A k \in 1..l : g[1..(k - 1)] \in V /\ g[1..k] \in V
  BY <1>9
<1>11. StatesRun(n, g, c, seq)
  BY <1>1, <1>2, <1>7, <1>8, <1>10 DEF StatesRun
<1> QED BY <1>1, <1>5, <1>11

\* Attaching states one after the other adds and removes no frame.
LEMMA StatesAre ==
  ASSUME NEW n \in Nat, NEW c \in Client(n), NEW seq \in Seq(State),
         NEW d, d = FoldLeft(ClientState, c, seq)
  PROVE  d \in Client(n) /\ d.overflows = c.overflows /\ Same(c, d)
<1> DEFINE V == {v \in Client(n) : v.overflows = c.overflows /\ Same(c, v)}
<1>1. PICK g : StatesRun(n, g, c, seq) /\ d = g[1..Len(seq)]
  BY StatesRuns
<1>2. Len(seq) \in Nat /\ \A k \in 1..Len(seq) : seq[k] \in State
  BY ElementOfSeq, LenProperties
<1>3. g[{}] \in V
  BY <1>1 DEF StatesRun, Same
<1>4. ASSUME NEW k \in 1..Len(seq), g[1..(k - 1)] \in V PROVE g[1..k] \in V
  <2>1. PICK v, w : v = g[1..(k - 1)] /\ w = g[1..k]
    OBVIOUS
  <2>2. v \in Client(n) /\ w = ClientState(v, seq[k])
    BY <1>1, <2>1 DEF StatesRun
  <2>3. w \in Client(n) /\ w.overflows = v.overflows /\ Same(v, w)
    BY <1>2, <2>2, StateIs
  <2>4. v.overflows = c.overflows /\ Same(c, v)
    BY <1>4, <2>1
  <2>5. Same(c, w)
    BY <2>3, <2>4 DEF Same
  <2> QED BY <2>1, <2>3, <2>4, <2>5
<1> HIDE DEF V
<1>5. g[1..Len(seq)] \in V
  BY <1>2, <1>3, <1>4, FoldKeeps
<1> QED BY <1>1, <1>5 DEF V

\* The function that splitting a sequence of states takes.
Put(acc, s) ==
  IF IsKey(acc.key, s) THEN [acc EXCEPT !.key = Append(@, s)] ELSE [acc EXCEPT !.extra = Append(@, s)]
NoStates == [key |-> <<>>, extra |-> <<>>]
SplitFold(g, seq) ==
  g = [s \in SUBSET (DOMAIN seq) |-> IF s = {} THEN NoStates ELSE Put(g[s \ {Max(s)}], seq[Max(s)])]
LEMMA SplitUnfold ==
  ASSUME NEW seq
  PROVE  Split(seq) = (CHOOSE g : SplitFold(g, seq))[DOMAIN seq]
BY DEF Split, FoldLeft, MapThenFoldSet, SplitFold, Put, NoStates

\* A state goes to the key, or to the other states.
LEMMA PutIs ==
  ASSUME NEW v \in [key : Seq(Pair), extra : Seq(Pair)], NEW s \in Pair
  PROVE  /\ Put(v, s) \in [key : Seq(Pair), extra : Seq(Pair)]
         /\ IsKey(v.key, s) => Put(v, s).key = Append(v.key, s) /\ Put(v, s).extra = v.extra
         /\ ~IsKey(v.key, s) => Put(v, s).key = v.key /\ Put(v, s).extra = Append(v.extra, s)
<1>1. v.key \in Seq(Pair) /\ v.extra \in Seq(Pair)
  OBVIOUS
<1>2. Append(v.key, s) \in Seq(Pair) /\ Append(v.extra, s) \in Seq(Pair)
  BY <1>1, AppendIs
<1>3. Put(v, s) = IF IsKey(v.key, s) THEN [v EXCEPT !.key = Append(v.key, s)]
                  ELSE [v EXCEPT !.extra = Append(v.extra, s)]
  BY DEF Put
<1> QED BY <1>2, <1>3

\* What _split_state has after each of the states.
SplitRun(g, seq) ==
  /\ g[{}] = NoStates
  /\ \A k \in 1..Len(seq) : g[1..k] = Put(g[1..(k - 1)], seq[k])
LEMMA SplitRuns ==
  ASSUME NEW seq \in Seq(Pair)
  PROVE  \E g : SplitRun(g, seq) /\ Split(seq) = g[1..Len(seq)]
<1> DEFINE V == [key : Seq(Pair), extra : Seq(Pair)]
<1>1. PICK l \in Nat : l = Len(seq) /\ DOMAIN seq = 1..l /\ \A k \in 1..l : seq[k] \in Pair
  <2>1. Len(seq) \in Nat /\ DOMAIN seq = 1..Len(seq) /\ \A k \in 1..Len(seq) : seq[k] \in Pair
    BY ElementOfSeq, LenProperties
  <2> QED BY <2>1
<1>2. ASSUME NEW v \in V, NEW k \in 1..l PROVE Put(v, seq[k]) \in V
  BY <1>1, PutIs
<1>3. NoStates \in V
  BY DEF NoStates
<1> HIDE DEF V
<1>4. \E g : SplitFold(g, seq)
  <2> DEFINE step == [p \in V \X (1..l) |-> Put(p[1], seq[p[2]])]
  <2>1. \A v \in V, k \in 1..l : step[<<v, k>>] = Put(v, seq[k])
    OBVIOUS
  <2>2. Closed(V, step, l)
    BY <1>2, <2>1 DEF Closed
  <2> HIDE DEF step
  <2>3. PICK g : TakenIn(g, V, NoStates, step, l)
    BY <1>1, <1>3, <2>2, FoldExists
  <2> DEFINE h == [s \in SUBSET (1..l) |-> g[s]]
  <2>4. ASSUME NEW s \in SUBSET (1..l)
        PROVE  h[s] = IF s = {} THEN NoStates ELSE Put(h[s \ {Max(s)}], seq[Max(s)])
    <3>1. h[s] = Taken(g, NoStates, step, s)
      BY <2>3 DEF TakenIn
    <3>2. CASE s = {}
      BY <3>1, <3>2 DEF Taken
    <3>3. CASE s # {}
      <4>1. Max(s) \in 1..l
        <5>1. Max(s) \in s
          BY <1>1, <3>3, LastIn
        <5> QED BY <5>1
      <4>2. s \ {Max(s)} \in SUBSET (1..l)
        OBVIOUS
      <4>3. h[s \ {Max(s)}] = g[s \ {Max(s)}] /\ g[s \ {Max(s)}] \in V
        BY <2>3, <4>2 DEF TakenIn
      <4> HIDE DEF h
      <4>4. Taken(g, NoStates, step, s) = step[<<g[s \ {Max(s)}], Max(s)>>]
        BY <3>3 DEF Taken
      <4> QED BY <2>1, <3>1, <3>3, <4>1, <4>3, <4>4
    <3> QED BY <3>2, <3>3
  <2>5. h = [s \in SUBSET (1..l) |-> IF s = {} THEN NoStates ELSE Put(h[s \ {Max(s)}], seq[Max(s)])]
    <3> HIDE DEF h
    <3>1. h = [s \in SUBSET (1..l) |-> h[s]]
      BY DEF h
    <3> QED BY <2>4, <3>1
  <2> HIDE DEF h
  <2>6. SplitFold(h, seq)
    BY <1>1, <2>5 DEF SplitFold
  <2> QED BY <2>6
<1>5. PICK g : SplitFold(g, seq) /\ Split(seq) = g[DOMAIN seq]
  BY <1>1, <1>4, SplitUnfold
<1>6. \A s \in SUBSET (1..l) : g[s] = IF s = {} THEN NoStates ELSE Put(g[s \ {Max(s)}], seq[Max(s)])
  BY <1>1, <1>5 DEF SplitFold
<1>7. g[{}] = NoStates
  BY <1>6
<1>8. ASSUME NEW k \in 1..l PROVE g[1..k] = Put(g[1..(k - 1)], seq[k])
  <2>1. Max(1..k) = k /\ (1..k) \ {k} = 1..(k - 1)
    BY <1>1, LastOfAll
  <2>2. 1..k \in SUBSET (1..l) /\ 1..k # {}
    BY <1>1, FirstOfAll
  <2> QED BY <1>6, <2>1, <2>2
<1>9. SplitRun(g, seq)
  BY <1>1, <1>7, <1>8 DEF SplitRun
<1> QED BY <1>1, <1>5, <1>9

\* What it returns are two lists of states.
LEMMA SplitIs ==
  ASSUME NEW seq \in Seq(Pair)
  PROVE  Split(seq).key \in Seq(Pair) /\ Split(seq).extra \in Seq(Pair)
<1> DEFINE V == [key : Seq(Pair), extra : Seq(Pair)]
<1>1. PICK g : SplitRun(g, seq) /\ Split(seq) = g[1..Len(seq)]
  BY SplitRuns
<1>2. Len(seq) \in Nat /\ \A k \in 1..Len(seq) : seq[k] \in Pair
  BY ElementOfSeq, LenProperties
<1>3. g[{}] \in V
  BY <1>1 DEF SplitRun, NoStates
<1>4. ASSUME NEW k \in 1..Len(seq), g[1..(k - 1)] \in V PROVE g[1..k] \in V
  BY <1>1, <1>2, <1>4, PutIs DEF SplitRun
<1> HIDE DEF V
<1>5. g[1..Len(seq)] \in V
  BY <1>2, <1>3, <1>4, FoldKeeps
<1> QED BY <1>1, <1>5 DEF V

\* The function that n empty regions take.
Repeat(d) == Marker(d, "_perfmark_calibration")
RepeatFold(g, c) ==
  g = [s \in SUBSET (1..Repeats) |-> IF s = {} THEN c ELSE Repeat(g[s \ {Max(s)}])]
Repeated(c) == FoldLeft(LAMBDA d, i : Marker(d, "_perfmark_calibration"), c, [i \in 1..Repeats |-> i])
LEMMA RepeatUnfold ==
  ASSUME NEW c
  PROVE  Repeated(c) = (CHOOSE g : RepeatFold(g, c))[1..Repeats]
<1>1. DOMAIN [i \in 1..Repeats |-> i] = 1..Repeats
  OBVIOUS
<1> QED BY <1>1 DEF Repeated, FoldLeft, MapThenFoldSet, RepeatFold, Repeat

\* What the client is after each of them.
RepeatRun(n, g, c) ==
  /\ g[{}] = c
  /\ \A k \in 1..Repeats :
       g[1..(k - 1)] \in Client(n) /\ g[1..k] \in Client(n) /\ g[1..k] = Repeat(g[1..(k - 1)])
LEMMA RepeatRuns ==
  ASSUME NEW n \in Nat, NEW c \in Client(n), NEW d, d = Repeated(c)
  PROVE  \E g : RepeatRun(n, g, c) /\ d = g[1..Repeats]
<1>1. PICK l \in Nat : l = Repeats
  BY StatesAssumption
<1>2. PICK V : V = Client(n)
  OBVIOUS
<1>3. c \in V /\ \A v \in V : Repeat(v) \in V
  <2>1. ASSUME NEW v \in V PROVE Repeat(v) \in V
    BY <1>2, MarkerIs DEF Repeat, Names, Own
  <2> QED BY <1>2, <2>1
<1>4. \E g : RepeatFold(g, c)
  <2> DEFINE step == [p \in V \X (1..l) |-> Repeat(p[1])]
  <2>1. \A v \in V, k \in 1..l : step[<<v, k>>] = Repeat(v)
    OBVIOUS
  <2>2. Closed(V, step, l)
    BY <1>3, <2>1 DEF Closed
  <2> HIDE DEF step
  <2>3. PICK g : TakenIn(g, V, c, step, l)
    BY <1>1, <1>3, <2>2, FoldExists
  <2> DEFINE h == [s \in SUBSET (1..l) |-> g[s]]
  <2>4. ASSUME NEW s \in SUBSET (1..l)
        PROVE  h[s] = IF s = {} THEN c ELSE Repeat(h[s \ {Max(s)}])
    <3>1. h[s] = Taken(g, c, step, s)
      BY <2>3 DEF TakenIn
    <3>2. CASE s = {}
      BY <3>1, <3>2 DEF Taken
    <3>3. CASE s # {}
      <4>1. Max(s) \in 1..l
        <5>1. Max(s) \in s
          BY <1>1, <3>3, LastIn
        <5> QED BY <5>1
      <4>2. s \ {Max(s)} \in SUBSET (1..l)
        OBVIOUS
      <4>3. h[s \ {Max(s)}] = g[s \ {Max(s)}] /\ g[s \ {Max(s)}] \in V
        BY <2>3, <4>2 DEF TakenIn
      <4> HIDE DEF h
      <4>4. Taken(g, c, step, s) = step[<<g[s \ {Max(s)}], Max(s)>>]
        BY <3>3 DEF Taken
      <4> QED BY <2>1, <3>1, <3>3, <4>1, <4>3, <4>4
    <3> QED BY <3>2, <3>3
  <2>5. h = [s \in SUBSET (1..l) |-> IF s = {} THEN c ELSE Repeat(h[s \ {Max(s)}])]
    <3> HIDE DEF h
    <3>1. h = [s \in SUBSET (1..l) |-> h[s]]
      BY DEF h
    <3> QED BY <2>4, <3>1
  <2> HIDE DEF h
  <2>6. RepeatFold(h, c)
    BY <1>1, <2>5 DEF RepeatFold
  <2> QED BY <2>6
<1>5. PICK g : RepeatFold(g, c) /\ d = g[1..l]
  BY <1>1, <1>4, RepeatUnfold
<1>6. \A s \in SUBSET (1..l) : g[s] = IF s = {} THEN c ELSE Repeat(g[s \ {Max(s)}])
  BY <1>1, <1>5 DEF RepeatFold
<1>7. g[{}] = c
  BY <1>6
<1>8. ASSUME NEW k \in 1..l PROVE g[1..k] = Repeat(g[1..(k - 1)])
  <2>1. Max(1..k) = k /\ (1..k) \ {k} = 1..(k - 1)
    BY <1>1, LastOfAll
  <2>2. 1..k \in SUBSET (1..l) /\ 1..k # {}
    BY <1>1, FirstOfAll
  <2> QED BY <1>6, <2>1, <2>2
<1>9. ASSUME NEW k \in 0..l PROVE g[1..k] \in V
  <2>1. g[{}] \in V /\ \A j \in 1..k : j \in 1..l
    BY <1>3, <1>7
  <2>2. ASSUME NEW j \in 1..k, g[1..(j - 1)] \in V PROVE g[1..j] \in V
    <3>1. j \in 1..l
      BY <2>1
    <3>2. g[1..j] = Repeat(g[1..(j - 1)])
      BY <1>8, <3>1
    <3> QED BY <1>3, <2>2, <3>1, <3>2
  <2>3. k \in Nat
    OBVIOUS
  <2> QED BY <2>1, <2>2, <2>3, FoldKeeps
<1>10. \A k \in 1..l : g[1..(k - 1)] \in V /\ g[1..k] \in V
  BY <1>9
<1>11. RepeatRun(n, g, c)
  BY <1>1, <1>2, <1>7, <1>8, <1>10 DEF RepeatRun
<1> QED BY <1>1, <1>5, <1>11

\* Empty regions leave nothing open.
LEMMA RepeatedIs ==
  ASSUME NEW n \in Nat, NEW c \in Client(n), NEW d, d = Repeated(c)
  PROVE  d \in Client(n) /\ Keeps(c, d)
<1> DEFINE V == {v \in Client(n) : Keeps(c, v)}
<1>1. PICK g : RepeatRun(n, g, c) /\ d = g[1..Repeats]
  BY RepeatRuns
<1>2. g[{}] \in V
  <2>1. c.overflows \in Nat
    BY ClientIs
  <2> QED BY <1>1, <2>1 DEF RepeatRun, Keeps, Same
<1>3. ASSUME NEW k \in 1..Repeats, g[1..(k - 1)] \in V PROVE g[1..k] \in V
  <2>1. PICK v, w : v = g[1..(k - 1)] /\ w = g[1..k]
    OBVIOUS
  <2>2. v \in Client(n) /\ w = Repeat(v)
    BY <1>1, <2>1 DEF RepeatRun
  <2>3. w \in Client(n) /\ Keeps(v, w)
    BY <2>2, MarkerIs DEF Repeat, Names, Own
  <2>4. Keeps(c, w)
    BY <1>3, <2>1, <2>2, <2>3, KeepsTrans
  <2> QED BY <2>1, <2>3, <2>4
<1> HIDE DEF V
<1>4. g[1..Repeats] \in V
  BY <1>2, <1>3, StatesAssumption, FoldKeeps
<1> QED BY <1>1, <1>4 DEF V

\* Calibrating leaves nothing open.
LEMMA CalibrateIs ==
  ASSUME NEW n \in Nat, NEW c \in Client(n), NEW d, d = Calibrate(c)
  PROVE  d \in Client(n) /\ Keeps(c, d)
<1> DEFINE name == "_perfmark_calibration_outer"
           loop == "_perfmark_calibration_loop"
<1>1. name \in Names /\ loop \in Names /\ <<>> \in Seq(Pair) /\ 0 \in 0..n
  BY DEF Names, Own
<1>2. PICK m : m = Marker(c, loop)
  OBVIOUS
<1>3. PICK o : o = ClientBegin(m, name, <<>>, 0, <<>>)
  OBVIOUS
<1>4. PICK r : r = Repeated(o)
  OBVIOUS
<1>5. d = ClientEnd(r, name)
  BY <1>2, <1>3, <1>4 DEF Calibrate, Repeated
<1> HIDE DEF name, loop
<1>6. m \in Client(n) /\ Keeps(c, m)
  BY <1>1, <1>2, MarkerIs
<1>7. o \in Client(n) /\ Opens(m, o, name, 0)
  BY <1>1, <1>3, <1>6, BeginIs
<1>8. r \in Client(n) /\ Keeps(o, r)
  BY <1>4, <1>7, RepeatedIs
<1>9. Opens(m, r, name, 0)
  BY <1>6, <1>7, <1>8, OpensBefore
<1>10. d \in Client(n) /\ Keeps(m, d)
  BY <1>5, <1>6, <1>8, <1>9, CloseIs
<1> QED BY <1>6, <1>10, KeepsTrans

-----------------------------------------------------------------------------
(***************************************************************************)
(* The binding's calls.                                                    *)
(***************************************************************************)
Objects == {Object(r, s) : r \in Regions, s \in Keywords}

\* Sequences of declared states may be attached.
LEMMA PairsAreStates == ASSUME NEW s \in Seq(Pair) PROVE s \in Seq(State)
<1>1. \A i \in 1..Len(s) : s[i] \in State
  BY ElementOfSeq DEF State
<1>2. PICK m \in Nat : m = Len(s) /\ s \in [1..m -> State]
  <2>1. s = [i \in 1..Len(s) |-> s[i]] /\ Len(s) \in Nat
    BY LenProperties
  <2> QED BY <1>1, <2>1
<1> QED BY <1>2, FunctionIsSeq

\* Keywords are sequences of such pairs.
LEMMA KeywordIs == ASSUME NEW s \in Keywords PROVE s \in Seq(Pair) /\ Len(s) \in Nat
<1>1. s \in Seq(STRING \X STRING)
  BY NamesAssumption
<1>2. \A i \in 1..Len(s) : s[i] \in STRING \X STRING
  BY <1>1, ElementOfSeq
<1>3. \A i \in 1..Len(s) : s[i] \in Pair
  BY <1>2 DEF Pair, Text
<1>4. PICK m \in Nat : m = Len(s) /\ s \in [1..m -> Pair]
  <2>1. s = [i \in 1..Len(s) |-> s[i]] /\ Len(s) \in Nat
    BY <1>1, LenProperties
  <2> QED BY <1>3, <2>1
<1> QED BY <1>4, FunctionIsSeq

\* What a region object holds.
LEMMA ObjectIs ==
  ASSUME NEW obj \in Objects
  PROVE  /\ obj.region \in Regions /\ obj.region \in Names /\ obj.declared \in Keywords
         /\ obj.key \in Seq(Pair) /\ obj.extra \in Seq(Pair) /\ obj.declared \in Seq(Pair)
<1>1. PICK r \in Regions, s \in Keywords : obj = Object(r, s)
  BY DEF Objects
<1>2. s \in Seq(Pair)
  BY KeywordIs
<1>3. Split(s).key \in Seq(Pair) /\ Split(s).extra \in Seq(Pair)
  BY <1>2, SplitIs
<1>4. /\ obj.region = r /\ obj.key = Split(s).key /\ obj.extra = Split(s).extra
      /\ obj.declared = s
  BY <1>1 DEF Object
<1> QED BY <1>2, <1>3, <1>4 DEF Names

\* The states the extension passes on.
LEMMA PassedIs ==
  ASSUME NEW obj \in Objects
  PROVE  Passed(obj) \in Seq(Pair)
<1> DEFINE m == Min({ExtStates, Len(obj.key)})
<1>1. obj.key \in Seq(Pair) /\ Len(obj.key) \in Nat
  BY ObjectIs, LenProperties
<1>2. m \in Nat /\ m <= Len(obj.key)
  BY <1>1, StatesAssumption, MinOfTwo
<1>3. \A i \in 1..m : obj.key[i] \in Pair
  <2> HIDE DEF m
  <2>1. \A i \in 1..m : i \in 1..Len(obj.key)
    BY <1>1, <1>2
  <2> QED BY <1>1, <2>1, ElementOfSeq
<1>4. \A i \in 1..m : <<obj.key[i][1], AsLongLong(obj.key[i][2])>> \in Pair
  <2> HIDE DEF m
  <2> TAKE i \in 1..m
  <2>1. PICK p \in Text \X Text : p = obj.key[i]
    BY <1>3 DEF Pair
  <2>2. p[1] \in Text /\ p[2] \in Text
    OBVIOUS
  <2>3. AsLongLong(p[2]) \in Text
    BY <2>2 DEF AsLongLong, Text
  <2> QED BY <2>1, <2>2, <2>3 DEF Pair
<1>5. Passed(obj) \in [1..m -> Pair]
  BY <1>4 DEF Passed
<1> HIDE DEF m
<1> QED BY <1>2, <1>5, FunctionIsSeq

\* Entering a block opens its frame.
LEMMA EnterIs ==
  ASSUME NEW n \in Nat, NEW c \in Client(n), NEW obj \in Objects, NEW id \in 0..n,
         NEW d, d = Enter(c, obj, id)
  PROVE  d \in Client(n) /\ Opens(c, d, obj.region, id)
<1>1. PICK b : b = ClientBegin(c, obj.region, Passed(obj), id, obj.declared)
  OBVIOUS
<1>2. d = FoldLeft(ClientState, b, obj.extra)
  BY <1>1 DEF Enter
<1>3. b \in Client(n) /\ Opens(c, b, obj.region, id)
  <2>1. obj.region \in Names /\ Passed(obj) \in Seq(Pair) /\ obj.declared \in Seq(Pair)
    BY ObjectIs, PassedIs
  <2> QED BY <1>1, <2>1, BeginIs
<1>4. d \in Client(n) /\ d.overflows = b.overflows /\ Same(b, d)
  <2>1. obj.extra \in Seq(State)
    BY ObjectIs, PairsAreStates
  <2> QED BY <1>2, <1>3, <2>1, StatesAre
<1>5. Keeps(b, d)
  <2>1. b.overflows \in Nat
    BY <1>3, ClientIs
  <2> QED BY <1>4, <2>1 DEF Keeps
<1> QED BY <1>3, <1>4, <1>5, OpensBefore

\* What was true of a program of n calls is true of one of more.
LEMMA ClientGrows ==
  ASSUME NEW n \in Nat, NEW m \in Nat, n <= m, NEW c \in Client(n)
  PROVE  c \in Client(m)
<1>1. Frame(n) \subseteq Frame(m)
  BY DEF Frame, Shape
<1>2. c.stack \in Seq(Frame(m)) /\ Len(c.stack) <= MaxDepth
  <2>1. c.stack \in Seq(Frame(n)) /\ Len(c.stack) \in Nat /\ \A i \in 1..Len(c.stack) : c.stack[i] \in Frame(m)
    BY <1>1, ClientIs
  <2>2. PICK l \in Nat : l = Len(c.stack) /\ c.stack \in [1..l -> Frame(m)]
    <3>1. c.stack = [i \in 1..Len(c.stack) |-> c.stack[i]]
      BY <2>1, LenProperties
    <3> QED BY <2>1, <3>1
  <2>3. c.stack \in Seq(Frame(m))
    BY <2>2, FunctionIsSeq
  <2> QED BY <2>3, ClientIs
<1>3. /\ c.trace \in SUBSET Frame(m) /\ c.unmatched \in Nat /\ c.overflows \in Nat
      /\ c.stateOver \in Nat
  BY <1>1, ClientIs
<1> QED BY <1>2, <1>3, ClientEta, IsClient

-----------------------------------------------------------------------------
(***************************************************************************)
(* The invariant.                                                          *)
(***************************************************************************)
BlockType == [region : Regions, kind : {"block", "bare"}, id : Nat]

Types ==
  /\ client \in Client(calls) /\ blocks \in Seq(BlockType) /\ functions \subseteq Objects
  /\ raising \in BOOLEAN /\ pending \in BOOLEAN /\ mixed \in BOOLEAN
  /\ calls \in 0..MaxCalls /\ abandoned \subseteq 1..calls

BlocksAreCalls(bl, n) == \A k \in 1..Len(bl) : bl[k].id \in 1..n

\* Of frames st, blocks bl and abandoned ids ab of a program that has made n calls: frames
\* and blocks are in the order of their calls;
FramesRise(st, n) ==
  /\ \A i \in 1..Len(st) : st[i].id \in 1..n
  /\ \A i, j \in 1..Len(st) : i < j => st[i].id < st[j].id
BlocksRise(bl) == \A k, l \in 1..Len(bl) : k < l => bl[k].id < bl[l].id
\* a block has a frame, and a frame a block unless it was abandoned;
HasFrame(st, bl, ab) ==
  \A k \in 1..Len(bl) :
    /\ bl[k].id \notin ab
    /\ \E i \in 1..Len(st) : st[i].id = bl[k].id /\ st[i].region = bl[k].region
HasBlock(st, bl, ab) ==
  \A i \in 1..Len(st) : st[i].id \notin ab => \E k \in 1..Len(bl) : bl[k].id = st[i].id
\* and the end of a block finds its own frame before an abandoned one.
NotHidden(st, ab) ==
  \A i, j \in 1..Len(st) :
    i < j /\ st[i].id \notin ab /\ st[j].id \in ab => st[i].region # st[j].region

Bracket(st, bl, ab, n) ==
  /\ FramesRise(st, n) /\ BlocksAreCalls(bl, n) /\ BlocksRise(bl)
  /\ HasFrame(st, bl, ab) /\ HasBlock(st, bl, ab) /\ NotHidden(st, ab)

BracketInv == client.overflows = 0 /\ ~mixed => Bracket(client.stack, blocks, abandoned, calls)

IInv == Types /\ BlocksAreCalls(blocks, calls) /\ BracketInv

-----------------------------------------------------------------------------
(***************************************************************************)
(* What opening, closing and abandoning do to it.                          *)
(***************************************************************************)
\* The same frames, after more calls.
LEMMA SameBracket ==
  ASSUME NEW c, NEW d, NEW bl, NEW ab, NEW n \in Nat, NEW m \in Nat, n <= m,
         Bracket(c.stack, bl, ab, n), Same(c, d)
  PROVE  Bracket(d.stack, bl, ab, m)
<1>1. /\ Len(d.stack) = Len(c.stack)
      /\ \A i \in 1..Len(c.stack) :
           d.stack[i].id = c.stack[i].id /\ d.stack[i].region = c.stack[i].region
  BY DEF Same
<1>2. FramesRise(d.stack, m)
  BY <1>1 DEF Bracket, FramesRise
<1>3. BlocksAreCalls(bl, m) /\ BlocksRise(bl)
  BY DEF Bracket, BlocksAreCalls
<1>4. HasFrame(d.stack, bl, ab) /\ HasBlock(d.stack, bl, ab)
  BY <1>1 DEF Bracket, HasFrame, HasBlock
<1>5. NotHidden(d.stack, ab)
  BY <1>1 DEF Bracket, NotHidden
<1> QED BY <1>2, <1>3, <1>4, <1>5 DEF Bracket

\* A frame on top that is the newest call's.
LEMMA TopRises ==
  ASSUME NEW n \in Nat, NEW c \in Client(n), NEW d, NEW region, FramesRise(c.stack, n),
         OnTop(c, d, region, n + 1)
  PROVE  FramesRise(d.stack, n + 1)
<1>1. Len(c.stack) \in Nat
  BY ClientIs
<1>2. /\ Len(d.stack) = Len(c.stack) + 1 /\ d.stack[Len(c.stack) + 1].id = n + 1
      /\ \A i \in 1..Len(c.stack) : d.stack[i].id = c.stack[i].id
  BY DEF OnTop
<1>3. \A i \in 1..Len(c.stack) : d.stack[i].id \in 1..n
  BY <1>2 DEF FramesRise
<1>4. ASSUME NEW i \in 1..Len(d.stack), NEW j \in 1..Len(d.stack), i < j
      PROVE  d.stack[i].id < d.stack[j].id
  <2>1. i \in 1..Len(c.stack)
    BY <1>1, <1>2, <1>4
  <2>2. CASE j = Len(c.stack) + 1
    BY <1>2, <1>3, <2>1, <2>2
  <2>3. CASE j \in 1..Len(c.stack)
    BY <1>2, <1>4, <2>1, <2>3 DEF FramesRise
  <2> QED BY <1>1, <1>2, <2>2, <2>3
<1>5. ASSUME NEW i \in 1..Len(d.stack) PROVE d.stack[i].id \in 1..(n + 1)
  <2>1. i \in 1..Len(c.stack) \/ i = Len(c.stack) + 1
    BY <1>1, <1>2
  <2>2. CASE i \in 1..Len(c.stack)
    <3>1. d.stack[i].id \in 1..n
      BY <1>3, <2>2
    <3> QED BY <3>1
  <2>3. CASE i = Len(c.stack) + 1
    <3>1. n + 1 \in 1..(n + 1)
      OBVIOUS
    <3> QED BY <1>2, <2>3, <3>1
  <2> QED BY <2>1, <2>2, <2>3
<1> QED BY <1>4, <1>5 DEF FramesRise

\* A block entered.
LEMMA OpenBracket ==
  ASSUME NEW n \in Nat, NEW c \in Client(n), NEW d, NEW bl \in Seq(BlockType), NEW ab,
         ab \subseteq 1..n, Bracket(c.stack, bl, ab, n),
         NEW b \in BlockType, b.id = n + 1, OnTop(c, d, b.region, n + 1)
  PROVE  Bracket(d.stack, Append(bl, b), ab, n + 1)
<1> DEFINE e == Append(bl, b)
           l == Len(c.stack)
<1>1. l \in Nat
  BY ClientIs
<1>2. /\ Len(d.stack) = l + 1 /\ d.stack[l + 1].id = n + 1 /\ d.stack[l + 1].region = b.region
      /\ \A i \in 1..l :
           d.stack[i].id = c.stack[i].id /\ d.stack[i].region = c.stack[i].region
  BY DEF OnTop
<1>3. /\ Len(bl) \in Nat /\ Len(e) = Len(bl) + 1 /\ e[Len(bl) + 1] = b
      /\ \A i \in 1..Len(bl) : e[i] = bl[i]
  BY AppendIs
<1> HIDE DEF e, l
<1>4. FramesRise(d.stack, n + 1)
  BY TopRises DEF Bracket
<1>5. \A k \in 1..Len(bl) : bl[k].id \in 1..n
  BY DEF Bracket, BlocksAreCalls
<1>6. BlocksAreCalls(e, n + 1)
  <2>1. ASSUME NEW k \in 1..Len(e) PROVE e[k].id \in 1..(n + 1)
    <3>1. CASE k \in 1..Len(bl)
      <4>1. e[k].id \in 1..n
        BY <1>3, <1>5, <3>1
      <4> QED BY <4>1
    <3>2. CASE k = Len(bl) + 1
      <4>1. e[k].id = n + 1
        BY <1>3, <3>2
      <4> QED BY <4>1
    <3> QED BY <1>3, <3>1, <3>2
  <2> QED BY <2>1 DEF BlocksAreCalls
<1>7. BlocksRise(e)
  <2>1. ASSUME NEW k \in 1..Len(e), NEW m \in 1..Len(e), k < m PROVE e[k].id < e[m].id
    <3>1. k \in 1..Len(bl)
      BY <1>3, <2>1
    <3>2. CASE m = Len(bl) + 1
      <4>1. e[k].id \in 1..n /\ e[m].id = n + 1
        BY <1>3, <1>5, <3>1, <3>2
      <4> QED BY <4>1
    <3>3. CASE m \in 1..Len(bl)
      BY <1>3, <2>1, <3>1, <3>3 DEF Bracket, BlocksRise
    <3> QED BY <1>3, <3>2, <3>3
  <2> QED BY <2>1 DEF BlocksRise
<1>8. ~(n + 1 \in ab)
  <2>1. ~(n + 1 \in 1..n)
    OBVIOUS
  <2> QED BY <2>1
<1>9. HasFrame(d.stack, e, ab)
  <2>1. ASSUME NEW k \in 1..Len(e)
        PROVE  /\ e[k].id \notin ab
               /\ \E i \in 1..Len(d.stack) : d.stack[i].id = e[k].id /\ d.stack[i].region = e[k].region
    <3>1. CASE k \in 1..Len(bl)
      <4>1. /\ bl[k].id \notin ab
            /\ \E i \in 1..l : c.stack[i].id = bl[k].id /\ c.stack[i].region = bl[k].region
        BY <3>1 DEF Bracket, HasFrame, l
      <4>2. \A i \in 1..l : i \in 1..Len(d.stack)
        BY <1>1, <1>2
      <4> QED BY <1>2, <1>3, <3>1, <4>1, <4>2
    <3>2. CASE k = Len(bl) + 1
      <4>1. e[k] = b /\ l + 1 \in 1..Len(d.stack)
        BY <1>1, <1>2, <1>3, <3>2
      <4> QED BY <1>2, <1>8, <4>1
    <3> QED BY <1>3, <3>1, <3>2
  <2> QED BY <2>1 DEF HasFrame
<1>10. HasBlock(d.stack, e, ab)
  <2>1. ASSUME NEW i \in 1..Len(d.stack), d.stack[i].id \notin ab
        PROVE  \E k \in 1..Len(e) : e[k].id = d.stack[i].id
    <3>1. CASE i \in 1..l
      <4>1. \E k \in 1..Len(bl) : bl[k].id = c.stack[i].id
        BY <1>2, <2>1, <3>1 DEF Bracket, HasBlock, l
      <4>2. \A k \in 1..Len(bl) : k \in 1..Len(e)
        BY <1>3
      <4> QED BY <1>2, <1>3, <3>1, <4>1, <4>2
    <3>2. CASE i = l + 1
      <4>1. Len(bl) + 1 \in 1..Len(e)
        BY <1>3
      <4> QED BY <1>2, <1>3, <3>2, <4>1
    <3> QED BY <1>1, <1>2, <3>1, <3>2
  <2> QED BY <2>1 DEF HasBlock
<1>11. NotHidden(d.stack, ab)
  <2>1. ASSUME NEW i \in 1..Len(d.stack), NEW j \in 1..Len(d.stack),
               i < j, d.stack[i].id \notin ab, d.stack[j].id \in ab
        PROVE  d.stack[i].region # d.stack[j].region
    <3>1. j # l + 1
      BY <1>2, <1>8, <2>1
    <3>2. i \in 1..l /\ j \in 1..l
      BY <1>1, <1>2, <2>1, <3>1
    <3> QED BY <1>2, <2>1, <3>2 DEF Bracket, NotHidden, l
  <2> QED BY <2>1 DEF NotHidden
<1> QED BY <1>4, <1>6, <1>7, <1>9, <1>10, <1>11 DEF Bracket, e

\* A block that was not entered, but whose frame is there.
LEMMA RaisedBracket ==
  ASSUME NEW n \in Nat, NEW c \in Client(n), NEW d, NEW bl \in Seq(BlockType), NEW ab,
         ab \subseteq 1..n, Bracket(c.stack, bl, ab, n),
         NEW region, OnTop(c, d, region, n + 1),
         \A k \in 1..Len(bl) : bl[k].region # region
  PROVE  Bracket(d.stack, bl, ab \cup {n + 1}, n + 1)
<1> DEFINE l == Len(c.stack)
           aa == ab \cup {n + 1}
<1>1. l \in Nat
  BY ClientIs
<1>2. /\ Len(d.stack) = l + 1 /\ d.stack[l + 1].id = n + 1 /\ d.stack[l + 1].region = region
      /\ \A i \in 1..l :
           d.stack[i].id = c.stack[i].id /\ d.stack[i].region = c.stack[i].region
  BY DEF OnTop
<1>3. FramesRise(d.stack, n + 1)
  BY TopRises DEF Bracket
<1>4. \A k \in 1..Len(bl) : bl[k].id \in 1..n
  BY DEF Bracket, BlocksAreCalls
<1>5. \A i \in 1..l : c.stack[i].id \in 1..n
  BY DEF Bracket, FramesRise, l
<1>6. \A x \in 1..n : x # n + 1 /\ x \in 1..(n + 1) /\ (x \in aa <=> x \in ab)
  OBVIOUS
<1> HIDE DEF l, aa
<1>7. BlocksAreCalls(bl, n + 1) /\ BlocksRise(bl)
  BY <1>4, <1>6 DEF Bracket, BlocksAreCalls
<1>8. HasFrame(d.stack, bl, aa)
  <2>1. ASSUME NEW k \in 1..Len(bl)
        PROVE  /\ bl[k].id \notin aa
               /\ \E i \in 1..Len(d.stack) : d.stack[i].id = bl[k].id /\ d.stack[i].region = bl[k].region
    <3>1. /\ bl[k].id \notin ab
          /\ \E i \in 1..l : c.stack[i].id = bl[k].id /\ c.stack[i].region = bl[k].region
      BY DEF Bracket, HasFrame, l
    <3>2. \A i \in 1..l : i \in 1..Len(d.stack)
      BY <1>1, <1>2
    <3> QED BY <1>2, <1>4, <1>6, <3>1, <3>2
  <2> QED BY <2>1 DEF HasFrame
<1>9. n + 1 \in aa
  BY DEF aa
<1>10. HasBlock(d.stack, bl, aa)
  <2>1. ASSUME NEW i \in 1..Len(d.stack), d.stack[i].id \notin aa
        PROVE  \E k \in 1..Len(bl) : bl[k].id = d.stack[i].id
    <3>1. i \in 1..l
      BY <1>1, <1>2, <1>9, <2>1
    <3>2. c.stack[i].id \notin ab
      BY <1>2, <1>5, <1>6, <2>1, <3>1
    <3> QED BY <1>2, <3>1, <3>2 DEF Bracket, HasBlock, l
  <2> QED BY <2>1 DEF HasBlock
<1>11. NotHidden(d.stack, aa)
  <2>1. ASSUME NEW i \in 1..Len(d.stack), NEW j \in 1..Len(d.stack),
               i < j, d.stack[i].id \notin aa, d.stack[j].id \in aa
        PROVE  d.stack[i].region # d.stack[j].region
    <3>1. i \in 1..l
      BY <1>1, <1>2, <2>1
    <3>2. c.stack[i].id \notin ab /\ d.stack[i].region = c.stack[i].region
      BY <1>2, <1>5, <1>6, <2>1, <3>1
    <3>3. CASE j = l + 1
      <4>1. PICK k \in 1..Len(bl) : bl[k].id = c.stack[i].id
        BY <3>1, <3>2 DEF Bracket, HasBlock, l
      <4>2. PICK x \in 1..l : c.stack[x].id = bl[k].id /\ c.stack[x].region = bl[k].region
        BY DEF Bracket, HasFrame, l
      <4>3. x = i
        <5>1. x \in Int /\ i \in Int /\ ~(x < i) /\ ~(i < x)
          <6>1. ~(x < i) /\ ~(i < x)
            <7>1. c.stack[x].id = c.stack[i].id /\ c.stack[x].id \in 1..n
              BY <1>5, <4>1, <4>2
            <7>2. x < i => c.stack[x].id < c.stack[i].id
              BY <3>1 DEF Bracket, FramesRise, l
            <7>3. i < x => c.stack[i].id < c.stack[x].id
              BY <3>1 DEF Bracket, FramesRise, l
            <7> QED BY <7>1, <7>2, <7>3
          <6> QED BY <1>1, <3>1, <6>1
        <5> QED BY <5>1
      <4> QED BY <1>2, <3>2, <3>3, <4>2, <4>3
    <3>4. CASE j \in 1..l
      <4>1. c.stack[j].id \in ab /\ d.stack[j].region = c.stack[j].region
        BY <1>2, <1>5, <1>6, <2>1, <3>4
      <4> QED BY <2>1, <3>1, <3>2, <3>4, <4>1 DEF Bracket, NotHidden, l
    <3> QED BY <1>1, <1>2, <3>3, <3>4
  <2> QED BY <2>1 DEF NotHidden
<1> QED BY <1>3, <1>7, <1>8, <1>10, <1>11 DEF Bracket, aa

\* The blocks without the innermost one.
LEMMA InnerBlocks ==
  ASSUME NEW n \in Nat, NEW bl \in Seq(BlockType), bl # <<>>, NEW st, NEW ab, Bracket(st, bl, ab, n)
  PROVE  /\ Len(bl) \in Nat \ {0} /\ Last(bl) = bl[Len(bl)] /\ Last(bl) \in BlockType
         /\ Front(bl) \in Seq(BlockType) /\ Len(Front(bl)) = Len(bl) - 1
         /\ \A k \in 1..(Len(bl) - 1) :
              k \in 1..Len(bl) /\ Front(bl)[k] = bl[k] /\ bl[k].id < bl[Len(bl)].id
         /\ BlocksAreCalls(Front(bl), n) /\ BlocksRise(Front(bl))
<1> DEFINE f == Front(bl)
           l == Len(bl)
<1>1. l \in Nat \ {0} /\ f \in Seq(BlockType) /\ Len(f) = l - 1 /\ \A k \in 1..(l - 1) : f[k] = bl[k]
  BY FrontIs
<1>2. Last(bl) = bl[l] /\ Last(bl) \in BlockType
  <2>1. l \in 1..l
    BY <1>1
  <2> QED BY <2>1, ElementOfSeq DEF Last
<1> HIDE DEF f, l
<1>3. l \in 1..l /\ \A k \in 1..(l - 1) : k \in 1..l /\ k < l
  BY <1>1
<1>4. \A k \in 1..(l - 1) : bl[k].id < bl[l].id
  BY <1>3 DEF Bracket, BlocksRise, l
<1>5. BlocksAreCalls(f, n)
  BY <1>1, <1>3 DEF Bracket, BlocksAreCalls, l
<1>6. BlocksRise(f)
  BY <1>1, <1>3 DEF Bracket, BlocksRise, l
<1> QED BY <1>1, <1>2, <1>3, <1>4, <1>5, <1>6 DEF f, l

\* A frame is told by its id.
LEMMA FrameById ==
  ASSUME NEW n \in Nat, NEW c \in Client(n), FramesRise(c.stack, n),
         NEW i \in 1..Len(c.stack), NEW j \in 1..Len(c.stack), c.stack[i].id <= c.stack[j].id
  PROVE  i <= j
<1>1. c.stack[i].id \in 1..n /\ c.stack[j].id \in 1..n
  BY DEF FramesRise
<1>2. j < i => c.stack[j].id < c.stack[i].id
  BY DEF FramesRise
<1>3. ~(j < i)
  BY <1>1, <1>2
<1>4. Len(c.stack) \in Nat
  BY ClientIs
<1> QED BY <1>3, <1>4

\* And alone has it.
LEMMA SameFrame ==
  ASSUME NEW n \in Nat, NEW c \in Client(n), FramesRise(c.stack, n),
         NEW i \in 1..Len(c.stack), NEW j \in 1..Len(c.stack), c.stack[i].id = c.stack[j].id
  PROVE  i = j
<1>1. c.stack[i].id \in 1..n /\ c.stack[j].id \in 1..n
  BY DEF FramesRise
<1>2. c.stack[i].id <= c.stack[j].id /\ c.stack[j].id <= c.stack[i].id
  BY <1>1
<1>3. i <= j /\ j <= i
  BY <1>2, FrameById
<1>4. Len(c.stack) \in Nat
  BY ClientIs
<1> QED BY <1>3, <1>4

\* The end of a block closes the block's own frame.
LEMMA EndsOwn ==
  ASSUME NEW n \in Nat, NEW c \in Client(n), NEW bl \in Seq(BlockType), bl # <<>>, NEW ab,
         Bracket(c.stack, bl, ab, n), NEW d, d = ClientEnd(c, Last(bl).region)
  PROVE  \E a \in 1..Len(c.stack) : c.stack[a].id = Last(bl).id /\ Below(c, d, a)
<1> DEFINE l == Len(bl)
           b == Last(bl)
<1>1. /\ l \in Nat \ {0} /\ b = bl[l] /\ l \in 1..l
      /\ \A k \in 1..(l - 1) : bl[k].id < b.id
  BY InnerBlocks
<1> HIDE DEF l, b
<1>2. b.id \notin ab
  BY <1>1 DEF Bracket, HasFrame, l
<1>3. PICK a \in 1..Len(c.stack) : c.stack[a].id = b.id /\ c.stack[a].region = b.region
  BY <1>1 DEF Bracket, HasFrame, l
<1>4. ASSUME NEW i \in 1..Len(c.stack), c.stack[i].region = b.region
      PROVE  i <= a
  <2>1. CASE c.stack[i].id \in ab
    <3>1. ~(a < i)
      BY <1>2, <1>3, <1>4, <2>1 DEF Bracket, NotHidden
    <3>2. Len(c.stack) \in Nat
      BY ClientIs
    <3> QED BY <3>1, <3>2
  <2>2. CASE c.stack[i].id \notin ab
    <3>1. PICK k \in 1..l : bl[k].id = c.stack[i].id
      BY <2>2 DEF Bracket, HasBlock, l
    <3>2. c.stack[i].id <= c.stack[a].id
      <4>1. c.stack[i].id \in 1..n /\ c.stack[a].id \in 1..n
        BY DEF Bracket, FramesRise
      <4>2. k = l \/ k \in 1..(l - 1)
        BY <1>1
      <4>3. bl[k].id = b.id \/ bl[k].id < b.id
        BY <1>1, <4>2
      <4> QED BY <1>3, <3>1, <4>1, <4>3
    <3> QED BY <3>2, FrameById DEF Bracket
  <2> QED BY <2>1, <2>2
<1>5. Below(c, d, a)
  BY <1>3, <1>4, EndIs DEF b
<1> QED BY <1>3, <1>5 DEF b

\* A block left by its end.
LEMMA CloseBracket ==
  ASSUME NEW n \in Nat, NEW c \in Client(n), NEW bl \in Seq(BlockType), bl # <<>>, NEW ab,
         Bracket(c.stack, bl, ab, n), NEW d, d = ClientEnd(c, Last(bl).region)
  PROVE  Bracket(d.stack, Front(bl), ab, n)
<1> DEFINE f == Front(bl)
           l == Len(bl)
           b == Last(bl)
<1>1. /\ l \in Nat \ {0} /\ b = bl[l] /\ Len(f) = l - 1
      /\ \A k \in 1..(l - 1) : k \in 1..l /\ f[k] = bl[k] /\ bl[k].id < b.id
      /\ BlocksAreCalls(f, n) /\ BlocksRise(f)
  BY InnerBlocks
<1>2. PICK a \in 1..Len(c.stack) : c.stack[a].id = b.id /\ Below(c, d, a)
  BY EndsOwn
<1> HIDE DEF f, l, b
<1>3. Len(c.stack) \in Nat
  BY ClientIs
<1>4. /\ Len(d.stack) = a - 1
      /\ \A i \in 1..(a - 1) : /\ d.stack[i].id = c.stack[i].id /\ d.stack[i].region = c.stack[i].region
                               /\ i \in 1..Len(c.stack) /\ i < a
  BY <1>2, <1>3 DEF Below
<1>5. FramesRise(d.stack, n)
  BY <1>4 DEF Bracket, FramesRise
<1>6. HasFrame(d.stack, f, ab)
  <2>1. ASSUME NEW k \in 1..Len(f)
        PROVE  /\ f[k].id \notin ab
               /\ \E i \in 1..Len(d.stack) : d.stack[i].id = f[k].id /\ d.stack[i].region = f[k].region
    <3>1. k \in 1..l /\ f[k] = bl[k] /\ bl[k].id < b.id
      BY <1>1
    <3>2. bl[k].id \notin ab
      BY <3>1 DEF Bracket, HasFrame, l
    <3>3. PICK i \in 1..Len(c.stack) : c.stack[i].id = bl[k].id /\ c.stack[i].region = bl[k].region
      BY <3>1 DEF Bracket, HasFrame, l
    <3>4. i <= a /\ i # a
      <4>1. c.stack[i].id < c.stack[a].id
        BY <1>2, <3>1, <3>3
      <4>2. c.stack[i].id \in 1..n /\ c.stack[a].id \in 1..n
        BY DEF Bracket, FramesRise
      <4>3. c.stack[i].id <= c.stack[a].id /\ c.stack[i].id # c.stack[a].id
        BY <4>1, <4>2
      <4> QED BY <4>3, FrameById DEF Bracket
    <3>5. i \in 1..(a - 1)
      BY <1>3, <3>4
    <3> QED BY <1>4, <3>1, <3>2, <3>3, <3>5
  <2> QED BY <2>1 DEF HasFrame
<1>7. HasBlock(d.stack, f, ab)
  <2>1. ASSUME NEW i \in 1..Len(d.stack), d.stack[i].id \notin ab
        PROVE  \E k \in 1..Len(f) : f[k].id = d.stack[i].id
    <3>1. i \in 1..Len(c.stack) /\ i < a /\ d.stack[i].id = c.stack[i].id
      BY <1>4
    <3>2. PICK k \in 1..l : bl[k].id = c.stack[i].id
      BY <2>1, <3>1 DEF Bracket, HasBlock, l
    <3>3. k # l
      <4>1. c.stack[i].id < c.stack[a].id /\ c.stack[i].id \in 1..n /\ c.stack[a].id \in 1..n
        BY <3>1 DEF Bracket, FramesRise
      <4>2. c.stack[i].id # c.stack[a].id
        BY <4>1
      <4> QED BY <1>1, <1>2, <3>2, <4>2
    <3>4. k \in 1..(l - 1)
      BY <1>1, <3>3
    <3> QED BY <1>1, <3>1, <3>2, <3>4
  <2> QED BY <2>1 DEF HasBlock
<1>8. NotHidden(d.stack, ab)
  <2>1. ASSUME NEW i \in 1..Len(d.stack), NEW j \in 1..Len(d.stack),
               i < j, d.stack[i].id \notin ab, d.stack[j].id \in ab
        PROVE  d.stack[i].region # d.stack[j].region
    <3>1. /\ i \in 1..Len(c.stack) /\ j \in 1..Len(c.stack)
          /\ d.stack[i].id = c.stack[i].id /\ d.stack[i].region = c.stack[i].region
          /\ d.stack[j].id = c.stack[j].id /\ d.stack[j].region = c.stack[j].region
      BY <1>4
    <3> QED BY <2>1, <3>1 DEF Bracket, NotHidden
  <2> QED BY <2>1 DEF NotHidden
<1> QED BY <1>1, <1>5, <1>6, <1>7, <1>8 DEF Bracket, f

\* A begin without its end: the frame stays, and no block around is of its region.
LEMMA BareBracket ==
  ASSUME NEW n \in Nat, NEW c \in Client(n), NEW bl \in Seq(BlockType), bl # <<>>, NEW ab,
         Bracket(c.stack, bl, ab, n),
         \A k \in 1..Len(Front(bl)) : Front(bl)[k].region # Last(bl).region
  PROVE  Bracket(c.stack, Front(bl), ab \cup {Last(bl).id}, n)
<1> DEFINE f == Front(bl)
           l == Len(bl)
           b == Last(bl)
           aa == ab \cup {b.id}
<1>1. /\ l \in Nat \ {0} /\ b = bl[l] /\ Len(f) = l - 1 /\ l \in 1..l
      /\ \A k \in 1..(l - 1) : k \in 1..l /\ f[k] = bl[k] /\ bl[k].id < b.id
      /\ BlocksAreCalls(f, n) /\ BlocksRise(f)
  BY InnerBlocks
<1>2. \A k \in 1..Len(f) : f[k].region # b.region
  OBVIOUS
<1> HIDE DEF f, l, b
<1>3. \A k \in 1..l : bl[k].id \in 1..n
  BY DEF Bracket, BlocksAreCalls, l
<1>4. \A x : x \in aa <=> x \in ab \/ x = b.id
  OBVIOUS
<1> HIDE DEF aa
<1>5. HasFrame(c.stack, f, aa)
  <2>1. ASSUME NEW k \in 1..Len(f)
        PROVE  /\ f[k].id \notin aa
               /\ \E i \in 1..Len(c.stack) : c.stack[i].id = f[k].id /\ c.stack[i].region = f[k].region
    <3>1. k \in 1..l /\ f[k] = bl[k] /\ bl[k].id < b.id
      BY <1>1
    <3>2. bl[k].id # b.id
      <4>1. bl[k].id \in 1..n /\ b.id \in 1..n
        BY <1>1, <1>3, <3>1
      <4> QED BY <3>1, <4>1
    <3>3. /\ bl[k].id \notin ab
          /\ \E i \in 1..Len(c.stack) : c.stack[i].id = bl[k].id /\ c.stack[i].region = bl[k].region
      BY <3>1 DEF Bracket, HasFrame, l
    <3> QED BY <1>4, <3>1, <3>2, <3>3
  <2> QED BY <2>1 DEF HasFrame
<1>6. HasBlock(c.stack, f, aa)
  <2>1. ASSUME NEW i \in 1..Len(c.stack), c.stack[i].id \notin aa
        PROVE  \E k \in 1..Len(f) : f[k].id = c.stack[i].id
    <3>1. PICK k \in 1..l : bl[k].id = c.stack[i].id
      BY <1>4, <2>1 DEF Bracket, HasBlock, l
    <3>2. k # l
      BY <1>1, <1>4, <2>1, <3>1
    <3>3. k \in 1..(l - 1)
      BY <1>1, <3>2
    <3> QED BY <1>1, <3>1, <3>3
  <2> QED BY <2>1 DEF HasBlock
<1>7. NotHidden(c.stack, aa)
  <2>1. ASSUME NEW i \in 1..Len(c.stack), NEW j \in 1..Len(c.stack),
               i < j, c.stack[i].id \notin aa, c.stack[j].id \in aa
        PROVE  c.stack[i].region # c.stack[j].region
    <3>1. CASE c.stack[j].id \in ab
      BY <1>4, <2>1, <3>1 DEF Bracket, NotHidden
    <3>2. CASE c.stack[j].id = b.id
      <4>1. PICK k \in 1..Len(f) : f[k].id = c.stack[i].id
        BY <1>6, <2>1 DEF HasBlock
      <4>2. f[k].region # b.region
        BY <1>2
      <4>3. c.stack[i].region = f[k].region
        <5>1. PICK x \in 1..Len(c.stack) : c.stack[x].id = f[k].id /\ c.stack[x].region = f[k].region
          BY <1>5 DEF HasFrame
        <5>2. x = i
          BY <4>1, <5>1, SameFrame DEF Bracket
        <5> QED BY <5>1, <5>2
      <4>4. c.stack[j].region = b.region
        <5>1. PICK x \in 1..Len(c.stack) : c.stack[x].id = b.id /\ c.stack[x].region = b.region
          BY <1>1 DEF Bracket, HasFrame, l
        <5>2. x = j
          BY <3>2, <5>1, SameFrame DEF Bracket
        <5> QED BY <5>1, <5>2
      <4> QED BY <4>2, <4>3, <4>4
    <3> QED BY <1>4, <2>1, <3>1, <3>2
  <2> QED BY <2>1 DEF NotHidden
<1>8. FramesRise(c.stack, n)
  BY DEF Bracket
<1> QED BY <1>1, <1>5, <1>6, <1>7, <1>8 DEF Bracket, f, aa, b

-----------------------------------------------------------------------------
(***************************************************************************)
(* The steps.                                                              *)
(***************************************************************************)
\* What the invariant says of a step that leaves the frames as they are.
LEMMA KeepStep ==
  ASSUME IInv, calls' \in 0..MaxCalls, calls <= calls', client' \in Client(calls'),
         Keeps(client, client'), UNCHANGED <<blocks, abandoned, mixed>>,
         functions' \subseteq Objects, raising' \in BOOLEAN, pending' \in BOOLEAN
  PROVE  IInv'
<1>1. calls \in Nat /\ calls' \in Nat /\ client \in Client(calls) /\ MaxCalls \in Nat
  BY StatesAssumption DEF IInv, Types
<1>2. abandoned' \subseteq 1..calls'
  BY <1>1 DEF IInv, Types
<1>3. Types'
  BY <1>2 DEF IInv, Types
<1>4. BlocksAreCalls(blocks, calls)'
  BY <1>1 DEF IInv, BlocksAreCalls
<1>5. ASSUME client'.overflows = 0, ~mixed'
      PROVE  Bracket(client'.stack, blocks', abandoned', calls')
  <2>1. client.overflows \in Nat /\ client'.overflows \in Nat
    BY <1>1, ClientIs
  <2>2. client.overflows = 0 /\ Same(client, client') /\ ~mixed
    BY <1>5, <2>1 DEF Keeps
  <2>3. Bracket(client.stack, blocks, abandoned, calls)
    BY <2>2 DEF IInv, BracketInv
  <2>4. Bracket(client'.stack, blocks, abandoned, calls')
    BY <1>1, <2>2, <2>3, SameBracket
  <2> QED BY <2>4
<1> QED BY <1>3, <1>4, <1>5 DEF IInv, BracketInv

\* What the first region object finds.
LEMMA MadeIs ==
  ASSUME Types
  PROVE  Made \in Client(calls) /\ Keeps(client, Made)
<1>1. calls \in Nat /\ client \in Client(calls)
  BY DEF Types
<1>2. client.overflows \in Nat
  BY <1>1, ClientIs
<1>3. Keeps(client, client)
  BY <1>2 DEF Keeps, Same
<1>4. Calibrate(client) \in Client(calls) /\ Keeps(client, Calibrate(client))
  BY <1>1, CalibrateIs
<1> QED BY <1>1, <1>3, <1>4 DEF Made

\* A block opened: its frame is on top, and it is the innermost block.
LEMMA OpenStep ==
  ASSUME IInv, Handled, client' \in Client(calls'), NEW region \in Regions,
         Opens(client, client', region, calls'), NEW kind \in {"block", "bare"},
         blocks' = Append(blocks, [region |-> region, kind |-> kind, id |-> calls']),
         UNCHANGED <<abandoned, mixed>>,
         functions' \subseteq Objects, raising' \in BOOLEAN, pending' \in BOOLEAN
  PROVE  IInv'
<1>1. /\ calls \in Nat /\ calls' = calls + 1 /\ calls' \in 0..MaxCalls /\ client \in Client(calls)
      /\ blocks \in Seq(BlockType) /\ abandoned \subseteq 1..calls
  BY StatesAssumption DEF IInv, Types, Handled
<1>2. PICK b \in BlockType : b = [region |-> region, kind |-> kind, id |-> calls']
  BY <1>1 DEF BlockType
<1>3. /\ Len(blocks) \in Nat /\ blocks' \in Seq(BlockType) /\ Len(blocks') = Len(blocks) + 1
      /\ blocks'[Len(blocks) + 1] = b /\ \A i \in 1..Len(blocks) : blocks'[i] = blocks[i]
  BY <1>1, <1>2, AppendIs
<1>4. abandoned' \subseteq 1..calls'
  <2>1. \A x \in 1..calls : x \in 1..calls'
    BY <1>1
  <2> QED BY <1>1, <2>1
<1>5. Types'
  BY <1>1, <1>3, <1>4 DEF IInv, Types
<1>6. BlocksAreCalls(blocks, calls)'
  <2>1. ASSUME NEW k \in 1..Len(blocks') PROVE blocks'[k].id \in 1..calls'
    <3>1. CASE k \in 1..Len(blocks)
      <4>1. blocks'[k].id \in 1..calls
        BY <1>3, <3>1 DEF IInv, BlocksAreCalls
      <4> QED BY <1>1, <4>1
    <3>2. CASE k = Len(blocks) + 1
      <4>1. blocks'[k].id = calls' /\ calls' \in 1..calls'
        BY <1>1, <1>2, <1>3, <3>2
      <4> QED BY <4>1
    <3> QED BY <1>3, <3>1, <3>2
  <2> QED BY <2>1 DEF BlocksAreCalls
<1>7. ASSUME client'.overflows = 0, ~mixed'
      PROVE  Bracket(client'.stack, blocks', abandoned', calls')
  <2>1. client.overflows \in Nat /\ client'.overflows \in Nat
    BY <1>1, ClientIs
  <2>2. client.overflows = 0 /\ OnTop(client, client', region, calls') /\ ~mixed
    BY <1>7, <2>1 DEF Opens
  <2>3. Bracket(client.stack, blocks, abandoned, calls)
    BY <2>2 DEF IInv, BracketInv
  <2>4. OnTop(client, client', b.region, calls + 1) /\ b.id = calls + 1
    BY <1>1, <1>2, <2>2
  <2>5. Bracket(client'.stack, Append(blocks, b), abandoned, calls + 1)
    BY <1>1, <2>3, <2>4, OpenBracket
  <2> QED BY <1>1, <1>2, <2>5
<1> QED BY <1>5, <1>6, <1>7 DEF IInv, BracketInv

\* A block whose __enter__ raises after its calls.
LEMMA RaisedStep ==
  ASSUME IInv, Handled, client' \in Client(calls'), NEW region,
         Opens(client, client', region, calls'),
         UNCHANGED blocks, Abandon(client', calls', region),
         functions' \subseteq Objects, raising' \in BOOLEAN, pending' \in BOOLEAN
  PROVE  IInv'
<1>1. /\ calls \in Nat /\ calls' = calls + 1 /\ calls' \in 0..MaxCalls /\ client \in Client(calls)
      /\ blocks \in Seq(BlockType) /\ abandoned \subseteq 1..calls /\ mixed \in BOOLEAN
  BY StatesAssumption DEF IInv, Types, Handled
<1> DEFINE left == {i \in 1..Len(client'.stack) : client'.stack[i].id = calls'}
<1>2. /\ abandoned' = abandoned \cup {client'.stack[i].id : i \in left}
      /\ mixed' = (mixed \/ (left # {} /\ \E i \in 1..Len(blocks') : blocks'[i].region = region))
  BY DEF Abandon
<1>3. abandoned' \subseteq 1..calls'
  <2>1. \A x \in 1..calls : x \in 1..calls'
    BY <1>1
  <2>2. calls' \in 1..calls'
    BY <1>1
  <2> QED BY <1>1, <1>2, <2>1, <2>2
<1>4. mixed' \in BOOLEAN
  BY <1>2
<1>5. Types'
  BY <1>1, <1>3, <1>4 DEF IInv, Types
<1>6. BlocksAreCalls(blocks, calls)'
  BY <1>1 DEF IInv, BlocksAreCalls
<1>7. ASSUME client'.overflows = 0, ~mixed'
      PROVE  Bracket(client'.stack, blocks', abandoned', calls')
  <2>1. client.overflows \in Nat /\ client'.overflows \in Nat
    BY <1>1, ClientIs
  <2>2. client.overflows = 0 /\ OnTop(client, client', region, calls + 1)
    BY <1>1, <1>7, <2>1 DEF Opens
  <2>3. ~mixed
    BY <1>2, <1>7
  <2>4. Bracket(client.stack, blocks, abandoned, calls)
    BY <2>2, <2>3 DEF IInv, BracketInv
  <2>5. Len(client'.stack) \in left
    <3>1. Len(client.stack) \in Nat
      BY <1>1, ClientIs
    <3> QED BY <1>1, <2>2, <3>1 DEF OnTop
  <2>6. abandoned' = abandoned \cup {calls + 1}
    BY <1>1, <1>2, <2>5
  <2>7. \A k \in 1..Len(blocks) : blocks[k].region # region
    BY <1>2, <1>7, <2>5
  <2>8. Bracket(client'.stack, blocks, abandoned \cup {calls + 1}, calls + 1)
    BY <1>1, <2>2, <2>4, <2>7, RaisedBracket
  <2> QED BY <1>1, <2>6, <2>8
<1> QED BY <1>5, <1>6, <1>7 DEF IInv, BracketInv

\* The start of a block.
LEMMA StartStep ==
  ASSUME IInv, Handled, NEW c \in Client(calls), Keeps(client, c), NEW obj \in Objects,
         Start(c, obj, "block"), functions' \subseteq Objects, pending' \in BOOLEAN
  PROVE  IInv'
<1>1. /\ calls \in Nat /\ calls' \in Nat /\ calls <= calls' /\ calls' \in 0..calls'
      /\ client \in Client(calls)
  BY DEF IInv, Types, Handled
<1>2. c \in Client(calls') /\ client \in Client(calls')
  BY <1>1, ClientGrows
<1>3. PICK d : d = client' /\ d = Enter(c, obj, calls')
  BY DEF Start
<1>4. d \in Client(calls') /\ Opens(c, d, obj.region, calls')
  BY <1>1, <1>2, <1>3, EnterIs
<1>5. Opens(client, d, obj.region, calls')
  BY <1>1, <1>2, <1>4, OpensAfter
<1>6. obj.region \in Regions
  BY ObjectIs
<1>7. raising' \in BOOLEAN
  BY DEF Start, EnterRaises
<1>8. CASE EnterRaises(obj)
  BY <1>3, <1>4, <1>5, <1>7, <1>8, RaisedStep DEF Start
<1>9. CASE ~EnterRaises(obj)
  <2>1. /\ blocks' = Append(blocks, [region |-> obj.region, kind |-> "block", id |-> calls'])
        /\ UNCHANGED <<abandoned, mixed>>
    BY <1>9 DEF Start, Block
  <2> QED BY <1>3, <1>4, <1>5, <1>6, <1>7, <2>1, OpenStep
<1> QED BY <1>8, <1>9

\* The innermost block is left: by its end, or for good.
LEMMA LeaveStep ==
  ASSUME IInv, blocks # <<>>, blocks' = Front(blocks), client' = ClientEnd(client, Last(blocks).region),
         UNCHANGED <<functions, raising, pending, calls, abandoned, mixed>>
  PROVE  IInv'
<1>1. calls \in Nat /\ client \in Client(calls) /\ blocks \in Seq(BlockType)
  BY DEF IInv, Types
<1>2. client' \in Client(calls) /\ client'.overflows = client.overflows
  BY <1>1, EndIs
<1>3. /\ Len(blocks) \in Nat \ {0} /\ blocks' \in Seq(BlockType) /\ Len(blocks') = Len(blocks) - 1
      /\ \A i \in 1..(Len(blocks) - 1) : blocks'[i] = blocks[i]
  BY <1>1, FrontIs
<1>4. Types'
  BY <1>2, <1>3 DEF IInv, Types
<1>5. BlocksAreCalls(blocks, calls)'
  BY <1>3 DEF IInv, BlocksAreCalls
<1>6. ASSUME client'.overflows = 0, ~mixed'
      PROVE  Bracket(client'.stack, blocks', abandoned', calls')
  <2>1. Bracket(client.stack, blocks, abandoned, calls)
    BY <1>2, <1>6 DEF IInv, BracketInv
  <2>2. Bracket(client'.stack, Front(blocks), abandoned, calls)
    BY <1>1, <2>1, CloseBracket
  <2> QED BY <2>2
<1> QED BY <1>4, <1>5, <1>6 DEF IInv, BracketInv

\* Or for good, without an end call.
LEMMA BareStep ==
  ASSUME IInv, blocks # <<>>, blocks' = Front(blocks),
         Abandon(client, Last(blocks).id, Last(blocks).region),
         UNCHANGED <<client, functions, raising, pending, calls>>
  PROVE  IInv'
<1>1. /\ calls \in Nat /\ client \in Client(calls) /\ blocks \in Seq(BlockType)
      /\ abandoned \subseteq 1..calls /\ mixed \in BOOLEAN
  BY DEF IInv, Types
<1>2. /\ Len(blocks) \in Nat \ {0} /\ blocks' \in Seq(BlockType) /\ Len(blocks') = Len(blocks) - 1
      /\ \A i \in 1..(Len(blocks) - 1) : blocks'[i] = blocks[i]
  BY <1>1, FrontIs
<1> DEFINE b == Last(blocks)
           left == {i \in 1..Len(client.stack) : client.stack[i].id = b.id}
<1>3. /\ abandoned' = abandoned \cup {client.stack[i].id : i \in left}
      /\ mixed' = (mixed \/ (left # {} /\ \E i \in 1..Len(blocks') : blocks'[i].region = b.region))
  BY DEF Abandon
<1>4. b.id \in 1..calls /\ b = blocks[Len(blocks)]
  BY <1>2 DEF IInv, BlocksAreCalls, Last
<1> HIDE DEF b
<1>5. Types'
  <2>1. abandoned' \subseteq 1..calls
    BY <1>1, <1>3, <1>4
  <2>2. mixed' \in BOOLEAN
    BY <1>3
  <2> QED BY <1>2, <2>1, <2>2 DEF IInv, Types
<1>6. BlocksAreCalls(blocks, calls)'
  BY <1>2 DEF IInv, BlocksAreCalls
<1>7. ASSUME client'.overflows = 0, ~mixed'
      PROVE  Bracket(client'.stack, blocks', abandoned', calls')
  <2>1. Bracket(client.stack, blocks, abandoned, calls)
    BY <1>3, <1>7 DEF IInv, BracketInv
  <2>2. \E i \in 1..Len(client.stack) : client.stack[i].id = b.id
    <3>1. Len(blocks) \in 1..Len(blocks)
      BY <1>2
    <3> QED BY <1>4, <2>1, <3>1 DEF Bracket, HasFrame
  <2>3. left # {} /\ abandoned' = abandoned \cup {b.id}
    BY <1>3, <2>2
  <2>4. \A k \in 1..Len(blocks') : blocks'[k].region # b.region
    BY <1>3, <1>7, <2>3
  <2>5. Bracket(client.stack, Front(blocks), abandoned \cup {Last(blocks).id}, calls)
    BY <1>1, <2>1, <2>4, BareBracket DEF b
  <2> QED BY <2>3, <2>5 DEF b
<1> QED BY <1>5, <1>6, <1>7 DEF IInv, BracketInv

\* What a step of the program's own does not change.
LEMMA HandledIs ==
  ASSUME Types, Handled
  PROVE  calls' \in 0..MaxCalls /\ calls <= calls' /\ calls \in Nat /\ calls' \in Nat
BY StatesAssumption DEF Types, Handled

\* capture_exit leaves the frames as they are.
LEMMA CaptureStep ==
  ASSUME IInv, Capture
  PROVE  IInv'
<1> DEFINE frames == {i \in 1..Len(client.stack) : client.stack[i].id = Last(blocks).id}
           names == client.stack[Max(frames)].declared
           seq == [i \in 1..Len(names) |-> AtExit(names[i])]
<1>1. /\ frames # {} /\ Handled
      /\ client' = FoldLeft(ClientState, Marker(client, "_perfmark_capture"), seq)
      /\ UNCHANGED <<blocks, functions, raising, pending, abandoned, mixed>>
  BY DEF Capture
<1>2. Types /\ calls \in Nat /\ client \in Client(calls)
  BY DEF IInv, Types
<1>3. calls' \in 0..MaxCalls /\ calls <= calls' /\ calls' \in Nat
  BY <1>1, <1>2, HandledIs
<1>4. names \in Seq(Pair)
  <2>1. Len(client.stack) \in Nat /\ \A i \in 1..Len(client.stack) : client.stack[i] \in Frame(calls)
    BY <1>2, ClientIs
  <2>2. PICK l \in Nat : l = Len(client.stack) /\ frames \in SUBSET (1..l)
    BY <2>1
  <2>3. Max(frames) \in frames
    <3> HIDE DEF frames
    <3> QED BY <1>1, <2>2, LastIn
  <2>4. client.stack[Max(frames)] \in Frame(calls)
    BY <2>1, <2>3
  <2> HIDE DEF frames
  <2> QED BY <1>2, <2>4, FrameIs
<1> HIDE DEF names
<1>5. seq \in Seq(State)
  <2>1. Len(names) \in Nat
    BY <1>4, LenProperties
  <2>2. \A i \in 1..Len(names) : AtExit(names[i]) \in State
    BY <1>4, ElementOfSeq DEF State
  <2>3. seq \in [1..Len(names) -> State]
    BY <2>2
  <2> HIDE DEF seq
  <2> QED BY <2>1, <2>3, FunctionIsSeq
<1> HIDE DEF seq
<1>6. PICK m : m = Marker(client, "_perfmark_capture")
  OBVIOUS
<1>7. m \in Client(calls) /\ Keeps(client, m)
  <2>1. "_perfmark_capture" \in Names
    BY DEF Names, Own
  <2> QED BY <1>2, <1>6, <2>1, MarkerIs
<1>8. PICK d : d = client' /\ d = FoldLeft(ClientState, m, seq)
  BY <1>1, <1>6
<1>9. d \in Client(calls) /\ d.overflows = m.overflows /\ Same(m, d)
  BY <1>2, <1>5, <1>7, <1>8, StatesAre
<1>10. Keeps(m, d)
  <2>1. m.overflows \in Nat
    BY <1>2, <1>7, ClientIs
  <2> QED BY <1>9, <2>1 DEF Keeps
<1>11. Keeps(client, d)
  BY <1>2, <1>7, <1>9, <1>10, KeepsTrans
<1>12. d \in Client(calls')
  BY <1>2, <1>3, <1>9, ClientGrows
<1>13. functions' \subseteq Objects /\ raising' \in BOOLEAN /\ pending' \in BOOLEAN
  BY <1>1, <1>2 DEF Types
<1> QED BY <1>1, <1>3, <1>8, <1>11, <1>12, <1>13, KeepStep

\* A note is a state.
LEMMA NoteIs ==
  ASSUME NEW s \in Notes
  PROVE  s \in Pair /\ s \in State
<1>1. s \in STRING \X STRING
  BY NamesAssumption
<1> QED BY <1>1 DEF State, Pair, Text

\* A note is attached to the innermost frame.
LEMMA AttachStep ==
  ASSUME IInv, NEW s \in Notes, Attach(s)
  PROVE  IInv'
<1>1. Types /\ calls \in Nat /\ client \in Client(calls)
  BY DEF IInv, Types
<1>2. /\ Handled /\ UNCHANGED <<blocks, functions, raising, pending, abandoned, mixed>>
      /\ client' = Noted(ClientState(client, s), s)
  BY DEF Attach, Statement
<1>3. calls' \in 0..MaxCalls /\ calls <= calls' /\ calls' \in Nat
  BY <1>1, <1>2, HandledIs
<1>4. s \in State /\ s \in Pair
  BY NoteIs
<1>5. PICK b, d : b = ClientState(client, s) /\ d = client' /\ d = Noted(b, s)
  BY <1>2
<1>6. d \in Client(calls) /\ d.overflows = client.overflows /\ Same(client, d)
  <2>1. b \in Client(calls) /\ b.overflows = client.overflows /\ Same(client, b)
    BY <1>1, <1>4, <1>5, StateIs
  <2>2. d \in Client(calls) /\ d.overflows = b.overflows /\ Same(b, d)
    BY <1>1, <1>4, <1>5, <2>1, NotedIs, NotedSame
  <2> QED BY <2>1, <2>2 DEF Same
<1>7. Keeps(client, d)
  <2>1. client.overflows \in Nat
    BY <1>1, ClientIs
  <2> QED BY <1>6, <2>1 DEF Keeps
<1>8. d \in Client(calls')
  BY <1>1, <1>3, <1>6, ClientGrows
<1>9. functions' \subseteq Objects /\ raising' \in BOOLEAN /\ pending' \in BOOLEAN
  BY <1>1, <1>2 DEF Types
<1> QED BY <1>2, <1>3, <1>5, <1>7, <1>8, <1>9, KeepStep

\* begin(name, state, value), whose state is a keyword's.
LEMMA BeginStep ==
  ASSUME IInv, NEW region \in Regions, NEW s \in Keywords, Len(s) = 1, Begin(region, s[1])
  PROVE  IInv'
<1>1. Types /\ calls \in Nat /\ client \in Client(calls)
  BY DEF IInv, Types
<1>2. Handled /\ UNCHANGED <<functions, pending, abandoned, mixed>> /\ raising' = (s[1][2] \in Wide)
  BY DEF Begin, Statement
<1>3. calls' \in 0..MaxCalls /\ calls <= calls' /\ calls' \in Nat
  BY <1>1, <1>2, HandledIs
<1>4. functions' \subseteq Objects /\ raising' \in BOOLEAN /\ pending' \in BOOLEAN
  BY <1>1, <1>2 DEF Types
<1>5. client \in Client(calls')
  BY <1>1, <1>3, ClientGrows
<1>6. CASE s[1][2] \in Wide
  <2>1. client' = client /\ blocks' = blocks
    BY <1>6 DEF Begin
  <2>2. Keeps(client, client')
    <3>1. client.overflows \in Nat
      BY <1>1, ClientIs
    <3> QED BY <2>1, <3>1 DEF Keeps, Same
  <2> QED BY <1>2, <1>3, <1>4, <1>5, <2>1, <2>2, KeepStep
<1>7. CASE ~(s[1][2] \in Wide)
  <2>1. /\ client' = ClientBegin(client, region, <<s[1]>>, calls', <<s[1]>>)
        /\ blocks' = Append(blocks, [region |-> region, kind |-> "bare", id |-> calls'])
    BY <1>7 DEF Begin, Block
  <2>2. <<s[1]>> \in Seq(Pair)
    <3>1. PICK x : x = s[1]
      OBVIOUS
    <3>2. x \in Pair
      <4>1. s \in Seq(Pair) /\ 1 \in 1..Len(s)
        BY KeywordIs
      <4> QED BY <3>1, <4>1, ElementOfSeq
    <3> QED BY <3>1, <3>2
  <2>3. PICK d : d = client' /\ d = ClientBegin(client, region, <<s[1]>>, calls', <<s[1]>>)
    BY <2>1
  <2>4. d \in Client(calls') /\ Opens(client, d, region, calls')
    <3>1. region \in Names /\ calls' \in 0..calls'
      BY <1>3 DEF Names
    <3> QED BY <1>3, <1>5, <2>2, <2>3, <3>1, BeginIs
  <2> QED BY <1>2, <1>4, <2>1, <2>3, <2>4, OpenStep
<1> QED BY <1>6, <1>7

\* Every step keeps the invariant.
LEMMA StepKeeps ==
  ASSUME IInv, [Next]_vars
  PROVE  IInv'
<1>1. Types /\ calls \in Nat /\ client \in Client(calls) /\ functions \subseteq Objects
  BY DEF IInv, Types
<1>2. client.overflows \in Nat
  BY <1>1, ClientIs
<1>3. Made \in Client(calls) /\ Keeps(client, Made) /\ Keeps(client, client)
  BY <1>1, <1>2, MadeIs DEF Keeps, Same
<1>4. ASSUME NEW r \in Regions, NEW s \in Keywords, With(r, s) PROVE IInv'
  <2>1. Handled /\ Start(Made, Object(r, s), "block") /\ functions' = functions /\ pending' = FALSE
    BY <1>4 DEF With, Statement
  <2>2. Object(r, s) \in Objects
    BY DEF Objects
  <2> QED BY <1>1, <1>3, <2>1, <2>2, StartStep
<1>5. ASSUME NEW r \in Regions, NEW s \in Keywords, Decorate(r, s) PROVE IInv'
  <2>1. /\ Handled /\ client' = Made /\ pending' = FALSE
        /\ functions' = functions \cup {Object(r, s)}
        /\ UNCHANGED <<blocks, raising, abandoned, mixed>>
    BY <1>5 DEF Decorate, Statement
  <2>2. functions' \subseteq Objects
    BY <1>1, <2>1 DEF Objects
  <2>3. calls' \in 0..MaxCalls /\ calls <= calls' /\ calls' \in Nat
    BY <1>1, <2>1, HandledIs
  <2>4. client' \in Client(calls')
    BY <1>1, <1>3, <2>1, <2>3, ClientGrows
  <2>5. raising' \in BOOLEAN /\ pending' \in BOOLEAN /\ Keeps(client, client')
    BY <1>1, <1>3, <2>1 DEF Types
  <2> QED BY <2>1, <2>2, <2>3, <2>4, <2>5, KeepStep
<1>6. ASSUME NEW f \in functions, Call(f) PROVE IInv'
  <2>1. Handled /\ Start(client, f, "block") /\ UNCHANGED <<functions, pending>> /\ f \in Objects
    BY <1>1, <1>6 DEF Call, Statement
  <2>2. functions' \subseteq Objects /\ pending' \in BOOLEAN
    BY <1>1, <2>1 DEF Types
  <2> QED BY <1>1, <1>3, <2>1, <2>2, StartStep
<1>7. ASSUME Leave PROVE IInv'
  BY <1>7, LeaveStep DEF Leave
<1>8. ASSUME Unwind PROVE IInv'
  <2>1. CASE Last(blocks).kind = "block"
    BY <1>8, <2>1, LeaveStep DEF Unwind, Unwound
  <2>2. CASE Last(blocks).kind # "block"
    BY <1>8, <2>2, BareStep DEF Unwind, Unwound
  <2> QED BY <2>1, <2>2
<1>9. ASSUME Raise PROVE IInv'
  <2>1. Handled /\ raising' = TRUE /\ UNCHANGED <<client, blocks, functions, pending, abandoned, mixed>>
    BY <1>9 DEF Raise, Statement
  <2>2. calls' \in 0..MaxCalls /\ calls <= calls' /\ calls' \in Nat
    BY <1>1, <2>1, HandledIs
  <2>3. client' \in Client(calls')
    BY <1>1, <2>1, <2>2, ClientGrows
  <2>4. functions' \subseteq Objects /\ raising' \in BOOLEAN /\ pending' \in BOOLEAN /\ Keeps(client, client')
    BY <1>1, <1>3, <2>1 DEF Types
  <2> QED BY <2>1, <2>2, <2>3, <2>4, KeepStep
<1>10. ASSUME Catch PROVE IInv'
  <2>1. /\ raising' = FALSE
        /\ UNCHANGED <<client, blocks, functions, pending, calls, abandoned, mixed>>
    BY <1>10 DEF Catch
  <2>2. calls' \in 0..MaxCalls /\ calls <= calls' /\ client' \in Client(calls')
    BY <1>1, <2>1 DEF Types
  <2>3. functions' \subseteq Objects /\ raising' \in BOOLEAN /\ pending' \in BOOLEAN /\ Keeps(client, client')
    BY <1>1, <1>3, <2>1 DEF Types
  <2> QED BY <2>1, <2>2, <2>3, KeepStep
<1>11. ASSUME UNCHANGED vars PROVE IInv'
  <2>1. UNCHANGED <<client, blocks, functions, raising, pending, calls, abandoned, mixed>>
    BY <1>11 DEF vars
  <2>2. calls' \in 0..MaxCalls /\ calls <= calls' /\ client' \in Client(calls')
    BY <1>1, <2>1 DEF Types
  <2>3. functions' \subseteq Objects /\ raising' \in BOOLEAN /\ pending' \in BOOLEAN /\ Keeps(client, client')
    BY <1>1, <1>3, <2>1 DEF Types
  <2> QED BY <2>1, <2>2, <2>3, KeepStep
<1> QED
  BY <1>4, <1>5, <1>6, <1>7, <1>8, <1>9, <1>10, <1>11, BeginStep, AttachStep, CaptureStep
  DEF Next, Finished

\* A program that has not started satisfies it.
LEMMA InitKeeps ==
  ASSUME Init
  PROVE  IInv
<1>1. /\ client = [stack |-> <<>>, trace |-> {}, unmatched |-> 0, overflows |-> 0, stateOver |-> 0]
      /\ blocks = <<>> /\ calls = 0 /\ abandoned = {}
  BY DEF Init
<1>2. client \in Client(calls)
  <2>1. <<>> \in Seq(Frame(calls)) /\ Len(<<>>) = 0 /\ 0 <= MaxDepth
    BY StatesAssumption
  <2> QED BY <1>1, <2>1 DEF Client
<1>3. blocks \in Seq(BlockType) /\ Len(blocks) = 0
  BY <1>1
<1>4. Types
  <2>1. calls \in 0..MaxCalls /\ abandoned \subseteq 1..calls
    BY <1>1, StatesAssumption
  <2>2. pending \in BOOLEAN
    BY StatesAssumption DEF Init
  <2>3. functions \subseteq Objects /\ raising \in BOOLEAN /\ mixed \in BOOLEAN
    BY DEF Init
  <2> QED BY <1>2, <1>3, <2>1, <2>2, <2>3 DEF Types
<1>5. Len(client.stack) = 0
  BY <1>1
<1>6. BlocksAreCalls(blocks, calls)
  BY <1>3 DEF BlocksAreCalls
<1>7. Bracket(client.stack, blocks, abandoned, calls)
  BY <1>3, <1>5, <1>6 DEF Bracket, FramesRise, BlocksRise, HasFrame, HasBlock, NotHidden
<1> QED BY <1>4, <1>6, <1>7 DEF IInv, BracketInv

\* The invariant holds initially, and in every state after it.
THEOREM Invariance == Spec => []IInv
<1>1. Init => IInv
  BY InitKeeps
<1>2. IInv /\ [Next]_vars => IInv'
  BY StepKeeps
<1> QED BY <1>1, <1>2, PTL DEF Spec

\* Type correctness: no frame has more states than it has room for, no stack more frames,
\* and ids are those of calls that were made.
THEOREM TypeCorrect == Spec => []TypeOK
<1>1. ASSUME IInv PROVE TypeOK
  <2>1. Types /\ calls \in Nat /\ client \in Client(calls)
    BY <1>1 DEF IInv, Types
  <2>2. /\ \A i \in 1..Len(client.stack) : client.stack[i] \in Frame(calls)
        /\ client.stack \in Seq(Frame(calls)) /\ client.trace \subseteq Frame(calls)
        /\ Len(client.stack) <= MaxDepth
        /\ client.unmatched \in Nat /\ client.overflows \in Nat /\ client.stateOver \in Nat
    BY <2>1, ClientIs
  <2>3. \A f \in ToSet(client.stack) \cup client.trace :
          f.id \in 0..calls /\ Len(f.key) <= KeyStates /\ Len(f.extra) <= MaxStates
    <3>1. ToSet(client.stack) \subseteq Frame(calls)
      BY <2>2 DEF ToSet
    <3> QED BY <2>2, <3>1 DEF Frame, Shape
  <2>4. \A b \in ToSet(blocks) : b.region \in Regions /\ b.kind \in {"block", "bare"} /\ b.id \in 1..calls
    <3>1. blocks \in Seq(BlockType)
      BY <2>1 DEF Types
    <3>2. \A i \in 1..Len(blocks) : blocks[i] \in BlockType /\ blocks[i].id \in 1..calls
      BY <1>1, <3>1, ElementOfSeq DEF IInv, BlocksAreCalls
    <3>3. \A b \in ToSet(blocks) : \E i \in 1..Len(blocks) : b = blocks[i]
      BY <3>1 DEF ToSet
    <3> QED BY <3>2, <3>3 DEF BlockType
  <2>5. \A f \in functions : f.region \in Regions /\ f.declared \in Keywords
    BY <2>1, ObjectIs DEF Types
  <2> QED BY <2>1, <2>2, <2>3, <2>4, <2>5 DEF TypeOK, Types
<1> QED BY <1>1, Invariance, PTL

\* However a program nests and leaves its blocks, the frames that were not abandoned are
\* those of the open blocks, region for region and in their order, while no begin
\* overflowed and no abandoned frame was in a block of its own region.
THEOREM BracketedAlways == Spec => []Bracketed
<1>1. ASSUME IInv PROVE Bracketed
  <2> SUFFICES ASSUME client.overflows = 0, ~mixed PROVE Bracketed
    BY DEF Bracketed
  <2> DEFINE live == {i \in 1..Len(client.stack) : client.stack[i].id \notin abandoned}
             Fits(k, i) == client.stack[i].id = blocks[k].id /\ client.stack[i].region = blocks[k].region
             at == [k \in 1..Len(blocks) |-> CHOOSE i \in 1..Len(client.stack) : Fits(k, i)]
  <2>1. calls \in Nat /\ client \in Client(calls)
    BY <1>1 DEF IInv, Types
  <2>2. Bracket(client.stack, blocks, abandoned, calls)
    BY <1>1 DEF IInv, BracketInv
  <2>3. ASSUME NEW k \in 1..Len(blocks)
        PROVE  at[k] \in live /\ Fits(k, at[k]) /\ at[k] \in 1..Len(client.stack)
    <3>1. blocks[k].id \notin abandoned /\ \E i \in 1..Len(client.stack) : Fits(k, i)
      BY <2>2 DEF Bracket, HasFrame
    <3>2. at[k] = CHOOSE i \in 1..Len(client.stack) : Fits(k, i)
      OBVIOUS
    <3>3. at[k] \in 1..Len(client.stack) /\ Fits(k, at[k])
      <4> HIDE DEF Fits, at
      <4> QED BY <3>1, <3>2
    <3> HIDE DEF at
    <3> QED BY <3>1, <3>3
  <2>4. at \in [1..Len(blocks) -> live]
    BY <2>3
  <2> HIDE DEF at
  <2>5. ASSUME NEW k \in 1..Len(blocks), NEW l \in 1..Len(blocks), k < l
        PROVE  at[k] < at[l]
    <3>1. /\ at[k] \in 1..Len(client.stack) /\ at[l] \in 1..Len(client.stack)
          /\ client.stack[at[k]].id = blocks[k].id /\ client.stack[at[l]].id = blocks[l].id
      BY <2>3
    <3>2. blocks[k].id < blocks[l].id /\ blocks[k].id \in 1..calls /\ blocks[l].id \in 1..calls
      BY <2>2, <2>5 DEF Bracket, BlocksRise, BlocksAreCalls
    <3>3. client.stack[at[k]].id <= client.stack[at[l]].id /\ client.stack[at[k]].id # client.stack[at[l]].id
      BY <3>1, <3>2
    <3>4. at[k] <= at[l] /\ at[k] # at[l]
      BY <2>1, <2>2, <3>1, <3>3, FrameById DEF Bracket
    <3>5. Len(client.stack) \in Nat
      BY <2>1, ClientIs
    <3> QED BY <3>1, <3>4, <3>5
  <2>6. ASSUME NEW i \in live PROVE \E k \in 1..Len(blocks) : at[k] = i
    <3>1. i \in 1..Len(client.stack) /\ client.stack[i].id \notin abandoned
      OBVIOUS
    <3>2. PICK k \in 1..Len(blocks) : blocks[k].id = client.stack[i].id
      BY <2>2, <3>1 DEF Bracket, HasBlock
    <3>3. at[k] \in 1..Len(client.stack) /\ client.stack[at[k]].id = client.stack[i].id
      BY <2>3, <3>2
    <3>4. at[k] = i
      BY <2>1, <2>2, <3>1, <3>3, SameFrame DEF Bracket
    <3> QED BY <3>4
  <2>7. \A k \in 1..Len(blocks) : Fits(k, at[k])
    BY <2>3
  <2>8. \E f \in [1..Len(blocks) -> live] :
          /\ \A k \in 1..Len(blocks) : Fits(k, f[k])
          /\ \A k, l \in 1..Len(blocks) : k < l => f[k] < f[l]
          /\ \A i \in live : \E k \in 1..Len(blocks) : f[k] = i
    <3> HIDE DEF Fits, live
    <3> WITNESS at \in [1..Len(blocks) -> live]
    <3> QED BY <2>5, <2>6, <2>7
  <2> QED BY <2>8 DEF Bracketed
<1> QED BY <1>1, Invariance, PTL

-----------------------------------------------------------------------------
(***************************************************************************)
(* Some places of a sequence.                                              *)
(***************************************************************************)
\* How many of the places come before place i.
Rank(I, i) == Cardinality({j \in I : j < i})

\* What Picked has, place by place.
LEMMA PickedIs ==
  ASSUME NEW n \in Nat, NEW I \in SUBSET (1..n), NEW s, NEW p, p = Picked(s, I)
  PROVE  /\ IsFiniteSet(I) /\ Cardinality(I) \in Nat /\ p = [k \in 1..Cardinality(I) |-> p[k]]
         /\ \A i \in I : Rank(I, i) + 1 \in 1..Cardinality(I) /\ p[Rank(I, i) + 1] = s[i]
         /\ \A k \in 1..Cardinality(I) : \E i \in I : Rank(I, i) + 1 = k
<1>1. IsFiniteSet(I) /\ Cardinality(I) \in Nat
  <2>1. 1 \in Int /\ n \in Int
    OBVIOUS
  <2>2. IsFiniteSet(I)
    BY <2>1, FS_Interval, FS_Subset
  <2> QED BY <2>2, FS_CardinalityType
<1>2. PICK before : before = [i \in I |-> {j \in I : j < i}]
  OBVIOUS
<1>3. DOMAIN before = I /\ \A i \in I : Cardinality(before[i]) = Rank(I, i)
  BY <1>2 DEF Rank
<1>4. Orders(before)
  <2>1. \A i \in I : i \in Nat
    OBVIOUS
  <2>2. \A i \in I : before[i] \subseteq I /\ i \notin before[i]
    BY <1>2, <2>1
  <2>3. ASSUME NEW i \in I, NEW l \in I
        PROVE  /\ i = l \/ i \in before[l] \/ l \in before[i]
               /\ i \in before[l] => before[i] \subseteq before[l]
    <3>1. i \in Nat /\ l \in Nat /\ before[i] = {j \in I : j < i} /\ before[l] = {j \in I : j < l}
      BY <1>2, <2>1
    <3>2. i = l \/ i < l \/ l < i
      BY <3>1
    <3>3. i < l => \A j \in I : j < i => j < l
      BY <2>1
    <3> HIDE DEF Rank
    <3> QED BY ONLY <3>1, <3>2, <3>3, i \in I, l \in I
  <2> QED BY <1>1, <1>3, <2>2, <2>3 DEF Orders
<1>5. PICK at : at = InOrder(before)
  OBVIOUS
<1>6. /\ at \in [1..Cardinality(I) -> I]
      /\ \A k, l \in 1..Cardinality(I) : k < l <=> at[k] \in before[at[l]]
  BY <1>3, <1>4, <1>5, OrderIs DEF Arranges
<1>7. p = [k \in 1..Cardinality(I) |-> s[at[k]]]
  BY <1>2, <1>5 DEF Picked
<1>8. ASSUME NEW i \in I
      PROVE  Rank(I, i) \in Nat /\ Rank(I, i) + 1 \in 1..Cardinality(I) /\ at[Rank(I, i) + 1] = i
  <2>1. PICK r : r = Rank(I, i)
    OBVIOUS
  <2>2. r \in 0..(Cardinality(I) - 1)
    BY <1>3, <1>4, <2>1, RankGrows
  <2>3. r \in Nat /\ r + 1 \in 1..Cardinality(I) /\ (r + 1) - 1 = r
    BY <1>1, <2>2
  <2>4. at[r + 1] = CHOOSE x \in I : Cardinality(before[x]) = r
    BY <1>3, <1>5, <2>3 DEF InOrder
  <2>5. at[r + 1] \in I /\ Cardinality(before[at[r + 1]]) = r
    BY <1>3, <2>1, <2>4
  <2>6. at[r + 1] = i
    BY <1>3, <1>4, <2>1, <2>5, RankGrows
  <2> QED BY <2>1, <2>3, <2>6
<1>9. ASSUME NEW k \in 1..Cardinality(I) PROVE \E i \in I : Rank(I, i) + 1 = k
  <2>1. PICK i \in I : i = at[k]
    BY <1>6
  <2>2. PICK l \in 1..Cardinality(I) : l = Rank(I, i) + 1 /\ at[l] = i
    BY <1>8
  <2>3. i \notin before[i]
    BY <1>2
  <2>4. ~(k < l) /\ ~(l < k)
    BY <1>6, <2>1, <2>2, <2>3
  <2>5. k = l
    BY <1>1, <2>4
  <2> QED BY <2>2, <2>5
<1>10. p = [k \in 1..Cardinality(I) |-> p[k]]
  BY <1>7
<1> QED BY <1>1, <1>7, <1>8, <1>9, <1>10

-----------------------------------------------------------------------------
(***************************************************************************)
(* What becomes of the declared states.                                    *)
(***************************************************************************)
\* The places of the integers among the first k states, and those that are for the key.
IntsIn(seq, k) == {i \in 1..k : seq[i][2] \in Ints}
ForKey(seq, i) == seq[i][2] \in Ints /\ Cardinality(IntsIn(seq, i - 1)) < PyStates

\* The key after the first k states, and the other states.
KeyAt(key, seq, k) ==
  /\ Len(key) = IF Cardinality(IntsIn(seq, k)) <= PyStates THEN Cardinality(IntsIn(seq, k)) ELSE PyStates
  /\ \A i \in 1..k : ForKey(seq, i) =>
       /\ Cardinality(IntsIn(seq, i - 1)) + 1 \in 1..Len(key)
       /\ key[Cardinality(IntsIn(seq, i - 1)) + 1] = seq[i]
  /\ \A j \in 1..Len(key) : \E i \in 1..k : ForKey(seq, i) /\ Cardinality(IntsIn(seq, i - 1)) = j - 1
OthersAt(extra, seq, k) ==
  /\ \A i \in 1..k : ~ForKey(seq, i) => \E j \in 1..Len(extra) : extra[j] = seq[i]
  /\ \A j \in 1..Len(extra) : \E i \in 1..k : extra[j] = seq[i]
SplitAt(acc, seq, k) ==
  /\ acc \in [key : Seq(Pair), extra : Seq(Pair)]
  /\ KeyAt(acc.key, seq, k) /\ OthersAt(acc.extra, seq, k)

\* One more integer, or none.
LEMMA IntsNext ==
  ASSUME NEW seq, NEW k \in Nat \ {0}
  PROVE  /\ Cardinality(IntsIn(seq, k)) \in Nat /\ Cardinality(IntsIn(seq, k - 1)) \in Nat
         /\ Cardinality(IntsIn(seq, 0)) = 0
         /\ Cardinality(IntsIn(seq, k))
              = Cardinality(IntsIn(seq, k - 1)) + (IF seq[k][2] \in Ints THEN 1 ELSE 0)
<1>1. \A m \in Nat : IsFiniteSet(IntsIn(seq, m)) /\ Cardinality(IntsIn(seq, m)) \in Nat
  <2> TAKE m \in Nat
  <2>1. 1 \in Int /\ m \in Int /\ IntsIn(seq, m) \in SUBSET (1..m)
    BY DEF IntsIn
  <2>2. IsFiniteSet(IntsIn(seq, m))
    BY <2>1, FS_Interval, FS_Subset
  <2> QED BY <2>2, FS_CardinalityType
<1>2. PICK A, B : A = IntsIn(seq, k - 1) /\ B = IntsIn(seq, k)
  OBVIOUS
<1>3. k \notin A /\ B = IF seq[k][2] \in Ints THEN A \cup {k} ELSE A
  <2>1. (\A i : i \in 1..k <=> i \in 1..(k - 1) \/ i = k) /\ k \notin 1..(k - 1)
    OBVIOUS
  <2> QED BY <1>2, <2>1 DEF IntsIn
<1>4. IsFiniteSet(A) /\ Cardinality(A) \in Nat /\ Cardinality(B) \in Nat
  BY <1>1, <1>2
<1>5. Cardinality(A \cup {k}) = Cardinality(A) + 1
  BY <1>3, <1>4, FS_AddElement
<1>6. IntsIn(seq, 0) = {}
  BY DEF IntsIn
<1> QED BY <1>2, <1>3, <1>4, <1>5, <1>6, FS_EmptySet

\* One more state.
LEMMA SplitStep ==
  ASSUME NEW seq \in Seq(Pair), NEW k \in 1..Len(seq), NEW a, NEW b,
         SplitAt(a, seq, k - 1), b = Put(a, seq[k])
  PROVE  SplitAt(b, seq, k)
<1>1. PICK s \in Pair : s = seq[k]
  BY ElementOfSeq
<1>2. PICK m, o : m = Cardinality(IntsIn(seq, k - 1)) /\ o = Cardinality(IntsIn(seq, k))
  OBVIOUS
<1>3. k \in Nat \ {0} /\ m \in Nat /\ o \in Nat /\ o = m + (IF s[2] \in Ints THEN 1 ELSE 0)
  <2>1. k \in Nat \ {0}
    OBVIOUS
  <2> QED BY <1>1, <1>2, <2>1, IntsNext
<1>4. PICK p : p = PyStates /\ p \in Nat \ {0}
  BY StatesAssumption
<1>5. PICK A, E : A = a.key /\ E = a.extra
  OBVIOUS
<1>6. /\ a \in [key : Seq(Pair), extra : Seq(Pair)] /\ A \in Seq(Pair) /\ E \in Seq(Pair)
      /\ KeyAt(A, seq, k - 1) /\ OthersAt(E, seq, k - 1)
  BY <1>5 DEF SplitAt
<1>7. PICK B, F : B = b.key /\ F = b.extra
  OBVIOUS
<1>8. /\ b \in [key : Seq(Pair), extra : Seq(Pair)]
      /\ IsKey(A, s) => B = Append(A, s) /\ F = E
      /\ ~IsKey(A, s) => B = A /\ F = Append(E, s)
  BY <1>1, <1>5, <1>6, <1>7, PutIs
<1>9. Len(A) \in Nat /\ Len(A) = IF m <= p THEN m ELSE p
  BY <1>2, <1>3, <1>4, <1>6 DEF KeyAt
<1>10. (IsKey(A, s) <=> ForKey(seq, k)) /\ (ForKey(seq, k) <=> s[2] \in Ints /\ m < p)
  BY <1>1, <1>2, <1>3, <1>4, <1>9 DEF IsKey, ForKey
<1>11. \A i \in 1..k : i = k \/ i \in 1..(k - 1)
  OBVIOUS
<1>12. \A i \in 1..(k - 1) : i \in 1..k
  OBVIOUS
<1>13. /\ \A i \in 1..(k - 1) : ForKey(seq, i) =>
            /\ Cardinality(IntsIn(seq, i - 1)) + 1 \in 1..Len(A)
            /\ A[Cardinality(IntsIn(seq, i - 1)) + 1] = seq[i]
       /\ \A j \in 1..Len(A) : \E i \in 1..(k - 1) : ForKey(seq, i) /\ Cardinality(IntsIn(seq, i - 1)) = j - 1
       /\ \A i \in 1..(k - 1) : ~ForKey(seq, i) => \E j \in 1..Len(E) : E[j] = seq[i]
       /\ \A j \in 1..Len(E) : \E i \in 1..(k - 1) : E[j] = seq[i]
  BY <1>6 DEF KeyAt, OthersAt
<1>14. k \in 1..k
  BY <1>3
<1>15. CASE ForKey(seq, k)
  <2>1. /\ m < p /\ B \in Seq(Pair) /\ Len(B) = Len(A) + 1 /\ Len(A) = m /\ B[m + 1] = s /\ o = m + 1
        /\ \A i \in 1..m : B[i] = A[i]
    <3>1. B = Append(A, s) /\ m < p /\ s[2] \in Ints
      BY <1>8, <1>10, <1>15
    <3>2. Len(A) = m /\ o = m + 1
      BY <1>3, <1>4, <1>9, <3>1
    <3>3. B \in Seq(Pair) /\ Len(B) = Len(A) + 1 /\ B[Len(A) + 1] = s /\ \A i \in 1..Len(A) : B[i] = A[i]
      BY <1>6, <3>1, AppendIs
    <3> QED BY <3>1, <3>2, <3>3
  <2>2. Len(B) = IF o <= p THEN o ELSE p
    BY <1>3, <1>4, <2>1
  <2>3. ASSUME NEW i \in 1..k, ForKey(seq, i)
        PROVE  /\ Cardinality(IntsIn(seq, i - 1)) + 1 \in 1..Len(B)
               /\ B[Cardinality(IntsIn(seq, i - 1)) + 1] = seq[i]
    <3>1. CASE i = k
      <4>1. m + 1 \in 1..(m + 1)
        BY <1>3
      <4> QED BY <1>1, <1>2, <2>1, <3>1, <4>1
    <3>2. CASE i \in 1..(k - 1)
      <4>1. PICK q : q = Cardinality(IntsIn(seq, i - 1)) + 1
        OBVIOUS
      <4>2. q \in 1..m /\ A[q] = seq[i]
        BY <1>13, <2>1, <2>3, <3>2, <4>1
      <4>3. q \in 1..(m + 1)
        BY <1>3, <4>2
      <4> QED BY <2>1, <4>1, <4>2, <4>3
    <3> QED BY <1>11, <3>1, <3>2
  <2>4. ASSUME NEW j \in 1..Len(B)
        PROVE  \E i \in 1..k : ForKey(seq, i) /\ Cardinality(IntsIn(seq, i - 1)) = j - 1
    <3>1. j = m + 1 \/ j \in 1..m
      BY <1>3, <2>1
    <3>2. CASE j = m + 1
      <4>1. Cardinality(IntsIn(seq, k - 1)) = j - 1
        BY <1>2, <1>3, <3>2
      <4> QED BY <1>14, <1>15, <4>1
    <3>3. CASE j \in 1..m
      BY <1>12, <1>13, <2>1, <3>3
    <3> QED BY <3>1, <3>2, <3>3
  <2>5. KeyAt(B, seq, k)
    BY <1>2, <1>4, <2>2, <2>3, <2>4 DEF KeyAt
  <2>6. OthersAt(F, seq, k)
    <3>1. F = E
      BY <1>8, <1>10, <1>15
    <3>2. \A i \in 1..k : ~ForKey(seq, i) => i \in 1..(k - 1)
      BY <1>11, <1>15
    <3> QED BY <1>12, <1>13, <3>1, <3>2 DEF OthersAt
  <2> QED BY <1>7, <1>8, <2>5, <2>6 DEF SplitAt
<1>16. CASE ~ForKey(seq, k)
  <2>1. B = A /\ F = Append(E, s)
    BY <1>8, <1>10, <1>16
  <2>2. Len(B) = IF o <= p THEN o ELSE p
    BY <1>3, <1>4, <1>9, <1>10, <1>16, <2>1
  <2>3. \A i \in 1..k : ForKey(seq, i) => i \in 1..(k - 1)
    BY <1>11, <1>16
  <2>4. KeyAt(B, seq, k)
    BY <1>2, <1>4, <1>12, <1>13, <2>1, <2>2, <2>3 DEF KeyAt
  <2>5. Len(E) \in Nat /\ Len(F) = Len(E) + 1 /\ F[Len(E) + 1] = s /\ \A i \in 1..Len(E) : F[i] = E[i]
    BY <1>6, <2>1, AppendIs
  <2>6. \A j \in 1..Len(E) : j \in 1..Len(F)
    BY <2>5
  <2>7. Len(E) + 1 \in 1..Len(F) /\ \A j \in 1..Len(F) : j = Len(E) + 1 \/ j \in 1..Len(E)
    BY <2>5
  <2>8. ASSUME NEW i \in 1..k, ~ForKey(seq, i) PROVE \E j \in 1..Len(F) : F[j] = seq[i]
    <3>1. CASE i = k
      BY <1>1, <2>5, <2>7, <3>1
    <3>2. CASE i \in 1..(k - 1)
      <4>1. PICK j \in 1..Len(E) : E[j] = seq[i]
        BY <1>13, <2>8, <3>2
      <4> QED BY <2>5, <2>6, <4>1
    <3> QED BY <1>11, <3>1, <3>2
  <2>9. ASSUME NEW j \in 1..Len(F) PROVE \E i \in 1..k : F[j] = seq[i]
    <3>1. CASE j = Len(E) + 1
      BY <1>1, <1>14, <2>5, <3>1
    <3>2. CASE j \in 1..Len(E)
      <4>1. PICK i \in 1..(k - 1) : E[j] = seq[i]
        BY <1>13, <3>2
      <4> QED BY <1>12, <2>5, <3>2, <4>1
    <3> QED BY <2>7, <3>1, <3>2
  <2>10. OthersAt(F, seq, k)
    BY <2>8, <2>9 DEF OthersAt
  <2> QED BY <1>7, <1>8, <2>4, <2>10 DEF SplitAt
<1> QED BY <1>15, <1>16

\* What _split_state returns: the first integers, and all the other states.
LEMMA SplitIsAt ==
  ASSUME NEW seq \in Seq(Pair)
  PROVE  SplitAt(Split(seq), seq, Len(seq))
<1>1. PICK g : SplitRun(g, seq) /\ Split(seq) = g[1..Len(seq)]
  BY SplitRuns
<1>2. Len(seq) \in Nat
  BY LenProperties
<1> DEFINE G == {k \in Nat : k <= Len(seq) => SplitAt(g[1..k], seq, k)}
<1>3. 0 \in G
  <2>1. 1..0 = {} /\ g[1..0] = NoStates
    <3>1. 1..0 = {}
      OBVIOUS
    <3> QED BY <1>1, <3>1 DEF SplitRun
  <2>2. PICK key, extra : key = <<>> /\ extra = <<>> /\ NoStates = [key |-> key, extra |-> extra]
    BY DEF NoStates
  <2>3. key \in Seq(Pair) /\ extra \in Seq(Pair) /\ Len(key) = 0 /\ Len(extra) = 0
    BY <2>2
  <2>4. Cardinality(IntsIn(seq, 0)) = 0
    <3>1. 1 \in Nat \ {0}
      OBVIOUS
    <3> QED BY <3>1, IntsNext
  <2>5. KeyAt(key, seq, 0) /\ OthersAt(extra, seq, 0)
    BY <2>1, <2>3, <2>4, StatesAssumption DEF KeyAt, OthersAt
  <2>6. NoStates \in [key : Seq(Pair), extra : Seq(Pair)] /\ NoStates.key = key /\ NoStates.extra = extra
    BY <2>2, <2>3
  <2> QED BY <2>1, <2>5, <2>6 DEF SplitAt
<1>4. ASSUME NEW k \in Nat, k \in G PROVE k + 1 \in G
  <2> SUFFICES ASSUME k + 1 <= Len(seq) PROVE SplitAt(g[1..(k + 1)], seq, k + 1)
    OBVIOUS
  <2>1. PICK l \in 1..Len(seq) : l = k + 1 /\ l - 1 = k
    BY <1>2
  <2>2. SplitAt(g[1..(l - 1)], seq, l - 1)
    BY <1>2, <1>4, <2>1
  <2>3. g[1..l] = Put(g[1..(l - 1)], seq[l])
    BY <1>1 DEF SplitRun
  <2>4. SplitAt(g[1..l], seq, l)
    BY <2>2, <2>3, SplitStep
  <2> QED BY <2>1, <2>4
<1> HIDE DEF G
<1>5. Len(seq) \in G
  BY <1>2, <1>3, <1>4, NumberInduction
<1> QED BY <1>1, <1>2, <1>5 DEF G

-----------------------------------------------------------------------------
(***************************************************************************)
(* What the calls do to the frames while nothing is lost.                  *)
(***************************************************************************)
Unlost(c) == c.overflows = 0 /\ c.stateOver = 0

\* Frame f is pushed.
Pushed(c, d, f) ==
  /\ d.trace = c.trace /\ Len(d.stack) = Len(c.stack) + 1 /\ d.stack[Len(d.stack)] = f
  /\ \A i \in 1..Len(c.stack) : d.stack[i] = c.stack[i]

\* A begin pushes a frame with the whole key.
LEMMA BeginAdds ==
  ASSUME NEW n \in Nat, NEW c \in Client(n), NEW region \in Names, NEW key \in Seq(Pair),
         NEW id \in 0..n, NEW declared \in Seq(Pair),
         NEW d, d = ClientBegin(c, region, key, id, declared), Unlost(d)
  PROVE  /\ Unlost(c)
         /\ \E f : Pushed(c, d, f) /\ f.key = key /\ f.extra = <<>> /\ f.id = id /\ f.declared = declared
                   /\ f.later = <<>>
<1> DEFINE over == IF Len(key) > KeyStates THEN 1 ELSE 0
           m == Min({KeyStates, Len(key)})
           cut == SubSeq(key, 1, m)
           frame == [region |-> region, key |-> cut, extra |-> <<>>, id |-> id, declared |-> declared,
                     later |-> <<>>]
<1>1. over \in Nat /\ Len(key) \in Nat /\ (over = 0 => Len(key) <= KeyStates)
  BY StatesAssumption, LenProperties
<1>2. d = IF Len(c.stack) = MaxDepth
          THEN [c EXCEPT !.overflows = c.overflows + 1, !.stateOver = c.stateOver + over]
          ELSE [c EXCEPT !.stack = Append(c.stack, frame), !.stateOver = c.stateOver + over]
  BY DEF ClientBegin
<1>3. c.overflows \in Nat /\ c.stateOver \in Nat /\ Len(c.stack) \in Nat
  BY ClientIs
<1>4. /\ d.stateOver = c.stateOver + over
      /\ d.overflows = IF Len(c.stack) = MaxDepth THEN c.overflows + 1 ELSE c.overflows
  <2> HIDE DEF over, frame
  <2> QED BY <1>2 DEF Client
<1>5. Unlost(c) /\ over = 0 /\ Len(c.stack) # MaxDepth
  <2> HIDE DEF over
  <2> QED BY <1>1, <1>3, <1>4 DEF Unlost
<1>6. cut = key
  <2>1. m = Len(key)
    <3>1. Len(key) <= KeyStates /\ KeyStates \in Nat
      BY <1>1, <1>5, StatesAssumption
    <3>2. \A x \in {KeyStates, Len(key)} : (\A y \in {KeyStates, Len(key)} : x <= y) => x = Len(key)
      BY <1>1, <3>1
    <3>3. Len(key) \in {KeyStates, Len(key)} /\ \A y \in {KeyStates, Len(key)} : Len(key) <= y
      BY <1>1, <3>1
    <3> QED BY <3>2, <3>3 DEF Min
  <2>2. PICK q : q = cut
    OBVIOUS
  <2>3. q = SubSeq(key, 1, Len(key))
    BY <2>1, <2>2
  <2>4. Len(key) <= Len(key)
    BY <1>1
  <2>5. q \in Seq(Pair) /\ Len(q) = Len(key) /\ \A i \in 1..Len(key) : q[i] = key[i]
    BY ONLY <1>1, <2>3, <2>4, FirstIs, key \in Seq(Pair)
  <2>6. q = [i \in 1..Len(q) |-> q[i]] /\ key = [i \in 1..Len(key) |-> key[i]]
    BY <2>5, LenProperties
  <2>7. q = key
    BY <2>5, <2>6
  <2> QED BY <2>2, <2>7
<1>7. PICK f : /\ f = [region |-> region, key |-> key, extra |-> <<>>, id |-> id, declared |-> declared,
                         later |-> <<>>]
               /\ f = frame
  BY <1>6
<1> HIDE DEF over, frame, cut, m
<1>8. f \in Frame(n)
  <2>1. <<>> \in Seq(State) /\ Len(<<>>) <= MaxStates /\ <<>> \in Seq(Pair)
    BY StatesAssumption
  <2>2. Len(key) <= KeyStates
    BY <1>1, <1>5
  <2> QED BY <1>7, <2>1, <2>2 DEF Frame, Shape
<1>9. d.stack = Append(c.stack, f) /\ d.trace = c.trace
  BY <1>2, <1>5, <1>7 DEF Client
<1>10. /\ Len(d.stack) = Len(c.stack) + 1 /\ d.stack[Len(c.stack) + 1] = f
       /\ \A i \in 1..Len(c.stack) : d.stack[i] = c.stack[i]
  BY <1>8, <1>9, ClientIs, AppendIs
<1>11. Pushed(c, d, f)
  BY <1>9, <1>10 DEF Pushed
<1> QED BY <1>5, <1>7, <1>11

\* A state is appended to those of the innermost frame, if there is one.
LEMMA StateAdds ==
  ASSUME NEW n \in Nat, NEW c \in Client(n), NEW s \in State,
         NEW d, d = ClientState(c, s), Unlost(d)
  PROVE  /\ Unlost(c) /\ d.trace = c.trace
         /\ \/ c.stack = <<>> /\ d = c
            \/ \E f, e : /\ Changed(c, d, f, e) /\ f \in Frame(n)
                         /\ e.key = f.key /\ e.id = f.id /\ e.declared = f.declared
                         /\ e.extra = Append(f.extra, s) /\ e.later = f.later
<1>1. c.overflows \in Nat /\ c.stateOver \in Nat /\ c.stack \in Seq(Frame(n)) /\ Len(c.stack) \in Nat
  BY ClientIs
<1>2. CASE c.stack = <<>>
  BY <1>2 DEF ClientState
<1>3. CASE c.stack # <<>> /\ NoRoom(Last(c.stack))
  <2>1. d = [c EXCEPT !.stateOver = c.stateOver + 1]
    BY <1>3 DEF ClientState
  <2>2. d.stateOver = c.stateOver + 1
    BY <2>1 DEF Client
  <2> QED BY <1>1, <2>2 DEF Unlost
<1>4. CASE c.stack # <<>> /\ ~NoRoom(Last(c.stack))
  <2>1. PICK l : l = Len(c.stack) /\ l \in Nat \ {0}
    BY <1>1, <1>4
  <2>2. l \in 1..l
    BY <2>1
  <2>3. PICK f \in Frame(n) : f = c.stack[l]
    BY <1>1, <2>1, <2>2, ElementOfSeq
  <2>4. PICK x : x = Append(f.extra, s)
    OBVIOUS
  <2>5. PICK e : e = [f EXCEPT !.extra = x]
    OBVIOUS
  <2>6. PICK st : st = [c.stack EXCEPT ![l] = e]
    OBVIOUS
  <2>7. d = [c EXCEPT !.stack = st]
    BY <1>4, <2>1, <2>3, <2>4, <2>5, <2>6 DEF ClientState
  <2>8. d.stack = st /\ d.trace = c.trace /\ d.overflows = c.overflows /\ d.stateOver = c.stateOver
    BY <2>7 DEF Client
  <2>9. Len(st) = l /\ st[l] = e /\ \A i \in 1..l : i # l => st[i] = c.stack[i]
    BY <1>1, <2>1, <2>2, <2>6
  <2>10. /\ e.key = f.key /\ e.id = f.id /\ e.declared = f.declared
         /\ e.extra = x /\ e.later = f.later
    BY <2>3, <2>5, WithStates
  <2>11. Changed(c, d, f, e)
    BY <1>4, <2>1, <2>3, <2>8, <2>9 DEF Changed
  <2>12. Unlost(c)
    BY <2>8 DEF Unlost
  <2> QED BY <2>4, <2>8, <2>10, <2>11, <2>12
<1> QED BY <1>2, <1>3, <1>4

\* An end moves frames to the trace, as they are.
LEMMA EndMoves ==
  ASSUME NEW n \in Nat, NEW c \in Client(n), NEW region, NEW d, d = ClientEnd(c, region)
  PROVE  /\ Unlost(d) <=> Unlost(c)
         /\ \A i \in 1..Len(d.stack) : \E j \in 1..Len(c.stack) : d.stack[i] = c.stack[j]
         /\ \A f \in d.trace : f \in c.trace \/ \E j \in 1..Len(c.stack) : f = c.stack[j]
<1> DEFINE of == {i \in 1..Len(c.stack) : c.stack[i].region = region}
           m == Max(of)
<1>1. d = IF of = {} THEN [c EXCEPT !.unmatched = c.unmatched + 1]
          ELSE [c EXCEPT !.stack = SubSeq(c.stack, 1, m - 1),
                         !.trace = c.trace \cup {c.stack[i] : i \in m..Len(c.stack)}]
  BY DEF ClientEnd
<1>2. c.stack \in Seq(Frame(n)) /\ Len(c.stack) \in Nat
  BY ClientIs
<1>3. CASE of = {}
  <2>1. d.stack = c.stack /\ d.trace = c.trace /\ d.overflows = c.overflows /\ d.stateOver = c.stateOver
    BY <1>1, <1>3 DEF Client
  <2> QED BY <2>1 DEF Unlost
<1>4. CASE of # {}
  <2>1. m \in 1..Len(c.stack)
    <3>1. of \in SUBSET (1..Len(c.stack))
      OBVIOUS
    <3>2. Max(of) \in of
      <4> HIDE DEF of
      <4> QED BY <1>2, <1>4, <3>1, LastIn
    <3> QED BY <3>1, <3>2
  <2> HIDE DEF m
  <2>2. PICK st, tr : st = SubSeq(c.stack, 1, m - 1) /\ tr = c.trace \cup {c.stack[i] : i \in m..Len(c.stack)}
    OBVIOUS
  <2>3. d.stack = st /\ d.trace = tr /\ d.overflows = c.overflows /\ d.stateOver = c.stateOver
    BY <1>1, <1>4, <2>2 DEF Client
  <2>4. PICK l \in Nat : l = m - 1 /\ l <= Len(c.stack)
    BY <1>2, <2>1
  <2>5. Len(st) = l /\ \A i \in 1..l : st[i] = c.stack[i]
    BY <1>2, <2>2, <2>4, FirstIs
  <2>6. \A i \in 1..l : i \in 1..Len(c.stack)
    BY <1>2, <2>4
  <2>7. \A f \in tr : f \in c.trace \/ \E j \in 1..Len(c.stack) : f = c.stack[j]
    <3>1. \A i \in m..Len(c.stack) : i \in 1..Len(c.stack)
      BY <1>2, <2>1
    <3> QED BY <2>2, <3>1
  <2> QED BY <2>3, <2>5, <2>6, <2>7 DEF Unlost
<1> QED BY <1>3, <1>4

-----------------------------------------------------------------------------
(***************************************************************************)
(* The states of a frame.                                                  *)
(***************************************************************************)
\* The largest of some of the first numbers.
LEMMA LargestIn ==
  ASSUME NEW l \in Nat, NEW S \in SUBSET (1..l), S # {}
  PROVE  Max(S) \in S /\ \A i \in S : i <= Max(S)
<1>1. IsFiniteSet(1..l)
  BY FS_Interval
<1>2. IsFiniteSet(S)
  BY <1>1, FS_Subset
<1>3. S \subseteq Int
  OBVIOUS
<1> QED BY <1>2, <1>3, MaxIs

\* A state that is not called like a keyword's.
Foreign(s) == \A t \in Keywords : \A i \in 1..Len(t) : s[1] # t[i][1]

\* The places of a name, of which w[j] is the last.
Named(w, name) == {k \in 1..Len(w) : w[k][1] = name}
LastNamed(w, j, name) == w[j][1] = name /\ \A h \in j + 1..Len(w) : w[h][1] # name

\* A frame has the first integers among its declared states as its key, and the others in
\* front of, behind or between states that came later: of a declared name that is not in
\* the key, or that a note had, the last value is the expected one.
Among(extra, seq, later) ==
  \A i \in 1..Len(seq) :
    /\ ~ForKey(seq, i) \/ Named(later, seq[i][1]) # {} =>
         \E j \in 1..Len(extra) : extra[j][1] = seq[i][1]
    /\ \A j \in 1..Len(extra) : LastNamed(extra, j, seq[i][1]) => extra[j] = Expected(later, seq[i])
Kept(f) == KeyAt(f.key, f.declared, Len(f.declared)) /\ Among(f.extra, f.declared, f.later)

\* Without a note of its name the value of a state is the declared one.
LEMMA ExpectedNone ==
  ASSUME NEW later, NEW s, Named(later, s[1]) = {}
  PROVE  Expected(later, s) = s
BY DEF Expected, Named

\* A state replaces what was expected under its name, and under no other.
Replaces(later, more, s, t) ==
  /\ Expected(more, t) = IF s[1] = t[1] THEN s ELSE Expected(later, t)
  /\ Named(more, t[1]) # {} => s[1] = t[1] \/ Named(later, t[1]) # {}
\* The last note of a name does.
LEMMA ExpectedNext ==
  ASSUME NEW later \in Seq(Pair), NEW s \in Pair, NEW t
  PROVE  Replaces(later, Append(later, s), s, t)
<1> SUFFICES ASSUME NEW more, more = Append(later, s) PROVE Replaces(later, more, s, t)
  OBVIOUS
<1> DEFINE l == Len(later)
           old == {k \in 1..Len(later) : later[k][1] = t[1]}
           new == {k \in 1..Len(more) : more[k][1] = t[1]}
<1>1. l \in Nat /\ Len(more) = l + 1 /\ more[l + 1] = s /\ \A i \in 1..l : more[i] = later[i]
  BY AppendIs
<1>2. \A k : k \in 1..Len(more) <=> k \in 1..l \/ k = l + 1
  BY <1>1
<1>3. l + 1 \notin 1..l
  BY <1>1
<1>4. CASE s[1] = t[1]
  <2>1. PICK m \in Nat : m = l + 1
    BY <1>1
  <2>2. m \in new /\ new \in SUBSET (1..m)
    BY <1>1, <1>2, <1>4, <2>1
  <2>3. Max(new) \in new /\ \A i \in new : i <= Max(new)
    <3> HIDE DEF new
    <3> QED BY <2>1, <2>2, LargestIn
  <2>4. Max(new) = m
    <3>1. Max(new) \in 1..m /\ m <= Max(new)
      BY <2>2, <2>3
    <3> HIDE DEF new
    <3> QED BY <3>1
  <2>5. Expected(more, t) = more[Max(new)]
    BY <2>2 DEF Expected
  <2> QED BY <1>1, <1>4, <2>1, <2>4, <2>5 DEF Replaces
<1>5. CASE s[1] # t[1]
  <2>1. new = old
    BY <1>1, <1>2, <1>3, <1>5
  <2>2. CASE old = {}
    BY <1>5, <2>1, <2>2 DEF Expected, Named, Replaces
  <2>3. CASE old # {}
    <3>1. old \in SUBSET (1..l)
      OBVIOUS
    <3>2. Max(old) \in old
      <4> HIDE DEF old
      <4> QED BY <1>1, <2>3, <3>1, LastIn
    <3>3. more[Max(old)] = later[Max(old)]
      BY <1>1, <3>2
    <3>4. Expected(later, t) = later[Max(old)] /\ Expected(more, t) = more[Max(new)]
      BY <2>1, <2>3 DEF Expected
    <3>5. Named(later, t[1]) # {}
      BY <2>3 DEF Named
    <3> QED BY <1>5, <2>1, <3>3, <3>4, <3>5 DEF Replaces
  <2> QED BY <2>2, <2>3
<1> QED BY <1>4, <1>5

\* One more state, of another name than the declared ones or a note.
LEMMA AmongMore ==
  ASSUME NEW x \in Seq(State), NEW s \in State, NEW y, y = Append(x, s), NEW q, NEW later, NEW more,
         Among(x, q, later), \A i \in 1..Len(q) : Replaces(later, more, s, q[i])
  PROVE  Among(y, q, more)
<1>1. Len(x) \in Nat /\ Len(y) = Len(x) + 1 /\ y[Len(x) + 1] = s /\ \A j \in 1..Len(x) : y[j] = x[j]
  BY AppendIs
<1>2. \A j : j \in 1..Len(y) <=> j \in 1..Len(x) \/ j = Len(x) + 1
  BY <1>1
<1>3. ASSUME NEW i \in 1..Len(q), ~ForKey(q, i) \/ Named(more, q[i][1]) # {}
      PROVE  \E j \in 1..Len(y) : y[j][1] = q[i][1]
  <2>1. CASE s[1] = q[i][1]
    BY <1>1, <1>2, <2>1
  <2>2. CASE s[1] # q[i][1]
    <3>1. PICK j \in 1..Len(x) : x[j][1] = q[i][1]
      BY <1>3, <2>2 DEF Among, Replaces
    <3> QED BY <1>1, <1>2, <3>1
  <2> QED BY <2>1, <2>2
<1>4. ASSUME NEW i \in 1..Len(q), NEW j \in 1..Len(y), LastNamed(y, j, q[i][1])
      PROVE  y[j] = Expected(more, q[i])
  <2>1. CASE s[1] = q[i][1]
    <3>1. ~(Len(x) + 1 \in j + 1..Len(y))
      BY <1>1, <1>4, <2>1 DEF LastNamed
    <3>2. j = Len(x) + 1
      BY <1>1, <3>1
    <3> QED BY <1>1, <2>1, <3>2 DEF Replaces
  <2>2. CASE s[1] # q[i][1]
    <3>1. j # Len(x) + 1
      BY <1>1, <1>4, <2>2 DEF LastNamed
    <3>2. j \in 1..Len(x) /\ y[j] = x[j]
      BY <1>1, <1>2, <3>1
    <3>3. \A h \in j + 1..Len(x) : h \in j + 1..Len(y) /\ h \in 1..Len(x)
      BY <1>1, <3>2
    <3>4. LastNamed(x, j, q[i][1])
      BY <1>1, <1>4, <3>2, <3>3 DEF LastNamed
    <3> QED BY <2>2, <3>2, <3>4 DEF Among, Replaces
  <2> QED BY <2>1, <2>2
<1> QED BY <1>3, <1>4 DEF Among

\* The binding's own regions have id 0.  What a frame was given is told whole, unless the
\* frame was abandoned: a value that does not fit is another one then.
Told(f, ab) == f.id = 0 \/ (f.declared \in Keywords /\ (f.id \in ab \/ Kept(f)))
AllTold(c, ab) ==
  /\ \A i \in 1..Len(c.stack) : Told(c.stack[i], ab)
  /\ \A f \in c.trace : Told(f, ab)
Good(c, ab) == Unlost(c) => AllTold(c, ab)

\* More abandoned frames.
LEMMA GoodMore ==
  ASSUME NEW c, NEW ab, NEW more, ab \subseteq more, Good(c, ab)
  PROVE  Good(c, more)
BY DEF Good, AllTold, Told

\* A frame that changes and is told still.
LEMMA ToldChanged ==
  ASSUME NEW n \in Nat, NEW c \in Client(n), NEW d, NEW f, NEW e, NEW ab, AllTold(c, ab),
         Changed(c, d, f, e), d.trace = c.trace, e.id = f.id, e.declared = f.declared,
         e.key = f.key, f.declared \in Keywords /\ Kept(f) => Kept(e)
  PROVE  AllTold(d, ab)
<1>1. Len(c.stack) \in Nat
  BY ClientIs
<1>2. Len(c.stack) \in 1..Len(c.stack) /\ f = c.stack[Len(c.stack)]
  <2>1. Len(c.stack) # 0
    BY ClientIs DEF Changed
  <2> QED BY <1>1, <2>1 DEF Changed
<1>3. Told(f, ab)
  BY <1>2 DEF AllTold
<1>4. Told(e, ab)
  BY <1>3 DEF Told
<1>5. \A i \in 1..Len(d.stack) : Told(d.stack[i], ab)
  BY <1>4 DEF AllTold, Changed
<1>6. \A g \in d.trace : Told(g, ab)
  BY DEF AllTold
<1> QED BY <1>5, <1>6 DEF AllTold

\* A frame with nothing to tell, or one that is told.
LEMMA GoodPushed ==
  ASSUME NEW n \in Nat, NEW c \in Client(n), NEW d, NEW f, NEW ab, Unlost(c), Good(c, ab),
         Pushed(c, d, f), Told(f, ab)
  PROVE  Good(d, ab)
<1>1. Len(c.stack) \in Nat
  BY ClientIs
<1>2. \A i \in 1..Len(d.stack) : i = Len(d.stack) \/ i \in 1..Len(c.stack)
  BY <1>1 DEF Pushed
<1> QED BY <1>2 DEF Good, AllTold, Pushed

\* A frame of the binding's own regions has nothing to tell.
LEMMA GoodBegin ==
  ASSUME NEW n \in Nat, NEW c \in Client(n), NEW region \in Names, NEW ab, Good(c, ab),
         NEW d, d = ClientBegin(c, region, <<>>, 0, <<>>)
  PROVE  Good(d, ab)
<1> SUFFICES ASSUME Unlost(d) PROVE Good(d, ab)
  BY DEF Good
<1>1. PICK none \in Seq(Pair), zero \in 0..n :
        zero = 0 /\ d = ClientBegin(c, region, none, zero, none)
  <2>1. <<>> \in Seq(Pair) /\ 0 \in 0..n
    OBVIOUS
  <2> QED BY <2>1
<1>2. /\ Unlost(c)
      /\ \E f : Pushed(c, d, f) /\ f.key = none /\ f.extra = <<>> /\ f.id = zero /\ f.declared = none
  BY <1>1, BeginAdds
<1>3. PICK f : Pushed(c, d, f) /\ f.id = 0
  BY <1>1, <1>2
<1>4. Told(f, ab)
  BY <1>3 DEF Told
<1> QED BY <1>2, <1>3, <1>4, GoodPushed

\* An end.
LEMMA GoodEnd ==
  ASSUME NEW n \in Nat, NEW c \in Client(n), NEW region, NEW ab, Good(c, ab),
         NEW d, d = ClientEnd(c, region)
  PROVE  Good(d, ab)
<1>1. /\ Unlost(d) <=> Unlost(c)
      /\ \A i \in 1..Len(d.stack) : \E j \in 1..Len(c.stack) : d.stack[i] = c.stack[j]
      /\ \A f \in d.trace : f \in c.trace \/ \E j \in 1..Len(c.stack) : f = c.stack[j]
  BY EndMoves
<1> QED BY <1>1 DEF Good, AllTold

\* A state that is no keyword's.
LEMMA GoodState ==
  ASSUME NEW n \in Nat, NEW c \in Client(n), NEW s \in State, Foreign(s), NEW ab, Good(c, ab),
         NEW d, d = ClientState(c, s)
  PROVE  Good(d, ab)
<1> SUFFICES ASSUME Unlost(d) PROVE AllTold(d, ab)
  BY DEF Good
<1>1. /\ Unlost(c) /\ d.trace = c.trace
      /\ \/ c.stack = <<>> /\ d = c
         \/ \E f, e : /\ Changed(c, d, f, e) /\ f \in Frame(n)
                      /\ e.key = f.key /\ e.id = f.id /\ e.declared = f.declared
                      /\ e.extra = Append(f.extra, s) /\ e.later = f.later
  BY StateAdds
<1>2. AllTold(c, ab)
  BY <1>1 DEF Good
<1>3. CASE c.stack = <<>> /\ d = c
  BY <1>2, <1>3
<1>4. ASSUME NEW f, NEW e, Changed(c, d, f, e), f \in Frame(n), e.key = f.key, e.id = f.id,
             e.declared = f.declared, e.extra = Append(f.extra, s), e.later = f.later
      PROVE  AllTold(d, ab)
  <2>1. ASSUME f.declared \in Keywords, Kept(f) PROVE Kept(e)
    <3>1. PICK x, y, q, later : x = f.extra /\ y = e.extra /\ q = f.declared /\ later = f.later
      OBVIOUS
    <3>2. x \in Seq(State) /\ y = Append(x, s) /\ q \in Keywords
      BY <1>4, <2>1, <3>1, FrameIs
    <3>3. Among(x, q, later)
      BY <2>1, <3>1 DEF Kept
    <3>4. \A i \in 1..Len(q) : s[1] # q[i][1]
      BY <3>2 DEF Foreign
    <3>5. \A i \in 1..Len(q) : Replaces(later, later, s, q[i])
      BY <3>4 DEF Replaces
    <3>6. Among(y, q, later)
      BY <3>2, <3>3, <3>5, AmongMore
    <3> QED BY <1>4, <2>1, <3>1, <3>6 DEF Kept
  <2> QED BY <1>1, <1>2, <1>4, <2>1, ToldChanged
<1> QED BY <1>1, <1>3, <1>4

\* A note, of any name.
LEMMA GoodNote ==
  ASSUME NEW n \in Nat, NEW c \in Client(n), NEW s \in Pair, s \in State, NEW ab, Good(c, ab),
         NEW d, d = Noted(ClientState(c, s), s)
  PROVE  Good(d, ab)
<1> SUFFICES ASSUME Unlost(d) PROVE AllTold(d, ab)
  BY DEF Good
<1>1. PICK b : b = ClientState(c, s) /\ d = Noted(b, s)
  OBVIOUS
<1>2. b \in Client(n)
  BY <1>1, StateIs
<1>3. /\ d.trace = b.trace /\ (Unlost(b) <=> Unlost(d))
      /\ \/ b.stack = <<>> /\ d = b
         \/ \E g, e : /\ Changed(b, d, g, e) /\ g \in Frame(n)
                      /\ e.key = g.key /\ e.id = g.id /\ e.declared = g.declared
                      /\ e.extra = g.extra /\ e.later = Append(g.later, s)
  <2>1. /\ d.trace = b.trace /\ d.overflows = b.overflows /\ d.stateOver = b.stateOver
        /\ \/ b.stack = <<>> /\ d = b
           \/ \E g, e : /\ Changed(b, d, g, e) /\ g \in Frame(n)
                        /\ e.region = g.region /\ e.key = g.key /\ e.id = g.id
                        /\ e.declared = g.declared /\ e.extra = g.extra
                        /\ e.later = Append(g.later, s)
    BY <1>1, <1>2, NotedIs
  <2> QED BY <2>1 DEF Unlost
<1>4. /\ Unlost(c) /\ b.trace = c.trace
      /\ \/ c.stack = <<>> /\ b = c
         \/ \E f, g : /\ Changed(c, b, f, g) /\ f \in Frame(n)
                      /\ g.key = f.key /\ g.id = f.id /\ g.declared = f.declared
                      /\ g.extra = Append(f.extra, s) /\ g.later = f.later
  BY <1>1, <1>3, StateAdds
<1>5. AllTold(c, ab)
  BY <1>4 DEF Good
<1>6. Len(c.stack) \in Nat /\ Len(b.stack) \in Nat
  BY <1>2, ClientIs
<1>7. CASE c.stack = <<>> /\ b = c
  <2>1. d = b
    BY <1>3, <1>7 DEF Changed
  <2> QED BY <1>5, <1>7, <2>1
<1>8. ASSUME NEW f, NEW g, Changed(c, b, f, g), f \in Frame(n), g.key = f.key, g.id = f.id,
             g.declared = f.declared, g.extra = Append(f.extra, s), g.later = f.later
      PROVE  AllTold(d, ab)
  <2>1. Len(c.stack) # 0 /\ Len(b.stack) = Len(c.stack)
    BY <1>8, ClientIs DEF Changed
  <2>2. b.stack # <<>>
    <3>1. ASSUME b.stack = <<>> PROVE Len(b.stack) = 0
      BY <3>1
    <3> QED BY <2>1, <3>1
  <2>3. PICK h, e : /\ Changed(b, d, h, e) /\ h \in Frame(n)
                    /\ e.key = h.key /\ e.id = h.id /\ e.declared = h.declared
                    /\ e.extra = h.extra /\ e.later = Append(h.later, s)
    BY <1>3, <2>2
  <2>4. h = g
    BY <1>8, <2>1, <2>3 DEF Changed
  <2>5. Changed(c, d, f, e)
    BY <1>6, <1>8, <2>1, <2>3 DEF Changed
  <2>6. ASSUME f.declared \in Keywords, Kept(f) PROVE Kept(e)
    <3>1. PICK x, y, q, later, more : /\ x = f.extra /\ y = e.extra /\ q = f.declared
                                      /\ later = f.later /\ more = e.later
      OBVIOUS
    <3>2. x \in Seq(State) /\ later \in Seq(Pair)
      BY <1>8, <3>1, FrameIs
    <3>3. y = Append(x, s) /\ more = Append(later, s)
      BY <1>8, <2>3, <2>4, <3>1
    <3>4. Among(x, q, later)
      BY <2>6, <3>1 DEF Kept
    <3>5. \A i \in 1..Len(q) : Replaces(later, more, s, q[i])
      BY <3>2, <3>3, ExpectedNext
    <3>6. Among(y, q, more)
      BY <3>2, <3>3, <3>4, <3>5, AmongMore
    <3> QED BY <1>8, <2>3, <2>4, <2>6, <3>1, <3>6 DEF Kept
  <2> QED BY <1>3, <1>4, <1>5, <1>8, <2>3, <2>4, <2>5, <2>6, ToldChanged
<1> QED BY <1>4, <1>7, <1>8

\* Several of them.
LEMMA GoodStates ==
  ASSUME NEW n \in Nat, NEW c \in Client(n), NEW seq \in Seq(State),
         \A k \in 1..Len(seq) : Foreign(seq[k]), NEW ab, Good(c, ab),
         NEW d, d = FoldLeft(ClientState, c, seq)
  PROVE  Good(d, ab)
<1> DEFINE V == {v \in Client(n) : Good(v, ab)}
<1>1. PICK g : StatesRun(n, g, c, seq) /\ d = g[1..Len(seq)]
  BY StatesRuns
<1>2. Len(seq) \in Nat /\ \A k \in 1..Len(seq) : seq[k] \in State
  BY ElementOfSeq, LenProperties
<1>3. g[{}] \in V
  BY <1>1 DEF StatesRun
<1>4. ASSUME NEW k \in 1..Len(seq), g[1..(k - 1)] \in V PROVE g[1..k] \in V
  <2>1. PICK v, w, s : v = g[1..(k - 1)] /\ w = g[1..k] /\ s = seq[k]
    OBVIOUS
  <2>2. v \in Client(n) /\ w \in Client(n) /\ w = ClientState(v, s)
    BY <1>1, <2>1 DEF StatesRun
  <2>3. Good(v, ab) /\ s \in State /\ Foreign(s)
    BY <1>2, <1>4, <2>1
  <2>4. Good(w, ab)
    BY <2>2, <2>3, GoodState
  <2> QED BY <2>1, <2>2, <2>4
<1> HIDE DEF V
<1>5. g[1..Len(seq)] \in V
  BY <1>2, <1>3, <1>4, FoldKeeps
<1> QED BY <1>1, <1>5 DEF V

\* An empty region.
LEMMA GoodMarker ==
  ASSUME NEW n \in Nat, NEW c \in Client(n), NEW name \in Names, NEW ab, Good(c, ab),
         NEW d, d = Marker(c, name)
  PROVE  Good(d, ab)
<1>1. PICK b : b = ClientBegin(c, name, <<>>, 0, <<>>)
  OBVIOUS
<1>2. <<>> \in Seq(Pair) /\ 0 \in 0..n
  OBVIOUS
<1>3. b \in Client(n)
  BY <1>1, <1>2, BeginIs
<1>4. Good(b, ab)
  BY <1>1, GoodBegin
<1>5. d = ClientEnd(b, name)
  BY <1>1 DEF Marker
<1> QED BY <1>3, <1>4, <1>5, GoodEnd

\* The calibration.
LEMMA GoodCalibrate ==
  ASSUME NEW n \in Nat, NEW c \in Client(n), NEW ab, Good(c, ab), NEW d, d = Calibrate(c)
  PROVE  Good(d, ab)
<1> DEFINE name == "_perfmark_calibration_outer"
           loop == "_perfmark_calibration_loop"
<1>1. name \in Names /\ loop \in Names /\ <<>> \in Seq(Pair) /\ 0 \in 0..n
  BY DEF Names, Own
<1>2. PICK m : m = Marker(c, loop)
  OBVIOUS
<1>3. PICK o : o = ClientBegin(m, name, <<>>, 0, <<>>)
  OBVIOUS
<1>4. PICK r : r = Repeated(o)
  OBVIOUS
<1>5. d = ClientEnd(r, name)
  BY <1>2, <1>3, <1>4 DEF Calibrate, Repeated
<1> HIDE DEF name, loop
<1>6. m \in Client(n) /\ Good(m, ab)
  <2>1. m \in Client(n)
    BY <1>1, <1>2, MarkerIs
  <2> QED BY <1>1, <1>2, <2>1, GoodMarker
<1>7. o \in Client(n) /\ Good(o, ab)
  <2>1. o \in Client(n)
    BY <1>1, <1>3, <1>6, BeginIs
  <2> QED BY <1>1, <1>3, <1>6, <2>1, GoodBegin
<1>8. r \in Client(n) /\ Good(r, ab)
  <2> DEFINE V == {v \in Client(n) : Good(v, ab)}
  <2>1. PICK g : RepeatRun(n, g, o) /\ r = g[1..Repeats]
    BY <1>4, <1>7, RepeatRuns
  <2>2. g[{}] \in V
    BY <1>7, <2>1 DEF RepeatRun
  <2>3. ASSUME NEW k \in 1..Repeats, g[1..(k - 1)] \in V PROVE g[1..k] \in V
    <3>1. PICK v, w : v = g[1..(k - 1)] /\ w = g[1..k]
      OBVIOUS
    <3>2. v \in Client(n) /\ w \in Client(n) /\ w = Repeat(v)
      BY <2>1, <3>1 DEF RepeatRun
    <3>3. Good(v, ab)
      BY <2>3, <3>1
    <3>4. Good(w, ab)
      BY <3>2, <3>3, GoodMarker DEF Repeat, Names, Own
    <3> QED BY <3>1, <3>2, <3>4
  <2> HIDE DEF V
  <2>4. g[1..Repeats] \in V
    BY <2>2, <2>3, StatesAssumption, FoldKeeps
  <2> QED BY <2>1, <2>4 DEF V
<1> QED BY <1>5, <1>8, GoodEnd

-----------------------------------------------------------------------------
(***************************************************************************)
(* Entering a block.                                                       *)
(***************************************************************************)
\* What a region object holds of its declared states.
LEMMA ObjectSplit ==
  ASSUME NEW obj \in Objects
  PROVE  /\ obj.declared \in Keywords /\ Len(obj.key) \in Nat /\ Len(obj.key) <= PyStates
         /\ KeyAt(obj.key, obj.declared, Len(obj.declared))
         /\ OthersAt(obj.extra, obj.declared, Len(obj.declared))
<1>1. PICK r \in Regions, s \in Keywords : obj = Object(r, s)
  BY DEF Objects
<1>2. s \in Seq(Pair)
  BY KeywordIs
<1>3. KeyAt(Split(s).key, s, Len(s)) /\ OthersAt(Split(s).extra, s, Len(s))
  BY <1>2, SplitIsAt DEF SplitAt
<1>4. obj.key = Split(s).key /\ obj.extra = Split(s).extra /\ obj.declared = s
  BY <1>1 DEF Object
<1>5. Len(obj.key) \in Nat /\ Len(obj.key) <= PyStates
  <2>1. obj.key \in Seq(Pair)
    BY ObjectIs
  <2>2. \/ Len(obj.key) = Cardinality(IntsIn(s, Len(s))) /\ Cardinality(IntsIn(s, Len(s))) <= PyStates
        \/ Len(obj.key) = PyStates
    BY <1>3, <1>4 DEF KeyAt
  <2> QED BY <2>1, <2>2, LenProperties, StatesAssumption
<1> QED BY <1>3, <1>4, <1>5

\* The extension passes the whole key on, if all its values fit.
LEMMA PassedWhole ==
  ASSUME NEW obj \in Objects, ~EnterRaises(obj)
  PROVE  Passed(obj) = obj.key
<1>1. obj.key \in Seq(Pair) /\ Len(obj.key) \in Nat /\ Len(obj.key) <= ExtStates /\ ExtStates \in Nat
  BY ObjectIs, ObjectSplit, StatesAssumption, PassedAssumption
<1>2. Min({ExtStates, Len(obj.key)}) = Len(obj.key)
  <2>1. \A x \in {ExtStates, Len(obj.key)} : (\A y \in {ExtStates, Len(obj.key)} : x <= y) => x = Len(obj.key)
    BY <1>1
  <2>2. Len(obj.key) \in {ExtStates, Len(obj.key)} /\ \A y \in {ExtStates, Len(obj.key)} : Len(obj.key) <= y
    BY <1>1
  <2> QED BY <2>1, <2>2 DEF Min
<1>3. PICK key, l : key = obj.key /\ l = Len(obj.key)
  OBVIOUS
<1>4. \A i \in 1..l : <<key[i][1], AsLongLong(key[i][2])>> = key[i]
  <2> TAKE i \in 1..l
  <2>1. key[i][2] \notin Wide
    BY <1>2, <1>3 DEF EnterRaises
  <2>2. PICK p \in Text \X Text : p = key[i]
    BY <1>1, <1>3, ElementOfSeq DEF Pair
  <2>3. AsLongLong(p[2]) = p[2]
    BY <2>1, <2>2 DEF AsLongLong
  <2>4. p = <<p[1], p[2]>>
    OBVIOUS
  <2> QED BY <2>2, <2>3, <2>4
<1>5. Passed(obj) = [i \in 1..l |-> key[i]]
  BY <1>2, <1>3, <1>4 DEF Passed
<1>6. key = [i \in 1..l |-> key[i]]
  BY <1>1, <1>3, LenProperties
<1> QED BY <1>3, <1>5, <1>6

\* The frame of a block, after k of the states behind its key were attached.
Entered(c, d, id, key, declared, extra, k) ==
  Unlost(d) =>
    /\ Unlost(c)
    /\ \E f : /\ Pushed(c, d, f) /\ f.id = id /\ f.key = key /\ f.declared = declared
              /\ f.later = <<>> /\ Len(f.extra) = k /\ \A j \in 1..k : f.extra[j] = extra[j]
LEMMA EnterAdds ==
  ASSUME NEW n \in Nat, NEW c \in Client(n), NEW obj \in Objects, NEW id \in 0..n,
         NEW d, d = Enter(c, obj, id), Unlost(d)
  PROVE  /\ Unlost(c)
         /\ \E f : /\ Pushed(c, d, f) /\ f.id = id /\ f.key = Passed(obj)
                   /\ f.extra = obj.extra /\ f.declared = obj.declared /\ f.later = <<>>
<1>1. PICK region \in Names, key \in Seq(Pair), declared \in Seq(Pair), extra \in Seq(Pair) :
        region = obj.region /\ key = Passed(obj) /\ declared = obj.declared /\ extra = obj.extra
  BY ObjectIs, PassedIs
<1>2. PICK b : b = ClientBegin(c, region, key, id, declared)
  OBVIOUS
<1>3. b \in Client(n)
  BY <1>2, BeginIs
<1>4. extra \in Seq(State) /\ Len(extra) \in Nat /\ \A k \in 1..Len(extra) : extra[k] \in State
  BY PairsAreStates, LenProperties, ElementOfSeq
<1>5. d = FoldLeft(ClientState, b, extra)
  BY <1>1, <1>2 DEF Enter
<1>6. PICK g : StatesRun(n, g, b, extra) /\ d = g[1..Len(extra)]
  BY <1>3, <1>4, <1>5, StatesRuns
<1> DEFINE G == {k \in Nat : k <= Len(extra) => Entered(c, g[1..k], id, key, declared, extra, k)}
<1>7. 0 \in G
  <2>1. g[1..0] = b
    <3>1. 1..0 = {}
      OBVIOUS
    <3> QED BY <1>6, <3>1 DEF StatesRun
  <2>2. ASSUME Unlost(b)
        PROVE  /\ Unlost(c)
               /\ \E f : /\ Pushed(c, b, f) /\ f.key = key /\ f.extra = <<>> /\ f.id = id
                       /\ f.declared = declared /\ f.later = <<>>
    BY <1>2, <2>2, BeginAdds
  <2>3. Entered(c, b, id, key, declared, extra, 0)
    BY <2>2 DEF Entered
  <2> QED BY <2>1, <2>3
<1>8. ASSUME NEW k \in Nat, k \in G PROVE k + 1 \in G
  <2> SUFFICES ASSUME k + 1 <= Len(extra)
      PROVE Entered(c, g[1..(k + 1)], id, key, declared, extra, k + 1)
    OBVIOUS
  <2>1. PICK l \in 1..Len(extra) : l = k + 1 /\ l - 1 = k
    BY <1>4
  <2>2. PICK v, w, s : v = g[1..(l - 1)] /\ w = g[1..l] /\ s = extra[l]
    OBVIOUS
  <2>3. v \in Client(n) /\ w = ClientState(v, s) /\ s \in State
    BY <1>4, <1>6, <2>2 DEF StatesRun
  <2>4. Entered(c, v, id, key, declared, extra, k)
    BY <1>4, <1>8, <2>1, <2>2
  <2>5. ASSUME Unlost(w) PROVE Entered(c, w, id, key, declared, extra, k + 1)
    <3>1. /\ Unlost(v) /\ w.trace = v.trace
          /\ \/ v.stack = <<>> /\ w = v
             \/ \E f, e : /\ Changed(v, w, f, e) /\ f \in Frame(n)
                          /\ e.key = f.key /\ e.id = f.id /\ e.declared = f.declared
                          /\ e.extra = Append(f.extra, s) /\ e.later = f.later
      BY <2>3, <2>5, StateAdds
    <3>2. /\ Unlost(c)
          /\ \E f : /\ Pushed(c, v, f) /\ f.id = id /\ f.key = key /\ f.declared = declared
                    /\ f.later = <<>> /\ Len(f.extra) = k /\ \A j \in 1..k : f.extra[j] = extra[j]
      BY <2>4, <3>1 DEF Entered
    <3>3. PICK f : /\ Pushed(c, v, f) /\ f.id = id /\ f.key = key /\ f.declared = declared
                   /\ f.later = <<>> /\ Len(f.extra) = k /\ \A j \in 1..k : f.extra[j] = extra[j]
      BY <3>2
    <3>4. Len(c.stack) \in Nat /\ Len(v.stack) = Len(c.stack) + 1
      BY <3>3, ClientIs DEF Pushed
    <3>5. v.stack # <<>>
      <4>1. ASSUME v.stack = <<>> PROVE FALSE
        <5>1. Len(v.stack) = 0
          BY <4>1
        <5> QED BY <3>4, <5>1
      <4> QED BY <4>1
    <3>6. PICK h, e : /\ Changed(v, w, h, e) /\ h \in Frame(n)
                      /\ e.key = h.key /\ e.id = h.id /\ e.declared = h.declared
                      /\ e.extra = Append(h.extra, s) /\ e.later = h.later
      BY <3>1, <3>5
    <3>7. h = f
      BY <3>3, <3>6 DEF Changed, Pushed
    <3>8. PICK x, y : x = f.extra /\ y = e.extra
      OBVIOUS
    <3>9. x \in Seq(State) /\ y = Append(x, s) /\ Len(x) = k /\ \A j \in 1..k : x[j] = extra[j]
      BY <3>3, <3>6, <3>7, <3>8, FrameIs
    <3>10. Len(y) = k + 1 /\ y[k + 1] = s /\ \A j \in 1..k : y[j] = x[j]
      BY <2>3, <3>9, AppendIs
    <3>11. \A j \in 1..(k + 1) : y[j] = extra[j]
      <4>1. \A j \in 1..(k + 1) : j \in 1..k \/ j = k + 1
        OBVIOUS
      <4> QED BY <2>1, <2>2, <3>9, <3>10, <4>1
    <3>12. Pushed(c, w, e)
      <4>1. \A i \in 1..Len(c.stack) : i \in 1..Len(v.stack) /\ i # Len(v.stack)
        BY <3>4
      <4> QED BY <3>1, <3>3, <3>6, <4>1 DEF Pushed, Changed
    <3>13. e.id = id /\ e.key = key /\ e.declared = declared /\ e.later = <<>>
      BY <3>3, <3>6, <3>7
    <3>14. Len(e.extra) = k + 1 /\ \A j \in 1..(k + 1) : e.extra[j] = extra[j]
      BY <3>8, <3>10, <3>11
    <3> QED BY <3>2, <3>12, <3>13, <3>14 DEF Entered
  <2>6. Entered(c, w, id, key, declared, extra, k + 1)
    BY <2>5 DEF Entered
  <2> QED BY <2>1, <2>2, <2>6
<1> HIDE DEF G
<1>9. Len(extra) \in G
  BY <1>4, <1>7, <1>8, NumberInduction
<1>10. Entered(c, d, id, key, declared, extra, Len(extra))
  BY <1>4, <1>6, <1>9 DEF G
<1>11. /\ Unlost(c)
       /\ \E f : /\ Pushed(c, d, f) /\ f.id = id /\ f.key = key /\ f.declared = declared
                 /\ f.later = <<>> /\ Len(f.extra) = Len(extra) /\ \A j \in 1..Len(extra) : f.extra[j] = extra[j]
  BY <1>10 DEF Entered
<1>12. PICK f : /\ Pushed(c, d, f) /\ f.id = id /\ f.key = key /\ f.declared = declared
                /\ f.later = <<>> /\ Len(f.extra) = Len(extra) /\ \A j \in 1..Len(extra) : f.extra[j] = extra[j]
  BY <1>11
<1>13. f.extra = extra
  <2>1. d \in Client(n)
    BY EnterIs
  <2>2. f \in Frame(n)
    <3>1. Len(d.stack) \in 1..Len(d.stack)
      BY <1>12, ClientIs DEF Pushed
    <3> QED BY <1>12, <2>1, <3>1, ClientIs DEF Pushed
  <2>3. PICK x : x = f.extra
    OBVIOUS
  <2>4. x \in Seq(State) /\ Len(x) = Len(extra) /\ \A j \in 1..Len(extra) : x[j] = extra[j]
    BY <1>12, <2>2, <2>3, FrameIs
  <2>5. x = [j \in 1..Len(x) |-> x[j]] /\ extra = [j \in 1..Len(extra) |-> extra[j]]
    BY <2>4, LenProperties
  <2> QED BY <2>3, <2>4, <2>5
<1> QED BY <1>1, <1>11, <1>12, <1>13

\* A block's frame tells its states, if nothing was raised.
LEMMA ObjectKept ==
  ASSUME NEW obj \in Objects, ~EnterRaises(obj), NEW f, f.key = Passed(obj),
         f.extra = obj.extra, f.declared = obj.declared, f.later = <<>>
  PROVE  Kept(f) /\ f.declared \in Keywords
<1>1. KeyAt(f.key, f.declared, Len(f.declared)) /\ f.declared \in Keywords
  BY PassedWhole, ObjectSplit
<1>2. PICK x, q, later : x = f.extra /\ q = f.declared /\ later = f.later
  OBVIOUS
<1>3. OthersAt(x, q, Len(q)) /\ q \in Keywords
  BY <1>1, <1>2, ObjectSplit
<1>4. ASSUME NEW i \in 1..Len(q)
      PROVE  Named(later, q[i][1]) = {} /\ Expected(later, q[i]) = q[i]
  <2>1. Len(later) = 0
    BY <1>2
  <2>2. Named(later, q[i][1]) = {}
    BY <2>1 DEF Named
  <2> QED BY <2>2, ExpectedNone
<1>5. ASSUME NEW i \in 1..Len(q), NEW j \in 1..Len(x), x[j][1] = q[i][1] PROVE x[j] = q[i]
  <2>1. PICK h \in 1..Len(q) : x[j] = q[h]
    BY <1>3 DEF OthersAt
  <2>2. h = i
    BY <1>3, <1>5, <2>1, NamesAssumption
  <2> QED BY <2>1, <2>2
<1>6. Among(x, q, later)
  BY <1>3, <1>4, <1>5 DEF Among, OthersAt, LastNamed
<1> QED BY <1>1, <1>2, <1>6 DEF Kept

-----------------------------------------------------------------------------
(***************************************************************************)
(* The steps of the program.                                               *)
(***************************************************************************)
\* What the first region object finds.
LEMMA GoodMade ==
  ASSUME Types, Good(client, abandoned)
  PROVE  Made \in Client(calls) /\ Good(Made, abandoned)
<1>1. calls \in Nat /\ client \in Client(calls)
  BY DEF Types
<1>2. Good(Calibrate(client), abandoned)
  BY <1>1, GoodCalibrate
<1> QED BY <1>2, MadeIs DEF Made

\* A block is started, or raises.
LEMMA GoodStart ==
  ASSUME Types, Handled, NEW c \in Client(calls), Good(c, abandoned), NEW obj \in Objects,
         Start(c, obj, "block")
  PROVE  Good(client', abandoned')
<1>1. calls \in Nat /\ calls' \in Nat /\ calls <= calls' /\ calls' \in 0..calls'
  BY DEF Types, Handled
<1>2. PICK n, d, ab : n \in Nat /\ n = calls' /\ d = client' /\ ab = abandoned'
  BY <1>1
<1>3. c \in Client(n) /\ n \in 0..n /\ d = Enter(c, obj, n)
  BY <1>1, <1>2, ClientGrows DEF Start
<1>4. d \in Client(n)
  BY <1>3, EnterIs
<1>5. ASSUME Unlost(d) PROVE Good(d, ab)
  <2>1. /\ Unlost(c)
        /\ \E f : /\ Pushed(c, d, f) /\ f.id = n /\ f.key = Passed(obj)
                  /\ f.extra = obj.extra /\ f.declared = obj.declared /\ f.later = <<>>
    BY <1>3, <1>5, EnterAdds
  <2>2. PICK f : /\ Pushed(c, d, f) /\ f.id = n /\ f.key = Passed(obj)
                 /\ f.extra = obj.extra /\ f.declared = obj.declared /\ f.later = <<>>
    BY <2>1
  <2>3. f.declared \in Keywords
    BY <2>2, ObjectSplit
  <2>4. CASE EnterRaises(obj)
    <3>1. Abandon(d, n, obj.region)
      BY <1>2, <2>4 DEF Start
    <3>2. ab = abandoned \cup {d.stack[i].id : i \in {i \in 1..Len(d.stack) : d.stack[i].id = n}}
      BY <1>2, <3>1 DEF Abandon
    <3>3. Len(d.stack) \in 1..Len(d.stack) /\ d.stack[Len(d.stack)] = f
      BY <1>3, <2>2, ClientIs DEF Pushed
    <3>4. f.id \in ab
      BY <2>2, <3>2, <3>3
    <3>5. Told(f, ab)
      BY <2>3, <3>4 DEF Told
    <3>6. Good(c, ab)
      BY <3>2, GoodMore
    <3> QED BY <1>3, <2>1, <2>2, <3>5, <3>6, GoodPushed
  <2>5. CASE ~EnterRaises(obj)
    <3>1. ab = abandoned
      BY <1>2, <2>5 DEF Start
    <3>2. Told(f, ab)
      BY <2>2, <2>5, ObjectKept DEF Told
    <3> QED BY <1>3, <2>1, <2>2, <3>1, <3>2, GoodPushed
  <2> QED BY <2>4, <2>5
<1> QED BY <1>2, <1>5 DEF Good

\* begin(name, state, value): one integer, which is the key.
LEMMA GoodBare ==
  ASSUME Types, Good(client, abandoned), NEW region \in Regions, NEW s \in Keywords,
         Len(s) = 1, s[1][2] \in Ints, Begin(region, s[1])
  PROVE  Good(client', abandoned')
<1>1. Handled /\ abandoned' = abandoned
  BY DEF Begin, Statement
<1>2. calls \in Nat /\ calls' \in Nat /\ calls <= calls' /\ calls' \in 0..calls' /\ client \in Client(calls)
  BY <1>1 DEF Types, Handled
<1>3. CASE client' = client
  BY <1>1, <1>3
<1>4. CASE client' = ClientBegin(client, region, <<s[1]>>, calls', <<s[1]>>)
  <2>1. s \in Seq(Pair)
    BY KeywordIs
  <2>2. s = <<s[1]>>
    <3>1. PICK r : r = <<s[1]>>
      OBVIOUS
    <3>2. 1 \in 1..Len(s) /\ s[1] \in Pair
      BY <2>1, ElementOfSeq
    <3>3. r \in Seq(Pair) /\ Len(r) = 1 /\ r[1] = s[1]
      BY <3>1, <3>2
    <3>4. s = [i \in 1..1 |-> s[i]] /\ r = [i \in 1..1 |-> r[i]]
      BY <2>1, <3>3, LenProperties
    <3> QED BY <3>1, <3>3, <3>4
  <2>3. PICK n, c, d : n \in Nat /\ n = calls' /\ c = client /\ d = client' /\ c \in Client(n)
    BY <1>2, ClientGrows
  <2>4. d = ClientBegin(c, region, s, n, s) /\ n \in 0..n /\ region \in Names
    BY <1>4, <2>2, <2>3 DEF Names
  <2>5. ASSUME Unlost(d) PROVE Good(d, abandoned)
    <3>1. /\ Unlost(c)
          /\ \E f : /\ Pushed(c, d, f) /\ f.key = s /\ f.extra = <<>> /\ f.id = n
                    /\ f.declared = s /\ f.later = <<>>
      BY <2>1, <2>3, <2>4, <2>5, BeginAdds
    <3>2. PICK f : /\ Pushed(c, d, f) /\ f.key = s /\ f.extra = <<>> /\ f.id = n
                   /\ f.declared = s /\ f.later = <<>>
      BY <3>1
    <3>3. PICK p : p = PyStates /\ p \in Nat \ {0}
      BY StatesAssumption
    <3>4. Cardinality(IntsIn(s, 0)) = 0 /\ Cardinality(IntsIn(s, 1)) = 1
      <4>1. 1 \in Nat \ {0} /\ 1 - 1 = 0
        OBVIOUS
      <4>2. Cardinality(IntsIn(s, 0)) = 0
        BY <4>1, IntsNext
      <4>3. Cardinality(IntsIn(s, 1)) = Cardinality(IntsIn(s, 1 - 1)) + 1
        BY <4>1, IntsNext
      <4> QED BY <4>1, <4>2, <4>3
    <3>5. \A i \in 1..1 : i = 1 /\ i - 1 = 0
      OBVIOUS
    <3>6. ForKey(s, 1)
      <4>1. Cardinality(IntsIn(s, 1 - 1)) < p
        BY <3>3, <3>4
      <4> QED BY <3>3, <4>1 DEF ForKey
    <3>7. KeyAt(s, s, 1)
      <4>1. Len(s) = IF Cardinality(IntsIn(s, 1)) <= p THEN Cardinality(IntsIn(s, 1)) ELSE p
        BY <3>3, <3>4
      <4>2. \A i \in 1..1 : /\ Cardinality(IntsIn(s, i - 1)) + 1 \in 1..Len(s)
                            /\ s[Cardinality(IntsIn(s, i - 1)) + 1] = s[i]
        BY <3>4, <3>5
      <4>3. \A j \in 1..Len(s) : \E i \in 1..1 : ForKey(s, i) /\ Cardinality(IntsIn(s, i - 1)) = j - 1
        BY <3>4, <3>5, <3>6
      <4> QED BY <3>3, <4>1, <4>2, <4>3 DEF KeyAt
    <3>8. Among(f.extra, s, f.later)
      <4>1. PICK x, y : x = f.extra /\ Len(x) = 0 /\ y = f.later /\ Len(y) = 0
        BY <3>2
      <4>2. \A i \in 1..Len(s) : ForKey(s, i)
        BY <3>5, <3>6
      <4> QED BY <4>1, <4>2 DEF Among, Named
    <3>9. Told(f, abandoned)
      BY <3>2, <3>7, <3>8 DEF Told, Kept
    <3> QED BY <2>3, <3>1, <3>2, <3>9, GoodPushed
  <2> QED BY <1>1, <2>3, <2>5 DEF Good
<1> QED BY <1>3, <1>4 DEF Begin

\* What is lost stays counted.
LEMMA MarkerLost ==
  ASSUME NEW n \in Nat, NEW c \in Client(n), NEW name \in Names, NEW d, d = Marker(c, name), Unlost(d)
  PROVE  Unlost(c)
<1>1. PICK none \in Seq(Pair), zero \in 0..n, b \in {ClientBegin(c, name, <<>>, 0, <<>>)} :
        none = <<>> /\ zero = 0 /\ b = ClientBegin(c, name, none, zero, none)
  <2>1. <<>> \in Seq(Pair) /\ 0 \in 0..n
    OBVIOUS
  <2> QED BY <2>1
<1>2. b \in Client(n)
  BY <1>1, BeginIs
<1>3. d = ClientEnd(b, name)
  BY <1>1 DEF Marker
<1>4. Unlost(b)
  BY <1>2, <1>3, EndMoves
<1>5. b = ClientBegin(c, name, none, zero, none)
  BY <1>1
<1>6. /\ Unlost(c)
      /\ \E f : Pushed(c, b, f) /\ f.key = none /\ f.extra = <<>> /\ f.id = zero /\ f.declared = none
  BY <1>4, <1>5, BeginAdds
<1> QED BY <1>6

\* And behind a sequence of states too.
LEMMA StatesLost ==
  ASSUME NEW n \in Nat, NEW c \in Client(n), NEW seq \in Seq(State),
         NEW d, d = FoldLeft(ClientState, c, seq), Unlost(d)
  PROVE  Unlost(c)
<1> DEFINE V == {v \in Client(n) : Unlost(v) => Unlost(c)}
<1>1. PICK g : StatesRun(n, g, c, seq) /\ d = g[1..Len(seq)]
  BY StatesRuns
<1>2. Len(seq) \in Nat /\ \A k \in 1..Len(seq) : seq[k] \in State
  BY ElementOfSeq, LenProperties
<1>3. g[{}] \in V
  BY <1>1 DEF StatesRun
<1>4. ASSUME NEW k \in 1..Len(seq), g[1..(k - 1)] \in V PROVE g[1..k] \in V
  <2>1. PICK v, w, s : v = g[1..(k - 1)] /\ w = g[1..k] /\ s = seq[k]
    OBVIOUS
  <2>2. v \in Client(n) /\ w \in Client(n) /\ w = ClientState(v, s) /\ s \in State
    BY <1>1, <1>2, <2>1 DEF StatesRun
  <2>3. Unlost(w) => Unlost(v)
    BY <2>2, StateAdds
  <2> QED BY <1>4, <2>1, <2>2, <2>3
<1> HIDE DEF V
<1>5. g[1..Len(seq)] \in V
  BY <1>2, <1>3, <1>4, FoldKeeps
<1> QED BY <1>1, <1>5 DEF V

\* The states that capture_exit attaches are not called like a keyword.
LEMMA GoodCapture ==
  ASSUME IInv, Good(client, abandoned), Capture
  PROVE  Good(client', abandoned')
<1> DEFINE frames == {i \in 1..Len(client.stack) : client.stack[i].id = Last(blocks).id}
           names == client.stack[Max(frames)].declared
           seq == [i \in 1..Len(names) |-> AtExit(names[i])]
<1>1. /\ frames # {} /\ blocks # <<>>
      /\ client' = FoldLeft(ClientState, Marker(client, "_perfmark_capture"), seq)
      /\ abandoned' = abandoned
  BY DEF Capture
<1>2. Types /\ calls \in Nat /\ client \in Client(calls) /\ blocks \in Seq(BlockType)
  BY DEF IInv, Types
<1>3. Last(blocks).id # 0
  <2>1. Len(blocks) \in 1..Len(blocks)
    <3>1. Len(blocks) \in Nat \ {0}
      BY <1>1, <1>2
    <3> QED BY <3>1
  <2>2. blocks[Len(blocks)].id \in 1..calls
    BY <2>1 DEF IInv, BlocksAreCalls
  <2> QED BY <2>2 DEF Last
<1>4. PICK f : /\ f = client.stack[Max(frames)] /\ f \in Frame(calls) /\ f.id # 0
               /\ \E i \in 1..Len(client.stack) : f = client.stack[i]
  <2>1. Len(client.stack) \in Nat /\ \A i \in 1..Len(client.stack) : client.stack[i] \in Frame(calls)
    BY <1>2, ClientIs
  <2>2. PICK l \in Nat : l = Len(client.stack) /\ frames \in SUBSET (1..l)
    BY <2>1
  <2>3. Max(frames) \in frames
    <3> HIDE DEF frames
    <3> QED BY <1>1, <2>2, LastIn
  <2>4. Max(frames) \in 1..Len(client.stack) /\ client.stack[Max(frames)].id = Last(blocks).id
    BY <2>3
  <2> HIDE DEF frames
  <2> QED BY <1>3, <2>1, <2>4
<1>5. PICK q \in Seq(Pair) : q = f.declared /\ seq = [i \in 1..Len(q) |-> AtExit(q[i])]
  BY <1>2, <1>4, FrameIs
<1> HIDE DEF seq, names, frames
<1>6. seq \in Seq(State) /\ Len(seq) = Len(q) /\ \A i \in 1..Len(q) : seq[i] = AtExit(q[i])
  <2>1. Len(q) \in Nat
    BY LenProperties
  <2>2. \A i \in 1..Len(q) : AtExit(q[i]) \in State
    BY ElementOfSeq DEF State
  <2>3. seq \in [1..Len(q) -> State]
    BY <1>5, <2>2
  <2>4. \A i \in 1..Len(q) : seq[i] = AtExit(q[i])
    BY <1>5
  <2> QED BY <2>1, <2>3, <2>4, FunctionIsSeq
<1>7. PICK m, d : /\ m = Marker(client, "_perfmark_capture")
                  /\ d = client' /\ d = FoldLeft(ClientState, m, seq)
  BY <1>1
<1>8. "_perfmark_capture" \in Names
  BY DEF Names, Own
<1>9. m \in Client(calls) /\ Good(m, abandoned)
  <2>1. m \in Client(calls)
    BY <1>2, <1>7, <1>8, MarkerIs
  <2> QED BY <1>2, <1>7, <1>8, <2>1, GoodMarker
<1>10. CASE f.declared \in Keywords
  <2>1. ASSUME NEW k \in 1..Len(seq) PROVE Foreign(seq[k])
    <3>1. k \in 1..Len(q) /\ q \in Keywords
      BY <1>5, <1>6, <1>10
    <3>2. seq[k] = AtExit(q[k])
      BY <1>6, <3>1
    <3>3. seq[k][1] = q[k][1] \o "@exit"
      BY <3>2 DEF AtExit
    <3>4. \A t \in Keywords : \A j \in 1..Len(t) : q[k][1] \o "@exit" # t[j][1]
      BY <3>1, NamesAssumption
    <3> QED BY <3>3, <3>4 DEF Foreign
  <2>2. Good(d, abandoned)
    BY <1>2, <1>6, <1>7, <1>9, <2>1, GoodStates
  <2> QED BY <1>1, <1>7, <2>2
<1>11. CASE f.declared \notin Keywords
  <2>1. ~Unlost(client)
    BY <1>4, <1>11 DEF Good, AllTold, Told
  <2>2. ~Unlost(d)
    <3>1. Unlost(d) => Unlost(m)
      BY <1>2, <1>6, <1>7, <1>9, StatesLost
    <3>2. Unlost(m) => Unlost(client)
      BY <1>2, <1>7, <1>8, MarkerLost
    <3> QED BY <2>1, <3>1, <3>2
  <2> QED BY <1>1, <1>7, <2>2 DEF Good
<1> QED BY <1>10, <1>11

\* A frame's states are told, whatever the program does.
LEMMA GoodStep ==
  ASSUME IInv, Good(client, abandoned), [Next]_vars
  PROVE  Good(client, abandoned)'
<1>1. Types /\ calls \in Nat /\ client \in Client(calls) /\ functions \subseteq Objects
  BY DEF IInv, Types
<1>2. Made \in Client(calls) /\ Good(Made, abandoned)
  BY <1>1, GoodMade
<1> SUFFICES Good(client', abandoned')
  OBVIOUS
<1>3. ASSUME NEW r \in Regions, NEW s \in Keywords, With(r, s) PROVE Good(client', abandoned')
  <2>1. Handled /\ Start(Made, Object(r, s), "block") /\ Object(r, s) \in Objects
    BY <1>3 DEF With, Statement, Objects
  <2> QED BY <1>1, <1>2, <2>1, GoodStart
<1>4. ASSUME NEW r \in Regions, NEW s \in Keywords, Decorate(r, s) PROVE Good(client', abandoned')
  BY <1>2, <1>4 DEF Decorate
<1>5. ASSUME NEW r \in Regions, NEW s \in Keywords, Len(s) = 1, s[1][2] \in Ints, Begin(r, s[1])
      PROVE  Good(client', abandoned')
  BY <1>1, <1>5, GoodBare
<1>6. ASSUME NEW f \in functions, Call(f) PROVE Good(client', abandoned')
  <2>1. Handled /\ Start(client, f, "block") /\ f \in Objects
    BY <1>1, <1>6 DEF Call, Statement
  <2> QED BY <1>1, <2>1, GoodStart
<1>7. ASSUME NEW s \in Notes, Attach(s) PROVE Good(client', abandoned')
  <2>1. client' = Noted(ClientState(client, s), s) /\ abandoned' = abandoned
    BY <1>7 DEF Attach
  <2>2. s \in Pair /\ s \in State
    BY NoteIs
  <2> QED BY <1>1, <2>1, <2>2, GoodNote
<1>8. ASSUME Leave PROVE Good(client', abandoned')
  BY <1>1, <1>8, GoodEnd DEF Leave
<1>9. ASSUME Unwind PROVE Good(client', abandoned')
  <2>1. CASE Last(blocks).kind = "block"
    BY <1>1, <1>9, <2>1, GoodEnd DEF Unwind, Unwound
  <2>2. CASE Last(blocks).kind # "block"
    <3>1. client' = client /\ Abandon(client, Last(blocks).id, Last(blocks).region)
      BY <1>9, <2>2 DEF Unwind, Unwound
    <3>2. abandoned \subseteq abandoned'
      BY <3>1 DEF Abandon
    <3> QED BY <3>1, <3>2, GoodMore
  <2> QED BY <2>1, <2>2
<1>10. ASSUME Raise \/ Catch \/ UNCHANGED vars PROVE Good(client', abandoned')
  BY <1>10 DEF Raise, Catch, vars
<1> QED
  BY <1>3, <1>4, <1>5, <1>6, <1>7, <1>8, <1>9, <1>10, GoodCapture DEF Next, Finished

\* So the frames of the stack and the trace tell their states, always.
LEMMA GoodAlways == Spec => []Good(client, abandoned)
<1>1. Init => Good(client, abandoned)
  <2> SUFFICES ASSUME Init PROVE Good(client, abandoned)
    OBVIOUS
  <2>1. client.stack = <<>> /\ client.trace = {}
    BY DEF Init
  <2>2. Len(client.stack) = 0
    BY <2>1
  <2> QED BY <2>1, <2>2 DEF Good, AllTold
<1>2. IInv /\ Good(client, abandoned) /\ [Next]_vars => Good(client, abandoned)'
  BY GoodStep
<1> QED BY <1>1, <1>2, Invariance, PTL DEF Spec

-----------------------------------------------------------------------------
(***************************************************************************)
(* Reading a frame's states back.                                          *)
(***************************************************************************)
\* The smaller of two numbers is one of them.
LEMMA MinValue ==
  ASSUME NEW a \in Nat, NEW b \in Nat
  PROVE  Min({a, b}) = IF a <= b THEN a ELSE b
<1>1. PICK m : m = IF a <= b THEN a ELSE b
  OBVIOUS
<1>2. m \in {a, b} /\ \A y \in {a, b} : m <= y
  BY <1>1
<1>3. \A x \in {a, b} : (\A y \in {a, b} : x <= y) => x = m
  BY <1>1
<1> QED BY <1>1, <1>2, <1>3 DEF Min

\* A sequence that begins as another one.
LEMMA PrefixIs ==
  ASSUME NEW S, NEW key \in Seq(S), NEW m \in Nat, NEW r, r = [k \in 1..m |-> r[k]], Len(key) <= m,
         \A k \in 1..Len(key) : r[k] = key[k]
  PROVE  Len(r) = m /\ SubSeq(r, 1, Len(key)) = key
<1>1. PICK T : T = {r[k] : k \in 1..m}
  OBVIOUS
<1>2. r \in [1..m -> T]
  BY <1>1
<1>3. r \in Seq(T) /\ Len(r) = m
  BY <1>2, FunctionIsSeq
<1>4. PICK l \in Nat : l = Len(key) /\ l <= Len(r)
  BY <1>3, LenProperties
<1>5. PICK q : q = SubSeq(r, 1, l)
  OBVIOUS
<1>6. q \in Seq(T) /\ Len(q) = l /\ \A i \in 1..l : q[i] = r[i]
  BY <1>3, <1>4, <1>5, FirstIs
<1>7. q = [i \in 1..l |-> q[i]] /\ key = [i \in 1..l |-> key[i]]
  BY <1>4, <1>6, LenProperties
<1>8. q = key
  BY <1>4, <1>6, <1>7
<1> QED BY <1>3, <1>4, <1>5, <1>8

\* The states of a record, which has every declared name, with the expected value at last.
Agrees(w, q, later) ==
  \A i \in 1..Len(q) :
    /\ \E j \in 1..Len(w) : w[j][1] = q[i][1]
    /\ \A j \in 1..Len(w) : LastNamed(w, j, q[i][1]) => w[j] = Expected(later, q[i])
\* It begins with a key, whose names all differ.
Begins(w, key, q) ==
  /\ Len(key) <= Len(w)
  /\ \A j \in 1..Len(key) : w[j] = key[j] /\ \E i \in 1..Len(q) : key[j] = q[i]
  /\ \A j, k \in 1..Len(key) : key[j][1] = key[k][1] => j = k

\* What a frame that tells its states has written.
LEMMA KeptWritten ==
  ASSUME NEW n \in Nat, NEW f \in Frame(n), Kept(f), f.declared \in Keywords
  PROVE  /\ Written(f) \in Seq(State) /\ Agrees(Written(f), f.declared, f.later)
         /\ Begins(Written(f), f.key, f.declared)
<1>1. PICK q \in Keywords, key \in Seq(Pair), x \in Seq(State), later \in Seq(Pair) :
        /\ q = f.declared /\ key = f.key /\ x = f.extra /\ later = f.later
        /\ KeyAt(key, q, Len(q)) /\ Among(x, q, later)
  BY FrameIs DEF Kept
<1>2. PICK w : w = Written(f) /\ w = key \o x
  BY <1>1 DEF Written
<1>3. Len(q) \in Nat /\ Len(key) \in Nat /\ Len(x) \in Nat
  BY KeywordIs, LenProperties
<1>4. /\ w \in Seq(State) /\ Len(w) = Len(key) + Len(x)
      /\ \A j \in 1..Len(key) : w[j] = key[j]
      /\ \A j \in 1..Len(w) : j \notin 1..Len(key) => w[j] = x[j - Len(key)]
  <2>1. key \in Seq(State)
    BY PairsAreStates
  <2> QED BY <1>2, <2>1, ConcatProperties
<1>5. \A j \in 1..Len(w) : j \in 1..Len(key) \/ (j \notin 1..Len(key) /\ j - Len(key) \in 1..Len(x))
  BY <1>3, <1>4
<1>6. \A j \in 1..Len(key) : j \in 1..Len(w)
  BY <1>3, <1>4
<1>7. \A i, j \in 1..Len(q) : q[i][1] = q[j][1] => i = j
  BY NamesAssumption
<1>8. ASSUME NEW j \in 1..Len(key)
      PROVE  \E i \in 1..Len(q) : key[j] = q[i] /\ Cardinality(IntsIn(q, i - 1)) = j - 1
  <2>1. PICK i \in 1..Len(q) : ForKey(q, i) /\ Cardinality(IntsIn(q, i - 1)) = j - 1
    BY <1>1 DEF KeyAt
  <2>2. key[Cardinality(IntsIn(q, i - 1)) + 1] = q[i]
    BY <1>1, <2>1 DEF KeyAt
  <2>3. (j - 1) + 1 = j
    BY <1>3
  <2> QED BY <2>1, <2>2, <2>3
<1>9. ASSUME NEW k \in 1..Len(x)
      PROVE  Len(key) + k \in 1..Len(w) /\ Len(key) + k \notin 1..Len(key) /\ w[Len(key) + k] = x[k]
  <2>1. PICK j : j = Len(key) + k
    OBVIOUS
  <2>2. j \in 1..Len(w) /\ j \notin 1..Len(key) /\ j - Len(key) = k
    BY <1>3, <1>4, <2>1
  <2> QED BY <1>4, <2>1, <2>2
<1>10. ASSUME NEW i \in 1..Len(q), NEW j \in 1..Len(w), LastNamed(w, j, q[i][1])
       PROVE  w[j] = Expected(later, q[i])
  <2>1. CASE j \in 1..Len(key)
    <3>1. PICK h \in 1..Len(q) : key[j] = q[h]
      BY <1>8, <2>1
    <3>2. w[j] = q[h]
      BY <1>4, <2>1, <3>1
    <3>3. h = i
      BY <1>7, <1>10, <3>2 DEF LastNamed
    <3>4. ASSUME NEW k \in 1..Len(x), x[k][1] = q[i][1] PROVE FALSE
      <4>1. PICK m : m = Len(key) + k /\ m \in 1..Len(w) /\ w[m] = x[k]
        BY <1>9
      <4>2. m \in j + 1..Len(w)
        BY <1>3, <1>4, <2>1, <4>1
      <4> QED BY <1>10, <3>4, <4>1, <4>2 DEF LastNamed
    <3>5. Named(later, q[i][1]) = {}
      BY <1>1, <3>4 DEF Among
    <3> QED BY <3>2, <3>3, <3>5, ExpectedNone
  <2>2. CASE j \notin 1..Len(key)
    <3>1. PICK k \in 1..Len(x) : w[j] = x[k] /\ k = j - Len(key)
      BY <1>4, <1>5, <2>2
    <3>2. ASSUME NEW h \in k + 1..Len(x) PROVE x[h][1] # q[i][1]
      <4>1. h \in 1..Len(x)
        BY <1>3, <3>1
      <4>2. PICK m : m = Len(key) + h /\ m \in 1..Len(w) /\ w[m] = x[h]
        BY <1>9, <4>1
      <4>3. m \in j + 1..Len(w)
        BY <1>3, <1>4, <3>1, <4>1, <4>2
      <4> QED BY <1>10, <4>2, <4>3 DEF LastNamed
    <3>3. LastNamed(x, k, q[i][1])
      BY <1>10, <3>1, <3>2 DEF LastNamed
    <3> QED BY <1>1, <3>1, <3>3 DEF Among
  <2> QED BY <2>1, <2>2
<1>11. ASSUME NEW i \in 1..Len(q) PROVE \E j \in 1..Len(w) : w[j][1] = q[i][1]
  <2>1. CASE ForKey(q, i)
    <3>1. PICK j \in 1..Len(key) : key[j] = q[i]
      BY <1>1, <2>1 DEF KeyAt
    <3> QED BY <1>4, <1>6, <3>1
  <2>2. CASE ~ForKey(q, i)
    <3>1. PICK k \in 1..Len(x) : x[k][1] = q[i][1]
      BY <1>1, <2>2 DEF Among
    <3> QED BY <1>9, <3>1
  <2> QED BY <2>1, <2>2
<1>12. ASSUME NEW j \in 1..Len(key), NEW k \in 1..Len(key), key[j][1] = key[k][1] PROVE j = k
  <2>1. PICK i \in 1..Len(q) : key[j] = q[i] /\ Cardinality(IntsIn(q, i - 1)) = j - 1
    BY <1>8
  <2>2. PICK h \in 1..Len(q) : key[k] = q[h] /\ Cardinality(IntsIn(q, h - 1)) = k - 1
    BY <1>8
  <2>3. i = h
    BY <1>7, <1>12, <2>1, <2>2
  <2>4. j - 1 = k - 1
    BY <2>1, <2>2, <2>3
  <2> QED BY <1>3, <2>4
<1>13. Agrees(w, q, later)
  BY <1>11, <1>10 DEF Agrees
<1>14. Begins(w, key, q)
  <2>1. Len(key) <= Len(w)
    BY <1>3, <1>4
  <2> QED BY <1>4, <1>8, <1>12, <2>1 DEF Begins
<1> QED BY <1>1, <1>2, <1>4, <1>13, <1>14

\* The first places of the names, and the last values.
Firsts(w) == {i \in 1..Len(w) : \A j \in 1..i - 1 : w[j][1] # w[i][1]}
Lasts(w) == [i \in Firsts(w) |-> w[Max({j \in 1..Len(w) : w[j][1] = w[i][1]})]]

\* The last value of a declared name is the expected one.
LEMMA LastsAre ==
  ASSUME NEW w, Len(w) \in Nat, NEW q, NEW later, Agrees(w, q, later), NEW j \in Firsts(w),
         NEW i \in 1..Len(q), w[j][1] = q[i][1]
  PROVE  Lasts(w)[j] = Expected(later, q[i])
<1>1. PICK at : at = {k \in 1..Len(w) : w[k][1] = w[j][1]}
  OBVIOUS
<1>2. j \in at /\ at \in SUBSET (1..Len(w))
  BY <1>1 DEF Firsts
<1>3. Max(at) \in at /\ \A k \in at : k <= Max(at)
  BY <1>2, LargestIn
<1>4. PICK m : m = Max(at) /\ m \in 1..Len(w) /\ w[m][1] = q[i][1]
  BY <1>1, <1>3
<1>5. ASSUME NEW h \in m + 1..Len(w) PROVE w[h][1] # q[i][1]
  <2>1. h \in 1..Len(w) /\ ~(h <= m)
    BY <1>4
  <2> QED BY <1>1, <1>3, <1>4, <2>1
<1>6. w[m] = Expected(later, q[i])
  BY <1>4, <1>5 DEF Agrees, LastNamed
<1>7. Lasts(w)[j] = w[m]
  BY <1>1, <1>4 DEF Lasts
<1> QED BY <1>6, <1>7

\* The reader finds the key's names at their places, and every declared name, with the
\* values expected.
LEMMA ReadBackIs ==
  ASSUME NEW n \in Nat, NEW f \in Frame(n), Kept(f), f.declared \in Keywords
  PROVE  /\ KeyState(f) = [k \in 1..Len(f.key) |-> Expected(f.later, f.key[k])]
         /\ {Expected(f.later, s) : s \in ToSet(f.declared)} \subseteq ToSet(ReadBack(f))
<1>1. PICK w \in Seq(State), q \in Seq(Pair), key \in Seq(Pair), later \in Seq(Pair) :
        /\ w = Written(f) /\ q = f.declared /\ key = f.key /\ later = f.later
        /\ Agrees(w, q, later) /\ Begins(w, key, q)
  BY FrameIs, KeptWritten
<1>2. PICK l \in Nat, kl \in Nat : l = Len(w) /\ kl = Len(key) /\ kl <= l
  BY <1>1, LenProperties DEF Begins
<1>3. PICK I \in SUBSET (1..l), s \in {Lasts(w)} : I = Firsts(w) /\ s = Lasts(w)
  BY <1>2 DEF Firsts
<1>4. PICK r : r = ReadBack(f) /\ r = Picked(s, I)
  BY <1>1, <1>3 DEF ReadBack, Firsts, Lasts
<1>5. /\ IsFiniteSet(I) /\ Cardinality(I) \in Nat /\ r = [k \in 1..Cardinality(I) |-> r[k]]
      /\ \A i \in I : Rank(I, i) + 1 \in 1..Cardinality(I) /\ r[Rank(I, i) + 1] = s[i]
      /\ \A k \in 1..Cardinality(I) : \E i \in I : Rank(I, i) + 1 = k
  BY <1>4, PickedIs
<1>6. ASSUME NEW j \in 1..kl PROVE j \in I /\ Rank(I, j) = j - 1
  <2>1. \A i \in 1..j : i \in 1..kl
    BY <1>2
  <2>2. \A i \in 1..kl : i \in I
    <3> TAKE i \in 1..kl
    <3>1. i \in 1..l /\ \A h \in 1..i - 1 : h \in 1..kl /\ h # i
      BY <1>2
    <3>2. ASSUME NEW h \in 1..i - 1 PROVE w[h][1] # w[i][1]
      <4>1. h \in 1..Len(key) /\ i \in 1..Len(key) /\ h # i
        BY <1>2, <3>1
      <4>2. w[h] = key[h] /\ w[i] = key[i]
        BY <1>1, <4>1 DEF Begins
      <4>3. key[h][1] # key[i][1]
        BY <1>1, <4>1 DEF Begins
      <4> QED BY <4>2, <4>3
    <3> QED BY <1>2, <1>3, <3>1, <3>2 DEF Firsts
  <2>3. {h \in I : h < j} = 1..(j - 1)
    <3>1. \A h \in 1..(j - 1) : h \in I /\ h < j
      BY <1>2, <2>2
    <3>2. \A h \in I : h < j => h \in 1..(j - 1)
      BY <1>2
    <3> QED BY <3>1, <3>2
  <2>4. Cardinality(1..(j - 1)) = j - 1
    <3>1. PICK m : m = j - 1 /\ m \in Nat /\ 1 \in Int /\ m \in Int
      BY <1>2
    <3>2. Cardinality(1..m) = IF 1 > m THEN 0 ELSE m - 1 + 1
      BY <3>1, FS_Interval
    <3> QED BY <3>1, <3>2
  <2>5. j \in 1..kl
    OBVIOUS
  <2> QED BY <2>2, <2>3, <2>4, <2>5 DEF Rank
<1>7. ASSUME NEW j \in 1..kl PROVE j \in 1..Cardinality(I) /\ r[j] = Expected(later, key[j])
  <2>1. j \in I /\ Rank(I, j) + 1 = j
    BY <1>2, <1>6
  <2>2. j \in 1..Cardinality(I) /\ r[j] = s[j]
    BY <1>5, <2>1
  <2>3. PICK i \in 1..Len(q) : w[j] = key[j] /\ key[j] = q[i]
    BY <1>1, <1>2 DEF Begins
  <2>4. s[j] = Expected(later, q[i])
    BY <1>1, <1>2, <1>3, <2>1, <2>3, LastsAre
  <2> QED BY <2>2, <2>3, <2>4
<1>8. kl <= Cardinality(I)
  <2>1. CASE kl = 0
    <3>1. Cardinality(I) \in Nat
      BY <1>5
    <3> QED BY <2>1, <3>1
  <2>2. CASE kl # 0
    <3>1. kl \in 1..kl
      BY <1>2, <2>2
    <3>2. kl \in 1..Cardinality(I)
      BY <1>7, <3>1
    <3> QED BY <3>2
  <2> QED BY <2>1, <2>2
<1>9. PICK c \in Nat : c = Cardinality(I) /\ r = [k \in 1..c |-> r[k]] /\ kl <= c
  BY <1>5, <1>8
<1>10. PICK e : e = [k \in 1..kl |-> Expected(later, key[k])]
  OBVIOUS
<1>11. Len(r) = c /\ SubSeq(r, 1, kl) = e
  <2>1. PICK S : S = {Expected(later, key[k]) : k \in 1..kl}
    OBVIOUS
  <2>2. e \in [1..kl -> S]
    BY <1>10, <2>1
  <2>3. e \in Seq(S) /\ Len(e) = kl
    BY <1>2, <2>2, FunctionIsSeq
  <2>4. \A k \in 1..Len(e) : r[k] = e[k]
    BY <1>7, <1>10, <2>3
  <2>5. Len(e) <= c
    BY <1>9, <2>3
  <2>6. Len(r) = c /\ SubSeq(r, 1, Len(e)) = e
    BY <1>9, <2>3, <2>4, <2>5, PrefixIs
  <2> QED BY <2>3, <2>6
<1>12. KeyState(f) = e
  <2>1. Min({kl, c}) = kl
    BY <1>2, <1>9, MinValue
  <2> QED BY <1>1, <1>2, <1>4, <1>11, <2>1 DEF KeyState
<1>13. ASSUME NEW i \in 1..Len(q) PROVE \E k \in 1..c : r[k] = Expected(later, q[i])
  <2>1. PICK at : at = {j \in 1..l : w[j][1] = q[i][1]}
    OBVIOUS
  <2>2. at \subseteq Nat /\ at # {}
    <3>1. PICK j \in 1..l : w[j][1] = q[i][1]
      BY <1>1, <1>2 DEF Agrees
    <3>2. j \in at
      BY <2>1, <3>1
    <3>3. \A h \in 1..l : h \in Nat
      BY <1>2
    <3> QED BY <2>1, <3>2, <3>3
  <2>3. PICK j \in at : \A h \in at : j <= h
    BY <2>2, LeastNat
  <2>4. j \in 1..l /\ w[j][1] = q[i][1]
    BY <2>1
  <2>5. j \in I
    <3>1. ASSUME NEW h \in 1..j - 1 PROVE w[h][1] # w[j][1]
      <4>1. h \in 1..l /\ ~(j <= h)
        BY <1>2, <2>4
      <4> QED BY <2>1, <2>3, <2>4, <4>1
    <3> QED BY <1>2, <1>3, <2>4, <3>1 DEF Firsts
  <2>6. s[j] = Expected(later, q[i])
    <3>1. Len(w) \in Nat /\ j \in Firsts(w) /\ s[j] = Lasts(w)[j]
      BY <1>2, <1>3, <2>5
    <3>2. Agrees(w, q, later)
      BY <1>1
    <3>3. Lasts(w)[j] = Expected(later, q[i])
      BY ONLY <2>4, <3>1, <3>2, i \in 1..Len(q), LastsAre
    <3> QED BY <3>1, <3>3
  <2>7. Rank(I, j) + 1 \in 1..c /\ r[Rank(I, j) + 1] = s[j]
    BY <1>5, <1>9, <2>5
  <2> QED BY <2>6, <2>7
<1>14. {Expected(later, t) : t \in ToSet(q)} \subseteq ToSet(r)
  <2>1. DOMAIN q = 1..Len(q) /\ DOMAIN r = 1..c
    BY <1>9, LenProperties
  <2>2. ASSUME NEW t \in ToSet(q) PROVE Expected(later, t) \in ToSet(r)
    <3>1. PICK i \in 1..Len(q) : t = q[i]
      BY <2>1 DEF ToSet
    <3>2. PICK k \in 1..c : r[k] = Expected(later, t)
      BY <1>13, <3>1
    <3> QED BY <2>1, <3>2 DEF ToSet
  <2> QED BY <2>2
<1> QED BY <1>1, <1>2, <1>4, <1>10, <1>12, <1>14

\* The integers among declared states, and the first of them.
LEMMA IntsAre ==
  ASSUME NEW q \in Seq(Pair), NEW key \in Seq(Pair), KeyAt(key, q, Len(q)),
         NEW ints, ints = Picked(q, {i \in 1..Len(q) : q[i][2] \in Ints})
  PROVE  SubSeq(ints, 1, Min({PyStates, Len(ints)})) = key
<1>1. PICK l \in Nat : l = Len(q)
  BY LenProperties
<1>2. PICK I \in SUBSET (1..l) : I = IntsIn(q, l) /\ ints = Picked(q, I)
  BY <1>1 DEF IntsIn
<1>3. /\ IsFiniteSet(I) /\ Cardinality(I) \in Nat /\ ints = [k \in 1..Cardinality(I) |-> ints[k]]
      /\ \A i \in I : Rank(I, i) + 1 \in 1..Cardinality(I) /\ ints[Rank(I, i) + 1] = q[i]
      /\ \A k \in 1..Cardinality(I) : \E i \in I : Rank(I, i) + 1 = k
  <2>1. ints = Picked(q, I)
    BY <1>2
  <2> QED BY ONLY <2>1, l \in Nat, I \in SUBSET (1..l), PickedIs
<1>4. PICK c \in Nat : c = Cardinality(I) /\ ints = [k \in 1..c |-> ints[k]]
  BY <1>3
<1>5. PICK p \in Nat : p = PyStates
  BY StatesAssumption
<1>6. Len(key) = IF c <= p THEN c ELSE p
  BY <1>1, <1>2, <1>4, <1>5 DEF KeyAt
<1>7. ASSUME NEW k \in 1..Len(key) PROVE ints[k] = key[k]
  <2>1. PICK i \in 1..l : ForKey(q, i) /\ Cardinality(IntsIn(q, i - 1)) = k - 1
    BY <1>1 DEF KeyAt
  <2>2. key[Cardinality(IntsIn(q, i - 1)) + 1] = q[i]
    BY <1>1, <2>1 DEF KeyAt
  <2>3. i \in I
    BY <1>2, <2>1 DEF ForKey, IntsIn
  <2>4. {h \in I : h < i} = IntsIn(q, i - 1)
    <3>1. \A h : h \in 1..l /\ h < i <=> h \in 1..(i - 1)
      OBVIOUS
    <3>2. \A h : h \in I <=> h \in 1..l /\ q[h][2] \in Ints
      BY <1>2 DEF IntsIn
    <3>3. \A h : h \in IntsIn(q, i - 1) <=> h \in 1..(i - 1) /\ q[h][2] \in Ints
      BY DEF IntsIn
    <3>4. \A h : (h \in I /\ h < i) <=> h \in IntsIn(q, i - 1)
      BY <3>1, <3>2, <3>3
    <3> QED BY <3>4
  <2>5. Rank(I, i) = k - 1
    BY <2>1, <2>4 DEF Rank
  <2>6. (k - 1) + 1 = k
    BY <1>6
  <2>7. key[k] = q[i]
    BY <2>1, <2>2, <2>6
  <2>8. ints[Rank(I, i) + 1] = q[i]
    BY <1>3, <2>3
  <2> QED BY <2>5, <2>6, <2>7, <2>8
<1>8. Len(ints) = c /\ SubSeq(ints, 1, Len(key)) = key
  <2>1. Len(key) <= c
    BY <1>6
  <2> QED BY <1>4, <1>7, <2>1, PrefixIs
<1>9. Min({p, c}) = Len(key)
  <2>1. Min({p, c}) = IF p <= c THEN p ELSE c
    BY MinValue
  <2> QED BY <1>6, <2>1
<1> QED BY <1>5, <1>8, <1>9

\* What lib/derive.py reads from the trace as the states of a block are the first integers
\* among its keywords, by name and place, and all its other keywords are in the record
\* too, unless a counter says that states or begins were lost, or its __enter__ raised.
\* Their values are those at the block's start, or the last ones that the program itself
\* attached under their names; what capture_exit attaches never replaces one.
THEOREM StatesReadAlways == Spec => []StatesRead
<1>1. ASSUME IInv, Good(client, abandoned) PROVE StatesRead
  <2>1. calls \in Nat /\ client \in Client(calls)
    BY <1>1 DEF IInv, Types
  <2>2. ASSUME client.overflows = 0, client.stateOver = 0, NEW f \in client.trace, f.id # 0,
               f.id \notin abandoned
        PROVE  LET ints == Picked(f.declared, {i \in 1..Len(f.declared) : f.declared[i][2] \in Ints})
                   first == SubSeq(ints, 1, Min({PyStates, Len(ints)}))
               IN  /\ KeyState(f) = [k \in 1..Len(first) |-> Expected(f.later, first[k])]
                   /\ {Expected(f.later, s) : s \in ToSet(f.declared)} \subseteq ToSet(ReadBack(f))
    <3>1. Told(f, abandoned)
      BY <1>1, <2>2 DEF Good, Unlost, AllTold
    <3>2. f.declared \in Keywords /\ Kept(f)
      BY <2>2, <3>1 DEF Told
    <3>3. f \in Frame(calls)
      BY <2>1, ClientIs
    <3>4. f.key \in Seq(Pair) /\ f.declared \in Seq(Pair) /\ KeyAt(f.key, f.declared, Len(f.declared))
      BY <2>1, <3>2, <3>3, FrameIs DEF Kept
    <3>5. PICK ints : ints = Picked(f.declared, {i \in 1..Len(f.declared) : f.declared[i][2] \in Ints})
      OBVIOUS
    <3>6. SubSeq(ints, 1, Min({PyStates, Len(ints)})) = f.key
      BY <3>4, <3>5, IntsAre
    <3>7. /\ KeyState(f) = [k \in 1..Len(f.key) |-> Expected(f.later, f.key[k])]
          /\ {Expected(f.later, s) : s \in ToSet(f.declared)} \subseteq ToSet(ReadBack(f))
      BY <2>1, <3>2, <3>3, ReadBackIs
    <3> QED BY <3>5, <3>6, <3>7
  <2> QED BY <2>2 DEF StatesRead
<1> QED BY <1>1, Invariance, GoodAlways, PTL
=============================================================================
