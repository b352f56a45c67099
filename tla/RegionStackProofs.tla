------------------------ MODULE RegionStackProofs ------------------------
(***************************************************************************)
(* Proofs about RegionStack for any threads, keys and bounds: a trigger's  *)
(* self count is what it ran itself, the nesting lib/derive.py reads from  *)
(* sequence numbers is the nesting there was, and the statistics, sums and *)
(* loss counters of a run agree with its trace and with the program.  And  *)
(* about its reader Relations, for any values and number of terms: the     *)
(* features are SPEC.md's, and the relations found hold and are all.       *)
(***************************************************************************)
EXTENDS Relations, SumLemmas, SequenceTheorems

\* h is the instance that g is: it began where g did.
SameInstance(g, h) ==
  /\ h \in Frame
  /\ h.key = g.key /\ h.total = g.total /\ h.seq = g.seq /\ h.above = g.above

\* The types of a frame's fields.
LEMMA FrameFields ==
  ASSUME NEW g \in Frame
  PROVE  /\ g.key \in Keys /\ g.total \in Nat /\ g.kids \in Int /\ g.seq \in Nat
         /\ g.states \in Nat /\ g.own \in Nat /\ g.said \in Nat /\ g.above \in SUBSET Nat
BY DEF Frame

\* A frame that ran one more instruction.
LEMMA OwnUpdate ==
  ASSUME NEW g \in Frame, NEW h, h = [g EXCEPT !.own = @ + 1]
  PROVE  /\ SameInstance(g, h) /\ h.own = g.own + 1 /\ h.kids = g.kids
         /\ h.states = g.states /\ h.said = g.said
<1>1. h = [key |-> g.key, total |-> g.total, kids |-> g.kids, seq |-> g.seq,
           states |-> g.states, own |-> g.own + 1, said |-> g.said, above |-> g.above]
  BY DEF Frame
<1> QED BY <1>1, FrameFields DEF Frame, SameInstance

\* A frame that was charged for a child.
LEMMA KidsUpdate ==
  ASSUME NEW g \in Frame, NEW k \in Int, NEW h, h = [g EXCEPT !.kids = @ + k]
  PROVE  /\ SameInstance(g, h) /\ h.own = g.own /\ h.kids = g.kids + k
         /\ h.states = g.states /\ h.said = g.said
<1>1. h = [key |-> g.key, total |-> g.total, kids |-> g.kids + k, seq |-> g.seq,
           states |-> g.states, own |-> g.own, said |-> g.said, above |-> g.above]
  BY DEF Frame
<1> QED BY <1>1, FrameFields DEF Frame, SameInstance

\* A frame for which a state was declared.
LEMMA SaidUpdate ==
  ASSUME NEW g \in Frame, NEW m \in Nat, NEW h,
         h = [g EXCEPT !.said = @ + 1, !.states = m]
  PROVE  SameInstance(g, h) /\ h.own = g.own /\ h.kids = g.kids
<1> DEFINE k == [g EXCEPT !.said = @ + 1]
<1>1. h = [k EXCEPT !.states = m]
  OBVIOUS
<1>2. k = [key |-> g.key, total |-> g.total, kids |-> g.kids, seq |-> g.seq,
           states |-> g.states, own |-> g.own, said |-> g.said + 1, above |-> g.above]
  BY DEF Frame
<1> HIDE DEF k
<1>3. h = [key |-> g.key, total |-> g.total, kids |-> g.kids, seq |-> g.seq,
           states |-> m, own |-> g.own, said |-> g.said + 1, above |-> g.above]
  BY <1>1, <1>2
<1> QED BY <1>3, FrameFields DEF Frame, SameInstance

-----------------------------------------------------------------------------
(***************************************************************************)
(* What each step does to the frames, element by element.                  *)
(***************************************************************************)
\* Changing the last frame of a stack.
LEMMA LastChanged ==
  ASSUME NEW s \in Seq(Frame), s # <<>>, NEW g \in Frame, NEW r,
         r = [s EXCEPT ![Len(s)] = g]
  PROVE  /\ Len(s) \in Nat \ {0}
         /\ r \in Seq(Frame) /\ Len(r) = Len(s) /\ r[Len(s)] = g
         /\ \A i \in 1..(Len(s) - 1) : r[i] = s[i]
OBVIOUS

\* A frame of a stack.
LEMMA ElementFrame ==
  ASSUME NEW s \in Seq(Frame), NEW i \in 1..Len(s)
  PROVE  s[i] \in Frame
OBVIOUS

\* What TypeOK says of a thread.
LEMMA ThreadTypes ==
  ASSUME TypeOK, NEW t \in Threads
  PROVE  /\ clock[t] \in Nat /\ stack[t] \in Seq(Frame)
         /\ closing[t].to \in Nat /\ closing[t].end \in Nat
         /\ trace[t] \subseteq Record
         /\ DOMAIN stack = Threads /\ DOMAIN clock = Threads
         /\ DOMAIN closing = Threads
<1>1. closing[t] \in [to : Nat, end : Nat]
  BY DEF TypeOK
<1> QED BY <1>1 DEF TypeOK

\* Run charges the innermost frame and moves nothing.
LEMMA RunShape ==
  ASSUME TypeOK, NEW t \in Threads, Run(t), stack[t] # <<>>
  PROVE  LET n == Len(stack[t])
         IN  /\ n \in Nat \ {0}
             /\ stack' = [stack EXCEPT ![t] = stack'[t]]
             /\ stack'[t] \in Seq(Frame) /\ Len(stack'[t]) = n
             /\ \A i \in 1..(n - 1) : stack'[t][i] = stack[t][i]
             /\ SameInstance(stack[t][n], stack'[t][n])
             /\ stack'[t][n].own = stack[t][n].own + 1
             /\ stack'[t][n].kids = stack[t][n].kids
             /\ stack'[t][n].states = stack[t][n].states
             /\ stack'[t][n].said = stack[t][n].said
<1> DEFINE n == Len(stack[t])
           f == stack[t][n]
           h == [f EXCEPT !.own = @ + 1]
<1>1. stack[t] \in Seq(Frame) /\ n \in 1..Len(stack[t])
  BY ThreadTypes
<1>2. stack' = [stack EXCEPT ![t] = [stack[t] EXCEPT ![n] = h]]
  BY DEF Run, Depth
<1>3. f \in Frame
  BY <1>1, ElementFrame
<1>4. /\ SameInstance(f, h) /\ h.own = f.own + 1 /\ h.kids = f.kids
      /\ h.states = f.states /\ h.said = f.said
  <2> HIDE DEF f
  <2> QED BY <1>3, OwnUpdate
<1>5. stack'[t] = [stack[t] EXCEPT ![n] = h]
  BY <1>2, ThreadTypes
<1>6. h \in Frame
  BY <1>4 DEF SameInstance
<1> HIDE DEF h, f
<1>7. /\ n \in Nat \ {0} /\ stack'[t] \in Seq(Frame) /\ Len(stack'[t]) = n
      /\ stack'[t][n] = h /\ \A i \in 1..(n - 1) : stack'[t][i] = stack[t][i]
  BY <1>1, <1>5, <1>6, LastChanged
<1>8. stack' = [stack EXCEPT ![t] = stack'[t]]
  BY <1>2, <1>5
<1> QED BY <1>4, <1>7, <1>8 DEF f

\* A declared state changes nothing but the innermost frame's states.
LEMMA StateShape ==
  ASSUME TypeOK, NEW t \in Threads, State(t)
  PROVE  LET n == Len(stack[t])
         IN  /\ n \in Nat \ {0}
             /\ stack' = [stack EXCEPT ![t] = stack'[t]]
             /\ stack'[t] \in Seq(Frame) /\ Len(stack'[t]) = n
             /\ \A i \in 1..(n - 1) : stack'[t][i] = stack[t][i]
             /\ SameInstance(stack[t][n], stack'[t][n])
             /\ stack'[t][n].own = stack[t][n].own
             /\ stack'[t][n].kids = stack[t][n].kids
             /\ stack'[t][n].said = stack[t][n].said + 1
             /\ stack'[t][n].states = IF stack[t][n].states < MaxStates
                                     THEN stack[t][n].states + 1 ELSE stack[t][n].states
<1> DEFINE n == Len(stack[t])
           f == stack[t][n]
           m == IF f.states < MaxStates THEN f.states + 1 ELSE f.states
           h == [f EXCEPT !.said = @ + 1, !.states = m]
<1>1. stack[t] \in Seq(Frame) /\ n \in 1..Len(stack[t]) /\ stack[t] # <<>>
  BY ThreadTypes DEF State
<1>2. stack' = [stack EXCEPT ![t] = [stack[t] EXCEPT ![n] = h]]
  BY DEF State, Depth, Top
<1>3. f \in Frame
  BY <1>1, ElementFrame
<1>4. /\ SameInstance(f, h) /\ h.own = f.own /\ h.kids = f.kids
      /\ h.states = m /\ h.said = f.said + 1
  <2>1. m \in Nat
    BY <1>3, FrameFields
  <2> HIDE DEF f, m
  <2>2. SameInstance(f, h) /\ h.own = f.own /\ h.kids = f.kids
    BY <1>3, <2>1, SaidUpdate
  <2>3. h.states = m /\ h.said = f.said + 1
    BY <1>3 DEF Frame
  <2> QED BY <2>2, <2>3
<1>5. stack'[t] = [stack[t] EXCEPT ![n] = h]
  BY <1>2, ThreadTypes
<1>6. h \in Frame
  BY <1>4 DEF SameInstance
<1> HIDE DEF h, f
<1>7. /\ n \in Nat \ {0} /\ stack'[t] \in Seq(Frame) /\ Len(stack'[t]) = n
      /\ stack'[t][n] = h /\ \A i \in 1..(n - 1) : stack'[t][i] = stack[t][i]
  BY <1>1, <1>5, <1>6, LastChanged
<1>8. stack' = [stack EXCEPT ![t] = stack'[t]]
  BY <1>2, <1>5
<1> QED BY <1>4, <1>7, <1>8 DEF f

\* Begin pushes a frame that starts now.
LEMMA BeginShape ==
  ASSUME TypeOK, NEW t \in Threads, NEW k \in Keys, Begin(t, k), HasRoom(t)
  PROVE  LET n == Len(stack[t])
             f == stack'[t][n + 1]
         IN  /\ n \in Nat /\ n < MaxDepth
             /\ stack' = [stack EXCEPT ![t] = stack'[t]]
             /\ stack'[t] \in Seq(Frame) /\ Len(stack'[t]) = n + 1
             /\ \A i \in 1..n : stack'[t][i] = stack[t][i]
             /\ f.total = clock[t] /\ f.kids = 0 /\ f.own = 0 /\ f.seq = NextSeq
             /\ f.above = Below(stack[t], n + 1)
             /\ f.key = k /\ f.states = 0 /\ f.said = 0
<1> DEFINE n == Len(stack[t])
           below == Below(stack[t], n + 1)
           f == [key |-> k, total |-> clock[t], kids |-> 0, seq |-> NextSeq, states |-> 0,
                 own |-> 0, said |-> 0, above |-> below]
<1>1. stack[t] \in Seq(Frame) /\ n \in Nat /\ clock[t] \in Nat
  BY ThreadTypes
<1>2. stack' = [stack EXCEPT ![t] = Append(stack[t], f)]
  BY DEF Begin, Depth
<1>3. NextSeq \in Nat
  BY BoundsAssumption DEF NextSeq, TypeOK
<1>4. below \in SUBSET Nat
  <2>1. ASSUME NEW i \in 1..n PROVE stack[t][i].seq \in Nat
    BY <1>1, ElementFrame, FrameFields
  <2> QED BY <1>1, <2>1 DEF Below
<1>5. f \in Frame
  <2> HIDE DEF below
  <2> QED BY <1>1, <1>3, <1>4 DEF Frame
<1>6. /\ f.total = clock[t] /\ f.kids = 0 /\ f.own = 0 /\ f.seq = NextSeq
      /\ f.above = Below(stack[t], n + 1)
      /\ f.key = k /\ f.states = 0 /\ f.said = 0
  OBVIOUS
<1> HIDE DEF f
<1>7. stack'[t] = Append(stack[t], f)
  BY <1>2, ThreadTypes
<1>8. /\ stack'[t] \in Seq(Frame) /\ Len(stack'[t]) = n + 1 /\ stack'[t][n + 1] = f
      /\ \A i \in 1..n : stack'[t][i] = stack[t][i]
  BY ONLY <1>1, <1>5, <1>7
<1>9. stack' = [stack EXCEPT ![t] = stack'[t]]
  BY <1>2, <1>7
<1>10. n < MaxDepth
  BY DEF HasRoom, Depth
<1> QED BY <1>1, <1>6, <1>8, <1>9, <1>10

\* Close pops the innermost frame and charges the one below.
LEMMA CloseShape ==
  ASSUME TypeOK, ClosingInv, NEW t \in Threads, Close(t)
  PROVE  LET n == Len(stack[t])
             f == stack[t][n]
             g == stack[t][n - 1]
             h == stack'[t][n - 1]
         IN  /\ n \in Nat \ {0} /\ f \in Frame
             /\ stack' = [stack EXCEPT ![t] = stack'[t]]
             /\ stack'[t] \in Seq(Frame) /\ Len(stack'[t]) = n - 1
             /\ \A i \in 1..(n - 2) : stack'[t][i] = stack[t][i]
             /\ n > 1 => /\ SameInstance(g, h) /\ h.own = g.own
                         /\ h.kids = g.kids + (clock[t] - f.total)
                         /\ h.states = g.states /\ h.said = g.said
<1> DEFINE n == Len(stack[t])
           f == stack[t][n]
           incl == clock[t] - f.total
           rest == SubSeq(stack[t], 1, n - 1)
           h == [rest[n - 1] EXCEPT !.kids = @ + incl]
<1>1. stack[t] \in Seq(Frame) /\ n \in Nat \ {0} /\ clock[t] \in Nat
  <2>1. closing[t].to \in 1..Len(stack[t])
    BY DEF ClosingInv, Close, Depth
  <2> QED BY <2>1, ThreadTypes
<1>2. f \in Frame
  BY <1>1, ElementFrame
<1>3. incl \in Int
  BY <1>1, <1>2, FrameFields
<1>4. stack' = [stack EXCEPT ![t] =
                  IF n = 1 THEN rest ELSE [rest EXCEPT ![n - 1] = h]]
  BY DEF Close, Depth, Charge
<1>5. stack'[t] = IF n = 1 THEN rest ELSE [rest EXCEPT ![n - 1] = h]
  BY <1>4, ThreadTypes
<1>6. rest \in Seq(Frame) /\ Len(rest) = n - 1 /\ \A i \in 1..(n - 1) : rest[i] = stack[t][i]
  BY <1>1
<1>7. stack' = [stack EXCEPT ![t] = stack'[t]]
  BY <1>4, <1>5
<1>8. CASE n = 1
  BY <1>1, <1>2, <1>5, <1>6, <1>7, <1>8
<1>9. CASE n # 1
  <2> DEFINE g == stack[t][n - 1]
  <2>1. n - 1 \in 1..Len(stack[t]) /\ n - 1 \in 1..(n - 1)
    <3> HIDE DEF n
    <3>1. n - 1 \in 1..n /\ n - 1 \in 1..(n - 1)
      BY <1>1, <1>9
    <3> QED BY <3>1 DEF n
  <2>2. g \in Frame
    BY <1>1, <2>1, ElementFrame
  <2>3. h = [g EXCEPT !.kids = @ + incl]
    BY <1>6, <2>1
  <2> HIDE DEF h, g, rest, incl
  <2>4. /\ SameInstance(g, h) /\ h.own = g.own /\ h.kids = g.kids + incl
        /\ h.states = g.states /\ h.said = g.said
    BY <1>3, <2>2, <2>3, KidsUpdate
  <2>5. h \in Frame
    BY <2>4 DEF SameInstance
  <2>6. rest # <<>> /\ stack'[t] = [rest EXCEPT ![Len(rest)] = h]
    <3>1. Len(rest) = n - 1 /\ n - 1 # 0
      BY <1>1, <1>6, <1>9
    <3>2. rest # <<>>
      BY <1>6, <3>1
    <3> QED BY <1>5, <1>9, <3>1, <3>2
  <2>7. /\ stack'[t] \in Seq(Frame) /\ Len(stack'[t]) = n - 1 /\ stack'[t][n - 1] = h
        /\ \A i \in 1..(n - 2) : stack'[t][i] = rest[i]
    <3>1. Len(rest) - 1 = n - 2
      BY <1>1, <1>6
    <3>2. /\ stack'[t] \in Seq(Frame) /\ Len(stack'[t]) = Len(rest)
          /\ stack'[t][Len(rest)] = h
          /\ \A i \in 1..(Len(rest) - 1) : stack'[t][i] = rest[i]
      BY ONLY <1>6, <2>5, <2>6, LastChanged
    <3> QED BY <1>6, <3>1, <3>2
  <2>8. \A i \in 1..(n - 2) : stack'[t][i] = stack[t][i]
    BY <1>1, <1>6, <2>7
  <2> QED BY <1>1, <1>2, <1>7, <2>4, <2>7, <2>8 DEF g, incl
<1> QED BY <1>8, <1>9

\* The trace after a close: the records there were and, unless it was dropped,
\* that of the frame.
LEMMA CloseTrace ==
  ASSUME TypeOK, ClosingInv, NEW t \in Threads, Close(t)
  PROVE  LET n == Len(stack[t])
             f == stack[t][n]
         IN  /\ \A u \in Threads \ {t} : trace'[u] = trace[u]
             /\ \/ /\ trace'[t] = trace[t]
                   /\ TraceLimit > 0 => dropped' = dropped + 1
                \/ /\ TraceLimit > 0 /\ dropped' = dropped
                   /\ \E r \in Record :
                     /\ trace'[t] = trace[t] \cup {r}
                     /\ r.seq = f.seq /\ r.end = closing[t].end /\ r.above = f.above
                     /\ r.own = f.own /\ r.incl = clock[t] - f.total
                     /\ r.self = r.incl - f.kids /\ r.key = f.key
                     /\ r.states = f.states /\ r.said = f.said
<1> DEFINE n == Len(stack[t])
           f == stack[t][n]
           incl == clock[t] - f.total
           r == [key |-> f.key, seq |-> f.seq, end |-> closing[t].end, incl |-> incl,
                 self |-> incl - f.kids, states |-> f.states, implicit |-> Forced(t),
                 own |-> f.own, said |-> f.said, above |-> f.above]
<1>1. f \in Frame /\ clock[t] \in Nat /\ closing[t].end \in Nat
  BY CloseShape, ThreadTypes
<1>2. incl \in Int /\ incl - f.kids \in Int
  BY <1>1, FrameFields
<1>3. Forced(t) \in BOOLEAN
  BY DEF Forced
<1>4. r \in Record
  <2> HIDE DEF f, incl
  <2> QED BY <1>1, <1>2, <1>3, FrameFields DEF Record
<1>5. \/ trace' = trace /\ (TraceLimit > 0 => dropped' = dropped + 1)
      \/ TraceLimit > 0 /\ dropped' = dropped /\ trace' = [trace EXCEPT ![t] = @ \cup {r}]
  BY BoundsAssumption DEF Close, Depth, Lost
<1>6. r.seq = f.seq /\ r.end = closing[t].end /\ r.above = f.above /\ r.own = f.own
      /\ r.incl = incl /\ r.self = incl - f.kids /\ r.key = f.key
      /\ r.states = f.states /\ r.said = f.said
  OBVIOUS
<1> HIDE DEF r
<1>7. \/ trace' = trace /\ (TraceLimit > 0 => dropped' = dropped + 1)
      \/ /\ TraceLimit > 0 /\ dropped' = dropped /\ trace'[t] = trace[t] \cup {r}
         /\ \A u \in Threads \ {t} : trace'[u] = trace[u]
  BY <1>5 DEF TypeOK
<1> HIDE DEF f, incl
<1>8. /\ \A u \in Threads \ {t} : trace'[u] = trace[u]
      /\ \/ trace'[t] = trace[t] /\ (TraceLimit > 0 => dropped' = dropped + 1)
         \/ /\ TraceLimit > 0 /\ dropped' = dropped
            /\ \E x \in Record :
              /\ trace'[t] = trace[t] \cup {x}
              /\ x.seq = f.seq /\ x.end = closing[t].end /\ x.above = f.above
              /\ x.own = f.own /\ x.incl = incl /\ x.self = x.incl - f.kids
              /\ x.key = f.key /\ x.states = f.states /\ x.said = f.said
  <2>1. CASE trace' = trace /\ (TraceLimit > 0 => dropped' = dropped + 1)
    <3>1. trace'[t] = trace[t] /\ \A u \in Threads \ {t} : trace'[u] = trace[u]
      BY ONLY <2>1
    <3> QED BY <2>1, <3>1, Zenon
  <2>2. CASE /\ TraceLimit > 0 /\ dropped' = dropped /\ trace'[t] = trace[t] \cup {r}
             /\ \A u \in Threads \ {t} : trace'[u] = trace[u]
    <3>1. r.self = r.incl - f.kids
      BY ONLY <1>6
    <3> QED BY <1>4, <1>6, <2>2, <3>1, Zenon
  <2> QED BY <1>7, <2>1, <2>2
<1> QED BY <1>8 DEF f, incl

-----------------------------------------------------------------------------
(***************************************************************************)
(* Types.                                                                  *)
(***************************************************************************)
\* A thread's frames replaced by other frames.
LEMMA StackType ==
  ASSUME TypeOK, NEW t \in Threads, stack'[t] \in Seq(Frame),
         stack' = [stack EXCEPT ![t] = stack'[t]]
  PROVE  /\ stack' \in [Threads -> Seq(Frame)]
         /\ \A u \in Threads \ {t} : stack'[u] = stack[u]
BY DEF TypeOK

\* One more in a table of counts.
LEMMA AddType ==
  ASSUME NEW S, NEW f \in [Threads -> [S -> Nat]], NEW t \in Threads, NEW k \in S
  PROVE  [f EXCEPT ![t] = Add(@, k)] \in [Threads -> [S -> Nat]]
<1>1. Add(f[t], k) \in [S -> Nat]
  BY DEF Add
<1> QED BY <1>1

\* Running an instruction keeps the types.
LEMMA RunType ==
  ASSUME TypeOK, NEW t \in Threads, Run(t)
  PROVE  TypeOK'
<1>1. clock' \in [Threads -> Nat]
  BY DEF Run, TypeOK
<1>2. stack' \in [Threads -> Seq(Frame)] /\ \A u \in Threads : Len(stack'[u]) = Len(stack[u])
  <2>1. CASE stack[t] = <<>>
    BY <2>1 DEF Run, TypeOK
  <2>2. CASE stack[t] # <<>>
    BY <2>2, RunShape, StackType
  <2> QED BY <2>1, <2>2
<1>3. ran' \in [Threads -> [Keys -> Nat]]
  <2>1. CASE nest[t] = <<>>
    BY <2>1 DEF Run, TypeOK
  <2>2. CASE nest[t] # <<>>
    <3>1. nest[t] \in Seq(Keys)
      BY DEF TypeOK
    <3>2. Top(nest[t]) \in Keys
      BY <2>2, <3>1 DEF Top
    <3>3. ran' = [ran EXCEPT ![t] = Add(@, Top(nest[t]))]
      BY <2>2 DEF Run
    <3> QED BY <3>2, <3>3, AddType DEF TypeOK
  <2> QED BY <2>1, <2>2
<1>4. \A u \in Threads : Depth(u)' = Depth(u)
  BY <1>2 DEF Depth
<1>5. UNCHANGED <<closing, alive, count, selfSum, trace, countVars, calls, nest, tidy>>
  BY DEF Run
<1> QED BY <1>1, <1>2, <1>3, <1>4, <1>5 DEF TypeOK, countVars

\* Declaring a state keeps the types.
LEMMA StateType ==
  ASSUME TypeOK, NEW t \in Threads, State(t)
  PROVE  TypeOK'
<1>1. stack' \in [Threads -> Seq(Frame)] /\ \A u \in Threads : Len(stack'[u]) = Len(stack[u])
  BY StateShape, StackType
<1>2. \A u \in Threads : Depth(u)' = Depth(u)
  BY <1>1 DEF Depth
<1>3. stateOver' \in Nat /\ calls' \in Nat
  BY DEF State, TypeOK, StatesLost, Call
<1> QED BY <1>1, <1>2, <1>3 DEF State, TypeOK, programVars

\* A begin keeps the types.
LEMMA BeginType ==
  ASSUME TypeOK, NEW t \in Threads, NEW k \in Keys, Begin(t, k)
  PROVE  TypeOK'
<1>1. /\ stack' \in [Threads -> Seq(Frame)]
      /\ \A u \in Threads : Depth(u)' \in Depth(u)..MaxDepth
  <2>1. CASE HasRoom(t)
    <3>1. /\ stack' \in [Threads -> Seq(Frame)]
          /\ \A u \in Threads \ {t} : stack'[u] = stack[u]
      BY <2>1, BeginShape, StackType
    <3>2. Len(stack'[t]) = Len(stack[t]) + 1 /\ Len(stack[t]) \in Nat /\ Len(stack[t]) < MaxDepth
      BY <2>1, BeginShape
    <3>3. \A u \in Threads : Len(stack[u]) \in Nat /\ Len(stack[u]) <= MaxDepth
      BY ThreadTypes DEF TypeOK, Depth
    <3> QED BY <3>1, <3>2, <3>3, BoundsAssumption DEF Depth
  <2>2. CASE ~HasRoom(t)
    <3>1. stack' = stack
      BY <2>2 DEF Begin
    <3>2. \A u \in Threads : Len(stack[u]) \in Nat /\ Len(stack[u]) <= MaxDepth
      BY ThreadTypes DEF TypeOK, Depth
    <3> QED BY <3>1, <3>2, BoundsAssumption DEF Depth, TypeOK
  <2> QED BY <2>1, <2>2
<1>2. nest' \in [Threads -> Seq(Keys)]
  <2>1. nest[t] \in Seq(Keys)
    BY DEF TypeOK
  <2>2. Append(nest[t], k) \in Seq(Keys)
    BY <2>1
  <2> QED BY <2>2 DEF Begin, TypeOK
<1>3. seq' \in Nat /\ overflows' \in Nat /\ calls' \in Nat
  <2>1. seq' \in {seq, NextSeq} /\ overflows' \in {overflows, overflows + 1}
    BY DEF Begin
  <2>2. seq \in Nat /\ overflows \in Nat /\ calls \in Nat /\ calls' = calls + 1
    BY DEF Begin, TypeOK, Call
  <2> QED BY <2>1, <2>2 DEF NextSeq
<1>4. \A u \in Threads : closing'[u].to <= Depth(u)'
  <2>1. ASSUME NEW u \in Threads PROVE closing'[u].to <= Depth(u)'
    <3>1. closing'[u] = closing[u] /\ closing[u].to \in Nat /\ closing[u].to <= Depth(u)
      BY ThreadTypes DEF Begin, TypeOK
    <3>2. Depth(u) \in Nat /\ Depth(u)' \in Depth(u)..MaxDepth
      BY <1>1, ThreadTypes DEF Depth
    <3> QED BY <3>1, <3>2
  <2> QED BY <2>1
<1>5. UNCHANGED <<clock, closing, alive, count, selfSum, trace, records, dropped,
                  unmatched, stateOver, implicit, ran, tidy>>
  BY DEF Begin
<1>6. \A u \in Threads : Depth(u)' <= MaxDepth
  BY <1>1, BoundsAssumption
<1> QED BY <1>1, <1>2, <1>3, <1>4, <1>5, <1>6 DEF TypeOK

\* The frame an end finds is one of the stack's.
LEMMA FoundDepth ==
  ASSUME TypeOK, NEW t \in Threads, NEW r, NEW i \in Innermost(Found(t, r))
  PROVE  i \in 1..Depth(t)
BY DEF Innermost, Found

\* What an end leaves of the program's nesting.
LEMMA LeaveType ==
  ASSUME TypeOK, NEW t \in Threads, NEW r, Leave(t, r)
  PROVE  nest' \in [Threads -> Seq(Keys)] /\ tidy' \subseteq Threads
<1>1. nest[t] \in Seq(Keys)
  BY DEF TypeOK
<1>2. nest' = nest \/ nest' = [nest EXCEPT ![t] = SubSeq(nest[t], 1, Len(nest[t]) - 1)]
  BY DEF Leave
<1>3. nest[t] # <<>> => SubSeq(nest[t], 1, Len(nest[t]) - 1) \in Seq(Keys)
  BY <1>1
<1>4. nest[t] = <<>> => nest' = nest
  BY DEF Leave
<1>5. nest' \in [Threads -> Seq(Keys)]
  BY <1>2, <1>3, <1>4 DEF TypeOK
<1>6. tidy' \subseteq Threads
  BY DEF Leave, TypeOK
<1> QED BY <1>5, <1>6

\* An end keeps the types.
LEMMA EndType ==
  ASSUME TypeOK, NEW t \in Threads, NEW r \in Regions, End(t, r)
  PROVE  TypeOK'
<1>1. /\ closing' \in [Threads -> [to : Nat, end : Nat]]
      /\ \A u \in Threads : closing'[u].to <= Depth(u)
      /\ seq' \in Nat /\ unmatched' \in Nat
  <2>1. CASE Found(t, r) = {}
    BY <2>1 DEF End, TypeOK, Strays
  <2>2. CASE Found(t, r) # {}
    <3>1. PICK i \in Innermost(Found(t, r)) : closing' = [closing EXCEPT ![t] =
            [to |-> i, end |-> IF TraceLimit > 0 THEN seq + 1 ELSE 0]]
      BY <2>2 DEF End
    <3>2. i \in 1..Depth(t)
      BY FoundDepth
    <3>3. [to |-> i, end |-> IF TraceLimit > 0 THEN seq + 1 ELSE 0] \in [to : Nat, end : Nat]
      BY <3>2 DEF TypeOK
    <3>4. closing'[t].to = i /\ \A u \in Threads \ {t} : closing'[u] = closing[u]
      BY <3>1 DEF TypeOK
    <3>5. \A u \in Threads : closing'[u].to <= Depth(u)
      <4>1. i <= Depth(t)
        BY <3>2, ThreadTypes DEF Depth
      <4>2. \A u \in Threads : closing[u].to <= Depth(u)
        BY DEF TypeOK
      <4> QED BY ONLY <3>4, <4>1, <4>2
    <3>6. seq' \in Nat /\ unmatched' \in Nat
      BY <2>2 DEF End, TypeOK, NextSeq
    <3> QED BY <3>1, <3>3, <3>5, <3>6 DEF TypeOK
  <2> QED BY <2>1, <2>2
<1>2. nest' \in [Threads -> Seq(Keys)] /\ tidy' \subseteq Threads
  BY LeaveType DEF End
<1>3. calls' \in Nat
  BY DEF End, Call, TypeOK
<1>4. \A u \in Threads : Depth(u)' = Depth(u)
  BY DEF End, Depth
<1> QED BY <1>1, <1>2, <1>3, <1>4 DEF End, TypeOK

\* A thread's exit keeps the types.
LEMMA ExitType ==
  ASSUME TypeOK, NEW t \in Threads, Exit(t)
  PROVE  TypeOK'
<1>1. /\ closing' \in [Threads -> [to : Nat, end : Nat]]
      /\ \A u \in Threads : closing'[u].to <= Depth(u)
  <2>1. CASE stack[t] = <<>>
    BY <2>1 DEF Exit, TypeOK
  <2>2. CASE stack[t] # <<>>
    <3>1. closing' = [closing EXCEPT ![t] = [to |-> 1, end |-> ExitSeq]]
      BY <2>2 DEF Exit
    <3>2. [to |-> 1, end |-> ExitSeq] \in [to : Nat, end : Nat]
      BY DEF TypeOK, ExitSeq
    <3>3. closing'[t].to = 1 /\ \A u \in Threads \ {t} : closing'[u] = closing[u]
      BY <3>1 DEF TypeOK
    <3>4. 1 <= Depth(t)
      BY <2>2, ThreadTypes DEF Depth
    <3>5. \A u \in Threads : closing'[u].to <= Depth(u)
      BY <3>3, <3>4 DEF TypeOK
    <3> QED BY <3>1, <3>2, <3>5 DEF TypeOK
  <2> QED BY <2>1, <2>2
<1>2. seq' \in Nat /\ alive' \subseteq Threads
  BY DEF Exit, TypeOK, ExitSeq
<1>3. \A u \in Threads : Depth(u)' = Depth(u)
  BY DEF Exit, Depth
<1> QED BY <1>1, <1>2, <1>3 DEF Exit, TypeOK, programVars

\* Closing a frame keeps the types.
LEMMA CloseType ==
  ASSUME TypeOK, ClosingInv, NEW t \in Threads, Close(t)
  PROVE  TypeOK' /\ ClosingInv'
<1> DEFINE n == Len(stack[t])
           f == stack[t][n]
<1>1. /\ n \in Nat \ {0} /\ f \in Frame
      /\ stack' \in [Threads -> Seq(Frame)]
      /\ \A u \in Threads \ {t} : stack'[u] = stack[u]
      /\ Len(stack'[t]) = n - 1
  BY CloseShape, StackType
<1>2. f.key \in Keys /\ f.kids \in Int /\ f.total \in Nat /\ clock[t] \in Nat
  BY <1>1, FrameFields, ThreadTypes
<1>3. count' \in [Threads -> [Keys -> Nat]]
  <2>1. count' = [count EXCEPT ![t] = Add(@, f.key)]
    BY DEF Close, Depth
  <2> HIDE DEF f
  <2> QED BY <1>2, <2>1, AddType DEF TypeOK
<1>4. selfSum' \in [Threads -> [Keys -> Int]]
  <2> DEFINE self == clock[t] - f.total - f.kids
  <2>1. selfSum' = [selfSum EXCEPT ![t][f.key] = @ + self]
    BY DEF Close, Depth
  <2>2. self \in Int
    BY <1>2
  <2> HIDE DEF f, self
  <2> QED BY <1>2, <2>1, <2>2 DEF TypeOK
<1>5. trace' \in [Threads -> SUBSET Record]
  <2>1. trace'[t] \in SUBSET Record /\ \A u \in Threads \ {t} : trace'[u] = trace[u]
    BY CloseTrace, ThreadTypes
  <2>2. DOMAIN trace' = Threads
    BY DEF Close, TypeOK
  <2>3. trace' = [u \in Threads |-> trace'[u]]
    BY <2>2 DEF Close, TypeOK
  <2> QED BY <2>1, <2>2, <2>3 DEF TypeOK
<1>6. implicit' \in Nat /\ records' \in Nat /\ dropped' \in Nat
  <2>1. implicit' = implicit \/ implicit' = implicit + 1
    BY DEF Close
  <2>2. records' = records \/ records' = records + 1
    BY DEF Close
  <2>3. dropped' = dropped \/ dropped' = dropped + 1
    BY DEF Close, Lost
  <2> QED BY <2>1, <2>2, <2>3 DEF TypeOK
<1>7. /\ closing' \in [Threads -> [to : Nat, end : Nat]]
      /\ \A u \in Threads \ {t} : closing'[u] = closing[u]
      /\ closing'[t] = IF n = closing[t].to THEN Idle ELSE closing[t]
  <2>1. closing' = IF n = closing[t].to THEN [closing EXCEPT ![t] = Idle] ELSE closing
    BY DEF Close, Depth
  <2>2. Idle \in [to : Nat, end : Nat]
    BY DEF Idle
  <2> QED BY <2>1, <2>2 DEF TypeOK
<1>8. closing[t].to \in 1..n
  BY DEF Close, ClosingInv, Depth
<1>9. \A u \in Threads \ {t} : Depth(u)' = Depth(u) /\ closing'[u] = closing[u]
  BY <1>1, <1>7 DEF Depth
<1>10. Depth(t)' = n - 1 /\ Depth(t)' <= MaxDepth
  <2>1. Depth(t)' = n - 1
    BY <1>1 DEF Depth
  <2>2. n <= MaxDepth
    BY DEF TypeOK, Depth
  <2> QED BY <1>1, <2>1, <2>2, BoundsAssumption
<1>11. closing'[t] = Idle \/ closing'[t].to \in 1..(n - 1)
  BY <1>1, <1>7, <1>8
<1>12. closing'[t].to <= n - 1
  BY <1>1, <1>11 DEF Idle
<1>13. \A u \in Threads : Depth(u)' <= MaxDepth /\ closing'[u].to <= Depth(u)'
  BY <1>9, <1>10, <1>12 DEF TypeOK
<1>14. ClosingInv'
  <2>1. ASSUME NEW u \in Threads
        PROVE  closing'[u] = Idle \/ closing'[u].to \in 1..Depth(u)'
    BY <1>9, <1>10, <1>11 DEF ClosingInv
  <2> QED BY <2>1 DEF ClosingInv, Depth
<1> HIDE DEF n, f
<1>15. TypeOK'
  BY <1>1, <1>3, <1>4, <1>5, <1>6, <1>7, <1>13 DEF Close, TypeOK, programVars
<1> QED BY <1>14, <1>15

-----------------------------------------------------------------------------
(***************************************************************************)
(* Where a frame's time goes: ClosingInv, FrameInv and SelfIsOwn.          *)
(***************************************************************************)
\* FrameInv of one frame.
FrameAt(u, i) ==
  /\ stack[u][i].kids >= 0
  /\ stack[u][i].own = Until(u, i) - stack[u][i].total - stack[u][i].kids

\* A thread that does not step keeps FrameInv.
LEMMA FrameOther ==
  ASSUME FrameInv, NEW u \in Threads, stack'[u] = stack[u], clock'[u] = clock[u],
         NEW i \in 1..Len(stack'[u])
  PROVE  FrameAt(u, i)'
<1>1. FrameAt(u, i)
  BY DEF FrameInv, FrameAt, Depth
<1> QED BY <1>1 DEF FrameAt, Until, Depth

\* FrameInv, frame by frame.
LEMMA FrameByFrame ==
  ASSUME \A u \in Threads : \A i \in 1..Len(stack'[u]) : FrameAt(u, i)'
  PROVE  FrameInv'
BY DEF FrameInv, FrameAt, Depth

\* An instruction is charged to the innermost frame.
LEMMA RunFrame ==
  ASSUME TypeOK, FrameInv, NEW t \in Threads, Run(t)
  PROVE  FrameInv'
<1> DEFINE n == Len(stack[t])
<1>1. /\ clock'[t] = clock[t] + 1 /\ clock[t] \in Nat
      /\ \A u \in Threads \ {t} : clock'[u] = clock[u]
  BY ThreadTypes DEF Run
<1>2. CASE stack[t] = <<>>
  <2>1. stack' = stack
    BY <1>2 DEF Run
  <2>2. ASSUME NEW u \in Threads, NEW i \in 1..Len(stack'[u]) PROVE FrameAt(u, i)'
    <3>1. u # t
      BY <1>2, <2>1, <2>2
    <3> QED BY <1>1, <2>1, <3>1, FrameOther
  <2> QED BY <2>2, FrameByFrame
<1>3. CASE stack[t] # <<>>
  <2>1. /\ n \in Nat \ {0} /\ Len(stack'[t]) = n
        /\ stack' = [stack EXCEPT ![t] = stack'[t]]
        /\ \A i \in 1..(n - 1) : stack'[t][i] = stack[t][i]
        /\ SameInstance(stack[t][n], stack'[t][n])
        /\ stack'[t][n].own = stack[t][n].own + 1
        /\ stack'[t][n].kids = stack[t][n].kids
    BY <1>3, RunShape
  <2>2. ASSUME NEW u \in Threads, NEW i \in 1..Len(stack'[u]) PROVE FrameAt(u, i)'
    <3>1. CASE u # t
      BY <1>1, <2>1, <3>1, FrameOther, ThreadTypes
    <3>2. CASE u = t /\ i = n
      <4>1. FrameAt(t, n) /\ n \in 1..Len(stack[t]) /\ stack[t] \in Seq(Frame)
        BY <2>1, ThreadTypes DEF FrameInv, FrameAt, Depth
      <4>2. stack[t][n] \in Frame
        BY <4>1, ElementFrame
      <4>3. stack[t][n].total \in Nat /\ stack[t][n].kids \in Int /\ stack[t][n].own \in Nat
        BY <4>2, FrameFields
      <4>4. stack[t][n].own = clock[t] - stack[t][n].total - stack[t][n].kids
            /\ stack[t][n].kids >= 0
        BY <4>1 DEF FrameAt, Until, Depth
      <4>5. stack'[t][n].total = stack[t][n].total
        BY <2>1 DEF SameInstance
      <4>6. Until(t, i)' = clock'[t]
        BY <1>1, <2>1, <3>2 DEF Until, Depth
      <4>7. stack'[t][n].kids >= 0
            /\ stack'[t][n].own = clock'[t] - stack'[t][n].total - stack'[t][n].kids
        <5> DEFINE g == stack[t][n]
                   h == stack'[t][n]
        <5>1. /\ g.total \in Nat /\ g.kids \in Int /\ g.own = clock[t] - g.total - g.kids
              /\ h.total = g.total /\ h.kids = g.kids /\ h.own = g.own + 1 /\ h.kids >= 0
          BY <2>1, <4>3, <4>4, <4>5
        <5> HIDE DEF g, h
        <5>2. h.own = clock'[t] - h.total - h.kids
          BY <1>1, <5>1
        <5> QED BY <5>1, <5>2 DEF h
      <4>8. /\ stack'[t][i].kids >= 0
            /\ stack'[t][i].own = clock'[t] - stack'[t][i].total - stack'[t][i].kids
        BY <3>2, <4>7
      <4>9. FrameAt(t, i)'
        BY <4>6, <4>8 DEF FrameAt
      <4> QED BY <3>2, <4>9
    <3>3. CASE u = t /\ i # n
      <4>1. i \in 1..(n - 1) /\ i \in 1..Len(stack[t]) /\ i + 1 \in 1..n
        BY <2>1, <3>3
      <4>2. FrameAt(t, i)
        BY <4>1 DEF FrameInv, FrameAt, Depth
      <4>3. stack'[t][i] = stack[t][i]
        BY <2>1, <4>1
      <4>4. stack'[t][i + 1].total = stack[t][i + 1].total
        <5>1. i + 1 = n \/ i + 1 \in 1..(n - 1)
          BY <2>1, <4>1
        <5> QED BY <2>1, <5>1 DEF SameInstance
      <4>5. Until(t, i)' = Until(t, i)
        BY <2>1, <3>3, <4>4 DEF Until, Depth
      <4> QED BY <3>3, <4>2, <4>3, <4>5 DEF FrameAt
    <3> QED BY <3>1, <3>2, <3>3
  <2> QED BY <2>2, FrameByFrame
<1> QED BY <1>2, <1>3

\* A declared state costs no frame anything.
LEMMA StateFrame ==
  ASSUME TypeOK, FrameInv, NEW t \in Threads, State(t)
  PROVE  FrameInv'
<1> DEFINE n == Len(stack[t])
<1>1. clock' = clock
  BY DEF State
<1>2. /\ n \in Nat \ {0} /\ Len(stack'[t]) = n
      /\ stack' = [stack EXCEPT ![t] = stack'[t]]
      /\ \A i \in 1..(n - 1) : stack'[t][i] = stack[t][i]
      /\ SameInstance(stack[t][n], stack'[t][n])
      /\ stack'[t][n].own = stack[t][n].own
      /\ stack'[t][n].kids = stack[t][n].kids
  BY StateShape
<1>3. ASSUME NEW u \in Threads, NEW i \in 1..Len(stack'[u]) PROVE FrameAt(u, i)'
  <2>1. CASE u # t
    BY <1>1, <1>2, <2>1, FrameOther, ThreadTypes
  <2>2. CASE u = t
    <3>1. FrameAt(t, i)
      BY <1>2, <2>2 DEF FrameInv, FrameAt, Depth
    <3>2. \A j \in 1..n : j = n \/ j \in 1..(n - 1)
      BY <1>2
    <3>3. /\ stack'[t][i].own = stack[t][i].own /\ stack'[t][i].kids = stack[t][i].kids
          /\ \A j \in 1..n : stack'[t][j].total = stack[t][j].total
      BY <1>2, <2>2, <3>2 DEF SameInstance
    <3>4. i # n => i + 1 \in 1..n
      BY <1>2, <2>2
    <3>5. Until(t, i)' = Until(t, i)
      BY <1>1, <1>2, <3>3, <3>4 DEF Until, Depth
    <3>6. i \in 1..n
      BY <1>2, <2>2
    <3> QED BY <2>2, <3>1, <3>3, <3>5, <3>6 DEF FrameAt
  <2> QED BY <2>1, <2>2
<1> QED BY <1>3, FrameByFrame

\* A new frame has run nothing, and the one below stops running.
LEMMA BeginFrame ==
  ASSUME TypeOK, FrameInv, NEW t \in Threads, NEW k \in Keys, Begin(t, k)
  PROVE  FrameInv'
<1> DEFINE n == Len(stack[t])
<1>1. clock' = clock
  BY DEF Begin
<1>2. CASE ~HasRoom(t)
  <2>1. stack' = stack
    BY <1>2 DEF Begin
  <2> QED BY <1>1, <2>1, FrameOther, FrameByFrame
<1>3. CASE HasRoom(t)
  <2>1. /\ n \in Nat /\ Len(stack'[t]) = n + 1
        /\ stack' = [stack EXCEPT ![t] = stack'[t]]
        /\ \A i \in 1..n : stack'[t][i] = stack[t][i]
        /\ stack'[t][n + 1].total = clock[t] /\ stack'[t][n + 1].kids = 0
        /\ stack'[t][n + 1].own = 0
    BY <1>3, BeginShape
  <2>2. ASSUME NEW u \in Threads, NEW i \in 1..Len(stack'[u]) PROVE FrameAt(u, i)'
    <3>1. CASE u # t
      BY <1>1, <2>1, <3>1, FrameOther, ThreadTypes
    <3>2. CASE u = t /\ i = n + 1
      <4>1. Until(t, i)' = clock[t] /\ clock[t] \in Nat
        BY <1>1, <2>1, <3>2, ThreadTypes DEF Until, Depth
      <4>2. 0 >= 0 /\ 0 = clock[t] - clock[t] - 0
        BY <4>1
      <4> HIDE DEF n
      <4> QED BY <2>1, <3>2, <4>1, <4>2 DEF FrameAt
    <3>3. CASE u = t /\ i # n + 1
      <4>1. i \in 1..n
        BY <2>1, <3>3
      <4>2. FrameAt(t, i) /\ stack'[t][i] = stack[t][i]
        BY <2>1, <4>1 DEF FrameInv, FrameAt, Depth
      <4>3. Until(t, i)' = stack'[t][i + 1].total
        BY <2>1, <3>3 DEF Until, Depth
      <4>4. Until(t, i)' = Until(t, i)
        <5>1. CASE i = n
          BY <2>1, <4>3, <5>1 DEF Until, Depth
        <5>2. CASE i # n
          <6>1. i + 1 \in 1..n
            BY <2>1, <4>1, <5>2
          <6> QED BY <2>1, <4>3, <5>2, <6>1 DEF Until, Depth
        <5> QED BY <5>1, <5>2
      <4> QED BY <3>3, <4>2, <4>4 DEF FrameAt
    <3> QED BY <3>1, <3>2, <3>3
  <2> QED BY <2>2, FrameByFrame
<1> QED BY <1>2, <1>3

\* What the closed frame is worth.
LEMMA CloseWorth ==
  ASSUME TypeOK, ClosingInv, FrameInv, NEW t \in Threads, Close(t)
  PROVE  LET n == Len(stack[t])
             f == stack[t][n]
         IN  /\ n \in Nat \ {0} /\ f \in Frame
             /\ f.kids >= 0 /\ f.own = clock[t] - f.total - f.kids
             /\ clock[t] - f.total >= 0
<1> DEFINE n == Len(stack[t])
           f == stack[t][n]
<1>1. n \in Nat \ {0} /\ f \in Frame /\ clock[t] \in Nat
  BY CloseShape, ThreadTypes
<1>2. n \in 1..Depth(t)
  BY <1>1 DEF Depth
<1>3. f.kids >= 0 /\ f.own = clock[t] - f.total - f.kids
  BY <1>1, <1>2 DEF FrameInv, Until, Depth
<1>4. f.kids \in Int /\ f.own \in Nat /\ f.total \in Nat
  BY <1>1, FrameFields
<1> HIDE DEF n, f
<1>5. clock[t] - f.total >= 0
  BY <1>1, <1>3, <1>4
<1> QED BY <1>1, <1>3, <1>5 DEF n, f

\* The frame below is charged all that the closed one took.
LEMMA CloseFrame ==
  ASSUME TypeOK, ClosingInv, FrameInv, NEW t \in Threads, Close(t)
  PROVE  FrameInv'
<1> DEFINE n == Len(stack[t])
           f == stack[t][n]
<1>1. clock' = clock /\ clock[t] \in Nat
  BY ThreadTypes DEF Close
<1>2. /\ n \in Nat \ {0} /\ f \in Frame /\ Len(stack'[t]) = n - 1
      /\ stack' = [stack EXCEPT ![t] = stack'[t]]
      /\ \A i \in 1..(n - 2) : stack'[t][i] = stack[t][i]
      /\ n > 1 => /\ SameInstance(stack[t][n - 1], stack'[t][n - 1])
                  /\ stack'[t][n - 1].own = stack[t][n - 1].own
                  /\ stack'[t][n - 1].kids = stack[t][n - 1].kids + (clock[t] - f.total)
  BY CloseShape
<1>3. clock[t] - f.total >= 0 /\ f.total \in Nat
  BY <1>2, CloseWorth, FrameFields
<1>4. ASSUME NEW u \in Threads, NEW i \in 1..Len(stack'[u]) PROVE FrameAt(u, i)'
  <2>1. CASE u # t
    BY <1>1, <1>2, <2>1, FrameOther, ThreadTypes
  <2>2. CASE u = t /\ i = n - 1
    <3> DEFINE g == stack[t][n - 1]
               h == stack'[t][n - 1]
    <3>1. n > 1 /\ n - 1 \in 1..Len(stack[t])
      BY <1>2, <2>2
    <3>2. g.kids >= 0 /\ g.own = f.total - g.total - g.kids
      <4>1. n - 1 # n /\ (n - 1) + 1 = n
        BY <1>2
      <4> QED BY <3>1, <4>1 DEF FrameInv, Until, Depth
    <3>3. g.kids \in Int /\ g.total \in Nat
      BY <3>1, ElementFrame, FrameFields, ThreadTypes
    <3>4. h.total = g.total /\ h.own = g.own /\ h.kids = g.kids + (clock[t] - f.total)
      BY <1>2, <3>1 DEF SameInstance
    <3>5. Until(t, i)' = clock[t]
      BY <1>1, <1>2, <2>2 DEF Until, Depth
    <3>6. h.kids >= 0 /\ h.own = clock[t] - h.total - h.kids
      <4> HIDE DEF g, h, f
      <4> QED BY <1>1, <1>3, <3>2, <3>3, <3>4
    <3> HIDE DEF n
    <3> QED BY <2>2, <3>5, <3>6 DEF FrameAt
  <2>3. CASE u = t /\ i # n - 1
    <3>1. i \in 1..(n - 2) /\ i \in 1..Len(stack[t]) /\ i # n /\ n > 1
      BY <1>2, <2>3
    <3>2. FrameAt(t, i)
      BY <3>1 DEF FrameInv, FrameAt, Depth
    <3>3. stack'[t][i] = stack[t][i]
      BY <1>2, <3>1
    <3>4. stack'[t][i + 1].total = stack[t][i + 1].total
      <4>1. i + 1 = n - 1 \/ i + 1 \in 1..(n - 2)
        BY <1>2, <3>1
      <4> QED BY <1>2, <3>1, <4>1 DEF SameInstance
    <3>5. Until(t, i)' = Until(t, i)
      BY <1>2, <2>3, <3>1, <3>4 DEF Until, Depth
    <3> QED BY <2>3, <3>2, <3>3, <3>5 DEF FrameAt
  <2> QED BY <2>1, <2>2, <2>3
<1> QED BY <1>4, FrameByFrame

\* The record of a close says what the frame ran.
LEMMA CloseSelf ==
  ASSUME TypeOK, ClosingInv, FrameInv, SelfIsOwn, NEW t \in Threads, Close(t)
  PROVE  SelfIsOwn'
<1> DEFINE n == Len(stack[t])
           f == stack[t][n]
<1>1. ASSUME NEW u \in Threads, NEW r \in trace'[u]
      PROVE  r.self = r.own /\ r.incl >= r.self
  <2>1. CASE r \in trace[u]
    BY <2>1 DEF SelfIsOwn
  <2>2. CASE r \notin trace[u]
    <3>1. /\ r.own = f.own /\ r.incl = clock[t] - f.total /\ r.self = r.incl - f.kids
      BY <2>2, CloseTrace
    <3>2. /\ f \in Frame /\ f.kids >= 0 /\ f.own = clock[t] - f.total - f.kids
      BY CloseWorth
    <3>3. f.kids \in Int /\ f.total \in Nat /\ clock[t] \in Nat
      BY <3>2, FrameFields, ThreadTypes
    <3> HIDE DEF f
    <3> QED BY <3>1, <3>2, <3>3
  <2> QED BY <2>1, <2>2
<1> QED BY <1>1 DEF SelfIsOwn

-----------------------------------------------------------------------------
(***************************************************************************)
(* Sequence numbers: TraceInv.                                             *)
(***************************************************************************)
\* What TraceInv reads of a frame does not change.
KeepsNumbers ==
  \A u \in Threads :
    /\ Len(stack'[u]) = Len(stack[u])
    /\ \A i \in 1..Len(stack[u]) : /\ stack'[u][i].seq = stack[u][i].seq
                                   /\ stack'[u][i].above = stack[u][i].above

\* Instructions and declared states move no sequence number.
LEMMA QuietNumbers ==
  ASSUME TypeOK, NEW t \in Threads, Run(t) \/ State(t)
  PROVE  KeepsNumbers
<1> DEFINE n == Len(stack[t])
<1>1. CASE stack' = stack
  BY <1>1 DEF KeepsNumbers
<1>2. CASE stack' # stack
  <2>1. /\ n \in Nat \ {0} /\ Len(stack'[t]) = n
        /\ stack' = [stack EXCEPT ![t] = stack'[t]]
        /\ \A i \in 1..(n - 1) : stack'[t][i] = stack[t][i]
        /\ SameInstance(stack[t][n], stack'[t][n])
    <3>1. CASE Run(t)
      <4>1. stack[t] # <<>>
        BY <1>2, <3>1 DEF Run
      <4> QED BY <3>1, <4>1, RunShape
    <3>2. CASE State(t)
      BY <3>2, StateShape
    <3> QED BY <3>1, <3>2
  <2>2. \A i \in 1..n : i = n \/ i \in 1..(n - 1)
    BY <2>1
  <2>3. \A i \in 1..n : /\ stack'[t][i].seq = stack[t][i].seq
                        /\ stack'[t][i].above = stack[t][i].above
    BY <2>1, <2>2 DEF SameInstance
  <2>4. \A u \in Threads \ {t} : stack'[u] = stack[u]
    BY <2>1, ThreadTypes
  <2> QED BY <2>1, <2>3, <2>4 DEF KeepsNumbers
<1> QED BY <1>1, <1>2

\* The sequence numbers below a frame, when the stack keeps its own.
LEMMA BelowSame ==
  ASSUME NEW s, NEW r, NEW n \in Nat, NEW i \in 1..(n + 1),
         \A j \in 1..n : r[j].seq = s[j].seq
  PROVE  Below(r, i) = Below(s, i)
<1>1. \A j \in 1..(i - 1) : j \in 1..n
  OBVIOUS
<1>2. \A j \in 1..(i - 1) : r[j].seq = s[j].seq
  BY <1>1
<1> QED BY <1>2 DEF Below

\* A step that moves no number, record or end keeps TraceInv.
LEMMA TraceSame ==
  ASSUME TypeOK, TraceInv, KeepsNumbers,
         UNCHANGED <<seq, closing, trace>>
  PROVE  TraceInv'
<1> SUFFICES ASSUME TraceLimit > 0
             PROVE  /\ SeqInv' /\ RecordInv' /\ OpenInv' /\ UniqueInv'
                    /\ NestingIsAncestry' /\ BeginsUnique'
  BY DEF TraceInv
<1>1. SeqInv /\ RecordInv /\ OpenInv /\ UniqueInv /\ NestingIsAncestry /\ BeginsUnique
  BY DEF TraceInv
<1>2. \A u \in Threads : Depth(u)' = Depth(u) /\ Depth(u) \in Nat
  BY ThreadTypes DEF KeepsNumbers, Depth
<1>3. \A u \in Threads : \A i \in 1..Depth(u) :
        stack'[u][i].seq = stack[u][i].seq /\ stack'[u][i].above = stack[u][i].above
  BY DEF KeepsNumbers, Depth
<1>4. SeqInv'
  <2>1. ASSUME NEW u \in Threads, NEW i \in 1..Depth(u)
        PROVE  stack'[u][i].above = Below(stack'[u], i)
    <3>1. stack[u][i].above = Below(stack[u], i)
      BY <1>1 DEF SeqInv
    <3>2. Below(stack'[u], i) = Below(stack[u], i)
      <4>1. Depth(u) \in Nat /\ i \in 1..(Depth(u) + 1)
        BY <1>2
      <4>2. \A j \in 1..Depth(u) : stack'[u][j].seq = stack[u][j].seq
        BY <1>3
      <4> QED BY ONLY <4>1, <4>2, BelowSame
    <3> QED BY <1>3, <3>1, <3>2
  <2> QED BY <1>1, <1>2, <1>3, <2>1 DEF SeqInv
<1>5. RecordInv'
  BY <1>1 DEF RecordInv
<1>6. OpenInv'
  BY <1>1, <1>2, <1>3 DEF OpenInv
<1>7. UniqueInv'
  BY <1>1, <1>2, <1>3 DEF UniqueInv
<1>8. NestingIsAncestry' /\ BeginsUnique'
  BY <1>1 DEF NestingIsAncestry, BeginsUnique, Inside
<1> QED BY <1>4, <1>5, <1>6, <1>7, <1>8

\* A begin takes a number after all others.
LEMMA BeginTrace ==
  ASSUME TypeOK, TraceInv, NEW t \in Threads, NEW k \in Keys, Begin(t, k)
  PROVE  TraceInv'
<1> DEFINE n == Len(stack[t])
<1>1. CASE ~HasRoom(t)
  <2>1. stack' = stack /\ UNCHANGED <<seq, closing, trace>>
    BY <1>1 DEF Begin
  <2>2. KeepsNumbers
    BY <2>1 DEF KeepsNumbers
  <2> QED BY <2>1, <2>2, TraceSame
<1>2. CASE HasRoom(t)
  <2> SUFFICES ASSUME TraceLimit > 0
               PROVE  /\ SeqInv' /\ RecordInv' /\ OpenInv' /\ UniqueInv'
                      /\ NestingIsAncestry' /\ BeginsUnique'
    BY DEF TraceInv
  <2>1. SeqInv /\ RecordInv /\ OpenInv /\ UniqueInv /\ NestingIsAncestry /\ BeginsUnique
    BY DEF TraceInv
  <2>2. /\ n \in Nat /\ Len(stack'[t]) = n + 1
        /\ stack' = [stack EXCEPT ![t] = stack'[t]]
        /\ \A i \in 1..n : stack'[t][i] = stack[t][i]
        /\ stack'[t][n + 1].seq = seq + 1
        /\ stack'[t][n + 1].above = Below(stack[t], n + 1)
    BY <1>2, BeginShape DEF NextSeq
  <2>3. /\ seq \in Nat /\ seq' = seq + 1 /\ closing' = closing /\ trace' = trace
        /\ closing[t] = Idle
    BY <1>2 DEF Begin, NextSeq, TypeOK, Outside
  <2>4. \A u \in Threads : Depth(u) \in Nat
    BY ThreadTypes DEF Depth
  <2>5. \A u \in Threads \ {t} : stack'[u] = stack[u] /\ Depth(u)' = Depth(u)
    BY <2>2, ThreadTypes DEF Depth
  <2>6. Depth(t) = n /\ Depth(t)' = n + 1
    BY <2>2 DEF Depth
  <2>7. ASSUME NEW u \in Threads, NEW i \in 1..Depth(u)
        PROVE  stack'[u][i] = stack[u][i] /\ stack[u][i].seq \in Nat /\ stack[u][i].seq <= seq
    <3>1. stack[u][i].seq \in Nat
      BY ThreadTypes, ElementFrame, FrameFields DEF Depth
    <3> QED BY <2>1, <2>2, <2>5, <2>6, <3>1 DEF SeqInv
  <2>8. \A u \in Threads : \A i \in 1..Depth(u)' :
          i \in 1..Depth(u) \/ (u = t /\ i = n + 1)
    BY <2>2, <2>5, <2>6
  <2> DEFINE b == stack'[t][n + 1].seq
  <2>9. b = seq + 1 /\ \A u \in Threads : \A i \in 1..Depth(u) : stack[u][i].seq < b
    BY <2>2, <2>3, <2>7
  <2>10. ASSUME NEW u \in Threads, NEW r \in trace[u]
         PROVE  r.seq \in Nat /\ r.end \in Nat /\ r.seq < r.end /\ r.end < b /\ b \notin r.above
    <3>1. r \in Record
      BY ThreadTypes
    <3>2. r.seq \in Nat /\ r.end \in Nat
      BY <3>1 DEF Record
    <3>3. r.seq < r.end /\ r.end <= seq /\ \A x \in r.above : x < r.seq
      BY <2>1 DEF RecordInv
    <3>4. ~(b < r.seq)
      BY <2>3, <2>9, <3>2, <3>3
    <3> QED BY <2>3, <2>9, <3>2, <3>3, <3>4
  <2> HIDE DEF b
  <2>11. SeqInv'
    <3>1. ASSUME NEW u \in Threads, NEW i \in 1..Depth(u)'
          PROVE  /\ stack'[u][i].seq <= seq'
                 /\ closing'[u] # Idle => stack'[u][i].seq < closing'[u].end
                 /\ stack'[u][i].above = Below(stack'[u], i)
      <4>1. CASE i \in 1..Depth(u)
        <5>1. /\ closing[u] # Idle => stack[u][i].seq < closing[u].end
              /\ stack[u][i].above = Below(stack[u], i)
          BY <2>1, <4>1 DEF SeqInv
        <5>2. Below(stack'[u], i) = Below(stack[u], i)
          <6>1. Depth(u) \in Nat /\ i \in 1..(Depth(u) + 1)
            BY <2>4, <4>1
          <6>2. \A j \in 1..Depth(u) : stack'[u][j].seq = stack[u][j].seq
            BY <2>7
          <6> QED BY ONLY <6>1, <6>2, BelowSame
        <5>3. stack'[u][i] = stack[u][i] /\ stack'[u][i].seq <= seq'
          BY <2>3, <2>7, <4>1
        <5> QED BY <2>3, <5>1, <5>2, <5>3
      <4>2. CASE u = t /\ i = n + 1
        <5>1. i - 1 = n
          BY <2>2, <4>2
        <5>2. Below(stack'[t], n + 1) = Below(stack[t], n + 1)
          <6>1. \A j \in 1..n : stack'[t][j].seq = stack[t][j].seq
            BY <2>2
          <6>2. n \in Nat /\ n + 1 \in 1..(n + 1)
            BY <2>2
          <6> QED BY ONLY <6>1, <6>2, BelowSame
        <5>3. stack'[u][i].seq <= seq'
          BY <2>3, <2>9, <4>2 DEF b
        <5> QED BY <2>2, <2>3, <4>2, <5>1, <5>2, <5>3
      <4> QED BY <2>8, <4>1, <4>2
    <3>2. ASSUME NEW u \in Threads, NEW i \in 1..Depth(u)', NEW j \in 1..Depth(u)', i < j
          PROVE  stack'[u][i].seq < stack'[u][j].seq
      <4>1. CASE j \in 1..Depth(u)
        <5>1. i \in 1..Depth(u)
          BY <2>4, <3>2, <4>1
        <5> QED BY <2>1, <2>7, <3>2, <4>1, <5>1 DEF SeqInv
      <4>2. CASE u = t /\ j = n + 1
        <5>1. i \in 1..Depth(u)
          BY <2>2, <2>6, <3>2, <4>2
        <5>2. stack'[u][i].seq < b
          BY <2>7, <2>9, <5>1
        <5> QED BY <4>2, <5>2 DEF b
      <4> QED BY <2>8, <4>1, <4>2
    <3>3. \A u \in Threads : closing'[u].end <= seq'
      <4>1. \A u \in Threads : closing[u].end \in Nat /\ closing[u].end <= seq
        BY <2>1, ThreadTypes DEF SeqInv
      <4> QED BY <2>3, <4>1
    <3> QED BY <3>1, <3>2, <3>3 DEF SeqInv
  <2>12. RecordInv'
    <3>1. \A u \in Threads : \A r \in trace[u] : r.end <= seq'
      BY <2>3, <2>9, <2>10
    <3> QED BY <2>1, <2>3, <3>1 DEF RecordInv
  <2>13. OpenInv'
    <3>1. ASSUME NEW u \in Threads, NEW r \in trace[u], NEW i \in 1..Depth(u)'
          PROVE  IF stack'[u][i].seq \in r.above THEN stack'[u][i].seq < r.seq
                 ELSE r.end < stack'[u][i].seq
      <4>1. CASE i \in 1..Depth(u)
        BY <2>1, <2>7, <4>1 DEF OpenInv
      <4>2. CASE u = t /\ i = n + 1
        BY <2>10, <4>2 DEF b
      <4> QED BY <2>8, <4>1, <4>2
    <3> QED BY <2>3, <3>1 DEF OpenInv
  <2>14. UniqueInv'
    <3>1. ASSUME NEW u \in Threads, NEW v \in Threads,
                 NEW i \in 1..Depth(u)', NEW j \in 1..Depth(v)',
                 stack'[u][i].seq = stack'[v][j].seq
          PROVE  u = v /\ i = j
      <4>1. CASE i \in 1..Depth(u) /\ j \in 1..Depth(v)
        BY <2>1, <2>7, <3>1, <4>1 DEF UniqueInv
      <4>2. CASE i \in 1..Depth(u) /\ v = t /\ j = n + 1
        <5>1. stack[u][i].seq = b /\ stack[u][i].seq < b
          BY <2>7, <2>9, <3>1, <4>2 DEF b
        <5> QED BY <2>3, <2>9, <5>1
      <4>3. CASE u = t /\ i = n + 1 /\ j \in 1..Depth(v)
        <5>1. stack[v][j].seq = b /\ stack[v][j].seq < b
          BY <2>7, <2>9, <3>1, <4>3 DEF b
        <5> QED BY <2>3, <2>9, <5>1
      <4> QED BY <2>8, <4>1, <4>2, <4>3
    <3>2. ASSUME NEW u \in Threads, NEW v \in Threads,
                 NEW i \in 1..Depth(u)', NEW r \in trace[v]
          PROVE  stack'[u][i].seq # r.seq
      <4>1. CASE i \in 1..Depth(u)
        BY <2>1, <2>7, <4>1 DEF UniqueInv
      <4>2. CASE u = t /\ i = n + 1
        <5>1. r.seq \in Nat /\ r.end \in Nat /\ r.seq < r.end /\ r.end < b
          BY <2>10
        <5>2. r.seq # b
          BY <2>3, <2>9, <5>1
        <5> QED BY <4>2, <5>2 DEF b
      <4> QED BY <2>8, <4>1, <4>2
    <3> QED BY <2>3, <3>1, <3>2 DEF UniqueInv
  <2>15. NestingIsAncestry' /\ BeginsUnique'
    BY <2>1, <2>3 DEF NestingIsAncestry, BeginsUnique, Inside
  <2> QED BY <2>11, <2>12, <2>13, <2>14, <2>15
<1> QED BY <1>1, <1>2

\* The number of an end, or of an exit, comes after all others.
LEMMA EndedTrace ==
  ASSUME TypeOK, TraceInv, NEW t \in Threads, UNCHANGED <<stack, trace>>,
         closing[t] = Idle, seq' \in Nat, seq' >= seq,
         \A u \in Threads \ {t} : closing'[u] = closing[u],
         \/ closing'[t] = Idle
         \/ TraceLimit > 0 => closing'[t].end = seq + 1 /\ seq' = seq + 1
  PROVE  TraceInv'
<1> SUFFICES ASSUME TraceLimit > 0
             PROVE  /\ SeqInv' /\ RecordInv' /\ OpenInv' /\ UniqueInv'
                    /\ NestingIsAncestry' /\ BeginsUnique'
  BY DEF TraceInv
<1>1. SeqInv /\ RecordInv /\ OpenInv /\ UniqueInv /\ NestingIsAncestry /\ BeginsUnique
  BY DEF TraceInv
<1>2. \A u \in Threads : Depth(u)' = Depth(u)
  BY DEF Depth
<1>3. seq \in Nat
  BY DEF TypeOK
<1>4. \/ closing'[t] = Idle
      \/ closing'[t].end = seq + 1 /\ seq' = seq + 1
  OBVIOUS
<1>5. SeqInv'
  <2>1. ASSUME NEW u \in Threads, NEW i \in 1..Depth(u)
        PROVE  /\ stack[u][i].seq <= seq'
               /\ closing'[u] # Idle => stack[u][i].seq < closing'[u].end
    <3>1. stack[u][i].seq \in Nat
      BY ThreadTypes, ElementFrame, FrameFields DEF Depth
    <3>2. /\ stack[u][i].seq <= seq
          /\ closing[u] # Idle => stack[u][i].seq < closing[u].end
      BY <1>1 DEF SeqInv
    <3>3. stack[u][i].seq <= seq'
      BY <1>3, <3>1, <3>2
    <3>4. CASE u = t
      <4>1. stack[u][i].seq < seq + 1
        BY <1>3, <3>1, <3>2
      <4> QED BY <1>4, <3>3, <3>4, <4>1
    <3>5. CASE u # t
      BY <3>2, <3>3, <3>5
    <3> QED BY <3>4, <3>5
  <2>2. ASSUME NEW u \in Threads PROVE closing'[u].end <= seq'
    <3>1. closing[u].end \in Nat /\ closing[u].end <= seq
      BY <1>1, ThreadTypes DEF SeqInv
    <3>2. closing[u].end <= seq'
      BY <1>3, <3>1
    <3> QED BY <1>3, <1>4, <3>2
  <2> QED BY <1>1, <1>2, <2>1, <2>2 DEF SeqInv
<1>6. RecordInv'
  <2>1. ASSUME NEW u \in Threads, NEW r \in trace[u]
        PROVE  /\ r.seq < r.end /\ r.end <= seq'
               /\ \A x \in r.above : x < r.seq
               /\ closing'[u] # Idle => r.end <= closing'[u].end
    <3>1. r \in Record
      BY ThreadTypes
    <3>2. r.end \in Nat
      BY <3>1 DEF Record
    <3>3. /\ r.seq < r.end /\ r.end <= seq
          /\ \A x \in r.above : x < r.seq
          /\ closing[u] # Idle => r.end <= closing[u].end
      BY <1>1 DEF RecordInv
    <3>4. r.end <= seq' /\ r.end <= seq + 1
      BY <1>3, <3>2, <3>3
    <3> QED BY <1>4, <3>3, <3>4
  <2> QED BY <2>1 DEF RecordInv
<1>7. OpenInv' /\ UniqueInv'
  BY <1>1, <1>2 DEF OpenInv, UniqueInv
<1>8. NestingIsAncestry' /\ BeginsUnique'
  BY <1>1 DEF NestingIsAncestry, BeginsUnique, Inside
<1> QED BY <1>5, <1>6, <1>7, <1>8

\* What a close leaves: the frames below, with their numbers.
LEMMA CloseNumbers ==
  ASSUME TypeOK, ClosingInv, NEW t \in Threads, Close(t)
  PROVE  LET n == Len(stack[t])
         IN  /\ n \in Nat \ {0} /\ Depth(t) = n /\ Depth(t)' = n - 1
             /\ \A u \in Threads \ {t} : Depth(u)' = Depth(u)
             /\ \A u \in Threads : \A i \in 1..Depth(u)' :
                  /\ i \in 1..Depth(u) /\ (u = t => i < n)
                  /\ stack'[u][i].seq = stack[u][i].seq
                  /\ stack'[u][i].above = stack[u][i].above
<1> DEFINE n == Len(stack[t])
<1>1. /\ n \in Nat \ {0} /\ Len(stack'[t]) = n - 1
      /\ stack' = [stack EXCEPT ![t] = stack'[t]]
      /\ \A i \in 1..(n - 2) : stack'[t][i] = stack[t][i]
      /\ n > 1 => SameInstance(stack[t][n - 1], stack'[t][n - 1])
  BY CloseShape
<1>2. \A u \in Threads \ {t} : stack'[u] = stack[u] /\ Depth(u)' = Depth(u)
  BY <1>1, ThreadTypes DEF Depth
<1>3. Depth(t) = n /\ Depth(t)' = n - 1
  BY <1>1 DEF Depth
<1>4. ASSUME NEW u \in Threads, NEW i \in 1..Depth(u)'
      PROVE  /\ i \in 1..Depth(u) /\ (u = t => i < n)
             /\ stack'[u][i].seq = stack[u][i].seq
             /\ stack'[u][i].above = stack[u][i].above
  <2>1. CASE u # t
    BY <1>2, <2>1
  <2>2. CASE u = t
    <3>1. i \in 1..(n - 1) /\ i \in 1..n /\ i < n /\ n > 1
      BY <1>1, <1>3, <2>2
    <3>2. i = n - 1 \/ i \in 1..(n - 2)
      BY <1>1, <3>1
    <3>3. stack'[t][i].seq = stack[t][i].seq /\ stack'[t][i].above = stack[t][i].above
      BY <1>1, <3>1, <3>2 DEF SameInstance
    <3> QED BY <1>3, <2>2, <3>1, <3>3
  <2> QED BY <2>1, <2>2
<1> QED BY <1>1, <1>2, <1>3, <1>4

\* The record of a close takes its place among the records and the frames.
LEMMA CloseTraceInv ==
  ASSUME TypeOK, ClosingInv, TraceInv, NEW t \in Threads, Close(t)
  PROVE  TraceInv'
<1> DEFINE n == Len(stack[t])
           f == stack[t][n]
           e == closing[t].end
           Closes(r) == r.seq = f.seq /\ r.end = e /\ r.above = f.above
<1> SUFFICES ASSUME TraceLimit > 0
             PROVE  /\ SeqInv' /\ RecordInv' /\ OpenInv' /\ UniqueInv'
                    /\ NestingIsAncestry' /\ BeginsUnique'
  BY DEF TraceInv
<1>1. SeqInv /\ RecordInv /\ OpenInv /\ UniqueInv /\ NestingIsAncestry /\ BeginsUnique
  BY DEF TraceInv
<1>2. /\ n \in Nat \ {0} /\ Depth(t) = n /\ Depth(t)' = n - 1
      /\ \A u \in Threads \ {t} : Depth(u)' = Depth(u)
      /\ \A u \in Threads : \A i \in 1..Depth(u)' :
           /\ i \in 1..Depth(u) /\ (u = t => i < n)
           /\ stack'[u][i].seq = stack[u][i].seq
           /\ stack'[u][i].above = stack[u][i].above
  BY CloseNumbers
<1>3. n \in 1..Depth(t)
  BY <1>2
<1>4. f \in Frame /\ f.seq \in Nat /\ e \in Nat
  BY CloseShape, FrameFields, ThreadTypes
<1>5. /\ closing[t] # Idle /\ seq' = seq /\ seq \in Nat
      /\ \A u \in Threads : closing'[u] = closing[u] \/ closing'[u] = Idle
  BY DEF Close, TypeOK
<1>6. f.seq < e /\ e <= seq /\ f.above = {stack[t][j].seq : j \in 1..(n - 1)}
  BY <1>1, <1>3, <1>5 DEF SeqInv, Below
<1>7. \A j \in 1..(n - 1) : stack[t][j].seq < f.seq
  BY <1>1, <1>2 DEF SeqInv
<1>8. \A u \in Threads : \A r \in trace'[u] : r \in trace[u] \/ (u = t /\ Closes(r))
  BY CloseTrace
<1>9. ASSUME NEW u \in Threads, NEW r \in trace[u]
      PROVE  r.seq \in Nat /\ r.end \in Nat /\ r.seq < r.end
  <2>1. r \in Record
    BY ThreadTypes
  <2> QED BY <1>1, <2>1 DEF Record, RecordInv
<1> HIDE DEF n, f, e
<1>10. SeqInv'
  <2>1. ASSUME NEW u \in Threads, NEW i \in 1..Depth(u)'
        PROVE  /\ stack'[u][i].seq <= seq'
               /\ closing'[u] # Idle => stack'[u][i].seq < closing'[u].end
               /\ stack'[u][i].above = Below(stack'[u], i)
    <3>1. Below(stack'[u], i) = Below(stack[u], i)
      <4>1. Depth(u)' \in Nat /\ i \in 1..(Depth(u)' + 1)
        <5>1. Depth(u)' \in Nat
          BY <1>2, ThreadTypes DEF Depth
        <5> QED BY <5>1
      <4>2. \A j \in 1..Depth(u)' : stack'[u][j].seq = stack[u][j].seq
        BY <1>2
      <4> QED BY ONLY <4>1, <4>2, BelowSame
    <3>2. /\ stack[u][i].seq <= seq /\ stack[u][i].above = Below(stack[u], i)
          /\ closing[u] # Idle => stack[u][i].seq < closing[u].end
      BY <1>1, <1>2 DEF SeqInv
    <3>3. stack'[u][i].seq = stack[u][i].seq /\ stack'[u][i].above = stack[u][i].above
      BY <1>2
    <3> QED BY <1>5, <3>1, <3>2, <3>3
  <2>2. ASSUME NEW u \in Threads, NEW i \in 1..Depth(u)', NEW j \in 1..Depth(u)', i < j
        PROVE  stack'[u][i].seq < stack'[u][j].seq
    BY <1>1, <1>2, <2>2 DEF SeqInv
  <2>3. \A u \in Threads : closing'[u].end <= seq'
    <3>1. Idle.end = 0
      BY DEF Idle
    <3> QED BY <1>1, <1>5, <3>1 DEF SeqInv
  <2> QED BY <2>1, <2>2, <2>3 DEF SeqInv
<1>11. RecordInv'
  <2>1. ASSUME NEW u \in Threads, NEW r \in trace'[u]
        PROVE  /\ r.seq < r.end /\ r.end <= seq'
               /\ \A x \in r.above : x < r.seq
               /\ closing'[u] # Idle => r.end <= closing'[u].end
    <3>1. CASE r \in trace[u]
      BY <1>1, <1>5, <3>1 DEF RecordInv
    <3>2. CASE u = t /\ Closes(r)
      <4>1. \A x \in r.above : x < r.seq
        BY <1>6, <1>7, <3>2
      <4>2. closing'[u] # Idle => closing'[u].end = e
        BY <1>5, <3>2 DEF e
      <4> QED BY <1>4, <1>5, <1>6, <3>2, <4>1, <4>2
    <3> QED BY <1>8, <3>1, <3>2
  <2> QED BY <2>1 DEF RecordInv
<1>12. OpenInv'
  <2>1. ASSUME NEW u \in Threads, NEW r \in trace'[u], NEW i \in 1..Depth(u)'
        PROVE  IF stack'[u][i].seq \in r.above THEN stack'[u][i].seq < r.seq
               ELSE r.end < stack'[u][i].seq
    <3>1. CASE r \in trace[u]
      BY <1>1, <1>2, <3>1 DEF OpenInv
    <3>2. CASE u = t /\ Closes(r)
      <4>1. i \in 1..(n - 1)
        BY <1>2, <3>2
      <4> QED BY <1>2, <1>6, <1>7, <3>2, <4>1
    <3> QED BY <1>8, <3>1, <3>2
  <2> QED BY <2>1 DEF OpenInv
<1>13. UniqueInv'
  <2>1. ASSUME NEW u \in Threads, NEW v \in Threads,
               NEW i \in 1..Depth(u)', NEW j \in 1..Depth(v)',
               stack'[u][i].seq = stack'[v][j].seq
        PROVE  u = v /\ i = j
    BY <1>1, <1>2, <2>1 DEF UniqueInv
  <2>2. ASSUME NEW u \in Threads, NEW v \in Threads,
               NEW i \in 1..Depth(u)', NEW r \in trace'[v]
        PROVE  stack'[u][i].seq # r.seq
    <3>1. CASE r \in trace[v]
      BY <1>1, <1>2, <3>1 DEF UniqueInv
    <3>2. CASE v = t /\ Closes(r)
      <4>1. i \in 1..Depth(u) /\ (u = t => i < n) /\ n \in Nat
        BY <1>2
      <4>2. stack[u][i].seq = f.seq => u = t /\ i = n
        BY <1>1, <1>3, <4>1 DEF UniqueInv, f
      <4>3. stack[u][i].seq # f.seq
        BY <4>1, <4>2
      <4> QED BY <1>2, <3>2, <4>3
    <3> QED BY <1>8, <3>1, <3>2
  <2> QED BY <2>1, <2>2 DEF UniqueInv
<1>14. NestingIsAncestry'
  <2> DEFINE Within(r, p) == p.seq < r.seq /\ r.end <= p.end
  <2>1. ASSUME NEW u \in Threads, NEW p \in trace'[u], NEW r \in trace'[u]
        PROVE  Within(r, p) <=> p.seq \in r.above
    <3>1. CASE p \in trace[u] /\ r \in trace[u]
      BY <1>1, <3>1 DEF NestingIsAncestry, Inside
    <3>2. CASE u = t /\ Closes(p) /\ r \in trace[u]
      <4>1. r.seq \in Nat /\ r.end \in Nat /\ r.seq < r.end
        BY <1>9, <3>2
      <4>2. IF f.seq \in r.above THEN f.seq < r.seq ELSE r.end < f.seq
        BY <1>1, <1>3, <3>2 DEF OpenInv, f
      <4>3. r.end <= e
        BY <1>1, <1>5, <3>2 DEF RecordInv, e
      <4> QED BY <1>4, <3>2, <4>1, <4>2, <4>3
    <3>3. CASE u = t /\ p \in trace[u] /\ Closes(r)
      <4>1. p.seq \in Nat /\ p.end \in Nat /\ p.seq < p.end /\ p \in trace[t]
        BY <1>9, <3>3
      <4>2. IF f.seq \in p.above THEN f.seq < p.seq ELSE p.end < f.seq
        BY <1>1, <1>3, <4>1 DEF OpenInv, f
      <4>3. ~ Within(r, p)
        BY <1>4, <1>6, <3>3, <4>1, <4>2
      <4>4. \A j \in 1..Depth(t) : stack[t][j].seq # p.seq
        BY <1>1, <4>1 DEF UniqueInv
      <4>5. \A j \in 1..(n - 1) : j \in 1..Depth(t)
        BY <1>2
      <4>6. p.seq \notin f.above
        BY <1>6, <4>4, <4>5
      <4> QED BY <3>3, <4>3, <4>6
    <3>4. CASE u = t /\ Closes(p) /\ Closes(r)
      <4>1. ~ Within(r, p)
        BY <1>4, <3>4
      <4>2. f.seq \notin f.above
        BY <1>4, <1>6, <1>7
      <4> QED BY <3>4, <4>1, <4>2
    <3> QED BY <1>8, <3>1, <3>2, <3>3, <3>4
  <2> QED BY <2>1 DEF NestingIsAncestry, Inside
<1>15. BeginsUnique'
  <2>1. ASSUME NEW u \in Threads, NEW p \in trace'[u] PROVE p.seq < p.end
    BY <1>6, <1>8, <1>9
  <2>2. ASSUME NEW u \in Threads, NEW v \in Threads,
               NEW p \in trace'[u], NEW r \in trace'[v], p.seq = r.seq
        PROVE  u = v /\ p = r
    <3>1. CASE p \in trace[u] /\ r \in trace[v]
      BY <1>1, <2>2, <3>1 DEF BeginsUnique
    <3> \A x \in Threads : \A q \in trace[x] : q.seq # f.seq
      BY <1>1, <1>3 DEF UniqueInv, f
    <3>2. CASE u = t /\ Closes(p) /\ r \in trace[v]
      BY <2>2, <3>2
    <3>3. CASE p \in trace[u] /\ v = t /\ Closes(r)
      BY <2>2, <3>3
    <3>4. CASE u = t /\ v = t /\ p \notin trace[t] /\ r \notin trace[t]
      BY <3>4, CloseTrace
    <3> QED BY <1>8, <3>1, <3>2, <3>3, <3>4
  <2> QED BY <2>1, <2>2 DEF BeginsUnique
<1> QED BY <1>10, <1>11, <1>12, <1>13, <1>14, <1>15

-----------------------------------------------------------------------------
(***************************************************************************)
(* The inductive invariant.                                                *)
(***************************************************************************)
\* The initial states satisfy IInv.
LEMMA InitIInv ==
  ASSUME Init
  PROVE  IInv
<1>1. \A t \in Threads : Depth(t) = 0
  BY DEF Init, Depth
<1>2. TypeOK
  <2>1. closing \in [Threads -> [to : Nat, end : Nat]]
    BY DEF Init, Idle
  <2>2. \A t \in Threads : Depth(t) <= MaxDepth /\ closing[t].to <= Depth(t)
    BY <1>1, BoundsAssumption DEF Init, Idle
  <2>3. stack \in [Threads -> Seq(Frame)] /\ nest \in [Threads -> Seq(Keys)]
    BY DEF Init
  <2> QED BY <2>1, <2>2, <2>3 DEF Init, TypeOK
<1>3. ClosingInv /\ FrameInv /\ SelfIsOwn
  BY <1>1 DEF Init, ClosingInv, FrameInv, SelfIsOwn
<1>4. SeqInv
  <2>1. \A t \in Threads : closing[t].end <= seq
    BY DEF Init, Idle
  <2> QED BY <1>1, <2>1 DEF SeqInv
<1>5. RecordInv /\ OpenInv /\ UniqueInv
  BY <1>1 DEF Init, RecordInv, OpenInv, UniqueInv
<1>6. NestingIsAncestry /\ BeginsUnique
  BY DEF Init, NestingIsAncestry, BeginsUnique
<1>7. UntracedInv
  BY DEF Init, UntracedInv
<1> QED BY <1>2, <1>3, <1>4, <1>5, <1>6, <1>7 DEF IInv, TraceInv

\* A step that writes no record keeps SelfIsOwn and UntracedInv.
LEMMA SelfSame ==
  ASSUME SelfIsOwn, UntracedInv, trace' = trace
  PROVE  SelfIsOwn' /\ UntracedInv'
BY DEF SelfIsOwn, UntracedInv

\* Running an instruction keeps IInv.
LEMMA RunIInv ==
  ASSUME IInv, NEW t \in Threads, Run(t)
  PROVE  IInv'
<1>1. TypeOK /\ ClosingInv /\ FrameInv /\ SelfIsOwn /\ TraceInv /\ UntracedInv
  BY DEF IInv
<1>2. KeepsNumbers /\ UNCHANGED <<seq, closing, trace>>
  BY <1>1, QuietNumbers DEF Run, countVars
<1>3. ClosingInv'
  BY <1>1, <1>2 DEF ClosingInv, KeepsNumbers, Depth
<1> QED BY <1>1, <1>2, <1>3, RunType, RunFrame, SelfSame, TraceSame DEF IInv

\* Declaring a state keeps IInv.
LEMMA StateIInv ==
  ASSUME IInv, NEW t \in Threads, State(t)
  PROVE  IInv'
<1>1. TypeOK /\ ClosingInv /\ FrameInv /\ SelfIsOwn /\ TraceInv /\ UntracedInv
  BY DEF IInv
<1>2. KeepsNumbers /\ UNCHANGED <<seq, closing, trace>>
  BY <1>1, QuietNumbers DEF State
<1>3. ClosingInv'
  BY <1>1, <1>2 DEF ClosingInv, KeepsNumbers, Depth
<1> QED BY <1>1, <1>2, <1>3, StateType, StateFrame, SelfSame, TraceSame DEF IInv

\* A begin keeps IInv.
LEMMA BeginIInv ==
  ASSUME IInv, NEW t \in Threads, NEW k \in Keys, Begin(t, k)
  PROVE  IInv'
<1>1. TypeOK /\ ClosingInv /\ FrameInv /\ SelfIsOwn /\ TraceInv /\ UntracedInv
  BY DEF IInv
<1>2. closing' = closing /\ trace' = trace /\ closing[t] = Idle
  BY DEF Begin, Outside
<1>3. \A u \in Threads \ {t} : Depth(u)' = Depth(u)
  <2>1. CASE HasRoom(t)
    BY <1>1, <2>1, BeginShape, ThreadTypes DEF Depth
  <2>2. CASE ~HasRoom(t)
    BY <2>2 DEF Begin, Depth
  <2> QED BY <2>1, <2>2
<1>4. ClosingInv'
  BY <1>1, <1>2, <1>3 DEF ClosingInv
<1> QED BY <1>1, <1>2, <1>4, BeginType, BeginFrame, SelfSame, BeginTrace DEF IInv

\* An end, or a thread's exit, moves no frame and writes no record.
LEMMA StillFrame ==
  ASSUME FrameInv, UNCHANGED <<stack, clock>>
  PROVE  FrameInv'
BY FrameOther, FrameByFrame

\* An end keeps IInv.
LEMMA EndIInv ==
  ASSUME IInv, NEW t \in Threads, NEW r \in Regions, End(t, r)
  PROVE  IInv'
<1>1. TypeOK /\ ClosingInv /\ FrameInv /\ SelfIsOwn /\ TraceInv /\ UntracedInv
  BY DEF IInv
<1>2. UNCHANGED <<stack, clock, trace>> /\ closing[t] = Idle /\ seq \in Nat
  BY <1>1 DEF End, Outside, TypeOK
<1>3. /\ seq' \in Nat /\ seq' >= seq
      /\ \A u \in Threads \ {t} : closing'[u] = closing[u]
      /\ closing'[t] = Idle \/ closing'[t].to \in 1..Depth(t)
      /\ \/ closing'[t] = Idle
         \/ TraceLimit > 0 => closing'[t].end = seq + 1 /\ seq' = seq + 1
  <2>1. CASE Found(t, r) = {}
    BY <1>2, <2>1 DEF End
  <2>2. CASE Found(t, r) # {}
    <3>1. PICK i \in Innermost(Found(t, r)) : closing' = [closing EXCEPT ![t] =
            [to |-> i, end |-> IF TraceLimit > 0 THEN seq + 1 ELSE 0]]
      BY <2>2 DEF End
    <3>2. i \in 1..Depth(t)
      BY <1>1, FoundDepth
    <3>3. /\ closing'[t].to = i
          /\ closing'[t].end = IF TraceLimit > 0 THEN seq + 1 ELSE 0
          /\ \A u \in Threads \ {t} : closing'[u] = closing[u]
      BY <1>1, <3>1 DEF TypeOK
    <3>4. seq' = IF TraceLimit > 0 THEN seq + 1 ELSE seq
      BY <2>2 DEF End, NextSeq
    <3> QED BY <1>2, <3>2, <3>3, <3>4
  <2> QED BY <2>1, <2>2
<1>4. ClosingInv'
  BY <1>1, <1>2, <1>3 DEF ClosingInv, Depth
<1>5. TraceInv'
  BY <1>1, <1>2, <1>3, EndedTrace
<1> QED BY <1>1, <1>2, <1>4, <1>5, EndType, StillFrame, SelfSame DEF IInv

\* A thread's exit keeps IInv.
LEMMA ExitIInv ==
  ASSUME IInv, NEW t \in Threads, Exit(t)
  PROVE  IInv'
<1>1. TypeOK /\ ClosingInv /\ FrameInv /\ SelfIsOwn /\ TraceInv /\ UntracedInv
  BY DEF IInv
<1>2. /\ UNCHANGED <<stack, clock, trace>> /\ closing[t] = Idle
      /\ seq \in Nat /\ seq' = seq + 1
  BY <1>1 DEF Exit, Outside, TypeOK, ExitSeq
<1>3. /\ \A u \in Threads \ {t} : closing'[u] = closing[u]
      /\ \/ closing'[t] = Idle
         \/ closing'[t].to \in 1..Depth(t) /\ closing'[t].end = seq + 1
  <2>1. CASE stack[t] = <<>>
    BY <1>2, <2>1 DEF Exit
  <2>2. CASE stack[t] # <<>>
    <3>1. closing' = [closing EXCEPT ![t] = [to |-> 1, end |-> seq + 1]]
      BY <2>2 DEF Exit, ExitSeq
    <3>2. /\ closing'[t].to = 1 /\ closing'[t].end = seq + 1
          /\ \A u \in Threads \ {t} : closing'[u] = closing[u]
      BY <1>1, <3>1 DEF TypeOK
    <3>3. 1 \in 1..Depth(t)
      BY <1>1, <2>2, ThreadTypes DEF Depth
    <3> QED BY <3>2, <3>3
  <2> QED BY <2>1, <2>2
<1>4. ClosingInv'
  BY <1>1, <1>2, <1>3 DEF ClosingInv, Depth
<1>5. TraceInv'
  <2>1. seq' \in Nat /\ seq' >= seq
    BY <1>2
  <2> QED BY <1>1, <1>2, <1>3, <2>1, EndedTrace
<1> QED BY <1>1, <1>2, <1>4, <1>5, ExitType, StillFrame, SelfSame DEF IInv

\* Closing a frame keeps IInv.
LEMMA CloseIInv ==
  ASSUME IInv, NEW t \in Threads, Close(t)
  PROVE  IInv'
<1>1. TypeOK /\ ClosingInv /\ FrameInv /\ SelfIsOwn /\ TraceInv /\ UntracedInv
  BY DEF IInv
<1>2. UntracedInv'
  <2>1. ASSUME TraceLimit = 0, NEW u \in Threads PROVE trace'[u] = {}
    BY <1>1, <2>1, CloseTrace DEF UntracedInv
  <2> QED BY <2>1 DEF UntracedInv
<1> QED BY <1>1, <1>2, CloseType, CloseFrame, CloseSelf, CloseTraceInv DEF IInv

\* A step that changes no variable keeps IInv.
LEMMA StutterIInv ==
  ASSUME IInv, UNCHANGED vars
  PROVE  IInv'
<1>1. /\ UNCHANGED <<clock, stack, closing, alive, count, selfSum, trace, seq>>
      /\ UNCHANGED <<records, dropped, unmatched, overflows, stateOver, implicit>>
      /\ UNCHANGED <<calls, nest, ran, tidy>>
  BY DEF vars, clientVars, countVars, programVars
<1>2. TypeOK'
  BY <1>1 DEF IInv, TypeOK, Depth
<1>3. ClosingInv' /\ SelfIsOwn' /\ UntracedInv'
  BY <1>1 DEF IInv, ClosingInv, SelfIsOwn, UntracedInv, Depth
<1>4. FrameInv'
  BY <1>1, StillFrame DEF IInv
<1>5. KeepsNumbers
  BY <1>1 DEF KeepsNumbers
<1>6. TraceInv'
  BY <1>1, <1>5, TraceSame DEF IInv
<1> QED BY <1>2, <1>3, <1>4, <1>6 DEF IInv

\* Every step keeps IInv.
LEMMA NextIInv ==
  ASSUME IInv, [Next]_vars
  PROVE  IInv'
<1>1. CASE UNCHANGED vars
  BY <1>1, StutterIInv
<1>2. ASSUME NEW t \in Threads,
             \/ Run(t) \/ Exit(t) \/ Close(t) \/ State(t)
             \/ \E k \in Keys : Begin(t, k)
             \/ \E r \in Regions : End(t, r)
      PROVE  IInv'
  BY <1>2, RunIInv, ExitIInv, CloseIInv, StateIInv, BeginIInv, EndIInv
<1>3. CASE Finished
  BY <1>3, StutterIInv DEF Finished
<1> QED BY <1>1, <1>2, <1>3 DEF Next

\* IInv holds of every reachable state.
THEOREM Invariance == Spec => []IInv
<1>1. Init => IInv
  BY InitIInv
<1>2. IInv /\ [Next]_vars => IInv'
  BY NextIInv
<1> QED BY <1>1, <1>2, PTL DEF Spec

\* Every variable keeps its type, no stack grows past MAX_DEPTH, and an end never
\* closes more frames than there are.
THEOREM TypeCorrect == Spec => []TypeOK
<1>1. IInv => TypeOK
  BY DEF IInv
<1> QED BY <1>1, Invariance, PTL

\* The self count of every trigger is what it ran itself, for any program, any
\* interleaving and any way its frames were closed.
THEOREM SelfExact == Spec => []SelfIsOwn
<1>1. IInv => SelfIsOwn
  BY DEF IInv
<1> QED BY <1>1, Invariance, PTL

\* What lib/derive.py reads as nested in a trigger is what ran while the trigger
\* was open.
THEOREM NestingExact == Spec => []NestingIsAncestry
<1>1. IInv => NestingIsAncestry
  <2>1. CASE TraceLimit > 0
    BY <2>1 DEF IInv, TraceInv
  <2>2. CASE TraceLimit = 0
    BY <2>2 DEF IInv, UntracedInv, NestingIsAncestry
  <2> QED BY <2>1, <2>2, BoundsAssumption
<1> QED BY <1>1, Invariance, PTL

\* No two triggers of any threads begin with the same number, and each begins
\* before it ends.
THEOREM NumbersUnique == Spec => []BeginsUnique
<1>1. IInv => BeginsUnique
  <2>1. CASE TraceLimit > 0
    BY <2>1 DEF IInv, TraceInv
  <2>2. CASE TraceLimit = 0
    BY <2>2 DEF IInv, UntracedInv, BeginsUnique
  <2> QED BY <2>1, <2>2, BoundsAssumption
<1> QED BY <1>1, Invariance, PTL

-----------------------------------------------------------------------------
(***************************************************************************)
(* The books: the statistics against the trace, the inclusive counts of    *)
(* the trace against its nesting, and both against what the program did.   *)
(*                                                                         *)
(* Each invariant here is kept by every step from a state that satisfies   *)
(* IInv as well, which all do.                                             *)
(***************************************************************************)
OwnOf == [r \in Record |-> r.own]
SelfOf == [r \in Record |-> r.self]

FiniteInv == \A t \in Threads : IsFiniteSet(trace[t])

\* The closed instances whose cost frame i was charged: inside it, and outside the
\* frame open on top of it.
Charged(t, i) ==
  {r \in trace[t] : /\ stack[t][i].seq \in r.above
                    /\ i < Depth(t) => stack[t][i + 1].seq \notin r.above}

\* A frame's children take what the instances in them ran.
KidsInv ==
  TraceLimit > 0 /\ dropped = 0 =>
    \A t \in Threads : \A i \in 1..Depth(t) :
      stack[t][i].kids = SumFunctionOnSet(OwnOf, Charged(t, i))

\* Until a state is not kept, an instance has the states declared in it.
StatesInv ==
  stateOver = 0 =>
    \A t \in Threads :
      /\ \A i \in 1..Depth(t) : stack[t][i].states = stack[t][i].said
      /\ \A r \in trace[t] : r.states = r.said

\* The depth a thread's stack has once the end under way is over.
Target(t) == IF closing[t] = Idle THEN Depth(t) ELSE closing[t].to - 1

\* What the first m frames of s ran in key k.
Worth(f, k) == IF f.key = k THEN f.own ELSE 0
OwnIn(s, m, k) == SumFunctionOnSet([i \in 1..m |-> Worth(s[i], k)], 1..m)

\* The frames of t are the regions its program is in, and together with what was
\* closed they account for every instruction.
InStep(t) ==
  /\ Len(nest[t]) = Target(t)
  /\ \A i \in 1..Target(t) : nest[t][i] = stack[t][i].key
  /\ closing[t] # Idle => closing[t].to = Depth(t)
  /\ \A k \in Keys : ran[t][k] = selfSum[t][k] + OwnIn(stack[t], Depth(t), k)

\* A program that is tidy is in step with its frames, or it is in a region that has
\* no frame and will be until an end is unmatched, or it left without ending all.
SilentAt(t) ==
  unmatched = 0 =>
    \/ InStep(t)
    \/ Len(nest[t]) > Target(t)
    \/ t \notin alive /\ nest[t] # <<>>
SilentInv == \A t \in tidy : SilentAt(t)

\* The frames of t but for the one that an end under way was of.
Booked(t) == IF closing[t] # Idle /\ t \in alive THEN Depth(t) - 1 ELSE Depth(t)

\* BooksBalance, in the middle of an end too.
BooksInv ==
  tidy = Threads =>
    SumFunction([t \in Threads |-> Len(nest[t])]) + unmatched
      = SumFunction([t \in Threads |-> Booked(t)]) + implicit + overflows

-----------------------------------------------------------------------------
(***************************************************************************)
(* What a close writes.                                                    *)
(***************************************************************************)
\* While nothing is dropped, a close adds the record of its frame, a new one.
LEMMA CloseRecord ==
  ASSUME IInv, TraceLimit > 0, NEW t \in Threads, Close(t), dropped' = 0
  PROVE  /\ dropped = 0
         /\ \A u \in Threads \ {t} : trace'[u] = trace[u]
         /\ \E r \in Record :
              LET f == stack[t][Len(stack[t])]
              IN  /\ trace'[t] = trace[t] \cup {r} /\ r \notin trace[t]
                  /\ r.key = f.key /\ r.seq = f.seq /\ r.above = f.above
                  /\ r.own = f.own /\ r.incl = clock[t] - f.total
                  /\ r.self = r.incl - f.kids
<1> DEFINE n == Len(stack[t])
           f == stack[t][n]
<1>1. TypeOK /\ ClosingInv /\ UniqueInv
  BY DEF IInv, TraceInv
<1>2. dropped \in Nat
  BY <1>1 DEF TypeOK
<1>3. n \in 1..Depth(t)
  BY <1>1, CloseNumbers
<1>4. /\ \A u \in Threads \ {t} : trace'[u] = trace[u]
      /\ dropped' = dropped
      /\ \E r \in Record :
           /\ trace'[t] = trace[t] \cup {r}
           /\ r.seq = f.seq /\ r.above = f.above
           /\ r.own = f.own /\ r.incl = clock[t] - f.total
           /\ r.self = r.incl - f.kids /\ r.key = f.key
  <2>1. ~(TraceLimit > 0 => dropped' = dropped + 1)
    BY <1>2
  <2> HIDE DEF f, n
  <2> QED BY <1>1, <2>1, CloseTrace DEF f, n
<1>5. \A r \in trace[t] : r.seq # f.seq
  BY <1>1, <1>3 DEF UniqueInv
<1> HIDE DEF f, n
<1>6. PICK r \in Record :
        /\ trace'[t] = trace[t] \cup {r}
        /\ r.seq = f.seq /\ r.above = f.above
        /\ r.own = f.own /\ r.incl = clock[t] - f.total
        /\ r.self = r.incl - f.kids /\ r.key = f.key
  BY <1>4
<1>7. r \notin trace[t]
  BY <1>5, <1>6
<1> QED BY <1>4, <1>6, <1>7 DEF f, n

\* A step that closes no frame writes nothing.
LEMMA OnlyCloseWrites ==
  ASSUME [Next]_vars, \A t \in Threads : ~Close(t)
  PROVE  UNCHANGED <<count, selfSum, trace, dropped, records, implicit>>
BY DEF Next, vars, clientVars, countVars, Run, Begin, End, Exit, State, Finished

\* The trace is finite.
LEMMA FiniteKept ==
  ASSUME IInv, FiniteInv, [Next]_vars
  PROVE  FiniteInv'
<1>1. TypeOK /\ ClosingInv
  BY DEF IInv
<1>2. CASE \A t \in Threads : ~Close(t)
  BY <1>2, OnlyCloseWrites DEF FiniteInv
<1>3. ASSUME NEW t \in Threads, Close(t) PROVE FiniteInv'
  <2>1. IsFiniteSet(trace[t]) /\ \A u \in Threads \ {t} : trace'[u] = trace[u]
    BY <1>1, <1>3, CloseTrace DEF FiniteInv
  <2>2. \E r : trace'[t] = trace[t] \cup {r} \/ trace'[t] = trace[t]
    BY <1>1, <1>3, CloseTrace
  <2>3. IsFiniteSet(trace'[t])
    BY <2>1, <2>2, FS_AddElement
  <2> QED BY <2>1, <2>3 DEF FiniteInv
<1> QED BY <1>2, <1>3

-----------------------------------------------------------------------------
(***************************************************************************)
(* The statistics and the trace.                                           *)
(***************************************************************************)
\* The sums of RegionStack, as sums of a function of all records.
LEMMA RecordSums ==
  ASSUME NEW D, D \subseteq Record, IsFiniteSet(D)
  PROVE  /\ SumFunction([r \in D |-> r.self]) = SumFunctionOnSet(SelfOf, D)
         /\ SumFunction([r \in D |-> r.own]) = SumFunctionOnSet(OwnOf, D)
         /\ SumFunctionOnSet(SelfOf, D) \in Int /\ SumFunctionOnSet(OwnOf, D) \in Int
<1>1. \A r \in D : SelfOf[r] = r.self /\ OwnOf[r] = r.own
  BY DEF SelfOf, OwnOf
<1>2. \A r \in D : SelfOf[r] \in Int /\ OwnOf[r] \in Int
  <2>1. \A r \in Record : r.self \in Int /\ r.own \in Int
    BY DEF Record
  <2> QED BY <1>1, <2>1
<1> DEFINE f == [r \in D |-> r.self]
           g == [r \in D |-> r.own]
<1>3. \A r \in D : f[r] = SelfOf[r] /\ g[r] = OwnOf[r]
  BY <1>1
<1>4. SumFunction(f) = SumFunctionOnSet(f, D) /\ SumFunction(g) = SumFunctionOnSet(g, D)
  BY DEF SumFunction
<1> HIDE DEF f, g
<1>5. /\ SumFunctionOnSet(f, D) = SumFunctionOnSet(SelfOf, D)
      /\ SumFunctionOnSet(g, D) = SumFunctionOnSet(OwnOf, D)
  BY <1>3, SumSame
<1>6. SumFunctionOnSet(SelfOf, D) \in Int /\ SumFunctionOnSet(OwnOf, D) \in Int
  BY <1>2, SumInt
<1> QED BY <1>4, <1>5, <1>6 DEF f, g

\* One more record in such a sum.
LEMMA RecordAdded ==
  ASSUME NEW D, D \subseteq Record, IsFiniteSet(D), NEW r \in Record, r \notin D
  PROVE  /\ D \cup {r} \subseteq Record /\ IsFiniteSet(D \cup {r})
         /\ SumFunctionOnSet(SelfOf, D \cup {r}) = SumFunctionOnSet(SelfOf, D) + r.self
         /\ SumFunctionOnSet(OwnOf, D \cup {r}) = SumFunctionOnSet(OwnOf, D) + r.own
<1>1. \A x \in Record : SelfOf[x] \in Int /\ OwnOf[x] \in Int
  BY DEF SelfOf, OwnOf, Record
<1>2. SelfOf[r] = r.self /\ OwnOf[r] = r.own
  BY DEF SelfOf, OwnOf
<1>3. /\ SumFunctionOnSet(SelfOf, D \cup {r}) = SelfOf[r] + SumFunctionOnSet(SelfOf, D)
      /\ SumFunctionOnSet(OwnOf, D \cup {r}) = OwnOf[r] + SumFunctionOnSet(OwnOf, D)
  BY <1>1, SumAdd
<1>4. SumFunctionOnSet(SelfOf, D) \in Int /\ SumFunctionOnSet(OwnOf, D) \in Int
  BY RecordSums
<1> QED BY <1>1, <1>2, <1>3, <1>4, FS_AddElement

OfKey(D, k) == {r \in D : r.key = k}

\* The closed instances of each key are those in the trace.
LEMMA StatsKept ==
  ASSUME IInv, FiniteInv, StatsAreTrace, [Next]_vars
  PROVE  StatsAreTrace'
<1>1. TypeOK /\ ClosingInv
  BY DEF IInv
<1>2. CASE \A t \in Threads : ~Close(t)
  BY <1>2, OnlyCloseWrites DEF StatsAreTrace
<1>3. ASSUME NEW u \in Threads, Close(u), TraceLimit > 0, dropped' = 0,
             NEW t \in Threads, NEW k \in Keys
      PROVE  /\ count'[t][k] = Cardinality(OfKey(trace'[t], k))
             /\ selfSum'[t][k] = SumFunction([r \in OfKey(trace'[t], k) |-> r.self])
  <2> DEFINE n == Len(stack[u])
             f == stack[u][n]
             D == OfKey(trace[t], k)
  <2>1. /\ dropped = 0 /\ \A v \in Threads \ {u} : trace'[v] = trace[v]
        /\ \E r \in Record :
              /\ trace'[u] = trace[u] \cup {r} /\ r \notin trace[u]
              /\ r.key = f.key /\ r.self = clock[u] - f.total - f.kids
    BY <1>3, CloseRecord
  <2>2. count[t][k] = Cardinality(D) /\ selfSum[t][k] = SumFunction([r \in D |-> r.self])
    BY <1>3, <2>1 DEF StatsAreTrace, OfKey
  <2>3. /\ count' = [count EXCEPT ![u] = Add(@, f.key)]
        /\ selfSum' = [selfSum EXCEPT ![u][f.key] = @ + (clock[u] - f.total - f.kids)]
    BY <1>3 DEF Close, Depth
  <2>4. f.key \in Keys
    BY <1>1, <1>3, CloseShape, FrameFields
  <2>5. count \in [Threads -> [Keys -> Nat]] /\ selfSum \in [Threads -> [Keys -> Int]]
    BY <1>1 DEF TypeOK
  <2>6. D \subseteq Record /\ IsFiniteSet(D)
    BY <1>1, ThreadTypes, FS_Subset DEF FiniteInv, OfKey
  <2>7. CASE t # u \/ k # f.key
    <3>1. count'[t][k] = count[t][k] /\ selfSum'[t][k] = selfSum[t][k]
      <4> HIDE DEF f, n
      <4> QED BY <2>3, <2>4, <2>5, <2>7 DEF Add
    <3>2. OfKey(trace'[t], k) = D
      BY <2>1, <2>7 DEF OfKey
    <3> HIDE DEF D
    <3> QED BY <2>2, <3>1, <3>2
  <2>8. CASE t = u /\ k = f.key
    <3>1. PICK r \in Record :
            /\ trace'[t] = trace[t] \cup {r} /\ r \notin trace[t]
            /\ r.key = k /\ r.self = clock[u] - f.total - f.kids
      BY <2>1, <2>8
    <3>2. OfKey(trace'[t], k) = D \cup {r} /\ r \notin D
      BY <3>1 DEF OfKey
    <3>3. count'[t][k] = count[t][k] + 1 /\ selfSum'[t][k] = selfSum[t][k] + r.self
      <4> HIDE DEF f, n
      <4> QED BY <2>3, <2>4, <2>5, <2>8, <3>1 DEF Add
    <3> HIDE DEF D
    <3>4. Cardinality(D \cup {r}) = Cardinality(D) + 1
      BY <2>6, <3>2, FS_AddElement
    <3>5. SumFunction([x \in D \cup {r} |-> x.self]) = SumFunction([x \in D |-> x.self]) + r.self
      <4>1. D \cup {r} \subseteq Record /\ IsFiniteSet(D \cup {r})
        BY <2>6, <3>2, RecordAdded
      <4>2. SumFunction([x \in D \cup {r} |-> x.self]) = SumFunctionOnSet(SelfOf, D \cup {r})
        BY ONLY <4>1, RecordSums
      <4>3. SumFunction([x \in D |-> x.self]) = SumFunctionOnSet(SelfOf, D)
        BY ONLY <2>6, RecordSums
      <4>4. SumFunctionOnSet(SelfOf, D \cup {r}) = SumFunctionOnSet(SelfOf, D) + r.self
        BY ONLY <2>6, <3>2, RecordAdded
      <4> QED BY <4>2, <4>3, <4>4
    <3> QED BY <2>2, <3>2, <3>3, <3>4, <3>5
  <2> QED BY <2>7, <2>8
<1>4. CASE \E u \in Threads : Close(u)
  <2>1. ASSUME TraceLimit > 0 /\ dropped' = 0, NEW t \in Threads, NEW k \in Keys
        PROVE  /\ count'[t][k] = Cardinality(OfKey(trace'[t], k))
               /\ selfSum'[t][k] = SumFunction([r \in OfKey(trace'[t], k) |-> r.self])
    BY <1>3, <1>4, <2>1
  <2> QED BY <2>1 DEF StatsAreTrace, OfKey
<1> QED BY <1>2, <1>4

-----------------------------------------------------------------------------
(***************************************************************************)
(* Inclusive counts and the nesting.                                       *)
(***************************************************************************)
\* KidsInv of one frame.
KidsAt(t, i) == stack[t][i].kids = SumFunctionOnSet(OwnOf, Charged(t, i))

\* A step that moves neither what a frame was charged nor a number keeps KidsInv.
LEMMA KidsSame ==
  ASSUME TypeOK, KidsInv, KeepsNumbers, UNCHANGED <<trace, dropped>>,
         \A u \in Threads : \A i \in 1..Depth(u) : stack'[u][i].kids = stack[u][i].kids
  PROVE  KidsInv'
<1>1. \A u \in Threads : Depth(u)' = Depth(u) /\ Depth(u) \in Nat
  BY ThreadTypes DEF KeepsNumbers, Depth
<1>2. \A u \in Threads : \A i \in 1..Depth(u) : stack'[u][i].seq = stack[u][i].seq
  BY DEF KeepsNumbers, Depth
<1>3. ASSUME NEW u \in Threads, NEW i \in 1..Depth(u)
      PROVE  Charged(u, i)' = Charged(u, i)
  <2>1. i < Depth(u) => i + 1 \in 1..Depth(u)
    BY <1>1
  <2> QED BY <1>1, <1>2, <2>1 DEF Charged
<1> QED BY <1>1, <1>3 DEF KidsInv

\* Instructions, declared states, ends and exits charge no frame.
LEMMA KidsQuiet ==
  ASSUME TypeOK, KidsInv, NEW t \in Threads,
         Run(t) \/ State(t) \/ Exit(t) \/ \E r \in Regions : End(t, r)
  PROVE  KidsInv'
<1>1. UNCHANGED <<trace, dropped>>
  BY DEF Run, State, Exit, End, countVars
<1>2. CASE Run(t) \/ State(t)
  <2>1. KeepsNumbers
    BY <1>2, QuietNumbers
  <2>2. ASSUME NEW u \in Threads, NEW i \in 1..Depth(u)
        PROVE  stack'[u][i].kids = stack[u][i].kids
    <3> DEFINE n == Len(stack[t])
    <3>1. CASE stack' = stack
      BY <3>1
    <3>2. CASE stack' # stack
      <4>1. /\ n \in Nat \ {0} /\ stack' = [stack EXCEPT ![t] = stack'[t]]
            /\ \A j \in 1..(n - 1) : stack'[t][j] = stack[t][j]
            /\ stack'[t][n].kids = stack[t][n].kids
        <5>1. CASE Run(t)
          <6>1. stack[t] # <<>>
            BY <3>2, <5>1 DEF Run
          <6> QED BY <5>1, <6>1, RunShape
        <5>2. CASE State(t)
          BY <5>2, StateShape
        <5> QED BY <1>2, <5>1, <5>2
      <4>2. u # t => stack'[u] = stack[u]
        BY <4>1, ThreadTypes
      <4>3. u = t => i = n \/ i \in 1..(n - 1)
        BY <4>1 DEF Depth
      <4> QED BY <4>1, <4>2, <4>3
    <3> QED BY <3>1, <3>2
  <2> QED BY <1>1, <2>1, <2>2, KidsSame
<1>3. CASE Exit(t) \/ \E r \in Regions : End(t, r)
  <2>1. stack' = stack
    BY <1>3 DEF Exit, End
  <2> QED BY <1>1, <2>1, KidsSame DEF KeepsNumbers
<1> QED BY <1>2, <1>3

\* A new frame was charged nothing, and nothing closed knows it.
LEMMA KidsBegin ==
  ASSUME IInv, KidsInv, NEW t \in Threads, NEW k \in Keys, Begin(t, k)
  PROVE  KidsInv'
<1> DEFINE n == Len(stack[t])
<1>1. TypeOK /\ UNCHANGED <<trace, dropped>>
  BY DEF IInv, Begin
<1>2. CASE ~HasRoom(t)
  <2>1. stack' = stack
    BY <1>2 DEF Begin
  <2> QED BY <1>1, <2>1, KidsSame DEF KeepsNumbers
<1>3. CASE HasRoom(t)
  <2> SUFFICES ASSUME TraceLimit > 0, dropped = 0,
                      NEW u \in Threads, NEW i \in 1..Depth(u)'
               PROVE  KidsAt(u, i)'
    BY <1>1 DEF KidsInv, KidsAt
  <2>1. /\ n \in Nat /\ Len(stack'[t]) = n + 1
        /\ stack' = [stack EXCEPT ![t] = stack'[t]]
        /\ \A j \in 1..n : stack'[t][j] = stack[t][j]
        /\ stack'[t][n + 1].kids = 0 /\ stack'[t][n + 1].seq = seq + 1
    BY <1>1, <1>3, BeginShape DEF NextSeq
  <2>2. \A v \in Threads \ {t} : stack'[v] = stack[v] /\ Depth(v)' = Depth(v)
    BY <1>1, <2>1, ThreadTypes DEF Depth
  <2>3. Depth(t) = n /\ Depth(t)' = n + 1
    BY <2>1 DEF Depth
  <2>4. ASSUME NEW r \in trace[t] PROVE seq + 1 \notin r.above
    <3>1. r.seq < r.end /\ r.end <= seq /\ \A x \in r.above : x < r.seq
      BY DEF IInv, TraceInv, RecordInv
    <3>2. r \in Record /\ seq \in Nat
      BY <1>1, ThreadTypes DEF TypeOK
    <3>3. r.seq \in Nat /\ r.end \in Nat
      BY <3>2 DEF Record
    <3>4. ~(seq + 1 < r.seq)
      BY <3>1, <3>2, <3>3
    <3> QED BY <3>1, <3>4
  <2>5. CASE u # t
    <3>1. Charged(u, i)' = Charged(u, i)
      BY <1>1, <2>2, <2>5 DEF Charged
    <3>2. KidsAt(u, i)
      BY <2>2, <2>5 DEF KidsInv, KidsAt
    <3> QED BY <2>2, <2>5, <3>1, <3>2 DEF KidsAt
  <2>6. CASE u = t /\ i = n + 1
    <3>1. Charged(u, i)' = {}
      BY <1>1, <2>1, <2>4, <2>6 DEF Charged
    <3> QED BY <2>1, <2>6, <3>1, SumEmpty DEF KidsAt
  <2>7. CASE u = t /\ i # n + 1
    <3>1. i \in 1..n /\ i \in 1..Depth(t) /\ stack'[t][i] = stack[t][i]
      BY <2>1, <2>3, <2>7
    <3>2. Charged(u, i)' = Charged(u, i)
      <4>1. CASE i = n
        BY <1>1, <2>1, <2>3, <2>4, <2>7, <3>1, <4>1 DEF Charged
      <4>2. CASE i # n
        <5>1. i < n /\ i < n + 1 /\ i + 1 \in 1..n
          BY <2>1, <3>1, <4>2
        <5>2. stack'[t][i + 1] = stack[t][i + 1]
          BY <2>1, <5>1
        <5> QED BY <1>1, <2>3, <2>7, <3>1, <5>1, <5>2 DEF Charged
      <4> QED BY <4>1, <4>2
    <3>3. KidsAt(t, i)
      BY <3>1 DEF KidsInv, KidsAt
    <3> QED BY <2>7, <3>1, <3>2, <3>3 DEF KidsAt
  <2> QED BY <2>5, <2>6, <2>7
<1> QED BY <1>2, <1>3

\* Every set of records is finite and has a sum.
LEMMA ChargedFinite ==
  ASSUME TypeOK, FiniteInv, NEW t \in Threads, NEW D, D \subseteq trace[t]
  PROVE  D \subseteq Record /\ IsFiniteSet(D) /\ SumFunctionOnSet(OwnOf, D) \in Int
<1>1. D \subseteq Record /\ IsFiniteSet(D)
  BY ThreadTypes, FS_Subset DEF FiniteInv
<1> QED BY <1>1, RecordSums

\* What the frame that a close takes away was charged, and what it is worth.
LEMMA ClosedWorth ==
  ASSUME IInv, KidsInv, TraceLimit > 0, dropped = 0, NEW t \in Threads, Close(t)
  PROVE  LET n == Len(stack[t])
             f == stack[t][n]
             A == {r \in trace[t] : f.seq \in r.above}
         IN  clock[t] - f.total = f.own + SumFunctionOnSet(OwnOf, A)
<1> DEFINE n == Len(stack[t])
           f == stack[t][n]
           A == {r \in trace[t] : f.seq \in r.above}
<1>1. n \in 1..Depth(t) /\ ~(n < Depth(t))
  <2>1. n \in Nat \ {0} /\ Depth(t) = n
    BY CloseNumbers DEF IInv
  <2> QED BY <2>1
<1>2. Charged(t, n) = A
  BY <1>1 DEF Charged
<1>3. f.kids = SumFunctionOnSet(OwnOf, A)
  BY <1>1, <1>2 DEF KidsInv
<1>4. f \in Frame /\ f.own = clock[t] - f.total - f.kids
  BY CloseWorth DEF IInv
<1>5. f.total \in Nat /\ f.kids \in Int /\ clock[t] \in Nat
  BY <1>4, FrameFields, ThreadTypes DEF IInv
<1> HIDE DEF f, n, A
<1>6. clock[t] - f.total = f.own + f.kids
  BY <1>4, <1>5
<1> QED BY <1>3, <1>6 DEF f, n, A

\* What a close charges the frame below is what it and the instances in it ran.
LEMMA KidsClose ==
  ASSUME IInv, FiniteInv, KidsInv, NEW t \in Threads, Close(t)
  PROVE  KidsInv'
<1> SUFFICES ASSUME TraceLimit > 0, dropped' = 0,
                    NEW u \in Threads, NEW i \in 1..Depth(u)'
             PROVE  KidsAt(u, i)'
  BY DEF KidsInv, KidsAt
<1> DEFINE n == Len(stack[t])
           f == stack[t][n]
           b == f.seq
           c == stack[t][n - 1].seq
           A == {x \in trace[t] : b \in x.above}
<1>1. TypeOK /\ ClosingInv /\ FrameInv /\ SeqInv /\ RecordInv /\ OpenInv
  BY DEF IInv, TraceInv
<1>2. /\ dropped = 0 /\ \A v \in Threads \ {t} : trace'[v] = trace[v]
      /\ \E r \in Record :
           /\ trace'[t] = trace[t] \cup {r} /\ r \notin trace[t]
           /\ r.above = f.above /\ r.own = f.own
  BY CloseRecord
<1>3. /\ n \in Nat \ {0} /\ Depth(t) = n /\ Depth(t)' = n - 1
      /\ \A v \in Threads \ {t} : Depth(v)' = Depth(v)
      /\ \A v \in Threads : \A j \in 1..Depth(v)' :
           /\ j \in 1..Depth(v) /\ (v = t => j < n)
           /\ stack'[v][j].seq = stack[v][j].seq
  BY <1>1, CloseNumbers
<1>4. /\ f \in Frame /\ stack' = [stack EXCEPT ![t] = stack'[t]]
      /\ \A j \in 1..(n - 2) : stack'[t][j] = stack[t][j]
      /\ n > 1 => stack'[t][n - 1].kids = stack[t][n - 1].kids + (clock[t] - f.total)
  BY <1>1, CloseShape
<1>5. \A v \in Threads \ {t} : stack'[v] = stack[v]
  BY <1>1, <1>4, ThreadTypes
<1>6. KidsAt(u, i)
  BY <1>2, <1>3 DEF KidsInv, KidsAt
<1>7. CASE u # t
  <2>1. Charged(u, i)' = Charged(u, i)
    BY <1>2, <1>3, <1>5, <1>7 DEF Charged
  <2> QED BY <1>5, <1>6, <1>7, <2>1 DEF KidsAt
<1>8. CASE u = t
  <2>1. PICK r \in Record : /\ trace'[t] = trace[t] \cup {r} /\ r \notin trace[t]
                            /\ r.above = f.above /\ r.own = f.own
    BY <1>2
  <2>2. r.above = {stack[t][j].seq : j \in 1..(n - 1)}
    <3>1. n \in 1..Depth(t)
      BY <1>3
    <3> QED BY <1>1, <2>1, <3>1 DEF SeqInv, Below
  <2>3. i \in 1..(n - 1) /\ n > 1
    BY <1>3, <1>8
  <2>4. CASE i # n - 1
    <3>1. i \in 1..(n - 2) /\ i + 1 \in 1..(n - 1) /\ i < n - 1 /\ i < n
      BY <1>3, <2>3, <2>4
    <3>2. stack[t][i + 1].seq \in r.above
      BY <2>2, <3>1
    <3>3. stack'[t][i + 1].seq = stack[t][i + 1].seq /\ stack'[t][i] = stack[t][i]
      BY <1>3, <1>4, <3>1
    <3>4. Charged(t, i)' = {x \in trace'[t] : /\ stack'[t][i].seq \in x.above
                                              /\ stack'[t][i + 1].seq \notin x.above}
      BY <1>3, <3>1 DEF Charged
    <3>5. Charged(t, i) = {x \in trace[t] : /\ stack[t][i].seq \in x.above
                                            /\ stack[t][i + 1].seq \notin x.above}
      BY <1>3, <3>1 DEF Charged
    <3>6. Charged(t, i)' = Charged(t, i)
      BY <2>1, <3>2, <3>3, <3>4, <3>5
    <3> QED BY <1>6, <1>8, <3>3, <3>6 DEF KidsAt
  <2>5. CASE i = n - 1
    <3> DEFINE B == {x \in trace[t] : c \in x.above /\ b \notin x.above}
    <3>1. Charged(t, i) = B
      <4>1. i + 1 = n /\ i < n
        BY <1>3, <2>5
      <4> QED BY <1>3, <2>5, <4>1 DEF Charged
    <3>2. Charged(t, i)' = {x \in trace'[t] : c \in x.above}
      <4>1. stack'[t][i].seq = c /\ ~(i < Depth(t)')
        BY <1>3, <1>8, <2>3, <2>5
      <4> QED BY <4>1 DEF Charged
    <3>3. c \in r.above
      BY <2>2, <2>3, <2>5
    <3>4. ASSUME NEW x \in A PROVE c \in x.above
      <4>1. x \in trace[t] /\ x \in Record
        BY <1>1, ThreadTypes
      <4>2. x.seq \in Nat /\ x.end \in Nat
        BY <4>1 DEF Record
      <4>3. b < x.seq /\ x.seq < x.end
        BY <1>1, <4>1 DEF RecordInv
      <4>4. n \in 1..Depth(t) /\ n - 1 \in 1..Depth(t) /\ n - 1 < n
        BY <1>3, <2>3
      <4>5. c < b
        BY <1>1, <4>4 DEF SeqInv
      <4>6. IF c \in x.above THEN c < x.seq ELSE x.end < c
        BY <1>1, <4>1, <4>4 DEF OpenInv
      <4>7. b \in Nat /\ c \in Nat
        BY <1>1, <4>4, ThreadTypes, ElementFrame, FrameFields
      <4> HIDE DEF b, c
      <4> QED BY <4>2, <4>3, <4>5, <4>6, <4>7
    <3>5. Charged(t, i)' = (A \cup B) \cup {r} /\ r \notin A \cup B /\ A \cap B = {}
      BY <2>1, <3>2, <3>3, <3>4
    <3>6. /\ A \subseteq Record /\ IsFiniteSet(A) /\ SumFunctionOnSet(OwnOf, A) \in Int
          /\ B \subseteq Record /\ IsFiniteSet(B) /\ SumFunctionOnSet(OwnOf, B) \in Int
          /\ A \cup B \subseteq Record /\ IsFiniteSet(A \cup B)
      BY <1>1, ChargedFinite, FS_Union
    <3> DEFINE O(D) == SumFunctionOnSet(OwnOf, D)
    <3>7. O((A \cup B) \cup {r}) = O(A \cup B) + r.own
      <4> DEFINE D == A \cup B
      <4>1. D \subseteq Record /\ IsFiniteSet(D) /\ r \notin D
        BY <3>5, <3>6
      <4> HIDE DEF D
      <4>2. SumFunctionOnSet(OwnOf, D \cup {r}) = SumFunctionOnSet(OwnOf, D) + r.own
        BY ONLY <4>1, r \in Record, RecordAdded
      <4> QED BY <4>2 DEF D
    <3>8. O(A \cup B) = O(A) + O(B)
      <4>1. \A x \in Record : OwnOf[x] \in Int
        BY DEF OwnOf, Record
      <4> HIDE DEF A, B
      <4>2. \A x \in A \cup B : OwnOf[x] \in Int
        BY ONLY <3>6, <4>1
      <4> QED BY ONLY <3>5, <3>6, <4>2, SumUnion
    <3>9. stack'[t][i].kids = stack[t][i].kids + (clock[t] - f.total)
      BY <1>4, <2>3, <2>5
    <3>10. clock[t] - f.total = f.own + O(A)
      BY <1>2, ClosedWorth
    <3>11. stack[t][i].kids = O(B)
      BY <1>6, <1>8, <3>1 DEF KidsAt
    <3>12. r.own \in Int /\ O(A) \in Int /\ O(B) \in Int
      BY <3>6 DEF Record
    <3>13. O(Charged(t, i)') = O((A \cup B) \cup {r})
      BY <3>5
    <3> HIDE DEF A, B, O, f
    <3>14. stack'[t][i].kids = O(Charged(t, i)')
      BY <2>1, <3>7, <3>8, <3>9, <3>10, <3>11, <3>12, <3>13
    <3> QED BY <1>8, <3>14 DEF KidsAt, O
  <2> QED BY <2>4, <2>5
<1> QED BY <1>7, <1>8

\* Every step keeps KidsInv.
LEMMA KidsKept ==
  ASSUME IInv, FiniteInv, KidsInv, [Next]_vars
  PROVE  KidsInv'
<1>1. CASE UNCHANGED vars
  BY <1>1, KidsSame DEF IInv, KeepsNumbers, vars, clientVars, countVars
<1>2. ASSUME NEW t \in Threads,
             \/ Run(t) \/ Exit(t) \/ Close(t) \/ State(t)
             \/ \E k \in Keys : Begin(t, k)
             \/ \E r \in Regions : End(t, r)
      PROVE  KidsInv'
  BY <1>2, KidsQuiet, KidsBegin, KidsClose DEF IInv
<1>3. CASE Finished
  BY <1>1, <1>3 DEF Finished
<1> QED BY <1>1, <1>2, <1>3 DEF Next

\* Every step keeps the inclusive counts of the trace.
LEMMA InclKept ==
  ASSUME IInv, FiniteInv, KidsInv, InclIsSubtree, [Next]_vars
  PROVE  InclIsSubtree'
<1>1. TypeOK /\ ClosingInv
  BY DEF IInv
<1>2. CASE \A t \in Threads : ~Close(t)
  <2>1. UNCHANGED <<trace, dropped>>
    BY <1>2, OnlyCloseWrites
  <2> QED BY <2>1 DEF InclIsSubtree, Inside
<1>3. ASSUME NEW t \in Threads, Close(t), dropped' = 0,
             NEW u \in Threads, NEW p \in trace'[u]
      PROVE  p.incl = p.own + SumFunction([r \in Inside(u, p)' |-> r.own])
  <2>1. TraceLimit > 0
    <3>1. CASE TraceLimit = 0
      <4>1. trace'[u] = {}
        BY <1>3, <3>1, NextIInv DEF IInv, UntracedInv
      <4> QED BY <1>3, <4>1
    <3> QED BY <3>1, BoundsAssumption
  <2> DEFINE f == stack[t][Len(stack[t])]
             A == {x \in trace[t] : f.seq \in x.above}
  <2>2. /\ dropped = 0 /\ \A v \in Threads \ {t} : trace'[v] = trace[v]
        /\ \E r \in Record :
             /\ trace'[t] = trace[t] \cup {r} /\ r \notin trace[t]
             /\ r.seq = f.seq /\ r.above = f.above
             /\ r.own = f.own /\ r.incl = clock[t] - f.total
    BY <1>3, <2>1, CloseRecord
  <2>3. UniqueInv /\ SeqInv /\ NestingIsAncestry /\ NestingIsAncestry'
    <3>1. IInv'
      BY NextIInv
    <3> QED BY <2>1, <3>1 DEF IInv, TraceInv
  <2>4. PICK r \in Record :
          /\ trace'[t] = trace[t] \cup {r} /\ r \notin trace[t]
          /\ r.seq = f.seq /\ r.above = f.above
          /\ r.own = f.own /\ r.incl = clock[t] - f.total
    BY <2>2
  <2>5. /\ \A j \in 1..Len(stack[t]) : j \in 1..Depth(t)
        /\ Len(stack[t]) \in Nat \ {0} /\ Len(stack[t]) \in 1..Len(stack[t])
    BY <1>1, <1>3, CloseNumbers DEF Depth
  <2>6. r.above = {stack[t][j].seq : j \in 1..(Len(stack[t]) - 1)}
    BY <2>3, <2>4, <2>5 DEF SeqInv, Below
  <2>7. \A j \in 1..(Len(stack[t]) - 1) : j \in 1..Depth(t) /\ j < Len(stack[t])
    BY <2>5
  <2>8. f.seq \notin r.above
    <3>1. ASSUME NEW j \in 1..(Len(stack[t]) - 1) PROVE stack[t][j].seq # f.seq
      <4>1. j \in 1..Depth(t) /\ Len(stack[t]) \in 1..Depth(t) /\ j # Len(stack[t])
        BY <2>5, <2>7
      <4> QED BY ONLY <2>3, <4>1, t \in Threads DEF UniqueInv, f
    <3> QED BY <2>6, <3>1
  <2>9. CASE p \in trace[u]
    <3>1. p.incl = p.own + SumFunction([x \in Inside(u, p) |-> x.own])
      BY <2>2, <2>9 DEF InclIsSubtree
    <3>2. \A j \in 1..Depth(t) : stack[t][j].seq # p.seq
      BY <2>3, <2>9 DEF UniqueInv
    <3>3. p.seq \notin r.above
      BY <2>6, <2>7, <3>2
    <3>4. /\ Inside(u, p) = {x \in trace[u] : p.seq \in x.above}
          /\ Inside(u, p)' = {x \in trace'[u] : p.seq \in x.above}
      BY <2>3, <2>9 DEF NestingIsAncestry
    <3>5. Inside(u, p)' = Inside(u, p)
      BY <2>2, <2>4, <3>3, <3>4
    <3> QED BY <3>1, <3>5
  <2>10. CASE u = t /\ p = r
    <3>1. Inside(u, p)' = {x \in trace'[t] : p.seq \in x.above}
      BY <2>3, <2>10 DEF NestingIsAncestry
    <3>2. Inside(u, p)' = A
      BY <2>4, <2>8, <2>10, <3>1
    <3>3. clock[t] - f.total = f.own + SumFunctionOnSet(OwnOf, A)
      BY <1>3, <2>1, <2>2, ClosedWorth
    <3>4. SumFunction([x \in A |-> x.own]) = SumFunctionOnSet(OwnOf, A)
      <4>1. A \subseteq Record /\ IsFiniteSet(A)
        BY <1>1, ChargedFinite
      <4> HIDE DEF A
      <4> QED BY <4>1, RecordSums
    <3> QED BY <2>4, <2>10, <3>2, <3>3, <3>4
  <2> QED BY <2>2, <2>4, <2>9, <2>10
<1>4. CASE \E t \in Threads : Close(t)
  <2>1. ASSUME dropped' = 0, NEW u \in Threads, NEW p \in trace'[u]
        PROVE  p.incl = p.own + SumFunction([r \in Inside(u, p)' |-> r.own])
    BY <1>3, <1>4, <2>1
  <2> QED BY <2>1 DEF InclIsSubtree
<1> QED BY <1>2, <1>4

-----------------------------------------------------------------------------
(***************************************************************************)
(* States.                                                                 *)
(***************************************************************************)
\* StatesInv of one frame.
StatesAt(t, i) == stack[t][i].states = stack[t][i].said

\* A step that changes no frame and no trace keeps StatesInv.
LEMMA StatesSame ==
  ASSUME StatesInv, UNCHANGED <<stack, trace, stateOver>>
  PROVE  StatesInv'
BY DEF StatesInv, Depth

\* Running, declaring and beginning keep StatesInv.
LEMMA StatesFrames ==
  ASSUME TypeOK, StatesInv, NEW t \in Threads,
         Run(t) \/ State(t) \/ \E k \in Keys : Begin(t, k)
  PROVE  StatesInv'
<1> DEFINE n == Len(stack[t])
<1>1. trace' = trace /\ stateOver \in Nat
  BY DEF Run, State, Begin, TypeOK
<1>2. stateOver' = 0 => stateOver = 0
  <2>1. stateOver' \in {stateOver, stateOver + 1}
    BY DEF Run, State, Begin, countVars, StatesLost
  <2> QED BY <1>1, <2>1
<1>3. CASE stack' = stack
  BY <1>1, <1>3, <1>2 DEF StatesInv, Depth
<1>4. CASE stack' # stack
  <2> SUFFICES ASSUME stateOver' = 0, stateOver = 0, NEW u \in Threads, NEW i \in 1..Depth(u)'
               PROVE  StatesAt(u, i)'
    BY <1>1, <1>2 DEF StatesInv, StatesAt
  <2>1. CASE Run(t)
    <3>1. stack[t] # <<>> /\ stateOver' = stateOver
      BY <1>4, <2>1 DEF Run, countVars
    <3>2. /\ n \in Nat \ {0} /\ stack' = [stack EXCEPT ![t] = stack'[t]]
          /\ Len(stack'[t]) = n
          /\ \A j \in 1..(n - 1) : stack'[t][j] = stack[t][j]
          /\ stack'[t][n].states = stack[t][n].states
          /\ stack'[t][n].said = stack[t][n].said
      BY <2>1, <3>1, RunShape
    <3>3. u # t => stack'[u] = stack[u]
      BY <3>2, ThreadTypes
    <3>4. u = t => i = n \/ i \in 1..(n - 1)
      BY <3>2 DEF Depth
    <3>5. i \in 1..Depth(u)
      BY <3>2, <3>3 DEF Depth
    <3>6. StatesAt(u, i)
      BY <3>1, <3>5 DEF StatesInv, StatesAt
    <3> QED BY <3>1, <3>2, <3>3, <3>4, <3>6 DEF StatesAt
  <2>2. CASE State(t)
    <3>1. /\ n \in Nat \ {0} /\ stack' = [stack EXCEPT ![t] = stack'[t]]
          /\ Len(stack'[t]) = n
          /\ \A j \in 1..(n - 1) : stack'[t][j] = stack[t][j]
          /\ stack'[t][n].said = stack[t][n].said + 1
          /\ stack'[t][n].states = IF stack[t][n].states < MaxStates
                                   THEN stack[t][n].states + 1 ELSE stack[t][n].states
      BY <2>2, StateShape
    <3>2. stack[t][n].states < MaxStates
      <4>1. stateOver' = IF stack[t][n].states < MaxStates THEN stateOver ELSE stateOver + 1
        BY <2>2 DEF State, StatesLost, Top
      <4> QED BY <1>1, <4>1
    <3>3. u # t => stack'[u] = stack[u]
      BY <3>1, ThreadTypes
    <3>4. u = t => i = n \/ i \in 1..(n - 1)
      BY <3>1 DEF Depth
    <3>5. i \in 1..Depth(u)
      BY <3>1, <3>3 DEF Depth
    <3>6. StatesAt(u, i)
      BY <3>2, <3>5 DEF StatesInv, StatesAt
    <3> HIDE DEF n
    <3> QED BY <3>1, <3>2, <3>3, <3>4, <3>6 DEF StatesAt
  <2>3. ASSUME NEW k \in Keys, Begin(t, k) PROVE StatesAt(u, i)'
    <3>1. HasRoom(t) /\ stateOver' = stateOver
      BY <1>4, <2>3 DEF Begin
    <3>2. /\ n \in Nat /\ stack' = [stack EXCEPT ![t] = stack'[t]]
          /\ Len(stack'[t]) = n + 1
          /\ \A j \in 1..n : stack'[t][j] = stack[t][j]
          /\ stack'[t][n + 1].states = 0 /\ stack'[t][n + 1].said = 0
      BY <2>3, <3>1, BeginShape
    <3>3. u # t => stack'[u] = stack[u]
      BY <3>2, ThreadTypes
    <3>4. i \in 1..Depth(u) => StatesAt(u, i)
      BY <3>1 DEF StatesInv, StatesAt
    <3>5. u = t => i = n + 1 \/ i \in 1..n
      BY <3>2 DEF Depth
    <3>6. u = t /\ i \in 1..n => i \in 1..Depth(t)
      BY DEF Depth
    <3>7. u # t => i \in 1..Depth(u)
      BY <3>3 DEF Depth
    <3> QED BY <3>1, <3>2, <3>3, <3>4, <3>5, <3>6, <3>7 DEF StatesAt
  <2> QED BY <2>1, <2>2, <2>3
<1> QED BY <1>3, <1>4

\* A close hands its frame's states to the record.
LEMMA StatesClose ==
  ASSUME TypeOK, ClosingInv, StatesInv, NEW t \in Threads, Close(t)
  PROVE  StatesInv'
<1> DEFINE n == Len(stack[t])
           f == stack[t][n]
<1>1. stateOver' = stateOver
  BY DEF Close
<1>2. /\ n \in Nat \ {0} /\ stack' = [stack EXCEPT ![t] = stack'[t]]
      /\ Len(stack'[t]) = n - 1
      /\ \A j \in 1..(n - 2) : stack'[t][j] = stack[t][j]
      /\ n > 1 => /\ stack'[t][n - 1].states = stack[t][n - 1].states
                  /\ stack'[t][n - 1].said = stack[t][n - 1].said
  BY CloseShape
<1>3. \A u \in Threads \ {t} : stack'[u] = stack[u]
  BY <1>2, ThreadTypes
<1>4. ASSUME stateOver = 0, NEW u \in Threads, NEW i \in 1..Depth(u)' PROVE StatesAt(u, i)'
  <2>1. i \in 1..Depth(u)
    BY CloseNumbers
  <2>2. StatesAt(u, i)
    BY <1>4, <2>1 DEF StatesInv, StatesAt
  <2>3. u = t => n > 1 /\ (i = n - 1 \/ i \in 1..(n - 2))
    BY <1>2 DEF Depth
  <2> QED BY <1>2, <1>3, <2>2, <2>3 DEF StatesAt
<1>5. ASSUME stateOver = 0, NEW u \in Threads, NEW r \in trace'[u] PROVE r.states = r.said
  <2>1. CASE r \in trace[u]
    BY <1>5, <2>1 DEF StatesInv
  <2>2. CASE r \notin trace[u]
    <3>1. u = t /\ r.states = f.states /\ r.said = f.said
      BY <2>2, CloseTrace
    <3>2. n \in 1..Depth(t)
      BY <1>2 DEF Depth
    <3> QED BY <1>5, <3>1, <3>2 DEF StatesInv
  <2> QED BY <2>1, <2>2
<1> QED BY <1>1, <1>4, <1>5 DEF StatesInv, StatesAt

\* Every step keeps StatesInv.
LEMMA StatesKept ==
  ASSUME IInv, StatesInv, [Next]_vars
  PROVE  StatesInv'
<1>1. CASE UNCHANGED vars
  BY <1>1, StatesSame DEF vars, clientVars, countVars
<1>2. ASSUME NEW t \in Threads,
             \/ Run(t) \/ Exit(t) \/ Close(t) \/ State(t)
             \/ \E k \in Keys : Begin(t, k)
             \/ \E r \in Regions : End(t, r)
      PROVE  StatesInv'
  <2>1. CASE Exit(t) \/ \E r \in Regions : End(t, r)
    BY <2>1, StatesSame DEF Exit, End
  <2> QED BY <1>2, <2>1, StatesFrames, StatesClose DEF IInv
<1>3. CASE Finished
  BY <1>1, <1>3 DEF Finished
<1> QED BY <1>1, <1>2, <1>3 DEF Next

-----------------------------------------------------------------------------
(***************************************************************************)
(* The balance of begins and ends.                                         *)
(***************************************************************************)
Nested == [t \in Threads |-> Len(nest[t])]
Framed == [t \in Threads |-> Booked(t)]

\* One thread's term of a sum over the threads changes.
LEMMA ThreadSum ==
  ASSUME NEW f \in [Threads -> Int], NEW g \in [Threads -> Int], NEW t \in Threads,
         \A u \in Threads \ {t} : g[u] = f[u]
  PROVE  /\ SumFunction(f) \in Int /\ SumFunction(g) \in Int
         /\ SumFunction(g) = SumFunction(f) + (g[t] - f[t])
<1>1. /\ SumFunction(f) = SumFunctionOnSet(f, Threads)
      /\ SumFunction(g) = SumFunctionOnSet(g, Threads)
  BY DEF SumFunction
<1>2. \A u \in Threads : f[u] \in Int /\ g[u] \in Int
  OBVIOUS
<1> QED BY <1>1, <1>2, SumInt, SumChange, ThreadsAssumption

\* The terms are numbers.
BooksTyped ==
  /\ Nested \in [Threads -> Int] /\ Framed \in [Threads -> Int]
  /\ unmatched \in Int /\ implicit \in Int /\ overflows \in Int

LEMMA BooksTypes ==
  ASSUME TypeOK
  PROVE  BooksTyped
<1>1. \A t \in Threads : Len(nest[t]) \in Int /\ Depth(t) \in Int
  BY ThreadTypes DEF TypeOK, Depth
<1>2. \A t \in Threads : Booked(t) \in Int
  BY <1>1 DEF Booked
<1> QED BY <1>1, <1>2 DEF TypeOK, Nested, Framed, BooksTyped

\* And they are after a step.
LEMMA BooksTypesNext == TypeOK' => BooksTyped'
<1>1. TypeOK => BooksTyped
  BY BooksTypes
<1> QED BY <1>1, PTL

\* A step of one thread keeps the balance when it changes both sides alike.
LEMMA BooksStep ==
  ASSUME TypeOK, TypeOK', BooksInv, NEW t \in Threads,
         \A u \in Threads \ {t} : Nested'[u] = Nested[u] /\ Framed'[u] = Framed[u],
         tidy' = Threads =>
           /\ tidy = Threads
           /\ (Nested'[t] - Nested[t]) + (unmatched' - unmatched)
                = (Framed'[t] - Framed[t]) + (implicit' - implicit) + (overflows' - overflows)
  PROVE  BooksInv'
<1> SUFFICES ASSUME tidy' = Threads
             PROVE  SumFunction(Nested') + unmatched'
                      = SumFunction(Framed') + implicit' + overflows'
  BY DEF BooksInv, Nested, Framed
<1>1. SumFunction(Nested) + unmatched = SumFunction(Framed) + implicit + overflows
  BY DEF BooksInv, Nested, Framed
<1>2. /\ Nested \in [Threads -> Int] /\ Framed \in [Threads -> Int]
      /\ unmatched \in Int /\ implicit \in Int /\ overflows \in Int
  BY BooksTypes DEF BooksTyped
<1>3. /\ Nested' \in [Threads -> Int] /\ Framed' \in [Threads -> Int]
      /\ unmatched' \in Int /\ implicit' \in Int /\ overflows' \in Int
  BY BooksTypesNext DEF BooksTyped
<1>4. /\ SumFunction(Nested) \in Int /\ SumFunction(Framed) \in Int
      /\ SumFunction(Nested') = SumFunction(Nested) + (Nested'[t] - Nested[t])
      /\ SumFunction(Framed') = SumFunction(Framed) + (Framed'[t] - Framed[t])
  BY <1>2, <1>3, ThreadSum
<1>5. /\ Nested'[t] \in Int /\ Nested[t] \in Int /\ Framed'[t] \in Int /\ Framed[t] \in Int
  BY <1>2, <1>3
<1>6. (Nested'[t] - Nested[t]) + (unmatched' - unmatched)
        = (Framed'[t] - Framed[t]) + (implicit' - implicit) + (overflows' - overflows)
  OBVIOUS
<1> QED BY ONLY <1>1, <1>2, <1>3, <1>4, <1>5, <1>6

\* Threads that do not step have the terms they had.
LEMMA BooksOther ==
  ASSUME NEW u \in Threads, Len(stack'[u]) = Len(stack[u]), closing'[u] = closing[u],
         u \in alive' <=> u \in alive, Len(nest'[u]) = Len(nest[u])
  PROVE  Nested'[u] = Nested[u] /\ Framed'[u] = Framed[u]
<1>1. Booked(u)' = Booked(u)
  BY DEF Booked, Depth
<1> QED BY <1>1 DEF Nested, Framed

\* A step that changes no depth, no nesting and no count.
LEMMA BooksSame ==
  ASSUME TypeOK, BooksInv, UNCHANGED <<closing, alive, nest, tidy, unmatched, implicit, overflows>>,
         \A u \in Threads : Len(stack'[u]) = Len(stack[u])
  PROVE  BooksInv'
<1>1. \A u \in Threads : Nested'[u] = Nested[u] /\ Framed'[u] = Framed[u]
  BY BooksOther
<1>2. Nested' = Nested /\ Framed' = Framed
  BY <1>1 DEF Nested, Framed
<1> QED BY <1>2 DEF BooksInv, Nested, Framed

\* Instructions and declared states leave the books alone.
LEMMA BooksQuiet ==
  ASSUME TypeOK, BooksInv, NEW t \in Threads, Run(t) \/ State(t)
  PROVE  BooksInv'
<1>1. KeepsNumbers
  BY QuietNumbers
<1>2. UNCHANGED <<closing, alive, nest, tidy, unmatched, implicit, overflows>>
  BY DEF Run, State, countVars, programVars
<1> QED BY <1>1, <1>2, BooksSame DEF KeepsNumbers

\* A begin opens a frame or counts an overflow.
LEMMA BooksBegin ==
  ASSUME TypeOK, TypeOK', BooksInv, NEW t \in Threads, NEW k \in Keys, Begin(t, k)
  PROVE  BooksInv'
<1> DEFINE n == Len(stack[t])
           m == Len(nest[t])
<1>1. n \in Nat /\ m \in Nat /\ overflows \in Int /\ unmatched \in Int /\ implicit \in Int
  <2>1. nest[t] \in Seq(Keys) /\ stack[t] \in Seq(Frame)
    BY DEF TypeOK
  <2>2. n \in Nat /\ m \in Nat
    BY <2>1
  <2> QED BY <2>2 DEF TypeOK
<1>2. /\ UNCHANGED <<closing, alive, tidy, unmatched, implicit>> /\ closing[t] = Idle
      /\ nest' = [nest EXCEPT ![t] = Append(@, k)]
  BY DEF Begin, Outside
<1>3. Len(nest'[t]) = m + 1 /\ \A u \in Threads \ {t} : nest'[u] = nest[u]
  <2>1. nest[t] \in Seq(Keys) /\ nest'[t] = Append(nest[t], k)
    BY <1>2 DEF TypeOK
  <2> QED BY <1>2, <2>1 DEF TypeOK
<1>4. \A u \in Threads \ {t} : stack'[u] = stack[u]
  <2>1. CASE HasRoom(t)
    BY <2>1, BeginShape, ThreadTypes
  <2>2. CASE ~HasRoom(t)
    BY <2>2 DEF Begin
  <2> QED BY <2>1, <2>2
<1>5. \/ Len(stack'[t]) = n + 1 /\ overflows' = overflows
      \/ Len(stack'[t]) = n /\ overflows' = overflows + 1
  <2>1. CASE HasRoom(t)
    BY <2>1, BeginShape DEF Begin
  <2>2. CASE ~HasRoom(t)
    BY <2>2 DEF Begin
  <2> QED BY <2>1, <2>2
<1>6. \A u \in Threads \ {t} : Nested'[u] = Nested[u] /\ Framed'[u] = Framed[u]
  BY <1>2, <1>3, <1>4, BooksOther
<1>7. Booked(t) = n /\ Booked(t)' = Len(stack'[t])
  BY <1>2 DEF Booked, Depth
<1>8. /\ Nested'[t] = m + 1 /\ Nested[t] = m
      /\ Framed'[t] = Len(stack'[t]) /\ Framed[t] = n
  BY <1>3, <1>7 DEF Nested, Framed
<1>9. (Nested'[t] - Nested[t]) + (unmatched' - unmatched)
        = (Framed'[t] - Framed[t]) + (implicit' - implicit) + (overflows' - overflows)
  <2> HIDE DEF n, m
  <2> QED BY <1>1, <1>2, <1>5, <1>8
<1> QED BY <1>2, <1>6, <1>9, BooksStep

\* An orderly end starts to close a frame or counts as unmatched.
LEMMA BooksEnd ==
  ASSUME TypeOK, TypeOK', BooksInv, NEW t \in Threads, NEW r \in Regions, End(t, r)
  PROVE  BooksInv'
<1> DEFINE n == Len(stack[t])
           m == Len(nest[t])
<1>1. n \in Nat /\ m \in Nat /\ overflows \in Int /\ unmatched \in Int /\ implicit \in Int
  <2>1. nest[t] \in Seq(Keys) /\ stack[t] \in Seq(Frame)
    BY DEF TypeOK
  <2>2. n \in Nat /\ m \in Nat
    BY <2>1
  <2> QED BY <2>2 DEF TypeOK
<1>2. /\ UNCHANGED <<stack, alive, implicit, overflows>> /\ closing[t] = Idle
      /\ t \in alive /\ Leave(t, r)
  BY DEF End, Outside
<1>3. \A u \in Threads \ {t} : nest'[u] = nest[u] /\ closing'[u] = closing[u]
  <2>1. \A u \in Threads \ {t} : nest'[u] = nest[u]
    BY <1>2 DEF Leave, TypeOK
  <2>2. \A u \in Threads \ {t} : closing'[u] = closing[u]
    <3>1. closing' = closing \/ \E c : closing' = [closing EXCEPT ![t] = c]
      BY DEF End
    <3> QED BY <3>1 DEF TypeOK
  <2> QED BY <2>1, <2>2
<1>4. \A u \in Threads \ {t} : Nested'[u] = Nested[u] /\ Framed'[u] = Framed[u]
  BY <1>2, <1>3, BooksOther
<1>5. ASSUME tidy' = Threads
      PROVE  /\ tidy = Threads
             /\ (Nested'[t] - Nested[t]) + (unmatched' - unmatched)
                  = (Framed'[t] - Framed[t]) + (implicit' - implicit) + (overflows' - overflows)
  <2>1. tidy = Threads /\ nest[t] # <<>> /\ nest' = [nest EXCEPT ![t] = SubSeq(@, 1, Len(@) - 1)]
    BY <1>2, <1>5 DEF Leave, TypeOK
  <2>2. Len(nest'[t]) = m - 1
    <3>1. nest[t] \in Seq(Keys) /\ nest'[t] = SubSeq(nest[t], 1, m - 1)
      BY <2>1 DEF TypeOK
    <3> QED BY <2>1, <3>1
  <2>3. \/ closing'[t] = Idle /\ unmatched' = unmatched + 1
        \/ closing'[t] # Idle /\ unmatched' = unmatched
    <3>1. CASE Found(t, r) = {}
      BY <1>2, <3>1 DEF End, Strays
    <3>2. CASE Found(t, r) # {}
      <4>1. PICK i \in Innermost(Found(t, r)) : closing' = [closing EXCEPT ![t] =
              [to |-> i, end |-> IF TraceLimit > 0 THEN seq + 1 ELSE 0]]
        BY <3>2 DEF End
      <4>2. i \in 1..Depth(t) /\ Depth(t) \in Nat
        BY FoundDepth, ThreadTypes DEF Depth
      <4>3. closing'[t].to = i
        BY <4>1 DEF TypeOK
      <4>4. closing'[t] # Idle
        BY <4>2, <4>3 DEF Idle
      <4> QED BY <3>2, <4>4 DEF End
    <3> QED BY <3>1, <3>2
  <2>4. Booked(t) = n /\ Booked(t)' = IF closing'[t] = Idle THEN n ELSE n - 1
    BY <1>2 DEF Booked, Depth
  <2>5. /\ Nested'[t] = m - 1 /\ Nested[t] = m /\ Framed[t] = n
        /\ Framed'[t] = IF closing'[t] = Idle THEN n ELSE n - 1
    BY <2>2, <2>4 DEF Nested, Framed
  <2> HIDE DEF n, m
  <2> QED BY <1>1, <1>2, <2>1, <2>3, <2>5
<1> QED BY <1>4, <1>5, BooksStep

\* A thread's exit will close all its frames, and none of them by its own end.
LEMMA BooksExit ==
  ASSUME TypeOK, TypeOK', BooksInv, NEW t \in Threads, Exit(t)
  PROVE  BooksInv'
<1>1. UNCHANGED <<stack, implicit, overflows, nest, tidy, unmatched>> /\ closing[t] = Idle
  BY DEF Exit, Outside, programVars
<1>2. \A u \in Threads \ {t} : closing'[u] = closing[u] /\ (u \in alive' <=> u \in alive)
  BY DEF Exit, TypeOK
<1>3. \A u \in Threads \ {t} : Nested'[u] = Nested[u] /\ Framed'[u] = Framed[u]
  BY <1>1, <1>2, BooksOther
<1>4. t \notin alive'
  BY DEF Exit
<1>5. Booked(t)' = Booked(t)
  BY <1>1, <1>4 DEF Booked, Depth
<1>6. Nested'[t] = Nested[t] /\ Framed'[t] = Framed[t]
  BY <1>1, <1>5 DEF Nested, Framed
<1>7. BooksTyped
  BY BooksTypes
<1> QED BY <1>1, <1>3, <1>6, <1>7, BooksStep DEF BooksTyped

\* A close is the one the end was of, or it counts as implicit.
LEMMA BooksClose ==
  ASSUME TypeOK, TypeOK', ClosingInv, BooksInv, NEW t \in Threads, Close(t)
  PROVE  BooksInv'
<1> DEFINE n == Len(stack[t])
<1>1. /\ n \in Nat \ {0} /\ Depth(t) = n /\ Depth(t)' = n - 1
      /\ \A u \in Threads \ {t} : Depth(u)' = Depth(u)
  BY CloseNumbers
<1>2. /\ UNCHANGED <<alive, overflows, unmatched, nest, tidy>> /\ closing[t] # Idle
      /\ implicit' = IF Forced(t) THEN implicit + 1 ELSE implicit
      /\ closing' = IF n = closing[t].to THEN [closing EXCEPT ![t] = Idle] ELSE closing
  BY <1>1 DEF Close, programVars
<1>3. closing[t].to \in 1..n
  BY <1>1, <1>2 DEF ClosingInv
<1>4. /\ \A u \in Threads \ {t} : closing'[u] = closing[u]
      /\ closing'[t] = IF n = closing[t].to THEN Idle ELSE closing[t]
  BY <1>2 DEF TypeOK
<1>5. \A u \in Threads \ {t} : Nested'[u] = Nested[u] /\ Framed'[u] = Framed[u]
  BY <1>1, <1>2, <1>4, BooksOther DEF Depth
<1>6. /\ Booked(t) = IF t \in alive THEN n - 1 ELSE n
      /\ Booked(t)' = IF n # closing[t].to /\ t \in alive THEN n - 1 - 1 ELSE n - 1
  BY <1>1, <1>2, <1>4 DEF Booked
<1>7. Nested'[t] = Nested[t] /\ Framed'[t] = Booked(t)' /\ Framed[t] = Booked(t)
  BY <1>2 DEF Nested, Framed
<1>8. Forced(t) <=> t \notin alive \/ n # closing[t].to
  BY <1>1, <1>3 DEF Forced
<1>9. BooksTyped
  BY BooksTypes
<1>10. (Nested'[t] - Nested[t]) + (unmatched' - unmatched)
         = (Framed'[t] - Framed[t]) + (implicit' - implicit) + (overflows' - overflows)
  <2>1. (Nested'[t] - Nested[t]) = 0 /\ unmatched' - unmatched = 0 /\ overflows' - overflows = 0
    BY <1>2, <1>7, <1>9 DEF BooksTyped
  <2>2. implicit \in Int /\ implicit' - implicit = IF Forced(t) THEN 1 ELSE 0
    BY <1>2, <1>9 DEF BooksTyped
  <2>3. Framed'[t] - Framed[t] = IF Forced(t) THEN -1 ELSE 0
    <3> HIDE DEF n
    <3>1. CASE t \in alive
      BY <1>1, <1>6, <1>7, <1>8, <3>1
    <3>2. CASE t \notin alive
      BY <1>1, <1>6, <1>7, <1>8, <3>2
    <3> QED BY <3>1, <3>2
  <2> QED BY <2>1, <2>2, <2>3
<1> QED BY <1>2, <1>5, <1>10, BooksStep

\* Every step keeps the balance.
LEMMA BooksKept ==
  ASSUME IInv, BooksInv, [Next]_vars
  PROVE  BooksInv'
<1>1. TypeOK /\ ClosingInv /\ TypeOK'
  BY NextIInv DEF IInv
<1>2. CASE UNCHANGED vars
  BY <1>1, <1>2, BooksSame DEF vars, clientVars, countVars, programVars
<1>3. ASSUME NEW t \in Threads,
             \/ Run(t) \/ Exit(t) \/ Close(t) \/ State(t)
             \/ \E k \in Keys : Begin(t, k)
             \/ \E r \in Regions : End(t, r)
      PROVE  BooksInv'
  BY <1>1, <1>3, BooksQuiet, BooksBegin, BooksEnd, BooksExit, BooksClose
<1>4. CASE Finished
  BY <1>2, <1>4 DEF Finished
<1> QED BY <1>2, <1>3, <1>4 DEF Next

-----------------------------------------------------------------------------
(***************************************************************************)
(* A silent run.                                                           *)
(***************************************************************************)
\* What m frames ran in a key is what the last of them did and the others.
LEMMA OwnTake ==
  ASSUME NEW s, NEW m \in Nat \ {0}, NEW k, \A i \in 1..m : s[i].own \in Int
  PROVE  /\ OwnIn(s, m, k) = Worth(s[m], k) + OwnIn(s, m - 1, k)
         /\ OwnIn(s, m, k) \in Int /\ OwnIn(s, m - 1, k) \in Int /\ Worth(s[m], k) \in Int
<1> DEFINE f == [i \in 1..m |-> Worth(s[i], k)]
           g == [i \in 1..(m - 1) |-> Worth(s[i], k)]
<1>1. IsFiniteSet(1..m) /\ IsFiniteSet(1..(m - 1)) /\ (1..m) \ {m} = 1..(m - 1) /\ m \in 1..m
  BY FS_Interval
<1>2. \A i \in 1..m : Worth(s[i], k) \in Int
  BY DEF Worth
<1>3. \A i \in 1..(m - 1) : f[i] = g[i] /\ g[i] \in Int
  BY <1>2
<1>4. (\A i \in 1..m : f[i] \in Int) /\ f[m] = Worth(s[m], k)
  BY <1>2
<1>5. SumFunctionOnSet(f, 1..m) = f[m] + SumFunctionOnSet(f, 1..(m - 1))
  <2>1. PICK S : S = 1..m
    OBVIOUS
  <2> HIDE DEF f
  <2>2. IsFiniteSet(S) /\ m \in S /\ (\A i \in S : f[i] \in Int) /\ S \ {m} = 1..(m - 1)
    BY ONLY <1>1, <1>4, <2>1
  <2>3. SumFunctionOnSet(f, S) = f[m] + SumFunctionOnSet(f, S \ {m})
    BY ONLY <2>2, SumTake
  <2> QED BY ONLY <2>1, <2>2, <2>3
<1>6. SumFunctionOnSet(f, 1..(m - 1)) = SumFunctionOnSet(g, 1..(m - 1))
  <2> HIDE DEF f, g
  <2> QED BY <1>1, <1>3, SumSame
<1>7. SumFunctionOnSet(f, 1..m) \in Int /\ SumFunctionOnSet(g, 1..(m - 1)) \in Int
  <2> HIDE DEF f, g
  <2> QED BY <1>1, <1>3, <1>4, SumInt
<1> QED BY <1>1, <1>2, <1>4, <1>5, <1>6, <1>7 DEF OwnIn

\* No frames ran nothing.
LEMMA OwnNone == ASSUME NEW s, NEW k PROVE OwnIn(s, 0, k) = 0
<1>1. 1..0 = {}
  OBVIOUS
<1> QED BY <1>1, SumEmpty DEF OwnIn

\* Frames of the same instances that ran as much.
RanAlike(r, s, m) == \A i \in 1..m : r[i].key = s[i].key /\ r[i].own = s[i].own

LEMMA OwnSame ==
  ASSUME NEW r, NEW s, NEW m \in Nat, NEW k, RanAlike(r, s, m)
  PROVE  OwnIn(r, m, k) = OwnIn(s, m, k)
<1> DEFINE f == [i \in 1..m |-> Worth(s[i], k)]
           g == [i \in 1..m |-> Worth(r[i], k)]
<1>1. IsFiniteSet(1..m)
  BY FS_Interval
<1>2. \A i \in 1..m : g[i] = f[i]
  BY DEF Worth, RanAlike
<1>3. SumFunctionOnSet(g, 1..m) = SumFunctionOnSet(f, 1..m)
  <2> HIDE DEF f, g
  <2> QED BY <1>1, <1>2, SumSame
<1> QED BY <1>3 DEF OwnIn

\* The types of what InStep reads.
LEMMA StepTypes ==
  ASSUME TypeOK, NEW t \in Threads
  PROVE  /\ nest[t] \in Seq(Keys) /\ Len(nest[t]) \in Nat /\ stack[t] \in Seq(Frame)
         /\ Depth(t) \in Nat /\ Len(stack[t]) = Depth(t)
         /\ ran[t] \in [Keys -> Nat] /\ selfSum[t] \in [Keys -> Int] /\ unmatched \in Nat
         /\ \A i \in 1..Depth(t) : stack[t][i].own \in Int /\ stack[t][i].key \in Keys
<1>1. nest[t] \in Seq(Keys) /\ stack[t] \in Seq(Frame)
  BY DEF TypeOK
<1>2. \A i \in 1..Depth(t) : stack[t][i].own \in Int /\ stack[t][i].key \in Keys
  BY <1>1, ElementFrame, FrameFields DEF Depth
<1> QED BY <1>1, <1>2 DEF TypeOK, Depth

\* A thread that does not step stays as it is.
LEMMA SilentOther ==
  ASSUME NEW u, SilentAt(u), stack'[u] = stack[u], closing'[u] = closing[u],
         nest'[u] = nest[u], ran'[u] = ran[u], selfSum'[u] = selfSum[u],
         u \in alive' => u \in alive, unmatched' = 0 => unmatched = 0
  PROVE  SilentAt(u)'
<1>1. Depth(u)' = Depth(u) /\ Target(u)' = Target(u)
  BY DEF Depth, Target
<1>2. InStep(u)' <=> InStep(u)
  BY <1>1 DEF InStep
<1> QED BY <1>1, <1>2 DEF SilentAt

\* A program that runs an instruction in step runs it where its frames say.
LEMMA SilentRun ==
  ASSUME TypeOK, NEW t \in Threads, SilentAt(t), Run(t)
  PROVE  SilentAt(t)'
<1> DEFINE n == Depth(t)
<1>1. /\ closing[t] = Idle
      /\ UNCHANGED <<closing, alive, selfSum, unmatched, nest>>
  BY DEF Run, Outside, countVars
<1>2. n \in Nat /\ Target(t) = n /\ Depth(t)' = n /\ Target(t)' = n
  <2>1. KeepsNumbers
    BY QuietNumbers
  <2> QED BY <1>1, <2>1, StepTypes DEF KeepsNumbers, Depth, Target
<1>3. ASSUME InStep(t) PROVE InStep(t)'
  <2>1. CASE stack[t] = <<>>
    <3>1. nest[t] = <<>>
      <4>1. Len(nest[t]) = 0 /\ nest[t] \in Seq(Keys)
        BY <1>2, <1>3, <2>1, StepTypes DEF InStep, Depth
      <4> QED BY <4>1
    <3>2. ran' = ran /\ stack' = stack
      BY <2>1, <3>1 DEF Run
    <3> QED BY <1>1, <1>2, <1>3, <3>2 DEF InStep
  <2>2. CASE stack[t] # <<>>
    <3>1. /\ n \in Nat \ {0}
          /\ \A i \in 1..(n - 1) : stack'[t][i] = stack[t][i]
          /\ SameInstance(stack[t][n], stack'[t][n])
          /\ stack'[t][n].own = stack[t][n].own + 1
      BY <2>2, RunShape DEF Depth
    <3>2. \A i \in 1..n : stack'[t][i].key = stack[t][i].key
      <4>1. \A i \in 1..n : i = n \/ i \in 1..(n - 1)
        BY <3>1
      <4> QED BY <3>1, <4>1 DEF SameInstance
    <3>3. nest[t] # <<>> /\ Top(nest[t]) = stack[t][n].key
      <4>1. Len(nest[t]) = n /\ n \in 1..Target(t)
        BY <1>2, <1>3, <3>1 DEF InStep
      <4>2. nest[t] # <<>>
        BY <3>1, <4>1
      <4> QED BY <1>3, <4>1, <4>2 DEF InStep, Top
    <3>4. PICK c \in Keys : c = stack[t][n].key
      BY <3>1, StepTypes
    <3>5. ran' = [ran EXCEPT ![t] = Add(@, c)]
      BY <3>3, <3>4 DEF Run
    <3>6. ASSUME NEW k \in Keys
          PROVE  ran'[t][k] = selfSum[t][k] + OwnIn(stack'[t], n, k)
      <4>1. ran[t][k] = selfSum[t][k] + OwnIn(stack[t], n, k)
        BY <1>3 DEF InStep
      <4>2. ran[t] \in [Keys -> Nat] /\ selfSum[t] \in [Keys -> Int]
            /\ \A i \in 1..n : stack[t][i].own \in Int
        BY StepTypes
      <4>3. ran'[t][k] = ran[t][k] + (IF k = c THEN 1 ELSE 0)
        BY <3>5, <4>2 DEF Add, TypeOK
      <4>4. \A i \in 1..n : stack'[t][i].own \in Int
        <5>1. \A i \in 1..n : i = n \/ i \in 1..(n - 1)
          BY <3>1
        <5>2. n \in 1..n
          BY <3>1
        <5> QED BY <3>1, <4>2, <5>1, <5>2
      <4>5. /\ OwnIn(stack[t], n, k) = Worth(stack[t][n], k) + OwnIn(stack[t], n - 1, k)
            /\ OwnIn(stack[t], n - 1, k) \in Int /\ Worth(stack[t][n], k) \in Int
        BY <3>1, <4>2, OwnTake
      <4>6. OwnIn(stack'[t], n, k) = Worth(stack'[t][n], k) + OwnIn(stack'[t], n - 1, k)
        BY <3>1, <4>4, OwnTake
      <4>7. OwnIn(stack'[t], n - 1, k) = OwnIn(stack[t], n - 1, k)
        <5>1. n - 1 \in Nat
          BY <3>1
        <5>2. RanAlike(stack'[t], stack[t], n - 1)
          BY <3>1 DEF RanAlike
        <5> HIDE DEF n
        <5> QED BY ONLY <5>1, <5>2, OwnSame
      <4>8. Worth(stack'[t][n], k) = Worth(stack[t][n], k) + (IF k = c THEN 1 ELSE 0)
        <5>1. n \in 1..n
          BY <3>1
        <5>2. stack[t][n].own \in Int /\ stack'[t][n].key = stack[t][n].key
          BY <3>2, <4>2, <5>1
        <5> QED BY <3>1, <3>4, <5>2 DEF Worth
      <4>9. ran[t][k] \in Int /\ selfSum[t][k] \in Int
        BY <4>2
      <4> HIDE DEF n
      <4> QED BY <4>1, <4>3, <4>5, <4>6, <4>7, <4>8, <4>9
    <3> HIDE DEF n
    <3> QED BY <1>1, <1>2, <1>3, <3>2, <3>6 DEF InStep
  <2> QED BY <2>1, <2>2
<1> QED BY <1>1, <1>2, <1>3 DEF SilentAt

\* A step that leaves the instances, what they ran and the nesting as they were.
LEMMA SilentSame ==
  ASSUME TypeOK, NEW t \in Threads, SilentAt(t), Len(stack'[t]) = Len(stack[t]),
         RanAlike(stack'[t], stack[t], Depth(t)),
         UNCHANGED <<closing, alive, nest, ran, selfSum, unmatched>>
  PROVE  SilentAt(t)'
<1>1. Depth(t) \in Nat /\ Depth(t)' = Depth(t) /\ Target(t)' = Target(t)
  BY StepTypes DEF Depth, Target
<1>2. \A k \in Keys : OwnIn(stack'[t], Depth(t), k) = OwnIn(stack[t], Depth(t), k)
  BY <1>1, OwnSame
<1>3. ASSUME InStep(t) PROVE InStep(t)'
  <2>1. Target(t) \in Int /\ Target(t) <= Depth(t)
    BY <1>1, <1>3, ThreadTypes DEF InStep, Target, TypeOK
  <2>2. \A i \in 1..Target(t) : i \in 1..Depth(t)
    BY <1>1, <2>1
  <2> QED BY <1>1, <1>2, <1>3, <2>2 DEF InStep, RanAlike
<1> QED BY <1>1, <1>3 DEF SilentAt

\* A declared state.
LEMMA SilentState ==
  ASSUME TypeOK, NEW t \in Threads, SilentAt(t), State(t)
  PROVE  SilentAt(t)'
<1> DEFINE n == Len(stack[t])
<1>1. /\ n \in Nat \ {0} /\ Len(stack'[t]) = n
      /\ \A i \in 1..(n - 1) : stack'[t][i] = stack[t][i]
      /\ SameInstance(stack[t][n], stack'[t][n])
      /\ stack'[t][n].own = stack[t][n].own
  BY StateShape
<1>2. \A i \in 1..n : i = n \/ i \in 1..(n - 1)
  BY <1>1
<1>3. RanAlike(stack'[t], stack[t], Depth(t))
  BY <1>1, <1>2 DEF Depth, SameInstance, RanAlike
<1>4. UNCHANGED <<closing, alive, nest, ran, selfSum, unmatched>>
  BY DEF State, programVars
<1> QED BY <1>1, <1>3, <1>4, SilentSame

\* A begin opens the frame that the program means, or the program is in a region
\* that has none.
LEMMA SilentBegin ==
  ASSUME TypeOK, NEW t \in Threads, NEW c \in Keys, SilentAt(t), Begin(t, c)
  PROVE  SilentAt(t)'
<1> DEFINE n == Depth(t)
           m == Len(nest[t])
<1>1. /\ closing[t] = Idle /\ t \in alive
      /\ UNCHANGED <<closing, alive, ran, selfSum, unmatched>>
      /\ nest' = [nest EXCEPT ![t] = Append(@, c)]
  BY DEF Begin, Outside
<1>2. n \in Nat /\ m \in Nat /\ Target(t) = n
  BY <1>1, StepTypes DEF Target
<1>3. /\ nest'[t] = Append(nest[t], c) /\ Len(nest'[t]) = m + 1 /\ nest'[t][m + 1] = c
      /\ \A i \in 1..m : nest'[t][i] = nest[t][i]
  <2>1. nest[t] \in Seq(Keys) /\ nest'[t] = Append(nest[t], c)
    BY <1>1, StepTypes DEF TypeOK
  <2> QED BY <2>1
<1>4. CASE ~HasRoom(t)
  <2>1. Target(t)' = n
    BY <1>1, <1>2, <1>4 DEF Begin, Target, Depth
  <2>2. unmatched = 0 => m = n \/ m > n
    BY <1>1, <1>2 DEF SilentAt, InStep
  <2>3. unmatched = 0 => m + 1 > n
    <3> HIDE DEF n, m
    <3> QED BY <1>2, <2>2
  <2> QED BY <1>1, <1>3, <2>1, <2>3 DEF SilentAt
<1>5. CASE HasRoom(t)
  <2>1. /\ Depth(t)' = n + 1 /\ Target(t)' = n + 1
        /\ \A i \in 1..n : stack'[t][i] = stack[t][i]
        /\ stack'[t][n + 1].key = c /\ stack'[t][n + 1].own = 0
    BY <1>1, <1>5, BeginShape DEF Depth, Target
  <2>2. ASSUME InStep(t) PROVE InStep(t)'
    <3>1. m = n
      BY <1>2, <2>2 DEF InStep
    <3>2. ASSUME NEW i \in 1..(n + 1) PROVE nest'[t][i] = stack'[t][i].key
      <4>1. CASE i = n + 1
        BY <1>3, <2>1, <3>1, <4>1
      <4>2. CASE i # n + 1
        <5>1. i \in 1..n
          BY <1>2, <4>2
        <5>2. nest[t][i] = stack[t][i].key
          BY <1>2, <2>2, <5>1 DEF InStep
        <5> QED BY <1>3, <2>1, <3>1, <5>1, <5>2
      <4> QED BY <4>1, <4>2
    <3>3. ASSUME NEW k \in Keys
          PROVE  ran[t][k] = selfSum[t][k] + OwnIn(stack'[t], n + 1, k)
      <4>1. ran[t][k] = selfSum[t][k] + OwnIn(stack[t], n, k)
        BY <2>2 DEF InStep
      <4>2. ASSUME NEW i \in 1..(n + 1) PROVE stack'[t][i].own \in Int
        <5>1. i = n + 1 \/ i \in 1..n
          BY <1>2
        <5> QED BY <2>1, <5>1, StepTypes
      <4>3. n + 1 \in Nat \ {0} /\ (n + 1) - 1 = n
        BY <1>2
      <4>4. OwnIn(stack'[t], n + 1, k) = Worth(stack'[t][n + 1], k) + OwnIn(stack'[t], n, k)
            /\ OwnIn(stack'[t], n, k) \in Int
        <5> HIDE DEF n
        <5>1. /\ OwnIn(stack'[t], n + 1, k) =
                   Worth(stack'[t][n + 1], k) + OwnIn(stack'[t], (n + 1) - 1, k)
              /\ OwnIn(stack'[t], (n + 1) - 1, k) \in Int
          BY ONLY <4>2, <4>3, OwnTake
        <5> QED BY <4>3, <5>1
      <4>5. OwnIn(stack'[t], n, k) = OwnIn(stack[t], n, k)
        <5>1. RanAlike(stack'[t], stack[t], n)
          BY <2>1 DEF RanAlike
        <5> HIDE DEF n
        <5> QED BY ONLY <1>2, <5>1, OwnSame
      <4>6. Worth(stack'[t][n + 1], k) = 0
        BY <2>1 DEF Worth
      <4> HIDE DEF n
      <4> QED BY <4>1, <4>4, <4>5, <4>6
    <3> QED BY <1>1, <1>3, <2>1, <3>1, <3>2, <3>3 DEF InStep
  <2>3. m > n => Len(nest'[t]) > Target(t)'
    BY <1>2, <1>3, <2>1
  <2> QED BY <1>1, <1>2, <2>2, <2>3 DEF SilentAt
<1> QED BY <1>4, <1>5

\* An orderly end in step is of the innermost frame; otherwise the region it leaves
\* has no frame, and the program remains in one that has none.
LEMMA SilentEnd ==
  ASSUME TypeOK, NEW t \in Threads, NEW r \in Regions, SilentAt(t), End(t, r), t \in tidy'
  PROVE  SilentAt(t)'
<1> DEFINE n == Depth(t)
           m == Len(nest[t])
<1> SUFFICES ASSUME unmatched' = 0
             PROVE  InStep(t)' \/ Len(nest'[t]) > Target(t)'
  BY DEF SilentAt
<1>1. /\ closing[t] = Idle /\ t \in alive /\ Leave(t, r)
      /\ UNCHANGED <<stack, alive, ran, selfSum>>
  BY DEF End, Outside
<1>2. n \in Nat /\ m \in Nat /\ Target(t) = n /\ unmatched \in Nat /\ Depth(t)' = n
  BY <1>1, StepTypes DEF Target, Depth
<1>3. Found(t, r) # {} /\ unmatched = 0
  <2>1. Found(t, r) = {} => unmatched' = unmatched + 1
    BY DEF End, Strays
  <2>2. Found(t, r) # {} => unmatched' = unmatched
    BY DEF End
  <2>3. unmatched + 1 # 0
    BY <1>2
  <2> QED BY <2>1, <2>2, <2>3
<1>4. PICK i \in Innermost(Found(t, r)) : closing' = [closing EXCEPT ![t] =
        [to |-> i, end |-> IF TraceLimit > 0 THEN seq + 1 ELSE 0]]
  BY <1>3 DEF End
<1>5. i \in 1..n
  BY FoundDepth
<1>6. closing'[t].to = i
  BY <1>4 DEF TypeOK
<1>7. Target(t)' = i - 1
  <2>1. closing'[t] # Idle
    BY <1>5, <1>6 DEF Idle
  <2> QED BY <1>6, <2>1 DEF Target
<1>8. nest[t] # <<>> /\ RegionOf[Top(nest[t])] = r /\ nest'[t] = SubSeq(nest[t], 1, m - 1)
  BY <1>1 DEF Leave, TypeOK
<1>9. /\ m \in Nat \ {0} /\ Len(nest'[t]) = m - 1
      /\ \A j \in 1..(m - 1) : nest'[t][j] = nest[t][j]
  <2>1. nest[t] \in Seq(Keys)
    BY StepTypes
  <2> QED BY <1>8, <2>1
<1>10. CASE m > n
  <2> HIDE DEF n, m
  <2> QED BY <1>2, <1>5, <1>7, <1>9, <1>10
<1>11. CASE InStep(t)
  <2>1. m = n /\ n \in 1..n /\ \A j \in 1..n : nest[t][j] = stack[t][j].key
    BY <1>2, <1>9, <1>11 DEF InStep
  <2>2. n \in Found(t, r)
    BY <1>8, <2>1 DEF Found, Top
  <2>3. i = n
    <3>1. n <= i
      BY <2>2 DEF Innermost
    <3> HIDE DEF n
    <3> QED BY <1>2, <1>5, <3>1
  <2>4. \A j \in 1..(n - 1) : nest'[t][j] = stack'[t][j].key
    <3>1. \A j \in 1..(n - 1) : j \in 1..n /\ j \in 1..(m - 1)
      BY <1>2, <2>1
    <3> QED BY <1>1, <1>9, <2>1, <3>1
  <2>5. \A k \in Keys : ran'[t][k] = selfSum'[t][k] + OwnIn(stack'[t], n, k)
    BY <1>1, <1>11 DEF InStep
  <2> QED BY <1>2, <1>6, <1>7, <1>9, <2>1, <2>3, <2>4, <2>5 DEF InStep
<1>12. m > n \/ InStep(t)
  BY <1>1, <1>2, <1>3 DEF SilentAt
<1> QED BY <1>10, <1>11, <1>12

\* A thread that leaves has left all regions or will never end the others.
LEMMA SilentExit ==
  ASSUME TypeOK, NEW t \in Threads, SilentAt(t), Exit(t)
  PROVE  SilentAt(t)'
<1>1. /\ closing[t] = Idle /\ t \in alive /\ t \notin alive'
      /\ UNCHANGED <<stack, ran, selfSum, nest, unmatched>>
  BY DEF Exit, Outside, programVars
<1>2. Depth(t) \in Nat /\ Len(nest[t]) \in Nat /\ Depth(t)' = Depth(t) /\ Target(t) = Depth(t)
  BY <1>1, StepTypes DEF Depth, Target
<1>3. CASE nest[t] # <<>>
  BY <1>1, <1>3 DEF SilentAt
<1>4. CASE nest[t] = <<>>
  <2>1. Len(nest[t]) = 0
    BY <1>4
  <2>2. unmatched = 0 => InStep(t)
    BY <1>1, <1>2, <2>1 DEF SilentAt
  <2>3. ASSUME InStep(t) PROVE InStep(t)'
    <3>1. Len(stack[t]) = 0 /\ stack[t] \in Seq(Frame)
      BY <1>2, <2>1, <2>3, StepTypes DEF InStep, Depth
    <3>2. stack[t] = <<>>
      BY <3>1
    <3>3. closing' = closing
      BY <3>2 DEF Exit
    <3> QED BY <1>1, <1>2, <2>3, <3>3 DEF InStep, Target
  <2> QED BY <1>1, <2>2, <2>3 DEF SilentAt
<1> QED BY <1>3, <1>4

\* A close hands what its frame ran to the key.
LEMMA SilentClose ==
  ASSUME TypeOK, ClosingInv, FrameInv, NEW t \in Threads, SilentAt(t), Close(t)
  PROVE  SilentAt(t)'
<1> DEFINE n == Len(stack[t])
           f == stack[t][n]
<1>1. /\ n \in Nat \ {0} /\ Depth(t) = n /\ Depth(t)' = n - 1
  BY CloseNumbers
<1>2. /\ closing[t] # Idle /\ UNCHANGED <<alive, nest, ran, unmatched>>
      /\ selfSum' = [selfSum EXCEPT ![t][f.key] = @ + (clock[t] - f.total - f.kids)]
      /\ closing' = IF n = closing[t].to THEN [closing EXCEPT ![t] = Idle] ELSE closing
  BY <1>1 DEF Close, Depth, programVars
<1>3. closing'[t] = IF n = closing[t].to THEN Idle ELSE closing[t]
  BY <1>2 DEF TypeOK
<1>4. Target(t)' = Target(t)
  BY <1>1, <1>2, <1>3 DEF Target
<1>5. ASSUME InStep(t) PROVE InStep(t)'
  <2>1. closing[t].to = n /\ Target(t) = n - 1 /\ closing'[t] = Idle
    BY <1>1, <1>2, <1>3, <1>5 DEF InStep, Target
  <2>2. ASSUME NEW i \in 1..(n - 1)
        PROVE  stack'[t][i].key = stack[t][i].key /\ stack'[t][i].own = stack[t][i].own
    <3>1. /\ \A j \in 1..(n - 2) : stack'[t][j] = stack[t][j]
          /\ n > 1 => /\ SameInstance(stack[t][n - 1], stack'[t][n - 1])
                      /\ stack'[t][n - 1].own = stack[t][n - 1].own
      BY CloseShape
    <3>2. n > 1 /\ (i = n - 1 \/ i \in 1..(n - 2))
      BY <1>1
    <3> QED BY <3>1, <3>2 DEF SameInstance
  <2>3. PICK c \in Keys : c = f.key
    BY <1>1, StepTypes
  <2>4. clock[t] - f.total - f.kids = f.own
    BY CloseWorth
  <2>5. ASSUME NEW k \in Keys
        PROVE  ran[t][k] = selfSum'[t][k] + OwnIn(stack'[t], n - 1, k)
    <3>1. ran[t][k] = selfSum[t][k] + OwnIn(stack[t], n, k)
      BY <1>1, <1>5 DEF InStep
    <3>2. \A i \in 1..n : stack[t][i].own \in Int
      BY <1>1, StepTypes
    <3>3. /\ OwnIn(stack[t], n, k) = Worth(f, k) + OwnIn(stack[t], n - 1, k)
          /\ OwnIn(stack[t], n - 1, k) \in Int /\ Worth(f, k) \in Int
      BY <1>1, <3>2, OwnTake
    <3>4. OwnIn(stack'[t], n - 1, k) = OwnIn(stack[t], n - 1, k)
      <4>1. n - 1 \in Nat
        BY <1>1
      <4>2. RanAlike(stack'[t], stack[t], n - 1)
        BY <2>2 DEF RanAlike
      <4> HIDE DEF n
      <4> QED BY ONLY <4>1, <4>2, OwnSame
    <3>5. selfSum'[t][k] = selfSum[t][k] + (IF k = c THEN f.own ELSE 0)
      <4>1. selfSum' = [selfSum EXCEPT ![t][c] = @ + f.own]
        BY <1>2, <2>3, <2>4
      <4>2. selfSum[t][k] \in Int
        BY StepTypes
      <4> HIDE DEF f, n
      <4> QED BY <4>1, <4>2 DEF TypeOK
    <3>6. Worth(f, k) = IF k = c THEN f.own ELSE 0
      BY <2>3 DEF Worth
    <3>7. selfSum[t][k] \in Int
      BY StepTypes
    <3> HIDE DEF f, n
    <3> QED BY <3>1, <3>3, <3>4, <3>5, <3>6, <3>7
  <2>6. \A i \in 1..(n - 1) : nest'[t][i] = stack'[t][i].key
    BY <1>2, <1>5, <2>1, <2>2 DEF InStep
  <2>7. Len(nest'[t]) = n - 1
    BY <1>2, <1>5, <2>1 DEF InStep
  <2> QED BY <1>1, <1>2, <1>4, <2>1, <2>5, <2>6, <2>7 DEF InStep
<1> QED BY <1>2, <1>4, <1>5 DEF SilentAt

\* Of the threads that do not step, a step changes nothing that SilentInv reads.
LEMMA SilentElsewhere ==
  ASSUME TypeOK, ClosingInv, NEW t \in Threads, NEW u \in Threads, u # t,
         \/ Run(t) \/ Exit(t) \/ Close(t) \/ State(t)
         \/ \E k \in Keys : Begin(t, k)
         \/ \E r \in Regions : End(t, r)
  PROVE  /\ stack'[u] = stack[u] /\ closing'[u] = closing[u] /\ nest'[u] = nest[u]
         /\ ran'[u] = ran[u] /\ selfSum'[u] = selfSum[u]
         /\ u \in alive' => u \in alive
         /\ unmatched' = 0 => unmatched = 0
<1>1. stack'[u] = stack[u]
  <2>1. CASE stack' = stack
    BY <2>1
  <2>2. CASE stack' # stack
    <3>1. stack' = [stack EXCEPT ![t] = stack'[t]]
      <4>1. CASE Run(t)
        <5>1. stack[t] # <<>>
          BY <2>2, <4>1 DEF Run
        <5> QED BY <4>1, <5>1, RunShape
      <4>2. CASE \E k \in Keys : Begin(t, k)
        <5>1. HasRoom(t)
          BY <2>2, <4>2 DEF Begin
        <5> QED BY <4>2, <5>1, BeginShape
      <4>3. CASE State(t) \/ Close(t)
        BY <4>3, StateShape, CloseShape
      <4>4. CASE Exit(t) \/ \E r \in Regions : End(t, r)
        BY <2>2, <4>4 DEF Exit, End
      <4> QED BY <4>1, <4>2, <4>3, <4>4
    <3> QED BY <3>1, ThreadTypes
  <2> QED BY <2>1, <2>2
<1>2. closing'[u] = closing[u]
  <2>1. closing' = closing \/ \E c : closing' = [closing EXCEPT ![t] = c]
    BY DEF Run, Exit, Close, State, Begin, End
  <2> QED BY <2>1 DEF TypeOK
<1>3. nest'[u] = nest[u]
  <2>1. nest' = nest \/ \E c : nest' = [nest EXCEPT ![t] = c]
    BY DEF Run, Exit, Close, State, Begin, End, Leave, programVars
  <2> QED BY <2>1 DEF TypeOK
<1>4. ran'[u] = ran[u]
  <2>1. ran' = ran \/ \E c : ran' = [ran EXCEPT ![t] = c]
    BY DEF Run, Exit, Close, State, Begin, End, programVars
  <2> QED BY <2>1 DEF TypeOK
<1>5. selfSum'[u] = selfSum[u]
  <2>1. selfSum' = selfSum \/ \E c : selfSum' = [selfSum EXCEPT ![t] = c]
    BY DEF Run, Exit, Close, State, Begin, End
  <2> QED BY <2>1 DEF TypeOK
<1>6. u \in alive' => u \in alive
  BY DEF Run, Exit, Close, State, Begin, End
<1>7. unmatched' = 0 => unmatched = 0
  <2>1. unmatched' \in {unmatched, unmatched + 1} /\ unmatched \in Nat
    BY DEF Run, Exit, Close, State, Begin, End, countVars, Strays, TypeOK
  <2> QED BY <2>1
<1> QED BY <1>1, <1>2, <1>3, <1>4, <1>5, <1>6, <1>7

\* Every step keeps SilentInv.
LEMMA SilentKept ==
  ASSUME IInv, SilentInv, [Next]_vars
  PROVE  SilentInv'
<1>1. TypeOK /\ ClosingInv /\ FrameInv
  BY DEF IInv
<1>2. CASE UNCHANGED vars
  <2>1. UNCHANGED <<stack, closing, nest, ran, selfSum, alive, unmatched, tidy>>
    BY <1>2 DEF vars, clientVars, countVars, programVars
  <2> QED BY <2>1, SilentOther DEF SilentInv
<1>3. ASSUME NEW t \in Threads,
             \/ Run(t) \/ Exit(t) \/ Close(t) \/ State(t)
             \/ \E k \in Keys : Begin(t, k)
             \/ \E r \in Regions : End(t, r)
      PROVE  SilentInv'
  <2>1. tidy' \subseteq tidy /\ tidy \subseteq Threads
    BY <1>1, <1>3 DEF Run, Exit, Close, State, Begin, End, Leave, programVars, TypeOK
  <2>2. ASSUME NEW u \in tidy' PROVE SilentAt(u)'
    <3>1. SilentAt(u) /\ u \in Threads
      BY <2>1 DEF SilentInv
    <3>2. CASE u = t
      BY <1>1, <1>3, <3>1, <3>2, SilentRun, SilentExit, SilentClose, SilentState,
         SilentBegin, SilentEnd
    <3>3. CASE u # t
      BY <1>1, <1>3, <3>1, <3>3, SilentElsewhere, SilentOther
    <3> QED BY <3>2, <3>3
  <2> QED BY <2>2 DEF SilentInv
<1>4. CASE Finished
  BY <1>2, <1>4 DEF Finished
<1> QED BY <1>2, <1>3, <1>4 DEF Next

-----------------------------------------------------------------------------
(***************************************************************************)
(* The theorems.                                                           *)
(***************************************************************************)
BooksIInv ==
  FiniteInv /\ StatsAreTrace /\ KidsInv /\ InclIsSubtree /\ StatesInv /\ BooksInv /\ SilentInv

\* The initial states satisfy BooksIInv.
LEMMA InitBooks ==
  ASSUME Init
  PROVE  BooksIInv
<1>1. FiniteInv
  BY FS_EmptySet DEF Init, FiniteInv
<1>2. StatsAreTrace
  <2>1. ASSUME NEW t \in Threads, NEW k \in Keys
        PROVE  /\ count[t][k] = Cardinality({r \in trace[t] : r.key = k})
               /\ selfSum[t][k] = SumFunction([r \in {x \in trace[t] : x.key = k} |-> r.self])
    <3>1. {r \in trace[t] : r.key = k} = {}
      BY DEF Init
    <3>2. SumFunction([r \in {} |-> r.self]) = 0
      <4>1. {} \subseteq Record /\ IsFiniteSet({})
        BY FS_EmptySet
      <4>2. SumFunction([r \in {} |-> r.self]) = SumFunctionOnSet(SelfOf, {})
        BY ONLY <4>1, RecordSums
      <4> QED BY <4>2, SumEmpty
    <3>3. count[t][k] = 0 /\ selfSum[t][k] = 0
      BY DEF Init
    <3> QED BY <3>1, <3>2, <3>3, FS_EmptySet
  <2> QED BY <2>1 DEF StatsAreTrace
<1>3. \A t \in Threads : Depth(t) = 0 /\ closing[t] = Idle /\ nest[t] = <<>>
  BY DEF Init, Depth
<1>4. KidsInv /\ InclIsSubtree /\ StatesInv
  BY <1>3 DEF Init, KidsInv, InclIsSubtree, StatesInv
<1>5. BooksInv
  <2>1. \A t \in Threads : Len(nest[t]) = 0 /\ Booked(t) = 0
    BY <1>3 DEF Booked
  <2>2. [t \in Threads |-> Len(nest[t])] = [t \in Threads |-> Booked(t)]
    BY <2>1
  <2>3. SumFunction([t \in Threads |-> Len(nest[t])]) = 0
    <3> DEFINE f == [t \in Threads |-> Len(nest[t])]
    <3>1. \A t \in Threads : f[t] = 0
      BY <2>1
    <3>2. SumFunction(f) = SumFunctionOnSet(f, Threads)
      BY DEF SumFunction
    <3> HIDE DEF f
    <3>3. SumFunction(f) = 0
      BY <3>1, <3>2, SumZero, ThreadsAssumption
    <3> QED BY <3>3 DEF f
  <2>4. unmatched = 0 /\ implicit = 0 /\ overflows = 0
    BY DEF Init
  <2> QED BY <2>2, <2>3, <2>4 DEF BooksInv
<1>6. SilentInv
  <2>1. ASSUME NEW t \in Threads PROVE InStep(t)
    <3>1. Target(t) = 0 /\ Len(nest[t]) = 0 /\ Depth(t) = 0 /\ closing[t] = Idle
      BY <1>3 DEF Target
    <3>2. \A k \in Keys : ran[t][k] = selfSum[t][k] + OwnIn(stack[t], Depth(t), k)
      BY <3>1, OwnNone DEF Init
    <3> QED BY <3>1, <3>2 DEF InStep
  <2>2. tidy = Threads
    BY DEF Init
  <2> QED BY <2>1, <2>2 DEF SilentInv, SilentAt
<1> QED BY <1>1, <1>2, <1>4, <1>5, <1>6 DEF BooksIInv

\* BooksIInv holds of every reachable state.
THEOREM BooksInvariance == Spec => []BooksIInv
<1>1. Init => IInv /\ BooksIInv
  BY InitIInv, InitBooks
<1>2. (IInv /\ BooksIInv) /\ [Next]_vars => (IInv /\ BooksIInv)'
  BY NextIInv, FiniteKept, StatsKept, KidsKept, InclKept, StatesKept, BooksKept, SilentKept
     DEF BooksIInv
<1> QED BY <1>1, <1>2, PTL DEF Spec

\* The statistics of every key tell what the trace tells, until the trace drops a
\* record and trace_dropped says so.
THEOREM StatisticsExact == Spec => []StatsAreTrace
<1>1. BooksIInv => StatsAreTrace
  BY DEF BooksIInv
<1> QED BY <1>1, BooksInvariance, PTL

\* The inclusive count of every trigger is what it and the triggers that derive.py
\* finds in it ran themselves, until the trace drops a record.
THEOREM InclusiveExact == Spec => []InclIsSubtree
<1>1. BooksIInv => InclIsSubtree
  BY DEF BooksIInv
<1> QED BY <1>1, BooksInvariance, PTL

\* Every begin of programs that end their innermost region is open, was ended or
\* shows in a counter.
THEOREM BalanceAlways == Spec => []BooksBalance
<1>1. BooksIInv => BooksBalance
  <2> SUFFICES ASSUME BooksInv, AllIdle, tidy = Threads
               PROVE  SumFunction([t \in Threads |-> Len(nest[t])]) + unmatched
                        = SumFunction([t \in Threads |-> Depth(t)]) + implicit + overflows
    BY DEF BooksIInv, BooksBalance
  <2>1. \A t \in Threads : Booked(t) = Depth(t)
    BY DEF AllIdle, Booked
  <2>2. [t \in Threads |-> Booked(t)] = [t \in Threads |-> Depth(t)]
    BY <2>1
  <2> QED BY <2>2 DEF BooksInv
<1> QED BY <1>1, BooksInvariance, PTL

\* A program that ends what it begins, and whose run reports no unmatched end, has
\* exactly its own instructions in every key, and its triggers the states declared
\* in them unless the run reports that some were not kept.
THEOREM SilentRunsExact == Spec => []SilentMeansExact
<1>1. IInv /\ BooksIInv => SilentMeansExact
  <2> SUFFICES ASSUME IInv, BooksIInv, NEW t \in tidy, nest[t] = <<>>,
                      closing[t] = Idle, unmatched = 0
               PROVE  /\ selfSum[t] = ran[t]
                      /\ stateOver = 0 => \A r \in trace[t] : r.states = r.said
    BY DEF SilentMeansExact
  <2>1. TypeOK /\ t \in Threads
    BY DEF IInv, TypeOK
  <2>2. Len(nest[t]) = 0 /\ Target(t) = Depth(t) /\ Depth(t) \in Nat
    BY <2>1, StepTypes DEF Target
  <2>3. InStep(t)
    BY <2>2 DEF BooksIInv, SilentInv, SilentAt
  <2>4. Depth(t) = 0
    BY <2>2, <2>3 DEF InStep
  <2>5. \A k \in Keys : ran[t][k] = selfSum[t][k]
    <3>1. \A k \in Keys : selfSum[t][k] \in Int
      BY <2>1, StepTypes
    <3> QED BY <2>3, <2>4, <3>1, OwnNone DEF InStep
  <2>6. selfSum[t] = ran[t]
    <3>1. selfSum[t] \in [Keys -> Int] /\ ran[t] \in [Keys -> Nat]
      BY <2>1, StepTypes
    <3> QED BY <2>5, <3>1
  <2>7. stateOver = 0 => \A r \in trace[t] : r.states = r.said
    BY <2>1 DEF BooksIInv, StatesInv
  <2> QED BY <2>6, <2>7
<1> QED BY <1>1, Invariance, BooksInvariance, PTL

-----------------------------------------------------------------------------
(***************************************************************************)
(* The relations: the two orders of the records.                           *)
(***************************************************************************)
\* The records, as the reader meets them: no two have one begin.
Traced ==
  /\ IsFiniteSet(Written) /\ Written \subseteq Record
  /\ \A r \in Written : r.seq < r.end /\ RegionAt(r) \in Regions /\ Value(r) \in Int
  /\ \A p, r \in Written : p.seq = r.seq => p = r

\* They are that in every reachable state.
LEMMA TracedIs ==
  ASSUME IInv, FiniteInv
  PROVE  Traced
<1>1. \A t \in Threads : IsFiniteSet(trace[t]) /\ trace[t] \subseteq Record
  <2>1. trace \in [Threads -> SUBSET Record]
    BY DEF IInv, TypeOK
  <2> QED BY <2>1 DEF FiniteInv
<1>2. IsFiniteSet(Written)
  <2> DEFINE S == {trace[t] : t \in Threads}
  <2>1. IsFiniteSet(S)
    BY ThreadsAssumption, ImageFinite DEF ImageOf
  <2>2. \A T \in S : IsFiniteSet(T)
    BY <1>1
  <2> HIDE DEF S
  <2>3. IsFiniteSet(UNION S)
    BY <2>1, <2>2, FS_UNION
  <2> QED BY <2>3 DEF S, Written
<1>3. Written \subseteq Record
  BY <1>1 DEF Written
<1>4. BeginsUnique
  <2>1. CASE TraceLimit > 0
    BY <2>1 DEF IInv, TraceInv
  <2>2. CASE TraceLimit = 0
    BY <2>2 DEF IInv, UntracedInv, BeginsUnique
  <2> QED BY <2>1, <2>2, BoundsAssumption
<1>5. \A r \in Written : r.seq < r.end
  BY <1>4 DEF BeginsUnique, Written
<1>6. \A p, r \in Written : p.seq = r.seq => p = r
  BY <1>4 DEF BeginsUnique, Written
<1>7. ASSUME NEW r \in Written PROVE RegionAt(r) \in Regions /\ Value(r) \in Int
  <2>1. r.key \in Keys
    BY <1>3 DEF Record
  <2> QED BY <2>1, ValuesAssumption DEF RegionAt, Value, Regions
<1> QED BY <1>2, <1>3, <1>5, <1>6, <1>7 DEF Traced

\* The orders are orders.
LEMMA RecordOrders ==
  ASSUME Traced
  PROVE  /\ Orders([r \in Written |-> FiredBefore(r)])
         /\ Orders([r \in Written |-> EndedBefore(r)])
<1>1. IsFiniteSet(Written)
  BY DEF Traced
<1>2. \A r \in Written : r.seq \in Nat /\ r.end \in Nat
  BY DEF Traced, Record
<1>3. \A p, r \in Written : p.seq = r.seq => p = r
  BY DEF Traced
<1>4. \A r \in Written : FiredBefore(r) \subseteq Written /\ r \notin FiredBefore(r)
  BY <1>2 DEF FiredBefore
<1>5. \A p, r \in Written :
        /\ p = r \/ p \in FiredBefore(r) \/ r \in FiredBefore(p)
        /\ p \in FiredBefore(r) => FiredBefore(p) \subseteq FiredBefore(r)
  BY <1>2, <1>3 DEF FiredBefore
<1>6. \A r \in Written : EndedBefore(r) \subseteq Written /\ r \notin EndedBefore(r)
  BY <1>2 DEF EndedBefore
<1>7. ASSUME NEW p \in Written, NEW r \in Written
      PROVE  /\ p = r \/ p \in EndedBefore(r) \/ r \in EndedBefore(p)
             /\ p \in EndedBefore(r) => EndedBefore(p) \subseteq EndedBefore(r)
  <2>1. p = r \/ p \in EndedBefore(r) \/ r \in EndedBefore(p)
    BY <1>2, <1>3 DEF EndedBefore
  <2>2. ASSUME p \in EndedBefore(r), NEW q \in EndedBefore(p) PROVE q \in EndedBefore(r)
    <3>1. q \in Written /\ (q.end < p.end \/ (q.end = p.end /\ q.seq < p.seq))
      BY DEF EndedBefore
    <3>2. p.end < r.end \/ (p.end = r.end /\ p.seq < r.seq)
      BY <2>2 DEF EndedBefore
    <3>3. q.end < r.end \/ (q.end = r.end /\ q.seq < r.seq)
      BY <1>2, <3>1, <3>2
    <3> QED BY <3>1, <3>3 DEF EndedBefore
  <2> QED BY <2>1, <2>2
<1>8. ASSUME NEW before, before = [r \in Written |-> FiredBefore(r)] PROVE Orders(before)
  BY <1>1, <1>4, <1>5, <1>8 DEF Orders
<1>9. ASSUME NEW before, before = [r \in Written |-> EndedBefore(r)] PROVE Orders(before)
  BY <1>1, <1>6, <1>7, <1>9 DEF Orders
<1> QED BY <1>8, <1>9

\* s has every record once.
Lists(s, n) ==
  /\ n \in Nat /\ n = Cardinality(Written) /\ s \in [1..n -> Written]
  /\ \A r \in Written : \E i \in 1..n : s[i] = r
  /\ \A i, j \in 1..n : s[i] = s[j] => i = j

\* Fired has the records by their begins, Ended by their ends.
LEMMA FiredIs ==
  ASSUME Traced, NEW n, n = Cardinality(Written), NEW fired, fired = Fired
  PROVE  Lists(fired, n) /\ \A i, j \in 1..n : i < j <=> fired[i].seq < fired[j].seq
<1>1. PICK before : before = [r \in Written |-> FiredBefore(r)]
  OBVIOUS
<1>2. DOMAIN before = Written /\ Orders(before) /\ fired = InOrder(before)
  BY <1>1, RecordOrders DEF Fired
<1>3. Arranges(fired, before)
  BY <1>2, OrderIs
<1>4. n \in Nat
  BY FS_CardinalityType DEF Traced
<1>5. /\ fired \in [1..n -> Written]
      /\ \A r \in Written : \E i \in 1..n : fired[i] = r
      /\ \A i, j \in 1..n : i < j <=> fired[i] \in before[fired[j]]
  BY <1>2, <1>3 DEF Arranges
<1>6. \A i, j \in 1..n : fired[i] \in before[fired[j]] <=> fired[i].seq < fired[j].seq
  BY <1>1, <1>5 DEF FiredBefore
<1>7. \A i, j \in 1..n : i < j <=> fired[i].seq < fired[j].seq
  BY <1>5, <1>6
<1>8. \A i \in 1..n : fired[i].seq \in Nat
  BY <1>5 DEF Traced, Record
<1>9. ASSUME NEW i \in 1..n, NEW j \in 1..n, fired[i] = fired[j] PROVE i = j
  <2>1. ~(i < j) /\ ~(j < i)
    BY <1>7, <1>8, <1>9
  <2> QED BY <1>4, <2>1
<1> QED BY <1>4, <1>5, <1>7, <1>9 DEF Lists

\* Ended has them by their ends.
LEMMA EndedIs ==
  ASSUME Traced, NEW n, n = Cardinality(Written), NEW ended, ended = Ended
  PROVE  Lists(ended, n) /\ \A i, j \in 1..n : i < j => ended[i].end <= ended[j].end
<1>1. PICK before : before = [r \in Written |-> EndedBefore(r)]
  OBVIOUS
<1>2. DOMAIN before = Written /\ Orders(before) /\ ended = InOrder(before)
  BY <1>1, RecordOrders DEF Ended
<1>3. Arranges(ended, before)
  BY <1>2, OrderIs
<1>4. n \in Nat
  BY FS_CardinalityType DEF Traced
<1>5. /\ ended \in [1..n -> Written]
      /\ \A r \in Written : \E i \in 1..n : ended[i] = r
      /\ \A i, j \in 1..n : i < j <=> ended[i] \in before[ended[j]]
  BY <1>2, <1>3 DEF Arranges
<1>6. \A i \in 1..n : ended[i].seq \in Nat /\ ended[i].end \in Nat
  BY <1>5 DEF Traced, Record
<1>7. ASSUME NEW i \in 1..n, NEW j \in 1..n, i < j PROVE ended[i].end <= ended[j].end
  <2>1. ended[i] \in EndedBefore(ended[j])
    BY <1>1, <1>5, <1>7
  <2>2. ended[i].end < ended[j].end \/ ended[i].end = ended[j].end
    BY <2>1 DEF EndedBefore
  <2> QED BY <1>6, <2>2
<1>8. ASSUME NEW i \in 1..n, NEW j \in 1..n, ended[i] = ended[j] PROVE i = j
  <2>1. \A k \in 1..n : ended[k] \notin EndedBefore(ended[k])
    BY <1>6 DEF EndedBefore
  <2>2. ~(i < j) /\ ~(j < i)
    BY <1>1, <1>5, <1>8, <2>1
  <2> QED BY <1>4, <2>2
<1> QED BY <1>4, <1>5, <1>7, <1>8 DEF Lists

-----------------------------------------------------------------------------
(***************************************************************************)
(* The relations: the loop of feature_rows.                                *)
(***************************************************************************)
\* The first k records of s that are of region x, and the states of all.
Among(s, k, x) == {i \in 1..k : RegionAt(s[i]) = x}
Amounts(s) == [i \in DOMAIN s |-> Value(s[i])]
LastAmong(s, k, x) ==
  IF Among(s, k, x) = {} THEN 0 ELSE Value(s[Max(Among(s, k, x))])

RowType == [count : [Regions -> Nat], cum : [Regions -> Int],
            cumend : [Regions -> Int], last : [Regions -> Int]]
AccType == [ei : Nat, rows : Seq(RowType), count : [Regions -> Nat], cum : [Regions -> Int],
            cumend : [Regions -> Int], last : [Regions -> Int]]

\* What the loop has after the first k triggers, ...
KeptAt(acc, k, fired, ended, n) ==
  /\ acc.ei \in 0..n /\ (k = 0 => acc.ei = 0)
  /\ k > 0 => \A i \in 1..n : i <= acc.ei <=> ended[i].end < fired[k].seq
  /\ \A x \in Regions :
       /\ acc.count[x] = Cardinality(Among(fired, k, x))
       /\ acc.cum[x] = SumFunctionOnSet(Amounts(fired), Among(fired, k, x))
       /\ acc.cumend[x] = SumFunctionOnSet(Amounts(ended), Among(ended, acc.ei, x))
       /\ acc.last[x] = LastAmong(fired, k, x)

\* ... and the row it makes for trigger i.
Over(ended, n, seqno, x) == {j \in 1..n : RegionAt(ended[j]) = x /\ ended[j].end < seqno}
RowAt(row, i, fired, ended, n) ==
  \A x \in Regions :
    /\ row.count[x] = Cardinality(Among(fired, i - 1, x))
    /\ row.cum[x] = SumFunctionOnSet(Amounts(fired), Among(fired, i - 1, x))
    /\ row.cumend[x] = SumFunctionOnSet(Amounts(ended), Over(ended, n, fired[i].seq, x))
    /\ row.last[x] = LastAmong(fired, i - 1, x)

\* One more record among those of a region.
LEMMA AmongNext ==
  ASSUME NEW s, NEW k \in Nat \ {0}, NEW x
  PROVE  /\ IsFiniteSet(Among(s, k, x)) /\ IsFiniteSet(Among(s, k - 1, x))
         /\ k \notin Among(s, k - 1, x) /\ Among(s, 0, x) = {}
         /\ Among(s, k, x) = IF RegionAt(s[k]) = x THEN Among(s, k - 1, x) \cup {k}
                             ELSE Among(s, k - 1, x)
<1>1. IsFiniteSet(1..k)
  <2>1. 1 \in Int /\ k \in Int
    OBVIOUS
  <2> QED BY <2>1, FS_Interval
<1>2. Among(s, k, x) \in SUBSET (1..k) /\ Among(s, k - 1, x) \in SUBSET (1..k)
  BY DEF Among
<1>3. IsFiniteSet(Among(s, k, x)) /\ IsFiniteSet(Among(s, k - 1, x))
  BY <1>1, <1>2, FS_Subset
<1>4. \A i : i \in 1..k <=> i \in 1..(k - 1) \/ i = k
  OBVIOUS
<1>5. k \notin 1..(k - 1) /\ 1..0 = {}
  OBVIOUS
<1> QED BY <1>3, <1>4, <1>5 DEF Among

\* What one more trigger adds to the counts and sums of its region.
LEMMA AmongAdds ==
  ASSUME Traced, NEW n \in Nat, NEW s \in [1..n -> Written], NEW k \in 1..n, NEW x
  PROVE  /\ Cardinality(Among(s, k, x))
              = Cardinality(Among(s, k - 1, x)) + (IF RegionAt(s[k]) = x THEN 1 ELSE 0)
         /\ SumFunctionOnSet(Amounts(s), Among(s, k, x))
              = SumFunctionOnSet(Amounts(s), Among(s, k - 1, x))
                + (IF RegionAt(s[k]) = x THEN Value(s[k]) ELSE 0)
         /\ LastAmong(s, k, x)
              = IF RegionAt(s[k]) = x THEN Value(s[k]) ELSE LastAmong(s, k - 1, x)
<1> DEFINE A == Among(s, k - 1, x)
           B == Among(s, k, x)
<1>1. k \in Nat \ {0}
  OBVIOUS
<1>2. /\ IsFiniteSet(A) /\ IsFiniteSet(B) /\ k \notin A
      /\ B = IF RegionAt(s[k]) = x THEN A \cup {k} ELSE A
  BY <1>1, AmongNext
<1>3. A \subseteq 1..(k - 1)
  BY DEF Among
<1>4. \A i \in 1..n : Amounts(s)[i] = Value(s[i]) /\ Amounts(s)[i] \in Int
  BY DEF Amounts, Traced
<1>5. \A i \in A \cup {k} : i \in 1..n
  BY <1>3
<1>6. Cardinality(A) \in Nat /\ SumFunctionOnSet(Amounts(s), A) \in Int
  BY <1>2, <1>4, <1>5, FS_CardinalityType, SumInt
<1>7. CASE RegionAt(s[k]) = x
  <2>1. B = A \cup {k}
    BY <1>2, <1>7
  <2>2. Cardinality(B) = Cardinality(A) + 1
    BY <1>2, <2>1, FS_AddElement
  <2>3. \A i \in A \cup {k} : Amounts(s)[i] \in Int
    BY <1>4, <1>5
  <2>4. SumFunctionOnSet(Amounts(s), A \cup {k}) = Amounts(s)[k] + SumFunctionOnSet(Amounts(s), A)
    BY ONLY <1>2, <2>3, SumAdd
  <2>5. Max(B) = k
    <3>1. k \in B /\ \A i \in B : i <= k /\ i \in Int
      BY <1>3, <2>1
    <3>2. B # {} /\ B \subseteq Int
      BY <3>1
    <3>3. Max(B) \in B /\ \A i \in B : i <= Max(B)
      BY <1>2, <3>2, MaxIs
    <3>4. PICK m : m = Max(B)
      OBVIOUS
    <3>5. m \in B /\ k <= m /\ m <= k /\ m \in Int
      BY ONLY <3>1, <3>3, <3>4
    <3> QED BY <3>4, <3>5
  <2>6. LastAmong(s, k, x) = Value(s[k])
    BY <2>1, <2>5 DEF LastAmong
  <2> HIDE DEF A, B
  <2>7. SumFunctionOnSet(Amounts(s), B) = SumFunctionOnSet(Amounts(s), A) + Value(s[k])
    BY <1>4, <1>6, <2>1, <2>4
  <2> QED BY <1>7, <2>2, <2>6, <2>7 DEF A, B
<1>8. CASE RegionAt(s[k]) # x
  <2>1. B = A
    BY <1>2, <1>8
  <2>2. LastAmong(s, k, x) = LastAmong(s, k - 1, x)
    BY <2>1 DEF LastAmong
  <2> HIDE DEF A, B
  <2> QED BY <1>6, <1>8, <2>1, <2>2 DEF A, B
<1> QED BY <1>7, <1>8

\* Where the pointer into Ended stops, and that it passes the records over by then.
LEMMA PassedTyped ==
  ASSUME NEW n \in Nat, NEW ended \in [1..n -> Written], NEW ei \in Nat, NEW r
  PROVE  /\ Passed(ended, ei, r) \in Nat /\ (ei <= n => Passed(ended, ei, r) \in ei..n)
         /\ \A i \in (ei + 1)..n : i <= Passed(ended, ei, r) => ~(ended[i].end >= r.seq)
         /\ ei <= n /\ Passed(ended, ei, r) < n => ended[Passed(ended, ei, r) + 1].end >= r.seq
<1> DEFINE ahead == {i \in (ei + 1)..n : ended[i].end >= r.seq}
<1>1. Len(ended) = n
  OBVIOUS
<1>2. PICK p : p = Passed(ended, ei, r)
  OBVIOUS
<1>3. p = IF ahead = {} THEN n ELSE Min(ahead) - 1
  BY <1>1, <1>2 DEF Passed
<1>4. CASE ahead = {}
  <2>1. p = n /\ \A i \in (ei + 1)..n : ~(ended[i].end >= r.seq)
    BY <1>3, <1>4
  <2> QED BY <1>2, <2>1
<1>5. CASE ahead # {}
  <2>1. IsFiniteSet(ahead)
    <3>1. ei + 1 \in Int /\ n \in Int
      OBVIOUS
    <3>2. IsFiniteSet((ei + 1)..n)
      BY <3>1, FS_Interval
    <3>3. ahead \in SUBSET ((ei + 1)..n)
      OBVIOUS
    <3> QED BY <3>2, <3>3, FS_Subset
  <2>2. ahead \subseteq Int
    OBVIOUS
  <2>3. Min(ahead) \in ahead /\ \A i \in ahead : Min(ahead) <= i
    BY <1>5, <2>1, <2>2, MinIs
  <2>4. PICK m : m = Min(ahead)
    OBVIOUS
  <2>5. m \in (ei + 1)..n /\ ended[m].end >= r.seq /\ p = m - 1
    BY <1>3, <1>5, <2>3, <2>4
  <2>6. ASSUME NEW i \in (ei + 1)..n, i <= p PROVE ~(ended[i].end >= r.seq)
    <3>1. i \in ahead => m <= i
      BY <2>3, <2>4
    <3>2. ~(m <= i)
      BY <2>5, <2>6
    <3> QED BY <3>1, <3>2
  <2>7. p \in Nat /\ p \in ei..n /\ p + 1 = m
    BY <2>5
  <2> QED BY <1>2, <2>5, <2>6, <2>7
<1> QED BY <1>4, <1>5

\* It passes the records that were over when r began, and no other.
LEMMA PassedIs ==
  ASSUME NEW n \in Nat, NEW ended \in [1..n -> Written], \A i \in 1..n : ended[i].end \in Nat,
         \A i, j \in 1..n : i < j => ended[i].end <= ended[j].end,
         NEW ei \in 0..n, NEW r, r.seq \in Nat, \A i \in 1..ei : ended[i].end < r.seq,
         NEW p, p = Passed(ended, ei, r)
  PROVE  p \in ei..n /\ \A i \in 1..n : i <= p <=> ended[i].end < r.seq
<1>1. /\ p \in ei..n
      /\ \A i \in (ei + 1)..n : i <= p => ~(ended[i].end >= r.seq)
      /\ p < n => ended[p + 1].end >= r.seq
  <2>1. ei \in Nat /\ ei <= n
    OBVIOUS
  <2>2. /\ Passed(ended, ei, r) \in Nat /\ (ei <= n => Passed(ended, ei, r) \in ei..n)
        /\ \A i \in (ei + 1)..n : i <= Passed(ended, ei, r) => ~(ended[i].end >= r.seq)
        /\ ei <= n /\ Passed(ended, ei, r) < n => ended[Passed(ended, ei, r) + 1].end >= r.seq
    BY ONLY <2>1, n \in Nat, ended \in [1..n -> Written], PassedTyped
  <2> QED BY <2>1, <2>2
<1>2. ASSUME NEW i \in 1..n, i <= p PROVE ended[i].end < r.seq
  <2>1. i \in 1..ei \/ i \in (ei + 1)..n
    OBVIOUS
  <2>2. i \in (ei + 1)..n => ~(ended[i].end >= r.seq)
    BY <1>1, <1>2
  <2>3. ended[i].end \in Nat
    OBVIOUS
  <2> QED BY <2>1, <2>2, <2>3
<1>3. ASSUME NEW i \in 1..n, i > p PROVE ~(ended[i].end < r.seq)
  <2>1. p + 1 \in 1..n /\ p < n /\ (i = p + 1 \/ p + 1 < i)
    BY <1>1, <1>3
  <2>2. ended[p + 1].end >= r.seq
    BY <1>1, <2>1
  <2>3. i = p + 1 \/ ended[p + 1].end <= ended[i].end
    BY <2>1
  <2>4. ended[i].end \in Nat /\ ended[p + 1].end \in Nat
    BY <2>1
  <2> QED BY <2>2, <2>3, <2>4
<1>4. \A i \in 1..n : i <= p \/ i > p
  BY <1>1
<1> QED BY <1>1, <1>2, <1>3, <1>4

\* The body of the loop, field by field.
WalkFields(new, acc, r, ended, ei) ==
  /\ new.ei = ei
  /\ \E row : /\ row \in RowType /\ new.rows = Append(acc.rows, row)
              /\ row.count = acc.count /\ row.cum = acc.cum /\ row.last = acc.last
              /\ row.cumend = new.cumend
  /\ \A x \in Regions :
       LET gone == {i \in (acc.ei + 1)..ei : RegionAt(ended[i]) = x}
       IN  /\ new.count[x] = acc.count[x] + (IF RegionAt(r) = x THEN 1 ELSE 0)
           /\ new.cum[x] = acc.cum[x] + (IF RegionAt(r) = x THEN Value(r) ELSE 0)
           /\ new.last[x] = IF RegionAt(r) = x THEN Value(r) ELSE acc.last[x]
           /\ new.cumend[x] = acc.cumend[x] + SumFunctionOnSet(Amounts(ended), gone)

\* A trigger taken from there leaves these fields.
LEMMA WalkIs ==
  ASSUME Traced, NEW n \in Nat, NEW ended \in [1..n -> Written], NEW acc \in AccType, NEW r \in Written,
         NEW ei, ei = Passed(ended, acc.ei, r), NEW new, new = Walk(ended, acc, r),
         acc.ei <= n
  PROVE  new \in AccType /\ WalkFields(new, acc, r, ended, ei)
<1> DEFINE gone(x) == {i \in (acc.ei + 1)..ei : RegionAt(ended[i]) = x}
           ends == [x \in Regions |->
                      acc.cumend[x] + SumFunction([i \in gone(x) |-> Value(ended[i])])]
           row == [count |-> acc.count, cum |-> acc.cum, cumend |-> ends, last |-> acc.last]
<1>1. /\ acc.ei \in Nat /\ acc.rows \in Seq(RowType) /\ acc.count \in [Regions -> Nat]
      /\ acc.cum \in [Regions -> Int] /\ acc.cumend \in [Regions -> Int]
      /\ acc.last \in [Regions -> Int]
  BY DEF AccType
<1>2. ei \in acc.ei..n
  <2>1. /\ Passed(ended, acc.ei, r) \in Nat
        /\ (acc.ei <= n => Passed(ended, acc.ei, r) \in acc.ei..n)
    BY ONLY <1>1, n \in Nat, ended \in [1..n -> Written], PassedTyped
  <2> QED BY <2>1
<1>3. RegionAt(r) \in Regions /\ Value(r) \in Int
  BY DEF Traced
<1>4. ASSUME NEW x \in Regions
      PROVE  /\ ends[x] = acc.cumend[x] + SumFunctionOnSet(Amounts(ended), gone(x))
             /\ ends[x] \in Int
  <2>1. gone(x) \in SUBSET (1..n)
    BY <1>1, <1>2
  <2>2. IsFiniteSet(1..n)
    <3>1. 1 \in Int /\ n \in Int
      OBVIOUS
    <3> QED BY <3>1, FS_Interval
  <2>3. IsFiniteSet(gone(x))
    BY <2>1, <2>2, FS_Subset
  <2> DEFINE f == [i \in gone(x) |-> Value(ended[i])]
  <2>4. \A i \in gone(x) : f[i] = Amounts(ended)[i] /\ Amounts(ended)[i] \in Int
    BY <2>1 DEF Amounts, Traced
  <2>5. DOMAIN f = gone(x)
    OBVIOUS
  <2> HIDE DEF f, gone
  <2>6. SumFunctionOnSet(f, gone(x)) = SumFunctionOnSet(Amounts(ended), gone(x))
    BY <2>3, <2>4, SumSame
  <2>7. SumFunctionOnSet(Amounts(ended), gone(x)) \in Int
    BY <2>3, <2>4, SumInt
  <2>8. ends[x] = acc.cumend[x] + SumFunctionOnSet(f, gone(x))
    BY <2>5 DEF SumFunction, f
  <2> QED BY <1>1, <2>6, <2>7, <2>8
<1>5. ends \in [Regions -> Int]
  BY <1>4
<1>6. new = [ei     |-> ei,
             rows   |-> Append(acc.rows, row),
             count  |-> [acc.count EXCEPT ![RegionAt(r)] = @ + 1],
             cum    |-> [acc.cum EXCEPT ![RegionAt(r)] = @ + Value(r)],
             cumend |-> ends,
             last   |-> [acc.last EXCEPT ![RegionAt(r)] = Value(r)]]
  BY DEF Walk
<1> HIDE DEF ends
<1>7. row \in RowType
  BY <1>1, <1>5 DEF RowType
<1>8. new \in AccType
  <2>1. PICK counts, cums, lasts :
          /\ counts = [acc.count EXCEPT ![RegionAt(r)] = @ + 1]
          /\ cums = [acc.cum EXCEPT ![RegionAt(r)] = @ + Value(r)]
          /\ lasts = [acc.last EXCEPT ![RegionAt(r)] = Value(r)]
    OBVIOUS
  <2>2. Append(acc.rows, row) \in Seq(RowType)
    BY <1>1, <1>7, AppendProperties
  <2>3. ei \in Nat
    BY <1>1, <1>2
  <2>4. counts \in [Regions -> Nat]
    BY ONLY <1>1, <1>3, <2>1
  <2>5. cums \in [Regions -> Int]
    BY ONLY <1>1, <1>3, <2>1
  <2>6. lasts \in [Regions -> Int]
    BY ONLY <1>1, <1>3, <2>1
  <2> HIDE DEF row
  <2>7. PICK rows : rows = Append(acc.rows, row)
    OBVIOUS
  <2>8. new = [ei |-> ei, rows |-> rows, count |-> counts, cum |-> cums, cumend |-> ends, last |-> lasts]
    BY <1>6, <2>1, <2>7
  <2> QED BY ONLY <1>5, <2>2, <2>3, <2>4, <2>5, <2>6, <2>7, <2>8 DEF AccType
<1>9. \E rw : /\ rw \in RowType /\ new.rows = Append(acc.rows, rw)
              /\ rw.count = acc.count /\ rw.cum = acc.cum /\ rw.last = acc.last
              /\ rw.cumend = new.cumend
  <2>1. new.rows = Append(acc.rows, row) /\ row.cumend = new.cumend
    BY <1>6
  <2>2. row.count = acc.count /\ row.cum = acc.cum /\ row.last = acc.last
    OBVIOUS
  <2> HIDE DEF row
  <2> QED BY <1>7, <2>1, <2>2
<1>10. ASSUME NEW x \in Regions
       PROVE  /\ new.count[x] = acc.count[x] + (IF RegionAt(r) = x THEN 1 ELSE 0)
              /\ new.cum[x] = acc.cum[x] + (IF RegionAt(r) = x THEN Value(r) ELSE 0)
              /\ new.last[x] = IF RegionAt(r) = x THEN Value(r) ELSE acc.last[x]
              /\ new.cumend[x] = acc.cumend[x] + SumFunctionOnSet(Amounts(ended), gone(x))
  <2>1. /\ new.count = [acc.count EXCEPT ![RegionAt(r)] = @ + 1]
        /\ new.cum = [acc.cum EXCEPT ![RegionAt(r)] = @ + Value(r)]
        /\ new.last = [acc.last EXCEPT ![RegionAt(r)] = Value(r)]
        /\ new.cumend = ends
    BY <1>6
  <2>2. new.cumend[x] = acc.cumend[x] + SumFunctionOnSet(Amounts(ended), gone(x))
    BY <1>4, <2>1
  <2> HIDE DEF gone
  <2>3. acc.count[x] \in Nat /\ acc.cum[x] \in Int
    BY <1>1
  <2> QED BY <1>1, <1>3, <2>1, <2>2, <2>3
<1>11. new.ei = ei
  BY <1>6
<1> HIDE DEF row
<1> QED BY <1>8, <1>9, <1>10, <1>11 DEF WalkFields

\* The two orders the loop goes through.
Ordered(fired, ended, n) ==
  /\ Lists(fired, n) /\ \A i, j \in 1..n : i < j <=> fired[i].seq < fired[j].seq
  /\ Lists(ended, n) /\ \A i, j \in 1..n : i < j => ended[i].end <= ended[j].end

\* Their types.
LEMMA OrderedTypes ==
  ASSUME Traced, NEW fired, NEW ended, NEW n, Ordered(fired, ended, n)
  PROVE  /\ n \in Nat /\ fired \in [1..n -> Written] /\ ended \in [1..n -> Written]
         /\ \A i \in 1..n : fired[i].seq \in Nat /\ ended[i].end \in Nat
<1>1. n \in Nat /\ fired \in [1..n -> Written] /\ ended \in [1..n -> Written]
  BY DEF Ordered, Lists
<1>2. \A r \in Written : r.seq \in Nat /\ r.end \in Nat
  BY DEF Traced, Record
<1> QED BY <1>1, <1>2

\* A row for trigger k comes after the others.
RowAdded(new, acc, k, fired, ended, n) ==
  \E row \in RowType : new.rows = Append(acc.rows, row) /\ RowAt(row, k, fired, ended, n)

\* A step of the loop keeps what it has, and makes the row of its trigger.
LEMMA KeptStep ==
  ASSUME Traced, NEW fired, NEW ended, NEW n, Ordered(fired, ended, n), NEW k \in 1..n,
         NEW acc \in AccType, KeptAt(acc, k - 1, fired, ended, n),
         NEW new, new = Walk(ended, acc, fired[k])
  PROVE  new \in AccType /\ KeptAt(new, k, fired, ended, n) /\ RowAdded(new, acc, k, fired, ended, n)
<1>1. /\ n \in Nat /\ fired \in [1..n -> Written] /\ ended \in [1..n -> Written]
      /\ \A i \in 1..n : fired[i].seq \in Nat /\ ended[i].end \in Nat
  BY OrderedTypes
<1>2. /\ \A i, j \in 1..n : i < j => fired[i].seq < fired[j].seq
      /\ \A i, j \in 1..n : i < j => ended[i].end <= ended[j].end
  BY DEF Ordered
<1>3. /\ acc.ei \in 0..n /\ (k - 1 = 0 => acc.ei = 0)
      /\ k - 1 > 0 => \A i \in 1..n : i <= acc.ei <=> ended[i].end < fired[k - 1].seq
      /\ \A x \in Regions :
           /\ acc.count[x] = Cardinality(Among(fired, k - 1, x))
           /\ acc.cum[x] = SumFunctionOnSet(Amounts(fired), Among(fired, k - 1, x))
           /\ acc.cumend[x] = SumFunctionOnSet(Amounts(ended), Among(ended, acc.ei, x))
           /\ acc.last[x] = LastAmong(fired, k - 1, x)
  BY DEF KeptAt
<1>4. PICK r : r = fired[k] /\ r \in Written /\ r.seq \in Nat
  BY <1>1
<1>5. PICK ei : ei = Passed(ended, acc.ei, r)
  OBVIOUS
<1>6. ASSUME NEW i \in 1..acc.ei PROVE ended[i].end < r.seq
  <2>1. k - 1 > 0 /\ k - 1 \in 1..n /\ k - 1 < k /\ i \in 1..n /\ i <= acc.ei
    BY <1>1, <1>3
  <2>2. ended[i].end < fired[k - 1].seq
    BY <1>3, <2>1
  <2>3. fired[k - 1].seq < r.seq
    BY <1>2, <1>4, <2>1
  <2>4. ended[i].end \in Nat /\ fired[k - 1].seq \in Nat
    BY <1>1, <2>1
  <2> QED BY <1>4, <2>2, <2>3, <2>4
<1>7. ei \in acc.ei..n /\ \A i \in 1..n : i <= ei <=> ended[i].end < r.seq
  <2>1. acc.ei \in 0..n /\ \A i \in 1..n : ended[i].end \in Nat
    BY <1>1, <1>3
  <2>2. \A i, j \in 1..n : i < j => ended[i].end <= ended[j].end
    BY <1>2
  <2>3. PICK from : from = acc.ei
    OBVIOUS
  <2>4. from \in 0..n /\ (\A i \in 1..from : ended[i].end < r.seq) /\ ei = Passed(ended, from, r)
    BY <1>5, <1>6, <2>1, <2>3
  <2>5. n \in Nat /\ ended \in [1..n -> Written] /\ r.seq \in Nat
    BY <1>1, <1>4
  <2>6. ei \in from..n /\ \A i \in 1..n : i <= ei <=> ended[i].end < r.seq
    BY ONLY <2>1, <2>2, <2>4, <2>5, PassedIs
  <2> QED BY <2>3, <2>6
<1>8. new \in AccType /\ WalkFields(new, acc, r, ended, ei)
  <2>1. acc.ei <= n /\ new = Walk(ended, acc, r)
    BY <1>1, <1>3, <1>4
  <2> QED BY ONLY Traced, <1>1, <1>4, <1>5, <2>1, acc \in AccType, WalkIs
<1>9. new.ei = ei
  BY <1>8 DEF WalkFields
<1>10. ASSUME NEW x \in Regions
       PROVE  /\ new.count[x] = Cardinality(Among(fired, k, x))
              /\ new.cum[x] = SumFunctionOnSet(Amounts(fired), Among(fired, k, x))
              /\ new.last[x] = LastAmong(fired, k, x)
              /\ new.cumend[x] = SumFunctionOnSet(Amounts(ended), Among(ended, ei, x))
  <2> DEFINE gone == {i \in (acc.ei + 1)..ei : RegionAt(ended[i]) = x}
             passed == Among(ended, acc.ei, x)
  <2>1. /\ new.count[x] = acc.count[x] + (IF RegionAt(r) = x THEN 1 ELSE 0)
        /\ new.cum[x] = acc.cum[x] + (IF RegionAt(r) = x THEN Value(r) ELSE 0)
        /\ new.last[x] = IF RegionAt(r) = x THEN Value(r) ELSE acc.last[x]
        /\ new.cumend[x] = acc.cumend[x] + SumFunctionOnSet(Amounts(ended), gone)
    BY <1>8 DEF WalkFields
  <2>2. /\ Cardinality(Among(fired, k, x))
             = Cardinality(Among(fired, k - 1, x)) + (IF RegionAt(r) = x THEN 1 ELSE 0)
        /\ SumFunctionOnSet(Amounts(fired), Among(fired, k, x))
             = SumFunctionOnSet(Amounts(fired), Among(fired, k - 1, x))
               + (IF RegionAt(r) = x THEN Value(r) ELSE 0)
        /\ LastAmong(fired, k, x)
             = IF RegionAt(r) = x THEN Value(r) ELSE LastAmong(fired, k - 1, x)
    <3>1. n \in Nat /\ fired \in [1..n -> Written] /\ k \in 1..n
      BY <1>1
    <3>2. /\ Cardinality(Among(fired, k, x))
               = Cardinality(Among(fired, k - 1, x)) + (IF RegionAt(fired[k]) = x THEN 1 ELSE 0)
          /\ SumFunctionOnSet(Amounts(fired), Among(fired, k, x))
               = SumFunctionOnSet(Amounts(fired), Among(fired, k - 1, x))
                 + (IF RegionAt(fired[k]) = x THEN Value(fired[k]) ELSE 0)
          /\ LastAmong(fired, k, x)
               = IF RegionAt(fired[k]) = x THEN Value(fired[k]) ELSE LastAmong(fired, k - 1, x)
      BY ONLY Traced, <3>1, AmongAdds
    <3> QED BY <1>4, <3>2
  <2>3. /\ acc.count[x] = Cardinality(Among(fired, k - 1, x))
        /\ acc.cum[x] = SumFunctionOnSet(Amounts(fired), Among(fired, k - 1, x))
        /\ acc.cumend[x] = SumFunctionOnSet(Amounts(ended), passed)
        /\ acc.last[x] = LastAmong(fired, k - 1, x)
    BY <1>3
  <2>4. Among(ended, ei, x) = passed \cup gone /\ passed \cap gone = {}
    <3>1. \A i : i \in 1..ei <=> i \in 1..acc.ei \/ i \in (acc.ei + 1)..ei
      BY <1>1, <1>3, <1>7
    <3>2. \A i \in 1..acc.ei : i \notin (acc.ei + 1)..ei
      BY <1>1, <1>3, <1>7
    <3> QED BY <3>1, <3>2 DEF Among
  <2>5. IsFiniteSet(passed) /\ IsFiniteSet(gone) /\ passed \cup gone \subseteq 1..n
    <3>1. passed \in SUBSET (1..n) /\ gone \in SUBSET (1..n)
      BY <1>1, <1>3, <1>7 DEF Among
    <3>2. 1 \in Int /\ n \in Int
      BY <1>1
    <3>3. IsFiniteSet(1..n)
      BY <3>2, FS_Interval
    <3> HIDE DEF passed, gone
    <3> QED BY <3>1, <3>3, FS_Subset
  <2>6. \A i \in passed \cup gone : Amounts(ended)[i] \in Int
    BY <1>1, <2>5 DEF Amounts, Traced
  <2> HIDE DEF passed, gone
  <2>7. SumFunctionOnSet(Amounts(ended), passed \cup gone)
          = SumFunctionOnSet(Amounts(ended), passed) + SumFunctionOnSet(Amounts(ended), gone)
    BY ONLY <2>4, <2>5, <2>6, SumUnion
  <2> QED BY ONLY <2>1, <2>2, <2>3, <2>4, <2>7
<1>11. KeptAt(new, k, fired, ended, n)
  <2>1. new.ei \in 0..n /\ ~(k = 0)
    BY <1>1, <1>3, <1>7, <1>9
  <2>2. \A i \in 1..n : i <= new.ei <=> ended[i].end < fired[k].seq
    BY <1>4, <1>7, <1>9
  <2> QED BY <1>9, <1>10, <2>1, <2>2 DEF KeptAt
<1>12. RowAdded(new, acc, k, fired, ended, n)
  <2>1. PICK row : /\ row \in RowType /\ new.rows = Append(acc.rows, row)
                   /\ row.count = acc.count /\ row.cum = acc.cum /\ row.last = acc.last
                   /\ row.cumend = new.cumend
    BY <1>8 DEF WalkFields
  <2>2. ASSUME NEW x \in Regions PROVE Among(ended, ei, x) = Over(ended, n, fired[k].seq, x)
    <3>1. \A i : i \in 1..ei <=> i \in 1..n /\ ended[i].end < r.seq
      <4>1. \A i \in 1..n : i \in 1..ei <=> i <= ei
        BY <1>1, <1>3, <1>7
      <4>2. \A i \in 1..ei : i \in 1..n
        BY <1>1, <1>3, <1>7
      <4> QED BY <1>7, <4>1, <4>2
    <3> QED BY <1>4, <3>1 DEF Among, Over
  <2>3. \A x \in Regions :
          row.cumend[x] = SumFunctionOnSet(Amounts(ended), Over(ended, n, fired[k].seq, x))
    BY <1>10, <2>1, <2>2
  <2>4. RowAt(row, k, fired, ended, n)
    BY <1>3, <2>1, <2>3 DEF RowAt
  <2> QED BY <2>1, <2>4 DEF RowAdded
<1> QED BY <1>8, <1>11, <1>12

\* The function that the loop takes.
Start == [ei |-> 0, rows |-> <<>>, count |-> Nothing, cum |-> Nothing,
          cumend |-> Nothing, last |-> Nothing]
RowFold(g) ==
  g = [t \in SUBSET (DOMAIN Fired) |->
         IF t = {} THEN Start ELSE Walk(Ended, g[t \ {Max(t)}], Fired[Max(t)])]

\* The rows are those of the last value of that function.
LEMMA RowsUnfold == Rows = ((CHOOSE g : RowFold(g))[DOMAIN Fired]).rows
BY DEF Rows, FoldLeft, MapThenFoldSet, RowFold, Start

\* Before the first trigger.
LEMMA StartIs ==
  ASSUME Traced, NEW fired, NEW ended, NEW n, Ordered(fired, ended, n)
  PROVE  Start \in AccType /\ Start.ei = 0 /\ Len(Start.rows) = 0 /\ KeptAt(Start, 0, fired, ended, n)
<1>1. \A s, x : Among(s, 0, x) = {}
  BY AmongNext
<1>2. Nothing \in [Regions -> Nat] /\ \A x \in Regions : Nothing[x] = 0
  BY DEF Nothing
<1>3. /\ Start.ei = 0 /\ Start.rows = <<>> /\ Start.count = Nothing /\ Start.cum = Nothing
      /\ Start.cumend = Nothing /\ Start.last = Nothing
  BY DEF Start
<1>4. <<>> \in Seq(RowType) /\ Len(<<>>) = 0
  BY EmptySeq
<1>5. Nothing \in [Regions -> Int]
  BY DEF Nothing
<1>6. Start \in AccType
  BY <1>2, <1>4, <1>5 DEF AccType, Start
<1>7. \A f : SumFunctionOnSet(f, {}) = 0
  BY SumEmpty
<1>8. ASSUME NEW x \in Regions
      PROVE  /\ Start.count[x] = Cardinality(Among(fired, 0, x))
             /\ Start.cum[x] = SumFunctionOnSet(Amounts(fired), Among(fired, 0, x))
             /\ Start.cumend[x] = SumFunctionOnSet(Amounts(ended), Among(ended, Start.ei, x))
             /\ Start.last[x] = LastAmong(fired, 0, x)
  BY <1>1, <1>2, <1>3, <1>7, FS_EmptySet DEF LastAmong
<1>9. n \in Nat
  BY OrderedTypes
<1>10. KeptAt(Start, 0, fired, ended, n)
  BY <1>3, <1>8, <1>9 DEF KeptAt
<1> QED BY <1>3, <1>4, <1>6, <1>10

\* The rows, after the loop.
RowsAre(rows, k, fired, ended, n) ==
  /\ rows \in Seq(RowType) /\ Len(rows) = k
  /\ \A i \in 1..k : RowAt(rows[i], i, fired, ended, n)

\* Every trigger gets its row.
LEMMA RowsIs ==
  ASSUME Traced, NEW fired, fired = Fired, NEW ended, ended = Ended, NEW n, Ordered(fired, ended, n)
  PROVE  RowsAre(Rows, n, fired, ended, n)
<1> DEFINE V == {a \in AccType : a.ei <= n}
           step == [q \in V \X (1..n) |-> Walk(ended, q[1], fired[q[2]])]
<1>1. /\ n \in Nat /\ fired \in [1..n -> Written] /\ ended \in [1..n -> Written]
  BY OrderedTypes
<1>2. DOMAIN Fired = 1..n /\ n \in Nat
  BY <1>1
<1>3. Start \in V
  <2>1. Start \in AccType /\ Start.ei = 0
    BY StartIs
  <2> QED BY <1>1, <2>1
<1>4. \A v \in V, i \in 1..n : step[<<v, i>>] = Walk(ended, v, fired[i])
  OBVIOUS
<1>5. Closed(V, step, n)
  <2>1. ASSUME NEW v \in V, NEW i \in 1..n PROVE Walk(ended, v, fired[i]) \in V
    <3>1. PICK new, ei, r : /\ new = Walk(ended, v, fired[i]) /\ ei = Passed(ended, v.ei, fired[i])
                            /\ r = fired[i]
      OBVIOUS
    <3>2. r \in Written /\ v \in AccType /\ v.ei <= n /\ new = Walk(ended, v, r) /\ ei = Passed(ended, v.ei, r)
      BY <1>1, <3>1
    <3>3. new \in AccType /\ WalkFields(new, v, r, ended, ei)
      BY ONLY Traced, <1>1, <3>2, WalkIs
    <3>4. new.ei = ei
      BY <3>3 DEF WalkFields
    <3>5. ei \in (v.ei)..n
      <4>1. v.ei \in Nat
        BY DEF AccType
      <4>2. v.ei <= n => Passed(ended, v.ei, r) \in (v.ei)..n
        BY ONLY <4>1, <1>1, PassedTyped
      <4> QED BY <3>2, <4>2
    <3>6. ei <= n
      BY <1>1, <3>5
    <3> QED BY <3>1, <3>3, <3>4, <3>6
  <2> HIDE DEF V, step
  <2> QED BY <1>4, <2>1 DEF Closed
<1> HIDE DEF step
<1>6. \E g : RowFold(g)
  <2>1. PICK h : Table(h, V, Start, step, n)
    <3> HIDE DEF V
    <3> QED BY <1>1, <1>3, <1>5, TableExists
  <2>2. ASSUME NEW t \in SUBSET (1..n)
        PROVE  h[t] = IF t = {} THEN Start ELSE Walk(ended, h[t \ {Max(t)}], fired[Max(t)])
    <3> HIDE DEF V
    <3> QED BY <1>4, <2>1 DEF Table
  <2>3. h = [t \in SUBSET (1..n) |-> h[t]]
    BY <2>1 DEF Table
  <2>4. h = [t \in SUBSET (1..n) |-> IF t = {} THEN Start ELSE Walk(ended, h[t \ {Max(t)}], fired[Max(t)])]
    BY ONLY <2>2, <2>3
  <2>5. RowFold(h)
    BY <1>2, <2>4 DEF RowFold
  <2> QED BY <2>5
<1>7. PICK g : RowFold(g) /\ Rows = (g[1..n]).rows
  BY <1>2, <1>6, RowsUnfold
<1>8. \A t \in SUBSET (1..n) : g[t] = IF t = {} THEN Start ELSE Walk(ended, g[t \ {Max(t)}], fired[Max(t)])
  BY <1>2, <1>7 DEF RowFold
<1> HIDE DEF V
<1>9. g[{}] = Start
  BY <1>8
<1>10. ASSUME NEW i \in 1..n PROVE g[1..i] = Walk(ended, g[1..(i - 1)], fired[i])
  <2>1. Max(1..i) = i /\ (1..i) \ {i} = 1..(i - 1)
    BY <1>1, LastOfAll
  <2>2. 1..i \in SUBSET (1..n) /\ 1..i # {}
    BY <1>1, FirstOfAll
  <2> QED BY <1>8, <2>1, <2>2
<1> DEFINE Upto(k) == /\ g[1..k] \in AccType /\ KeptAt(g[1..k], k, fired, ended, n)
                        /\ RowsAre((g[1..k]).rows, k, fired, ended, n)
           Good == {k \in Nat : k <= n => Upto(k)}
<1>11. 0 \in Good
  <2>1. 1..0 = {} /\ \A i \in 1..0 : FALSE
    OBVIOUS
  <2>2. Start \in AccType /\ Len(Start.rows) = 0 /\ KeptAt(Start, 0, fired, ended, n)
    BY StartIs
  <2>3. Start.rows \in Seq(RowType)
    BY <2>2 DEF AccType
  <2>4. RowsAre(Start.rows, 0, fired, ended, n)
    BY ONLY <2>1, <2>2, <2>3 DEF RowsAre
  <2> QED BY <1>9, <2>1, <2>2, <2>4
<1>12. ASSUME NEW k \in Nat, k \in Good PROVE k + 1 \in Good
  <2> SUFFICES ASSUME k + 1 <= n PROVE Upto(k + 1)
    OBVIOUS
  <2>1. k + 1 \in 1..n /\ (k + 1) - 1 = k /\ k <= n
    BY <1>1
  <2>2. PICK acc, new : acc = g[1..k] /\ new = g[1..(k + 1)]
    OBVIOUS
  <2>3. acc \in AccType /\ KeptAt(acc, (k + 1) - 1, fired, ended, n) /\ RowsAre(acc.rows, k, fired, ended, n)
    BY <1>12, <2>1, <2>2
  <2>4. new = Walk(ended, acc, fired[k + 1])
    BY <1>10, <2>1, <2>2
  <2>5. new \in AccType /\ KeptAt(new, k + 1, fired, ended, n) /\ RowAdded(new, acc, k + 1, fired, ended, n)
    BY ONLY Traced, Ordered(fired, ended, n), <2>1, <2>3, <2>4, KeptStep
  <2>6. PICK row : row \in RowType /\ new.rows = Append(acc.rows, row) /\ RowAt(row, k + 1, fired, ended, n)
    BY <2>5 DEF RowAdded
  <2>7. acc.rows \in Seq(RowType) /\ Len(acc.rows) = k /\ \A i \in 1..k : RowAt(acc.rows[i], i, fired, ended, n)
    BY <2>3 DEF RowsAre
  <2>8. /\ new.rows \in Seq(RowType) /\ Len(new.rows) = k + 1 /\ (new.rows)[k + 1] = row
        /\ \A i \in 1..k : (new.rows)[i] = (acc.rows)[i]
    BY ONLY <2>6, <2>7, k \in Nat, AppendProperties
  <2>9. ASSUME NEW i \in 1..(k + 1) PROVE RowAt((new.rows)[i], i, fired, ended, n)
    <3>1. i \in 1..k \/ i = k + 1
      OBVIOUS
    <3> QED BY <2>6, <2>7, <2>8, <3>1
  <2>10. RowsAre(new.rows, k + 1, fired, ended, n)
    BY <2>8, <2>9 DEF RowsAre
  <2> QED BY <2>2, <2>5, <2>10
<1>13. n \in Good
  <2> HIDE DEF Good
  <2> QED BY <1>1, <1>11, <1>12, NumberInduction
<1>14. n <= n
  BY <1>1
<1> QED BY <1>7, <1>13, <1>14

-----------------------------------------------------------------------------
(***************************************************************************)
(* The relations: the features are those of SPEC.md.                       *)
(***************************************************************************)
\* Some records, and where they are in a list of all.
LEMMA ByPlace ==
  ASSUME Traced, NEW s, NEW n, Lists(s, n), NEW I \in SUBSET (1..n), NEW S \in SUBSET Written,
         \A i \in 1..n : i \in I <=> s[i] \in S, NEW f, f = [r \in S |-> Value(r)]
  PROVE  Cardinality(S) = Cardinality(I) /\ SumFunction(f) = SumFunctionOnSet(Amounts(s), I)
<1>1. n \in Nat /\ s \in [1..n -> Written] /\ (\A i, j \in 1..n : s[i] = s[j] => i = j)
  BY DEF Lists
<1>2. IsFiniteSet(I)
  <2>1. 1 \in Int /\ n \in Int
    BY <1>1
  <2> QED BY <2>1, FS_Interval, FS_Subset
<1>3. ImageOf(s, I) = S
  <2>1. \A r \in S : \E i \in I : s[i] = r
    BY DEF Lists
  <2> QED BY <2>1 DEF ImageOf
<1>4. Renames(s, f, Amounts(s), I)
  <2>1. \A i \in I : i \in 1..n /\ s[i] \in S /\ s[i] \in Written
    BY <1>1
  <2>2. \A i \in I : Amounts(s)[i] = Value(s[i]) /\ Amounts(s)[i] \in Int
    BY <1>1, <2>1 DEF Amounts, Traced
  <2> QED BY <1>1, <2>1, <2>2 DEF Renames
<1>5. SumFunctionOnSet(f, S) = SumFunctionOnSet(Amounts(s), I)
  BY ONLY <1>2, <1>3, <1>4, SumImage
<1>6. DOMAIN f = S
  OBVIOUS
<1> DEFINE g == [i \in I |-> s[i]]
<1>7. g \in Bijection(I, S)
  <2>1. g \in [I -> S] /\ (\A i, j \in I : g[i] = g[j] => i = j)
    BY <1>1
  <2>2. \A r \in S : \E i \in I : g[i] = r
    BY DEF Lists
  <2> HIDE DEF g
  <2> QED BY <2>1, <2>2 DEF Bijection, Injection, Surjection, IsInjective
<1>8. Cardinality(S) = Cardinality(I)
  <2> HIDE DEF g
  <2>1. ExistsBijection(I, S)
    BY <1>7 DEF ExistsBijection
  <2> QED BY <1>2, <2>1, FS_Bijection
<1> QED BY <1>5, <1>6, <1>8 DEF SumFunction

\* The features that SPEC.md gives a trigger are those of its row.
LEMMA RowIs ==
  ASSUME Traced, NEW fired, NEW ended, NEW n, Ordered(fired, ended, n), NEW i \in 1..n,
         NEW row, RowAt(row, i, fired, ended, n)
  PROVE  FeatureAt(row, fired[i])
<1>1. /\ n \in Nat /\ fired \in [1..n -> Written] /\ ended \in [1..n -> Written]
      /\ \A j \in 1..n : fired[j].seq \in Nat /\ ended[j].end \in Nat
  BY OrderedTypes
<1>2. /\ Lists(fired, n) /\ Lists(ended, n)
      /\ \A j, k \in 1..n : j < k <=> fired[j].seq < fired[k].seq
  BY DEF Ordered
<1>3. PICK r : r = fired[i] /\ r \in Written /\ r.seq \in Nat
  BY <1>1
<1> SUFFICES ASSUME NEW x \in Regions
             PROVE  LET of(S)  == {p \in S : RegionAt(p) = x}
                        sum(S) == SumFunction([p \in S |-> Value(p)])
                        began  == of({p \in Written : p.seq < r.seq})
                        over   == of({p \in Written : p.end < r.seq})
                    IN  row.count[x] = Cardinality(began) /\ row.cum[x] = sum(began)
                        /\ row.cumend[x] = sum(over)
                        /\ row.last[x] =
                             IF began = {} THEN 0
                             ELSE Value(CHOOSE p \in began : \A q \in began : q.seq <= p.seq)
  BY <1>3 DEF FeatureAt
<1> DEFINE of(S) == {p \in S : RegionAt(p) = x}
           began == of({p \in Written : p.seq < r.seq})
           over == of({p \in Written : p.end < r.seq})
           fb == [p \in began |-> Value(p)]
           fo == [p \in over |-> Value(p)]
           before == Among(fired, i - 1, x)
           closed == Over(ended, n, r.seq, x)
<1>4. before \in SUBSET (1..n) /\ closed \in SUBSET (1..n)
  BY <1>1 DEF Among, Over
<1>5. \A j \in 1..n : j \in before <=> fired[j] \in began
  <2>1. \A j \in 1..n : j \in 1..(i - 1) <=> j < i
    BY <1>1
  <2>2. \A j \in 1..n : j < i <=> fired[j].seq < r.seq
    BY <1>2, <1>3
  <2> QED BY <1>1, <2>1, <2>2 DEF Among
<1>6. \A j \in 1..n : j \in closed <=> ended[j] \in over
  BY <1>1 DEF Over
<1>7. began \in SUBSET Written /\ over \in SUBSET Written
  OBVIOUS
<1>8. /\ row.count[x] = Cardinality(before)
      /\ row.cum[x] = SumFunctionOnSet(Amounts(fired), before)
      /\ row.cumend[x] = SumFunctionOnSet(Amounts(ended), closed)
      /\ row.last[x] = LastAmong(fired, i - 1, x)
  BY <1>3 DEF RowAt
<1> HIDE DEF before, closed
<1>9. Cardinality(began) = Cardinality(before)
      /\ SumFunction(fb) = SumFunctionOnSet(Amounts(fired), before)
  <2> HIDE DEF began
  <2> QED BY ONLY Traced, <1>2, <1>4, <1>5, <1>7, ByPlace
<1>10. SumFunction(fo) = SumFunctionOnSet(Amounts(ended), closed)
  <2> HIDE DEF over
  <2> QED BY ONLY Traced, <1>2, <1>4, <1>6, <1>7, ByPlace
<1>11. LastAmong(fired, i - 1, x)
         = IF began = {} THEN 0
           ELSE Value(CHOOSE p \in began : \A q \in began : q.seq <= p.seq)
  <2>1. began = {} <=> before = {}
    <3>1. \A p \in began : \E j \in 1..n : fired[j] = p
      BY <1>2, <1>7 DEF Lists
    <3> HIDE DEF began
    <3> QED BY <1>4, <1>5, <3>1
  <2>2. CASE before = {}
    BY <2>1, <2>2 DEF LastAmong, before
  <2>3. CASE before # {}
    <3>1. IsFiniteSet(before)
      <4>1. 1 \in Int /\ n \in Int
        BY <1>1
      <4> QED BY <1>4, <4>1, FS_Interval, FS_Subset
    <3>2. before \subseteq Int
      BY <1>4
    <3>3. PICK m : m = Max(before) /\ m \in before /\ \A j \in before : j <= m
      BY <2>3, <3>1, <3>2, MaxIs
    <3>4. fired[m] \in began /\ m \in 1..n
      BY <1>4, <1>5, <3>3
    <3>5. ASSUME NEW q \in began PROVE q.seq <= fired[m].seq
      <4>1. PICK j \in 1..n : fired[j] = q
        BY <1>2, <1>7 DEF Lists
      <4>2. j \in before
        BY <1>5, <4>1
      <4>3. j <= m
        BY <3>3, <4>2
      <4>4. j = m \/ j < m
        BY <3>4, <4>3
      <4>5. fired[j].seq \in Nat /\ fired[m].seq \in Nat
        BY <1>1, <3>4
      <4> QED BY <1>2, <3>4, <4>1, <4>4, <4>5
    <3>6. PICK p : p = CHOOSE q \in began : \A z \in began : z.seq <= q.seq
      OBVIOUS
    <3>7. p \in began /\ \A q \in began : q.seq <= p.seq
      <4> HIDE DEF began
      <4> QED BY <3>4, <3>5, <3>6
    <3>8. p.seq <= fired[m].seq /\ fired[m].seq <= p.seq /\ p \in Written
      BY <1>7, <3>4, <3>5, <3>7
    <3>9. p.seq \in Nat /\ fired[m].seq \in Nat /\ fired[m] \in Written
      BY <1>1, <3>4, <3>8 DEF Traced, Record
    <3>10. p = fired[m]
      <4>1. p.seq = fired[m].seq
        BY <3>8, <3>9
      <4> QED BY <3>8, <3>9, <4>1 DEF Traced
    <3>11. LastAmong(fired, i - 1, x) = Value(fired[m])
      BY <2>3, <3>3 DEF LastAmong, before
    <3> QED BY <2>1, <2>3, <3>6, <3>10, <3>11
  <2> QED BY <2>2, <2>3
<1> QED BY <1>8, <1>9, <1>10, <1>11

\* For every trigger the reader's features are SPEC.md's sets, whatever threads the
\* triggers are of, and however their frames were closed.
THEOREM FeaturesAlways == Spec => []FeaturesAreSpec
<1>1. IInv /\ BooksIInv => FeaturesAreSpec
  <2> SUFFICES ASSUME IInv, BooksIInv PROVE FeaturesAreSpec
    OBVIOUS
  <2>1. Traced
    BY TracedIs DEF BooksIInv
  <2>2. PICK fired, ended, n : fired = Fired /\ ended = Ended /\ n = Cardinality(Written)
    OBVIOUS
  <2>3. Ordered(fired, ended, n)
    BY <2>1, <2>2, FiredIs, EndedIs DEF Ordered
  <2>4. PICK rows : rows = Rows /\ RowsAre(rows, n, fired, ended, n)
    BY <2>1, <2>2, <2>3, RowsIs
  <2>5. n \in Nat /\ Len(fired) = n
    BY <2>1, <2>3, OrderedTypes
  <2>6. \A i \in 1..n : FeatureAt(rows[i], fired[i])
    BY <2>1, <2>3, <2>4, RowIs DEF RowsAre
  <2> QED BY <2>2, <2>4, <2>5, <2>6 DEF FeaturesAreSpec
<1> QED BY <1>1, Invariance, BooksInvariance, PTL

-----------------------------------------------------------------------------
(***************************************************************************)
(* The relations: sums of columns.                                         *)
(***************************************************************************)
\* The columns of the rows D, and what is to be a sum of them.
Tabled(target, col, D) ==
  /\ IsFiniteSet(D) /\ DOMAIN target = D /\ \A i \in D : target[i].y \in Int
  /\ IsFiniteSet(Columns) /\ DOMAIN col = Columns
  /\ \A c \in Columns : col[c] \in [D -> Int]

\* Columns with coefficients, and their sum in row i.
Weighted(cs) == DOMAIN cs \subseteq Columns /\ \A c \in DOMAIN cs : cs[c] \in Int
Terms(col, cs, i) == [c \in DOMAIN cs |-> cs[c] * col[c][i]]
SumAt(col, cs, i) == SumFunctionOnSet(Terms(col, cs, i), DOMAIN cs)

\* A product of integers is an integer.
LEMMA ProductInt == ASSUME NEW a \in Int, NEW b \in Int PROVE a * b \in Int
OBVIOUS

\* The terms and their sum are integers.
LEMMA SumAtInt ==
  ASSUME NEW target, NEW col, NEW D, Tabled(target, col, D), NEW cs, Weighted(cs), NEW i \in D
  PROVE  /\ IsFiniteSet(DOMAIN cs) /\ \A c \in DOMAIN cs : Terms(col, cs, i)[c] \in Int
         /\ SumAt(col, cs, i) \in Int
<1>1. DOMAIN cs \in SUBSET Columns /\ IsFiniteSet(Columns)
  BY DEF Weighted, Tabled
<1>2. IsFiniteSet(DOMAIN cs)
  BY <1>1, FS_Subset
<1>3. ASSUME NEW c \in DOMAIN cs PROVE Terms(col, cs, i)[c] \in Int
  <2>1. cs[c] \in Int /\ col[c][i] \in Int
    BY <1>1 DEF Weighted, Tabled
  <2>2. cs[c] * col[c][i] \in Int
    BY <2>1, ProductInt
  <2> QED BY <2>2 DEF Terms
<1> QED BY <1>2, <1>3, SumInt DEF SumAt

\* A sum leaves one value when it leaves as much in all rows.
LeavesOne(target, col, cs, D) ==
  D # {} /\ \A i, j \in D : target[i].y - SumAt(col, cs, i) = target[j].y - SumAt(col, cs, j)

\* A relation holds when it leaves one value.
LEMMA HoldsIs ==
  ASSUME NEW target, NEW col, NEW D, Tabled(target, col, D), NEW cs, Weighted(cs)
  PROVE  Holds(target, col, cs) <=> LeavesOne(target, col, cs, D)
<1> DEFINE left == [i \in D |-> target[i].y - SumAt(col, cs, i)]
<1>1. Left(target, col, cs) = ImageOf(left, D)
  <2>1. DOMAIN target = D
    BY DEF Tabled
  <2>2. ASSUME NEW i PROVE SumFunction([c \in DOMAIN cs |-> cs[c] * col[c][i]]) = SumAt(col, cs, i)
    <3>1. DOMAIN Terms(col, cs, i) = DOMAIN cs
      BY DEF Terms
    <3>2. SumFunction(Terms(col, cs, i)) = SumAt(col, cs, i)
      BY <3>1 DEF SumFunction, SumAt
    <3> QED BY <3>2 DEF Terms
  <2>3. Left(target, col, cs) = {target[i].y - SumAt(col, cs, i) : i \in D}
    BY <2>1, <2>2 DEF Left
  <2> QED BY <2>3 DEF ImageOf
<1>2. IsFiniteSet(ImageOf(left, D))
  <2>1. IsFiniteSet(D)
    BY DEF Tabled
  <2> HIDE DEF left
  <2> QED BY <2>1, ImageFinite
<1>3. Holds(target, col, cs) <=> \E v : ImageOf(left, D) = {v}
  BY <1>1, <1>2, FS_Singleton DEF Holds
<1>4. (\E v : ImageOf(left, D) = {v}) <=> D # {} /\ \A i, j \in D : left[i] = left[j]
  <2> HIDE DEF left
  <2> QED BY DEF ImageOf
<1> QED BY <1>3, <1>4 DEF LeavesOne

\* The columns are in an order.
Place(c) == 4 * c[1] + c[2]

\* The order is that of the places, which are all different.
LEMMA ColumnOrder ==
  ASSUME NEW c \in Columns, NEW d \in Columns
  PROVE  /\ Place(c) \in Nat /\ (Place(c) = Place(d) => c = d)
         /\ Earlier(c, d) <=> Place(c) < Place(d)
         /\ c # d => Earlier(c, d) \/ Earlier(d, c)
<1>1. /\ c = <<c[1], c[2]>> /\ c[1] \in 1..Len(Order) /\ c[2] \in 1..4
      /\ d = <<d[1], d[2]>> /\ d[1] \in 1..Len(Order) /\ d[2] \in 1..4
  BY DEF Columns
<1>2. c[1] \in Nat /\ c[2] \in 1..4 /\ d[1] \in Nat /\ d[2] \in 1..4
  BY <1>1
<1>3. \A a, b \in Nat, e, f \in 1..4 :
        /\ 4 * a + e \in Nat /\ (4 * a + e = 4 * b + f => a = b /\ e = f)
        /\ a < b \/ (a = b /\ e < f) <=> 4 * a + e < 4 * b + f
  OBVIOUS
<1>4. /\ Place(c) \in Nat /\ (Place(c) = Place(d) => c[1] = d[1] /\ c[2] = d[2])
      /\ Earlier(c, d) <=> Place(c) < Place(d)
      /\ Earlier(d, c) <=> Place(d) < Place(c)
  BY <1>2, <1>3 DEF Place, Earlier
<1>5. Place(d) \in Nat
  BY <1>2, <1>3 DEF Place
<1> QED BY <1>1, <1>4, <1>5

\* Of equal columns one is kept, and no two that are kept are equal.
LEMMA KeptApart ==
  ASSUME NEW col, NEW c \in Keep(col), NEW d \in Keep(col), col[c] = col[d]
  PROVE  c = d
BY ColumnOrder DEF Keep, Same

\* A column that is not constant has a kept one that is equal.
LEMMA KeptOne ==
  ASSUME NEW col, NEW c \in Columns, Varies(col[c])
  PROVE  \E d \in Keep(col) : col[d] = col[c]
<1> DEFINE equal == {d \in Columns : col[d] = col[c]}
           places == ImageOf([d \in equal |-> Place(d)], equal)
<1>1. places \subseteq Nat /\ places # {}
  BY ColumnOrder DEF ImageOf
<1>2. PICK p \in places : \A q \in places : p <= q
  <2> HIDE DEF places
  <2> QED BY <1>1, LeastNat
<1>3. PICK d \in equal : Place(d) = p
  BY DEF ImageOf
<1>4. ASSUME NEW e \in Columns, Earlier(e, d) PROVE ~Same(col[e], col[d])
  <2>1. Place(e) < Place(d) /\ Place(e) \in Nat /\ Place(d) \in Nat
    BY <1>4, ColumnOrder
  <2>2. e \in equal => Place(e) \in places
    BY DEF ImageOf
  <2>3. e \notin equal
    BY <1>2, <1>3, <2>1, <2>2
  <2> QED BY <1>3, <2>3 DEF Same
<1>5. d \in Keep(col)
  BY <1>3, <1>4 DEF Keep
<1> QED BY <1>3, <1>5

\* A sum of some columns, by other names for them.
Named(ds, cs, g, N) == ds = [m \in ImageOf(g, N) |-> cs[CHOOSE c \in N : g[c] = m]]
SameColumns(col, g, N, cs) ==
  /\ N \in SUBSET (DOMAIN cs)
  /\ \A c \in N : g[c] \in Columns /\ col[g[c]] = col[c]
  /\ \A c, d \in N : g[c] = g[d] => c = d

\* It is the same sum.
LEMMA RenamedIs ==
  ASSUME NEW target, NEW col, NEW D, Tabled(target, col, D), NEW cs, Weighted(cs),
         NEW N, NEW g, SameColumns(col, g, N, cs), NEW ds, Named(ds, cs, g, N)
  PROVE  /\ Weighted(ds) /\ DOMAIN ds = ImageOf(g, N) /\ \A c \in N : ds[g[c]] = cs[c]
         /\ \A i \in D : SumAt(col, ds, i) = SumFunctionOnSet(Terms(col, cs, i), N)
<1>1. DOMAIN ds = ImageOf(g, N)
  BY DEF Named
<1>2. ASSUME NEW c \in N PROVE g[c] \in DOMAIN ds /\ ds[g[c]] = cs[c]
  <2>1. g[c] \in ImageOf(g, N)
    BY DEF ImageOf
  <2>2. PICK d : d = CHOOSE e \in N : g[e] = g[c]
    OBVIOUS
  <2>3. d \in N /\ g[d] = g[c]
    BY <2>2
  <2>4. d = c
    BY <2>3 DEF SameColumns
  <2>5. ds[g[c]] = cs[CHOOSE e \in N : g[e] = g[c]]
    BY <2>1 DEF Named
  <2> QED BY <1>1, <2>1, <2>2, <2>4, <2>5
<1>3. \A m \in DOMAIN ds : \E c \in N : m = g[c]
  BY <1>1 DEF ImageOf
<1>4. Weighted(ds)
  BY <1>2, <1>3 DEF Weighted, SameColumns
<1>5. ASSUME NEW i \in D PROVE SumAt(col, ds, i) = SumFunctionOnSet(Terms(col, cs, i), N)
  <2>1. IsFiniteSet(DOMAIN cs) /\ \A c \in DOMAIN cs : Terms(col, cs, i)[c] \in Int
    BY SumAtInt
  <2>2. IsFiniteSet(N) /\ N \subseteq DOMAIN cs
    BY <2>1, FS_Subset DEF SameColumns
  <2>3. ASSUME NEW c \in N PROVE Terms(col, cs, i)[c] = Terms(col, ds, i)[g[c]]
    <3>1. Terms(col, ds, i)[g[c]] = ds[g[c]] * col[g[c]][i]
      BY <1>2 DEF Terms
    <3>2. Terms(col, cs, i)[c] = cs[c] * col[c][i]
      BY <2>2 DEF Terms
    <3> QED BY <1>2, <3>1, <3>2 DEF SameColumns
  <2>4. Renames(g, Terms(col, ds, i), Terms(col, cs, i), N)
    BY <2>1, <2>2, <2>3 DEF Renames, SameColumns
  <2>5. SumFunctionOnSet(Terms(col, ds, i), ImageOf(g, N)) = SumFunctionOnSet(Terms(col, cs, i), N)
    BY ONLY <2>2, <2>4, SumImage
  <2> QED BY <1>1, <2>5 DEF SumAt
<1> QED BY <1>1, <1>2, <1>4, <1>5

\* What Sums has.
LEMMA SumsAre ==
  ASSUME NEW names \in SUBSET Columns, NEW k, NEW cs
  PROVE  cs \in Sums(names, k) <=>
           /\ cs = [c \in DOMAIN cs |-> cs[c]] /\ DOMAIN cs \subseteq names
           /\ Cardinality(DOMAIN cs) = k /\ \A c \in DOMAIN cs : cs[c] \in Coefs
<1>1. cs \in Sums(names, k) <=>
        \E C : C \subseteq names /\ Cardinality(C) = k /\ cs \in [C -> Coefs]
  BY DEF Sums, kSubset
<1> QED BY <1>1

\* Coefficients are integers.
LEMMA CoefsInt == Coefs \subseteq Int
BY DEF Coefs

\* With the names given for its terms, a sum of kept columns leaves what it left.
LEMMA ReadingHolds ==
  ASSUME NEW target, NEW col, NEW D, Tabled(target, col, D), NEW k, NEW cs \in Sums(Keep(col), k),
         Holds(target, col, cs), NEW alt \in Readings(col, cs)
  PROVE  Holds(target, col, alt)
<1>1. Keep(col) \in SUBSET Columns
  BY DEF Keep
<1>2. DOMAIN cs \subseteq Keep(col) /\ \A c \in DOMAIN cs : cs[c] \in Coefs
  BY <1>1, SumsAre
<1>3. Weighted(cs)
  BY <1>1, <1>2, CoefsInt DEF Weighted
<1>4. PICK g : /\ \A c \in DOMAIN cs : g[c] \in Columns /\ g[c] \in {c} \cup Aliases(col, c)
               /\ alt = [m \in {g[c] : c \in DOMAIN cs} |-> cs[CHOOSE c \in DOMAIN cs : g[c] = m]]
  BY DEF Readings
<1>5. SameColumns(col, g, DOMAIN cs, cs)
  <2>1. \A c \in DOMAIN cs : g[c] \in Columns /\ col[g[c]] = col[c]
    BY <1>4 DEF Aliases, Same
  <2>2. \A c, d \in DOMAIN cs : g[c] = g[d] => c = d
    BY <1>2, <2>1, KeptApart
  <2> QED BY <2>1, <2>2 DEF SameColumns
<1>6. Named(alt, cs, g, DOMAIN cs)
  BY <1>4 DEF Named, ImageOf
<1>7. Weighted(alt) /\ \A i \in D : SumAt(col, alt, i) = SumFunctionOnSet(Terms(col, cs, i), DOMAIN cs)
  BY ONLY Tabled(target, col, D), <1>3, <1>5, <1>6, RenamedIs
<1>8. Weighted(alt) /\ \A i \in D : SumAt(col, alt, i) = SumAt(col, cs, i)
  BY <1>7 DEF SumAt
<1>9. LeavesOne(target, col, cs, D)
  BY <1>3, HoldsIs
<1>10. LeavesOne(target, col, alt, D)
  BY <1>8, <1>9 DEF LeavesOne
<1> QED BY <1>8, <1>10, HoldsIs

\* What a sum of different columns leaves is left too by a sum of no more kept ones:
\* the columns that are constant are dropped, and of the others those that were kept
\* stand for their copies.
LEMMA KeptSum ==
  ASSUME NEW target, NEW col, NEW D, Tabled(target, col, D), NEW k \in Nat, NEW cs \in Sums(Columns, k),
         \A c, d \in DOMAIN cs : c # d => col[c] # col[d], Holds(target, col, cs),
         NEW i0 \in D, NEW j0 \in D, target[i0].y # target[j0].y
  PROVE  \E l \in 1..k : \E ds \in Sums(Keep(col), l) : Holds(target, col, ds)
<1>1. DOMAIN cs \subseteq Columns /\ Cardinality(DOMAIN cs) = k /\ \A c \in DOMAIN cs : cs[c] \in Coefs
  BY SumsAre
<1>2. Weighted(cs)
  BY <1>1, CoefsInt DEF Weighted
<1>3. LeavesOne(target, col, cs, D)
  BY <1>2, HoldsIs
<1> DEFINE N == {c \in DOMAIN cs : Varies(col[c])}
           still == DOMAIN cs \ N
<1>4. IsFiniteSet(DOMAIN cs) /\ \A i \in D : \A c \in DOMAIN cs : Terms(col, cs, i)[c] \in Int
  BY <1>2, SumAtInt
<1>5. IsFiniteSet(N) /\ IsFiniteSet(still) /\ N \in SUBSET (DOMAIN cs) /\ N \cup still = DOMAIN cs
      /\ N \cap still = {}
  BY <1>4, FS_Subset
<1>6. ASSUME NEW i \in D, NEW j \in D
      PROVE  SumFunctionOnSet(Terms(col, cs, i), still) = SumFunctionOnSet(Terms(col, cs, j), still)
  <2>1. ASSUME NEW c \in still PROVE Terms(col, cs, i)[c] = Terms(col, cs, j)[c]
    <3>1. DOMAIN col[c] = D
      BY <1>1 DEF Tabled
    <3>2. col[c][i] = col[c][j]
      BY <3>1 DEF Varies
    <3> QED BY <3>2 DEF Terms
  <2> HIDE DEF still
  <2> QED BY <1>5, <2>1, SumSame
<1>7. ASSUME NEW i \in D
      PROVE  /\ SumFunctionOnSet(Terms(col, cs, i), N) \in Int
             /\ SumFunctionOnSet(Terms(col, cs, i), still) \in Int
             /\ SumAt(col, cs, i) = SumFunctionOnSet(Terms(col, cs, i), N)
                                    + SumFunctionOnSet(Terms(col, cs, i), still)
  <2>1. \A c \in N \cup still : Terms(col, cs, i)[c] \in Int
    BY <1>4
  <2>2. \A c \in N : Terms(col, cs, i)[c] \in Int
    BY <1>4
  <2>3. \A c \in still : Terms(col, cs, i)[c] \in Int
    BY <1>4
  <2> HIDE DEF N, still
  <2>4. SumFunctionOnSet(Terms(col, cs, i), N \cup still)
          = SumFunctionOnSet(Terms(col, cs, i), N) + SumFunctionOnSet(Terms(col, cs, i), still)
    BY ONLY <1>5, <2>1, SumUnion
  <2>5. SumFunctionOnSet(Terms(col, cs, i), N) \in Int /\ SumFunctionOnSet(Terms(col, cs, i), still) \in Int
    BY <1>5, <2>2, <2>3, SumInt
  <2> QED BY <1>5, <2>4, <2>5 DEF SumAt
<1>8. N # {}
  <2> SUFFICES ASSUME N = {} PROVE FALSE
    OBVIOUS
  <2>1. SumAt(col, cs, i0) = SumAt(col, cs, j0) /\ SumAt(col, cs, i0) \in Int
    <3>1. /\ SumFunctionOnSet(Terms(col, cs, i0), {}) = 0
          /\ SumFunctionOnSet(Terms(col, cs, j0), {}) = 0
      BY SumEmpty
    <3> HIDE DEF still
    <3> QED BY <1>6, <1>7, <3>1
  <2>2. target[i0].y - SumAt(col, cs, i0) = target[j0].y - SumAt(col, cs, j0)
    BY <1>3 DEF LeavesOne
  <2>3. target[i0].y \in Int /\ target[j0].y \in Int
    BY DEF Tabled
  <2> QED BY <2>1, <2>2, <2>3
<1>9. \A c \in N : \E d \in Keep(col) : col[d] = col[c]
  BY <1>1, KeptOne
<1>10. PICK g : \A c \in N : g[c] \in Keep(col) /\ col[g[c]] = col[c]
  <2> DEFINE f == [c \in N |-> CHOOSE d \in Keep(col) : col[d] = col[c]]
  <2>1. \A c \in N : f[c] \in Keep(col) /\ col[f[c]] = col[c]
    BY <1>9
  <2> QED BY <2>1
<1>11. SameColumns(col, g, N, cs)
  <2>1. \A c \in N : g[c] \in Columns /\ col[g[c]] = col[c]
    BY <1>10 DEF Keep
  <2>2. \A c, d \in N : g[c] = g[d] => c = d
    BY <1>10
  <2> QED BY <2>1, <2>2 DEF SameColumns
<1>12. PICK ds : Named(ds, cs, g, N)
  BY DEF Named
<1>13. /\ Weighted(ds) /\ DOMAIN ds = ImageOf(g, N) /\ \A c \in N : ds[g[c]] = cs[c]
       /\ \A i \in D : SumAt(col, ds, i) = SumFunctionOnSet(Terms(col, cs, i), N)
  <2> HIDE DEF N
  <2>1. PICK M : M = N
    OBVIOUS
  <2>2. SameColumns(col, g, M, cs) /\ Named(ds, cs, g, M)
    BY <1>11, <1>12, <2>1
  <2>3. /\ Weighted(ds) /\ DOMAIN ds = ImageOf(g, M) /\ \A c \in M : ds[g[c]] = cs[c]
        /\ \A i \in D : SumAt(col, ds, i) = SumFunctionOnSet(Terms(col, cs, i), M)
    BY ONLY Tabled(target, col, D), <1>2, <2>2, RenamedIs
  <2> QED BY <2>1, <2>3
<1>14. Holds(target, col, ds)
  <2>1. ASSUME NEW i \in D, NEW j \in D
        PROVE  target[i].y - SumAt(col, ds, i) = target[j].y - SumAt(col, ds, j)
    <3>1. target[i].y - SumAt(col, cs, i) = target[j].y - SumAt(col, cs, j)
      BY <1>3 DEF LeavesOne
    <3>2. target[i].y \in Int /\ target[j].y \in Int
      BY DEF Tabled
    <3> HIDE DEF N, still
    <3> QED BY <1>6, <1>7, <1>13, <3>1, <3>2
  <2>2. LeavesOne(target, col, ds, D)
    BY <2>1 DEF LeavesOne
  <2> QED BY <1>13, <2>2, HoldsIs
<1>15. Cardinality(DOMAIN ds) \in 1..k
  <2> DEFINE h == [c \in N |-> g[c]]
  <2>1. h \in Surjection(N, ImageOf(g, N)) /\ h \in Injection(N, ImageOf(g, N))
    BY <1>11 DEF ImageOf, SameColumns, Surjection, Injection, IsInjective
  <2> HIDE DEF h
  <2>2. Cardinality(ImageOf(g, N)) = Cardinality(N)
    BY <1>5, <2>1, FS_Surjection
  <2>3. Cardinality(N) <= k /\ Cardinality(N) \in Nat
    BY <1>1, <1>4, <1>5, FS_Subset, FS_CardinalityType
  <2>4. Cardinality(N) # 0
    BY <1>5, <1>8, FS_EmptySet
  <2> QED BY <1>13, <2>2, <2>3, <2>4
<1>16. ds \in Sums(Keep(col), Cardinality(DOMAIN ds))
  <2>1. \A m \in ImageOf(g, N) : \E c \in N : m = g[c]
    BY DEF ImageOf
  <2>2. \A m \in DOMAIN ds : m \in Keep(col) /\ ds[m] \in Coefs
    <3>1. \A c \in N : cs[c] \in Coefs
      BY <1>1
    <3> HIDE DEF N
    <3> QED BY <1>10, <1>13, <2>1, <3>1
  <2>3. ds = [m \in DOMAIN ds |-> ds[m]]
    BY <1>12 DEF Named
  <2>4. Keep(col) \in SUBSET Columns
    BY DEF Keep
  <2> QED BY <2>2, <2>3, <2>4, SumsAre
<1> QED BY <1>14, <1>15, <1>16

-----------------------------------------------------------------------------
(***************************************************************************)
(* The relations: what is printed holds, and what there is is found.       *)
(***************************************************************************)
\* The regions are finitely many, and so are the columns.
LEMMA OrderTypes ==
  IsFiniteSet(Columns) /\ \A i \in 1..Len(Order) : Order[i] \in Regions
<1>1. IsFiniteSet(Regions)
  <2>1. Regions = ImageOf(RegionOf, Keys)
    BY DEF Regions, ImageOf
  <2> QED BY <2>1, KeysAssumption, ImageFinite
<1> DEFINE m == Cardinality(Regions)
<1>2. m \in Nat /\ \E f : f \in Bijection(1..m, Regions)
  BY <1>1, FS_CardinalityType DEF ExistsBijection
<1>3. \E f \in [1..m -> Regions] : IsInjective(f)
  BY <1>2 DEF Bijection, Injection
<1>4. Order \in [1..m -> Regions]
  BY <1>3 DEF Order, SetToSeq
<1>5. Len(Order) = m
  BY <1>2, <1>4
<1>6. IsFiniteSet(1..m) /\ IsFiniteSet(1..4)
  <2>1. 1 \in Int /\ m \in Int /\ 4 \in Int
    BY <1>2
  <2> QED BY <2>1, FS_Interval
<1>7. IsFiniteSet(Columns)
  BY <1>5, <1>6, FS_Product DEF Columns
<1> QED BY <1>4, <1>5, <1>7

\* The table of a region's rows.
LEMMA TargetsAre ==
  ASSUME Traced, NEW r \in Regions, NEW fired, fired = Fired, NEW ended, ended = Ended, NEW n,
         Ordered(fired, ended, n), NEW target, target = Targets(r),
         NEW col, col = [c \in Columns |-> Column(target, c)]
  PROVE  Tabled(target, col, DOMAIN target)
<1>1. n \in Nat /\ fired \in [1..n -> Written]
  BY OrderedTypes
<1>2. RowsAre(Rows, n, fired, ended, n)
  BY RowsIs
<1> DEFINE D == {j \in 1..n : RegionAt(fired[j]) = r}
<1>3. Len(fired) = n
  BY <1>1
<1>4. target = [i \in D |-> [f |-> Rows[i], y |-> Value(fired[i])]]
  BY <1>3 DEF Targets
<1>5. DOMAIN target = D /\ IsFiniteSet(D)
  <2>1. 1 \in Int /\ n \in Int
    BY <1>1
  <2>2. D \in SUBSET (1..n)
    OBVIOUS
  <2>3. IsFiniteSet(D)
    <3> HIDE DEF D
    <3> QED BY <2>1, <2>2, FS_Interval, FS_Subset
  <2> QED BY <1>4, <2>3
<1>6. ASSUME NEW i \in D PROVE target[i].y \in Int /\ target[i].f \in RowType
  <2>1. target[i].y = Value(fired[i]) /\ target[i].f = Rows[i]
    BY <1>4
  <2>2. fired[i] \in Written /\ i \in 1..n
    BY <1>1
  <2>3. Rows[i] \in RowType
    BY <1>2, <2>2 DEF RowsAre
  <2> QED BY <2>1, <2>2, <2>3 DEF Traced
<1>7. ASSUME NEW c \in Columns PROVE col[c] \in [D -> Int]
  <2>1. c[1] \in 1..Len(Order) /\ c[2] \in 1..4
    BY DEF Columns
  <2>2. PICK x : x = Order[c[1]] /\ x \in Regions
    BY <2>1, OrderTypes
  <2>3. ASSUME NEW i \in D PROVE target[i].f[Features[c[2]]][x] \in Int
    <3>1. PICK row : row = target[i].f /\ row \in RowType
      BY <1>6
    <3>2. /\ row["count"][x] \in Int /\ row["cum"][x] \in Int
          /\ row["cumend"][x] \in Int /\ row["last"][x] \in Int
      BY <2>2, <3>1 DEF RowType
    <3>3. Features[c[2]] \in {"count", "cum", "cumend", "last"}
      BY <2>1 DEF Features
    <3> QED BY <3>1, <3>2, <3>3
  <2>4. col[c] = [i \in D |-> target[i].f[Features[c[2]]][Order[c[1]]]]
    BY <1>5 DEF Column
  <2> HIDE DEF D
  <2> QED BY <2>2, <2>3, <2>4
<1>8. DOMAIN col = Columns
  OBVIOUS
<1> QED BY <1>5, <1>6, <1>7, <1>8, OrderTypes DEF Tabled

\* A relation that is printed has the value of the state at every trigger of the region,
\* whichever of the names given for its terms are read; and a state that is a sum of
\* different features, kept or not, gets one.
THEOREM RelationsAlways == Spec => []RelationsExact
<1>1. IInv /\ BooksIInv => RelationsExact
  <2> SUFFICES ASSUME IInv, BooksIInv, NEW r \in Regions, NEW target, target = Targets(r),
                      NEW col, col = [c \in Columns |-> Column(target, c)],
                      Varies([i \in DOMAIN target |-> target[i].y])
               PROVE  /\ \A cs \in Exact(target, col) : \A alt \in Readings(col, cs) :
                           Holds(target, col, alt)
                      /\ (\E k \in 1..MaxTerms : \E cs \in Sums(Columns, k) :
                            /\ \A m, n \in DOMAIN cs : m # n => col[m] # col[n]
                            /\ Holds(target, col, cs))
                           => Exact(target, col) # {}
    BY DEF RelationsExact
  <2>1. Traced
    BY TracedIs DEF BooksIInv
  <2>2. Tabled(target, col, DOMAIN target)
    <3>1. PICK fired, ended, n : fired = Fired /\ ended = Ended /\ n = Cardinality(Written)
      OBVIOUS
    <3>2. Ordered(fired, ended, n)
      BY <2>1, <3>1, FiredIs, EndedIs DEF Ordered
    <3> QED BY <2>1, <3>1, <3>2, TargetsAre
  <2>3. PICK i0 \in DOMAIN target, j0 \in DOMAIN target : target[i0].y # target[j0].y
    BY DEF Varies
  <2> DEFINE exact(k) == {cs \in Sums(Keep(col), k) : Holds(target, col, cs)}
             some == {k \in 1..MaxTerms : exact(k) # {}}
  <2>4. Exact(target, col) = IF some = {} THEN {} ELSE exact(Min(some))
    BY DEF Exact
  <2>5. some # {} => exact(Min(some)) # {}
    <3>1. MaxTerms \in Nat /\ 1 \in Int /\ MaxTerms \in Int
      BY TermsAssumption
    <3>2. some \in SUBSET (1..MaxTerms) /\ some \subseteq Int
      BY <3>1
    <3>3. IsFiniteSet(some)
      <4> HIDE DEF some
      <4> QED BY <3>1, <3>2, FS_Interval, FS_Subset
    <3>4. some # {} => Min(some) \in some
      <4> HIDE DEF some
      <4> QED BY <3>2, <3>3, MinIs
    <3> QED BY <3>4
  <2>6. ASSUME NEW cs \in Exact(target, col), NEW alt \in Readings(col, cs)
        PROVE  Holds(target, col, alt)
    <3>1. PICK k : cs \in Sums(Keep(col), k) /\ Holds(target, col, cs)
      BY <2>4
    <3> QED BY <2>2, <3>1, ReadingHolds
  <2>7. ASSUME NEW k \in 1..MaxTerms, NEW cs \in Sums(Columns, k),
               \A m, n \in DOMAIN cs : m # n => col[m] # col[n], Holds(target, col, cs)
        PROVE  Exact(target, col) # {}
    <3>1. k \in Nat
      BY TermsAssumption
    <3>2. \E l \in 1..k : \E ds \in Sums(Keep(col), l) : Holds(target, col, ds)
      BY <2>2, <2>3, <2>7, <3>1, KeptSum
    <3>3. PICK l \in 1..k : \E ds \in Sums(Keep(col), l) : Holds(target, col, ds)
      BY <3>2
    <3>4. l \in some
      <4>1. l \in 1..MaxTerms
        BY <3>1, TermsAssumption
      <4> QED BY <3>3, <4>1
    <3> HIDE DEF exact
    <3> QED BY <2>4, <2>5, <3>4
  <2> QED BY <2>6, <2>7
<1> QED BY <1>1, Invariance, BooksInvariance, PTL
=============================================================================
