------------------------ MODULE MarkerPathProofs ------------------------
(***************************************************************************)
(* Proofs about MarkerPath for any threads, keys and depth.                *)
(***************************************************************************)
EXTENDS MarkerPathInvariant, SequenceTheorems, TLAPS

\* A pushed key is the innermost one.
LEMMA AppendTop ==
  ASSUME NEW S, NEW s \in Seq(S), NEW k \in S
  PROVE  /\ Append(s, k) \in Seq(S)
         /\ Append(s, k) # <<>>
         /\ Top(Append(s, k)) = k
BY DEF Top

\* Cutting the stack above frame i leaves frame i - 1 as the innermost one.
LEMMA CutTop ==
  ASSUME NEW S, NEW s \in Seq(S), NEW i \in 1..Len(s)
  PROVE  /\ SubSeq(s, 1, i - 1) \in Seq(S)
         /\ i = 1 => SubSeq(s, 1, i - 1) = <<>>
         /\ i > 1 => /\ SubSeq(s, 1, i - 1) # <<>>
                     /\ Top(SubSeq(s, 1, i - 1)) = s[i - 1]
                     /\ s[i - 1] \in S
<1>1. i - 1 \in 0..Len(s) OBVIOUS
<1>2. /\ SubSeq(s, 1, i - 1) \in Seq(S)
      /\ Len(SubSeq(s, 1, i - 1)) = i - 1
      /\ \A j \in 1..(i - 1) : SubSeq(s, 1, i - 1)[j] = s[j]
  BY <1>1
<1>3. i = 1 => SubSeq(s, 1, i - 1) = <<>>
  BY <1>2
<1>4. i > 1 => SubSeq(s, 1, i - 1) # <<>>
  BY <1>2
<1>5. i > 1 => Top(SubSeq(s, 1, i - 1)) = s[i - 1]
  BY <1>2 DEF Top
<1>6. i > 1 => s[i - 1] \in S
  OBVIOUS
<1> QED BY <1>2, <1>3, <1>4, <1>5, <1>6

\* A non-empty stack has its innermost key in Keys.
LEMMA TopInKeys ==
  ASSUME NEW S, NEW s \in Seq(S), s # <<>>
  PROVE  Top(s) \in S
BY DEF Top

LEMMA LeaderTopInSlots ==
  ASSUME TypeOK, NEW t \in Threads
  PROVE  LeaderTop(t) \subseteq Slots
<1>1. CASE leader = NoThread \/ (leader # t /\ pc[leader] # "app")
  BY <1>1 DEF LeaderTop, Slots
<1>2. CASE leader # NoThread /\ ~(leader # t /\ pc[leader] # "app")
  <2>1. leader \in Threads BY <1>2 DEF TypeOK
  <2>2. stack[leader] # <<>> => Top(stack[leader]) \in Keys
    BY <2>1, TopInKeys DEF TypeOK
  <2> QED BY <1>2, <2>1, <2>2 DEF LeaderTop, Slots
<1> QED BY <1>1, <1>2

-----------------------------------------------------------------------------
LEMMA InitType == Init => TypeOK
<1> SUFFICES ASSUME Init PROVE TypeOK
  OBVIOUS
<1>1. stack \in [Threads -> Seq(Keys)]
  <2>1. <<>> \in Seq(Keys) OBVIOUS
  <2> QED BY <2>1 DEF Init
<1>2. cur \in [Threads -> Slots \cup {Unset}] /\ followed = cur
  BY DEF Init, Slots
<1>3. /\ pc \in [Threads -> {"app", "new"}]
      /\ op \in [Threads -> {"none"}]
      /\ val \in [Threads -> Slots]
  BY DEF Init, Slots
<1> QED BY <1>1, <1>2, <1>3, ThreadsAssumption DEF Init, TypeOK, Slots

LEMMA NextType == TypeOK /\ LockInv /\ [Next]_vars => TypeOK'
<1> SUFFICES ASSUME TypeOK, LockInv, [Next]_vars PROVE TypeOK'
  OBVIOUS
<1> USE DEF TypeOK, Slots, Goto, Enter, Cross, Restore, Return,
            people, pointer, common, walk, control, history
<1>1. ASSUME NEW t \in Threads, Register(t) PROVE TypeOK'
  BY <1>1 DEF Register, Linked
<1>2. ASSUME NEW t \in Threads, NEW k \in Keys, Begin(t, k) PROVE TypeOK'
  BY <1>2, AppendTop DEF Begin
<1>3. ASSUME NEW t \in Threads, NEW i \in 1..MaxDepth, End(t, i) PROVE TypeOK'
  <2>1. i \in 1..Len(stack[t]) BY <1>3 DEF End
  <2>2. /\ SubSeq(stack[t], 1, i - 1) \in Seq(Keys)
        /\ i > 1 => stack[t][i - 1] \in Keys
    BY <2>1, CutTop
  <2> QED BY <1>3, <2>2 DEF End
<1>4. ASSUME NEW t \in Threads, Exit(t) PROVE TypeOK'
  BY <1>4 DEF Exit
<1>5. ASSUME NEW t \in Threads, Die(t) PROVE TypeOK'
  BY <1>5 DEF Die
<1>6. ASSUME NEW t \in Threads, LoadShared(t) PROVE TypeOK'
  BY <1>6 DEF LoadShared
<1>7. ASSUME NEW t \in Threads, SetCur(t) PROVE TypeOK'
  BY <1>7 DEF SetCur
<1>8. ASSUME NEW t \in Threads, NoteFollowed(t) PROVE TypeOK'
  BY <1>8 DEF NoteFollowed
<1>9. ASSUME NEW t \in Threads, TestLeader(t) PROVE TypeOK'
  BY <1>9 DEF TestLeader, MustUpdate, Leaderless
<1>10. ASSUME NEW t \in Threads, TestThreads(t) PROVE TypeOK'
  BY <1>10 DEF TestThreads
<1>11. ASSUME NEW t \in Threads, FastLead(t) PROVE TypeOK'
  BY <1>11 DEF FastLead
<1>12. ASSUME NEW t \in Threads, FastRead(t) PROVE TypeOK'
  <2>1. PICK k \in Slots : val' = [val EXCEPT ![t] = k]
    BY <1>12, LeaderTopInSlots DEF FastRead
  <2> QED BY <1>12, <2>1 DEF FastRead
<1>13. ASSUME NEW t \in Threads, FastStore(t) PROVE TypeOK'
  <2>1. CASE t \in alive /\ stack[t] = <<>>
    <3>1. /\ op' = [op EXCEPT ![t] = "fast"]
          /\ pc' = [pc EXCEPT ![t] = "load"]
          /\ crossed' \subseteq Threads
      BY <1>13, <2>1 DEF FastStore
    <3>2. UNCHANGED <<people, stack, pointer, leader, lock, walk, opened, raced, val>>
          /\ shared' = val[t]
      BY <1>13, <2>1 DEF FastStore
    <3> QED BY <3>1, <3>2
  <2>2. CASE ~(t \in alive /\ stack[t] = <<>>)
    BY <1>13, <2>2 DEF FastStore
  <2> QED BY <2>1, <2>2
<1>14. ASSUME NEW t \in Threads, Lock(t) PROVE TypeOK'
  BY <1>14 DEF Lock
<1>15. ASSUME NEW t \in Threads, DropDead(t) PROVE TypeOK'
  BY <1>15 DEF DropDead, Remaining
<1>16. ASSUME NEW t \in Threads, Claim(t) PROVE TypeOK'
  BY <1>16 DEF Claim, MayLead
<1>17. ASSUME NEW t \in Threads, ReadTop(t) PROVE TypeOK'
  <2>1. PICK k \in Slots : val' = [val EXCEPT ![t] = k]
    BY <1>17, LeaderTopInSlots DEF ReadTop
  <2> QED BY <1>17, <2>1 DEF ReadTop
<1>18. ASSUME NEW t \in Threads, Publish(t) PROVE TypeOK'
  BY <1>18 DEF Publish, Visited
<1>19. ASSUME NEW t \in Threads, NEW u \in Threads, Walk(t, u) PROVE TypeOK'
  BY <1>19 DEF Walk, Ahead, Follows
<1>20. ASSUME NEW t \in Threads, WalkDone(t) PROVE TypeOK'
  BY <1>20 DEF WalkDone
<1>21. ASSUME NEW t \in Threads, LoadExpected(t) PROVE TypeOK'
  <2>1. aim \in Threads
    BY <1>21 DEF LoadExpected, LockInv, HoldsLock
  <2> QED BY <1>21, <2>1 DEF LoadExpected
<1>22. ASSUME NEW t \in Threads, Steer(t) PROVE TypeOK'
  <2>1. aim \in Threads
    BY <1>22 DEF Steer, Matches, LockInv, HoldsLock
  <2>2. crossed' \subseteq Threads
    BY <1>22, <2>1 DEF Steer, Matches
  <2>3. UNCHANGED <<people, stack, followed, common, lock, op, val, todo, raced>>
    BY <1>22 DEF Steer, Matches
  <2>4. cur' \in [Threads -> Slots \cup {Unset}]
    BY <1>22 DEF Steer, Matches
  <2>5. /\ pc' = [pc EXCEPT ![t] = "mark"] \/ pc' = [pc EXCEPT ![t] = "walk"]
        /\ aim' \in Threads \cup {NoThread} /\ seen' = Unset /\ opened' \in BOOLEAN
    BY <1>22, <2>1 DEF Steer, Matches
  <2> QED BY <2>2, <2>3, <2>4, <2>5
<1>23. ASSUME NEW t \in Threads, Mark(t) PROVE TypeOK'
  BY <1>23 DEF Mark, Marked
<1>24. ASSUME NEW t \in Threads, Unlock(t) PROVE TypeOK'
  BY <1>24 DEF Unlock, Released
<1>25. CASE UNCHANGED vars
  BY <1>25 DEF vars
<1> QED
  BY <1>1, <1>2, <1>3, <1>4, <1>5, <1>6, <1>7, <1>8, <1>9, <1>10, <1>11, <1>12,
     <1>13, <1>14, <1>15, <1>16, <1>17, <1>18, <1>19, <1>20, <1>21, <1>22, <1>23,
     <1>24, <1>25 DEF Next, Handler, Call, Finished

\* Program points, callbacks, registration and life of a thread stay consistent.
LEMMA NextLife == TypeOK /\ LifeInv /\ [Next]_vars => LifeInv'
<1> SUFFICES ASSUME TypeOK, LifeInv, [Next]_vars PROVE LifeInv'
  OBVIOUS
<1> USE DEF TypeOK, LifeInv, Storing, Goto, Enter, Return, people, pointer, common,
            walk, control, history
<1>1. ASSUME NEW t \in Threads, Register(t) PROVE LifeInv'
  BY <1>1 DEF Register, Linked
<1>2. ASSUME NEW t \in Threads, NEW k \in Keys, Begin(t, k) PROVE LifeInv'
  <2>1. stack[t] \in Seq(Keys)
    OBVIOUS
  <2>2. Append(stack[t], k) # <<>>
    BY ONLY <2>1, AppendTop
  <2> QED BY <1>2, <2>2 DEF Begin
<1>3. ASSUME NEW t \in Threads, NEW i \in 1..MaxDepth, End(t, i) PROVE LifeInv'
  BY <1>3, CutTop DEF End
<1>4. ASSUME NEW t \in Threads, Exit(t) PROVE LifeInv'
  BY <1>4 DEF Exit
<1>5. ASSUME NEW t \in Threads, Die(t) PROVE LifeInv'
  BY <1>5 DEF Die
<1>6. ASSUME NEW t \in Threads, LoadShared(t) PROVE LifeInv'
  BY <1>6 DEF LoadShared
<1>7. ASSUME NEW t \in Threads, SetCur(t) PROVE LifeInv'
  BY <1>7 DEF SetCur
<1>8. ASSUME NEW t \in Threads, NoteFollowed(t) PROVE LifeInv'
  BY <1>8 DEF NoteFollowed
<1>9. ASSUME NEW t \in Threads, TestLeader(t) PROVE LifeInv'
  BY <1>9 DEF TestLeader, MustUpdate, Leaderless
<1>10. ASSUME NEW t \in Threads, TestThreads(t) PROVE LifeInv'
  BY <1>10 DEF TestThreads
<1>11. ASSUME NEW t \in Threads, FastLead(t) PROVE LifeInv'
  BY <1>11 DEF FastLead
<1>12. ASSUME NEW t \in Threads, FastRead(t) PROVE LifeInv'
  BY <1>12 DEF FastRead
<1>13. ASSUME NEW t \in Threads, FastStore(t) PROVE LifeInv'
  BY <1>13 DEF FastStore
<1>14. ASSUME NEW t \in Threads, Lock(t) PROVE LifeInv'
  BY <1>14 DEF Lock
<1>15. ASSUME NEW t \in Threads, DropDead(t) PROVE LifeInv'
  BY <1>15 DEF DropDead, Remaining
<1>16. ASSUME NEW t \in Threads, Claim(t) PROVE LifeInv'
  BY <1>16 DEF Claim, MayLead
<1>17. ASSUME NEW t \in Threads, ReadTop(t) PROVE LifeInv'
  BY <1>17 DEF ReadTop
<1>18. ASSUME NEW t \in Threads, Publish(t) PROVE LifeInv'
  <2>1. /\ pc' = [pc EXCEPT ![t] = "unlock"] \/ pc' = [pc EXCEPT ![t] = "walk"]
        /\ pc[t] = "publish"
        /\ UNCHANGED <<people, stack, op>>
    BY <1>18 DEF Publish
  <2> QED BY <2>1
<1>19. ASSUME NEW t \in Threads, NEW u \in Threads, Walk(t, u) PROVE LifeInv'
  BY <1>19 DEF Walk, Ahead, Follows
<1>20. ASSUME NEW t \in Threads, WalkDone(t) PROVE LifeInv'
  BY <1>20 DEF WalkDone
<1>21. ASSUME NEW t \in Threads, LoadExpected(t) PROVE LifeInv'
  BY <1>21 DEF LoadExpected
<1>22. ASSUME NEW t \in Threads, Steer(t) PROVE LifeInv'
  BY <1>22 DEF Steer, Matches
<1>23. ASSUME NEW t \in Threads, Mark(t) PROVE LifeInv'
  BY <1>23 DEF Mark, Marked
<1>24. ASSUME NEW t \in Threads, Unlock(t) PROVE LifeInv'
  BY <1>24 DEF Unlock, Released
<1>25. CASE UNCHANGED vars
  BY <1>25 DEF vars
<1> QED
  BY <1>1, <1>2, <1>3, <1>4, <1>5, <1>6, <1>7, <1>8, <1>9, <1>10, <1>11, <1>12,
     <1>13, <1>14, <1>15, <1>16, <1>17, <1>18, <1>19, <1>20, <1>21, <1>22, <1>23,
     <1>24, <1>25 DEF Next, Handler, Call, Finished

\* One holder of leader_lock, and its walk aims at live threads only.
LEMMA NextLock == TypeOK /\ LifeInv /\ LockInv /\ [Next]_vars => LockInv'
<1> SUFFICES ASSUME TypeOK, LifeInv, LockInv, [Next]_vars PROVE LockInv'
  OBVIOUS
<1> USE ThreadsAssumption DEF TypeOK, LifeInv, LockInv, HoldsLock, Steering,
            Storing, Walking, Goto, Enter, Return, people, pointer, common, walk,
            control, history
<1>1. ASSUME NEW t \in Threads, Register(t) PROVE LockInv'
  BY <1>1 DEF Register, Linked
<1>2. ASSUME NEW t \in Threads, NEW k \in Keys, Begin(t, k) PROVE LockInv'
  BY <1>2 DEF Begin
<1>3. ASSUME NEW t \in Threads, NEW i \in 1..MaxDepth, End(t, i) PROVE LockInv'
  BY <1>3 DEF End
<1>4. ASSUME NEW t \in Threads, Exit(t) PROVE LockInv'
  BY <1>4 DEF Exit
<1>5. ASSUME NEW t \in Threads, Die(t) PROVE LockInv'
  BY <1>5 DEF Die
<1>6. ASSUME NEW t \in Threads, LoadShared(t) PROVE LockInv'
  BY <1>6 DEF LoadShared
<1>7. ASSUME NEW t \in Threads, SetCur(t) PROVE LockInv'
  BY <1>7 DEF SetCur
<1>8. ASSUME NEW t \in Threads, NoteFollowed(t) PROVE LockInv'
  BY <1>8 DEF NoteFollowed
<1>9. ASSUME NEW t \in Threads, TestLeader(t) PROVE LockInv'
  BY <1>9 DEF TestLeader, MustUpdate, Leaderless
<1>10. ASSUME NEW t \in Threads, TestThreads(t) PROVE LockInv'
  BY <1>10 DEF TestThreads
<1>11. ASSUME NEW t \in Threads, FastLead(t) PROVE LockInv'
  BY <1>11 DEF FastLead
<1>12. ASSUME NEW t \in Threads, FastRead(t) PROVE LockInv'
  BY <1>12 DEF FastRead
<1>13. ASSUME NEW t \in Threads, FastStore(t) PROVE LockInv'
  BY <1>13 DEF FastStore
<1>14. ASSUME NEW t \in Threads, Lock(t) PROVE LockInv'
  BY <1>14 DEF Lock
<1>15. ASSUME NEW t \in Threads, DropDead(t) PROVE LockInv'
  BY <1>15 DEF DropDead, Remaining
<1>16. ASSUME NEW t \in Threads, Claim(t) PROVE LockInv'
  BY <1>16 DEF Claim, MayLead
<1>17. ASSUME NEW t \in Threads, ReadTop(t) PROVE LockInv'
  BY <1>17 DEF ReadTop
<1>18. ASSUME NEW t \in Threads, Publish(t) PROVE LockInv'
  BY <1>18 DEF Publish, Visited
<1>19. ASSUME NEW t \in Threads, NEW u \in Threads, Walk(t, u) PROVE LockInv'
  BY <1>19 DEF Walk, Ahead, Follows
<1>20. ASSUME NEW t \in Threads, WalkDone(t) PROVE LockInv'
  BY <1>20 DEF WalkDone
<1>21. ASSUME NEW t \in Threads, LoadExpected(t) PROVE LockInv'
  BY <1>21 DEF LoadExpected
<1>22. ASSUME NEW t \in Threads, Steer(t) PROVE LockInv'
  BY <1>22 DEF Steer, Matches
<1>23. ASSUME NEW t \in Threads, Mark(t) PROVE LockInv'
  BY <1>23 DEF Mark, Marked
<1>24. ASSUME NEW t \in Threads, Unlock(t) PROVE LockInv'
  BY <1>24 DEF Unlock, Released
<1>25. CASE UNCHANGED vars
  BY <1>25 DEF vars
<1> QED
  BY <1>1, <1>2, <1>3, <1>4, <1>5, <1>6, <1>7, <1>8, <1>9, <1>10, <1>11, <1>12,
     <1>13, <1>14, <1>15, <1>16, <1>17, <1>18, <1>19, <1>20, <1>21, <1>22, <1>23,
     <1>24, <1>25 DEF Next, Handler, Call, Finished

\* A dead leader is on its way to be dropped.
LEMMA NextLeader ==
  TypeOK /\ LifeInv /\ LockInv /\ LeaderInv /\ SharedInv /\ [Next]_vars => LeaderInv'
<1> SUFFICES ASSUME TypeOK, LifeInv, LockInv, LeaderInv, SharedInv, [Next]_vars PROVE LeaderInv'
  OBVIOUS
<1> USE ThreadsAssumption DEF TypeOK, LifeInv, LockInv, HoldsLock, LeaderInv,
            Storing, LockFree, Goto, Enter, Return, people, pointer, common, walk,
            control, history
<1>1. ASSUME NEW t \in Threads, Register(t) PROVE LeaderInv'
  BY <1>1 DEF Register, Linked
<1>2. ASSUME NEW t \in Threads, NEW k \in Keys, Begin(t, k) PROVE LeaderInv'
  BY <1>2 DEF Begin
<1>3. ASSUME NEW t \in Threads, NEW i \in 1..MaxDepth, End(t, i) PROVE LeaderInv'
  BY <1>3 DEF End
<1>4. ASSUME NEW t \in Threads, Exit(t) PROVE LeaderInv'
  BY <1>4 DEF Exit
<1>5. ASSUME NEW t \in Threads, Die(t) PROVE LeaderInv'
  BY <1>5 DEF Die
<1>6. ASSUME NEW t \in Threads, LoadShared(t) PROVE LeaderInv'
  BY <1>6 DEF LoadShared
<1>7. ASSUME NEW t \in Threads, SetCur(t) PROVE LeaderInv'
  BY <1>7 DEF SetCur
<1>8. ASSUME NEW t \in Threads, NoteFollowed(t) PROVE LeaderInv'
  BY <1>8 DEF NoteFollowed
<1>9. ASSUME NEW t \in Threads, TestLeader(t) PROVE LeaderInv'
  BY <1>9 DEF TestLeader, MustUpdate, Leaderless
<1>10. ASSUME NEW t \in Threads, TestThreads(t) PROVE LeaderInv'
  BY <1>10 DEF TestThreads
<1>11. ASSUME NEW t \in Threads, FastLead(t) PROVE LeaderInv'
  BY <1>11 DEF FastLead
<1>12. ASSUME NEW t \in Threads, FastRead(t) PROVE LeaderInv'
  BY <1>12 DEF FastRead
<1>13. ASSUME NEW t \in Threads, FastStore(t) PROVE LeaderInv'
  <2>1. pc[t] = "faststore" /\ ~raced /\ stack[t] = <<>> => leader # t
    BY DEF SharedInv, AloneInv, LeaderKey
  <2> QED BY <1>13, <2>1 DEF FastStore
<1>14. ASSUME NEW t \in Threads, Lock(t) PROVE LeaderInv'
  BY <1>14 DEF Lock
<1>15. ASSUME NEW t \in Threads, DropDead(t) PROVE LeaderInv'
  BY <1>15 DEF DropDead, Remaining
<1>16. ASSUME NEW t \in Threads, Claim(t) PROVE LeaderInv'
  BY <1>16 DEF Claim, MayLead
<1>17. ASSUME NEW t \in Threads, ReadTop(t) PROVE LeaderInv'
  BY <1>17 DEF ReadTop
<1>18. ASSUME NEW t \in Threads, Publish(t) PROVE LeaderInv'
  BY <1>18 DEF Publish, Visited
<1>19. ASSUME NEW t \in Threads, NEW u \in Threads, Walk(t, u) PROVE LeaderInv'
  BY <1>19 DEF Walk, Ahead, Follows
<1>20. ASSUME NEW t \in Threads, WalkDone(t) PROVE LeaderInv'
  BY <1>20 DEF WalkDone
<1>21. ASSUME NEW t \in Threads, LoadExpected(t) PROVE LeaderInv'
  BY <1>21 DEF LoadExpected
<1>22. ASSUME NEW t \in Threads, Steer(t) PROVE LeaderInv'
  BY <1>22 DEF Steer, Matches
<1>23. ASSUME NEW t \in Threads, Mark(t) PROVE LeaderInv'
  BY <1>23 DEF Mark, Marked
<1>24. ASSUME NEW t \in Threads, Unlock(t) PROVE LeaderInv'
  BY <1>24 DEF Unlock, Released
<1>25. CASE UNCHANGED vars
  BY <1>25 DEF vars
<1> QED
  BY <1>1, <1>2, <1>3, <1>4, <1>5, <1>6, <1>7, <1>8, <1>9, <1>10, <1>11, <1>12,
     <1>13, <1>14, <1>15, <1>16, <1>17, <1>18, <1>19, <1>20, <1>21, <1>22, <1>23,
     <1>24, <1>25 DEF Next, Handler, Call, Finished

\* No counter pointer goes back to null.
LEMMA NextSet == TypeOK /\ LifeInv /\ LockInv /\ SetInv /\ [Next]_vars => SetInv'
<1> SUFFICES ASSUME TypeOK, LifeInv, LockInv, SetInv, [Next]_vars PROVE SetInv'
  OBVIOUS
<1> USE KeysAssumption DEF TypeOK, Slots, LifeInv, LockInv, HoldsLock, SetInv,
            Storing, Goto, Enter, Return, people, pointer, common, walk, control,
            history
<1>1. ASSUME NEW t \in Threads, Register(t) PROVE SetInv'
  BY <1>1 DEF Register, Linked
<1>2. ASSUME NEW t \in Threads, NEW k \in Keys, Begin(t, k) PROVE SetInv'
  BY <1>2 DEF Begin
<1>3. ASSUME NEW t \in Threads, NEW i \in 1..MaxDepth, End(t, i) PROVE SetInv'
  BY <1>3 DEF End
<1>4. ASSUME NEW t \in Threads, Exit(t) PROVE SetInv'
  BY <1>4 DEF Exit
<1>5. ASSUME NEW t \in Threads, Die(t) PROVE SetInv'
  BY <1>5 DEF Die
<1>6. ASSUME NEW t \in Threads, LoadShared(t) PROVE SetInv'
  BY <1>6 DEF LoadShared
<1>7. ASSUME NEW t \in Threads, SetCur(t) PROVE SetInv'
  BY <1>7 DEF SetCur
<1>8. ASSUME NEW t \in Threads, NoteFollowed(t) PROVE SetInv'
  BY <1>8 DEF NoteFollowed
<1>9. ASSUME NEW t \in Threads, TestLeader(t) PROVE SetInv'
  <2>1. cur' = cur /\ cur[t] # Unset
    BY <1>9 DEF TestLeader
  <2>2. \A u \in Threads \ {t} : pc'[u] = pc[u] /\ op'[u] = op[u]
    BY <1>9 DEF TestLeader, MustUpdate, Leaderless
  <2> QED BY <2>1, <2>2
<1>10. ASSUME NEW t \in Threads, TestThreads(t) PROVE SetInv'
  BY <1>10 DEF TestThreads
<1>11. ASSUME NEW t \in Threads, FastLead(t) PROVE SetInv'
  BY <1>11 DEF FastLead
<1>12. ASSUME NEW t \in Threads, FastRead(t) PROVE SetInv'
  BY <1>12 DEF FastRead
<1>13. ASSUME NEW t \in Threads, FastStore(t) PROVE SetInv'
  <2>1. cur' = cur /\ cur[t] # Unset
    BY <1>13 DEF FastStore
  <2>2. \A u \in Threads \ {t} : pc'[u] = pc[u] /\ op'[u] = op[u]
    BY <1>13 DEF FastStore
  <2> QED BY <2>1, <2>2
<1>14. ASSUME NEW t \in Threads, Lock(t) PROVE SetInv'
  BY <1>14 DEF Lock
<1>15. ASSUME NEW t \in Threads, DropDead(t) PROVE SetInv'
  BY <1>15 DEF DropDead, Remaining
<1>16. ASSUME NEW t \in Threads, Claim(t) PROVE SetInv'
  BY <1>16 DEF Claim, MayLead
<1>17. ASSUME NEW t \in Threads, ReadTop(t) PROVE SetInv'
  BY <1>17 DEF ReadTop
<1>18. ASSUME NEW t \in Threads, Publish(t) PROVE SetInv'
  BY <1>18 DEF Publish, Visited
<1>19. ASSUME NEW t \in Threads, NEW u \in Threads, Walk(t, u) PROVE SetInv'
  BY <1>19 DEF Walk, Ahead, Follows
<1>20. ASSUME NEW t \in Threads, WalkDone(t) PROVE SetInv'
  BY <1>20 DEF WalkDone
<1>21. ASSUME NEW t \in Threads, LoadExpected(t) PROVE SetInv'
  BY <1>21 DEF LoadExpected
<1>22. ASSUME NEW t \in Threads, Steer(t) PROVE SetInv'
  <2>1. val[t] # Unset
    OBVIOUS
  <2>2. \A u \in Threads : cur'[u] = cur[u] \/ cur'[u] = val[t]
    BY <1>22 DEF Steer, Matches
  <2>3. \A u \in Threads : u # t => pc'[u] = pc[u]
    BY <1>22 DEF Steer, Matches
  <2>4. pc[t] = "steer" /\ op' = op
    BY <1>22 DEF Steer, Matches
  <2>5. pc'[t] \in {"mark", "walk"}
    BY <1>22 DEF Steer, Matches
  <2> QED BY <2>1, <2>2, <2>3, <2>4, <2>5
<1>23. ASSUME NEW t \in Threads, Mark(t) PROVE SetInv'
  BY <1>23 DEF Mark, Marked
<1>24. ASSUME NEW t \in Threads, Unlock(t) PROVE SetInv'
  BY <1>24 DEF Unlock, Released
<1>25. CASE UNCHANGED vars
  BY <1>25 DEF vars
<1> QED
  BY <1>1, <1>2, <1>3, <1>4, <1>5, <1>6, <1>7, <1>8, <1>9, <1>10, <1>11, <1>12,
     <1>13, <1>14, <1>15, <1>16, <1>17, <1>18, <1>19, <1>20, <1>21, <1>22, <1>23,
     <1>24, <1>25 DEF Next, Handler, Call, Finished

\* A thread's own key is taken from cur only by a crossing.
LEMMA NextOwn == TypeOK /\ LifeInv /\ LockInv /\ OwnInv /\ [Next]_vars => OwnInv'
<1> SUFFICES ASSUME TypeOK, LifeInv, LockInv, OwnInv, [Next]_vars PROVE OwnInv'
  OBVIOUS
<1> USE ThreadsAssumption DEF TypeOK, LifeInv, LockInv, HoldsLock, OwnInv, Own,
            Storing, Aimed, SameKey, StaleStore, NotedFirst, Cross, Restore, Goto,
            Enter, Return, people, pointer, common, walk, control, history
<1>1. ASSUME NEW t \in Threads, Register(t) PROVE OwnInv'
  BY <1>1 DEF Register, Linked
<1>2. ASSUME NEW t \in Threads, NEW k \in Keys, Begin(t, k) PROVE OwnInv'
  <2>1. stack[t] \in Seq(Keys)
    OBVIOUS
  <2>2. Append(stack[t], k) # <<>> /\ Top(Append(stack[t], k)) = k
    BY ONLY <2>1, AppendTop
  <2>3. Own(t)'
    BY <1>2, <2>2 DEF Begin
  <2>4. ASSUME NEW u \in Threads \ crossed', u # t PROVE Own(u)'
    <3>1. Own(u)
      BY <1>2, <2>4 DEF Begin
    <3> QED BY <1>2, <2>4, <3>1 DEF Begin
  <2>5. \A u \in Threads : Aimed(u)' /\ stack'[u] # <<>> => opened'
    BY <1>2 DEF Begin
  <2> HIDE DEF Own
  <2> QED BY <2>3, <2>4, <2>5
<1>3. ASSUME NEW t \in Threads, NEW i \in 1..MaxDepth, End(t, i) PROVE OwnInv'
  <2>1. stack[t] \in Seq(Keys) /\ i \in 1..Len(stack[t])
    BY <1>3 DEF End
  <2>2. /\ i = 1 => SubSeq(stack[t], 1, i - 1) = <<>>
        /\ i > 1 => /\ SubSeq(stack[t], 1, i - 1) # <<>>
                    /\ Top(SubSeq(stack[t], 1, i - 1)) = stack[t][i - 1]
    BY ONLY <2>1, CutTop
  <2>3. Own(t)'
    <3>1. /\ i = 1 => stack'[t] = <<>>
          /\ i > 1 => stack'[t] # <<>> /\ Top(stack'[t]) = val'[t]
      <4>1. stack'[t] = SubSeq(stack[t], 1, i - 1)
        BY <1>3 DEF End
      <4>2. i > 1 => val'[t] = stack[t][i - 1]
        BY <1>3 DEF End
      <4> QED BY ONLY <2>2, <4>1, <4>2
    <3>2. pc'[t] = (IF i > 1 THEN "set" ELSE "load")
      BY <1>3 DEF End
    <3>3. i \in Nat /\ i >= 1
      BY <2>1
    <3> QED BY <3>1, <3>2, <3>3
  <2>4. ASSUME NEW u \in Threads \ crossed', u # t PROVE Own(u)'
    <3>1. Own(u)
      BY <1>3, <2>4 DEF End
    <3> QED BY <1>3, <2>4, <3>1 DEF End
  <2>5. \A u \in Threads : Aimed(u)' /\ stack'[u] # <<>> => opened'
    BY <1>3 DEF End
  <2> HIDE DEF Own
  <2> QED BY <2>3, <2>4, <2>5
<1>4. ASSUME NEW t \in Threads, Exit(t) PROVE OwnInv'
  BY <1>4 DEF Exit
<1>5. ASSUME NEW t \in Threads, Die(t) PROVE OwnInv'
  BY <1>5 DEF Die
<1>6. ASSUME NEW t \in Threads, LoadShared(t) PROVE OwnInv'
  BY <1>6 DEF LoadShared
<1>7. ASSUME NEW t \in Threads, SetCur(t) PROVE OwnInv'
  BY <1>7 DEF SetCur
<1>8. ASSUME NEW t \in Threads, NoteFollowed(t) PROVE OwnInv'
  BY <1>8 DEF NoteFollowed
<1>9. ASSUME NEW t \in Threads, TestLeader(t) PROVE OwnInv'
  BY <1>9 DEF TestLeader, MustUpdate, Leaderless
<1>10. ASSUME NEW t \in Threads, TestThreads(t) PROVE OwnInv'
  BY <1>10 DEF TestThreads
<1>11. ASSUME NEW t \in Threads, FastLead(t) PROVE OwnInv'
  BY <1>11 DEF FastLead
<1>12. ASSUME NEW t \in Threads, FastRead(t) PROVE OwnInv'
  BY <1>12 DEF FastRead
<1>13. ASSUME NEW t \in Threads, FastStore(t) PROVE OwnInv'
  <2>1. ASSUME t \notin crossed' PROVE Own(t)'
    BY <1>13, <2>1 DEF FastStore
  <2>2. ASSUME NEW u \in Threads \ crossed', u # t PROVE Own(u)'
    <3>1. Own(u)
      BY <1>13, <2>2 DEF FastStore
    <3> QED BY <1>13, <2>2, <3>1 DEF FastStore
  <2>5. \A u \in Threads : Aimed(u)' /\ stack'[u] # <<>> => opened'
    BY <1>13 DEF FastStore
  <2> HIDE DEF Own
  <2> QED BY <2>1, <2>2, <2>5
<1>14. ASSUME NEW t \in Threads, Lock(t) PROVE OwnInv'
  BY <1>14 DEF Lock
<1>15. ASSUME NEW t \in Threads, DropDead(t) PROVE OwnInv'
  BY <1>15 DEF DropDead, Remaining
<1>16. ASSUME NEW t \in Threads, Claim(t) PROVE OwnInv'
  BY <1>16 DEF Claim, MayLead
<1>17. ASSUME NEW t \in Threads, ReadTop(t) PROVE OwnInv'
  BY <1>17 DEF ReadTop
<1>18. ASSUME NEW t \in Threads, Publish(t) PROVE OwnInv'
  BY <1>18 DEF Publish, Visited
<1>19. ASSUME NEW t \in Threads, NEW u \in Threads, Walk(t, u) PROVE OwnInv'
  BY <1>19 DEF Walk, Ahead, Follows
<1>20. ASSUME NEW t \in Threads, WalkDone(t) PROVE OwnInv'
  BY <1>20 DEF WalkDone
<1>21. ASSUME NEW t \in Threads, LoadExpected(t) PROVE OwnInv'
  BY <1>21 DEF LoadExpected
<1>22. ASSUME NEW t \in Threads, Steer(t) PROVE OwnInv'
  BY <1>22 DEF Steer, Matches
<1>23. ASSUME NEW t \in Threads, Mark(t) PROVE OwnInv'
  BY <1>23 DEF Mark, Marked
<1>24. ASSUME NEW t \in Threads, Unlock(t) PROVE OwnInv'
  BY <1>24 DEF Unlock, Released
<1>25. CASE UNCHANGED vars
  BY <1>25 DEF vars
<1> QED
  BY <1>1, <1>2, <1>3, <1>4, <1>5, <1>6, <1>7, <1>8, <1>9, <1>10, <1>11, <1>12,
     <1>13, <1>14, <1>15, <1>16, <1>17, <1>18, <1>19, <1>20, <1>21, <1>22, <1>23,
     <1>24, <1>25 DEF Next, Handler, Call, Finished

\* followed falls behind cur only by a crossing.
LEMMA NextMatch ==
  TypeOK /\ LifeInv /\ LockInv /\ OwnInv /\ SharedInv /\ MatchInv /\ [Next]_vars => MatchInv'
<1> SUFFICES ASSUME TypeOK, LifeInv, LockInv, OwnInv, SharedInv, MatchInv, [Next]_vars
             PROVE  MatchInv'
  OBVIOUS
<1> USE ThreadsAssumption DEF TypeOK, LifeInv, LockInv, HoldsLock, Steering, OwnInv,
            Own, SharedInv, AloneInv, UpdateInv, MatchInv, Match, AimedBy, LockFree,
            Storing, Aimed, SameKey, StaleStore, NotedFirst, Cross, Restore, Goto,
            Enter, Return, people, pointer, common, walk, control, history
<1>1. ASSUME NEW t \in Threads, Register(t) PROVE MatchInv'
  BY <1>1 DEF Register, Linked
<1>2. ASSUME NEW t \in Threads, NEW k \in Keys, Begin(t, k) PROVE MatchInv'
  <2>1. stack[t] \in Seq(Keys)
    OBVIOUS
  <2>2. Append(stack[t], k) # <<>> /\ Top(Append(stack[t], k)) = k
    BY ONLY <2>1, AppendTop
  <2>3. Match(t)'
    BY <1>2, <2>2 DEF Begin
  <2>4. ASSUME ~raced', NEW u \in Threads \ crossed', u # t PROVE Match(u)'
    <3>1. Match(u)
      BY <1>2, <2>4 DEF Begin
    <3> QED BY <1>2, <2>4, <3>1 DEF Begin
  <2> HIDE DEF Match
  <2> QED BY <2>3, <2>4
<1>3. ASSUME NEW t \in Threads, NEW i \in 1..MaxDepth, End(t, i) PROVE MatchInv'
  <2>1. stack[t] \in Seq(Keys) /\ i \in 1..Len(stack[t])
    BY <1>3 DEF End
  <2>2. /\ i = 1 => SubSeq(stack[t], 1, i - 1) = <<>>
        /\ i > 1 => /\ SubSeq(stack[t], 1, i - 1) # <<>>
                    /\ Top(SubSeq(stack[t], 1, i - 1)) = stack[t][i - 1]
    BY ONLY <2>1, CutTop
  <2>3. Match(t)'
    <3>1. /\ i = 1 => stack'[t] = <<>>
          /\ i > 1 => stack'[t] # <<>> /\ Top(stack'[t]) = val'[t]
      <4>1. stack'[t] = SubSeq(stack[t], 1, i - 1)
        BY <1>3 DEF End
      <4>2. i > 1 => val'[t] = stack[t][i - 1]
        BY <1>3 DEF End
      <4> QED BY ONLY <2>2, <4>1, <4>2
    <3>2. pc'[t] = (IF i > 1 THEN "set" ELSE "load")
      BY <1>3 DEF End
    <3>3. i \in Nat /\ i >= 1
      BY <2>1
    <3> QED BY <3>1, <3>2, <3>3
  <2>4. ASSUME ~raced', NEW u \in Threads \ crossed', u # t PROVE Match(u)'
    <3>1. Match(u)
      BY <1>3, <2>4 DEF End
    <3> QED BY <1>3, <2>4, <3>1 DEF End
  <2> HIDE DEF Match
  <2> QED BY <2>3, <2>4
<1>4. ASSUME NEW t \in Threads, Exit(t) PROVE MatchInv'
  BY <1>4 DEF Exit
<1>5. ASSUME NEW t \in Threads, Die(t) PROVE MatchInv'
  BY <1>5 DEF Die
<1>6. ASSUME NEW t \in Threads, LoadShared(t) PROVE MatchInv'
  BY <1>6 DEF LoadShared
<1>7. ASSUME NEW t \in Threads, SetCur(t) PROVE MatchInv'
  BY <1>7 DEF SetCur
<1>8. ASSUME NEW t \in Threads, NoteFollowed(t) PROVE MatchInv'
  BY <1>8 DEF NoteFollowed
<1>9. ASSUME NEW t \in Threads, TestLeader(t) PROVE MatchInv'
  BY <1>9 DEF TestLeader, MustUpdate, Leaderless
<1>10. ASSUME NEW t \in Threads, TestThreads(t) PROVE MatchInv'
  BY <1>10 DEF TestThreads
<1>11. ASSUME NEW t \in Threads, FastLead(t) PROVE MatchInv'
  BY <1>11 DEF FastLead
<1>12. ASSUME NEW t \in Threads, FastRead(t) PROVE MatchInv'
  BY <1>12 DEF FastRead
<1>13. ASSUME NEW t \in Threads, FastStore(t) PROVE MatchInv'
  BY <1>13 DEF FastStore
<1>14. ASSUME NEW t \in Threads, Lock(t) PROVE MatchInv'
  BY <1>14 DEF Lock
<1>15. ASSUME NEW t \in Threads, DropDead(t) PROVE MatchInv'
  BY <1>15 DEF DropDead, Remaining
<1>16. ASSUME NEW t \in Threads, Claim(t) PROVE MatchInv'
  BY <1>16 DEF Claim, MayLead
<1>17. ASSUME NEW t \in Threads, ReadTop(t) PROVE MatchInv'
  BY <1>17 DEF ReadTop
<1>18. ASSUME NEW t \in Threads, Publish(t) PROVE MatchInv'
  BY <1>18 DEF Publish, Visited
<1>19. ASSUME NEW t \in Threads, NEW u \in Threads, Walk(t, u) PROVE MatchInv'
  BY <1>19 DEF Walk, Ahead, Follows
<1>20. ASSUME NEW t \in Threads, WalkDone(t) PROVE MatchInv'
  BY <1>20 DEF WalkDone
<1>21. ASSUME NEW t \in Threads, LoadExpected(t) PROVE MatchInv'
  BY <1>21 DEF LoadExpected
<1>22. ASSUME NEW t \in Threads, Steer(t) PROVE MatchInv'
  BY <1>22 DEF Steer, Matches
<1>23. ASSUME NEW t \in Threads, Mark(t) PROVE MatchInv'
  BY <1>23 DEF Mark, Marked
<1>24. ASSUME NEW t \in Threads, Unlock(t) PROVE MatchInv'
  BY <1>24 DEF Unlock, Released
<1>25. CASE UNCHANGED vars
  BY <1>25 DEF vars
<1> QED
  BY <1>1, <1>2, <1>3, <1>4, <1>5, <1>6, <1>7, <1>8, <1>9, <1>10, <1>11, <1>12,
     <1>13, <1>14, <1>15, <1>16, <1>17, <1>18, <1>19, <1>20, <1>21, <1>22, <1>23,
     <1>24, <1>25 DEF Next, Handler, Call, Finished

\* shared_key follows the leader's innermost region.
LEMMA NextShared ==
  TypeOK /\ LifeInv /\ LockInv /\ LeaderInv /\ SharedInv /\ [Next]_vars => SharedInv'
<1> SUFFICES ASSUME TypeOK, LifeInv, LockInv, LeaderInv, SharedInv, [Next]_vars PROVE SharedInv'
  OBVIOUS
<1> USE ThreadsAssumption DEF TypeOK, LifeInv, LockInv, HoldsLock, Steering,
            LeaderInv, SharedInv, AloneInv, UpdateInv, RestInv, LeaderKey,
            LeaderSteady, AtRest, LockFree, Innermost, LeaderTop, Storing, Walking,
            Goto, Enter, Return, people, pointer, common, walk, control, history
<1>1. ASSUME NEW t \in Threads, Register(t) PROVE SharedInv'
  <2>1. ~raced' => AloneInv'
    <3>1. ~raced' => \A u \in Threads : ~LockFree(u)
      BY <1>1 DEF Register, Linked
    <3>2. \A u \in Threads : LockFree(u)' => LockFree(u)
      BY <1>1 DEF Register, Linked
    <3> QED BY <3>1, <3>2 DEF AloneInv
  <2>2. ~raced' => UpdateInv'
    BY <1>1 DEF Register, Linked
  <2>3. ~raced' => RestInv'
    BY <1>1 DEF Register, Linked
  <2> QED BY <2>1, <2>2, <2>3 DEF SharedInv
<1>2. ASSUME NEW t \in Threads, NEW k \in Keys, Begin(t, k) PROVE SharedInv'
  BY <1>2 DEF Begin
<1>3. ASSUME NEW t \in Threads, NEW i \in 1..MaxDepth, End(t, i) PROVE SharedInv'
  BY <1>3 DEF End
<1>4. ASSUME NEW t \in Threads, Exit(t) PROVE SharedInv'
  BY <1>4 DEF Exit
<1>5. ASSUME NEW t \in Threads, Die(t) PROVE SharedInv'
  BY <1>5 DEF Die
<1>6. ASSUME NEW t \in Threads, LoadShared(t) PROVE SharedInv'
  BY <1>6 DEF LoadShared
<1>7. ASSUME NEW t \in Threads, SetCur(t) PROVE SharedInv'
  BY <1>7 DEF SetCur
<1>8. ASSUME NEW t \in Threads, NoteFollowed(t) PROVE SharedInv'
  <2>1. ~raced' => AloneInv'
    BY <1>8 DEF NoteFollowed
  <2>2. ~raced' => UpdateInv'
    BY <1>8 DEF NoteFollowed
  <2>3. ~raced' => RestInv'
    BY <1>8 DEF NoteFollowed
  <2> QED BY <2>1, <2>2, <2>3 DEF SharedInv
<1>9. ASSUME NEW t \in Threads, TestLeader(t) PROVE SharedInv'
  <2>1. ~raced' => AloneInv'
    BY <1>9 DEF TestLeader, MustUpdate, Leaderless
  <2>2. ~raced' => UpdateInv'
    BY <1>9 DEF TestLeader, MustUpdate, Leaderless
  <2>3. ~raced' => RestInv'
    BY <1>9 DEF TestLeader, MustUpdate, Leaderless
  <2> QED BY <2>1, <2>2, <2>3 DEF SharedInv
<1>10. ASSUME NEW t \in Threads, TestThreads(t) PROVE SharedInv'
  BY <1>10 DEF TestThreads
<1>11. ASSUME NEW t \in Threads, FastLead(t) PROVE SharedInv'
  BY <1>11 DEF FastLead
<1>12. ASSUME NEW t \in Threads, FastRead(t) PROVE SharedInv'
  BY <1>12 DEF FastRead
<1>13. ASSUME NEW t \in Threads, FastStore(t) PROVE SharedInv'
  BY <1>13 DEF FastStore
<1>14. ASSUME NEW t \in Threads, Lock(t) PROVE SharedInv'
  BY <1>14 DEF Lock
<1>15. ASSUME NEW t \in Threads, DropDead(t) PROVE SharedInv'
  BY <1>15 DEF DropDead, Remaining
<1>16. ASSUME NEW t \in Threads, Claim(t) PROVE SharedInv'
  BY <1>16 DEF Claim, MayLead
<1>17. ASSUME NEW t \in Threads, ReadTop(t) PROVE SharedInv'
  BY <1>17 DEF ReadTop
<1>18. ASSUME NEW t \in Threads, Publish(t) PROVE SharedInv'
  <2>1. ~raced' => AloneInv'
    BY <1>18 DEF Publish, Visited
  <2>2. ~raced' => UpdateInv'
    BY <1>18 DEF Publish, Visited
  <2>3. ~raced' => RestInv'
    BY <1>18 DEF Publish, Visited
  <2> QED BY <2>1, <2>2, <2>3 DEF SharedInv
<1>19. ASSUME NEW t \in Threads, NEW u \in Threads, Walk(t, u) PROVE SharedInv'
  <2>1. ~raced' => AloneInv'
    BY <1>19 DEF Walk, Ahead, Follows
  <2>2. ~raced' => UpdateInv'
    BY <1>19 DEF Walk, Ahead, Follows
  <2>3. ~raced' => RestInv'
    BY <1>19 DEF Walk, Ahead, Follows
  <2> QED BY <2>1, <2>2, <2>3 DEF SharedInv
<1>20. ASSUME NEW t \in Threads, WalkDone(t) PROVE SharedInv'
  BY <1>20 DEF WalkDone
<1>21. ASSUME NEW t \in Threads, LoadExpected(t) PROVE SharedInv'
  BY <1>21 DEF LoadExpected
<1>22. ASSUME NEW t \in Threads, Steer(t) PROVE SharedInv'
  <2>1. ~raced' => AloneInv'
    BY <1>22 DEF Steer, Matches
  <2>2. ~raced' => UpdateInv'
    BY <1>22 DEF Steer, Matches
  <2>3. ~raced' => RestInv'
    BY <1>22 DEF Steer, Matches
  <2> QED BY <2>1, <2>2, <2>3 DEF SharedInv
<1>23. ASSUME NEW t \in Threads, Mark(t) PROVE SharedInv'
  BY <1>23 DEF Mark, Marked
<1>24. ASSUME NEW t \in Threads, Unlock(t) PROVE SharedInv'
  BY <1>24 DEF Unlock, Released
<1>25. CASE UNCHANGED vars
  BY <1>25 DEF vars
<1> QED
  BY <1>1, <1>2, <1>3, <1>4, <1>5, <1>6, <1>7, <1>8, <1>9, <1>10, <1>11, <1>12,
     <1>13, <1>14, <1>15, <1>16, <1>17, <1>18, <1>19, <1>20, <1>21, <1>22, <1>23,
     <1>24, <1>25 DEF Next, Handler, Call, Finished

\* The threads a walk has passed count into shared_key.
LEMMA NextFollow ==
  TypeOK /\ LifeInv /\ LockInv /\ OwnInv /\ MatchInv /\ SharedInv /\ FollowInv
    /\ [Next]_vars => FollowInv'
<1> SUFFICES ASSUME TypeOK, LifeInv, LockInv, OwnInv, MatchInv, SharedInv, FollowInv,
                    [Next]_vars
             PROVE  FollowInv'
  OBVIOUS
<1> USE ThreadsAssumption DEF TypeOK, LifeInv, LockInv, HoldsLock, Steering, OwnInv,
            Own, SharedInv, AloneInv, UpdateInv, MatchInv, Match, AimedBy, FollowInv,
            Follow, LockFree, Storing, Aimed, SameKey, StaleStore, NotedFirst, Cross,
            Restore, Goto, Enter, Return, people, pointer, common, walk, control, history
<1>1. ASSUME NEW t \in Threads, Register(t) PROVE FollowInv'
  BY <1>1 DEF Register, Linked
<1>2. ASSUME NEW t \in Threads, NEW k \in Keys, Begin(t, k) PROVE FollowInv'
  <2>1. stack[t] \in Seq(Keys)
    OBVIOUS
  <2>2. Append(stack[t], k) # <<>> /\ Top(Append(stack[t], k)) = k
    BY ONLY <2>1, AppendTop
  <2>3. Follow(t)'
    BY <1>2, <2>2 DEF Begin
  <2>4. ASSUME ~raced', NEW u \in alive' \ crossed', u # t PROVE Follow(u)'
    <3>1. Follow(u)
      BY <1>2, <2>4 DEF Begin
    <3> QED BY <1>2, <2>4, <3>1 DEF Begin
  <2> HIDE DEF Follow
  <2> QED BY <2>3, <2>4
<1>3. ASSUME NEW t \in Threads, NEW i \in 1..MaxDepth, End(t, i) PROVE FollowInv'
  <2>1. stack[t] \in Seq(Keys) /\ i \in 1..Len(stack[t])
    BY <1>3 DEF End
  <2>2. i > 1 => SubSeq(stack[t], 1, i - 1) # <<>>
    BY ONLY <2>1, CutTop
  <2>3. Follow(t)'
    <3>1. i > 1 => stack'[t] # <<>>
      <4>1. stack'[t] = SubSeq(stack[t], 1, i - 1)
        BY <1>3 DEF End
      <4> QED BY <2>2, <4>1
    <3>2. pc'[t] = (IF i > 1 THEN "set" ELSE "load")
      BY <1>3 DEF End
    <3>3. i \in Nat /\ i >= 1
      BY <2>1
    <3> QED BY <3>1, <3>2, <3>3
  <2>4. ASSUME ~raced', NEW u \in alive' \ crossed', u # t PROVE Follow(u)'
    <3>1. Follow(u)
      BY <1>3, <2>4 DEF End
    <3> QED BY <1>3, <2>4, <3>1 DEF End
  <2> HIDE DEF Follow
  <2> QED BY <2>3, <2>4
<1>4. ASSUME NEW t \in Threads, Exit(t) PROVE FollowInv'
  BY <1>4 DEF Exit
<1>5. ASSUME NEW t \in Threads, Die(t) PROVE FollowInv'
  BY <1>5 DEF Die
<1>6. ASSUME NEW t \in Threads, LoadShared(t) PROVE FollowInv'
  BY <1>6 DEF LoadShared
<1>7. ASSUME NEW t \in Threads, SetCur(t) PROVE FollowInv'
  BY <1>7 DEF SetCur
<1>8. ASSUME NEW t \in Threads, NoteFollowed(t) PROVE FollowInv'
  BY <1>8 DEF NoteFollowed
<1>9. ASSUME NEW t \in Threads, TestLeader(t) PROVE FollowInv'
  <2>1. ASSUME ~raced', t \in alive', t \notin crossed' PROVE Follow(t)'
    <3>1. Match(t) /\ Follow(t)
      BY <1>9, <2>1 DEF TestLeader, MustUpdate, Leaderless
    <3> QED BY <1>9, <2>1, <3>1 DEF TestLeader, MustUpdate, Leaderless
  <2>2. ASSUME ~raced', NEW v \in alive' \ crossed', v # t PROVE Follow(v)'
    <3>1. Match(v) /\ Follow(v)
      BY <1>9, <2>2 DEF TestLeader, MustUpdate, Leaderless
    <3> QED BY <1>9, <2>2, <3>1 DEF TestLeader, MustUpdate, Leaderless
  <2> HIDE DEF Follow
  <2> QED BY <2>1, <2>2
<1>10. ASSUME NEW t \in Threads, TestThreads(t) PROVE FollowInv'
  BY <1>10 DEF TestThreads
<1>11. ASSUME NEW t \in Threads, FastLead(t) PROVE FollowInv'
  BY <1>11 DEF FastLead
<1>12. ASSUME NEW t \in Threads, FastRead(t) PROVE FollowInv'
  BY <1>12 DEF FastRead
<1>13. ASSUME NEW t \in Threads, FastStore(t) PROVE FollowInv'
  BY <1>13 DEF FastStore
<1>14. ASSUME NEW t \in Threads, Lock(t) PROVE FollowInv'
  BY <1>14 DEF Lock
<1>15. ASSUME NEW t \in Threads, DropDead(t) PROVE FollowInv'
  BY <1>15 DEF DropDead, Remaining
<1>16. ASSUME NEW t \in Threads, Claim(t) PROVE FollowInv'
  BY <1>16 DEF Claim, MayLead
<1>17. ASSUME NEW t \in Threads, ReadTop(t) PROVE FollowInv'
  BY <1>17 DEF ReadTop
<1>18. ASSUME NEW t \in Threads, Publish(t) PROVE FollowInv'
  <2>1. CASE val[t] = shared
    <3>1. shared' = shared /\ todo' = todo /\ alive' = alive /\ crossed' = crossed
      BY <1>18, <2>1 DEF Publish
    <3>2. ASSUME ~raced', NEW u \in alive \ crossed PROVE Follow(u)'
      <4>1. Follow(u)
        BY <1>18, <3>2 DEF Publish
      <4>2. Storing(u)' = Storing(u) /\ LockFree(u)' = LockFree(u) /\ Aimed(u)' = Aimed(u)
        BY <1>18, <2>1 DEF Publish
      <4>3. UNCHANGED <<stack, op, val, cur>>
        BY <1>18, <2>1 DEF Publish
      <4>4. pc'[u] \in {"set", "note"} => pc'[u] = pc[u]
        BY <1>18, <2>1 DEF Publish
      <4> HIDE DEF Storing, LockFree, Aimed
      <4> QED BY <3>1, <4>1, <4>2, <4>3, <4>4
    <3> QED BY <3>1, <3>2
  <2>2. CASE val[t] # shared
    <3>1. todo' = registered /\ alive' = alive
      BY <1>18, <2>2 DEF Publish, Visited
    <3>2. ASSUME NEW u \in alive, stack'[u] = <<>>, op'[u] # "exit", u \notin todo'
          PROVE  FALSE
      BY <1>18, <3>1, <3>2 DEF Publish
    <3> QED BY <3>1, <3>2
  <2> QED BY <2>1, <2>2
<1>19. ASSUME NEW t \in Threads, NEW u \in Threads, Walk(t, u) PROVE FollowInv'
  <2>1. ASSUME ~raced', t \in alive', t \notin crossed' PROVE Follow(t)'
    <3>1. Match(t) /\ Follow(t)
      BY <1>19, <2>1 DEF Walk, Ahead, Follows
    <3> QED BY <1>19, <2>1, <3>1 DEF Walk, Ahead, Follows
  <2>2. ASSUME ~raced', NEW v \in alive' \ crossed', v # t PROVE Follow(v)'
    <3>1. Match(v) /\ Follow(v)
      BY <1>19, <2>2 DEF Walk, Ahead, Follows
    <3> QED BY <1>19, <2>2, <3>1 DEF Walk, Ahead, Follows
  <2> HIDE DEF Follow
  <2> QED BY <2>1, <2>2
<1>20. ASSUME NEW t \in Threads, WalkDone(t) PROVE FollowInv'
  BY <1>20 DEF WalkDone
<1>21. ASSUME NEW t \in Threads, LoadExpected(t) PROVE FollowInv'
  BY <1>21 DEF LoadExpected
<1>22. ASSUME NEW t \in Threads, Steer(t) PROVE FollowInv'
  <2>1. ASSUME ~raced', t \in alive', t \notin crossed' PROVE Follow(t)'
    <3>1. t \in alive \ crossed /\ ~raced
      BY <1>22, <2>1 DEF Steer, Matches
    <3>2. Match(t)
      BY <3>1
    <3>3. Follow(t)
      BY <3>1
    <3> QED BY <1>22, <2>1, <3>1, <3>2, <3>3 DEF Steer, Matches
  <2>2. ASSUME ~raced', NEW v \in alive' \ crossed', v # t PROVE Follow(v)'
    <3>1. Match(v) /\ Follow(v)
      BY <1>22, <2>2 DEF Steer, Matches
    <3> QED BY <1>22, <2>2, <3>1 DEF Steer, Matches
  <2> HIDE DEF Follow
  <2> QED BY <2>1, <2>2
<1>23. ASSUME NEW t \in Threads, Mark(t) PROVE FollowInv'
  BY <1>23 DEF Mark, Marked
<1>24. ASSUME NEW t \in Threads, Unlock(t) PROVE FollowInv'
  BY <1>24 DEF Unlock, Released
<1>25. CASE UNCHANGED vars
  BY <1>25 DEF vars
<1> QED
  BY <1>1, <1>2, <1>3, <1>4, <1>5, <1>6, <1>7, <1>8, <1>9, <1>10, <1>11, <1>12,
     <1>13, <1>14, <1>15, <1>16, <1>17, <1>18, <1>19, <1>20, <1>21, <1>22, <1>23,
     <1>24, <1>25 DEF Next, Handler, Call, Finished

-----------------------------------------------------------------------------
LEMMA InitInv == Init => IInv
<1> SUFFICES ASSUME Init PROVE IInv
  OBVIOUS
<1>1. TypeOK
  BY InitType
<1>2. LifeInv
  BY DEF Init, LifeInv, Storing
<1>3. LockInv /\ LeaderInv
  BY ThreadsAssumption DEF Init, LockInv, HoldsLock, LeaderInv
<1>4. SetInv
  BY KeysAssumption DEF Init, SetInv
<1>5. OwnInv
  BY DEF Init, OwnInv, Own
<1>8. MatchInv
  BY ThreadsAssumption DEF Init, MatchInv, Match, AimedBy, Aimed, Storing
<1>6. SharedInv
  BY DEF Init, SharedInv, AloneInv, UpdateInv, RestInv, LockFree, Steering, LeaderKey
<1>7. FollowInv
  BY ThreadsAssumption DEF Init, FollowInv, Follow, Storing
<1> QED BY <1>1, <1>2, <1>3, <1>4, <1>5, <1>6, <1>7, <1>8 DEF IInv

LEMMA NextInv == IInv /\ [Next]_vars => IInv'
<1> SUFFICES ASSUME IInv, [Next]_vars PROVE IInv'
  OBVIOUS
<1> USE DEF IInv
<1>1. TypeOK' BY NextType
<1>2. LifeInv' BY NextLife
<1>3. LockInv' BY NextLock
<1>4. LeaderInv' BY NextLeader
<1>5. SetInv' BY NextSet
<1>6. OwnInv' BY NextOwn
<1>7. SharedInv' BY NextShared
<1>8. FollowInv' BY NextFollow
<1>9. MatchInv' BY NextMatch
<1> QED BY <1>1, <1>2, <1>3, <1>4, <1>5, <1>6, <1>7, <1>8, <1>9

\* The inductive invariant holds in every behaviour of the marker path.
THEOREM Invariance == Spec => []IInv
BY InitInv, NextInv, PTL DEF Spec

\* Every variable keeps its type.
THEOREM TypeCorrect == Spec => []TypeOK
<1>1. IInv => TypeOK BY DEF IInv
<1> QED BY <1>1, Invariance, PTL

\* The leader is a live thread, or one whose exit callback is still running.
THEOREM LeaderLive == Spec => []LeaderIsLive
<1>1. IInv => LeaderIsLive
  BY ThreadsAssumption DEF IInv, TypeOK, LifeInv, LeaderInv, LeaderIsLive
<1> QED BY <1>1, Invariance, PTL

\* The counting code never writes through a null pointer.
THEOREM NeverNull == Spec => []CounterNeverNull
<1>1. IInv => CounterNeverNull
  BY DEF IInv, SetInv, CounterNeverNull
<1> QED BY <1>1, Invariance, PTL

\* Between updates shared_key is the leader's innermost key.
THEOREM SharedExact == Spec => []SharedIsLeaders
<1>1. IInv => SharedIsLeaders
  BY DEF IInv, SharedInv, RestInv, LeaderKey, SharedIsLeaders
<1> QED BY <1>1, Invariance, PTL

\* A thread in its own region counts into it unless it crossed a walk.
THEOREM OwnRegionExact == Spec => []OwnRegionCounted
<1>1. IInv => OwnRegionCounted
  BY DEF IInv, OwnInv, Own, OwnRegionCounted
<1> QED BY <1>1, Invariance, PTL

\* A thread without a region counts into the leader's, with the same exception.
THEOREM FollowersExact == Spec => []FollowersCounted
<1> SUFFICES ASSUME IInv, ~raced, AtRest,
                    NEW t \in Threads \ crossed, pc[t] = "app", stack[t] = <<>>
             PROVE  cur[t] = shared
  <2>1. IInv => FollowersCounted
    BY DEF FollowersCounted
  <2> QED BY <2>1, Invariance, PTL
<1>1. t \in alive /\ op[t] # "exit"
  BY DEF IInv, LifeInv
<1>2. t \notin todo /\ ~Aimed(t)
  BY ThreadsAssumption DEF IInv, LockInv, AtRest, Aimed
<1>3. ~Storing(t) /\ ~LockFree(t)
  BY DEF Storing, LockFree
<1> QED BY <1>1, <1>2, <1>3 DEF IInv, FollowInv, Follow

\* The leader's next exchange on a thread that crossed none can succeed.
THEOREM AlwaysSteerable == Spec => []Steerable
<1>1. IInv => Steerable
  BY DEF IInv, MatchInv, Match, AimedBy, Storing, Steerable
<1> QED BY <1>1, Invariance, PTL

\* A live leader with an open region, or with company, keeps its place.
THEOREM LeaderKept == Spec => LeaderStays
<1> DEFINE Kept == leader' # leader /\ leader \in alive /\ ~raced =>
                     stack[leader] = <<>> /\ registered = {leader}
<1>1. IInv /\ [Next]_vars => [Kept]_vars
  <2> SUFFICES ASSUME IInv, Next, leader' # leader, leader \in alive, ~raced
               PROVE  stack[leader] = <<>> /\ registered = {leader}
    OBVIOUS
  <2>1. leader # NoThread
    BY ThreadsAssumption DEF IInv, TypeOK
  <2>2. PICK t \in Threads : FastLead(t) \/ DropDead(t) \/ Claim(t)
    BY DEF Next, Handler, Call, Finished, vars, common, Register, Begin, End, Exit, Die,
           LoadShared, SetCur, NoteFollowed, TestLeader, TestThreads, FastRead,
           FastStore, Lock, ReadTop, Publish, Walk, WalkDone, LoadExpected, Steer,
           Mark, Unlock
  <2>3. FastLead(t)
    BY <2>1, <2>2 DEF DropDead, Remaining, Claim, MayLead
  <2>4. leader = t /\ registered = {t}
    BY <2>1, <2>3 DEF FastLead, IInv, SharedInv, AloneInv, LockFree
  <2> QED BY <2>3, <2>4 DEF FastLead
<1> QED BY <1>1, Invariance, PTL DEF Spec, LeaderStays
=============================================================================
