------------------------- MODULE DeviceThread_proof -------------------------
(***************************************************************************)
(* The two threads of CRenderDevice::Run keep out of each other's way, and *)
(* do together what FrameWork promises, however many delegates a frame     *)
(* leaves and however many frames there are.                               *)
(***************************************************************************)
EXTENDS DeviceThread, SequenceTheorems, WellFoundedInduction, TLAPS

-----------------------------------------------------------------------------
(* The queue.                                                              *)

\* A set of naturals that is not empty has a least element.
LEMMA LeastNumber ==
    ASSUME NEW I \in SUBSET Nat, I # {}
    PROVE  \E m \in I : \A n \in I : m =< n
<1>1. PICK m \in I : \A n \in I : ~ (<<n, m>> \in OpToRel(<, Nat))
  BY NatLessThanWellFounded, WFMin
<1>2. ASSUME NEW n \in I
      PROVE  m =< n
  <2>1. ~ (<<n, m>> \in {ss \in Nat \X Nat : ss[1] < ss[2]})
    BY <1>1 DEF OpToRel
  <2>2. <<n, m>> \in Nat \X Nat /\ <<n, m>>[1] = n /\ <<n, m>>[2] = m
    OBVIOUS
  <2> QED
    BY <2>1, <2>2
<1> QED
  BY <1>2

\* remove_from_seq_parallel leaves a queue of delegates.
LEMMA Removed ==
    ASSUME NEW s \in Seq(Task), NEW t
    PROVE  RemoveFirst(s, t) \in Seq(Task)
<1>1. CASE ~ \E i \in 1..Len(s) : s[i] = t
  BY <1>1 DEF RemoveFirst
<1>2. CASE \E i \in 1..Len(s) : s[i] = t
  <2> DEFINE I == {i \in 1..Len(s) : s[i] = t}
             k == SelectInSeq(s, LAMBDA v : v = t)
  <2>1. I # {} /\ I \subseteq Nat
    BY <1>2
  <2>2. \E m \in I : \A n \in I : m =< n
    BY <2>1, LeastNumber
  <2>3. k \in 1..Len(s)
    BY <2>1, <2>2 DEF SelectInSeq, Min
  <2>4. RemoveFirst(s, t) = SubSeq(s, 1, k - 1) \o SubSeq(s, k + 1, Len(s))
    BY <1>2 DEF RemoveFirst, RemoveAt
  <2> HIDE DEF k
  <2>5. SubSeq(s, 1, k - 1) \in Seq(Task) /\ SubSeq(s, k + 1, Len(s)) \in Seq(Task)
    BY <2>3
  <2> QED
    BY <2>4, <2>5
<1> QED
  BY <1>1, <1>2

\* Before a pass all of the queue is owed, after it nothing is, and in it a
\* delegate that is run is the first one owed.
LEMMA WhatIsOwed ==
    ASSUME NEW s \in Seq(Task), NEW p \in Nat
    PROVE  /\ SubSeq(s, 1, Len(s)) = s
           /\ p >= Len(s) => SubSeq(s, p + 1, Len(s)) = <<>>
           /\ p < Len(s) =>
                /\ SubSeq(s, p + 1, Len(s)) # <<>>
                /\ Tail(SubSeq(s, p + 1, Len(s))) = SubSeq(s, p + 2, Len(s))
<1>1. SubSeq(s, 1, Len(s)) = s
  OBVIOUS
<1>2. p >= Len(s) => SubSeq(s, p + 1, Len(s)) = <<>>
  OBVIOUS
<1>3. ASSUME p < Len(s)
      PROVE  /\ SubSeq(s, p + 1, Len(s)) # <<>>
             /\ Tail(SubSeq(s, p + 1, Len(s))) = SubSeq(s, p + 2, Len(s))
  <2> DEFINE o == SubSeq(s, p + 1, Len(s))
             r == SubSeq(s, p + 2, Len(s))
  <2>1. o \in Seq(Task) /\ Len(o) = Len(s) - p /\ \A i \in 1..(Len(s) - p) : o[i] = s[p + i]
    BY <1>3
  <2>2. /\ r \in Seq(Task) /\ Len(r) = Len(s) - p - 1
        /\ \A i \in 1..(Len(s) - p - 1) : r[i] = s[p + 1 + i]
    BY <1>3
  <2> HIDE DEF o, r
  <2>3. o # <<>>
    BY <2>1, <1>3
  <2>4. Tail(o) \in Seq(Task) /\ Len(Tail(o)) = Len(o) - 1
    BY <2>1, <2>3
  <2>5. \A i \in 1..(Len(o) - 1) : Tail(o)[i] = o[i + 1]
    BY <2>1, <2>3
  <2>6. \A i \in 1..Len(r) : Tail(o)[i] = r[i]
    BY <2>1, <2>2, <2>5
  <2>7. Tail(o) = r
    BY <2>1, <2>2, <2>4, <2>6, SeqEqual
  <2> QED
    BY <2>3, <2>7 DEF o, r
<1> QED
  BY <1>1, <1>2, <1>3

-----------------------------------------------------------------------------
(* The invariant.                                                          *)

LEMMA Starts == Init => IInv
<1> SUFFICES ASSUME Init
             PROVE  IInv
  OBVIOUS
<1> USE BoundAssumption DEF Init, Thread, Free, NoFrame
<1>1. TypeOK
  <2>1. seqParallel \in Seq(Task)
    OBVIOUS
  <2>2. pit \in [Thread -> Nat]
    OBVIOUS
  <2>3. mt_bMustExit \in BOOLEAN
    OBVIOUS
  <2> QED
    BY <2>1, <2>2, <2>3 DEF TypeOK, PrimaryAt, SecondaryAt
<1>2. LocksHeld /\ MarkerTells /\ ExitHandedOver
  BY DEF LocksHeld, MarkerTells, ExitHandedOver, Moving
<1>3. ServedOnce /\ PassesApart
  BY DEF ServedOnce, PassesApart
<1> QED
  BY <1>1, <1>2, <1>3 DEF IInv

LEMMA Stays == IInv /\ [Next]_vars => IInv'
<1> SUFFICES ASSUME IInv, [Next]_vars
             PROVE  IInv'
  OBVIOUS
<1> USE BoundAssumption
<1> USE DEF IInv, TypeOK, LocksHeld, MarkerTells, ServedOnce, PassesApart, ExitHandedOver,
        PrimaryAt, SecondaryAt, Thread, Free, NoFrame, Moving, locks, work
<1>1. ASSUME LoadDraw
      PROVE  IInv'
  BY <1>1 DEF LoadDraw
<1>2. ASSUME FrameMove
      PROVE  IInv'
  BY <1>2 DEF FrameMove
<1>3. ASSUME NEW t \in Task, NEW front \in BOOLEAN, PushTask(t, front)
      PROVE  IInv'
  <2>1. seqParallel' \in Seq(Task)
    BY <1>3 DEF PushTask
  <2>2. pit["primary"] = 0 /\ pit["secondary"] = 0 /\ served = 0
    BY <1>3 DEF PushTask
  <2> QED
    BY <1>3, <2>1, <2>2 DEF PushTask
<1>4. ASSUME NEW t \in Task, RemoveTask(t)
      PROVE  IInv'
  <2>1. seqParallel' \in Seq(Task)
    BY <1>4, Removed DEF RemoveTask
  <2>2. pit["primary"] = 0 /\ pit["secondary"] = 0 /\ served = 0
    BY <1>4 DEF RemoveTask
  <2> QED
    BY <1>4, <2>1, <2>2 DEF RemoveTask
<1>5. ASSUME EndMove
      PROVE  IInv'
  BY <1>5 DEF EndMove
<1>6. ASSUME CaptureLeave
      PROVE  IInv'
  BY <1>6 DEF CaptureLeave
<1>7. ASSUME ReleaseEnter
      PROVE  IInv'
  BY <1>7 DEF ReleaseEnter
<1>8. ASSUME Render
      PROVE  IInv'
  BY <1>8 DEF Render
<1>9. ASSUME CaptureEnter
      PROVE  IInv'
  BY <1>9 DEF CaptureEnter
<1>10. ASSUME ReleaseLeave
      PROVE  IInv'
  BY <1>10 DEF ReleaseLeave
<1>11. ASSUME CheckMarker
      PROVE  IInv'
  BY <1>11 DEF CheckMarker
<1>12. ASSUME PrimaryRuns
      PROVE  IInv'
  BY <1>12 DEF PrimaryRuns, RunTask
<1>13. ASSUME PrimaryEndsPass
      PROVE  IInv'
  BY <1>13 DEF PrimaryEndsPass, EndPass
<1>14. ASSUME Quit
      PROVE  IInv'
  BY <1>14 DEF Quit
<1>15. ASSUME MustExit
      PROVE  IInv'
  BY <1>15 DEF MustExit
<1>16. ASSUME LetGo
      PROVE  IInv'
  BY <1>16 DEF LetGo
<1>17. ASSUME Stop
      PROVE  IInv'
  BY <1>17 DEF Stop
<1>18. ASSUME MTEnter
      PROVE  IInv'
  BY <1>18 DEF MTEnter
<1>19. ASSUME MTExits
      PROVE  IInv'
  BY <1>19 DEF MTExits
<1>20. ASSUME MTQuit
      PROVE  IInv'
  BY <1>20 DEF MTQuit
<1>21. ASSUME MTBegins
      PROVE  IInv'
  BY <1>21 DEF MTBegins
<1>22. ASSUME MTRuns
      PROVE  IInv'
  BY <1>22 DEF MTRuns, RunTask
<1>23. ASSUME MTEndsPass
      PROVE  IInv'
  BY <1>23 DEF MTEndsPass, EndPass
<1>24. ASSUME MTLeave
      PROVE  IInv'
  BY <1>24 DEF MTLeave
<1>25. ASSUME MTAwait
      PROVE  IInv'
  BY <1>25 DEF MTAwait
<1>26. ASSUME MTReturn
      PROVE  IInv'
  BY <1>26 DEF MTReturn
<1>27. ASSUME UNCHANGED vars
      PROVE  IInv'
  BY <1>27 DEF vars
<1> QED
  BY <1>1, <1>2, <1>3, <1>4, <1>5, <1>6, <1>7, <1>8, <1>9, <1>10, <1>11, <1>12, <1>13, <1>14, <1>15, <1>16, <1>17, <1>18, <1>19, <1>20, <1>21, <1>22, <1>23, <1>24, <1>25, <1>26, <1>27 DEF Next, Primary, mt_Thread

\* The invariant of the two threads: the critical sections are held where the
\* code means them to be, the marker tells whether the frame's pass was made,
\* the passes are apart and at most one a frame, and the exit is handed over.
THEOREM ThreadsApart == Spec => []IInv
  BY Starts, Stays, PTL DEF Spec

-----------------------------------------------------------------------------
(* The promise.                                                            *)

LEMMA PromisedAtFirst == Init => Promised!Init
  BY DEF Init, Promised!Init, Phase, Owed, Thread

\* The promise removes a delegate as the queue does.
LEMMA SameRemoval ==
    ASSUME NEW s, NEW t
    PROVE  Promised!RemoveFirst(s, t) = RemoveFirst(s, t)
  BY DEF Promised!RemoveFirst, Promised!RemoveAt, Promised!SelectInSeq, Promised!Min,
         RemoveFirst, RemoveAt, SelectInSeq, Min

\* Where the threads are and what they have done to the queue is all that the
\* promise is about.
LEMMA Stutters ==
    ASSUME UNCHANGED <<seqParallel, pit, served>>, Phase' = Phase
    PROVE  UNCHANGED Promised!vars
  BY DEF Promised!vars, Owed

\* While the world moves nothing of the queue is done.
LEMMA OwedAtFirst ==
    ASSUME IInv, primary = "move"
    PROVE  pit["primary"] = 0 /\ pit["secondary"] = 0 /\ Owed = seqParallel
<1>1. pit["primary"] = 0 /\ pit["secondary"] = 0
  BY DEF IInv, PassesApart
<1>2. seqParallel \in Seq(Task)
  BY DEF IInv, TypeOK
<1> QED
  BY <1>1, <1>2, WhatIsOwed DEF Owed

\* A thread in its pass runs the first delegate owed ...
LEMMA RunsFirst ==
    ASSUME IInv, NEW t \in Thread, RunTask(t), \A u \in Thread \ {t} : pit[u] = 0
    PROVE  Owed # <<>> /\ Owed' = Tail(Owed)
<1>1. /\ seqParallel \in Seq(Task) /\ pit \in [Thread -> Nat]
      /\ seqParallel' = seqParallel
      /\ pit[t] < Len(seqParallel) /\ pit[t] \in Nat
      /\ pit' = [pit EXCEPT ![t] = pit[t] + 1]
  BY DEF IInv, TypeOK, RunTask
<1>2. pit["primary"] + pit["secondary"] = pit[t]
  BY <1>1 DEF Thread
<1>3. pit'["primary"] + pit'["secondary"] + 1 = pit[t] + 2
  BY <1>1 DEF Thread
<1>4. Owed = SubSeq(seqParallel, pit[t] + 1, Len(seqParallel))
  BY <1>2 DEF Owed
<1>5. Owed' = SubSeq(seqParallel, pit[t] + 2, Len(seqParallel))
  BY <1>1, <1>3 DEF Owed
<1> QED
  BY <1>1, <1>4, <1>5, WhatIsOwed

\* ... and ends it when none is, with an empty queue.
LEMMA EndsWithNone ==
    ASSUME IInv, NEW t \in Thread, EndPass(t), \A u \in Thread \ {t} : pit[u] = 0
    PROVE  Owed = <<>> /\ Owed' = <<>>
<1>1. /\ seqParallel \in Seq(Task) /\ pit \in [Thread -> Nat]
      /\ seqParallel' = <<>>
      /\ pit[t] >= Len(seqParallel) /\ pit[t] \in Nat
      /\ pit' = [pit EXCEPT ![t] = 0]
  BY DEF IInv, TypeOK, EndPass
<1>2. pit["primary"] + pit["secondary"] = pit[t]
  BY <1>1 DEF Thread
<1>3. Owed = <<>>
  BY <1>1, <1>2, WhatIsOwed DEF Owed
<1>4. pit'["primary"] + pit'["secondary"] = 0
  BY <1>1 DEF Thread
<1>5. Owed' = <<>>
  BY <1>1, <1>4 DEF Owed
<1> QED
  BY <1>3, <1>5

\* The steps that the promise does not see: the critical sections are taken and
\* given back, a loading event is run, the threads are stopped.
LEMMA Unseen ==
    ASSUME \/ LoadDraw \/ CaptureLeave \/ ReleaseEnter \/ Render \/ CaptureEnter
           \/ ReleaseLeave \/ MustExit \/ LetGo \/ Stop
           \/ MTEnter \/ MTExits \/ MTQuit \/ MTBegins \/ MTLeave \/ MTAwait \/ MTReturn
           \/ UNCHANGED vars
    PROVE  UNCHANGED Promised!vars
<1>1. UNCHANGED <<seqParallel, pit, served>> /\ Phase' = Phase
  BY DEF LoadDraw, CaptureLeave, ReleaseEnter, Render, CaptureEnter, ReleaseLeave,
         MustExit, LetGo, Stop, MTEnter, MTExits, MTQuit, MTBegins, MTLeave, MTAwait,
         MTReturn, vars, locks, work, Phase
<1> QED
  BY <1>1, Stutters

\* Every step of the two threads does what the promise allows, or nothing of
\* what it is about.
LEMMA PromisedStep ==
    ASSUME IInv, [Next]_vars
    PROVE  Promised!Next \/ UNCHANGED Promised!vars
<1> USE DEF locks, work
<1>1. ASSUME FrameMove
      PROVE  Promised!StartFrame
  BY <1>1 DEF FrameMove, Promised!StartFrame, Phase, Owed
<1>2. ASSUME NEW t \in Task, NEW front \in BOOLEAN, PushTask(t, front)
      PROVE  Promised!Push(t)
  <2>1. Owed = seqParallel
    BY <1>2, OwedAtFirst DEF PushTask
  <2>2. Owed' = seqParallel'
    <3>1. seqParallel' \in Seq(Task)
      BY <1>2 DEF PushTask, IInv, TypeOK
    <3>2. pit'["primary"] = 0 /\ pit'["secondary"] = 0
      BY <1>2, OwedAtFirst DEF PushTask
    <3> QED
      BY <3>1, <3>2, WhatIsOwed DEF Owed
  <2>3. Phase = "move" /\ Phase' = "move" /\ served' = served /\ Len(seqParallel) < MaxTasks
    BY <1>2 DEF PushTask, Phase
  <2>4. seqParallel' \in {<<t>> \o seqParallel, Append(seqParallel, t)}
    BY <1>2 DEF PushTask
  <2> QED
    BY <2>1, <2>2, <2>3, <2>4 DEF Promised!Push
<1>3. ASSUME NEW t \in Task, RemoveTask(t)
      PROVE  Promised!Withdraw(t)
  <2>1. Owed = seqParallel
    BY <1>3, OwedAtFirst DEF RemoveTask
  <2>2. Owed' = seqParallel'
    <3>1. seqParallel' \in Seq(Task)
      BY <1>3, Removed DEF RemoveTask, IInv, TypeOK
    <3>2. pit'["primary"] = 0 /\ pit'["secondary"] = 0
      BY <1>3, OwedAtFirst DEF RemoveTask
    <3> QED
      BY <3>1, <3>2, WhatIsOwed DEF Owed
  <2>3. Phase = "move" /\ Phase' = "move" /\ served' = served
    BY <1>3 DEF RemoveTask, Phase
  <2>4. seqParallel' = RemoveFirst(seqParallel, t)
    BY <1>3 DEF RemoveTask
  <2> QED
    BY <2>1, <2>2, <2>3, <2>4, SameRemoval DEF Promised!Withdraw
<1>4. ASSUME EndMove
      PROVE  Promised!Open
  BY <1>4 DEF EndMove, Promised!Open, Phase, Owed
<1>5. ASSUME CheckMarker
      PROVE  Promised!EndFrame \/ UNCHANGED Promised!vars
  <2>1. CASE dwFrame # mt_Thread_marker
    <3>1. UNCHANGED <<seqParallel, pit, served>> /\ Phase' = Phase
      BY <1>5, <2>1 DEF CheckMarker, Phase
    <3> QED
      BY <3>1, Stutters
  <2>2. CASE dwFrame = mt_Thread_marker
    <3>1. served = 1
      BY <1>5, <2>2 DEF CheckMarker, IInv, ServedOnce, PassesApart
    <3> QED
      BY <1>5, <2>2, <3>1 DEF CheckMarker, Promised!EndFrame, Phase, Owed
  <2> QED
    BY <2>1, <2>2
<1>6. ASSUME PrimaryRuns
      PROVE  Promised!Run
  <2>1. pit["secondary"] = 0
    BY <1>6 DEF PrimaryRuns, IInv, PassesApart
  <2>2. Owed # <<>> /\ Owed' = Tail(Owed)
    BY <1>6, <2>1, RunsFirst DEF PrimaryRuns, Thread
  <2> QED
    BY <1>6, <2>2 DEF PrimaryRuns, RunTask, Promised!Run, Phase
<1>7. ASSUME MTRuns
      PROVE  Promised!Run
  <2>1. pit["primary"] = 0 /\ primary \in {"render", "reclaim"}
    BY <1>7 DEF MTRuns, IInv, PassesApart
  <2>2. Owed # <<>> /\ Owed' = Tail(Owed)
    BY <1>7, <2>1, RunsFirst DEF MTRuns, Thread
  <2> QED
    BY <1>7, <2>1, <2>2 DEF MTRuns, RunTask, Promised!Run, Phase
<1>8. ASSUME PrimaryEndsPass
      PROVE  Promised!Close
  <2>1. pit["secondary"] = 0 /\ served = 0
    BY <1>8 DEF PrimaryEndsPass, IInv, PassesApart, ServedOnce
  <2>2. Owed = <<>> /\ Owed' = <<>>
    BY <1>8, <2>1, EndsWithNone DEF PrimaryEndsPass, Thread
  <2> QED
    BY <1>8, <2>1, <2>2 DEF PrimaryEndsPass, EndPass, Promised!Close, Phase
<1>9. ASSUME MTEndsPass
      PROVE  Promised!Close
  <2>1. pit["primary"] = 0 /\ primary \in {"render", "reclaim"} /\ served = 0
    BY <1>9 DEF MTEndsPass, IInv, PassesApart, ServedOnce
  <2>2. Owed = <<>> /\ Owed' = <<>>
    BY <1>9, <2>1, EndsWithNone DEF MTEndsPass, Thread
  <2> QED
    BY <1>9, <2>1, <2>2 DEF MTEndsPass, EndPass, Promised!Close, Phase
<1>10. ASSUME Quit
       PROVE  Promised!Finish
  BY <1>10 DEF Quit, Promised!Finish, Phase, Owed
<1> QED
  BY <1>1, <1>2, <1>3, <1>4, <1>5, <1>6, <1>7, <1>8, <1>9, <1>10, Unseen
     DEF Next, Primary, mt_Thread, Promised!Next

\* CRenderDevice::Run implements FrameWork: whichever thread makes the pass,
\* the delegates a frame leaves are run once, in their order, after the frame
\* has moved the world and before the next one does, and seqFrameMT once with
\* them.
THEOREM WorkIsDone == Spec => DoesTheWork
<1>1. IInv /\ [Next]_vars => [Promised!Next]_(Promised!vars)
  BY PromisedStep
<1> QED
  BY <1>1, PromisedAtFirst, ThreadsApart, PTL DEF Spec, DoesTheWork, Promised!Spec
=============================================================================
