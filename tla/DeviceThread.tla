---------------------------- MODULE DeviceThread ----------------------------
(***************************************************************************)
(* The two threads of CRenderDevice::Run.  In each frame the primary       *)
(* thread moves the world (FrameMove), then renders while the secondary    *)
(* thread, mt_Thread, makes one pass over the work the frame left for it:  *)
(* the delegates of seqParallel, then seqFrameMT (network, physics,        *)
(* sound).  Two critical sections do it all: mt_csEnter is permission to   *)
(* make a pass, mt_csLeave keeps the secondary thread from making a second *)
(* one.  A pass the secondary thread did not get round to is made by the   *)
(* primary one, which knows it by mt_Thread_marker.                        *)
(***************************************************************************)
EXTENDS Naturals, Sequences, SequencesExt

CONSTANTS
    Task,        \* the delegates that can be put in seqParallel
    MaxTasks,    \* a frame leaves at most this many of them ...
    MaxFrame     \* ... and dwFrame stays below this bound

ASSUME BoundAssumption == MaxTasks \in Nat /\ MaxFrame \in Nat

VARIABLES
    primary,          \* where the thread of CRenderDevice::Run is
    secondary,        \* where mt_Thread is
    mt_csEnter,       \* who holds the critical section
    mt_csLeave,
    mt_bMustExit,
    mt_Thread_marker,
    dwFrame,
    seqParallel,
    pit,              \* each thread's loop counter in the pass
    served            \* how many passes the frame has had so far (history)

locks == <<mt_csEnter, mt_csLeave>>
work == <<mt_Thread_marker, dwFrame, seqParallel, pit, served>>
vars == <<primary, secondary, mt_csEnter, mt_csLeave, mt_bMustExit,
          mt_Thread_marker, dwFrame, seqParallel, pit, served>>

Thread == {"primary", "secondary"}
Free == "free"

\* The initial value 0x12345678 is the number of no frame the loop gets to.
NoFrame == MaxFrame + 1

PrimaryAt == {"loop", "move", "resume", "release", "render", "reclaim", "rejoin",
              "check", "pass", "appEnd", "letGo", "wait", "stopped"}
SecondaryAt == {"start", "test", "pass", "leave", "await", "return", "quit", "gone"}

TypeOK ==
    /\ primary \in PrimaryAt
    /\ secondary \in SecondaryAt
    /\ mt_csEnter \in Thread \cup {Free}
    /\ mt_csLeave \in Thread \cup {Free}
    /\ mt_bMustExit \in BOOLEAN
    /\ mt_Thread_marker \in 0..MaxFrame \cup {NoFrame}
    /\ dwFrame \in 0..MaxFrame
    /\ seqParallel \in Seq(Task)
    /\ pit \in [Thread -> Nat]
    /\ served \in Nat

Init ==
    /\ primary = "loop"
    /\ secondary = "start"
    /\ mt_csEnter = "primary"
    /\ mt_csLeave = Free
    /\ mt_bMustExit = FALSE
    /\ mt_Thread_marker = NoFrame
    /\ dwFrame = 0
    /\ seqParallel = <<>>
    /\ pit = [t \in Thread |-> 0]
    /\ served = 1

-----------------------------------------------------------------------------
(* One pass over the parallel work, by whichever thread.                   *)

RunTask(t) ==
    /\ pit[t] < Len(seqParallel)
    /\ pit' = [pit EXCEPT ![t] = @ + 1]
    /\ UNCHANGED <<mt_Thread_marker, dwFrame, seqParallel, served>>

\* clear_not_free, and seqFrameMT.Process
EndPass(t) ==
    /\ pit[t] >= Len(seqParallel)
    /\ seqParallel' = <<>>
    /\ served' = served + 1
    /\ pit' = [pit EXCEPT ![t] = 0]
    /\ UNCHANGED <<mt_Thread_marker, dwFrame>>

-----------------------------------------------------------------------------
(* The primary thread.                                                     *)

\* A loading event is run instead of a frame; CApplication::LoadDraw counts
\* a frame of its own.  It does so inside FrameMove, too.
LoadDraw ==
    /\ primary \in {"loop", "move"}
    /\ dwFrame < MaxFrame
    /\ dwFrame' = dwFrame + 1
    /\ UNCHANGED <<primary, secondary, locks, mt_bMustExit, mt_Thread_marker,
                   seqParallel, pit, served>>

FrameMove ==
    /\ primary = "loop"
    /\ dwFrame < MaxFrame
    /\ dwFrame' = dwFrame + 1
    /\ served' = 0
    /\ primary' = "move"
    /\ UNCHANGED <<secondary, locks, mt_bMustExit, mt_Thread_marker, seqParallel, pit>>

\* What the frame's handlers do to the queue: at the back, at the front
\* (CRender::OnFrame), or out of it again (remove_from_seq_parallel).
PushTask(t, front) ==
    /\ primary = "move"
    /\ Len(seqParallel) < MaxTasks
    /\ seqParallel' = IF front THEN <<t>> \o seqParallel ELSE Append(seqParallel, t)
    /\ UNCHANGED <<primary, secondary, locks, mt_bMustExit, mt_Thread_marker,
                   dwFrame, pit, served>>

RemoveTask(t) ==
    /\ primary = "move"
    /\ \E i \in DOMAIN seqParallel : seqParallel[i] = t
    /\ seqParallel' = RemoveFirst(seqParallel, t)
    /\ UNCHANGED <<primary, secondary, locks, mt_bMustExit, mt_Thread_marker,
                   dwFrame, pit, served>>

EndMove ==
    /\ primary = "move"
    /\ primary' = "resume"
    /\ UNCHANGED <<secondary, locks, mt_bMustExit, work>>

\* mt_csLeave.Enter: the secondary thread must run only one cycle
CaptureLeave ==
    /\ primary = "resume"
    /\ mt_csLeave = Free
    /\ mt_csLeave' = "primary"
    /\ primary' = "release"
    /\ UNCHANGED <<secondary, mt_csEnter, mt_bMustExit, work>>

\* mt_csEnter.Leave: ... and may run it now
ReleaseEnter ==
    /\ primary = "release"
    /\ mt_csEnter' = Free
    /\ primary' = "render"
    /\ UNCHANGED <<secondary, mt_csLeave, mt_bMustExit, work>>

Render ==
    /\ primary = "render"
    /\ primary' = "reclaim"
    /\ UNCHANGED <<secondary, locks, mt_bMustExit, work>>

\* mt_csEnter.Enter
CaptureEnter ==
    /\ primary = "reclaim"
    /\ mt_csEnter = Free
    /\ mt_csEnter' = "primary"
    /\ primary' = "rejoin"
    /\ UNCHANGED <<secondary, mt_csLeave, mt_bMustExit, work>>

\* mt_csLeave.Leave
ReleaseLeave ==
    /\ primary = "rejoin"
    /\ mt_csLeave' = Free
    /\ primary' = "check"
    /\ UNCHANGED <<secondary, mt_csEnter, mt_bMustExit, work>>

\* Ensure that the pass is made anyway.
CheckMarker ==
    /\ primary = "check"
    /\ primary' = IF dwFrame # mt_Thread_marker THEN "pass" ELSE "loop"
    /\ UNCHANGED <<secondary, locks, mt_bMustExit, work>>

PrimaryRuns ==
    /\ primary = "pass"
    /\ RunTask("primary")
    /\ UNCHANGED <<primary, secondary, locks, mt_bMustExit>>

PrimaryEndsPass ==
    /\ primary = "pass"
    /\ EndPass("primary")
    /\ primary' = "loop"
    /\ UNCHANGED <<secondary, locks, mt_bMustExit>>

\* WM_QUIT: the loop is left, seqAppEnd is processed.
Quit ==
    /\ primary = "loop"
    /\ primary' = "appEnd"
    /\ UNCHANGED <<secondary, locks, mt_bMustExit, work>>

MustExit ==
    /\ primary = "appEnd"
    /\ mt_bMustExit' = TRUE
    /\ primary' = "letGo"
    /\ UNCHANGED <<secondary, locks, work>>

\* Fault: the secondary thread is not let in to see that it must exit.
LetGo_Faulty ==
    /\ primary = "letGo"
    /\ primary' = "wait"
    /\ UNCHANGED <<secondary, locks, mt_bMustExit, work>>

LetGo ==
    /\ primary = "letGo"
    /\ mt_csEnter' = Free
    /\ primary' = "wait"
    /\ UNCHANGED <<secondary, mt_csLeave, mt_bMustExit, work>>

\* while (mt_bMustExit) Sleep(0)
Stop ==
    /\ primary = "wait"
    /\ ~mt_bMustExit
    /\ primary' = "stopped"
    /\ UNCHANGED <<secondary, locks, mt_bMustExit, work>>

Primary ==
    \/ LoadDraw
    \/ FrameMove
    \/ \E t \in Task, front \in BOOLEAN : PushTask(t, front)
    \/ \E t \in Task : RemoveTask(t)
    \/ EndMove
    \/ CaptureLeave
    \/ ReleaseEnter
    \/ Render
    \/ CaptureEnter
    \/ ReleaseLeave
    \/ CheckMarker
    \/ PrimaryRuns
    \/ PrimaryEndsPass
    \/ Quit
    \/ MustExit
    \/ LetGo
    \/ Stop

-----------------------------------------------------------------------------
(* The secondary thread.                                                   *)

MTEnter ==
    /\ secondary = "start"
    /\ mt_csEnter = Free
    /\ mt_csEnter' = "secondary"
    /\ secondary' = "test"
    /\ UNCHANGED <<primary, mt_csLeave, mt_bMustExit, work>>

MTExits ==
    /\ secondary = "test"
    /\ mt_bMustExit
    /\ mt_bMustExit' = FALSE
    /\ secondary' = "quit"
    /\ UNCHANGED <<primary, locks, work>>

MTQuit ==
    /\ secondary = "quit"
    /\ mt_csEnter' = Free
    /\ secondary' = "gone"
    /\ UNCHANGED <<primary, mt_csLeave, mt_bMustExit, work>>

\* Fault: the marker is left as it is.
MTBegins_Faulty ==
    /\ secondary = "test"
    /\ ~mt_bMustExit
    /\ secondary' = "pass"
    /\ UNCHANGED <<primary, locks, mt_bMustExit, work>>

MTBegins ==
    /\ secondary = "test"
    /\ ~mt_bMustExit
    /\ mt_Thread_marker' = dwFrame
    /\ secondary' = "pass"
    /\ UNCHANGED <<primary, locks, mt_bMustExit, dwFrame, seqParallel, pit, served>>

MTRuns ==
    /\ secondary = "pass"
    /\ RunTask("secondary")
    /\ UNCHANGED <<primary, secondary, locks, mt_bMustExit>>

MTEndsPass ==
    /\ secondary = "pass"
    /\ EndPass("secondary")
    /\ secondary' = "leave"
    /\ UNCHANGED <<primary, locks, mt_bMustExit>>

MTLeave ==
    /\ secondary = "leave"
    /\ mt_csEnter' = Free
    /\ secondary' = "await"
    /\ UNCHANGED <<primary, mt_csLeave, mt_bMustExit, work>>

\* Fault: the secondary thread does not wait for the end of the frame.
MTAwait_Faulty ==
    /\ secondary = "await"
    /\ secondary' = "start"
    /\ UNCHANGED <<primary, locks, mt_bMustExit, work>>

MTAwait ==
    /\ secondary = "await"
    /\ mt_csLeave = Free
    /\ mt_csLeave' = "secondary"
    /\ secondary' = "return"
    /\ UNCHANGED <<primary, mt_csEnter, mt_bMustExit, work>>

\* Fault: the end point is kept.
MTReturn_Faulty ==
    /\ secondary = "return"
    /\ secondary' = "start"
    /\ UNCHANGED <<primary, locks, mt_bMustExit, work>>

MTReturn ==
    /\ secondary = "return"
    /\ mt_csLeave' = Free
    /\ secondary' = "start"
    /\ UNCHANGED <<primary, mt_csEnter, mt_bMustExit, work>>

mt_Thread ==
    \/ MTEnter
    \/ MTExits
    \/ MTQuit
    \/ MTBegins
    \/ MTRuns
    \/ MTEndsPass
    \/ MTLeave
    \/ MTAwait
    \/ MTReturn

Next == Primary \/ mt_Thread

Spec == Init /\ [][Next]_vars

\* The primary thread need not start another frame, but goes on with the one
\* it is in; the work a frame leaves is finite.
InFrame ==
    EndMove \/ CaptureLeave \/ ReleaseEnter \/ Render \/ CaptureEnter \/ ReleaseLeave
    \/ CheckMarker \/ PrimaryRuns \/ PrimaryEndsPass \/ MustExit \/ LetGo \/ Stop

FairSpec == Spec /\ WF_vars(InFrame) /\ WF_vars(mt_Thread)

-----------------------------------------------------------------------------
(* Properties.                                                             *)

Moving == {"loop", "move", "resume", "release", "rejoin", "check", "pass", "appEnd", "letGo"}

\* Each critical section is held by the thread that is between its Enter and
\* its Leave, so that they exclude each other where they must.
LocksHeld ==
    /\ mt_csEnter = "primary" <=> primary \in Moving
    /\ mt_csEnter = "secondary" <=> secondary \in {"test", "pass", "leave", "quit"}
    /\ mt_csLeave = "primary" <=> primary \in {"release", "render", "reclaim", "rejoin"}
    /\ mt_csLeave = "secondary" <=> secondary = "return"

\* Inside a frame mt_Thread_marker tells whether the pass was made: by the
\* secondary thread, which then waits for the frame to end.
MarkerTells ==
    /\ mt_Thread_marker = NoFrame \/ mt_Thread_marker <= dwFrame
    /\ primary \in {"move", "resume", "release", "pass"} => mt_Thread_marker # dwFrame
    /\ primary \in {"render", "reclaim", "rejoin"} /\ mt_Thread_marker = dwFrame =>
           secondary \in {"pass", "leave", "await"}
    /\ secondary = "pass" => mt_Thread_marker = dwFrame

\* A frame has one pass, and none is owed between frames.
ServedOnce ==
    /\ primary \in {"move", "resume", "release", "pass"} => served = 0
    /\ primary \in {"render", "reclaim", "rejoin", "check"} =>
           served = IF mt_Thread_marker = dwFrame /\ secondary # "pass" THEN 1 ELSE 0
    /\ primary \in {"loop", "appEnd", "letGo", "wait", "stopped"} => served = 1
    /\ served = 1 => seqParallel = <<>>

\* The secondary thread works while the primary one renders and not else, and
\* each uses its loop counter in its pass.
PassesApart ==
    /\ secondary \in {"pass", "leave"} => primary \in {"render", "reclaim"}
    /\ pit["primary"] # 0 => primary = "pass"
    /\ pit["secondary"] # 0 => secondary = "pass"
    /\ \A t \in Thread : pit[t] <= Len(seqParallel)

\* mt_bMustExit is handed over once, and taken down by the thread that goes.
ExitHandedOver ==
    /\ mt_bMustExit <=> primary \in {"letGo", "wait"} /\ secondary \notin {"quit", "gone"}
    /\ secondary \in {"quit", "gone"} => primary \in {"wait", "stopped"}
    /\ primary = "stopped" => secondary \in {"quit", "gone"}

\* The inductive invariant.
IInv == TypeOK /\ LocksHeld /\ MarkerTells /\ ServedOnce /\ PassesApart /\ ExitHandedOver

Phase ==
    IF primary = "loop" THEN "between"
    ELSE IF primary = "move" THEN "move"
    ELSE IF primary \in {"appEnd", "letGo", "wait", "stopped"} THEN "over"
    ELSE "work"

\* What is left of the queue: only one of the threads is in its pass.
Owed == SubSeq(seqParallel, pit["primary"] + pit["secondary"] + 1, Len(seqParallel))

Promised == INSTANCE FrameWork WITH phase <- Phase, queue <- Owed, passes <- served

\* The two threads together do what FrameWork promises: no delegate of a
\* frame is lost, run twice, or run while the world moves or after it, when
\* what it is bound to may be gone; and seqFrameMT has its one call a frame.
DoesTheWork == Promised!Spec

\* A frame that has moved the world comes to its end: neither thread keeps
\* the other out for good.
FrameEnds == (primary = "resume") ~> (primary = "loop")

\* Run returns: the secondary thread sees that it must exit, and says so.
RunReturns == (primary = "appEnd") ~> (primary = "stopped")
=============================================================================
