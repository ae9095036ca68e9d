------------------------------ MODULE FrameWork ------------------------------
(***************************************************************************)
(* What CRenderDevice::Run promises of the work its frames leave: it is    *)
(* done once, all of it and in its order, after the frame has moved the    *)
(* world and before the next one does, by whatever thread.                 *)
(***************************************************************************)
EXTENDS Naturals, Sequences, SequencesExt

CONSTANTS Task, MaxTasks

VARIABLES
    phase,   \* "between", "move", "work" or "over"
    queue,   \* what is still to be done
    passes   \* how many passes were made over the work of this frame

vars == <<phase, queue, passes>>

Init == phase = "between" /\ queue = <<>> /\ passes = 1

StartFrame == phase = "between" /\ phase' = "move" /\ passes' = 0 /\ UNCHANGED queue

Push(t) ==
    /\ phase = "move"
    /\ Len(queue) < MaxTasks
    /\ queue' \in {<<t>> \o queue, Append(queue, t)}
    /\ UNCHANGED <<phase, passes>>

Withdraw(t) ==
    /\ phase = "move"
    /\ queue' = RemoveFirst(queue, t)
    /\ UNCHANGED <<phase, passes>>

Open == phase = "move" /\ phase' = "work" /\ UNCHANGED <<queue, passes>>

Run ==
    /\ phase = "work"
    /\ queue # <<>>
    /\ queue' = Tail(queue)
    /\ UNCHANGED <<phase, passes>>

\* The pass is made, by a thread that may have been waiting for just that.
Close ==
    /\ phase = "work"
    /\ queue = <<>> /\ passes = 0
    /\ passes' = 1
    /\ phase' \in {"work", "between"}
    /\ UNCHANGED queue

EndFrame == phase = "work" /\ passes = 1 /\ phase' = "between" /\ UNCHANGED <<queue, passes>>

Finish == phase = "between" /\ phase' = "over" /\ UNCHANGED <<queue, passes>>

Next ==
    \/ StartFrame
    \/ \E t \in Task : Push(t) \/ Withdraw(t)
    \/ Open
    \/ Run
    \/ Close
    \/ EndFrame
    \/ Finish

Spec == Init /\ [][Next]_vars
=============================================================================
