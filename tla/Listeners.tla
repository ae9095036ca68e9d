----------------------------- MODULE Listeners -----------------------------
(***************************************************************************)
(* What a list of listeners promises while they come and go: in a pass     *)
(* everyone who was listed when it began and still is gets his call, once  *)
(* and in the order of the priorities; who is listed meanwhile is called   *)
(* after those; who has gone is not called any more.                       *)
(***************************************************************************)
EXTENDS Integers

CONSTANTS Listener, Priority

VARIABLES
    listed,   \* the listeners
    passing,  \* a pass is being made
    due,      \* those it has still to call of the ones it began with
    late      \* and of the ones that were listed since

vars == <<listed, passing, due, late>>

Init == listed \in SUBSET Listener /\ passing = FALSE /\ due = {} /\ late = {}

\* The lists change: waiting is who still has a call to come.
Changes(waitDue, waitLate) ==
    /\ listed' \in SUBSET Listener
    /\ due' \in SUBSET (waitDue \cap listed')
    /\ late' \in SUBSET (listed' \ due')
    /\ listed' \ (due' \union late') \subseteq listed \ (waitDue \union waitLate)
    /\ UNCHANGED passing

Change == IF passing THEN Changes(due, late)
                     ELSE listed' \in SUBSET Listener /\ UNCHANGED <<passing, due, late>>

Begin == ~passing /\ passing' = TRUE /\ due' = listed /\ late' = {} /\ UNCHANGED listed

\* Listener o is called, and what he does may change the lists.
Call(o) ==
    /\ passing
    /\ \/ o \in due /\ \A p \in due : Priority[p] <= Priority[o]
       \/ due = {} /\ o \in late
    /\ Changes(due \ {o}, late \ {o})

End == passing /\ due = {} /\ late = {} /\ passing' = FALSE /\ UNCHANGED <<listed, due, late>>

Next == Change \/ Begin \/ (\E o \in Listener : Call(o)) \/ End

Spec == Init /\ [][Next]_vars
=============================================================================
