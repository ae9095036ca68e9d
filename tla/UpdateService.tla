--------------------------- MODULE UpdateService ---------------------------
(***************************************************************************)
(* What the scheduler promises to its objects: to be registered or not is  *)
(* decided at once, whatever the scheduler is doing, and an object is      *)
(* visited (asked whether it needs an update, and updated) only while it   *)
(* exists and is registered, and at most once in a frame.                  *)
(***************************************************************************)
CONSTANT Object

VARIABLES
    alive,       \* the objects that exist
    registered,  \* those the scheduler is to update
    visited,     \* those it has visited in this frame
    updating     \* it is at it

vars == <<alive, registered, visited, updating>>

Init == alive = {} /\ registered = {} /\ visited = {} /\ updating = FALSE

Construct(o) ==
    /\ o \notin alive
    /\ alive' = alive \cup {o}
    /\ UNCHANGED <<registered, visited, updating>>

Destruct(o) ==
    /\ o \in alive
    /\ alive' = alive \ {o}
    /\ registered' = registered \ {o}
    /\ UNCHANGED <<visited, updating>>

Register(o) ==
    /\ o \in alive \ registered
    /\ registered' = registered \cup {o}
    /\ UNCHANGED <<alive, visited, updating>>

Unregister(o) ==
    /\ o \in registered
    /\ registered' = registered \ {o}
    /\ UNCHANGED <<alive, visited, updating>>

Begin == ~updating /\ updating' = TRUE /\ visited' = {} /\ UNCHANGED <<alive, registered>>

Visit(o) ==
    /\ updating
    /\ o \in (registered \cap alive) \ visited
    /\ visited' = visited \cup {o}
    /\ UNCHANGED <<alive, registered, updating>>

\* An object that needs no update is not asked again.
Retire(o) ==
    /\ updating
    /\ o \in (registered \cap alive) \ visited
    /\ visited' = visited \cup {o}
    /\ registered' = registered \ {o}
    /\ UNCHANGED <<alive, updating>>

\* One whose update raised an exception neither.
Drop(o) ==
    /\ updating
    /\ o \in registered \cap visited
    /\ registered' = registered \ {o}
    /\ UNCHANGED <<alive, visited, updating>>

End == updating /\ updating' = FALSE /\ UNCHANGED <<alive, registered, visited>>

Next ==
    \/ \E o \in Object :
          \/ Construct(o)
          \/ Destruct(o)
          \/ Register(o)
          \/ Unregister(o)
          \/ Visit(o)
          \/ Retire(o)
          \/ Drop(o)
    \/ Begin
    \/ End

Spec == Init /\ [][Next]_vars
=============================================================================
