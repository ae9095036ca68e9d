----------------------------- MODULE ObjectList -----------------------------
(***************************************************************************)
(* CObjectList and the part of CObject it works on: the game objects of a  *)
(* client, the ones that are updated and the ones that sleep, the map from *)
(* network identifiers, who is in whose hands, and the queue of those to   *)
(* be destroyed at the end of the frame.                                   *)
(*                                                                         *)
(* An object is named by its identifier, which no other has while it       *)
(* lives.  Whatever keeps a pointer to an object is a variable here: the   *)
(* lists, its children's Parent, the inventory it is in and the memory of  *)
(* those who saw it.  The order of the lists is not told apart.            *)
(***************************************************************************)
EXTENDS Naturals

CONSTANTS
    ID,          \* network identifiers
    NoID,        \* 0xffff and a NULL parent
    Watcher      \* the objects with a memory

ASSUME ObjectAssumption == NoID \notin ID /\ Watcher \subseteq ID

VARIABLES
    objects_active, objects_sleeping,
    map_NETID,       \* the identifiers net_Find knows
    destroy_queue,   \* which is also who has getDestroy()
    Parent,          \* CObject::Parent
    m_all,           \* CInventory::m_all of a holder, m_items of a box
    memory           \* the objects a watcher remembers

listVars == <<objects_active, objects_sleeping>>
handVars == <<Parent, m_all>>
objectVars == <<listVars, map_NETID, destroy_queue, handVars, memory>>

ObjectTypeOK ==
    /\ objects_active \subseteq ID /\ objects_sleeping \subseteq ID \ objects_active
    /\ map_NETID \subseteq ID /\ destroy_queue \subseteq ID
    /\ Parent \in [ID -> ID \union {NoID}]
    /\ m_all \in [ID -> SUBSET ID]
    /\ memory \in [Watcher -> SUBSET ID]

ObjectInit ==
    /\ objects_active = {} /\ objects_sleeping = {} /\ map_NETID = {} /\ destroy_queue = {}
    /\ Parent = [o \in ID |-> NoID]
    /\ m_all = [o \in ID |-> {}]
    /\ memory = [w \in Watcher |-> {}]

Objects == objects_active \union objects_sleeping

\* o_activate, o_sleep
Processing(o, enabled) ==
    /\ objects_active' = IF enabled THEN objects_active \union {o} ELSE objects_active \ {o}
    /\ objects_sleeping' = IF enabled THEN objects_sleeping \ {o} ELSE objects_sleeping \union {o}

\* m_pCurrentInventory of e is p's: it takes, and drops, what it is in.
Owns(p, e) == e \in m_all[p] /\ Parent[e] = p

\* H_SetParent and CInventory::Take, H_SetParent(0) and DropItem.
Attached(p, o) ==
    /\ Parent' = [Parent EXCEPT ![o] = p]
    /\ m_all' = [m_all EXCEPT ![p] = @ \union {o}]

Detached(p, o) ==
    /\ m_all' = [m_all EXCEPT ![p] = @ \ {o}]
    /\ Parent' = IF o \in destroy_queue THEN Parent ELSE [Parent EXCEPT ![o] = NoID]

\* setDestroy and register_object_to_destroy: o, and what it still carries, the
\* least set with o and the children of its members.
WithChildren(o) ==
    {x \in ID : \A S \in SUBSET ID :
        o \in S /\ (\A c \in Objects \ destroy_queue : Parent[c] \in S => c \in S) => x \in S}

setDestroy(o) ==
    destroy_queue' = IF o \in destroy_queue THEN destroy_queue
                     ELSE destroy_queue \union WithChildren(o)

\* Fault: those that sleep are not told.
Relcase_Faulty ==
    memory' = [w \in Watcher |-> IF w \in destroy_queue THEN {}
                                 ELSE IF w \in objects_sleeping THEN memory[w]
                                 ELSE memory[w] \ destroy_queue]

\* net_Relcase of every object, for each that is to be destroyed.
Relcase ==
    memory' = [w \in Watcher |-> IF w \in destroy_queue THEN {} ELSE memory[w] \ destroy_queue]

Unregister == map_NETID' = map_NETID \ destroy_queue

\* The end of Update: net_Destroy and Destroy of all that are queued.  Who is
\* deleted takes along what it knew and what it listed.
Update ==
    /\ Relcase /\ Unregister
    /\ objects_active' = objects_active \ destroy_queue
    /\ objects_sleeping' = objects_sleeping \ destroy_queue
    /\ Parent' = [o \in ID |-> IF o \in destroy_queue THEN NoID ELSE Parent[o]]
    /\ m_all' = [o \in ID |-> IF o \in destroy_queue THEN {} ELSE m_all[o]]
    /\ destroy_queue' = {}
=============================================================================
