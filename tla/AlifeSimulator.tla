----------------------------- MODULE AlifeSimulator -----------------------------
(***************************************************************************)
(* The ALife simulator of the single player server: the objects of the     *)
(* whole world, the few of them that are online as entities of the server, *)
(* and the registries that must agree about them.  The level registry      *)
(* lists the objects of the actor's level, who are switched on and off one *)
(* by one; the graph registry lists the offline ones at each point of the  *)
(* game graph; the schedule registry lists the offline ones who act.       *)
(* Events of the clients and Lua scripts come between the updates, and     *)
(* scripts also inside the update of a scheduled object.                   *)
(***************************************************************************)
EXTENDS Integers, FiniteSets, SafeMapIterator

CONSTANTS
    Actor,              \* the player: the least ID, never offline once online
    Creature,           \* humans: scheduled, and traders
    Box,                \* CSE_InventoryBox
    Item,               \* CSE_ALifeInventoryItem
    Unsavable,          \* items that cannot be saved (thrown missiles)
    Vertex,             \* points of the game graph
    Near,               \* those of the actor's level
    objects_per_update, \* scheduled objects updated at once
    MaxObjects,         \* bound: objects there are at once
    Watched             \* the object whose waiting passed records

ID == {Actor} \cup Creature \cup Box \cup Item
Trader == {Actor} \cup Creature
Holder == Trader \cup Box
None == -1

ASSUME AlifeAssumption ==
    /\ ID \subseteq Nat /\ IsFiniteSet(ID) /\ Actor = Min(ID) /\ Watched \in ID
    /\ Actor \notin Creature \cup Box /\ Item \cap Holder = {}
    /\ Unsavable \subseteq Item /\ Near \subseteq Vertex /\ Near # {}
    /\ objects_per_update \in Nat \ {0} /\ MaxObjects \in Nat

VARIABLES
    sim,        \* the simulator with the entities of the server
    at,         \* what the update manager is doing
    current,    \* the object whose scheduled update runs
    switched,   \* objects whose m_switch_counter is the cycle's
    updated,    \* objects whose m_schedule_counter is the cycle's
    passed      \* history: objects switched since Watched began to wait

vars == <<sim, at, current, switched, updated, passed>>

----------------------------------------------------------------------------
(* The simulator as a record: each operator returns what it becomes.       *)

Place == CHOOSE v \in Near : TRUE

Check(s, condition) == [s EXCEPT !.ok = @ /\ condition]

\* An object that is deleted: nothing of it is left.
F_entity_Destroy(s, c) ==
    [s EXCEPT !.m_bOnline[c] = FALSE, !.dead[c] = FALSE, !.ID_Parent[c] = None,
              !.children[c] = {}, !.m_tGraphID[c] = Place]

entity_Destroy(s, c) ==
    LET gone == [s EXCEPT !.entities = @ \ {c}]
    IN IF c \in s.objects THEN gone ELSE F_entity_Destroy(gone, c)

need_update(s, c) == c \in Creature /\ ~s.m_bOnline[c] /\ ~s.dead[c]

ScheduledAdd(s, c) ==
    IF need_update(s, c)
    THEN [Check(s, c \notin s.scheduled.m_objects) EXCEPT !.scheduled = add(@, c)]
    ELSE s

ScheduledRemove(s, c) ==
    IF c \notin Creature THEN s
    ELSE [Check(s, c \in s.scheduled.m_objects \/ ~need_update(s, c))
            EXCEPT !.scheduled = remove(@, c)]

LevelAdd(s, c) ==
    IF s.m_tGraphID[c] \notin Near THEN s
    ELSE [Check(s, c \notin s.level.m_objects) EXCEPT !.level = add(@, c)]

LevelRemove(s, c, no_assert) ==
    [Check(s, no_assert \/ c \in s.level.m_objects) EXCEPT !.level = remove(@, c)]

GraphAdd(s, c, v, update) ==
    LET placed == IF s.m_bOnline[c] THEN s
                  ELSE [Check(s, c \notin s.points[v])
                          EXCEPT !.points[v] = @ \cup {c}, !.m_tGraphID[c] = v]
    IN IF update THEN LevelAdd(placed, c) ELSE placed

GraphRemove(s, c, v, update) ==
    LET taken == [Check(s, c \in s.points[v]) EXCEPT !.points[v] = @ \ {c}]
    IN IF update THEN LevelRemove(taken, c, v \notin Near) ELSE taken

change(s, c, v) ==
    [GraphAdd(GraphRemove(s, c, s.m_tGraphID[c], TRUE), c, v, TRUE) EXCEPT !.m_tGraphID[c] = v]

attach(s, p, c, v, alife_query) ==
    IF ~alife_query THEN LevelRemove(s, c, FALSE)
    ELSE [Check(GraphRemove(s, c, v, TRUE), c \notin s.children[p])
            EXCEPT !.ID_Parent[c] = p, !.children[p] = @ \cup {c}]

\* The point is that of the parent.
detach(s, p, c, alife_query) ==
    LET v == s.m_tGraphID[p]
    IN IF alife_query
       THEN [Check(GraphAdd(s, c, v, TRUE), c \in s.children[p])
               EXCEPT !.ID_Parent[c] = None, !.children[p] = @ \ {c}, !.m_tGraphID[c] = v]
       ELSE LevelAdd([Check(s, v \in Near) EXCEPT !.m_tGraphID[c] = v], c)

----------------------------------------------------------------------------
(* Registration, creation and release.                                     *)

register_object(s, c) ==
    LET attached == c \in Item /\ s.ID_Parent[c] # None
        known == [Check(s, c \notin s.objects) EXCEPT !.objects = @ \cup {c}]
        placed == IF attached THEN known ELSE GraphAdd(known, c, s.m_tGraphID[c], TRUE)
        ready == ScheduledAdd(placed, c)
    IN IF attached THEN [ready EXCEPT !.children[s.ID_Parent[c]] = @ \cup {c}] ELSE ready

unregister_object(s, c, alife_query) ==
    LET attached == c \in Item /\ s.ID_Parent[c] # None
        loose == IF attached THEN detach(s, s.ID_Parent[c], c, alife_query) ELSE s
        unknown == [Check(loose, c \in s.objects) EXCEPT !.objects = @ \ {c}]
    IN IF ~unknown.m_bOnline[c]
       THEN ScheduledRemove(GraphRemove(unknown, c, unknown.m_tGraphID[c], TRUE), c)
       ELSE IF unknown.ID_Parent[c] = None THEN LevelRemove(unknown, c, FALSE) ELSE unknown

release_one(s, c, alife_query) ==
    LET unknown == unregister_object(s, c, alife_query)
    IN IF alife_query THEN entity_Destroy(unknown, c) ELSE unknown

\* Items have no children of their own.
release(s, c, alife_query) ==
    LET children == s.children[c] \cap s.objects
    IN release_one(FoldSet(LAMBDA i, r : release_one(r, i, alife_query), s, children),
                   c, alife_query)

\* What the server created is registered, apart from its parent.
create(s, c) ==
    LET p == s.ID_Parent[c]
        inside == [Check(s, p \in s.objects)
                     EXCEPT !.m_tGraphID[c] = s.m_tGraphID[p], !.ID_Parent[c] = None]
    IN CASE c \in Unsavable -> s
         [] c \notin Unsavable /\ p = None -> register_object(s, c)
         [] c \notin Unsavable /\ p # None ->
              [register_object(inside, c) EXCEPT !.ID_Parent[c] = p]

OnCreate(s, c) ==
    LET online == [s EXCEPT !.m_bOnline[c] = TRUE]
        p == s.ID_Parent[c]
    IN IF p = None \/ p \in s.objects \cap Trader THEN create(online, c) ELSE online

OnTouch(s, p, c) ==
    IF c \in s.level.m_objects /\ {p, c} \subseteq s.objects
    THEN attach(s, p, c, s.m_tGraphID[p], FALSE) ELSE s

\* Fault: an item that nobody registered stays unregistered.
OnDetach_Faulty(s, p, c) ==
    IF p \in s.objects /\ c \in s.objects \ s.level.m_objects THEN detach(s, p, c, FALSE)
    ELSE s

OnDetach(s, p, c) ==
    IF p \in s.objects /\ c \in s.objects \ s.level.m_objects THEN detach(s, p, c, FALSE)
    ELSE IF c \in s.objects THEN s
    ELSE [create([s EXCEPT !.ID_Parent[c] = None, !.m_tGraphID[c] = s.m_tGraphID[p],
                           !.m_bOnline[c] = TRUE], c)
            EXCEPT !.ID_Parent[c] = s.ID_Parent[c]]

Process_event_reject(s, p, c) ==
    [OnDetach(s, p, c) EXCEPT !.ID_Parent[c] = None, !.children[p] = @ \ {c}]

Perform_destroy(s, c) ==
    LET drop(i, r) == entity_Destroy(Process_event_reject(r, c, i), i)
    IN entity_Destroy(FoldSet(drop, Check(s, s.ID_Parent[c] = None), s.children[c]), c)

destroy_one(s, c) ==
    LET loose == IF s.ID_Parent[c] = None THEN s ELSE Process_event_reject(s, s.ID_Parent[c], c)
    IN entity_Destroy(IF c \in loose.objects THEN release_one(loose, c, FALSE) ELSE loose, c)

Process_event_destroy(s, c) ==
    destroy_one(FoldSet(LAMBDA i, r : destroy_one(r, i), s, s.children[c]), c)

----------------------------------------------------------------------------
(* Switching.                                                              *)

\* Fault: the children are left as they were.
add_online_Faulty(s, c) ==
    GraphRemove(ScheduledRemove(s, c), c, s.m_tGraphID[c], FALSE)

add_online(s, c) ==
    LET inside == s.children[c]
        spawned == [Check(s, inside \subseteq Item)
                      EXCEPT !.entities = @ \cup inside,
                             !.m_bOnline = [i \in ID |-> @[i] \/ i \in inside]]
    IN GraphRemove(ScheduledRemove(spawned, c), c, s.m_tGraphID[c], FALSE)

switch_online(s, c) ==
    add_online([Check(s, ~s.m_bOnline[c] /\ s.m_tGraphID[c] \in Near)
                  EXCEPT !.m_bOnline[c] = TRUE, !.entities = @ \cup {c}], c)

\* Fault: the item is put into the parent, not taken from the level.
put_back_Faulty(s, c, i) ==
    LET offline == [Check(s, i \in s.objects) EXCEPT !.m_bOnline[i] = FALSE]
    IN [offline EXCEPT !.ID_Parent[i] = c, !.children[c] = @ \cup {i}]

\* An item that was rejected from c returns to it.
put_back(s, c, i) ==
    LET offline == [Check(s, i \in s.objects) EXCEPT !.m_bOnline[i] = FALSE]
        v == s.m_tGraphID[i]
    IN IF i \in s.objects THEN attach(GraphAdd(offline, i, v, FALSE), c, i, v, TRUE)
       ELSE offline

add_offline(s, c, saved) ==
    LET full == FoldSet(LAMBDA i, r : put_back(r, c, i), s, saved)
    IN GraphAdd(ScheduledAdd(full, c), c, s.m_tGraphID[c], FALSE)

switch_offline(s, c) ==
    LET saved == s.children[c] \ (IF c \in Trader THEN Unsavable ELSE {})
        off == [Check(s, s.m_bOnline[c]) EXCEPT !.m_bOnline[c] = FALSE]
        bare == Perform_destroy(off, c)
    IN add_offline(Check(bare, bare.children[c] = {}), c, saved)

\* The schedule registry follows the death of an offline creature.
reschedule(s, c) ==
    LET listed == c \in s.scheduled.m_objects
    IN CASE need_update(s, c) /\ ~listed -> ScheduledAdd(s, c)
         [] ~need_update(s, c) /\ listed -> ScheduledRemove(s, c)
         [] need_update(s, c) = listed -> s

\* Whether somebody else is switched depends on flags and distances.
try_switch_online(s, c) ==
    LET ready == reschedule(s, c)
    IN (IF c = Actor THEN {} ELSE {ready}) \cup {switch_online(ready, c)}

try_switch_offline(s, c) ==
    {s} \cup (IF c = Actor THEN {} ELSE {switch_offline(s, c)})

synchronize_location(s, c, v) ==
    IF v = s.m_tGraphID[c] THEN s
    ELSE IF s.m_bOnline[c] THEN [s EXCEPT !.m_tGraphID[c] = v] ELSE change(s, c, v)

\* Where the object turns out to be is a point of this level; boxes stay.
switch_object(s, c) ==
    IF s.ID_Parent[c] # None THEN {s}
    ELSE UNION {LET here == synchronize_location(s, c, v)
                IN IF s.m_bOnline[c] THEN try_switch_offline(here, c)
                   ELSE try_switch_online(here, c) :
                v \in IF c \in Box THEN {s.m_tGraphID[c]} ELSE Near}

----------------------------------------------------------------------------
(* A game is saved as it stands and loaded at once: everybody is offline,  *)
(* and who was not registered or cannot be saved is lost.                  *)

Loaded(s) ==
    LET roots == {c \in s.objects \ Unsavable : s.ID_Parent[c] = None}
        kept == roots \cup UNION {(s.children[c] \cap s.objects) \ Unsavable : c \in roots}
        here == {c \in roots : s.m_tGraphID[c] \in Near}
        acting == {c \in kept : c \in Creature /\ ~s.dead[c]}
    IN [objects    |-> kept,
        entities   |-> {},
        m_bOnline  |-> [c \in ID |-> FALSE],
        dead       |-> [c \in ID |-> c \in kept /\ s.dead[c]],
        ID_Parent  |-> [c \in ID |-> IF c \in kept THEN s.ID_Parent[c] ELSE None],
        children   |-> [c \in ID |-> {i \in kept : s.ID_Parent[i] = c}],
        m_tGraphID |-> [c \in ID |-> IF c \in kept THEN s.m_tGraphID[c] ELSE Place],
        points     |-> [v \in Vertex |-> {c \in roots : s.m_tGraphID[c] = v}],
        level      |-> [m_objects |-> here, next |-> begin(here), first |-> TRUE],
        scheduled  |-> [m_objects |-> acting, next |-> begin(acting), first |-> TRUE],
        ok         |-> s.ok]

NewGame ==
    [objects |-> {Actor}, ID_Parent |-> [c \in ID |-> None], children |-> [c \in ID |-> {}],
     dead |-> [c \in ID |-> FALSE], m_tGraphID |-> [c \in ID |-> Place], ok |-> TRUE]

Init ==
    /\ sim = Loaded(NewGame)
    /\ at = "loaded"
    /\ current = None
    /\ switched = {} /\ updated = {} /\ passed = {}

\* The record of Watched's waiting, when c (None: nobody) was switched.
Record(c) ==
    LET waits == /\ Watched \in sim.level.m_objects \cap sim'.level.m_objects
                 /\ sim.m_tGraphID[Watched] = sim'.m_tGraphID[Watched]
                 /\ c # Watched
    IN passed' = IF waits THEN passed \cup ({c} \ {None}) ELSE {}

----------------------------------------------------------------------------
(* The update manager: the level is switched until the time is over or     *)
(* everybody had his turn, then some of the scheduled objects are updated. *)
(* The server's first update of a level only switches.                     *)

StartSwitch ==
    /\ at \in {"loaded", "outside"}
    /\ at' = "switching"
    /\ switched' = {}
    /\ UNCHANGED <<sim, current, updated, passed>>

SwitchNext ==
    LET c == sim.level.next IN
    /\ at = "switching"
    /\ c \notin switched
    /\ switched' = switched \cup {c}
    /\ sim' \in switch_object([sim EXCEPT !.level = update_next(@)], c)
    /\ Record(c)
    /\ UNCHANGED <<at, current, updated>>

EndSwitch ==
    /\ at = "switching"
    /\ sim.level.next \in switched \/ ~sim.level.first
    /\ at' = IF sim.level.first THEN "outside" ELSE "scheduling"
    /\ sim' = [sim EXCEPT !.level.first = FALSE]
    /\ switched' = {} /\ updated' = {}
    /\ UNCHANGED <<current, passed>>

MayUpdate ==
    /\ sim.scheduled.next \notin updated \cup {End}
    /\ Cardinality(updated) < objects_per_update

ScheduleNext ==
    /\ at = "scheduling" /\ MayUpdate
    /\ at' = "updating"
    /\ current' = sim.scheduled.next
    /\ updated' = updated \cup {current'}
    /\ sim' = [sim EXCEPT !.scheduled = update_next(@)]
    /\ Record(None)
    /\ UNCHANGED switched

\* The update proper: the creature may reach another point of the graph.
UpdateCurrent ==
    /\ at = "updating"
    /\ \/ UNCHANGED sim
       \/ \E v \in Vertex \ {sim.m_tGraphID[current]} : sim' = change(sim, current, v)
    /\ at' = "scheduling"
    /\ current' = None
    /\ Record(None)
    /\ UNCHANGED <<switched, updated>>

EndSchedule ==
    /\ at = "scheduling" /\ ~MayUpdate
    /\ at' = "outside"
    /\ updated' = {}
    /\ UNCHANGED <<sim, current, switched, passed>>

----------------------------------------------------------------------------
(* Scripts, also in the update of another object.                          *)

Act(where) ==
    /\ at \in where
    /\ Record(None)
    /\ UNCHANGED <<at, current, switched, updated>>

Fresh(c) ==
    /\ c \notin sim.objects \cup sim.entities \cup updated
    /\ Cardinality(sim.objects \cup sim.entities) < MaxObjects

CreateObject ==
    \E c \in ID \ Unsavable, v \in Vertex :
        /\ Fresh(c)
        /\ sim' = register_object([sim EXCEPT !.m_tGraphID[c] = v], c)
        /\ Act({"outside", "updating"})

\* spawn_item2 into a parent who is offline.
SpawnInside ==
    \E c \in Item \ Unsavable, p \in Holder :
        /\ Fresh(c)
        /\ p \in sim.objects /\ ~sim.m_bOnline[p]
        /\ sim' = register_object([sim EXCEPT !.ID_Parent[c] = p,
                                              !.m_tGraphID[c] = sim.m_tGraphID[p]], c)
        /\ Act({"outside", "updating"})

ReleaseOffline ==
    \E c \in sim.objects \ {Actor, current} :
        /\ ~sim.m_bOnline[c]
        /\ sim' = release(sim, c, TRUE)
        /\ Act({"outside", "updating"})

\* kill_entity of a creature with nothing in its hands.
KillOffline ==
    \E c \in sim.objects \cap Creature, v \in Vertex :
        LET from == sim.m_tGraphID[c]
            dying == ScheduledRemove([sim EXCEPT !.dead[c] = TRUE, !.m_tGraphID[c] = v], c)
        IN /\ ~sim.m_bOnline[c] /\ ~sim.dead[c] /\ sim.children[c] = {}
           /\ sim' = IF v = from THEN dying
                     ELSE GraphAdd(GraphRemove(dying, c, from, TRUE), c, v, TRUE)
           /\ Act({"outside", "updating"})

----------------------------------------------------------------------------
(* Events of the client.                                                   *)

\* The server's spawn of something new, alone or in somebody's hands.
Process_spawn ==
    \E c \in Item, p \in (Holder \cap sim.entities) \cup {None} :
        LET spawned == [sim EXCEPT !.entities = @ \cup {c}, !.ID_Parent[c] = p]
            created == OnCreate(spawned, c)
        IN /\ Fresh(c)
           /\ c \in Unsavable => p \in Trader
           /\ sim' = IF p = None THEN created
                     ELSE [OnTouch(created, p, c) EXCEPT !.children[p] = @ \cup {c}]
           /\ Act({"outside"})

Process_event_ownership ==
    \E c \in Item \cap sim.entities, p \in Holder \cap sim.entities :
        /\ sim.ID_Parent[c] = None
        /\ c \in Unsavable => p \in Trader
        /\ sim' = [OnTouch(sim, p, c) EXCEPT !.ID_Parent[c] = p, !.children[p] = @ \cup {c}]
        /\ Act({"outside"})

Reject ==
    \E c \in Item \cap sim.entities :
        /\ sim.ID_Parent[c] # None
        /\ sim' = Process_event_reject(sim, sim.ID_Parent[c], c)
        /\ Act({"outside"})

Destroy ==
    \E c \in sim.entities \ {Actor} :
        /\ sim' = Process_event_destroy(sim, c)
        /\ Act({"outside"})

on_death ==
    \E c \in Creature \cap sim.entities :
        /\ ~sim.dead[c]
        /\ sim' = [sim EXCEPT !.dead[c] = TRUE]
        /\ Act({"outside"})

teleport_object ==
    \E c \in sim.objects \cap Creature, v \in Vertex :
        LET off == IF sim.m_bOnline[c] THEN switch_offline(sim, c) ELSE sim
        IN /\ sim.ID_Parent[c] = None
           /\ v # sim.m_tGraphID[c]
           /\ sim' = change(off, c, v)
           /\ Act({"outside"})

Load ==
    /\ at = "outside"
    /\ sim' = Loaded(sim)
    /\ at' = "loaded"
    /\ passed' = {}
    /\ UNCHANGED <<current, switched, updated>>

Next ==
    \/ StartSwitch \/ SwitchNext \/ EndSwitch
    \/ ScheduleNext \/ UpdateCurrent \/ EndSchedule
    \/ CreateObject \/ SpawnInside \/ ReleaseOffline \/ KillOffline
    \/ Process_spawn \/ Process_event_ownership \/ Reject \/ Destroy
    \/ on_death \/ teleport_object \/ Load

Spec == Init /\ [][Next]_vars

----------------------------------------------------------------------------

TypeOK ==
    /\ IsMap(sim.level, ID) /\ IsMap(sim.scheduled, ID)
    /\ sim.objects \cup sim.entities \subseteq ID
    /\ sim.ID_Parent \in [ID -> ID \cup {None}] /\ sim.m_tGraphID \in [ID -> Vertex]
    /\ at \in {"loaded", "outside", "switching", "scheduling", "updating"}
    /\ (at = "updating") = (current # None)

(* Where an object is decides who lists it: one in somebody's hands is in  *)
(* no list; an offline one is at its point of the graph, in the level if   *)
(* the point is there, and scheduled if it acts; an online one is in the   *)
(* level and nowhere else.  So register_object, the switches, attach,      *)
(* detach and change leave nothing behind and forget nobody, and who is    *)
(* updated in his schedule is there and offline.                           *)
RegistriesAgree ==
    /\ TypeOK
    /\ at = "updating" => current \in sim.objects /\ ~sim.m_bOnline[current]
    /\ \A c \in ID :
        LET free == c \in sim.objects /\ sim.ID_Parent[c] = None
            here == sim.m_tGraphID[c] \in Near
        IN /\ \A v \in Vertex :
                c \in sim.points[v] <=> /\ free /\ ~sim.m_bOnline[c]
                                        /\ sim.m_tGraphID[c] = v
           /\ c \in sim.level.m_objects <=> free /\ here
           /\ c \in sim.scheduled.m_objects <=> c \in sim.objects /\ need_update(sim, c)
           /\ c \in sim.objects => (sim.m_bOnline[c] <=> c \in sim.entities)
           /\ free /\ sim.m_bOnline[c] => here

(* What the debug build asserts in try_switch_online and                   *)
(* try_switch_offline ("Parent online, item offline"): an object and what  *)
(* it holds are online together, and each knows of the other.              *)
HandsTogether ==
    \A c, p \in ID :
        (c \in sim.children[p]) = (sim.ID_Parent[c] = p)
        /\ (sim.ID_Parent[c] = p => sim.m_bOnline[c] = sim.m_bOnline[p])

(* No assertion of the registries fails: nothing is added twice, removed   *)
(* when it is absent, switched to the state it is in, or lost by           *)
(* remove_online between its children's reject and their return.           *)
NothingFails == sim.ok

(* What makes these three hold again after every step, object by object:   *)
(* the lists it is in, and that every entity of the server but an item is  *)
(* registered (Listed), and who holds it (Held).  The actor is never       *)
(* switched off or taken from the level, so its list is never empty.       *)
Listed(s, c) ==
    LET free == c \in s.objects /\ s.ID_Parent[c] = None
        here == s.m_tGraphID[c] \in Near
    IN /\ \A v \in Vertex :
            c \in s.points[v] <=> free /\ ~s.m_bOnline[c] /\ s.m_tGraphID[c] = v
       /\ c \in s.level.m_objects <=> free /\ here
       /\ c \in s.scheduled.m_objects <=> c \in s.objects /\ need_update(s, c)

Settled(s, c) ==
    /\ c \in s.entities <=> s.m_bOnline[c]
    /\ c \in s.entities \ s.objects => c \in Item
    /\ c \in s.objects => c \notin Unsavable
    /\ c \notin s.objects \cup s.entities => s.m_tGraphID[c] \in Near
    /\ c \in s.objects \cap s.entities /\ s.ID_Parent[c] = None => s.m_tGraphID[c] \in Near

Held(s, c) ==
    LET p == s.ID_Parent[c]
    IN /\ \A q \in ID : c \in s.children[q] <=> p = q
       /\ p # None => /\ c \in Item /\ p \in Holder \cap s.objects
                      /\ c \in s.objects \cup s.entities
                      /\ s.m_bOnline[c] = s.m_bOnline[p]
                      /\ c \in Unsavable => p \in Trader

WorldRight(s) ==
    /\ s.ok
    /\ \A c \in ID : Listed(s, c) /\ Settled(s, c) /\ Held(s, c)
    /\ Actor \in s.objects /\ s.m_tGraphID[Actor] \in Near

SimulatorRight ==
    /\ TypeOK
    /\ WorldRight(sim)
    /\ current # None => current \in Creature \cap sim.objects /\ ~sim.m_bOnline[current]

(* While an object of the level waits for its turn, nobody has two,        *)
(* whatever is added, removed or moved between the turns: the walk of      *)
(* update_switch goes on where it stopped.                                 *)
OneRound ==
    [][at = "switching" /\ at' = "switching" /\ passed' # {}
         => (switched' \ switched) \cap passed = {}]_vars
=============================================================================
