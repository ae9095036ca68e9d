---------------------------- MODULE Replication ----------------------------
(***************************************************************************)
(* How a client's objects follow the server's entities.                    *)
(*                                                                         *)
(* The server (xrServer; ServerEntities has its handlers in detail) is     *)
(* here the forest of its entities and what it broadcasts of each change   *)
(* of it.  The client (CLevel) takes the messages in the order they were   *)
(* sent, runs the events they hold on the objects of ObjectList, and at    *)
(* the end of its frames destroys what is to be destroyed.  It joins while *)
(* the game is going on and leaves, clearing its level.                    *)
(*                                                                         *)
(* An R_ASSERT that does not hold ends the process that meets it (failed). *)
(***************************************************************************)
EXTENDS ObjectList, Sequences, FiniteSets, SequencesExt

CONSTANTS
    Holds,        \* <<p, e>>: entity e may be in the hands of p
    Sees,         \* <<w, o>>: watcher w may come to see o
    Stalker,      \* the creatures of a single player game
    Spectator,    \* the entities of players who watch
    MaxToClient,  \* the server waits while this much is on its way or still to be run
    MaxToServer   \* the client asks nothing while this many requests are

\* An identifier has 16 bits; who watches carries nothing and is not carried.
ASSUME ReplicaAssumption ==
    /\ IsFiniteSet(ID)
    /\ Holds \subseteq (ID \ Spectator) \X (ID \ Spectator)
    /\ Sees \subseteq Watcher \X ID
    /\ Stalker \subseteq ID /\ Spectator \subseteq ID
    /\ MaxToClient \in Nat /\ MaxToServer \in Nat

VARIABLES
    single,       \* the game is a single player one: client and server share a process
    entities,     \* the keys of xrServer::entities
    ID_Parent,    \* CSE_Abstract::ID_Parent
    departed,     \* spectators the client was told to destroy and the server keeps
    bConnected,   \* the client gets what is broadcast
    net_Accepted, \* and has been sent the entities
    toClient, toServer,    \* the messages on their way, in order
    stage,        \* of the client's level: see Stage
    m_bGameConfigStarted,
    game_events,  \* the events of the messages taken and not run yet
    refused,      \* items a creature of the client would not take
    failed        \* who has stopped at a failed assertion

serverVars == <<single, entities, ID_Parent, departed, bConnected, net_Accepted>>
clientVars == <<stage, m_bGameConfigStarted, refused>>
vars == <<objectVars, serverVars, clientVars, toClient, toServer, game_events, failed>>

\* net_start waits for the configuration; frames are run; remove_objects runs
\* its rounds; ClearAllObjects has all rejected, then destroyed; all is over.
Stage == {"joining", "playing", "stopping", "rejecting", "destroying", "stopped"}

Event(t, p, e) == [type |-> t, parent |-> p, id |-> e]
EventTypes == {"config", "finished", "spawn", "take", "reject", "destroy"}
Events == [type : EventTypes, parent : ID \union {NoID}, id : ID \union {NoID}]

TypeOK ==
    /\ ObjectTypeOK
    /\ entities \subseteq ID /\ departed \subseteq ID /\ refused \subseteq ID
    /\ ID_Parent \in [ID -> ID \union {NoID}]
    /\ toClient \in Seq(Seq(Events)) /\ toServer \in Seq(Events) /\ game_events \in Seq(Events)
    /\ stage \in Stage
    /\ single \in BOOLEAN /\ bConnected \in BOOLEAN /\ net_Accepted \in BOOLEAN /\ m_bGameConfigStarted \in BOOLEAN
    /\ failed \subseteq {"client", "server"}

Init ==
    /\ ObjectInit
    /\ single \in BOOLEAN
    /\ entities = {} /\ ID_Parent = [e \in ID |-> NoID] /\ departed = {}
    /\ bConnected = FALSE /\ net_Accepted = FALSE
    /\ toClient = <<>> /\ toServer = <<>> /\ game_events = <<>>
    /\ stage = "joining" /\ m_bGameConfigStarted = FALSE
    /\ refused = {} /\ failed = {}

-----------------------------------------------------------------------------
(* The server.  A message is the sequence of the events packed in it.      *)

\* What the server does after the client's end is not looked at; in a single
\* player game the level's end is the server's.
ServerRuns == failed = {} /\ stage \in IF single THEN {"joining", "playing"} ELSE Stage \ {"stopped"}

\* SendBroadcast
Broadcast(messages) == toClient' = IF bConnected THEN toClient \o messages ELSE toClient

Speaks(messages) ==
    /\ ServerRuns /\ Len(toClient) + Len(game_events) < MaxToClient
    /\ Broadcast(messages)
    /\ UNCHANGED <<objectVars, clientVars, single, bConnected, net_Accepted, game_events>>

Children(p) == {e \in entities : ID_Parent[e] = p}

\* An identifier comes back (IdGenerator, ALife) only when nobody speaks of
\* it any more.
Unused(id) ==
    /\ id \notin entities \union Objects
    /\ \A i \in DOMAIN toClient : \A k \in DOMAIN toClient[i] : toClient[i][k].id # id
    /\ \A i \in DOMAIN toServer : toServer[i].id # id
    /\ \A k \in DOMAIN game_events : game_events[k].id # id

Process_spawn(id, p) ==
    /\ Unused(id) /\ (single => id \notin Spectator)
    /\ p # NoID => p \in entities /\ <<p, id>> \in Holds
    /\ entities' = entities \union {id}
    /\ ID_Parent' = [ID_Parent EXCEPT ![id] = p]
    /\ Speaks(<< <<Event("spawn", p, id)>> >>)
    /\ UNCHANGED <<departed, toServer, failed>>

\* Fault: what somebody carries can be taken from him.
Process_event_ownership_Faulty(p, e) ==
    /\ {p, e} \subseteq entities /\ <<p, e>> \in Holds /\ ID_Parent[e] # p
    /\ single => {p, e} \subseteq map_NETID
    /\ ID_Parent' = [ID_Parent EXCEPT ![e] = p]
    /\ Speaks(<< <<Event("take", p, e)>> >>)
    /\ UNCHANGED <<entities, departed, toServer, failed>>

\* In a single player game it is the client's objects that ask.
Process_event_ownership(p, e) ==
    /\ {p, e} \subseteq entities /\ <<p, e>> \in Holds /\ ID_Parent[e] = NoID
    /\ single => {p, e} \subseteq map_NETID
    /\ ID_Parent' = [ID_Parent EXCEPT ![e] = p]
    /\ Speaks(<< <<Event("take", p, e)>> >>)
    /\ UNCHANGED <<entities, departed, toServer, failed>>

\* Another client asks, for an entity of his.
Process_event_reject(p, e) ==
    /\ ~single /\ e \in entities /\ p # NoID /\ ID_Parent[e] = p
    /\ ID_Parent' = [ID_Parent EXCEPT ![e] = NoID]
    /\ Speaks(<< <<Event("reject", p, e)>> >>)
    /\ UNCHANGED <<entities, departed, toServer, failed>>

\* Fault: the taking is sent before the rejection.
Perform_transfer_Faulty(e, from, to) ==
    /\ ~single /\ e \in entities /\ to \in entities
    /\ from # NoID /\ ID_Parent[e] = from /\ from # to /\ <<to, e>> \in Holds
    /\ ID_Parent' = [ID_Parent EXCEPT ![e] = to]
    /\ Speaks(<< <<Event("take", to, e), Event("reject", from, e)>> >>)
    /\ UNCHANGED <<entities, departed, toServer, failed>>

\* From a player to his bag or back, in one pack.
Perform_transfer(e, from, to) ==
    /\ ~single /\ e \in entities /\ to \in entities
    /\ from # NoID /\ ID_Parent[e] = from /\ from # to /\ <<to, e>> \in Holds
    /\ ID_Parent' = [ID_Parent EXCEPT ![e] = to]
    /\ Speaks(<< <<Event("reject", from, e), Event("take", to, e)>> >>)
    /\ UNCHANGED <<entities, departed, toServer, failed>>

\* What goes with e: the least set with e and the children of its members.
Subtree(e) ==
    {x \in entities : \A S \in SUBSET entities :
        e \in S /\ (\A c \in S : Children(c) \subseteq S) => x \in S}

Removed(e) ==
    /\ entities' = entities \ Subtree(e)
    /\ ID_Parent' = [x \in ID |-> IF x \in Subtree(e) THEN NoID ELSE ID_Parent[x]]
    /\ departed' = departed \ Subtree(e)
    /\ UNCHANGED <<toServer, failed>>

\* What is said of the destruction of S: of each that it is rejected, if it is
\* in somebody's hands, and destroyed.
Words(S) == {Event("destroy", NoID, x) : x \in S}
            \union {Event("reject", ID_Parent[x], x) : x \in {y \in S : ID_Parent[y] # NoID}}

\* What is said of x and what it carries, from first to last, ends with x.
Block(said, first, last, x) ==
    /\ said[last] = Event("destroy", NoID, x)
    /\ {k \in DOMAIN said : said[k].id \in Subtree(x)} = first .. last

\* Process_event_destroy: each loses its own, is rejected, and destroyed.
DestroyTold(S) ==
    {said \in SetToSeqs(Words(S)) :
        \A x \in S : \E first, last \in DOMAIN said :
            /\ Block(said, first, last, x)
            /\ ID_Parent[x] # NoID => last > first /\ said[last - 1] = Event("reject", ID_Parent[x], x)}

\* Perform_destroy: each is rejected, loses its own, and is destroyed.
ClearTold(S) ==
    {said \in SetToSeqs(Words(S)) :
        \A x \in S : \E first, last \in DOMAIN said :
            /\ Block(said, first, last, x)
            /\ ID_Parent[x] # NoID => last > first /\ said[first] = Event("reject", ID_Parent[x], x)}

\* A message for each event.
OneByOne(said) == [k \in DOMAIN said |-> <<said[k]>>]

\* Everything about an entity and what it carries in one pack.
Process_event_destroy(e) ==
    /\ e \in entities /\ ServerRuns
    /\ Removed(e)
    /\ \E said \in DestroyTold(Subtree(e)) : Speaks(<<said>>)

\* SLS_Clear and ALife's remove_online: a message for each step.
Perform_destroy(e) ==
    /\ e \in entities /\ ID_Parent[e] = NoID
    /\ Removed(e)
    /\ \E said \in ClearTold(Subtree(e)) : Speaks(OneByOne(said))

\* client_Destroy of another player who watched: his entity stays behind.
client_Destroy(e) ==
    /\ ~single /\ e \in (entities \intersect Spectator) \ departed
    /\ departed' = IF bConnected THEN departed \union {e} ELSE departed
    /\ Speaks(<< <<Event("destroy", NoID, e)>> >>)
    /\ UNCHANGED <<entities, ID_Parent, toServer, failed>>

\* GAME_EVENT_CREATE_CLIENT
CreateClient ==
    /\ ServerRuns /\ ~bConnected /\ stage = "joining"
    /\ bConnected' = TRUE
    /\ UNCHANGED <<objectVars, clientVars, single, entities, ID_Parent, departed, net_Accepted,
                   toClient, toServer, game_events, failed>>

\* Fault: the entities are sent as they come.
ConnectSpawns_Faulty == SetToSeqs(entities)

\* Perform_connect_spawn: all the entities, a parent before its children.
ConnectSpawns ==
    {order \in SetToSeqs(entities) :
        \A k \in DOMAIN order :
            ID_Parent[order[k]] # NoID => \E j \in 1 .. k - 1 : order[j] = ID_Parent[order[k]]}

\* OnCL_Connected: the game type, the entities, and that this is all.
OnCL_Connected ==
    /\ ServerRuns /\ bConnected /\ ~net_Accepted
    /\ net_Accepted' = TRUE
    /\ \E order \in ConnectSpawns :
        toClient' = toClient
                    \o << <<Event("config", NoID, NoID)>> >>
                    \o OneByOne([k \in DOMAIN order |-> Event("spawn", ID_Parent[order[k]], order[k])])
                    \o << <<Event("finished", NoID, NoID)>> >>
    /\ departed' = {}
    /\ UNCHANGED <<objectVars, clientVars, single, entities, ID_Parent, bConnected, toServer,
                   game_events, failed>>

\* A GE_OWNERSHIP_REJECT the client has asked for.
OnRequest ==
    /\ toServer # <<>>
    /\ LET p == Head(toServer).parent
           e == Head(toServer).id
           late == ~({p, e} \subseteq entities) \/ ID_Parent[e] \notin {p, NoID}
           ends == ~late /\ ID_Parent[e] = p
       IN /\ failed' = IF late THEN failed \union {"server"} ELSE failed
          /\ ID_Parent' = IF ends THEN [ID_Parent EXCEPT ![e] = NoID] ELSE ID_Parent
          /\ Speaks(IF ends THEN << <<Event("reject", p, e)>> >> ELSE <<>>)
    /\ toServer' = Tail(toServer)
    /\ UNCHANGED <<entities, departed>>

-----------------------------------------------------------------------------
(* The client.                                                             *)

ClientRuns == failed = {}
InFrames == ClientRuns /\ stage \in Stage \ {"joining", "stopped"}

\* What ClientReceive puts into game_events of a message.
Taken(m) == IF m[1].type = "spawn" /\ ~m_bGameConfigStarted THEN <<>> ELSE m

\* ClientReceive, of one message; the frame may go on to the events or take
\* another first.  net_start only receives until the game is configured.
ClientReceive ==
    /\ ClientRuns /\ toClient # <<>>
    /\ \/ stage = "joining"
       \/ stage \in {"playing", "stopping"} /\ game_events = <<>>
    /\ LET m == Head(toClient) IN
         CASE m[1].type = "config" ->
                /\ m_bGameConfigStarted' = TRUE
                /\ UNCHANGED <<stage, game_events>>
           [] m[1].type = "finished" ->
                /\ stage' = IF stage = "joining" THEN "playing" ELSE stage
                /\ UNCHANGED <<m_bGameConfigStarted, game_events>>
           [] OTHER ->
                /\ game_events' = game_events \o Taken(m)
                /\ UNCHANGED <<m_bGameConfigStarted, stage>>
    /\ toClient' = Tail(toClient)
    /\ UNCHANGED <<objectVars, serverVars, toServer, refused, failed>>

\* The next event of ProcessGameEvents.
Running(t) == InFrames /\ game_events # <<>> /\ Head(game_events).type = t
Done == /\ game_events' = Tail(game_events)
        /\ UNCHANGED <<serverVars, stage, m_bGameConfigStarted, toClient>>

\* GE_OWNERSHIP_TAKE of e for p, when p is there: e is put in his hands, or, as
\* CanTakeItem says, he has the server told that it is not.  Only a creature
\* may be overweight: a player's actor carries anything.
Creature(p) == single /\ p \in Stalker

TakesOrRefuses(p, e) ==
    \/ /\ e \notin destroy_queue
       /\ Attached(p, e)
       /\ UNCHANGED <<refused, toServer>>
    \/ /\ e \in destroy_queue \/ Creature(p)
       /\ refused' = refused \union {e}
       /\ toServer' = Append(toServer, Event("reject", p, e))
       /\ UNCHANGED handVars

\* cl_Process_Spawn: Create, net_Spawn, and the taking by its parent at once.
\* What is in somebody's hands sleeps (an item in a slot need not: the same).
OnSpawn ==
    /\ Running("spawn") /\ Done
    /\ LET p == Head(game_events).parent
           e == Head(game_events).id
       IN /\ map_NETID' = map_NETID \union {e}
          /\ IF p \in map_NETID THEN TakesOrRefuses(p, e) ELSE UNCHANGED <<handVars, refused, toServer>>
          /\ Processing(e, Parent'[e] = NoID)
    /\ UNCHANGED <<destroy_queue, memory, failed>>

\* An item that is not there is an R_ASSERT of creatures only.
OnTake ==
    /\ Running("take") /\ Done
    /\ LET p == Head(game_events).parent
           e == Head(game_events).id
       IN IF {p, e} \subseteq map_NETID
          THEN /\ TakesOrRefuses(p, e)
               /\ IF Parent' = Parent THEN UNCHANGED listVars ELSE Processing(e, FALSE)
               /\ UNCHANGED failed
          ELSE /\ failed' = IF p \in map_NETID /\ Creature(p) THEN failed \union {"client"} ELSE failed
               /\ UNCHANGED <<listVars, handVars, refused, toServer>>
    /\ UNCHANGED <<map_NETID, destroy_queue, memory>>

\* GE_OWNERSHIP_REJECT: CInventory::DropItem asserts that the item is its own.
OnReject ==
    /\ Running("reject") /\ Done
    /\ LET p == Head(game_events).parent
           e == Head(game_events).id
       IN IF {p, e} \subseteq map_NETID /\ Owns(p, e)
          THEN Detached(p, e) /\ Processing(e, TRUE) /\ UNCHANGED failed
          ELSE /\ failed' = IF {p, e} \subseteq map_NETID THEN failed \union {"client"} ELSE failed
               /\ UNCHANGED <<listVars, handVars>>
    /\ UNCHANGED <<map_NETID, destroy_queue, memory, refused, toServer>>

OnDestroy ==
    /\ Running("destroy") /\ Done
    /\ LET e == Head(game_events).id
       IN IF e \in map_NETID THEN setDestroy(e) ELSE UNCHANGED destroy_queue
    /\ UNCHANGED <<listVars, map_NETID, handVars, memory, refused, toServer, failed>>

ProcessGameEvents == OnSpawn \/ OnTake \/ OnReject \/ OnDestroy

\* Objects.Update, after the events: here the frame ends.
ObjectsUpdate ==
    /\ InFrames /\ game_events = <<>> /\ destroy_queue # {}
    /\ Update
    /\ refused' = refused \ destroy_queue
    /\ UNCHANGED <<serverVars, stage, m_bGameConfigStarted, toClient, toServer, game_events, failed>>

\* UpdateCL and shedule_Update: an object sees another,
See(w, o) ==
    /\ InFrames /\ game_events = <<>> /\ w \in Objects \ destroy_queue /\ o \in Objects \ {w}
    /\ <<w, o>> \in Sees
    /\ memory' = [memory EXCEPT ![w] = @ \union {o}]
    /\ UNCHANGED <<listVars, map_NETID, destroy_queue, handVars, serverVars, clientVars,
                   toClient, toServer, game_events, failed>>

\* dies, and needs no updates any more,
FallAsleep(w) ==
    /\ InFrames /\ game_events = <<>> /\ w \in objects_active
    /\ Processing(w, FALSE)
    /\ UNCHANGED <<map_NETID, destroy_queue, handVars, memory, serverVars, clientVars,
                   toClient, toServer, game_events, failed>>

\* and drops what it holds, by asking the server to.
Drop(p, e) ==
    /\ ClientRuns /\ stage = "playing" /\ game_events = <<>> /\ Len(toServer) < MaxToServer
    /\ p \in Objects /\ e \in m_all[p]
    /\ toServer' = Append(toServer, Event("reject", p, e))
    /\ UNCHANGED <<objectVars, serverVars, clientVars, toClient, game_events, failed>>

BetweenFrames == InFrames /\ game_events = <<>> /\ destroy_queue = {}

\* net_Stop: the server of a single player game clears its level (SLS_Clear);
\* what comes from the server is still taken for some rounds.
net_Stop ==
    /\ BetweenFrames /\ stage = "playing"
    /\ stage' = "stopping"
    /\ m_bGameConfigStarted' = FALSE
    /\ IF single
       THEN /\ entities' = {} /\ ID_Parent' = [e \in ID |-> NoID]
            /\ \E said \in ClearTold(entities) : Broadcast(OneByOne(said))
       ELSE UNCHANGED <<entities, ID_Parent, toClient>>
    /\ UNCHANGED <<objectVars, single, departed, bConnected, net_Accepted, toServer, game_events,
                   refused, failed>>

Held == {e \in Objects : Parent[e] # NoID}

\* Fault: one pass, which rejects what is held and destroys what is not.
ClearAllObjects_Faulty ==
    /\ BetweenFrames /\ ~single /\ stage \in {"stopping", "rejecting"}
    /\ stage' = "destroying"
    /\ game_events' = SetToSeq({Event("reject", Parent[e], e) : e \in Held})
                      \o SetToSeq({Event("destroy", NoID, e) : e \in Objects \ Held})
    /\ UNCHANGED <<objectVars, serverVars, m_bGameConfigStarted, refused, toClient, toServer, failed>>

\* A round of ClearAllObjects, of a client that is not the server: as long as
\* something is in somebody's hands all that is gets rejected, then everything
\* is destroyed, by events of the client's own.
ClearAllObjects ==
    /\ BetweenFrames /\ ~single /\ stage \in {"stopping", "rejecting"}
    /\ stage' = IF Held # {} THEN "rejecting" ELSE "destroying"
    /\ game_events' = IF Held # {}
                      THEN SetToSeq({Event("reject", Parent[e], e) : e \in Held})
                      ELSE SetToSeq({Event("destroy", NoID, e) : e \in Objects})
    /\ UNCHANGED <<objectVars, serverVars, m_bGameConfigStarted, refused, toClient, toServer, failed>>

\* IPureClient::Disconnect: nothing is sent any more either way.
Disconnect ==
    /\ BetweenFrames
    /\ IF single THEN stage = "stopping" /\ toClient = <<>> ELSE stage = "destroying"
    /\ stage' = "stopped" /\ bConnected' = FALSE /\ toClient' = <<>> /\ toServer' = <<>>
    /\ UNCHANGED <<objectVars, single, entities, ID_Parent, departed, net_Accepted,
                   m_bGameConfigStarted, game_events, refused, failed>>

-----------------------------------------------------------------------------

ServerNext ==
    \/ \E e \in ID, p \in ID \union {NoID} : Process_spawn(e, p)
    \/ \E p, e \in ID : Process_event_ownership(p, e)
    \/ \E p, e \in ID : Process_event_reject(p, e)
    \/ \E e, from, to \in ID : Perform_transfer(e, from, to)
    \/ \E e \in ID : Process_event_destroy(e)
    \/ \E e \in ID : Perform_destroy(e)
    \/ \E e \in ID : client_Destroy(e)
    \/ CreateClient \/ OnCL_Connected \/ OnRequest

ClientNext ==
    \/ ClientReceive \/ ProcessGameEvents \/ ObjectsUpdate
    \/ \E w \in Watcher, o \in ID : See(w, o)
    \/ \E w \in Watcher : FallAsleep(w)
    \/ \E p, e \in ID : Drop(p, e)
    \/ net_Stop \/ ClearAllObjects \/ Disconnect

Next == ServerNext \/ ClientNext

Spec == Init /\ [][Next]_vars

\* The client's frames go on, and end: each takes what has come, not what the
\* server goes on sending; and remove_objects makes only so many rounds.
FairSpec ==
    /\ Spec
    /\ WF_vars(ClientReceive) /\ WF_vars(ProcessGameEvents)
    /\ SF_vars(ObjectsUpdate) /\ SF_vars(ClearAllObjects) /\ SF_vars(Disconnect)

-----------------------------------------------------------------------------
(* Properties.                                                             *)

\* When a client that plays has taken everything that was sent to it, it has
\* the objects of the server's entities and each is in the same hands, however
\* much was broadcast while it joined; but for spectators of players who left,
\* and for what a creature would not take.
ReplicaAgrees ==
    stage = "playing" /\ failed = {} /\ toClient = <<>> /\ game_events = <<>> =>
        /\ Objects \ destroy_queue = entities \ departed
        /\ \A e \in entities \ (departed \union refused) : Parent[e] = ID_Parent[e]

\* Nobody keeps a pointer to a deleted object: not the map of identifiers, not
\* the queue, not a child, an inventory or a creature's memory.  (With the types
\* of the state.)
NobodyDangles ==
    /\ TypeOK
    /\ map_NETID = Objects
    /\ destroy_queue \subseteq Objects
    /\ \A o \in Objects : Parent[o] \in Objects \union {NoID} /\ m_all[o] \subseteq Objects
    /\ \A w \in Watcher : memory[w] \subseteq Objects

\* An object is only given to somebody when it is in nobody's hands: "Before
\* set parent - execute H_SetParent(0)".
HandsFree ==
    \A p, e \in ID : Running("take") /\ Head(game_events) = Event("take", p, e)
                     /\ {p, e} \subseteq map_NETID => Parent[e] = NoID

\* A client's assertions only ever fail because of an item one of its creatures
\* refused to take.
FailsByRefusal == "client" \in failed => refused # {}

\* A client that leaves gets to the end of it, whatever is in whose hands, and
\* has deleted all its objects.
LeavingEnds == stage = "stopping" ~> (stage = "stopped" /\ Objects = {}) \/ ~ClientRuns
=============================================================================
