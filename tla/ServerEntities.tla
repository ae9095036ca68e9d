--------------------------- MODULE ServerEntities ---------------------------
(***************************************************************************)
(* The entity map of xrServer: who exists, who carries whom, which client  *)
(* an entity belongs to, and the handlers that change it (spawn, take,     *)
(* reject, transfer, destroy, clear), with the game type's OnTouch,        *)
(* OnDetach and OnDestroyObject callbacks they run half-way through.       *)
(*                                                                         *)
(* Every handler runs under csPlayers, but the destroying ones recurse and *)
(* are re-entered by the callbacks: `stack' is their call stack, a step    *)
(* is one pass of the loop of its last frame, and a new request starts     *)
(* only when the stack is empty.  An R_ASSERT that fails ends the process: *)
(* the step that asserts it is not enabled, and with the failing handler   *)
(* on top of the stack nothing else is (TooLate).                          *)
(***************************************************************************)
EXTENDS Naturals, FiniteSets, Sequences, SequencesExt

CONSTANTS
    ID,          \* the u16 identifiers the generator can hand out
    NoID,        \* 0xffff
    Client,      \* the connected clients (xrClientData)
    Server,      \* SV_Client, the client that runs in the server's process
    NoClient,    \* NULL
    Kinds,       \* the classes of entity that occur in the instance
    GameType,    \* "single" or "deathmatch"
    BagsDropped, \* a body is destroyed only after its bag was dropped
    MaxEntities  \* a new request leaves at most this many entities

Kind == {"actor", "spectator", "bag", "weapon", "knife", "ammo", "rocket"}

NoKind == "none"   \* of an identifier no entity has

\* Which class is ever put in the hands of which: an actor's inventory, a
\* players' bag, and the rockets loaded in a launcher.
Holds == {<<"actor", "bag">>, <<"actor", "weapon">>, <<"actor", "knife">>,
          <<"actor", "ammo">>, <<"bag", "weapon">>, <<"bag", "ammo">>,
          <<"weapon", "rocket">>}

\* The classes OnDetach moves from a player to his bag; a knife stays.
Transferable == {"weapon", "ammo"}
Weapons == {"weapon", "knife"}

ASSUME IDAssumption == NoID \notin ID /\ IsFiniteSet(ID)
ASSUME ClientAssumption == Server \in Client /\ NoClient \notin Client /\ IsFiniteSet(Client)
ASSUME KindAssumption == Kinds \subseteq Kind
ASSUME GameAssumption == GameType \in {"single", "deathmatch"} /\ BagsDropped \in BOOLEAN

VARIABLES
    live,        \* the keys of xrServer::entities
    kind,        \* CSE_Abstract::m_tClassID
    parent,      \* CSE_Abstract::ID_Parent
    children,    \* CSE_Abstract::children
    owner,       \* CSE_Abstract::owner
    avatar,      \* xrClientData::owner, the entity the client plays
    gameID,      \* game_PlayerState::GameID
    ready,       \* the clients with net_Ready
    served,      \* SV_Client is set and has been sent the entities
    inProgress,  \* Phase() == GAME_PHASE_INPROGRESS
    stack        \* the handlers being run by the thread that holds csPlayers

treeVars == <<live, kind, parent, children>>
gameVars == <<ready, served, inProgress>>
vars == <<live, kind, parent, children, owner, avatar, gameID, ready, served, inProgress, stack>>

Op == {"destroy", "erase", "reject", "perform", "clear", "unpack", "spectate", "play"}
Frame == [op : Op, p : ID \cup {NoID}, e : ID \cup {NoID}, c : Client \cup {NoClient}]

TypeOK ==
    /\ live \subseteq ID
    /\ kind \in [ID -> Kind \cup {NoKind}]
    /\ parent \in [ID -> ID \cup {NoID}]
    /\ children \in [ID -> Seq(ID)]
    /\ owner \in [ID -> Client \cup {NoClient}]
    /\ avatar \in [Client -> ID \cup {NoID}]
    /\ gameID \in [Client -> ID \cup {NoID}]
    /\ ready \subseteq Client
    /\ served \in BOOLEAN
    /\ inProgress \in BOOLEAN
    /\ stack \in Seq(Frame)

-----------------------------------------------------------------------------
(* The call stack.                                                         *)

OnEntity(op, e) == [op |-> op, p |-> NoID, e |-> e, c |-> NoClient]
OnPair(op, p, e) == [op |-> op, p |-> p, e |-> e, c |-> NoClient]
OnClient(op, c) == [op |-> op, p |-> NoID, e |-> NoID, c |-> c]
ClearAll == [op |-> "clear", p |-> NoID, e |-> NoID, c |-> NoClient]

Idle == stack = <<>>
Top == stack[Len(stack)]
Callers == SubSeq(stack, 1, Len(stack) - 1)
Running(op) == stack # <<>> /\ Top.op = op

-----------------------------------------------------------------------------
(* What the handlers do to the map.                                        *)

\* (Definitions named X_Faulty are X with a bug put in, to see that the
\* properties notice it; nothing uses them.)

\* entities.insert and, for an entity spawned in hand, children.push_back
Insert(id, k, p, c) ==
    /\ live' = live \cup {id}
    /\ kind' = [kind EXCEPT ![id] = k]
    /\ parent' = [parent EXCEPT ![id] = p]
    /\ children' = [e \in ID |->
                      IF e = id THEN <<>>
                      ELSE IF e = p THEN Append(children[e], id) ELSE children[e]]
    /\ owner' = [owner EXCEPT ![id] = c]

Attach(p, e) ==
    /\ parent' = [parent EXCEPT ![e] = p]
    /\ children' = [children EXCEPT ![p] = Append(@, e)]

Detach(p, e) ==
    /\ parent' = [parent EXCEPT ![e] = NoID]
    /\ children' = [children EXCEPT ![p] = RemoveFirst(@, e)]

Perform_transfer(e, from, to) ==
    /\ from # to
    /\ parent[e] = from
    /\ parent' = [parent EXCEPT ![e] = to]
    /\ children' = [children EXCEPT ![from] = RemoveFirst(@, e), ![to] = Append(@, e)]
    /\ UNCHANGED <<live, kind>>

\* Fault: the player whose entity it was goes on naming it.
entity_Destroy_Faulty(e) ==
    /\ live' = live \ {e}
    /\ parent' = [parent EXCEPT ![e] = NoID]
    /\ children' = [children EXCEPT ![e] = <<>>]
    /\ owner' = [owner EXCEPT ![e] = NoClient]
    /\ kind' = [kind EXCEPT ![e] = NoKind]
    /\ UNCHANGED avatar

\* The entity leaves the map and is deleted; its links to others are not
\* looked at, a player's link to it is cleared when it is his own.
entity_Destroy(e) ==
    /\ live' = live \ {e}
    /\ parent' = [parent EXCEPT ![e] = NoID]
    /\ children' = [children EXCEPT ![e] = <<>>]
    /\ owner' = [owner EXCEPT ![e] = NoClient]
    /\ avatar' = [c \in Client |-> IF c = owner[e] /\ avatar[c] = e THEN NoID ELSE avatar[c]]
    /\ kind' = [kind EXCEPT ![e] = NoKind]

Listed(p) == {children[p][i] : i \in DOMAIN children[p]}

\* The first child of p in T, which p has one of.
FirstOf(p, T) == children[p][SelectInSeq(children[p], LAMBDA t : t \in T)]

Room(n) == Cardinality(live) + n <= MaxEntities

-----------------------------------------------------------------------------
(* Requests: a new handler starts when no other holds csPlayers.           *)

Init ==
    /\ live = {}
    /\ kind = [e \in ID |-> NoKind]
    /\ parent = [e \in ID |-> NoID]
    /\ children = [e \in ID |-> <<>>]
    /\ owner = [e \in ID |-> NoClient]
    /\ avatar = [c \in Client |-> NoID]
    /\ gameID = [c \in Client |-> NoID]
    /\ ready = {}
    /\ served = FALSE
    /\ inProgress = FALSE
    /\ stack = <<>>

\* SLS_Default before any client: nobody to own what the level file lists.
\* In a single player game the level's actor is the player's (ASPLAYER).
SpawnLevel(id, k) ==
    /\ Idle /\ ~served /\ Room(1)
    /\ k \notin {"spectator", "bag"}
    /\ (k = "actor") => GameType = "single" /\ \A e \in live : kind[e] # "actor"
    /\ Insert(id, k, NoID, NoClient)
    /\ UNCHANGED <<avatar, gameID, gameVars, stack>>

\* Fault: only the entity to be played gets an owner.
ServerConnect_Faulty ==
    /\ Idle /\ ~served
    /\ served' = TRUE
    /\ owner' = [e \in ID |-> IF e \in live /\ kind[e] = "actor" THEN Server ELSE owner[e]]
    /\ avatar' = [avatar EXCEPT ![Server] =
                    IF \E e \in live : kind[e] = "actor"
                    THEN CHOOSE e \in live : kind[e] = "actor" ELSE @]
    /\ UNCHANGED <<treeVars, gameID, ready, inProgress, stack>>

\* SendConnectionData to the first client, the server's own: everything that
\* has no owner becomes its, the entity that is to be played its avatar.
ServerConnect ==
    /\ Idle /\ ~served
    /\ served' = TRUE
    /\ owner' = [e \in ID |-> IF e \in live /\ owner[e] = NoClient THEN Server ELSE owner[e]]
    /\ avatar' = [avatar EXCEPT ![Server] =
                    IF \E e \in live : kind[e] = "actor"
                    THEN CHOOSE e \in live : kind[e] = "actor" ELSE @]
    /\ UNCHANGED <<treeVars, gameID, ready, inProgress, stack>>

\* Process_spawn for an entity of the world or of somebody's inventory: with
\* SV_Client's ID, or with no sender, when SelectBestClientToMigrateTo gives
\* SV_Client.  OnTouch's answer is ignored.
SpawnItem(id, k, p) ==
    /\ Idle /\ served /\ Room(1)
    /\ k \notin {"spectator", "actor", "bag"}
    /\ p # NoID => p \in live /\ <<kind[p], k>> \in Holds
    /\ Insert(id, k, p, Server)
    /\ UNCHANGED <<avatar, gameID, gameVars, stack>>

\* M_CLIENTREADY, once per client: OnPlayerConnectFinished spawns a spectator.
PlayerReady(c) ==
    /\ Idle /\ served /\ GameType = "deathmatch" /\ Room(1)
    /\ c \notin ready
    /\ ready' = ready \cup {c}
    /\ stack' = <<OnClient("spectate", c)>>
    /\ UNCHANGED <<treeVars, owner, avatar, gameID, served, inProgress>>

\* game_sv_Deathmatch::RespawnPlayer.  A player who was an actor leaves his
\* body to the server; unless he skips being a spectator he becomes one.  A
\* spectator's entity is handed to the server's client and destroyed by a
\* GE_DESTROY sent, and handled, at once.
RespawnPlayer(c, NoSpectator) ==
    LET pOwner == avatar[c]
        body == IF kind[pOwner] = "actor" THEN {gameID[c]} \cap live ELSE {}
        heir == IF kind[pOwner] = "actor" /\ ~NoSpectator THEN body ELSE body \cup {pOwner}
        again == IF kind[pOwner] = "actor" /\ ~NoSpectator
                 THEN <<OnClient("spectate", c)>> ELSE <<OnClient("play", c)>>
    IN /\ Idle /\ GameType = "deathmatch" /\ Room(IF NoSpectator THEN 2 ELSE 1)
       /\ pOwner # NoID
       /\ NoSpectator => kind[pOwner] = "actor"
       /\ owner' = [e \in ID |-> IF e \in heir THEN Server ELSE owner[e]]
       /\ stack' = IF kind[pOwner] = "spectator"
                   THEN Append(again, OnEntity("destroy", pOwner)) ELSE again
       /\ UNCHANGED <<treeVars, avatar, gameID, gameVars>>

\* Fault: what somebody carries can be taken from him.
MayTake_Faulty(p, e, sender) ==
    /\ Idle
    /\ e \in live /\ p \in live /\ e # p
    /\ <<kind[p], kind[e]>> \in Holds
    /\ owner[p] # NoClient
    /\ sender \in {Server, owner[p]}

\* GE_OWNERSHIP_TAKE, GE_TRADE_BUY and GE_OWNERSHIP_TAKE_MP_FORCED.  Only the
\* server's client and the taker's are trusted.
MayTake(p, e, sender) ==
    /\ Idle
    /\ e \in live /\ p \in live
    /\ <<kind[p], kind[e]>> \in Holds
    /\ owner[p] # NoClient
    /\ parent[e] = NoID
    /\ sender \in {Server, owner[p]}

\* What p carries in the slot e would take.
SameSlot(p, e) == {t \in Listed(p) : kind[e] \in Weapons /\ kind[t] = kind[e]}

OnTouch(p, e) ==
    \/ GameType = "single"
    \/ kind[p] = "actor" /\ kind[e] # "bag" /\ SameSlot(p, e) = {}

Take(p, e, sender) ==
    /\ MayTake(p, e, sender) /\ OnTouch(p, e)
    /\ Attach(p, e)
    /\ UNCHANGED <<live, kind, owner, avatar, gameID, gameVars, stack>>

\* The slot is taken and bForced: OnTouch rejects what is there and takes e,
\* by two events handled at once, the second of them not forced.
TakeForced(p, e, sender) ==
    LET t == FirstOf(p, SameSlot(p, e))
        left == RemoveFirst(children[p], t)
        free == SameSlot(p, e) = {t}
    IN /\ MayTake(p, e, sender)
       /\ GameType = "deathmatch" /\ kind[p] = "actor"
       /\ SameSlot(p, e) # {}
       /\ children' = [children EXCEPT ![p] = IF free THEN Append(left, e) ELSE left]
       /\ parent' = [parent EXCEPT ![t] = NoID, ![e] = IF free THEN p ELSE NoID]
       /\ UNCHANGED <<live, kind, owner, avatar, gameID, gameVars, stack>>

\* A bag on the ground is emptied into the actor's hands, then destroyed.
TakeBag(p, e, sender) ==
    /\ MayTake(p, e, sender)
    /\ GameType = "deathmatch" /\ kind[p] = "actor" /\ kind[e] = "bag"
    /\ stack' = <<OnPair("unpack", p, e)>>
    /\ UNCHANGED <<treeVars, owner, avatar, gameID, gameVars>>

\* GE_OWNERSHIP_REJECT, GE_TRADE_SELL, GE_LAUNCH_ROCKET: sent by whoever
\* carries e, or late, when e is out of his hands, in another's, or no more
\* there.  Nothing is asked of them before Process_event_reject is called.
Reject(p, e) ==
    /\ Idle /\ served
    /\ p \in live => owner[p] # NoClient
    /\ stack' = <<OnPair("reject", p, e)>>
    /\ UNCHANGED <<treeVars, owner, avatar, gameID, gameVars>>

\* GE_DESTROY, which only the server's own client and game send: never for
\* a bag in somebody's hands nor, but from RespawnPlayer, for a spectator; and
\* for a body whether or not it has its bag (game_sv_mp::Update waits for the
\* bag to be gone, CActor::NeedToDestroyObject does not).
CarriesBag(e) == \E t \in Listed(e) : kind[t] = "bag"

\* Fault: the bag is not waited for.
Destroy_Faulty(e) ==
    /\ Idle
    /\ e \in live /\ owner[e] # NoClient
    /\ kind[e] # "spectator"
    /\ kind[e] = "bag" => parent[e] = NoID
    /\ stack' = <<OnEntity("destroy", e)>>
    /\ UNCHANGED <<treeVars, owner, avatar, gameID, gameVars>>

Destroy(e) ==
    /\ Idle
    /\ e \in live /\ owner[e] # NoClient
    /\ kind[e] # "spectator"
    /\ kind[e] = "bag" => parent[e] = NoID
    /\ BagsDropped => ~CarriesBag(e)
    /\ stack' = <<OnEntity("destroy", e)>>
    /\ UNCHANGED <<treeVars, owner, avatar, gameID, gameVars>>

\* GE_TRANSFER_AMMO: a box of ammunition on the ground is used up by p.
TransferAmmo(p, e) ==
    /\ Idle
    /\ p \in live /\ owner[p] # NoClient /\ kind[p] = "weapon"
    /\ e \in live /\ kind[e] = "ammo" /\ parent[e] = NoID
    /\ entity_Destroy(e)
    /\ UNCHANGED <<gameID, gameVars, stack>>

\* Perform_destroy, for an entity of the world that goes offline.
SwitchOffline(e) ==
    /\ Idle /\ GameType = "single"
    /\ e \in live /\ parent[e] = NoID
    /\ stack' = <<OnEntity("perform", e)>>
    /\ UNCHANGED <<treeVars, owner, avatar, gameID, gameVars>>

\* SLS_Clear, at the end of a single player level or at the start of a round,
\* where every player who is ready becomes a spectator again.
Spectators(cs) == LET c == SetToSeq(cs) IN [i \in DOMAIN c |-> OnClient("spectate", c[i])]

SLS_Clear ==
    /\ Idle /\ served
    /\ stack' = Append(Spectators(ready), ClearAll)
    /\ inProgress' = (GameType = "deathmatch")
    /\ UNCHANGED <<treeVars, owner, avatar, gameID, ready, served>>

\* game_sv_Deathmatch::OnRoundEnd: every player becomes a spectator, those
\* among them who are connected and not ready yet.  The server's own client
\* may be skipped (it only shows others' games).
OnRoundEnd(cs) ==
    /\ Idle /\ inProgress /\ Room(Cardinality(cs))
    /\ ready \ {Server} \subseteq cs
    /\ inProgress' = FALSE
    /\ stack' = Spectators(cs)
    /\ UNCHANGED <<treeVars, owner, avatar, gameID, ready, served>>

-----------------------------------------------------------------------------
(* The running handler.                                                    *)

\* Process_event_destroy, the loop over children: the first of them is
\* destroyed by a recursive call.
DestroyChild ==
    /\ Running("destroy")
    /\ children[Top.e] # <<>>
    /\ LET child == Head(children[Top.e])
       IN /\ child \in live /\ owner[child] # NoClient
          /\ stack' = Append(stack, OnEntity("destroy", child))
    /\ UNCHANGED <<treeVars, owner, avatar, gameID, gameVars>>

\* Fault: the entity is erased before the one that carries it rejects it.
DestroySelf_Faulty ==
    /\ Running("destroy")
    /\ children[Top.e] = <<>>
    /\ LET e == Top.e
           first == IF parent[e] = NoID THEN Callers ELSE Append(Callers, OnPair("reject", parent[e], e))
       IN stack' = Append(first, OnEntity("erase", e))
    /\ UNCHANGED <<treeVars, owner, avatar, gameID, gameVars>>

\* ... then the entity is rejected by the one that carries it, and erased.
DestroySelf ==
    /\ Running("destroy")
    /\ children[Top.e] = <<>>
    /\ LET e == Top.e
           last == Append(Callers, OnEntity("erase", e))
       IN stack' = IF parent[e] = NoID THEN last
                   ELSE Append(last, OnPair("reject", parent[e], e))
    /\ UNCHANGED <<treeVars, owner, avatar, gameID, gameVars>>

\* Fault: the phase is tested the wrong way round.
SpawnsSpectator_Faulty(e) ==
    /\ GameType = "deathmatch" /\ ~inProgress
    /\ kind[e] = "actor" /\ gameID[owner[e]] = e

\* game_sv_Deathmatch::OnDestroyObject: the player whose actor is destroyed
\* under him during a round goes on as a spectator.
SpawnsSpectator(e) ==
    /\ GameType = "deathmatch" /\ inProgress
    /\ kind[e] = "actor" /\ gameID[owner[e]] = e

\* The tail of Process_event_destroy.
EraseEntity ==
    /\ Running("erase")
    /\ ~SpawnsSpectator(Top.e)
    /\ entity_Destroy(Top.e)
    /\ stack' = Callers
    /\ UNCHANGED <<gameID, gameVars>>

EraseActor(id) ==
    LET e == Top.e
    IN /\ Running("erase")
       /\ SpawnsSpectator(e)
       /\ live' = (live \cup {id}) \ {e}
       /\ kind' = [kind EXCEPT ![id] = "spectator", ![e] = NoKind]
       /\ parent' = [parent EXCEPT ![id] = NoID, ![e] = NoID]
       /\ children' = [children EXCEPT ![id] = <<>>, ![e] = <<>>]
       /\ owner' = [owner EXCEPT ![id] = owner[e], ![e] = NoClient]
       /\ avatar' = [avatar EXCEPT ![owner[e]] = id]
       /\ gameID' = [gameID EXCEPT ![owner[e]] = id]
       /\ stack' = Callers
       /\ UNCHANGED gameVars

\* game_sv_Deathmatch::OnDetach, run by Process_event_reject before it looks
\* at anything: with the bag goes what else its actor carries.
MovedToBag(p, e) ==
    {t \in Listed(p) : /\ GameType = "deathmatch"
                       /\ kind[e] = "bag" /\ kind[p] = "actor"
                       /\ kind[t] \in Transferable}

RejectFillsBag ==
    /\ Running("reject")
    /\ MovedToBag(Top.p, Top.e) # {}
    /\ Perform_transfer(FirstOf(Top.p, MovedToBag(Top.p, Top.e)), Top.p, Top.e)
    /\ UNCHANGED <<owner, avatar, gameID, gameVars, stack>>

\* The rest of Process_event_reject.
RejectAsserts(p, e) == p \in live /\ e \in live /\ parent[e] \in {p, NoID}

RejectDetaches ==
    LET p == Top.p
        e == Top.e
    IN /\ Running("reject")
       /\ RejectAsserts(p, e)
       /\ MovedToBag(p, e) = {}
       /\ IF parent[e] = NoID THEN UNCHANGED <<parent, children>>
          ELSE /\ e \in Listed(p)
               /\ Detach(p, e)
       /\ stack' = Callers
       /\ UNCHANGED <<live, kind, owner, avatar, gameID, gameVars>>

\* Perform_destroy: the last child is rejected, then destroyed likewise.
PerformChild ==
    /\ Running("perform")
    /\ children[Top.e] # <<>>
    /\ LET child == Last(children[Top.e])
       IN /\ child \in live /\ parent[child] = Top.e
          /\ stack' = Append(Append(stack, OnEntity("perform", child)),
                             OnPair("reject", Top.e, child))
    /\ UNCHANGED <<treeVars, owner, avatar, gameID, gameVars>>

PerformSelf ==
    /\ Running("perform")
    /\ children[Top.e] = <<>> /\ parent[Top.e] = NoID
    /\ entity_Destroy(Top.e)
    /\ stack' = Callers
    /\ UNCHANGED <<gameID, gameVars>>

\* SLS_Clear: some entity without a parent, R_ASSERT(found), until none is left.
ClearNext ==
    /\ Running("clear")
    /\ \E e \in live : parent[e] = NoID /\ stack' = Append(stack, OnEntity("perform", e))
    /\ UNCHANGED <<treeVars, owner, avatar, gameID, gameVars>>

ClearDone ==
    /\ Running("clear")
    /\ live = {}
    /\ stack' = Callers
    /\ UNCHANGED <<treeVars, owner, avatar, gameID, gameVars>>

\* Fault: what the actor may have is announced but not transferred.
UnpackItem_Faulty ==
    /\ Running("unpack")
    /\ children[Top.e] # <<>>
    /\ IF OnTouch(Top.p, Last(children[Top.e])) THEN UNCHANGED stack
       ELSE stack' = Append(stack, OnPair("reject", Top.e, Last(children[Top.e])))
    /\ UNCHANGED <<treeVars, owner, avatar, gameID, gameVars>>

\* game_sv_Deathmatch::OnTouch of a bag: its last item goes to the actor if
\* the actor may have it, to the ground if not.
UnpackItem ==
    LET p == Top.p
        e == Top.e
        item == Last(children[e])
    IN /\ Running("unpack")
       /\ children[e] # <<>>
       /\ IF OnTouch(p, item)
          THEN Perform_transfer(item, e, p) /\ UNCHANGED stack
          ELSE UNCHANGED treeVars /\ stack' = Append(stack, OnPair("reject", e, item))
       /\ UNCHANGED <<owner, avatar, gameID, gameVars>>

\* ... and the empty bag is destroyed by a GE_DESTROY handled at once.
UnpackDone ==
    /\ Running("unpack")
    /\ children[Top.e] = <<>>
    /\ stack' = Append(Callers, OnEntity("destroy", Top.e))
    /\ UNCHANGED <<treeVars, owner, avatar, gameID, gameVars>>

\* game_sv_mp::SpawnPlayer, by Process_spawn with the ASPLAYER flag.
SpawnSpectator(id) ==
    LET c == Top.c
    IN /\ Running("spectate")
       /\ Insert(id, "spectator", NoID, c)
       /\ avatar' = [avatar EXCEPT ![c] = id]
       /\ gameID' = [gameID EXCEPT ![c] = id]
       /\ stack' = Callers
       /\ UNCHANGED gameVars

\* An actor is spawned with his bag in hand.
SpawnActor(id, bag) ==
    LET c == Top.c
    IN /\ Running("play")
       /\ id # bag
       /\ live' = live \cup {id, bag}
       /\ kind' = [kind EXCEPT ![id] = "actor", ![bag] = "bag"]
       /\ parent' = [parent EXCEPT ![id] = NoID, ![bag] = id]
       /\ children' = [children EXCEPT ![id] = <<bag>>, ![bag] = <<>>]
       /\ owner' = [owner EXCEPT ![id] = c, ![bag] = Server]
       /\ avatar' = [avatar EXCEPT ![c] = id]
       /\ gameID' = [gameID EXCEPT ![c] = id]
       /\ stack' = Callers
       /\ UNCHANGED gameVars

-----------------------------------------------------------------------------
Request ==
    \/ \E id \in ID \ live, k \in Kinds : SpawnLevel(id, k)
    \/ ServerConnect
    \/ \E id \in ID \ live, k \in Kinds, p \in live \cup {NoID} : SpawnItem(id, k, p)
    \/ \E c \in Client : PlayerReady(c)
    \/ \E c \in Client, NoSpectator \in BOOLEAN : RespawnPlayer(c, NoSpectator)
    \/ \E p, e \in live, c \in Client : Take(p, e, c)
    \/ \E p, e \in live, c \in Client : TakeForced(p, e, c)
    \/ \E p, e \in live, c \in Client : TakeBag(p, e, c)
    \/ \E p, e \in ID : Reject(p, e)
    \/ \E e \in live : Destroy(e)
    \/ \E p, e \in live : TransferAmmo(p, e)
    \/ \E e \in live : SwitchOffline(e)
    \/ SLS_Clear
    \/ \E cs \in SUBSET Client : OnRoundEnd(cs)

Step ==
    \/ DestroyChild
    \/ DestroySelf
    \/ EraseEntity
    \/ \E id \in ID \ live : EraseActor(id)
    \/ RejectFillsBag
    \/ RejectDetaches
    \/ PerformChild
    \/ PerformSelf
    \/ ClearNext
    \/ ClearDone
    \/ UnpackItem
    \/ UnpackDone
    \/ \E id \in ID \ live : SpawnSpectator(id)
    \/ \E id, bag \in ID \ live : SpawnActor(id, bag)

Next == Request \/ Step

Spec == Init /\ [][Next]_vars

-----------------------------------------------------------------------------
(* Properties.                                                             *)

\* verify_entity, first half: an entity that names a parent is carried by a
\* live entity that lists it.
ParentsKnow == \A e \in live : parent[e] # NoID => parent[e] \in live /\ e \in Listed(parent[e])

\* verify_entity, second half: what an entity lists is live and names it, and
\* it lists it once (erase in Process_event_reject removes one entry).
ChildrenKnow ==
    \A p \in live : /\ \A e \in Listed(p) : e \in live /\ parent[e] = p
                    /\ \A i, j \in DOMAIN children[p] : children[p][i] = children[p][j] => i = j

\* An entity has a class as long as it is in the map, and only what Holds
\* allows is ever carried, so that nothing carries itself.
CarriedAllowed ==
    /\ \A e \in ID : e \in live <=> kind[e] # NoKind
    /\ \A e \in live : parent[e] \in live => <<kind[parent[e]], kind[e]>> \in Holds

\* xrServer::verify_entities, which debug builds assert around every handler.
VerifyEntities == ParentsKnow /\ ChildrenKnow

\* ... and VERIFY(verify_entities()) when the outermost handler returns.
VerifyAfterEvent == Idle => VerifyEntities

\* What the code leaves to whoever asks for a body's destruction: he waits
\* until the bag is out of its hands.  game_sv_mp::Update does, and
\* CActor::NeedToDestroyObject does not; with BagsDropped every step is so.
BodiesWait == \A e \in live : Idle /\ CarriesBag(e) => stack' # <<OnEntity("destroy", e)>>

\* Once the server's client is in, every entity has an owner, so that
\* R_ASSERT(receiver->owner) of Process_event cannot fail.
OwnedOnceServed == served => \A e \in live : owner[e] # NoClient

\* Between handlers a player's entity is live and owned by him, so that
\* entity_Destroy clears xrClientData::owner when it deletes it.
AvatarOwned ==
    Idle => \A c \in Client : avatar[c] # NoID => avatar[c] \in live /\ owner[avatar[c]] = c

\* During a round every player who is ready plays an entity, the one his game
\* state names: a body destroyed under him, his spectator destroyed to make
\* him an actor, and the clearing of the level all leave him another.
RoundKeepsPlayers ==
    Idle /\ inProgress => \A c \in ready : avatar[c] # NoID /\ avatar[c] = gameID[c]

\* The R_ASSERTs of Process_event_reject hold whenever another handler calls
\* it (Process_event_destroy, Perform_destroy, a bag's OnTouch), whatever
\* those did before and whatever OnDetach has moved: only a client's own
\* request, which comes when it comes, can fail them (TooLate).
RejectSafe ==
    Running("reject") /\ Len(stack) > 1 =>
        /\ RejectAsserts(Top.p, Top.e)
        /\ parent[Top.e] = Top.p => Top.e \in Listed(Top.p)

\* A request that names what is gone, or is in another's hands: R_ASSERT and
\* R_ASSERT3 of Process_event_reject end the process.
TooLate == Running("reject") /\ Len(stack) = 1 /\ ~RejectAsserts(Top.p, Top.e)

\* The call stack.  What a frame works on is live, and what is destroyed has
\* no bag that could be filled on the way ...
FrameOK(f) ==
    /\ f.op \in {"destroy", "perform", "erase", "reject", "unpack"} => f.e \in live
    /\ f.op = "destroy" => /\ kind[f.e] = "bag" => parent[f.e] = NoID
                           /\ ~CarriesBag(f.e)
    /\ f.op = "reject" => /\ f.p \in live /\ parent[f.e] \in {f.p, NoID}
                          /\ <<kind[f.p], kind[f.e]>> \in Holds
    /\ f.op = "unpack" => /\ f.p \in live /\ kind[f.p] = "actor"
                          /\ kind[f.e] = "bag" /\ parent[f.e] = NoID

\* ... but for what a client asks to be rejected, any two identifiers ...
Asked(f) == f.op = "reject" /\ f.p \in ID /\ f.e \in ID

FramesOK(s) == \A i \in DOMAIN s : FrameOK(s[i]) \/ (i = 1 /\ Asked(s[i]))

\* ... each recursive call is on something further down the tree ...
Rank(k) == CASE k = "bag" -> 2 [] k \in Weapons -> 3 [] k \in {"ammo", "rocket"} -> 4 [] OTHER -> 1

OnTree == {"destroy", "perform", "erase"}

RanksOK(s) ==
    \A i, j \in DOMAIN s :
        i < j /\ s[i].op \in OnTree /\ s[j].op \in OnTree => Rank(kind[s[i].e]) < Rank(kind[s[j].e])

\* ... an entity about to be erased has no children left and, when its turn
\* comes, no parent: only its own rejection runs before, and fills no bag.
EraseOK(s) ==
    \A i \in DOMAIN s : s[i].op = "erase" =>
        /\ children[s[i].e] = <<>>
        /\ IF i = Len(s) THEN parent[s[i].e] = NoID
           ELSE /\ i + 1 = Len(s)
                /\ kind[s[i].e] # "bag"
                /\ s[i + 1] = OnPair("reject", parent[s[i].e], s[i].e)

\* Which handler calls which.
CallsOK(s) ==
    \A i, j \in DOMAIN s : i < j =>
        /\ s[i].op # "reject"
        /\ s[i].op = "unpack" => s[j].op = "reject"
        /\ s[j].op \in {"clear", "unpack"} => s[i].op \notin OnTree

StackOK(s) == FramesOK(s) /\ RanksOK(s) /\ EraseOK(s) /\ CallsOK(s)

\* The inductive invariant.
IInv == TypeOK /\ VerifyEntities /\ CarriedAllowed /\ StackOK(stack)

\* Whose entity is whose, within the handlers too.  A client for whom a spawn is
\* still to come in a handler that runs:
OfClient == {"spectate", "play"}
Awaits(c) == \E i \in DOMAIN stack : stack[i].op \in OfClient /\ stack[i].c = c

\* Before the server's client is in, nothing is owned and nobody plays.
NobodyBefore ==
    ~served => /\ \A e \in ID : owner[e] = NoClient
               /\ \A c \in Client : avatar[c] = NoID
               /\ ready = {} /\ ~inProgress
               /\ GameType = "deathmatch" => \A e \in live : kind[e] # "actor"

\* A spawn to come is a client's, and waits for everything else to be done.
SpawnsWait ==
    \A i \in DOMAIN stack : stack[i].op \in OfClient =>
        stack[i].c \in Client /\ served /\ \A j \in 1..i : stack[j].op \in OfClient

\* What a client plays is his, and is to be played, or he is about to get another.
AvatarsRight ==
    \A c \in Client : avatar[c] # NoID =>
        /\ GameType = "deathmatch" => gameID[c] = avatar[c]
        /\ \/ avatar[c] \in live /\ owner[avatar[c]] = c /\ kind[avatar[c]] \in {"actor", "spectator"}
           \/ Awaits(c)

\* In a round who is ready plays, or is about to.
RoundRight ==
    inProgress => /\ served /\ GameType = "deathmatch"
                  /\ \A c \in ready : avatar[c] # NoID \/ Awaits(c)

\* A spectator is only destroyed when his player gets something else, and the
\* level only cleared when everybody does.
EndsRight ==
    \A i \in DOMAIN stack :
        /\ stack[i].op \in {"destroy", "erase"} /\ kind[stack[i].e] = "spectator" =>
              \A c \in Client : avatar[c] = stack[i].e => Awaits(c)
        /\ stack[i].op \in {"perform", "clear"} /\ GameType = "deathmatch" => \A c \in ready : Awaits(c)

PlayersRight ==
    OwnedOnceServed /\ NobodyBefore /\ SpawnsWait /\ AvatarsRight /\ RoundRight /\ EndsRight

\* What is left to do for the handlers that run: calls to return from, entities
\* to destroy (an actor may have to be followed by a spectator), entities to
\* spawn, and items to move.
WorkLeft ==
    LET On(ops) == {i \in DOMAIN stack : stack[i].op \in ops}
        Of(ops) == {stack[i].e : i \in On(ops)}
        whole == live \ Of({"destroy", "perform", "erase"})
        actors == {e \in live : kind[e] = "actor"}
        packed == {e \in live : /\ parent[e] \in Of({"unpack"})
                               /\ OnPair("reject", parent[e], e) \notin ToSet(stack)}
        bagged == IF Running("reject") THEN MovedToBag(Top.p, Top.e) ELSE {}
        entities == 3 * Cardinality(whole) + 3 * Cardinality(actors)
                    + 2 * Cardinality(Of({"destroy", "perform"})) + Cardinality(Of({"erase"}))
                    + 3 * Cardinality(On({"spectate"})) + 9 * Cardinality(On({"play"}))
    IN  Len(stack) + 2 * Cardinality(packed) + Cardinality(bagged)
        + entities * (Cardinality(ID) + 2)

\* A recursive destruction, a clearing of the level or the unpacking of a bag comes
\* to an end and lets csPlayers go: a handler always has a step to take (no
\* assertion stops it, but that of a request that came too late), and no step,
\* whatever it calls or spawns on the way, leaves as much to do as it found.
HandlerReturns ==
    /\ [](stack # <<>> /\ ~TooLate => ENABLED <<Step>>_vars)
    /\ [][stack # <<>> => WorkLeft' < WorkLeft]_vars
=============================================================================
