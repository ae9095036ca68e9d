---------------------------- MODULE ServerSession ----------------------------
(***************************************************************************)
(* The clients of xrServer: how one comes, is checked, joins the game,     *)
(* leaves and is known again when he returns.                              *)
(*                                                                         *)
(* Three kinds of threads take part.  DirectPlay calls the server for each *)
(* connection (a new player, his messages, his end), one call at a time    *)
(* for one connection, at the same time for several.  The main thread      *)
(* calls Update in every frame and then the CD key library.  csPlayers is  *)
(* held through Update and by the calls that change net_Players; holder is *)
(* the thread that keeps it over several steps.  What the code does        *)
(* without it, client_Find_Get's search and the end of new_client, may     *)
(* fall between two steps of another thread.                               *)
(*                                                                         *)
(* A connection is a DPNID, which is never used twice.  A client record    *)
(* (xrClientData) is named by the connection it was made for.  An entity   *)
(* is a connection's avatar, named by the connection.                      *)
(*                                                                         *)
(* Where the code uses a record that was deleted, or none, there is no     *)
(* telling what follows: the model stops there, with the reason in fault.  *)
(*                                                                         *)
(* Not here: names, passwords, pings, administrators, bans; what Update    *)
(* sends; the entities that are nobody's avatar (ServerEntities); the      *)
(* single player's server, where psNET_direct_connect is set.              *)
(***************************************************************************)
EXTENDS Integers, Sequences, SequencesExt

CONSTANTS
    Id,          \* connections
    None,
    Main,        \* the main thread
    AddressOf,   \* the address each connection comes from
    Local,       \* the connections from the server's own process
    Reconnects,  \* g_sv_Client_Reconnect_Time is not zero
    AuthCheck,   \* g_SV_Disable_Auth_Check is FALSE
    MaxPackets   \* no command is sent while so many packets wait

ASSUME IdAssumption == None \notin Id /\ Main \notin Id /\ None # Main /\ Local \subseteq Id
ASSUME AddressAssumption == DOMAIN AddressOf = Id
ASSUME OptionAssumption == Reconnects \in BOOLEAN /\ AuthCheck \in BOOLEAN /\ MaxPackets \in Nat

VARIABLES
    alive,       \* the client records in memory
    client,      \* their contents
    net_Players,
    net_Players_disconnected,
    SV_Client,
    m_aDelayedPackets,
    events,      \* GameEventQueue::ready
    holder,      \* who holds csPlayers, over several steps
    at,          \* where the holder is
    line,        \* how far each connection is
    found,       \* the record client_Find_Get returns it, and where that was
    inbox,       \* what the client has to answer
    asked,       \* connections whose CD key is being looked up
    answered,    \* the client that OnCDKey_Validation has looked up
    avatar,      \* whether a connection's entity exists, and whose it is
    told,        \* (history) what the game was told of each connection
    fault

lists == <<net_Players, net_Players_disconnected, SV_Client>>
queues == <<m_aDelayedPackets, events>>
lock == <<holder, at>>
wire == <<line, found, inbox>>
keys == <<asked, answered>>
game == <<avatar, told>>
vars == <<alive, client, net_Players, net_Players_disconnected, SV_Client, m_aDelayedPackets, events,
          holder, at, line, found, inbox, asked, answered, avatar, told, fault>>

\* "update": new_client is about to call Update.  "joining": the client has
\* asked for the connection data.
Line == {"out", "new", "found", "taken", "pushed", "update", "in", "joining", "gone"}
Linked == {"in", "joining"}
Answer == {"key", "auth", "result", "refused", "config"}
\* score stands for the player state (ps): the connections whose play it holds.
Client == [ID : Id, owner : Id \union {None}, GameID : Id \union {None}, score : SUBSET Id,
           bLocal : BOOLEAN, bConnected : BOOLEAN, bReconnect : BOOLEAN, bVerified : BOOLEAN,
           net_Ready : BOOLEAN]
Packet == [sender : Id, type : {"request", "command"}]
Event == [type : {"create", "auth", "connected", "disconnected"}, id : Id, GameID : Id \union {None}]
Avatar == [exists : BOOLEAN, owner : Id \union {None}]

TypeOK ==
    /\ alive \subseteq Id
    /\ client \in [Id -> Client]
    /\ net_Players \subseteq Id
    /\ net_Players_disconnected \in Seq(Id)
    /\ SV_Client \in Id \union {None}
    /\ m_aDelayedPackets \in Seq(Packet)
    /\ events \in Seq(Event)
    /\ holder \in Id \union {Main, None}
    /\ at \in {"outside", "packets", "nested", "events", "expire", "leaving"}
    /\ line \in [Id -> Line]
    /\ found \in [Id -> [cl : Id, index : Nat]]
    /\ inbox \in [Id -> SUBSET Answer]
    /\ asked \subseteq Id
    /\ answered \in Id \union {None}
    /\ avatar \in [Id -> Avatar]
    /\ told \in [Id -> {"nothing", "joined", "playing", "left"}]
    /\ fault \in {"none", "assert", "null", "freed", "moved"}

\* xrClientData::xrClientData and IClient::IClient; new_client sets ID.
FreshClient(c) ==
    [ID |-> c, owner |-> None, GameID |-> None, score |-> {}, bLocal |-> FALSE, bConnected |-> FALSE,
     bReconnect |-> FALSE, bVerified |-> TRUE, net_Ready |-> FALSE]

\* Fault: the owner is left.
Cleared_Faulty(cl) == [cl EXCEPT !.net_Ready = FALSE]

\* xrClientData::Clear, which leaves the player state ps alone.
Cleared(cl) == [cl EXCEPT !.owner = None, !.net_Ready = FALSE]

\* ID_to_client: the records in net_Players with this ID, one at most.
ID_to_client(c) == {r \in net_Players : client[r].ID = c}

\* SendTo to a connection that has ended is without effect.
Sent(c, m) == IF line[c] = "gone" THEN inbox ELSE [inbox EXCEPT ![c] = @ \union {m}]

\* AddDelayedEvent: GameEventQueue::Create appends at the end of ready.
NewEvent(type, c, GameID) == [type |-> type, id |-> c, GameID |-> GameID]

\* Server_Client_Check for record r, when the records are cl: the server's
\* client, and whether r is local.
ServerClient(cl, r) ==
    IF SV_Client = None
    THEN IF cl[r].bConnected /\ cl[r].ID \in Local THEN r ELSE None
    ELSE IF cl[SV_Client].ID = cl[r].ID /\ ~cl[r].bConnected THEN None ELSE SV_Client

IsLocal(cl, r) == IF SV_Client = None /\ cl[r].bConnected THEN cl[r].ID \in Local ELSE cl[r].bLocal

Free == fault = "none" /\ holder = None

Fails(why) ==
    /\ fault' = why
    /\ UNCHANGED <<alive, client, lists, queues, lock, wire, keys, game>>

-----------------------------------------------------------------------------
(* DPN_MSGID_CREATE_PLAYER: new_client.                                    *)

Returned(c) == {i \in DOMAIN net_Players_disconnected :
                   AddressOf[net_Players_disconnected[i]] = AddressOf[c]}

\* client_Find_Get looks through net_Players_disconnected, with no lock.
FindClient(c) ==
    /\ fault = "none" /\ line[c] = "out"
    /\ IF Returned(c) = {}
       THEN /\ line' = [line EXCEPT ![c] = "new"]
            /\ found' = [found EXCEPT ![c] = [cl |-> c, index |-> 0]]
       ELSE \E i \in Returned(c) :
              /\ \A j \in Returned(c) : i <= j
              /\ line' = [line EXCEPT ![c] = "found"]
              /\ found' = [found EXCEPT ![c] = [cl |-> net_Players_disconnected[i], index |-> i]]
    /\ UNCHANGED <<alive, client, lists, queues, lock, inbox, keys, game, fault>>

\* The rest of the turn of the loop, still without the lock: what was found
\* is erased by its index.
TakeClient(c) ==
    LET f == found[c] IN
    /\ fault = "none" /\ line[c] = "found"
    /\ IF f.index \in DOMAIN net_Players_disconnected /\ net_Players_disconnected[f.index] = f.cl
       THEN /\ net_Players_disconnected' = RemoveAt(net_Players_disconnected, f.index)
            /\ client' = [client EXCEPT ![f.cl].bReconnect = TRUE]
            /\ line' = [line EXCEPT ![c] = "taken"]
            /\ UNCHANGED <<alive, net_Players, SV_Client, queues, lock, found, inbox, keys, game, fault>>
       ELSE Fails("moved")

\* Old or new, the record goes to net_Players under the lock.
PushClient(c) ==
    /\ Free /\ line[c] \in {"new", "taken"}
    /\ net_Players' = net_Players \union {found[c].cl}
    /\ alive' = alive \union {found[c].cl}
    /\ client' = IF line[c] = "new" THEN [client EXCEPT ![c] = FreshClient(c)] ELSE client
    /\ line' = [line EXCEPT ![c] = "pushed"]
    /\ UNCHANGED <<net_Players_disconnected, SV_Client, queues, lock, found, inbox, keys, game, fault>>

\* The end of new_client: the record gets its ID, and the event is added that
\* attaches it.  The only client there is calls Update.
NameClient(c) ==
    /\ fault = "none" /\ line[c] = "pushed"
    /\ client' = [client EXCEPT ![found[c].cl].ID = c]
    /\ events' = Append(events, NewEvent("create", c, None))
    /\ line' = [line EXCEPT ![c] = IF net_Players = {found[c].cl} THEN "update" ELSE "in"]
    /\ UNCHANGED <<alive, lists, m_aDelayedPackets, lock, found, inbox, keys, game, fault>>

-----------------------------------------------------------------------------
(* DPN_MSGID_RECEIVE: OnMessage, under csPlayers but for the answer below.  *)

\* M_GAMESPY_CDKEY_VALIDATION_CHALLENGE_RESPOND: the key is given to the
\* library, which looks it up.  csPlayers is not held meanwhile, so this may
\* fall between any two steps of the holder.
AnswerKey(c) ==
    /\ fault = "none" /\ line[c] \in Linked /\ "key" \in inbox[c]
    /\ inbox' = [inbox EXCEPT ![c] = @ \ {"key"}]
    /\ asked' = asked \union {c}
    /\ UNCHANGED <<alive, client, lists, queues, lock, line, found, answered, game, fault>>

\* M_CL_AUTH
AnswerAuth(c) ==
    /\ Free /\ line[c] \in Linked /\ "auth" \in inbox[c]
    /\ inbox' = [inbox EXCEPT ![c] = @ \ {"auth"}]
    /\ events' = Append(events, NewEvent("auth", c, None))
    /\ UNCHANGED <<alive, client, lists, m_aDelayedPackets, lock, line, found, keys, game, fault>>

\* M_CLIENT_REQUEST_CONNECTION_DATA, from a client none of whose results was a
\* refusal: AddDelayedPacket.
RequestData(c) ==
    /\ Free /\ line[c] = "in" /\ "result" \in inbox[c] /\ "refused" \notin inbox[c]
    /\ line' = [line EXCEPT ![c] = "joining"]
    /\ m_aDelayedPackets' = Append(m_aDelayedPackets, [sender |-> c, type |-> "request"])
    /\ UNCHANGED <<alive, client, lists, events, lock, found, inbox, keys, game, fault>>

\* M_REMOTE_CONTROL_CMD: AddDelayedPacket.
SendCommand(c) ==
    /\ Free /\ line[c] \in Linked /\ Len(m_aDelayedPackets) < MaxPackets
    /\ m_aDelayedPackets' = Append(m_aDelayedPackets, [sender |-> c, type |-> "command"])
    /\ UNCHANGED <<alive, client, lists, events, lock, wire, keys, game, fault>>

\* M_CLIENTREADY: OnPlayerConnectFinished spawns the client's avatar,
\* game_sv_mp::SpawnPlayer.
ClientReady(c) ==
    /\ Free /\ line[c] \in Linked /\ "config" \in inbox[c]
    /\ inbox' = [inbox EXCEPT ![c] = @ \ {"config"}]
    /\ \E r \in ID_to_client(c) :
         /\ client' = [client EXCEPT ![r] = [@ EXCEPT !.net_Ready = TRUE, !.owner = c, !.GameID = c,
                                                    !.score = client[r].score \union {c}]]
         /\ avatar' = [avatar EXCEPT ![c] = [exists |-> TRUE, owner |-> r]]
    /\ told' = [told EXCEPT ![c] = "playing"]
    /\ UNCHANGED <<alive, lists, queues, lock, line, found, keys, fault>>

-----------------------------------------------------------------------------
(* DPN_MSGID_DESTROY_PLAYER, under csPlayers.                              *)

\* Fault: who may return is not reported.
Farewell_Faulty(c, r) ==
    IF client[r].owner = None \/ (Reconnects /\ client[r].bVerified) THEN events
    ELSE Append(events, NewEvent("disconnected", c, client[r].GameID))

\* The game is told that he left if he played.
Farewell(c, r) ==
    IF client[r].owner = None THEN events ELSE Append(events, NewEvent("disconnected", c, client[r].GameID))

\* OnCL_Disconnected.  PerformMigration does nothing; the last client, or the
\* local one, takes all entities with him.
Disconnect(c) ==
    /\ Free /\ line[c] \in Linked
    /\ \E r \in ID_to_client(c) :
         LET last == net_Players = {r} \/ client[r].bLocal
             off == [client EXCEPT ![r] = [@ EXCEPT !.bConnected = FALSE, !.bReconnect = FALSE]] IN
         IF last /\ \E e \in Id : avatar[e].exists /\ avatar[e].owner \notin alive \union {None}
         THEN Fails("freed")
         ELSE /\ events' = Farewell(c, r)
              /\ avatar' = IF last THEN [e \in Id |-> [exists |-> FALSE, owner |-> None]] ELSE avatar
              /\ client' = IF last THEN [x \in Id |-> [off[x] EXCEPT !.owner = None]] ELSE off
              /\ SV_Client' = ServerClient(off, r)
              /\ holder' = c /\ at' = "leaving"
              /\ line' = [line EXCEPT ![c] = "gone"]
              /\ inbox' = [inbox EXCEPT ![c] = {}]
              /\ asked' = asked \ {c}
              /\ UNCHANGED <<alive, net_Players, net_Players_disconnected, m_aDelayedPackets,
                             found, answered, told, fault>>

\* A turn of the loop in client_Destroy that removes his delayed packets.
DropPacket(c) ==
    /\ fault = "none" /\ holder = c /\ at = "leaving"
    /\ \E i \in DOMAIN m_aDelayedPackets :
         /\ m_aDelayedPackets[i].sender = c
         /\ m_aDelayedPackets' = RemoveAt(m_aDelayedPackets, i)
    /\ UNCHANGED <<alive, client, lists, events, lock, wire, keys, game, fault>>

\* Fault: the first packet is not looked at.
NoneWaits_Faulty(c) == \A i \in DOMAIN m_aDelayedPackets : i > 1 \/ m_aDelayedPackets[i].sender # c

\* ... until it finds none.
NoneWaits(c) == \A i \in DOMAIN m_aDelayedPackets : m_aDelayedPackets[i].sender # c

\* The rest of client_Destroy: his record is deleted, or kept for his return.
DestroyClient(c) ==
    /\ fault = "none" /\ holder = c /\ at = "leaving"
    /\ NoneWaits(c)
    /\ \E r \in ID_to_client(c) :
         /\ net_Players' = net_Players \ {r}
         /\ IF Reconnects /\ client[r].bVerified
            THEN /\ net_Players_disconnected' = Append(net_Players_disconnected, r)
                 /\ client' = [client EXCEPT ![r] = Cleared(@)]
                 /\ UNCHANGED alive
            ELSE /\ alive' = alive \ {r}
                 /\ UNCHANGED <<client, net_Players_disconnected>>
    /\ holder' = None /\ at' = "outside"
    /\ UNCHANGED <<SV_Client, queues, wire, keys, game, fault>>

-----------------------------------------------------------------------------
(* xrServer::Update.                                                       *)

\* The main thread's frame, or new_client for the first client.
StartUpdate(t) ==
    /\ Free
    /\ \/ t = Main /\ answered = None
       \/ t # Main /\ line[t] = "update"
    /\ holder' = t /\ at' = "packets"
    /\ UNCHANGED <<alive, client, lists, queues, wire, keys, game, fault>>

\* A turn of the loop in ProceedDelayedPackets: OnDelayedMessage with its
\* R_ASSERT2.  OnCL_Connected sends the data, adds the event and then
\* processes all events ("nested"); a command has its effects elsewhere.
DelayedMessage ==
    LET p == Head(m_aDelayedPackets) IN
    /\ fault = "none" /\ at = "packets" /\ m_aDelayedPackets # <<>>
    /\ IF ID_to_client(p.sender) = {} THEN Fails("assert")
       ELSE /\ IF p.type = "request"
               THEN /\ inbox' = Sent(p.sender, "config")
                    /\ events' = Append(events, NewEvent("connected", p.sender, None))
                    /\ at' = "nested"
                    /\ UNCHANGED m_aDelayedPackets
               ELSE /\ m_aDelayedPackets' = Tail(m_aDelayedPackets)
                    /\ UNCHANGED <<inbox, events, at>>
            /\ UNCHANGED <<alive, client, lists, holder, line, found, keys, game, fault>>

\* Fault: the nested end empties the queue of packets.
EventsDone_Faulty ==
    /\ fault = "none" /\ at \in {"nested", "events"} /\ events = <<>>
    /\ at' = IF at = "nested" THEN "packets" ELSE "expire"
    /\ m_aDelayedPackets' = <<>>
    /\ UNCHANGED <<alive, client, lists, events, holder, wire, keys, game, fault>>

\* ProcessDelayedEvent has emptied the queue: pop_front, or the next part.
EventsDone ==
    /\ fault = "none" /\ at \in {"nested", "events"} /\ events = <<>>
    /\ IF at = "nested"
       THEN at' = "packets" /\ m_aDelayedPackets' = Tail(m_aDelayedPackets)
       ELSE at' = "expire" /\ UNCHANGED m_aDelayedPackets
    /\ UNCHANGED <<alive, client, lists, events, holder, wire, keys, game, fault>>

PacketsDone ==
    /\ fault = "none" /\ at = "packets" /\ m_aDelayedPackets = <<>>
    /\ at' = "events"
    /\ UNCHANGED <<alive, client, lists, queues, holder, wire, keys, game, fault>>

\* The first event, from Retreive to Release.
EventStep(type) ==
    /\ fault = "none" /\ at \in {"nested", "events"} /\ events # <<>> /\ Head(events).type = type
    /\ UNCHANGED <<net_Players, net_Players_disconnected, m_aDelayedPackets, lock, line, found, keys>>

\* GAME_EVENT_CREATE_CLIENT: AttachNewClient, if he is still there.
CreateClient ==
    LET c == Head(events).id IN
    /\ EventStep("create")
    /\ events' = Tail(events)
    /\ IF ID_to_client(c) = {} THEN UNCHANGED <<client, SV_Client, inbox>>
       ELSE \E r \in ID_to_client(c) :
              LET on == [client EXCEPT ![r].bConnected = TRUE] IN
              /\ client' = [on EXCEPT ![r].bLocal = IsLocal(on, r)]
              /\ SV_Client' = ServerClient(on, r)
              /\ inbox' = Sent(c, "key")
    /\ UNCHANGED <<alive, game, fault>>

\* GAME_EVENT_PLAYER_AUTH: OnBuildVersionRespond, which is also called with no
\* client.
PlayerAuth ==
    LET c == Head(events).id IN
    /\ EventStep("auth")
    /\ IF ID_to_client(c) = {} THEN fault' = "null" /\ UNCHANGED <<events, client, inbox>>
       ELSE /\ events' = Tail(events)
            /\ \/ /\ \E r \in ID_to_client(c) : client' = [client EXCEPT ![r].bVerified = TRUE]
                  /\ inbox' = Sent(c, "result")
               \/ inbox' = Sent(c, "refused") /\ UNCHANGED client
            /\ UNCHANGED fault
    /\ UNCHANGED <<alive, SV_Client, game>>

\* Fault: cleared whoever it is.
KeptScore_Faulty(r) == {}

\* His player state is cleared unless he returned.
KeptScore(r) == IF client[r].bReconnect THEN client[r].score ELSE {}

\* GAME_EVENT_PLAYER_CONNECTED: OnPlayerConnect, which needs the client.
PlayerConnected ==
    LET c == Head(events).id IN
    /\ EventStep("connected")
    /\ IF ID_to_client(c) = {} THEN fault' = "null" /\ UNCHANGED <<events, client, told>>
       ELSE /\ events' = Tail(events)
            /\ \E r \in ID_to_client(c) :
                 client' = [client EXCEPT ![r].score = KeptScore(r)]
            /\ told' = [told EXCEPT ![c] = "joined"]
            /\ UNCHANGED fault
    /\ UNCHANGED <<alive, SV_Client, inbox, avatar>>

\* GAME_EVENT_PLAYER_DISCONNECTED: OnPlayerDisconnect.  The avatar's entity is
\* the server's client's, and may be removed (AllowDeadBodyRemove).
PlayerDisconnected ==
    LET e == Head(events) IN
    /\ EventStep("disconnected")
    /\ events' = Tail(events)
    /\ told' = [told EXCEPT ![e.id] = "left"]
    /\ avatar' = IF e.GameID # None /\ avatar[e.GameID].exists
                 THEN [avatar EXCEPT ![e.GameID].owner = SV_Client] ELSE avatar
    /\ UNCHANGED <<alive, client, SV_Client, inbox, fault>>

\* A turn of the loop over net_Players_disconnected that finds a client gone
\* for too long: client_Destroy.
Expire ==
    /\ fault = "none" /\ at = "expire"
    /\ \E i \in DOMAIN net_Players_disconnected :
         /\ alive' = alive \ {net_Players_disconnected[i]}
         /\ net_Players_disconnected' = RemoveAt(net_Players_disconnected, i)
    /\ UNCHANGED <<client, net_Players, SV_Client, queues, lock, wire, keys, game, fault>>

EndUpdate ==
    /\ fault = "none" /\ at = "expire"
    /\ holder' = None /\ at' = "outside"
    /\ line' = IF holder \in Id THEN [line EXCEPT ![holder] = "in"] ELSE line
    /\ UNCHANGED <<alive, client, lists, queues, found, inbox, keys, game, fault>>

-----------------------------------------------------------------------------
(* xrGameSpyServer::Update, after the lock was left: CGameSpy_GCD_Server.   *)

\* OnCDKey_Validation is called: ID_to_client.
KeyAnswered(c) ==
    /\ Free /\ answered = None /\ c \in asked
    /\ asked' = asked \ {c}
    /\ \E r \in ID_to_client(c) : answered' = r
    /\ UNCHANGED <<alive, client, lists, queues, lock, wire, game, fault>>

\* The rest of it: Check_GameSpy_CDKey_Success or a refusal.
KeyChecked ==
    LET c == client[answered].ID IN
    /\ fault = "none" /\ answered # None
    /\ IF answered \notin alive THEN Fails("freed")
       ELSE /\ answered' = None
            /\ \/ /\ client' = [client EXCEPT ![answered].bVerified = ~AuthCheck]
                  /\ inbox' = Sent(c, IF AuthCheck THEN "auth" ELSE "result")
               \/ inbox' = Sent(c, "refused") /\ UNCHANGED client
            /\ UNCHANGED <<alive, lists, queues, lock, line, found, asked, game, fault>>

-----------------------------------------------------------------------------

\* Nothing is said of what follows a fault.
Stopped == fault # "none" /\ UNCHANGED vars

Init ==
    /\ alive = {}
    /\ client = [r \in Id |-> FreshClient(r)]
    /\ net_Players = {} /\ net_Players_disconnected = <<>> /\ SV_Client = None
    /\ m_aDelayedPackets = <<>> /\ events = <<>>
    /\ holder = None /\ at = "outside"
    /\ line = [c \in Id |-> "out"]
    /\ found = [c \in Id |-> [cl |-> c, index |-> 0]]
    /\ inbox = [c \in Id |-> {}]
    /\ asked = {} /\ answered = None
    /\ avatar = [e \in Id |-> [exists |-> FALSE, owner |-> None]]
    /\ told = [c \in Id |-> "nothing"]
    /\ fault = "none"

Event1 == CreateClient \/ PlayerAuth \/ PlayerConnected \/ PlayerDisconnected
UpdateStep == DelayedMessage \/ EventsDone \/ PacketsDone \/ Event1 \/ Expire \/ EndUpdate

Connect(c) == FindClient(c) \/ TakeClient(c) \/ PushClient(c) \/ NameClient(c)
Receive(c) == AnswerKey(c) \/ AnswerAuth(c) \/ RequestData(c) \/ SendCommand(c) \/ ClientReady(c)
Leave(c) == Disconnect(c) \/ DropPacket(c) \/ DestroyClient(c)

Next ==
    \/ \E c \in Id : Connect(c) \/ Receive(c) \/ Leave(c) \/ KeyAnswered(c)
    \/ \E t \in Id \union {Main} : StartUpdate(t)
    \/ UpdateStep
    \/ KeyChecked
    \/ Stopped

Spec == Init /\ [][Next]_vars

\* What a connection does on its own way into the game.
Progress(c) ==
    \/ Connect(c) \/ StartUpdate(c)
    \/ AnswerKey(c) \/ KeyAnswered(c) \/ AnswerAuth(c) \/ RequestData(c) \/ ClientReady(c)

\* Who holds csPlayers goes on until he leaves it; frames follow one another;
\* a callback that waits for csPlayers gets it some time; clients and the key
\* library answer.
Fairness ==
    /\ WF_vars(UpdateStep) /\ WF_vars(\E c \in Id : DropPacket(c) \/ DestroyClient(c))
    /\ WF_vars(KeyChecked)
    /\ SF_vars(StartUpdate(Main))
    /\ \A c \in Id : SF_vars(Progress(c))

FairSpec == Spec /\ Fairness

-----------------------------------------------------------------------------

\* Whoever sent a delayed packet is still a player when its turn comes:
\* R_ASSERT2(CL) in OnDelayedMessage holds, whatever came between.
SendersThere ==
    /\ \A i \in DOMAIN m_aDelayedPackets : ID_to_client(m_aDelayedPackets[i].sender) # {}
    /\ fault # "assert"

\* SV_Client, to whom the server sends without looking him up and gives what
\* has no owner, is a connected player of the server's process.
ServerClientThere ==
    SV_Client # None => /\ SV_Client \in net_Players
                        /\ client[SV_Client].bLocal /\ client[SV_Client].bConnected

\* A record in net_Players_disconnected is in memory, there once, not in
\* net_Players, and takes no part in the game: it has no connection, plays
\* nobody and is sent no updates.
DepartedIdle ==
    \A i \in DOMAIN net_Players_disconnected :
        LET r == net_Players_disconnected[i] IN
        /\ r \in alive \ net_Players
        /\ \A j \in DOMAIN net_Players_disconnected : net_Players_disconnected[j] = r => i = j
        /\ ~client[r].bConnected /\ ~client[r].net_Ready /\ client[r].owner = None

\* No avatar is left to itself: while it is played by its client, or the
\* event waits that tells the game that he left, or the game was told.
NoGhosts ==
    \A c \in Id : avatar[c].exists =>
        \/ \E r \in ID_to_client(c) : client[r].owner = c
        \/ \E i \in DOMAIN events : events[i] = NewEvent("disconnected", c, c)
        \/ told[c] = "left"

\* Who returns in time finds his score, and nobody else's: a player state holds
\* what was played through its record, neither more nor less.
ScoreKept ==
    \A r \in alive : client[r].score = {c \in Id : found[c].cl = r /\ told[c] \in {"playing", "left"}}

\* The game hears of a connection in this order, whatever threads and queues
\* lie between: OnPlayerConnect, OnPlayerConnectFinished, OnPlayerDisconnect.
ToldInOrder ==
    [][\A c \in Id : <<told[c], told'[c]>> \in
           {<<"nothing", "joined">>, <<"joined", "playing">>, <<"playing", "left">>, <<told[c], told[c]>>}]_told

\* Whoever connects gets to play, is refused, or leaves: in the end nobody is
\* still waiting.
EveryoneServed ==
    <>[](\A c \in Id : \/ line[c] \in {"out", "gone"} \/ told[c] = "playing"
                       \/ "refused" \in inbox[c] \/ fault # "none")

\* "Initiate migration" (PerformMigration): what a client leaves behind
\* belongs to somebody who is there.
EntitiesMigrated ==
    \A c \in Id : avatar[c].exists /\ holder = None => avatar[c].owner \in net_Players \union {None}

-----------------------------------------------------------------------------
(* The inductive invariant.                                                *)

Record(c) == found[c].cl
Leaving(c) == holder = c /\ at = "leaving"
Before == {"out", "new", "found", "taken"}
Attached(c) == line[c] \in {"pushed", "update", "in", "joining"} \/ Leaving(c)
Named(c) == Attached(c) /\ line[c] # "pushed"

\* Who is connected has a record of his own in net_Players, and who is coming back
\* one that is in neither list.
ListsRight ==
    /\ net_Players \subseteq alive
    /\ \A c \in Id : Attached(c) => Record(c) \in net_Players
    /\ \A r \in net_Players : \E c \in Id : Attached(c) /\ Record(c) = r
    /\ \A c, d \in Id : Attached(c) /\ Attached(d) /\ Record(c) = Record(d) => c = d
    /\ \A c \in Id : line[c] = "taken" =>
          /\ Record(c) \in alive \ net_Players
          /\ \A i \in DOMAIN net_Players_disconnected : net_Players_disconnected[i] # Record(c)
          /\ \A d \in Id : line[d] = "taken" /\ Record(d) = Record(c) => c = d

\* A record has the ID of the last connection that used it.
IDsRight ==
    /\ \A c \in Id : Named(c) => client[Record(c)].ID = c
    /\ \A r \in alive : /\ line[r] \notin Before /\ Record(r) = r
                        /\ line[client[r].ID] \notin Before /\ Record(client[r].ID) = r
    /\ \A c \in Id : line[c] \in {"out", "new"} => Record(c) = c
    /\ \A c, d \in Id : Record(d) = c /\ c # d => line[c] = "gone" /\ ~Leaving(c)

LockRight ==
    /\ holder = None <=> at = "outside"
    /\ at = "leaving" => holder \in Id /\ line[holder] = "gone"
    /\ at \notin {"outside", "leaving"} => holder = Main \/ line[holder] = "update"
    /\ at = "nested" => m_aDelayedPackets # <<>> /\ m_aDelayedPackets[1].type = "request"

\* The sender of a packet is there, and asks for the data once, before he has it.
PacketsRight ==
    /\ \A i \in DOMAIN m_aDelayedPackets :
          LET p == m_aDelayedPackets[i] IN
          /\ Named(p.sender) /\ line[p.sender] # "update"
          /\ p.type = "request" =>
                /\ line[p.sender] # "in"
                /\ ~(i = 1 /\ at = "nested") => told[p.sender] = "nothing" /\ "config" \notin inbox[p.sender]
                /\ \A j \in DOMAIN m_aDelayedPackets : m_aDelayedPackets[j] = p => i = j
    /\ fault # "assert"

\* While a client who leaves is still in net_Players he is off, and not SV_Client.
LeavingOff ==
    at = "leaving" => /\ SV_Client # Record(holder)
                      /\ ~client[Record(holder)].bConnected

\* What the two queues, the client and the game know of a connection fits together.
EventsRight ==
    \A i \in DOMAIN events :
        LET e == events[i] IN
        /\ e.type = "connected" =>
              /\ at = "nested" /\ e.id = m_aDelayedPackets[1].sender /\ told[e.id] = "nothing"
              /\ \A j \in DOMAIN events : events[j].type = "connected" => i = j
        /\ e.type = "disconnected" =>
              /\ line[e.id] = "gone" /\ told[e.id] = "playing" /\ e.GameID = e.id
              /\ \A j \in DOMAIN events : events[j].type = "disconnected" /\ events[j].id = e.id => i = j

ToldRight ==
    \A c \in Id :
        /\ line[c] \notin {"joining", "gone"} => told[c] = "nothing"
        /\ "config" \in inbox[c] =>
              /\ line[c] = "joining"
              /\ told[c] = "joined" \/ \E i \in DOMAIN events : events[i] = NewEvent("connected", c, None)
        /\ at = "nested" /\ m_aDelayedPackets[1].sender = c =>
              \/ told[c] = "joined"
              \/ \E i \in DOMAIN events : events[i] = NewEvent("connected", c, None)

AvatarsRight ==
    \A c \in Id :
        /\ avatar[c].exists =>
              \/ told[c] = "left"
              \/ line[c] = "joining" /\ client[Record(c)].owner = c
              \/ \E i \in DOMAIN events : events[i] = NewEvent("disconnected", c, c)
        /\ line[c] \in {"taken", "pushed", "update", "in"} => client[Record(c)].owner = None
        /\ line[c] = "joining" /\ client[Record(c)].owner # None =>
              client[Record(c)].owner = c /\ client[Record(c)].GameID = c /\ told[c] = "playing"

ScoreRight ==
    /\ ScoreKept
    /\ \A c \in Id : line[c] \in {"taken", "pushed", "update", "in", "joining"} =>
           client[Record(c)].bReconnect = (Record(c) # c)

StagesRight == PacketsRight /\ EventsRight /\ ToldRight /\ AvatarsRight /\ ScoreRight

IInv ==
    /\ TypeOK /\ ListsRight /\ IDsRight /\ LockRight /\ LeavingOff
    /\ ServerClientThere /\ DepartedIdle /\ StagesRight
=============================================================================
