# TLA+ models of the BlackHoleEngine

The repository is the X-Ray game engine (C++, Windows): an executable
(`src/sources/xr_3da`), the game (`src/sources/xr_3da/xrGame`) and libraries for
core services, sound, physics, collision, particles, network and scripts. It has
no tests. What is written down of its intentions are its assertions (`R_ASSERT`,
which stays in release builds, and `VERIFY`) and a few comments, so those are
what the properties below start from.

Paths in this file are relative to `src/sources/xr_3da/xrGame/` unless they start
with `xr_3da/`, which is relative to `src/sources/`.

## The system

| Component | State | Operations | Works with |
|---|---|---|---|
| Server entity map (`xrServer*.cpp`) | `entities`, each entity's `ID_Parent`, `children`, `owner` | spawn, ownership, reject, transfer, destroy, clear | game rules (callbacks in the middle of a handler), sessions (owner), ID generator |
| Game rules (`game_sv_*.cpp`) | phase, player states, `GameID` | OnTouch, OnDetach, OnDestroyObject, RespawnPlayer, rounds | server entity map, in both directions |
| Server sessions (`xrServer_C*.cpp`, `xrServer_Disconnect.cpp`, `game_sv_event_queue.cpp`) | clients, `net_Ready`, delayed packets, delayed events | connect, authenticate, ready, disconnect, delay, process | network thread and main thread |
| ID generator (`id_generator.h`) | blocks with lists of free identifiers | tGetID, vFreeID | entity map, ALife |
| ALife (`alife_*.cpp`, `game_sv_single.cpp`) | registries of objects on and off line, by level, by point of the graph and by schedule | switch online and offline, update, spawn, release, kill, teleport, save and load | ID generator, entity map (callbacks in both directions), scripts |
| Client replication (`Level_network*.cpp`, `NET_Queue.h`) | spawn and event queues, objects | GE_* events in order of time | server, object list |
| Frame loop (`xr_3da/device.cpp`) | two critical sections, marker, work queue | FrameMove, pass over `seqParallel`, exit | everything called in a frame |
| Scheduler (`xr_3da/xrSheduler.cpp`) | heap, real-time list, registrations | Register, Unregister, Update | game objects |
| Object list (`xr_3da/xr_object_list.cpp`) | active, sleeping, crows, destroy queue | activate, sleep, update, destroy | game objects |
| Listeners, events and the shell (`xr_3da/pure.h`, `EventAPI.cpp`, `x_ray.cpp`, `GamePersistent.cpp`, `MainMenu.cpp`) | listeners by priority, deferred events, loading events, causes of the pause | add, remove, process, defer, start, save, load, leave | the level and the frame loop |
| Renderers, sound, physics, AI, UI, scripts, core library | | | numerical code, drivers and vendored libraries, not modelled |

What makes each hard, and the properties that make it right:

- **Entity map.** One thread at a time runs a handler (`csPlayers`), but the
  handlers recurse (destroying a parent rejects and destroys its children) and the
  game's callbacks re-enter them (`OnDetach` moves a player's weapons to his bag in
  the middle of a reject; `OnTouch` sends itself an ownership event; destroying an
  actor spawns a spectator). Parents and children must agree at the end
  (`verify_entities`), the assertions in the handlers must hold whatever a callback
  did, recursion must end, and players must be left with something to play.
- **Frame loop.** Two threads pass two critical sections to and fro; either may make
  the pass over the queue of delegates. Each frame's work must be done once, and before
  the next frame moves the objects it is bound to; nobody may hang.
- **ID generator.** An identifier must never name two entities, must not be lost, and
  should stay out of use as long as possible, for messages about its last
  holder are still under way.
- **Sessions.** The network thread, the main thread and events that are delayed to
  a later frame refer to clients who may be gone by then; an entity must not
  stay with a client who was deleted.
- **Replication.** Clients see the same spawns and destructions in the order of the
  server, and a client that joins gets a consistent map.
- **Scheduler, object list, listeners, events.** Loops over a container which the
  callbacks change. Nobody is called after he is gone, nobody is skipped, and a
  loop ends.
- **Application shell.** Menu, console, key, focus, saving and the server each stop the
  clock, show something or replace the level in the middle of a frame. The level must
  be in the list of frame listeners just when it is to move, a deleted one in none, and the user must
  never be left with neither game nor menu.
- **ALife.** Four registries, the server's entities and the hands of those who carry things
  say where an object is. Going online and offline, the game's callbacks in the middle of the server's
  handlers, scripts in the middle of an update and a walk that goes on over frames change
  them by different routes; all must agree after each.

`PROJECT.json` lists the hazards with their lines.

## Modules

### ServerEntities (with MCServerEntities and ServerEntities_proof)

The entity map and the handlers. `live`, `kind`, `parent`, `children` and `owner` are
`xrServer::entities` and the fields of `CSE_Abstract`; `avatar` is
`xrClientData::owner`, `gameID` the player state's `GameID`, `ready` the clients with
`net_Ready`. An entity is one of seven classes; `Holds` says which class
is ever put in whose hands. `stack` is the call stack of the thread in
`csPlayers`. A *request* is what arrives from outside (a packet, the
frame's update, the start of a round) and needs an empty stack; a *step* is one turn of the
loop of the handler on top. Between two steps another frame may have been pushed:
that is how `Process_event_destroy` calls itself, `Process_event_reject` and the game,
and the assertions are looked at where the code looks at them. An `R_ASSERT` that fails ends the
process, so the step that asserts it is not enabled then, and with the failing handler on the stack
nothing else is. `Process_event` calls `Process_event_reject` with whatever a client sends
(xrServer_process_event.cpp:97), and so does `Reject`: a request that comes too late does end the process
(`TooLate`, see the defects). `RejectSafe` is about the rejects that handlers call, and `HandlerReturns` excepts `TooLate`.

| Code | Actions |
|---|---|
| `SLS_Default`, `SendConnectionData`, `SV_Client` | `SpawnLevel`, `ServerConnect` |
| `Process_spawn` from a client or the game | `SpawnItem` |
| `OnPlayerConnectFinished`, `RespawnPlayer`, `SpawnPlayer` | `PlayerReady`, `RespawnPlayer`, `SpawnSpectator`, `SpawnActor` |
| `Process_event_ownership` with `OnTouch` | `Take`, `TakeForced`, `TakeBag`, `UnpackItem`, `UnpackDone` |
| `Process_event_reject` with `OnDetach` | `Reject`, `RejectFillsBag`, `RejectDetaches` |
| `Process_event_destroy` with `OnDestroyObject` | `Destroy`, `DestroyChild`, `DestroySelf`, `EraseEntity`, `EraseActor` |
| `Perform_destroy`, `SLS_Clear` | `SwitchOffline`, `SLS_Clear`, `PerformChild`, `PerformSelf`, `ClearNext`, `ClearDone` |
| `Perform_transfer` | `TransferAmmo`, and as part of `RejectFillsBag` and `UnpackItem` |
| `OnRoundEnd` | `OnRoundEnd` |

Abstractions: a dead body and a living actor are not told apart, so an actor may be
destroyed or drop his bag at any time; weapons of one class share one slot; the spawns of
`SLS_Default` at a round's start come as later `SpawnItem` requests. All three add
behaviours. Not modelled: phantoms and `q_respawn` (nothing in the repository sends
`GE_RESPAWN`), entities that the ALife simulator keeps after they leave
the map, disconnection, and events that change no link between entities.

`BagsDropped` is about `CarriesBag`: TRUE means that a body is destroyed only
when its bag has been dropped, as `game_sv_mp::Update` sees to (game_sv_mp.cpp:74-79). It
is FALSE in the run behind the finding. `BodiesWait` says the same of a behaviour, without
the constant: no request ever destroys a body that carries its bag. The theorems have it as their hypothesis,
for the code does not see to it by itself.

### FrameWork, DeviceThread (with DeviceThread_proof)

`FrameWork` is the promise: a frame moves the world and leaves work, the work is
done once, all of it, in its order, before the next frame moves the world.
`DeviceThread` is `CRenderDevice::Run` and `mt_Thread`, one action for each thing one
thread does that the other can see: entering or leaving a critical section,
comparing or writing `mt_Thread_marker`, running one delegate, clearing the queue, setting or
clearing `mt_bMustExit`. `primary` and `secondary` are the two program counters.
Delegates are pushed at either end of `seqParallel` and removed while the world moves
(`FrameMove`), which is where the game does both. `LoadDraw` in the state "move" also
stands for `CLevel::remove_objects`, which counts `dwFrame` up inside a frame
(Level_network.cpp:39).

`Phase`, `Owed` (what follows `pit` in `seqParallel`) and `served` map the one to the
other. That the queue is empty between frames is why no delegate
outlives the objects the application deletes there. Left out: timers, precaching,
statistics, the device reset.

### IdGenerator (with IdGenerator_proof)

`CID_Generator`: `m_tpIDs[b]` is the list of free identifiers of a block, `m_tTimeID` the time of its
last return, `m_available_count` the count of blocks that have any. `MinElement` is the front of
`m_tppBlocks`' order. `tGetID` and `vFreeID` occur as their callers use them: a new
identifier (`GetID`), a requested one (`GetThisID`, saved games), a freed one
(`FreeID`, `entity_Destroy`), one that is freed and taken again (`RemoveOnline`,
`SpawnItem2`, both of the simulator, which a level has or has not: `simulator`) and a new generator (`clear_ids`). `taken` and
`back` are what its users know: who holds what, and when it was last returned.
The last block may be shorter than the others, as it is for 65535 identifiers in blocks of 256.
Not modelled: what is left in a block's array after `m_tCount`, which nothing reads, and
the wrap of the clock.

### UpdateService, Sheduler (with Sheduler_proof)

`UpdateService` is the promise: who is registered is decided at once, and an object is
visited only while it exists and is registered, and at most once in a frame.
`Sheduler` is `CSheduler` with the constructor and the destructor of `ISheduled`. Its
variables are the members `ItemsRT`, `Items` (a heap, hence a set with the order of
`Item::operator<`), `ItemsProcessed` and `Registration`, each object's
`shedule.b_RT`, and the place in `CSheduler::Update` (`at`, with the loop variables `it` and
`i`). What the application may call (`Construct`, `Register`, `Unregister`, `Destruct`) it may call
outside of `Update` and in every `shedule_Update`, which is where the lists change under the
loops. `internal_Registration` is `SkipPair`, `DoRegister` and `DoUnregister`, the
walk over `ItemsRT` is `StartItemsRT`, `SkipRT`, `UpdateRT` and `ReturnRT`, `ProcessStep` is the
action of this name, `RetireItem`, `UpdateItem`, `ReturnItem`, `ThrowItem`, `GoOn` and `PushBack`.
An object is an address, which another object may get as soon as the first was
deleted; the destructor of release builds unregisters whether or not the object is
registered, and leaves words about dead addresses in the list. `visited` is
history. `registered` of UpdateService is what `CSheduler::Registered` computes in debug
builds, where the object in its update counts as listed.

Times are relative to the frame's, and what is later than `MaxLate` is as late as that.
`StableRT` is TRUE in the runs, which assume what holds in this repository (the proofs of `IInv` and
of the refinement do not): no
`shedule_Update` of an object of `ItemsRT` unregisters another one. (If one did, the walk by
index would pass the next object over, and `EveryRT` would fail.) Left out: `EnsureOrder`,
which nothing calls, `Destroy` at the end of the program, the items with a NULL
object, which are popped without effect, and an exception in `shedule_Needed`,
for which the code would try the same item for ever: it needs a dead object.

### ServerSession (with MCServerSession and ServerSession_proof)

The clients of a multiplayer server. `net_Players`, `net_Players_disconnected`, `SV_Client` and
`m_aDelayedPackets` are the members, `events` is the game's `GameEventQueue`. A
connection is a DPNID; a record (`xrClientData`) is named by the connection it was made for,
and may serve others from the same address later: `found` says which record a connection has. `line`
is how far it is on its way from `CREATE_PLAYER` to `DESTROY_PLAYER`, `inbox` what its client has to answer.

| Thread | Code | Actions |
|---|---|---|
| DirectPlay's, one call at a time for a connection | `new_client`, `client_Find_Get` | `FindClient`, `TakeClient`, `PushClient`, `NameClient` |
| | `OnMessage` | `AnswerKey`, `AnswerAuth`, `RequestData`, `SendCommand`, `ClientReady` |
| | `OnCL_Disconnected`, `client_Destroy` | `Disconnect`, `DropPacket`, `DestroyClient` |
| main, or the first client's | `xrServer::Update` | `StartUpdate`, `DelayedMessage`, `EventsDone`, `PacketsDone`, `Expire`, `EndUpdate` |
| | `game_sv_GameState::OnEvent` | `CreateClient`, `PlayerAuth`, `PlayerConnected`, `PlayerDisconnected` |
| main | the CD key library's `Think` | `KeyAnswered`, `KeyChecked` |

`holder` has `csPlayers` over several steps and `at` is where it is; what needs the section
for one step only needs `holder = None` (`Free`). `DelayedPackestCS` and the section in
`GameEventQueue` are only entered inside it, or for one call. What the code does without
`csPlayers` (the search in `client_Find_Get`, the end of `new_client`, `AnswerKey`, the rest of
`OnCDKey_Validation`) may fall between any two steps of the holder. Where the code uses a record
that is deleted, or a client who is not there, or erases by an index that has moved, `fault` says so and the
model stops: what follows such a step cannot be told. Properties hold of what comes before, and
`SendersThere` says that the assertion in `OnDelayedMessage` is none of them.

Abstractions: the player state is `score`, the set of connections whose play it holds. An entity
is an avatar, one for each connection. `Expire` may find any disconnected client gone for too long.
A kick is the end of a connection, which may come at any time. The key library answers yes, no or never.
Names, passwords, administrators, bans, pings and what `Update` sends are left out, and so is the single player's
`psNET_direct_connect`.

### Listeners, Registrator, Application (with Application_proof)

`Listeners` is what a list of listeners promises: who is listed when a pass begins and
stays is called once in it, in the order of priorities, who comes later is called after those, who has
gone is not called. `Registrator` is `CRegistrator` (pure.h): `AddTo`, `RemoveFrom`, `Resort`,
`Enter` and `Leave`. `Resort` says what `qsort` and the loop behind it make of a list, not how: the entries
that are left, in the order of priorities, equal ones in any. `Application` is what lives
in `Device.seqFrame`: `CApplication`, `CGamePersistent`, `CInput`, `CConsole`, `CMainMenu` and
the level, each with its `OnFrame` as an action, so that the list changes in the middle of the pass.

| Code | Actions |
|---|---|
| `CRenderDevice::Run`, `FrameMove` | `FrameMove`, `FrameEnd`, `LoadingEvent`, `OnAppDeactivate`, `OnAppActivate` |
| `CEventAPI::OnFrame`, the handlers of `CApplication` and `CGamePersistent` | `OnStart`, `OnDisconnect`, `OnQuickLoad`, `OnQuit`, `ApplicationFrame` |
| `CLevel::net_start*`, `net_start_client*` and the finalizer | `LoadingEvent` |
| `CMainMenu::Activate`, `Screenshot`, `OnFrame` | `MenuOn`, `MenuOff`, `Screenshot`, `MenuFrame` |
| keys and console commands | `InputFrame` |

`paused` is whether any cause in `g_pauseMngr` is set. `menu.shot` counts the frames of the
screenshot in which `Activate` does nothing. The process starts with `-nointro` and perhaps `-start`.
Several loading events of one stage are one, for nothing but the focus changes between
them. The user is taken to start a game only when none is on and to close the menu only when there is one (in
the first case a check is commented out, below); one command comes in a frame.
`crossed` records that something was asked for while something else was under way, and the
properties say what holds as long as nothing was. What happens otherwise is among the defects below.
A level is changed by its server: in a single player game (`M_CHANGE_LEVEL`, which waits in `inbox`) or in
multiplayer (`M_CHANGE_LEVEL_GAME` and, when the maps differ, `M_MAP_SYNC`: `LevelChange`), where it may also come while the client
connects (`LoadingEvent`) and while it leaves (`Received`). Of the latter none comes any more once
`crossed` is set (`ChangeComes`): a level that is told to change before it is loaded, and again, would make events without end.

### ObjectList, Replication (with MCReplication and Replication_proof)

`ObjectList` is `CObjectList` with the pointers that others keep to its objects: `Parent`,
inventories, the memory of creatures. `Replication` composes it with the server: the forest of its entities
and the events it broadcasts of each change (`toClient`, a sequence of packs), and the client
that takes them into `game_events`, runs them, and asks for rejects (`toServer`). ServerEntities has the
server's handlers in their steps; here each is one action with what it says.

| Code | Actions |
|---|---|
| the server's handlers | `Process_spawn`, `Process_event_ownership`, `Process_event_reject`, `Perform_transfer`, `Process_event_destroy`, `Perform_destroy`, `client_Destroy`, `OnRequest` |
| joining | `CreateClient`, `OnCL_Connected`, and on the client's side `ClientReceive` |
| `CLevel::ProcessGameEvents` | `OnSpawn`, `OnTake`, `OnReject`, `OnDestroy` |
| `CObjectList::Update`, updates of objects | `ObjectsUpdate`, `See`, `FallAsleep`, `Drop` |
| `CLevel::net_Stop`, `ClearAllObjects`, `IPureClient::Disconnect` | `net_Stop`, `ClearAllObjects`, `Disconnect` |

A single player's direct connection is the stream with the shortest delay. There it is the client's
own objects who ask for takes; creatures, which may refuse, are only there, transfers and departing spectators only
in multiplayer. An identifier comes back only when nobody speaks of it any more (IdGenerator shows how late
that is; ALife spawns the same one again when an object comes back online).
A failed assertion ends its process (`failed`) and nothing is said of what would follow.
The order of the lists and of the destroy queue is not told apart.

The handlers that send several events at once walk over children, which the model says by what the order they come to is like:
`DestroyTold` (a body's things are rejected and destroyed before it, each rejection right before its destruction, all
in one pack), `ClearTold` (`Perform_destroy`, in `SLS_Clear` and when something goes offline: who is rejected is rejected before what he carries is
touched, a message for each step) and `ConnectSpawns` (a parent before its children). Any order of children is allowed, as
the lists of the code may have any. `Holds` says who may carry what; who watches (`Spectator`) carries nothing. `Sees` bounds
what comes into whose memory.

### SafeMapIterator, AlifeSimulator (with AlifeSimulator_proof)

`SafeMapIterator` is the map with a place in it that the level and the schedule registries are.
`AlifeSimulator` is the simulator with the server's entities as one record, `sim`: `objects`, `level`, `points` (the
graph registry), `scheduled`, `entities`, and `m_bOnline`, `ID_Parent`, `children`, `m_tGraphID` of each object.
Its operations are functions of the record, named as in the code and composed as the code calls them, down to
the order: `switch_offline` is `remove_online` with `Perform_destroy`, which calls
`OnDetach` for each thing held, then `add_offline` with `attach`. `ok` is FALSE once an assertion of a registry fails.

| Code | Actions |
|---|---|
| `CALifeUpdateManager::update_switch`, `switch_object` | `StartSwitch`, `SwitchNext`, `EndSwitch` |
| `update_scheduled`, `follow_path` | `ScheduleNext`, `UpdateCurrent`, `EndSchedule` |
| scripts, outside and in the update of another object | `CreateObject`, `SpawnInside`, `ReleaseOffline`, `KillOffline` |
| events, handled between updates: the pass that makes them is made while no events are (DeviceThread) | `Process_spawn`, `Process_event_ownership`, `Reject`, `Destroy`, `on_death`, `teleport_object` |
| a saved game | `Load` |

`switched` and `updated` are who has the cycle's number as `m_switch_counter` and
`m_schedule_counter`. `EndSwitch` may come at any time, for the time may be over, but in the first update of a
level. Whether somebody is switched depends on flags and distances, so either may happen, except that
the actor always goes online. `passed` is history, of those switched since `Watched` began to wait.

What is restricted, each as the code has it: boxes do not move; only creatures are teleported; what cannot be saved
(a thrown missile) is spawned in a trader's hands and taken by traders only; a script neither releases the
object whose update it is in nor gets an identifier that was released in the same cycle;
a creature that moves in its update moves to another point. `kill_entity` is of creatures with nothing in their hands (see
the defects). `redundant` is false for all kinds that are modelled, so `switch_object` releases nobody.

## Runs

| Run | Question | Bounds |
|---|---|---|
| entities_single | Forest and call stack in a single player game, with rockets in launchers and entities going offline; does everything have an owner once the server's client is in? | 5 identifiers, 1 client, requests leave at most 5 entities |
| entities_deathmatch | Parents, children and assertions through rounds of a deathmatch with bags, forced takes, late rejects and bodies destroyed under players; does every ready player keep an entity that is his own, and does each handler get nearer to its end? | 5 identifiers, 2 clients, requests leave at most 4 entities |
| entities_orphan | `VERIFY(verify_entities())` after a handler, if a body may be destroyed while it has its bag: it fails | 4 identifiers, 2 clients |
| device_work | Are critical sections, marker, pass and exit in step, do the threads implement FrameWork, do frames and `Run` end? | 2 delegates, at most 3 in a frame, 4 frames |
| ids_pool | Are the lists and the count right with all callers, and is a freed identifier reused late without the simulator? | 5 identifiers, blocks of 2 (the last block is shorter), times 0 to 2 |
| sheduler_service | Does the scheduler implement UpdateService, do its lists agree at every step, and is every object of `ItemsRT` visited in every frame? | 2 addresses, 3 words in the list, times 0 and 1 |
| sheduler_fair | Does every frame end, is nobody late or left waiting? | 4 addresses, 1 word in the list, 3 frames late |
| session_return | Do queues, records, avatars and what the game is told fit together while clients come, leave, return and expire, and is everyone who connects let in, refused or gone? | 3 connections from one address (one of the server's process), 1 command waiting |
| session_migrate | Does what a client leaves behind belong to somebody who is there? It does not | 2 connections, no reconnection |
| app_shell | Does the list of frame listeners serve them as Listeners promises, does nothing of a deleted level stay, does the level move just when it should, is the clock let go, and does a start end in a game or the menu? | 2 addresses of levels, 3 frames of screenshot |
| client_replica | Does a client agree with the server when it has taken everything, whenever it joined? Does it keep no pointer to what is deleted, give nothing to two, fail only for a refusal, and get to the end of leaving? | 4 objects (an actor, a creature, an item, a spectator), the creature sees the item, 2 messages on their way, 1 request |
| alife_switch | Do registries, entities and hands agree at every step, does no assertion of theirs fail, does nobody get two turns while another waits? | an actor, 2 creatures, a box, 2 items (one that cannot be saved), at most 4 at once, 3 points of which 2 are near, 1 scheduled update at a time |

Why the bounds are enough. Five identifiers hold a player, his bag, a weapon,
and a second player with something to take; the deepest recursion of the classes
(an actor with a bag with a weapon, an actor with a launcher with a rocket) needs three, and the
spare ones let a handler spawn while the map is full. Symmetry is over identifiers,
which the model compares for equality only. Four frames are more than
the two that the marker distinguishes, and three delegates give the order of a queue
something to be wrong about; the proofs remove both bounds. Two blocks of which one is shorter
are the smallest pool in which a block runs empty while another does not.
Two addresses and three words are the least for a pair with a word between, and for an
address that is used again while a word about the first object waits; the proofs
remove both bounds. Four objects are more than the three that `ProcessStep` serves before it looks
at the time, so some are left for the next frame.
Three connections from one address are what a record needs to be used again, by another connection, and to be kept
once more; one connection of the server's process makes `SV_Client` come and go. Each of the three
may have a request and one a command in the queue at once, so there are packets of others
before and behind those that are removed.
Two addresses let a level be made while another's events wait, and the same address come again.
Two messages on their way are enough for a broadcast between the snapshot's parts and what follows it, and for a
request to cross a change; the snapshot itself is beyond the bound and may be as long as the map. What a creature remembers
besides the item only adds states: no guard reads it. The proofs remove all of these bounds.
Four of the six objects at once are the player and three others: two who hold things and something that passes
between them, or one who holds two; and the walk over the level has somebody before, at and behind its place
while others come and go. Of the points one is far, one near and one near but elsewhere.

`CHECK_DEADLOCK FALSE` is set where the program may stop: ServerEntities (a reject that comes too late), DeviceThread (`Run` ends), Application (it quits or a
fault stops it), Replication (the level has been left or an assertion has failed).
The other runs check for deadlock.

Liveness. `HandlerReturns` needs no fairness of its own: a handler always has a step
to take, unless it is the reject of a request that came too late (`TooLate`), and each step lessens `WorkLeft`, so that it returns if its thread goes on. `device_work` assumes weak fairness of `mt_Thread`, and of the
primary thread within a frame and within the exit (`InFrame`), not of starting a frame. Weak
fairness is enough although the critical sections promise no order, because each
thread waits for a section that the other one lets go and does not take again
before this one has moved. `sheduler_fair` assumes weak fairness of
`CSheduler::Update`, that is, updates return and frames follow one another, and strong
fairness of a frame that takes time: the clock advances. Nothing is assumed of what the application
calls, nor of the time limit: each frame may give up as soon as it may.

`session_return` assumes of the holder of `csPlayers` that it goes on (weak fairness of
`UpdateStep` and of the end of a connection), of the main thread that frames follow one another, and of a
callback that it gets the section some time although others take it before (strong
fairness, as Windows' critical sections have it between threads that let go), and that
clients and the key library answer. Nothing is assumed of commands, expiry and departures.

`app_shell` assumes weak fairness of `Frame`: the loop of `Run` goes on. No user's command,
change of focus or message of the server is assumed to come. `client_replica` assumes that the client takes the messages that
have come and runs their events (weak), and strong fairness of the end of a frame, of the rounds of
`ClearAllObjects` and of disconnecting: `remove_objects` makes a fixed number of rounds, whatever the server goes on sending.
`alife_switch` is about safety only. That everybody in the level has his turn does not follow from
`OneRound` alone: an object that moves, or is taken and dropped, may miss a round.

## The findings

`session_migrate`. `PerformMigration` is called under `// Migrate entities`
(xrServer_CL_disconnect.cpp:34) and says `// Initiate migration`
(xrServer_perform_migration.cpp:4), but returns at once. The entities of a client
who leaves keep his record as their owner, and `client_Destroy` deletes it. The avatar gets the server's
client when the game handles the event, a frame later (game_sv_mp.cpp:432); until then the
owner is freed memory, which the last client's departure reads (xrServer.cpp:725).

`entities_orphan`. `Process_event_destroy` destroys an actor's children from the
first, which is the bag he was spawned with. The bag is rejected before it is erased, and
the reject calls `OnDetach`, which moves the actor's weapons into it; then the
bag is erased. The weapons stay in the map with the identifier of an entity that is gone as
their parent, against `VERIFY (verify_entities());` (xrServer_process_event.cpp:103), and
`R_ASSERT(found)` in `SLS_Clear` (xrServer_sls_clear.cpp:73) then ends the process at the next
clearing of the level. One request is missing to get there: the destruction of a body before its bag
is dropped. `CActor::NeedToDestroyObject` (Actor.cpp:1394-1400) asks for it once the actor is dead and his body
may be removed (`m_bAllowDeathRemove`), by the time since his death or at once with `g_iCorpseRemove` 0, and
does not look at what the body carries. `EntitiesVerified` shows that this is the only way:
in every behaviour in which bodies wait (`BodiesWait`) the entities are verified.

### Defects without a run

Nothing in the repository says otherwise of these, or the step that leads to them is kept out of a run so that it can
ask the next question.

- `client_Find_Get` searches and erases `net_Players_disconnected` outside
  `csPlayers` (xrServer.cpp:103-112), while `Update` deletes from it inside (258-268).
  A client may be deleted between the comparison of his address and his return to `net_Players`;
  in ServerSession that is `TakeClient` with the fault "moved".
- `CAI_Stalker::OnEvent` refuses an item that it cannot carry and asks the server to reject it
  (ai/stalker/ai_stalker_events.cpp:63); the server's answer goes to everyone, the sender included
  (xrServer_process_event_reject.cpp:33), and the creature drops what its inventory never took: `R_ASSERT`
  of Inventory.cpp:201. In Replication that is `OnReject` with `failed`, and `FailsByRefusal` says that nothing else fails.
- A reject that a client asks for may find the thing gone or with another parent by then: `R_ASSERT` and `R_ASSERT3` of
  xrServer_process_event_reject.cpp:14 and 25 end the server (`TooLate` in ServerEntities, `OnRequest` with `late` in Replication).
- An object that another's `UpdateCL` wakes before its own turn is put into the crows twice, and `Destroy` erases it once
  (xr_3da/xr_object_list.cpp:123-166, 352-355). Crows are not modelled.
- In Application behind `crossed`: a save and a load, or two saves, within the three frames of the screenshot leave the level listed twice
  (`VERIFY` of pure.h:52) or moving under the menu; a save followed by leaving shows no menu; `QuickLoad` after a disconnect, or
  after a message received in `net_Stop`, calls `Level()` with no level; leaving right after a start leaves loading events of
  a deleted level. `CCC_Start` no longer looks for a level (xr_3da/xr_ioc_cmd.cpp:285), against `R_ASSERT` of x_ray.cpp:837.
  A game paused by its key and left through the menu has the next one start paused.
  A demo adds `CGamePersistent` to the list twice (GamePersistent.cpp:63, xr_3da/IGame_Persistent.cpp:20).
- `CSE_InventoryBox::add_offline` asserts that each child is still there (alife_dynamic_object.cpp:230), but
  `remove_online` leaves out what cannot be saved for traders only.
- What is spawned into an online box is not the simulator's (game_sv_single.cpp:74), and is lost with the next save unless it is taken out before.
- A bolt cannot be saved and yet is registered: inside a human who goes offline it stays online and in the level, without an entity.
- `kill_entity` of an offline human who holds something fails `R_ASSERT(children.empty())` (alife_combat_manager.cpp:465):
  `CALifeHumanObjectHandler::detach_all` is empty (alife_human_object_handler.cpp:76).
- A creature whose scheduled update takes it to another point of the level while it is the next of the walk is passed over for a
  round: `change` takes it out, which moves the walk on, and puts it back (alife_graph_registry_inline.h:17-25).
- `CSE_ALifeGroupAbstract::synchronize_location` dereferences the end of its members, and an online-offline group that has become empty
  leaves the level's list, so that nobody notices that it is redundant. Groups are not modelled.

## Proofs

All for every value of the constants, from the named assumptions of the modules.

- `ServerEntities_proof`: `TypeCorrect`, `InvariantHolds`, `EntitiesVerified`,
  `RejectsAreSafe`, each of the form `Spec /\ [][BodiesWait]_vars => []X`: of every behaviour in which no body is
  destroyed while it carries its bag. `WaitingHolds` says that with `BagsDropped`, as in the runs, every behaviour is
  one of these. `VerifyEntities` alone is not
  inductive: inside a handler it depends on what the frames below are about
  to do. `StackOK` says it: frames work on live entities (`FrameOK`; of a reject that a client
  asked for nothing is known, `Asked`), every
  recursive call is on a class further down (`RanksOK`, which is why
  `Process_event_destroy` ends and never meets itself), what is about to be erased has no
  children and only its own reject on top (`EraseOK`), and which handler may call which
  (`CallsOK`). The proof has one lemma per action and, for the handlers that change
  the forest, lemmas on what `Insert`, `Attach`, `Detach`, `Perform_transfer` and
  `entity_Destroy` preserve.
  On top of it the players: `EntitiesOwned`, `AvatarsOwned` and `RoundsKeepPlayers`, from `PlayersKept`. Between
  handlers a player's entity is live and his; inside one it may be dead, or somebody else's, but only while a frame
  further down is about to spawn another for him (`PlayersRight`, `RoundRight`). That is what makes each of
  `OnDestroyObject`, `RespawnPlayer` and `SLS_Clear` leave him something to play, in whatever order they meet. These
  too are about behaviours that satisfy `BodiesWait`.
- `DeviceThread_proof`: `ThreadsApart` (`IInv`, which is inductive as it stands: who
  holds which section is a function of the two program counters, and the marker
  tells the pass apart) and `WorkIsDone`, the refinement of `FrameWork`, from it.
- `IdGenerator_proof`: `PoolIsRight` (`IInv`: the lists are the complement of
  what is held, so the count is right) and `ReusedLate`, which needs
  `TimesRight` and holds where no simulator resets the times.
- `Sheduler_proof`: `ListsAgree` (`IInv`), `ServesAsPromised`, the refinement of
  UpdateService, and `NoneLeftOut` (`EveryRT`), for any number of objects and words. The heart is what
  the list of registrations says of an object: its words alternate, the first
  one unregisters an object that is in a list, and names the right list, and the last one
  decides whether it is registered (`WordsAlternate`, `FlagTells`). `Appends` shows what a new
  word does to that, `Thins` what working off the list does (words of one
  object go, and before those on it that stay), `Stays` what a step does that leaves the list alone.
  What a loop is still to run over has no word (`YetToVisit`), which is why `Unregister` may take it
  out at once. `EveryRT` needs that what the walk has passed was visited (`PassedVisited`).
  `ServedInTime` (`InTime`) is the count: what a frame has served (`Served`) and who stands before an item in the heap
  (`NotBehind`) bound how many whole frames it can have been due (`Waited`), for each of them moved three others behind
  it. Its hypothesis `LateEnough` says of the bound `MaxLate` alone that it is later than a frame and another for
  every three objects; the constants of both runs satisfy it.
- `ServerSession_proof`: `Invariance` (the types and `IInv`: in which queue, list and stage a connection and its record
  may be together), and from it `SendersFound`, `GhostsFree`, `ScoresKept`, `OrderKept`, `ServerClientConnected` and
  `DepartedOut`. One lemma per action of each thread; what an action may take for granted is what the holder of
  `csPlayers` has made sure of, and what the others cannot have changed meanwhile.
- `AlifeSimulator_proof`: `RegistriesKept`, `HandsKept` and `AssertionsHold`, from `WorldKept`. `WorldRight` says of each
  object alone which lists it is in, given its own state and its holder's; so an operation is right if it leaves right
  the objects it touches, and touches one (`About`) or a holder with what he holds (`RightAgain`). The loops over children
  (`remove_online`, `add_offline`, `Perform_destroy`, ...) are folds, about which `LoopHolds` and `OneByOne` say what an
  induction would: what each round keeps the loop keeps, shown by a least counterexample over the
  finite sets of what is done. That the actor is online and stays in the level keeps the level's registry from becoming empty under the walk.
  `RoundKept` (`OneRound`) is about the order of the turns: who is between the next turn and an object's own (`Between`)
  only becomes fewer while that object stays where it is, whatever is added, removed or moved (`SameFor` says it of every
  object an operation is not about), and who has had his turn is not among them (`RoundInv`).
- `Application_proof`: `WalkKept` (`Walked`), `QuietKept` (`Quiet`), the refinement `ListenersKept`, and `NobodyKept`,
  `LevelKept`, `NothingFails`, `ClockKept`, `MenuKept`. Two invariants, of which the second needs the first: `Walked` is about
  the list and the walk over it alone, whoever changes it. A list that handlers change only grows at its end
  and turns entries invalid (`Evolves`), so the walk by index misses nobody and calls nobody twice, and `Resort` at
  its end loses nobody (`ResortDoes`). `Quiet` is about the shell: which events wait and which
  loading events are left (`OneThing`), where the level is listed (`LevelRight`), who stopped the clock and who
  remembers it (`PauseRight`), and that a menu waits at the end (`MenuThere`). It holds while `~crossed`; what
  happens to the list is proved without it.

- `Replication_proof`: `ClientFollows` (`ReplicaAgrees`), `NothingDangles` (`NobodyDangles`), `HandsAreFree` (`HandsFree`) and
  `OnlyRefusalsFail` (`FailsByRefusal`), from `Invariance`, for finitely many identifiers (16 bits) and any forest in which spectators neither
  carry nor are carried (`ReplicaAssumption`). None of the four is inductive: what the client may be told next depends on
  all that is on its way. So the proof reads events as steps between views (`View`: who is alive, in whose hands): an event is
  true of a view and makes another of it (`Turn`), a sequence of events or of messages leads from one to another (`Leads`,
  `LeadsAll`, chains of such steps that are joined and taken apart by `ChainJoin` and `ChainHead`). The invariant `IInv` says
  that some view stands for the client's objects (`Stands`: who is not in it any more waits to be destroyed, and who is in the hands of
  somebody the client misses, or was refused, is in nobody's) and that what is to be run and what is on its way lead
  from it to the server's entities (`Follows`). A client that joins starts from nobody with the configuration, which is why what was broadcast
  before does no harm: it finds no object (`FollowsFrom`'s `J`) or is dropped. `FreshOK` says that what is announced is not
  there, and not announced twice; `SingleOK` what only holds where client and server are one. A new message keeps it if it is true
  of the server (`SaysKeeps`, with a lemma for each handler), an event that is run moves the view by its own step (`RunKeeps`).
  That the orders of `DestroyTold` and `ClearTold` are true of the forest, whatever its depth, needs no induction: everybody is
  rejected before he or his holder is destroyed (`Undoes`), and what is left after the first k events is said outright
  (`After`); the same serves `ClearAllObjects`, whose events are the client's own.
  `NothingLeft` (a client that has stopped has no object left, `LevelCleared`) is the half of `LeavingEnds` that needs no fairness: in a single
  player game nothing comes to the server any more once the level stops, and else the last round destroys all there is (`Clearing`).

Model-checked only: `FrameEnds`, `RunReturns`, `UpdateEnds`, `NobodyStarves`, `EveryoneServed`,
`StartServed` and `LeavingEnds` (liveness, which this prover does not do), and `HandlerReturns` (a measure that is a sum over the
stack, which would need an induction over data). Every invariant and every other action property of the passing runs is stated by a theorem.

## Plan

1. ServerEntities, with its proof (here).
2. DeviceThread implementing FrameWork, with proofs (here).
3. IdGenerator, with its proof (here).
4. ServerSession, with its proof (here): connect, authenticate, ready, disconnect and reconnect.
5. Sheduler implementing UpdateService, with proofs (here).
6. Registrator implementing Listeners within Application, with proofs (here).
7. ObjectList and Replication: a client fed by the server's broadcasts and by the snapshot it joins with, with its proof (here).
8. SafeMapIterator and AlifeSimulator, with its proof (here).
9. An abstract forest of entities that both ServerEntities and the server of Replication implement; ServerSession composed with
   ServerEntities, for a `GameID` that outlives its entity.
10. The simulator's groups and change of level; the inventory and weapons of the client.

## Not modelled

Renderers, sound, physics, collision, particles, AI and animation are numerical
or drive devices; UI and scripts keep no state others rely on; the core library and the network
layer are taken to do what their callers expect; vendored libraries and data are not of this program.
Of the modelled parts what is left out is said in their sections above and in `PROJECT.json`: among it both group classes, the
spawn registry, the change of level, smart terrains and the combat, interaction and communication managers of the simulator; the
intro sequences, `seqFrameMT` and the other lists of listeners of the shell; and prediction, artefacts, crows and demos on the client.
