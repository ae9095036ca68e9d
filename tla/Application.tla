---------------------------- MODULE Application ----------------------------
(***************************************************************************)
(* The shell around a game: CApplication (the deferred events that start   *)
(* and end it), CMainMenu, CConsole, CGamePersistent and the loading       *)
(* events, as far as they share Device.seqFrame, g_pGameLevel, the pause   *)
(* and dwFrame.  Frames are made one listener at a time, so that what a    *)
(* handler does to the list in the middle of the pass is seen; between two *)
(* frames the window may lose or gain the focus.  The process was started  *)
(* with -nointro, perhaps with -start as well.                             *)
(***************************************************************************)
EXTENDS Registrator

CONSTANT Address    \* where a CLevel may be allocated

None == "none"
Engine == {"application", "persistent", "input", "console", "menu"}

ASSUME AddressAssumption == Address \cap (Engine \union {None}) = {}

Object == Engine \union Address
Prio == [o \in Object |->
    CASE o = "application" -> 5     \* REG_PRIORITY_HIGH + 1000
      [] o = "persistent"  -> 4     \* REG_PRIORITY_HIGH + 1
      [] o = "input"       -> 3     \* REG_PRIORITY_HIGH
      [] o = "menu"        -> 1     \* REG_PRIORITY_LOW - 1000
      [] OTHER             -> 2]    \* REG_PRIORITY_NORMAL: the console and the level

VARIABLES
    seqFrame,  \* Device.seqFrame
    walk,      \* the index Process goes on from, 0 between two frames
    events,    \* Events_Deferred: "single" and "multi" stand for KERNEL:start
    handled,   \* how many of them OnFrame has signalled
    level,     \* g_pGameLevel
    ready,     \* bReady: it is loaded
    loading,   \* g_loading_events
    result,    \* net_start_result_total
    gameType,  \* m_e_game_type
    inbox,     \* what the server has told the level: "load", "change" or None
    menu,      \* CMainMenu: m_Flags and m_screenshotFrame - dwFrame
    visible,   \* Console->bVisible
    paused,    \* g_pauseMngr
    away,      \* ~bEntryFlag, and bRestorePause
    logo,      \* m_intro_event is start_logo_intro
    quit,      \* WM_QUIT is posted
    began,     \* history: how long R was when the pass began
    byKey,     \* history: it is the user who paused the game
    crossed,   \* history: something was asked for while something was under way
    fault      \* an assertion that has failed or a pointer to nothing

vars == <<seqFrame, walk, events, handled, level, ready, loading, result, gameType, inbox,
          menu, visible, paused, away, logo, quit, began, byKey, crossed, fault>>

gameVars == <<ready, loading, result, gameType, logo, quit>>

Stages == <<"server", "client", "spawn", "finish">>
Window == -1..1       \* of the frames in which Activate does nothing
IsGameTypeSingle == gameType # "multi"

InFrame == walk > 0

\* Process passes over what is marked; at the end this is the length and one.
At == LET R == seqFrame.R
      IN  CHOOSE k \in walk..(Len(R) + 1) :
              /\ k <= Len(R) => IsValid(R[k])
              /\ \A j \in walk..(k - 1) : ~IsValid(R[j])

Called(o) == InFrame /\ At <= Len(seqFrame.R) /\ seqFrame.R[At].Object = o
Returns == walk' = At + 1
Stays == UNCHANGED walk

-----------------------------------------------------------------------------
(* What the calls below change together, as a record. *)

Here == [list |-> seqFrame, level |-> level, menu |-> menu, visible |-> visible,
         paused |-> paused]

\* What the VERIFY of Add is about.
Twice(reg) == \E i, j \in DOMAIN reg.R : i < j /\ IsValid(reg.R[i]) /\ reg.R[i] = reg.R[j]

Fails(what) == fault' = what /\ UNCHANGED <<seqFrame, level, menu, visible, paused>>

Becomes(record) ==
    \E s \in {record} :
       \/ Twice(s.list) /\ Fails("listed twice")
       \/ /\ ~Twice(s.list)
          /\ seqFrame' \in Settled(s.list)
          /\ level' = s.level
          /\ menu' = s.menu
          /\ visible' = s.visible
          /\ paused' = s.paused
          /\ UNCHANGED fault

Same == Becomes(Here)
KeyForgotten == byKey' = (byKey /\ paused')

Listen(s, o) == [s EXCEPT !.list = AddTo(@, o, Prio[o])]
Unlisten(s, o) == [s EXCEPT !.list = RemoveFrom(@, o)]

Show(s) == IF s.visible THEN s ELSE Listen([s EXCEPT !.visible = TRUE], "console")
Hide(s) == IF s.visible THEN Unlisten([s EXCEPT !.visible = FALSE], "console") ELSE s

\* Activate returns at once.
Refuses(s, on) == s.menu.active = on \/ s.menu.saving \/ s.menu.shot \in Window

\* Fault: the level stays listed.
MenuOn_Faulty(s) ==
    IF Refuses(s, TRUE) THEN s
    ELSE Hide([s EXCEPT !.menu.active = TRUE, !.menu.restoreConsole = s.visible,
                        !.menu.restorePause = IF IsGameTypeSingle THEN s.paused ELSE @,
                        !.paused = @ \/ IsGameTypeSingle])

MenuOn(s) ==
    LET shut == Hide([s EXCEPT
                    !.menu.active = TRUE,
                    !.menu.restoreConsole = s.visible,
                    !.menu.restorePause = IF IsGameTypeSingle THEN s.paused ELSE @,
                    !.paused = @ \/ IsGameTypeSingle])
    IN  IF Refuses(s, TRUE) THEN s
        ELSE IF s.level # None /\ IsGameTypeSingle THEN Unlisten(shut, s.level) ELSE shut

MenuOff(s) ==
    LET off   == [s EXCEPT !.menu.active = FALSE]
        again == IF s.visible THEN Show(Hide(off)) ELSE off
        back  == IF s.level # None /\ IsGameTypeSingle THEN Listen(again, s.level) ELSE again
        shown == IF s.menu.restoreConsole THEN Show(back) ELSE back
    IN  IF Refuses(s, FALSE) THEN s
        ELSE [shown EXCEPT !.paused = @ /\ ~(IsGameTypeSingle /\ ~s.menu.restorePause)]

Activate(s, on) == IF on THEN MenuOn(s) ELSE MenuOff(s)

\* With the mode SM_FOR_GAMESAVE.
Screenshot(s) ==
    LET listed == IF s.level # None /\ s.menu.active THEN Listen(s, s.level) ELSE s
    IN  Hide([listed EXCEPT !.menu.saving = TRUE, !.menu.shot = 1,
                            !.menu.restoreConsole = s.visible])

\* ~CLevel, which net_Stop went before or not.
\* Fault: it stays listed.
Deleted_Faulty(s) == [s EXCEPT !.level = None]

Deleted(s) == [Unlisten(s, s.level) EXCEPT !.level = None]

\* dwFrame goes on by n.
Later(m, n) == [m EXCEPT !.shot = IF @ - n < -2 THEN -2 ELSE @ - n]

\* ClientReceive of CLevel: what M_LOAD_GAME and M_CHANGE_LEVEL defer.
Deferred == IF inbox = None THEN {<<>>}
            ELSE {<<"disconnect", "single">>} \union (IF inbox = "load" THEN {<<"QuickLoad">>} ELSE {})

\* What M_CHANGE_LEVEL_GAME and M_MAP_SYNC defer.  Bound: no second one comes
\* once something has crossed something else, for the level it starts may be
\* told to change before its loading begins, and so on for ever.
LevelChange == <<"disconnect", "multi">>
ChangeComes == gameType = "multi" /\ ~crossed

\* remove_objects receives as well; what has not arrived then is lost.
Received ==
    Deferred \union {<<>>} \union {more \in {LevelChange} : ChangeComes}

Busy == \/ events # <<>> \/ loading # <<>> \/ inbox # None
        \/ menu.saving \/ menu.shot \in Window

Asked == crossed' = (crossed \/ Busy)
Asks(list) == events' = events \o list /\ Asked

-----------------------------------------------------------------------------
(* CApplication::OnFrame: the events that wait, in the order they came. *)

Init ==
    /\ LET S == <<"application", "persistent", "input", "console", "menu">>
       IN  seqFrame = [Empty EXCEPT !.R = [i \in DOMAIN S |-> [Object |-> S[i], Prio |-> Prio[S[i]]]]]
    /\ walk = 0 /\ handled = 0 /\ events \in {<<>>, <<"single">>, <<"multi">>}
    /\ level = None /\ ready = FALSE /\ loading = <<>> /\ result = TRUE /\ gameType = "any" /\ inbox = None
    /\ menu = [active |-> FALSE, saving |-> FALSE, shot |-> -2, restoreConsole |-> FALSE, restorePause |-> FALSE]
    /\ visible = TRUE /\ paused = FALSE
    /\ away = [now |-> FALSE, restorePause |-> FALSE] /\ logo = TRUE /\ quit = FALSE
    /\ began = 0 /\ byKey = FALSE /\ crossed = FALSE /\ fault = None

Handles(e) ==
    /\ Called("application") /\ handled < Len(events) /\ events[handled + 1] = e
    /\ handled' = handled + 1
    /\ Stays /\ UNCHANGED <<away, began>>

OnStart(type) ==
    /\ Handles(type)
    /\ IF level # None
       THEN Fails("level exists") /\ UNCHANGED <<gameVars, inbox>>
       ELSE \E a \in Address :
            /\ Becomes([Hide(MenuOff(Here)) EXCEPT !.level = a])
            /\ ready' = FALSE
            /\ loading' = loading \o [i \in DOMAIN Stages |-> [level |-> a, stage |-> Stages[i]]]
            /\ result' = TRUE
            /\ gameType' = type
            /\ logo' = FALSE
            /\ inbox' = None
            /\ UNCHANGED quit
    /\ UNCHANGED <<events, crossed>> /\ KeyForgotten

\* Fault: the menu is left as it is.
OnDisconnect_Faulty ==
    /\ Handles("disconnect")
    /\ gameType' = "any"
    /\ IF level = None
       THEN Same /\ UNCHANGED <<ready, inbox, events, crossed>>
       ELSE \E more \in Received :
            /\ Becomes(Show(Deleted(Hide([Here EXCEPT !.menu = Later(@, 12)]))))
            /\ ready' = FALSE
            /\ events' = events \o more
            /\ inbox' = None
            /\ crossed' = (crossed \/ more # <<>>)
    /\ UNCHANGED <<loading, result, logo, quit>> /\ KeyForgotten

OnDisconnect ==
    /\ Handles("disconnect")
    /\ gameType' = "any"
    /\ IF level = None
       THEN Same /\ UNCHANGED <<ready, inbox, events, crossed>>
       ELSE \E more \in Received :
            LET Peek(n) == n \in ToSet(events \o more)
            IN  /\ \E gone \in {Show(Deleted(Hide([Here EXCEPT !.menu = Later(@, 12)])))} :
                      Becomes(IF Peek("quit") \/ Peek("single") \/ Peek("multi") THEN gone
                              ELSE MenuOn(MenuOff(gone)))
                /\ ready' = FALSE
                /\ events' = events \o more
                /\ inbox' = None
                /\ crossed' = (crossed \/ more # <<>>)
    /\ UNCHANGED <<loading, result, logo, quit>> /\ KeyForgotten

OnQuickLoad ==
    /\ Handles("QuickLoad")
    /\ IF level = None
       THEN Fails("no level") /\ UNCHANGED <<events, inbox, crossed>>
       ELSE \E more \in Received :
            /\ Becomes([Here EXCEPT !.paused = FALSE, !.menu = Later(@, 12)])
            /\ events' = events \o more
            /\ inbox' = None
            /\ crossed' = (crossed \/ more # <<>>)
    /\ UNCHANGED gameVars /\ KeyForgotten

OnQuit ==
    /\ Handles("quit")
    /\ quit' = TRUE
    /\ Same
    /\ UNCHANGED <<events, ready, loading, result, gameType, logo, inbox, crossed, byKey>>

ApplicationFrame ==
    /\ Called("application") /\ handled = Len(events)
    /\ events' = <<>> /\ handled' = 0
    /\ Same /\ Returns
    /\ UNCHANGED <<gameVars, inbox, away, began, byKey, crossed>>

-----------------------------------------------------------------------------
(* The others' OnFrame. *)

Calls(o) == Called(o) /\ Returns /\ UNCHANGED <<handled, away, began>>

\* start_logo_intro with -nointro; an autosave by the scheduler, which it runs.
PersistentFrame ==
    /\ Calls("persistent")
    /\ logo' = FALSE
    /\ LET s == IF logo THEN MenuOn(Show(Here)) ELSE Here
       IN  \/ Becomes(s) /\ UNCHANGED crossed
           \/ /\ level # None /\ ready /\ gameType = "single" /\ ~s.paused
              /\ Becomes(Screenshot(s))
              /\ Asked
    /\ UNCHANGED <<ready, loading, result, gameType, quit, events, inbox>> /\ KeyForgotten

ConsoleFrame ==
    /\ Calls("console")
    /\ Same
    /\ UNCHANGED <<gameVars, events, inbox, byKey, crossed>>

\* Fault: the level stays listed.
MenuFrame_FaultyLevel ==
    /\ Calls("menu")
    /\ LET done == [Here EXCEPT !.menu.saving = FALSE]
       IN  Becomes(IF ~(menu.saving /\ menu.shot < 0) THEN Here
                   ELSE IF menu.restoreConsole THEN Show(done) ELSE done)
    /\ UNCHANGED <<gameVars, events, inbox, byKey, crossed>>

\* CMainMenu::OnFrame.
MenuFrame ==
    /\ Calls("menu")
    /\ LET done == [Here EXCEPT !.menu.saving = FALSE]
           back == IF level # None /\ menu.active THEN Unlisten(done, level) ELSE done
       IN  Becomes(IF ~(menu.saving /\ menu.shot < 0) THEN Here
                   ELSE IF menu.restoreConsole THEN Show(back) ELSE back)
    /\ UNCHANGED <<gameVars, events, inbox, byKey, crossed>>

\* CLevel::OnFrame: it hears of the server (M_CHANGE_LEVEL in single player, a
\* LevelChange in multiplayer), or that it has lost it.
LevelFrame ==
    /\ \E a \in Address : Calls(a)
    /\ Same
    /\ \/ UNCHANGED <<events, inbox, crossed>>
       \/ \E more \in Deferred : events' = events \o more /\ inbox' = None /\ UNCHANGED crossed
       \/ inbox = None /\ gameType = "single" /\ inbox' = "change" /\ Asked /\ UNCHANGED events
       \/ gameType = "multi" /\ Asks(<<"disconnect">>) /\ UNCHANGED inbox
       \/ ChangeComes /\ Asks(LevelChange) /\ UNCHANGED inbox
    /\ UNCHANGED <<gameVars, byKey>>

-----------------------------------------------------------------------------
(* CInput::OnFrame: the keys and the buttons of the menu end in commands. *)

Commands == Calls("input") /\ ~away.now /\ (visible \/ menu.active \/ (level # None /\ ready))

InputIdle ==
    /\ Calls("input") /\ Same
    /\ UNCHANGED <<gameVars, events, inbox, byKey, crossed>>

\* "main_menu"; without a level the menu has nothing to go back to.
MainMenu ==
    /\ Commands
    /\ menu.active => level # None
    /\ Becomes(Activate(Here, ~menu.active))
    /\ UNCHANGED <<gameVars, events, inbox, crossed>> /\ KeyForgotten

\* "start"; CCC_Start no longer looks whether there is a level, so the user must.
StartGame(type) ==
    /\ Commands /\ level = None
    /\ Same /\ Asks(<<type>>)
    /\ UNCHANGED <<gameVars, inbox, byKey>>

\* "disconnect"
Disconnect ==
    /\ Commands
    /\ Same /\ Asks(<<"disconnect">>)
    /\ UNCHANGED <<gameVars, inbox, byKey>>

\* "quit", or Alt+F4, which leaves the console alone.
Quit ==
    /\ Calls("input") /\ ~away.now
    /\ \/ Commands /\ Becomes(Hide(Here))
       \/ Same
    /\ Asks(<<"disconnect", "quit">>)
    /\ UNCHANGED <<gameVars, inbox, byKey>>

\* "load"
LoadGame ==
    /\ Commands /\ level # None /\ ready /\ gameType = "single" /\ inbox = None
    /\ Becomes([Activate(Here, FALSE) EXCEPT !.paused = FALSE])
    /\ inbox' = "load"
    /\ Asked
    /\ UNCHANGED <<gameVars, events>> /\ KeyForgotten

\* "save"
SaveGame ==
    /\ Commands /\ level # None /\ ready /\ gameType = "single"
    /\ Becomes(Screenshot(Here))
    /\ Asked
    /\ UNCHANGED <<gameVars, events, inbox, byKey>>

ToggleConsole ==
    /\ Commands
    /\ Becomes(IF visible THEN Hide(Here) ELSE Show(Here))
    /\ UNCHANGED <<gameVars, events, inbox, byKey, crossed>>

PauseKey ==
    /\ Calls("input") /\ ~away.now /\ level # None /\ ready /\ ~menu.active /\ ~visible
    /\ gameType = "single"
    /\ Becomes([Here EXCEPT !.paused = ~@])
    /\ byKey' = ~paused
    /\ UNCHANGED <<gameVars, events, inbox, crossed>>

InputFrame ==
    \/ InputIdle \/ MainMenu \/ Disconnect \/ Quit \/ LoadGame \/ SaveGame \/ ToggleConsole \/ PauseKey
    \/ \E type \in {"single", "multi"} : StartGame(type)

-----------------------------------------------------------------------------
(* CRenderDevice::Run. *)

FrameMove ==
    /\ ~InFrame /\ ~quit /\ loading = <<>>
    /\ seqFrame' = Enter(seqFrame)
    /\ walk' = 1
    /\ began' = Len(seqFrame.R)
    /\ menu' = Later(menu, 1)
    /\ UNCHANGED <<events, handled, level, gameVars, inbox, visible, paused, away, byKey, crossed, fault>>

FrameEnd ==
    /\ InFrame /\ At = Len(seqFrame.R) + 1
    /\ seqFrame' \in Leave(seqFrame)
    /\ walk' = 0 /\ began' = 0
    /\ UNCHANGED <<events, handled, level, gameVars, inbox, menu, visible, paused, away, byKey, crossed, fault>>

\* Fault: a level that could not be started is just deleted.
LoadingEvent_Faulty ==
    /\ ~InFrame /\ ~quit /\ loading # <<>>
    /\ LET e == Head(loading)
           failed == e.stage = "finish" /\ ~result
       IN  /\ Becomes(IF failed THEN Deleted(Here)
                      ELSE IF e.stage = "client" /\ result THEN Listen(Here, level) ELSE Here)
           /\ result' \in {result, result /\ e.stage \in {"spawn", "finish"}}
           /\ ready' = (level' # None /\ (ready \/ (e.stage = "client" /\ result)))
    /\ loading' = Tail(loading)
    /\ UNCHANGED <<walk, events, handled, gameType, logo, quit, inbox, away, began, crossed>> /\ KeyForgotten

\* The loading event in front; several of net_start1..6 and net_start_client1..6
\* are one here, since only the focus may change between them, but for a change
\* of the level that the client is told of while it connects.
LoadingEvent ==
    /\ ~InFrame /\ ~quit /\ loading # <<>>
    /\ LET e == Head(loading)
       IN  \/ /\ e.level \notin {level, None}
              /\ Fails("level gone")
              /\ UNCHANGED <<ready, loading, result>>
           \/ /\ e.level = level /\ e.stage \in {"server", "client"}
              /\ loading' = Tail(loading)
              /\ \/ result /\ e.stage = "client" /\ ready' = TRUE /\ UNCHANGED result
                    /\ Becomes(Listen([Here EXCEPT !.menu = Later(@, 1)], level))
                 \/ ~(result /\ e.stage = "client") /\ UNCHANGED <<ready, result>>
                    /\ Becomes([Here EXCEPT !.menu = Later(@, 1)])
                 \/ result /\ result' = FALSE /\ UNCHANGED ready
                    /\ Becomes([Here EXCEPT !.menu = Later(@, 1)])
           \/ /\ e.level = level /\ e.stage = "spawn"
              /\ loading' = Tail(loading)
              /\ Becomes([Here EXCEPT !.menu = Later(@, 1)])
              /\ UNCHANGED <<ready, result>>
           \/ /\ e.level = level /\ e.stage = "finish"
              /\ loading' = <<[level |-> None, stage |-> "finalizer"]>> \o Tail(loading)
              /\ Same
              /\ UNCHANGED <<ready, result>>
           \/ /\ e.stage = "finalizer"
              /\ loading' = Tail(loading)
              /\ Becomes(IF level # None /\ ~result THEN MenuOn(Deleted(Here)) ELSE Here)
              /\ ready' = (ready /\ level' # None)
              /\ UNCHANGED result
    /\ \/ UNCHANGED <<events, crossed>>
       \/ Head(loading).stage = "client" /\ ChangeComes /\ Asks(LevelChange)
    /\ UNCHANGED <<walk, handled, gameType, logo, quit, inbox, away, began>> /\ KeyForgotten

Multiplayer == level # None /\ ready /\ gameType = "multi"

OnAppDeactivate ==
    /\ ~InFrame /\ ~quit /\ ~away.now
    /\ away' = [now |-> TRUE, restorePause |-> ~Multiplayer /\ paused]
    /\ paused' = (paused \/ (~Multiplayer /\ IsGameTypeSingle))
    /\ UNCHANGED <<seqFrame, walk, events, handled, level, gameVars, inbox, menu, visible, began, byKey, crossed, fault>>

\* Fault: the clock runs whatever had stopped it.
OnAppActivate_Faulty ==
    /\ ~InFrame /\ ~quit /\ away.now
    /\ away' = [away EXCEPT !.now = FALSE]
    /\ paused' = FALSE
    /\ UNCHANGED <<seqFrame, walk, events, handled, level, gameVars, inbox, menu, visible, began, crossed, fault>>
    /\ KeyForgotten

OnAppActivate ==
    /\ ~InFrame /\ ~quit /\ away.now
    /\ away' = [away EXCEPT !.now = FALSE]
    /\ paused' = (paused /\ away.restorePause)
    /\ UNCHANGED <<seqFrame, walk, events, handled, level, gameVars, inbox, menu, visible, began, crossed, fault>>
    /\ KeyForgotten

Frame ==
    \/ FrameMove \/ FrameEnd \/ LoadingEvent
    \/ ApplicationFrame \/ InputFrame \/ ConsoleFrame \/ MenuFrame \/ LevelFrame \/ PersistentFrame
    \/ OnDisconnect \/ OnQuickLoad \/ OnQuit
    \/ \E type \in {"single", "multi"} : OnStart(type)

Next == fault = None /\ (Frame \/ OnAppDeactivate \/ OnAppActivate)

Spec == Init /\ [][Next]_vars
FairSpec == Spec /\ WF_vars(fault = None /\ Frame)

-----------------------------------------------------------------------------
(* Properties. *)

\* Every variable has its type, and the list its order: what the pass has added
\* is behind what it began with.
TypeInvariant ==
    /\ \A i \in DOMAIN seqFrame.R :
          seqFrame.R[i].Object \in Object /\ seqFrame.R[i].Prio \in {INVALID, Prio[seqFrame.R[i].Object]}
    /\ level \in Address \union {None} /\ events \in Seq({"single", "multi", "disconnect", "QuickLoad", "quit"})
    /\ handled \in 0..Len(events) /\ menu.shot \in -2..1
    /\ inbox \in {None, "load", "change"} /\ gameType \in {"any", "single", "multi"}
    /\ seqFrame.in_process <=> InFrame
    /\ ~InFrame => InOrder(seqFrame.R) /\ \A e \in ToSet(seqFrame.R) : IsValid(e)

\* Nobody stays listed who has gone: a CLevel takes itself out however it ends,
\* and the console is listed while it is seen.  (With the types of the state.)
NobodyDangles ==
    /\ TypeInvariant
    /\ Listed(seqFrame) \cap Address \subseteq {level}
    /\ visible <=> "console" \in Listed(seqFrame)

\* A CLevel moves on in every frame, but for the time the menu covers a single
\* player game, in which it moves only to have its picture taken.
LevelMoves ==
    ~crossed /\ fault = None /\ level # None /\ ready =>
        (level \in Listed(seqFrame) <=> menu.saving \/ ~(IsGameTypeSingle /\ menu.active))

\* No assertion fails and no pointer to nothing is followed as long as nothing is
\* asked for while something else is under way.
OneAtATime == fault # None => crossed

\* Whoever stops the clock starts it again, however many of them stop it.
ClockRuns ==
    ~crossed => /\ paused => away.now \/ byKey \/ (menu.active /\ gameType # "multi")
                /\ menu.active /\ gameType = "single" /\ level # None => paused

\* When a game has ended or could not be started, the user has his menu.
NobodyStranded ==
    ~InFrame /\ ~crossed /\ ~quit /\ level = None /\ events = <<>> /\ loading = <<>> /\ ~logo
        => menu.active

(* What makes them so: the list and the walk over it, ...                   *)
Standing == <<"application", "persistent", "input">>

InFront(R) == Len(R) >= 3 /\ \A i \in 1..3 : R[i] = [Object |-> Standing[i], Prio |-> 6 - i]

Descends(R, n) == \A i, j \in 1..n : i < j /\ IsValid(R[i]) /\ IsValid(R[j]) => R[i].Prio >= R[j].Prio

Walked ==
    /\ ~Twice(seqFrame)
    /\ walk \in 0..(Len(seqFrame.R) + 1) /\ began \in 0..Len(seqFrame.R)
    /\ InFront(seqFrame.R) /\ Descends(seqFrame.R, began)
    /\ InFrame \/ (began = 0 /\ ~seqFrame.changed)
    /\ ~seqFrame.changed => InOrder(seqFrame.R) /\ \A i \in DOMAIN seqFrame.R : IsValid(seqFrame.R[i])

(* ... what is under way, which is one thing at a time, ...                  *)
Rest(a, n) == [i \in 1..(5 - n) |-> [level |-> a, stage |-> Stages[n + i - 1]]]
Finalizer == <<[level |-> None, stage |-> "finalizer"]>>

Playing == level # None /\ ready /\ gameType = "single"

OneThing ==
    /\ events \in {<<>>, <<"single">>, <<"multi">>, <<"disconnect">>, <<"disconnect", "quit">>,
                   <<"disconnect", "single">>, LevelChange, <<"QuickLoad">>}
    /\ inbox # None => events = <<>> /\ Playing
    /\ menu.saving \/ menu.shot # -2 => events = <<>> /\ inbox = None /\ Playing
    /\ menu.shot >= 0 => menu.saving
    /\ loading # <<>> => /\ handled = Len(events) /\ inbox = None /\ ~menu.saving /\ menu.shot = -2
                         /\ ~menu.active /\ ~logo
                         /\ InFrame => loading = Rest(level, 1) /\ ~visible

Upcoming(e) == handled < Len(events) /\ events[handled + 1] = e

LevelRight ==
    /\ level = None => ~ready
    /\ level # None => gameType # "any"
    /\ level # None /\ ~ready => loading # <<>> /\ level \notin Listed(seqFrame)
    /\ \/ loading = <<>>
       \/ level # None /\ ~ready /\ loading = Rest(level, 1)
       \/ level # None /\ ~ready /\ loading = Rest(level, 2)
       \/ level # None /\ (ready \/ ~result) /\ loading \in {Rest(level, 3), Rest(level, 4), Finalizer}
    /\ Upcoming("single") \/ Upcoming("multi") => level = None
    /\ Upcoming("QuickLoad") => Playing /\ ~menu.active /\ walk \notin 2..3

(* ... and whose pause it is.                                              *)
PauseRight ==
    /\ away.now /\ away.restorePause /\ paused =>
          byKey \/ (menu.active /\ gameType # "multi" /\ ~menu.restorePause)
    /\ ~away.now /\ menu.active /\ gameType # "multi" /\ menu.restorePause /\ paused => byKey
    /\ away.now /\ menu.active /\ gameType = "single" /\ level # None => away.restorePause

MenuThere ==
    /\ level = None /\ loading = <<>> /\ ~logo /\ ~quit =>
          menu.active \/ \E i \in (handled + 1)..Len(events) : events[i] \in {"single", "multi", "quit"}
    /\ logo => level = None

Quiet == ~crossed => fault = None /\ OneThing /\ LevelRight /\ PauseRight /\ MenuThere

Shell == INSTANCE Listeners WITH
    Listener <- Object, Priority <- Prio,
    listed <- Listed(seqFrame), passing <- InFrame,
    due <- {seqFrame.R[i].Object : i \in {j \in DOMAIN seqFrame.R :
                InFrame /\ j >= walk /\ j <= began /\ IsValid(seqFrame.R[j])}},
    late <- {seqFrame.R[i].Object : i \in {j \in DOMAIN seqFrame.R :
                InFrame /\ j >= walk /\ j > began /\ IsValid(seqFrame.R[j])}}

\* Process calls whom Listeners promises, whatever the handlers do to the list.
ListenersServed == Shell!Spec

\* A game that is asked for is played, or the user is back at his menu.
StartServed ==
    (\E type \in {"single", "multi"} : type \in ToSet(events))
        ~> \/ level # None /\ ready /\ level \in Listed(seqFrame)
           \/ menu.active \/ quit \/ crossed
=============================================================================
