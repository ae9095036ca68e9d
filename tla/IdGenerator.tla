---------------------------- MODULE IdGenerator -----------------------------
(***************************************************************************)
(* CID_Generator, the pool the server takes entity identifiers from, and   *)
(* what the server and the ALife simulator ask of it.  The identifiers are *)
(* cut into blocks.  A block has the list of its free identifiers, as      *)
(* offsets, and the time the last of them came back; a new identifier is   *)
(* the last one of the block that has been left alone for longest.         *)
(***************************************************************************)
EXTENDS Naturals, FiniteSets, Sequences, SequencesExt

CONSTANTS
    tMaxValue,    \* the identifiers are 0..tMaxValue; tMinValue is 0
    tBlockSize,   \* so many of them are in a block, fewer in the last one
    MaxTime       \* the bound of the clock, which counts milliseconds

ASSUME PoolAssumption ==
    /\ tMaxValue \in Nat
    /\ tBlockSize \in Nat \ {0}
    /\ MaxTime \in Nat

ID == 0..tMaxValue
m_tBlockCount == (tMaxValue \div tBlockSize) + 1
Block == 0..(m_tBlockCount - 1)
Offset == 0..(tBlockSize - 1)

VARIABLES
    simulator,           \* the ALife simulator runs: a single player game
    m_available_count,   \* how many blocks have a free identifier
    m_tpIDs,             \* each block's free offsets; m_tCount is the length
    m_tTimeID,
    now,                 \* Device.TimerAsync()
    taken,               \* the identifiers the callers hold
    back                 \* when each came back last (history)

vars == <<simulator, m_available_count, m_tpIDs, m_tTimeID, now, taken, back>>

TypeOK ==
    /\ simulator \in BOOLEAN
    /\ m_available_count \in Nat
    /\ m_tpIDs \in [Block -> Seq(Offset)]
    /\ m_tTimeID \in [Block -> 0..MaxTime]
    /\ now \in 0..MaxTime
    /\ taken \subseteq ID
    /\ back \in [ID -> 0..MaxTime]

-----------------------------------------------------------------------------
tfGetBlockByValue(v) == v \div tBlockSize

OffsetOf(v) == v % tBlockSize

\* The identifier that an offset of a block stands for.
ValueOf(b, o) == b * tBlockSize + o

\* How many identifiers a block has.
SizeOf(b) ==
    IF b = m_tBlockCount - 1 THEN tMaxValue + 1 - b * tBlockSize ELSE tBlockSize

\* SID_Block::operator<
Less(b, c) ==
    /\ m_tpIDs[b] # <<>>
    /\ m_tTimeID[b] < m_tTimeID[c] \/ m_tpIDs[c] = <<>>

\* Fault: a block that has free identifiers will do.
MinElement_Faulty == CHOOSE b \in Block : m_tpIDs[b] # <<>>

\* std::min_element: the first block that no other is less than.
MinElement ==
    CHOOSE b \in Block :
        /\ \A c \in Block : ~Less(c, b)
        /\ \A c \in 0..(b - 1) : Less(b, c)

\* An offset is taken from the list: the last one takes its place.
Without(s, o) ==
    LET i == CHOOSE i \in DOMAIN s : s[i] = o
    IN  Front([s EXCEPT ![i] = Last(s)])

\* What tfGetFromBlock does to the count of blocks.
CountLess(b) == m_available_count - (IF Len(m_tpIDs[b]) = 1 THEN 1 ELSE 0)

\* The constructor: everything is free, the lowest offset at the end.
Fresh ==
    /\ m_available_count' = m_tBlockCount
    /\ m_tpIDs' = [b \in Block |-> [i \in 1..SizeOf(b) |-> SizeOf(b) - i]]
    /\ m_tTimeID' = [b \in Block |-> 0]

Init ==
    /\ simulator \in BOOLEAN
    /\ m_available_count = m_tBlockCount
    /\ m_tpIDs = [b \in Block |-> [i \in 1..SizeOf(b) |-> SizeOf(b) - i]]
    /\ m_tTimeID = [b \in Block |-> 0]
    /\ now = 0
    /\ taken = {}
    /\ back = [v \in ID |-> 0]

-----------------------------------------------------------------------------
(* The operations.                                                         *)

\* tfGetFromBlock, any identifier
PopFrom(b) ==
    /\ m_available_count' = CountLess(b)
    /\ m_tpIDs' = [m_tpIDs EXCEPT ![b] = Front(@)]
    /\ taken' = taken \cup {ValueOf(b, Last(m_tpIDs[b]))}

\* PerformIDgen(0xffff): a new entity.
GetID ==
    /\ m_available_count # 0
    /\ PopFrom(MinElement)
    /\ UNCHANGED <<m_tTimeID, now, back>>

\* Fault: the count of blocks is left as it is.
GetThisID_Faulty(v) ==
    LET b == tfGetBlockByValue(v)
    IN  /\ OffsetOf(v) \in {m_tpIDs[b][i] : i \in DOMAIN m_tpIDs[b]}
        /\ m_tpIDs' = [m_tpIDs EXCEPT ![b] = Without(@, OffsetOf(v))]
        /\ taken' = taken \cup {v}
        /\ UNCHANGED <<m_available_count, m_tTimeID, now, back>>

\* PerformIDgen(v): an object that has its identifier from a saved game.  The
\* R_ASSERT2 that it is in the list is all that stands against giving it twice.
GetThisID(v) ==
    LET b == tfGetBlockByValue(v)
    IN  /\ OffsetOf(v) \in {m_tpIDs[b][i] : i \in DOMAIN m_tpIDs[b]}
        /\ m_available_count' = CountLess(b)
        /\ m_tpIDs' = [m_tpIDs EXCEPT ![b] = Without(@, OffsetOf(v))]
        /\ taken' = taken \cup {v}
        /\ UNCHANGED <<m_tTimeID, now, back>>

\* vfFreeID, from entity_Destroy
FreeID(v) ==
    LET b == tfGetBlockByValue(v)
    IN  /\ v \in taken
        /\ m_available_count' =
               m_available_count + (IF m_tpIDs[b] = <<>> THEN 1 ELSE 0)
        /\ m_tpIDs' = [m_tpIDs EXCEPT ![b] = Append(@, OffsetOf(v))]
        /\ m_tTimeID' = [m_tTimeID EXCEPT ![b] = now]
        /\ taken' = taken \ {v}
        /\ back' = [back EXCEPT ![v] = now]
        /\ UNCHANGED now

\* CALifeSwitchManager::remove_online: Perform_destroy frees the identifier
\* and PerformIDgen takes it again, from the end of the list.  Where children go
\* with it, theirs are freed and taken again in turn, by FreeID and GetThisID.
RemoveOnline(v) ==
    /\ simulator
    /\ v \in taken
    /\ m_tTimeID' = [m_tTimeID EXCEPT ![tfGetBlockByValue(v)] = now]
    /\ back' = [back EXCEPT ![v] = now]
    /\ UNCHANGED <<m_available_count, m_tpIDs, now, taken>>

\* CALifeSimulator__spawn_item2: a new identifier, freed at time 0 and taken
\* again by Process_spawn, from the end of the list.
SpawnItem2 ==
    /\ simulator
    /\ m_available_count # 0
    /\ PopFrom(MinElement)
    /\ m_tTimeID' = [m_tTimeID EXCEPT ![MinElement] = 0]
    /\ back' = [back EXCEPT ![ValueOf(MinElement, Last(m_tpIDs[MinElement]))] = 0]
    /\ UNCHANGED now

\* game_sv_Single::restart_simulator: all entities are gone.
clear_ids ==
    /\ simulator
    /\ Fresh
    /\ taken' = {}
    /\ back' = [v \in ID |-> 0]
    /\ UNCHANGED now

Tick ==
    /\ now < MaxTime
    /\ now' = now + 1
    /\ UNCHANGED <<m_available_count, m_tpIDs, m_tTimeID, taken, back>>

Step ==
    \/ GetID
    \/ \E v \in ID : GetThisID(v)
    \/ \E v \in ID : FreeID(v)
    \/ \E v \in ID : RemoveOnline(v)
    \/ SpawnItem2
    \/ clear_ids
    \/ Tick

\* A level's game type stays.
Next == Step /\ UNCHANGED simulator

Spec == Init /\ [][Next]_vars

-----------------------------------------------------------------------------
(* Properties.                                                             *)

Available == {b \in Block : m_tpIDs[b] # <<>>}

\* "Not enough IDs" is said when there are none, and only then.
CountRight == m_available_count = Cardinality(Available)

FreeIn(b) == {v \in ID \ taken : tfGetBlockByValue(v) = b}

\* The lists have just the identifiers nobody holds, each once: none is lost,
\* and none is given to two entities.
FreeListed ==
    \A b \in Block :
        /\ {m_tpIDs[b][i] : i \in DOMAIN m_tpIDs[b]} = {OffsetOf(v) : v \in FreeIn(b)}
        /\ \A i, j \in DOMAIN m_tpIDs[b] : m_tpIDs[b][i] = m_tpIDs[b][j] => i = j

\* A block's time is that of its last return, unless the simulator has put it
\* back to 0.
TimesRight ==
    \A b \in Block :
        /\ m_tTimeID[b] <= now
        /\ \A v \in ID : tfGetBlockByValue(v) = b => back[v] <= m_tTimeID[b]
        /\ \E v \in ID : tfGetBlockByValue(v) = b /\ back[v] = m_tTimeID[b]

\* The inductive invariant.
IInv == TypeOK /\ CountRight /\ FreeListed /\ (simulator \/ TimesRight)

\* Where no simulator plays with the times, an identifier is given again only
\* when in each other block that has any the last one came back no earlier:
\* messages about the entity that had it before have had time to get through.
ReuseIsLate ==
    [][\A v \in ID : ~simulator /\ GetID /\ v \in taken' \ taken =>
           \A b \in Available \ {tfGetBlockByValue(v)} :
               \E w \in ID : tfGetBlockByValue(w) = b /\ back[w] >= back[v]]_vars
=============================================================================
