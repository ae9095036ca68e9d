------------------------- MODULE ServerSession_proof -------------------------
(***************************************************************************)
(* The inductive invariant of ServerSession and what follows from it, for  *)
(* any set of connections, any addresses and any of the options.           *)
(***************************************************************************)
EXTENDS ServerSession, SequenceTheorems, TLAPS

-----------------------------------------------------------------------------
(* Lists and queues.                                                       *)

\* push_back.
LEMMA AppendProps ==
    ASSUME NEW S, NEW s \in Seq(S), NEW e \in S
    PROVE  /\ Append(s, e) \in Seq(S)
           /\ Len(s) \in Nat /\ DOMAIN s = 1..Len(s)
           /\ DOMAIN Append(s, e) = 1..(Len(s) + 1)
           /\ \A i \in 1..Len(s) : Append(s, e)[i] = s[i]
           /\ Append(s, e)[Len(s) + 1] = e
OBVIOUS

\* pop_front.
LEMMA TailProps ==
    ASSUME NEW S, NEW s \in Seq(S), s # <<>>
    PROVE  /\ Tail(s) \in Seq(S)
           /\ Len(s) \in Nat \ {0} /\ DOMAIN s = 1..Len(s)
           /\ Head(s) = s[1] /\ s[1] \in S
           /\ DOMAIN Tail(s) = 1..(Len(s) - 1)
           /\ \A i \in 1..(Len(s) - 1) : Tail(s)[i] = s[i + 1]
<1>1. Len(s) \in Nat \ {0} /\ DOMAIN s = 1..Len(s) /\ Head(s) = s[1]
  OBVIOUS
<1>2. s[1] \in S
  BY <1>1
<1>3. /\ Tail(s) \in Seq(S) /\ Len(Tail(s)) = Len(s) - 1
      /\ \A i \in 1..Len(Tail(s)) : Tail(s)[i] = s[i + 1]
  BY HeadTailProperties
<1>4. DOMAIN Tail(s) = 1..(Len(s) - 1)
  BY <1>3
<1> QED
  BY <1>1, <1>2, <1>3, <1>4

\* erase(begin() + i).
LEMMA RemoveAtProps ==
    ASSUME NEW S, NEW s \in Seq(S), NEW k \in DOMAIN s
    PROVE  /\ RemoveAt(s, k) \in Seq(S)
           /\ Len(s) \in Nat /\ DOMAIN s = 1..Len(s) /\ k \in 1..Len(s)
           /\ Len(RemoveAt(s, k)) = Len(s) - 1 /\ DOMAIN RemoveAt(s, k) = 1..(Len(s) - 1)
           /\ \A i \in 1..(Len(s) - 1) : RemoveAt(s, k)[i] = IF i < k THEN s[i] ELSE s[i + 1]
<1> DEFINE B == SubSeq(s, 1, k - 1)
           A == SubSeq(s, k + 1, Len(s))
           D == B \o A
<1>1. Len(s) \in Nat /\ DOMAIN s = 1..Len(s) /\ k \in 1..Len(s)
  OBVIOUS
<1>2. B \in Seq(S) /\ Len(B) = k - 1 /\ \A i \in 1..(k - 1) : B[i] = s[i]
  <2>1. \A i \in 1..(k - 1) : s[i] \in S
    BY <1>1
  <2> QED
    BY <1>1, <2>1, SubSeqProperties
<1>3. A \in Seq(S) /\ Len(A) = Len(s) - k /\ \A i \in 1..(Len(s) - k) : A[i] = s[k + i]
  <2>1. \A i \in (k + 1)..Len(s) : s[i] \in S
    BY <1>1
  <2>2. /\ A \in Seq(S)
        /\ Len(A) = IF k + 1 <= Len(s) THEN Len(s) - (k + 1) + 1 ELSE 0
        /\ \A i \in 1..(Len(s) - (k + 1) + 1) : A[i] = s[(k + 1) + i - 1]
    <3>1. k + 1 \in Int /\ Len(s) \in Int
      BY <1>1
    <3> QED
      BY <2>1, <3>1, SubSeqProperties
  <2> QED
    BY <1>1, <2>2
<1> HIDE DEF A, B
<1>4. D \in Seq(S) /\ Len(D) = Len(s) - 1
  <2>1. B \in Seq(S) /\ A \in Seq(S)
    BY <1>2, <1>3
  <2>2. D \in Seq(S) /\ Len(D) = Len(B) + Len(A)
    BY <2>1, ConcatProperties
  <2> QED
    BY <1>1, <1>2, <1>3, <2>2
<1>5. DOMAIN D = 1..(Len(s) - 1)
  BY <1>4
<1>6. \A i \in 1..(Len(s) - 1) : D[i] = IF i < k THEN s[i] ELSE s[i + 1]
  <2> TAKE i \in 1..(Len(s) - 1)
  <2>1. D[i] = IF i <= Len(B) THEN B[i] ELSE A[i - Len(B)]
    BY <1>1, <1>2, <1>3, ConcatProperties
  <2>2. CASE i < k
    BY <2>1, <2>2, <1>1, <1>2
  <2>3. CASE ~(i < k)
    <3>1. i - Len(B) \in 1..(Len(s) - k) /\ k + (i - Len(B)) = i + 1
      BY <2>3, <1>1, <1>2
    <3> QED
      BY <2>1, <2>3, <3>1, <1>1, <1>2, <1>3
  <2> QED
    BY <2>2, <2>3
<1> QED
  BY <1>1, <1>4, <1>5, <1>6 DEF A, B, RemoveAt

\* pop_front is an erase.
LEMMA TailIsRemoveAt ==
    ASSUME NEW S, NEW s \in Seq(S), s # <<>>
    PROVE  Tail(s) = RemoveAt(s, 1)
<1>1. /\ Tail(s) \in Seq(S)
      /\ Len(s) \in Nat \ {0} /\ DOMAIN s = 1..Len(s)
      /\ DOMAIN Tail(s) = 1..(Len(s) - 1)
      /\ \A i \in 1..(Len(s) - 1) : Tail(s)[i] = s[i + 1]
  BY TailProps
<1>2. 1 \in DOMAIN s
  BY <1>1
<1>3. /\ RemoveAt(s, 1) \in Seq(S) /\ Len(RemoveAt(s, 1)) = Len(s) - 1
      /\ DOMAIN RemoveAt(s, 1) = 1..(Len(s) - 1)
      /\ \A i \in 1..(Len(s) - 1) : RemoveAt(s, 1)[i] = IF i < 1 THEN s[i] ELSE s[i + 1]
  BY <1>2, RemoveAtProps
<1>4. Len(Tail(s)) = Len(s) - 1 /\ Len(RemoveAt(s, 1)) = Len(s) - 1
  BY <1>3, HeadTailProperties
<1>5. \A i \in 1..(Len(s) - 1) : Tail(s)[i] = RemoveAt(s, 1)[i]
  BY <1>1, <1>3
<1> QED
  BY <1>1, <1>3, <1>4, <1>5, SeqEqual

-----------------------------------------------------------------------------
(* What a step leaves of each part of the invariant when it changes nothing *)
(* that the part is about.                                                  *)

SameRecords == \A c \in Id : found'[c].cl = found[c].cl
SameLeaving == \A c \in Id : Leaving(c)' <=> Leaving(c)
NoNewConfig == \A c \in Id : "config" \in inbox'[c] => "config" \in inbox[c]
EventsStay == \A i \in DOMAIN events : i \in DOMAIN events' /\ events'[i] = events[i]

\* Who is in which list.
LEMMA ListsFrame ==
    ASSUME ListsRight, UNCHANGED <<alive, net_Players, net_Players_disconnected, line>>,
           SameRecords, SameLeaving
    PROVE  ListsRight'
BY DEF ListsRight, SameRecords, SameLeaving, Attached, Record

\* The numbers the records are known by.
LEMMA IDsFrame ==
    ASSUME IDsRight, TypeOK, UNCHANGED <<alive, line>>, SameRecords, SameLeaving,
           \A r \in Id : client'[r].ID = client[r].ID
    PROVE  IDsRight'
<1>1. alive \subseteq Id /\ \A r \in Id : client[r].ID \in Id /\ found[r].cl \in Id
  BY DEF TypeOK, Client
<1> QED
  BY <1>1 DEF IDsRight, SameRecords, SameLeaving, Attached, Named, Record

\* Who holds csPlayers, and where.
LEMMA LockFrame ==
    ASSUME LockRight, UNCHANGED <<holder, at, line, m_aDelayedPackets>>
    PROVE  LockRight'
BY DEF LockRight

\* The client who is leaving.
LEMMA LeavingFrame ==
    ASSUME LeavingOff, LockRight, TypeOK, UNCHANGED <<holder, at, SV_Client>>, SameRecords,
           \A r \in Id : client'[r].bConnected = client[r].bConnected
    PROVE  LeavingOff'
<1>1. \A r \in Id : found[r].cl \in Id
  BY DEF TypeOK
<1> QED
  BY <1>1 DEF LeavingOff, LockRight, SameRecords, Record

\* The server's client.
LEMMA ServerClientFrame ==
    ASSUME ServerClientThere, TypeOK, UNCHANGED <<SV_Client, net_Players>>,
           \A r \in Id : /\ client'[r].bLocal = client[r].bLocal
                         /\ client'[r].bConnected = client[r].bConnected
    PROVE  ServerClientThere'
BY DEF ServerClientThere, TypeOK

\* The records that are kept for their return.
LEMMA DepartedFrame ==
    ASSUME DepartedIdle, TypeOK, UNCHANGED <<alive, net_Players, net_Players_disconnected>>,
           \A r \in Id : /\ client'[r].bConnected = client[r].bConnected
                         /\ client'[r].net_Ready = client[r].net_Ready
                         /\ client'[r].owner = client[r].owner
    PROVE  DepartedIdle'
<1>1. \A i \in DOMAIN net_Players_disconnected : net_Players_disconnected[i] \in Id
  BY DEF TypeOK
<1> QED
  BY <1>1 DEF DepartedIdle

\* The packets that wait.
LEMMA PacketsFrame ==
    ASSUME PacketsRight, TypeOK, UNCHANGED <<m_aDelayedPackets, line, at, told>>, SameLeaving,
           NoNewConfig, fault' # "assert"
    PROVE  PacketsRight'
<1>1. \A i \in DOMAIN m_aDelayedPackets : m_aDelayedPackets[i].sender \in Id
  <2>1. m_aDelayedPackets \in Seq(Packet)
    BY DEF TypeOK
  <2>2. \A i \in DOMAIN m_aDelayedPackets : m_aDelayedPackets[i] \in Packet
    BY <2>1
  <2> QED
    BY <2>2 DEF Packet
<1> QED
  BY <1>1 DEF PacketsRight, SameLeaving, NoNewConfig, Attached, Named

\* The events that wait.
LEMMA EventsFrame ==
    ASSUME EventsRight, UNCHANGED <<events, line, at, told, m_aDelayedPackets>>
    PROVE  EventsRight'
BY DEF EventsRight

\* What the game was told, and is about to be told.
LEMMA ToldFrame ==
    ASSUME ToldRight, UNCHANGED <<line, at, told, m_aDelayedPackets>>, NoNewConfig, EventsStay
    PROVE  ToldRight'
BY DEF ToldRight, NoNewConfig, EventsStay, NewEvent

\* The avatars.
LEMMA AvatarsFrame ==
    ASSUME AvatarsRight, TypeOK, UNCHANGED <<line, told, avatar>>, SameRecords, EventsStay,
           \A r \in Id : client'[r].owner = client[r].owner /\ client'[r].GameID = client[r].GameID
    PROVE  AvatarsRight'
<1>1. \A r \in Id : found[r].cl \in Id
  BY DEF TypeOK
<1> QED
  BY <1>1 DEF AvatarsRight, SameRecords, EventsStay, NewEvent, Record

\* The scores.
LEMMA ScoreFrame ==
    ASSUME ScoreRight, TypeOK, UNCHANGED <<alive, line, told>>, SameRecords,
           \A r \in Id : client'[r].score = client[r].score /\ client'[r].bReconnect = client[r].bReconnect
    PROVE  ScoreRight'
<1>1. alive \subseteq Id /\ \A r \in Id : found[r].cl \in Id
  BY DEF TypeOK
<1>2. ScoreKept'
  BY <1>1 DEF ScoreRight, ScoreKept, SameRecords
<1> QED
  BY <1>1, <1>2 DEF ScoreRight, SameRecords, Record

\* An event is added that tells the game nothing about who plays.
LEMMA EventAdded ==
    ASSUME TypeOK, EventsRight, NEW e \in Event, e.type \notin {"connected", "disconnected"},
           events' = Append(events, e), UNCHANGED <<at, told, m_aDelayedPackets>>,
           \A c \in Id : line[c] = "gone" => line'[c] = "gone"
    PROVE  EventsRight' /\ EventsStay /\ events' \in Seq(Event)
<1>1. events \in Seq(Event)
  BY DEF TypeOK
<1>2. /\ events' \in Seq(Event)
      /\ Len(events) \in Nat /\ DOMAIN events = 1..Len(events)
      /\ DOMAIN events' = 1..(Len(events) + 1)
      /\ \A i \in 1..Len(events) : events'[i] = events[i]
      /\ events'[Len(events) + 1] = e
  BY <1>1, AppendProps
<1>3. EventsStay
  BY <1>2 DEF EventsStay
<1>4. \A i \in DOMAIN events : events[i] \in Event
  BY <1>1
<1>5. \A i \in DOMAIN events' : \/ i \in DOMAIN events /\ events'[i] = events[i]
                                \/ events'[i] = e
  BY <1>2
<1>6. \A i \in DOMAIN events : events[i].id \in Id
  BY <1>4 DEF Event
<1>7. EventsRight'
  BY <1>5, <1>6 DEF EventsRight
<1> QED
  BY <1>2, <1>3, <1>7

\* What a packet does to the invariant when it is put at the end of the queue:
\* a request is his only one, and comes before he has been told anything.
LEMMA PacketAdded ==
    ASSUME TypeOK, PacketsRight, NEW p \in Packet, Named(p.sender), line[p.sender] # "update",
           m_aDelayedPackets' = Append(m_aDelayedPackets, p), at = "outside",
           UNCHANGED <<at, told, inbox, fault>>, SameLeaving,
           \A c \in Id : line'[c] = line[c] \/ (line[c] = "in" /\ line'[c] = "joining"),
           p.type = "request" => /\ line[p.sender] = "in" /\ line'[p.sender] = "joining"
                                 /\ told[p.sender] = "nothing" /\ "config" \notin inbox[p.sender]
    PROVE  PacketsRight' /\ m_aDelayedPackets' \in Seq(Packet)
<1>1. m_aDelayedPackets \in Seq(Packet)
  BY DEF TypeOK
<1>2. /\ m_aDelayedPackets' \in Seq(Packet)
      /\ Len(m_aDelayedPackets) \in Nat /\ DOMAIN m_aDelayedPackets = 1..Len(m_aDelayedPackets)
      /\ DOMAIN m_aDelayedPackets' = 1..(Len(m_aDelayedPackets) + 1)
      /\ \A i \in 1..Len(m_aDelayedPackets) : m_aDelayedPackets'[i] = m_aDelayedPackets[i]
      /\ m_aDelayedPackets'[Len(m_aDelayedPackets) + 1] = p
  BY <1>1, AppendProps
<1>3. \A i \in DOMAIN m_aDelayedPackets : m_aDelayedPackets[i] \in Packet
  BY <1>1
<1>4. /\ \A i \in DOMAIN m_aDelayedPackets' :
            \/ i \in DOMAIN m_aDelayedPackets /\ m_aDelayedPackets'[i] = m_aDelayedPackets[i]
            \/ i = Len(m_aDelayedPackets) + 1 /\ m_aDelayedPackets'[i] = p
      /\ Len(m_aDelayedPackets) + 1 \notin DOMAIN m_aDelayedPackets
  BY <1>2
<1>5. p.sender \in Id /\ \A i \in DOMAIN m_aDelayedPackets : m_aDelayedPackets[i].sender \in Id
  BY <1>3 DEF Packet
<1>6. \A c \in Id : Named(c) /\ line[c] # "update" => Named(c)' /\ line'[c] # "update"
  BY DEF SameLeaving, Attached, Named
<1>7. \A i \in DOMAIN m_aDelayedPackets :
         m_aDelayedPackets[i].type = "request" => line[m_aDelayedPackets[i].sender] # "in"
  BY DEF PacketsRight
<1>8. ASSUME NEW i \in DOMAIN m_aDelayedPackets'
      PROVE  /\ Named(m_aDelayedPackets[i].sender)' /\ line'[m_aDelayedPackets'[i].sender] # "update"
             /\ m_aDelayedPackets'[i].type = "request" =>
                   /\ line'[m_aDelayedPackets'[i].sender] # "in"
                   /\ told'[m_aDelayedPackets'[i].sender] = "nothing"
                   /\ "config" \notin inbox'[m_aDelayedPackets'[i].sender]
                   /\ \A j \in DOMAIN m_aDelayedPackets' : m_aDelayedPackets'[j] = m_aDelayedPackets'[i] => i = j
  <2>1. CASE i \in DOMAIN m_aDelayedPackets /\ m_aDelayedPackets'[i] = m_aDelayedPackets[i]
    <3>1. Named(m_aDelayedPackets[i].sender)' /\ line'[m_aDelayedPackets'[i].sender] # "update"
      BY <2>1, <1>5, <1>6 DEF PacketsRight
    <3>2. ASSUME m_aDelayedPackets[i].type = "request"
          PROVE  /\ line[m_aDelayedPackets[i].sender] # "in" /\ line'[m_aDelayedPackets[i].sender] # "in"
                 /\ told'[m_aDelayedPackets[i].sender] = "nothing"
                 /\ "config" \notin inbox'[m_aDelayedPackets[i].sender]
                 /\ \A j \in DOMAIN m_aDelayedPackets : m_aDelayedPackets[j] = m_aDelayedPackets[i] => i = j
      BY <2>1, <1>5, <3>2 DEF PacketsRight
    <3>3. m_aDelayedPackets[i].type = "request" => m_aDelayedPackets[i] # p
      BY <3>2
    <3> QED
      BY <2>1, <1>4, <3>1, <3>2, <3>3
  <2>2. CASE i = Len(m_aDelayedPackets) + 1 /\ m_aDelayedPackets'[i] = p
    <3>1. p.type = "request" => \A j \in DOMAIN m_aDelayedPackets : m_aDelayedPackets[j] # p
      BY <1>7
    <3> QED
      BY <2>2, <1>4, <1>5, <1>6, <3>1
  <2> QED
    BY <2>1, <2>2, <1>4
<1> QED
  BY <1>2, <1>8 DEF PacketsRight

\* ... and when a packet is taken out of it.
LEMMA PacketRemoved ==
    ASSUME TypeOK, PacketsRight, NEW k \in DOMAIN m_aDelayedPackets,
           m_aDelayedPackets' = RemoveAt(m_aDelayedPackets, k),
           at = "nested" => k = 1, at' # "nested",
           UNCHANGED <<line, told, fault>>, NoNewConfig, SameLeaving
    PROVE  PacketsRight' /\ m_aDelayedPackets' \in Seq(Packet)
<1>1. m_aDelayedPackets \in Seq(Packet)
  BY DEF TypeOK
<1>2. /\ m_aDelayedPackets' \in Seq(Packet)
      /\ Len(m_aDelayedPackets) \in Nat /\ DOMAIN m_aDelayedPackets = 1..Len(m_aDelayedPackets)
      /\ k \in 1..Len(m_aDelayedPackets)
      /\ DOMAIN m_aDelayedPackets' = 1..(Len(m_aDelayedPackets) - 1)
      /\ \A i \in 1..(Len(m_aDelayedPackets) - 1) :
            m_aDelayedPackets'[i] = IF i < k THEN m_aDelayedPackets[i] ELSE m_aDelayedPackets[i + 1]
  BY <1>1, RemoveAtProps
<1> DEFINE old(i) == IF i < k THEN i ELSE i + 1
<1>3. \A i \in DOMAIN m_aDelayedPackets' :
         /\ old(i) \in DOMAIN m_aDelayedPackets /\ m_aDelayedPackets'[i] = m_aDelayedPackets[old(i)]
         /\ ~(old(i) = 1 /\ at = "nested")
         /\ \A j \in DOMAIN m_aDelayedPackets' : old(i) = old(j) => i = j
  BY <1>2
<1>4. \A i \in DOMAIN m_aDelayedPackets : m_aDelayedPackets[i] \in Packet
  BY <1>1
<1>5. \A i \in DOMAIN m_aDelayedPackets : m_aDelayedPackets[i].sender \in Id
  BY <1>4 DEF Packet
<1>6. \A c \in Id : Named(c) => Named(c)'
  BY DEF SameLeaving, Attached, Named
<1> HIDE DEF old
<1>7. ASSUME NEW i \in DOMAIN m_aDelayedPackets'
      PROVE  /\ Named(m_aDelayedPackets[i].sender)' /\ line'[m_aDelayedPackets'[i].sender] # "update"
             /\ m_aDelayedPackets'[i].type = "request" =>
                   /\ line'[m_aDelayedPackets'[i].sender] # "in"
                   /\ told'[m_aDelayedPackets'[i].sender] = "nothing"
                   /\ "config" \notin inbox'[m_aDelayedPackets'[i].sender]
                   /\ \A j \in DOMAIN m_aDelayedPackets' : m_aDelayedPackets'[j] = m_aDelayedPackets'[i] => i = j
  BY <1>3, <1>5, <1>6 DEF PacketsRight, NoNewConfig
<1> QED
  BY <1>2, <1>7 DEF PacketsRight

-----------------------------------------------------------------------------
(* What the invariant says of one connection and its record.               *)

\* ID_to_client finds a connection's own record, and nothing when it has none.
LEMMA OwnRecord ==
    ASSUME IInv, NEW c \in Id
    PROVE  /\ \A r \in ID_to_client(c) : r = Record(c) /\ r \in net_Players
           /\ Named(c) => ID_to_client(c) = {Record(c)}
<1>1. net_Players \subseteq alive /\ net_Players \subseteq Id
  BY DEF IInv, ListsRight, TypeOK
<1>2. \A r \in net_Players : client[r].ID = c => Record(c) = r
  BY <1>1 DEF IInv, IDsRight
<1>3. Named(c) => Record(c) \in net_Players /\ client[Record(c)].ID = c
  BY DEF IInv, IDsRight, ListsRight, Named
<1> QED
  BY <1>1, <1>2, <1>3 DEF ID_to_client

\* Whoever has a connection, and is not about to be destroyed, is attached.
LEMMA LinkedNamed ==
    ASSUME NEW c \in Id, line[c] \in Linked
    PROVE  Attached(c) /\ Named(c)
BY DEF Linked, Attached, Named

-----------------------------------------------------------------------------
(* Messages.                                                               *)

\* His CD key goes to the library: nothing else depends on who is asked for.
LEMMA AnswerKeyInd ==
    ASSUME IInv, NEW c \in Id, AnswerKey(c)
    PROVE  IInv'
<1>1. TypeOK'
  BY DEF IInv, TypeOK, AnswerKey, lists, queues, lock, game
<1>2. /\ UNCHANGED <<alive, client, lists, queues, lock, line, found, game, fault>>
      /\ SameRecords /\ SameLeaving /\ NoNewConfig /\ EventsStay
  BY DEF IInv, TypeOK, AnswerKey, lists, queues, lock, game, SameRecords, SameLeaving, Leaving, NoNewConfig,
     EventsStay
<1>3. ListsRight' /\ IDsRight' /\ LockRight' /\ LeavingOff' /\ ServerClientThere' /\ DepartedIdle'
  BY <1>2, ListsFrame, IDsFrame, LockFrame, LeavingFrame, ServerClientFrame, DepartedFrame
     DEF IInv, lists, queues, lock, game
<1>4. StagesRight'
  <2>1. PacketsRight' /\ EventsRight' /\ ToldRight'
    BY <1>2, PacketsFrame, EventsFrame, ToldFrame
       DEF IInv, StagesRight, PacketsRight, lists, queues, lock, game
  <2>2. AvatarsRight' /\ ScoreRight'
    BY <1>2, AvatarsFrame, ScoreFrame DEF IInv, StagesRight, lists, queues, lock, game
  <2> QED
    BY <2>1, <2>2 DEF StagesRight
<1> QED
  BY <1>1, <1>3, <1>4 DEF IInv

\* The answer to the build's check becomes an event, which says nothing of who plays.
LEMMA AnswerAuthInd ==
    ASSUME IInv, NEW c \in Id, AnswerAuth(c)
    PROVE  IInv'
<1>1. NewEvent("auth", c, None) \in Event /\ NewEvent("auth", c, None).type = "auth"
  BY DEF NewEvent, Event
<1>2. EventsRight' /\ EventsStay /\ events' \in Seq(Event)
  BY <1>1, EventAdded DEF IInv, StagesRight, AnswerAuth, lock, game
<1>3. TypeOK'
  BY <1>2 DEF IInv, TypeOK, AnswerAuth, lists, keys, lock, game
<1>4. /\ UNCHANGED <<alive, client, lists, m_aDelayedPackets, lock, line, found, keys, game, fault>>
      /\ SameRecords /\ SameLeaving /\ NoNewConfig
  BY DEF IInv, TypeOK, AnswerAuth, lists, lock, keys, game, SameRecords, SameLeaving, Leaving, NoNewConfig
<1>5. ListsRight' /\ IDsRight' /\ LockRight' /\ LeavingOff' /\ ServerClientThere' /\ DepartedIdle'
  BY <1>4, ListsFrame, IDsFrame, LockFrame, LeavingFrame, ServerClientFrame, DepartedFrame
     DEF IInv, lists, lock, game
<1>6. StagesRight'
  <2>1. PacketsRight' /\ ToldRight'
    BY <1>2, <1>4, PacketsFrame, ToldFrame DEF IInv, StagesRight, PacketsRight, lists, lock, game
  <2>2. AvatarsRight' /\ ScoreRight'
    BY <1>2, <1>4, AvatarsFrame, ScoreFrame DEF IInv, StagesRight, lists, lock, game
  <2> QED
    BY <1>2, <2>1, <2>2 DEF StagesRight
<1> QED
  BY <1>3, <1>5, <1>6 DEF IInv

\* He asks for the connection data: his one request, before he was told anything.
LEMMA RequestDataInd ==
    ASSUME IInv, NEW c \in Id, RequestData(c)
    PROVE  IInv'
<1> DEFINE p == [sender |-> c, type |-> "request"]
<1>1. /\ at = "outside" /\ line[c] = "in" /\ line' = [line EXCEPT ![c] = "joining"]
      /\ m_aDelayedPackets' = Append(m_aDelayedPackets, p)
      /\ UNCHANGED <<alive, client, lists, events, lock, found, inbox, keys, game, fault>>
  BY DEF IInv, LockRight, RequestData, Free
<1>2. line \in [Id -> Line]
  BY DEF IInv, TypeOK
<1>3. /\ line'[c] = "joining" /\ \A d \in Id : d # c => line'[d] = line[d]
      /\ line' \in [Id -> Line]
  BY <1>1, <1>2 DEF Line
<1>4. SameRecords /\ SameLeaving /\ NoNewConfig /\ EventsStay
  BY <1>1 DEF SameRecords, SameLeaving, Leaving, NoNewConfig, EventsStay, lock
<1>5. told[c] = "nothing" /\ "config" \notin inbox[c] /\ Attached(c) /\ Named(c)
  BY <1>1 DEF IInv, StagesRight, ToldRight, Attached, Named
<1>6. p \in Packet /\ p.sender = c /\ p.type = "request"
  BY DEF Packet
<1> HIDE DEF p
<1>7. PacketsRight' /\ m_aDelayedPackets' \in Seq(Packet)
  <2>1. \A d \in Id : line'[d] = line[d] \/ (line[d] = "in" /\ line'[d] = "joining")
    <3>1. line[c] = "in"
      BY <1>1
    <3> QED
      BY <1>3, <3>1
  <2>2. Named(p.sender) /\ line[p.sender] = "in"
    BY <1>1, <1>5, <1>6
  <2> QED
    BY <1>1, <1>3, <1>4, <1>5, <1>6, <2>1, <2>2, PacketAdded DEF IInv, StagesRight, lock, game
<1>8. TypeOK'
  BY <1>1, <1>3, <1>7 DEF IInv, TypeOK, lists, lock, keys, game
<1>9. /\ \A d \in Id : (Attached(d)' <=> Attached(d)) /\ (Named(d)' <=> Named(d))
      /\ \A d \in Id : line'[d] \in Before <=> line[d] \in Before
      /\ \A d \in Id : \A x \in {"taken", "gone", "pushed", "update"} : line'[d] = x <=> line[d] = x
  BY <1>1, <1>3, <1>4 DEF Attached, Named, Before, SameLeaving
<1>10. ListsRight'
  BY <1>1, <1>9 DEF IInv, ListsRight, Record, lists
<1>11. IDsRight'
  <2>1. \A r \in Id : client[r].ID \in Id
    BY DEF IInv, TypeOK, Client
  <2>2. \A d \in Id : line'[d] \in {"out", "new"} => line[d] \in {"out", "new"}
    BY <1>1, <1>3
  <2> QED
    BY <1>1, <1>4, <1>9, <2>1, <2>2 DEF IInv, TypeOK, IDsRight, Record, SameLeaving
<1>12. LockRight'
  BY <1>1, <1>3 DEF IInv, TypeOK, LockRight, lock
<1>13. LeavingOff' /\ ServerClientThere' /\ DepartedIdle'
  BY <1>1, <1>4, LeavingFrame, ServerClientFrame, DepartedFrame DEF IInv, lists, lock
<1>14. EventsRight'
  <2>1. \A i \in DOMAIN events : events[i] \in Event
    BY DEF IInv, TypeOK
  <2>2. \A i \in DOMAIN events : events[i].id \in Id /\ events[i].type # "connected"
    BY <1>1, <2>1 DEF IInv, StagesRight, EventsRight, Event
  <2> QED
    BY <1>1, <1>9, <2>2 DEF IInv, StagesRight, EventsRight, game
<1>15. ToldRight'
  BY <1>1, <1>3, <1>5 DEF IInv, StagesRight, ToldRight, NewEvent, game, lock
<1>16. AvatarsRight'
  <2>1. client[Record(c)].owner = None
    BY <1>1 DEF IInv, StagesRight, AvatarsRight
  <2> QED
    BY <1>1, <1>3, <2>1 DEF IInv, StagesRight, AvatarsRight, NewEvent, game, Record
<1>17. ScoreRight'
  <2>1. ScoreKept'
    BY <1>1 DEF IInv, StagesRight, ScoreRight, ScoreKept, game
  <2> QED
    BY <1>1, <1>3, <2>1 DEF IInv, StagesRight, ScoreRight, game, Record
<1> QED
  BY <1>7, <1>8, <1>10, <1>11, <1>12, <1>13, <1>14, <1>15, <1>16, <1>17 DEF IInv, StagesRight

\* A command waits in the queue like a request, and changes nothing yet.
LEMMA SendCommandInd ==
    ASSUME IInv, NEW c \in Id, SendCommand(c)
    PROVE  IInv'
<1> DEFINE p == [sender |-> c, type |-> "command"]
<1>1. /\ at = "outside" /\ line[c] \in Linked
      /\ m_aDelayedPackets' = Append(m_aDelayedPackets, p)
      /\ UNCHANGED <<alive, client, lists, events, lock, wire, keys, game, fault>>
  BY DEF IInv, LockRight, SendCommand, Free
<1>2. SameRecords /\ SameLeaving /\ NoNewConfig /\ EventsStay
  BY <1>1 DEF SameRecords, SameLeaving, Leaving, NoNewConfig, EventsStay, lock, wire
<1>3. p \in Packet /\ p.sender = c /\ p.type # "request"
  BY DEF Packet
<1> HIDE DEF p
<1>4. Named(p.sender) /\ line[p.sender] # "update"
  BY <1>1, <1>3, LinkedNamed DEF Linked
<1>5. PacketsRight' /\ m_aDelayedPackets' \in Seq(Packet)
  <2>1. UNCHANGED <<at, told, inbox, fault>> /\ \A d \in Id : line'[d] = line[d]
    BY <1>1 DEF lock, wire, game
  <2>2. TypeOK /\ PacketsRight
    BY DEF IInv, StagesRight
  <2>3. m_aDelayedPackets' = Append(m_aDelayedPackets, p) /\ at = "outside"
    BY <1>1
  <2> QED
    BY <1>2, <1>3, <1>4, <2>1, <2>2, <2>3, PacketAdded
<1>6. TypeOK'
  BY <1>1, <1>5 DEF IInv, TypeOK, lists, lock, wire, keys, game
<1>7. ListsRight' /\ IDsRight' /\ LeavingOff' /\ ServerClientThere' /\ DepartedIdle'
  BY <1>1, <1>2, ListsFrame, IDsFrame, LeavingFrame, ServerClientFrame, DepartedFrame
     DEF IInv, lists, lock, wire
<1>8. LockRight'
  BY <1>1 DEF IInv, LockRight, lock, wire
<1>9. EventsRight' /\ ToldRight'
  BY <1>1 DEF IInv, StagesRight, EventsRight, ToldRight, NewEvent, lock, wire, game
<1>10. AvatarsRight' /\ ScoreRight'
  BY <1>1, <1>2, AvatarsFrame, ScoreFrame DEF IInv, StagesRight, wire, game
<1> QED
  BY <1>5, <1>6, <1>7, <1>8, <1>9, <1>10 DEF IInv, StagesRight

\* Who is ready has been told so once, and starts to play: neither queue knows
\* anything of him that could come later.
LEMMA ClientReadyInd ==
    ASSUME IInv, NEW c \in Id, ClientReady(c)
    PROVE  IInv'
<1> DEFINE r == Record(c)
<1>1. /\ holder = None /\ at = "outside" /\ line[c] \in Linked /\ "config" \in inbox[c]
      /\ inbox' = [inbox EXCEPT ![c] = @ \ {"config"}]
      /\ told' = [told EXCEPT ![c] = "playing"]
      /\ UNCHANGED <<alive, lists, queues, lock, line, found, keys, fault>>
  BY DEF IInv, LockRight, ClientReady, Free
<1>2. Attached(c) /\ Named(c) /\ ID_to_client(c) = {r} /\ r \in net_Players /\ r \in Id
  <2>1. Attached(c) /\ Named(c)
    BY <1>1, LinkedNamed
  <2> QED
    BY <2>1, OwnRecord DEF IInv, TypeOK, ListsRight
<1>3. /\ client' = [client EXCEPT ![r] = [@ EXCEPT !.net_Ready = TRUE, !.owner = c, !.GameID = c,
                                               !.score = client[r].score \union {c}]]
      /\ avatar' = [avatar EXCEPT ![c] = [exists |-> TRUE, owner |-> r]]
  BY <1>2 DEF ClientReady
<1>4. line[c] = "joining" /\ told[c] = "joined"
  BY <1>1 DEF IInv, StagesRight, ToldRight, EventsRight, NewEvent
<1>5. /\ \A x \in Id : client[x] \in Client
      /\ client \in [Id -> Client] /\ told \in [Id -> {"nothing", "joined", "playing", "left"}]
      /\ inbox \in [Id -> SUBSET Answer] /\ avatar \in [Id -> Avatar]
  BY DEF IInv, TypeOK
<1>6. /\ client' \in [Id -> Client]
      /\ \A x \in Id : x # r => client'[x] = client[x]
      /\ client'[r].ID = client[r].ID /\ client'[r].bConnected = client[r].bConnected
      /\ client'[r].bLocal = client[r].bLocal /\ client'[r].bReconnect = client[r].bReconnect
      /\ client'[r].owner = c /\ client'[r].GameID = c /\ client'[r].score = client[r].score \union {c}
  <2>1. DOMAIN client' = Id /\ \A x \in Id : x # r => client'[x] = client[x]
    BY <1>2, <1>3, <1>5
  <2>2. client[r] \in Client /\ client[r].score \union {c} \in SUBSET Id
    BY <1>2, <1>5 DEF Client
  <2>3. client'[r] = [client[r] EXCEPT !.net_Ready = TRUE, !.owner = c, !.GameID = c,
                                         !.score = client[r].score \union {c}]
    BY <1>2, <1>3, <1>5
  <2>4. client'[r] \in Client
    BY <2>2, <2>3 DEF Client
  <2> QED
    BY <1>2, <1>3, <1>5, <2>1, <2>2, <2>3, <2>4 DEF Client
<1>7. /\ told' \in [Id -> {"nothing", "joined", "playing", "left"}]
      /\ told'[c] = "playing" /\ \A d \in Id : d # c => told'[d] = told[d]
      /\ inbox' \in [Id -> SUBSET Answer]
      /\ avatar' \in [Id -> Avatar]
      /\ avatar'[c].exists /\ \A d \in Id : d # c => avatar'[d] = avatar[d]
  <2>1. avatar' \in [Id -> Avatar] /\ avatar'[c].exists /\ \A d \in Id : d # c => avatar'[d] = avatar[d]
    BY <1>2, <1>3, <1>5 DEF Avatar
  <2> QED
    BY <1>1, <1>5, <2>1
<1>8. SameRecords /\ SameLeaving /\ NoNewConfig /\ EventsStay
  BY <1>1, <1>5 DEF SameRecords, SameLeaving, Leaving, NoNewConfig, EventsStay, lock, queues
<1>9. TypeOK'
  BY <1>1, <1>6, <1>7 DEF IInv, TypeOK, lists, queues, lock, keys
<1>10. ListsRight' /\ IDsRight' /\ LockRight' /\ LeavingOff' /\ ServerClientThere'
  BY <1>1, <1>6, <1>8, ListsFrame, IDsFrame, LockFrame, LeavingFrame, ServerClientFrame
     DEF IInv, lists, queues, lock
<1>11. DepartedIdle'
  <2>1. \A i \in DOMAIN net_Players_disconnected : net_Players_disconnected[i] \in Id
    BY DEF IInv, TypeOK
  <2> QED
    BY <1>1, <1>2, <1>6, <2>1 DEF IInv, DepartedIdle, lists
<1>12. PacketsRight'
  <2>1. \A i \in DOMAIN m_aDelayedPackets : m_aDelayedPackets[i] \in Packet
    BY DEF IInv, TypeOK
  <2>2. \A i \in DOMAIN m_aDelayedPackets : m_aDelayedPackets[i].sender \in Id
    BY <2>1 DEF Packet
  <2>3. \A i \in DOMAIN m_aDelayedPackets : m_aDelayedPackets[i].type = "request" => m_aDelayedPackets[i].sender # c
    BY <1>1, <1>4 DEF IInv, StagesRight, PacketsRight
  <2>4. \A d \in Id : Named(d)' <=> Named(d)
    BY <1>1, <1>8 DEF Named, Attached, SameLeaving
  <2> QED
    BY <1>1, <1>7, <1>8, <2>2, <2>3, <2>4 DEF IInv, StagesRight, PacketsRight, NoNewConfig, queues, lock
<1>13. EventsRight'
  <2>1. \A i \in DOMAIN events : events[i] \in Event
    BY DEF IInv, TypeOK
  <2>2. \A i \in DOMAIN events : events[i].id \in Id /\ events[i].type # "connected"
    BY <1>1, <2>1 DEF IInv, StagesRight, EventsRight, Event
  <2>3. \A i \in DOMAIN events : events[i].type = "disconnected" => events[i].id # c
    BY <1>4 DEF IInv, StagesRight, EventsRight
  <2> QED
    BY <1>1, <1>7, <2>2, <2>3 DEF IInv, StagesRight, EventsRight, queues, lock
<1>14. ToldRight'
  BY <1>1, <1>4, <1>5, <1>7, <1>8 DEF IInv, StagesRight, ToldRight, NoNewConfig, NewEvent, queues, lock
<1>15. \A d \in Id : d # c /\ (Attached(d) \/ line[d] = "taken") => Record(d) # r /\ Record(d) \in Id
  BY <1>2 DEF IInv, ListsRight, TypeOK, Record
<1>16. AvatarsRight'
  <2> SUFFICES ASSUME NEW d \in Id
               PROVE  /\ avatar'[d].exists =>
                            \/ told'[d] = "left"
                            \/ line'[d] = "joining" /\ client'[Record(d)].owner = d
                            \/ \E i \in DOMAIN events' : events'[i] = NewEvent("disconnected", d, d)
                      /\ line'[d] \in {"taken", "pushed", "update", "in"} => client'[Record(d)].owner = None
                      /\ line'[d] = "joining" /\ client'[Record(d)].owner # None =>
                            client'[Record(d)].owner = d /\ client'[Record(d)].GameID = d /\ told'[d] = "playing"
    BY <1>1 DEF AvatarsRight, Record, NewEvent
  <2>1. CASE d = c
    BY <2>1, <1>1, <1>4, <1>6, <1>7
  <2>2. CASE d # c
    <3>1. line[d] \in {"taken", "pushed", "update", "in", "joining"} =>
             client'[Record(d)] = client[Record(d)]
      BY <2>2, <1>6, <1>15 DEF Attached
    <3> QED
      BY <2>2, <3>1, <1>1, <1>7 DEF IInv, StagesRight, AvatarsRight, queues
  <2> QED
    BY <2>1, <2>2
<1>17. ScoreRight'
  <2>1. alive \subseteq Id /\ \A d \in Id : Record(d) \in Id
    BY DEF IInv, TypeOK, Record
  <2>2. ASSUME NEW x \in alive
        PROVE  client'[x].score = {d \in Id : Record(d) = x /\ told'[d] \in {"playing", "left"}}
    <3>1. client[x].score = {d \in Id : Record(d) = x /\ told[d] \in {"playing", "left"}}
      BY DEF IInv, StagesRight, ScoreRight, ScoreKept, Record
    <3>2. CASE x = r
      BY <3>1, <3>2, <1>6, <1>7
    <3>3. CASE x # r
      BY <3>1, <3>3, <1>6, <1>7, <2>1
    <3> QED
      BY <3>2, <3>3
  <2>3. ScoreKept'
    BY <1>1, <2>2 DEF ScoreKept, Record
  <2>4. \A x \in Id : client'[x].bReconnect = client[x].bReconnect
    BY <1>6
  <2> QED
    BY <1>1, <2>1, <2>3, <2>4 DEF IInv, StagesRight, ScoreRight, Record
<1> QED
  BY <1>9, <1>10, <1>11, <1>12, <1>13, <1>14, <1>16, <1>17 DEF IInv, StagesRight

-----------------------------------------------------------------------------
(* A connection comes.                                                     *)

\* The types the steps of a connection need.
LEMMA ConnectionTypes ==
    ASSUME IInv
    PROVE  /\ line \in [Id -> Line] /\ client \in [Id -> Client]
           /\ found \in [Id -> [cl : Id, index : Nat]]
           /\ \A d \in Id : Record(d) \in Id /\ Record(d) = found[d].cl
           /\ \A d \in Id : client[d].ID \in Id
           /\ alive \subseteq Id /\ net_Players \subseteq alive
           /\ net_Players_disconnected \in Seq(Id)
           /\ \A i \in DOMAIN net_Players_disconnected : net_Players_disconnected[i] \in Id
           /\ events \in Seq(Event)
<1>1. /\ line \in [Id -> Line] /\ client \in [Id -> Client]
      /\ found \in [Id -> [cl : Id, index : Nat]]
      /\ alive \subseteq Id /\ net_Players \subseteq alive
      /\ net_Players_disconnected \in Seq(Id) /\ events \in Seq(Event)
  BY DEF IInv, TypeOK, ListsRight
<1>2. \A d \in Id : Record(d) \in Id /\ Record(d) = found[d].cl
  BY <1>1 DEF Record
<1>3. \A d \in Id : client[d].ID \in Id
  BY <1>1 DEF Client
<1>4. \A i \in DOMAIN net_Players_disconnected : net_Players_disconnected[i] \in Id
  BY <1>1
<1> QED
  BY <1>1, <1>2, <1>3, <1>4

\* A record that waits for its client to return is the record of a connection
\* that is gone, and so is every connection that used it.
LEMMA DepartedGone ==
    ASSUME IInv, NEW i \in DOMAIN net_Players_disconnected
    PROVE  LET r == net_Players_disconnected[i] IN
           /\ r \in Id /\ r \in alive /\ r \notin net_Players
           /\ line[r] = "gone" /\ ~Leaving(r)
           /\ \A d \in Id : Attached(d) \/ line[d] = "taken" => Record(d) # r
<1> DEFINE r == net_Players_disconnected[i]
<1>1. r \in Id /\ r \in alive /\ r \notin net_Players
  BY ConnectionTypes DEF IInv, DepartedIdle
<1>2. \A d \in Id : Attached(d) \/ line[d] = "taken" => Record(d) # r
  BY <1>1 DEF IInv, ListsRight
<1>3. Record(r) = r /\ line[r] \notin Before /\ line[r] \in Line
  BY <1>1, ConnectionTypes DEF IInv, IDsRight
<1> QED
  BY <1>1, <1>2, <1>3 DEF Before, Line, Attached

\* Whoever has not come yet is known to nobody.
LEMMA NewcomerUnknown ==
    ASSUME IInv, NEW c \in Id, line[c] \in Before \ {"taken"}
    PROVE  /\ c \notin alive /\ c \notin net_Players /\ ~Attached(c) /\ ~Leaving(c)
           /\ told[c] = "nothing" /\ ~avatar[c].exists
           /\ \A d \in Id : d # c => Record(d) # c
           /\ \A r \in alive : client[r].ID # c
           /\ \A i \in DOMAIN net_Players_disconnected : net_Players_disconnected[i] # c
           /\ \A i \in DOMAIN m_aDelayedPackets : m_aDelayedPackets[i].sender # c
<1>1. c \notin alive /\ c \notin net_Players /\ \A r \in alive : client[r].ID # c
  BY ConnectionTypes DEF IInv, IDsRight
<1>2. ~Leaving(c) /\ ~Attached(c)
  BY DEF IInv, LockRight, Leaving, Attached, Before
<1>3. told[c] = "nothing"
  BY DEF IInv, StagesRight, ToldRight, Before
<1>4. ~avatar[c].exists
  BY <1>3 DEF IInv, StagesRight, AvatarsRight, EventsRight, NewEvent, Before
<1>5. \A d \in Id : d # c => Record(d) # c
  BY DEF IInv, IDsRight, Before
<1>6. \A i \in DOMAIN net_Players_disconnected : net_Players_disconnected[i] # c
  BY <1>1, DepartedGone
<1>7. \A i \in DOMAIN m_aDelayedPackets : m_aDelayedPackets[i].sender # c
  BY <1>2 DEF IInv, StagesRight, PacketsRight, Named
<1> QED
  BY <1>1, <1>2, <1>3, <1>4, <1>5, <1>6, <1>7

\* client_Find_Get: whatever it returns, others may use the record before the
\* turn is over.
LEMMA FindClientInd ==
    ASSUME IInv, NEW c \in Id, FindClient(c)
    PROVE  IInv'
<1>1. /\ line[c] = "out"
      /\ UNCHANGED <<alive, client, lists, queues, lock, inbox, keys, game, fault>>
  BY DEF FindClient
<1>2. PICK l \in {"new", "found"}, f \in [cl : Id, index : Nat] :
         /\ line' = [line EXCEPT ![c] = l] /\ found' = [found EXCEPT ![c] = f]
         /\ l = "new" => f.cl = c
         /\ l = "found" => /\ f.index \in DOMAIN net_Players_disconnected
                           /\ f.cl = net_Players_disconnected[f.index]
  <2>1. CASE Returned(c) = {}
    <3>1. [cl |-> c, index |-> 0] \in [cl : Id, index : Nat]
      OBVIOUS
    <3> QED
      BY <2>1, <3>1 DEF FindClient
  <2>2. CASE Returned(c) # {}
    <3>1. PICK i \in Returned(c) :
             /\ line' = [line EXCEPT ![c] = "found"]
             /\ found' = [found EXCEPT ![c] = [cl |-> net_Players_disconnected[i], index |-> i]]
      BY <2>2 DEF FindClient
    <3>2. i \in DOMAIN net_Players_disconnected /\ net_Players_disconnected[i] \in Id /\ i \in Nat
      BY <3>1, ConnectionTypes DEF Returned
    <3>3. [cl |-> net_Players_disconnected[i], index |-> i] \in [cl : Id, index : Nat]
      BY <3>2
    <3> QED
      BY <3>1, <3>2, <3>3
  <2> QED
    BY <2>1, <2>2
<1>3. /\ line' \in [Id -> Line] /\ line'[c] = l /\ \A d \in Id : d # c => line'[d] = line[d]
      /\ found' \in [Id -> [cl : Id, index : Nat]] /\ found'[c] = f
      /\ \A d \in Id : d # c => found'[d] = found[d]
      /\ \A d \in Id : d # c => Record(d)' = Record(d)
      /\ Record(c)' = f.cl
  BY <1>2, ConnectionTypes DEF Line, Record
<1>4. /\ c \notin alive /\ ~Attached(c) /\ ~Leaving(c) /\ told[c] = "nothing" /\ ~avatar[c].exists
      /\ \A d \in Id : d # c => Record(d) # c
      /\ \A r \in alive : client[r].ID # c
      /\ \A i \in DOMAIN m_aDelayedPackets : m_aDelayedPackets[i].sender # c
  BY <1>1, NewcomerUnknown DEF Before
<1>5. SameLeaving /\ NoNewConfig /\ EventsStay
  BY <1>1 DEF SameLeaving, Leaving, NoNewConfig, EventsStay, lock, queues
<1>6. \A d \in Id : (Attached(d)' <=> Attached(d)) /\ (Named(d)' <=> Named(d))
  BY <1>1, <1>2, <1>3, <1>5 DEF Attached, Named, SameLeaving
<1>7. TypeOK'
  BY <1>1, <1>3 DEF IInv, TypeOK, lists, queues, lock, keys, game
<1>8. ListsRight'
  <2>1. \A d \in Id : line'[d] = "taken" => d # c /\ line[d] = "taken"
    BY <1>2, <1>3
  <2>2. \A d \in Id : Attached(d) => d # c
    BY <1>4
  <2> QED
    BY <1>1, <1>3, <1>6, <2>1, <2>2 DEF IInv, ListsRight, lists
<1>9. IDsRight'
  <2>1. \A d \in Id : Named(d)' => client'[Record(d)'].ID = d
    BY <1>1, <1>3, <1>4, <1>6 DEF IInv, IDsRight, Named
  <2>2. \A r \in alive' : /\ line'[r] \notin Before /\ Record(r)' = r
                          /\ line'[client'[r].ID] \notin Before /\ Record(client[r].ID)' = r
    BY <1>1, <1>3, <1>4, ConnectionTypes DEF IInv, IDsRight
  <2>3. \A d \in Id : line'[d] \in {"out", "new"} => Record(d)' = d
    BY <1>2, <1>3 DEF IInv, IDsRight
  <2>4. \A d, e \in Id : Record(e)' = d /\ d # e => line'[d] = "gone" /\ ~Leaving(d)'
    <3> SUFFICES ASSUME NEW d \in Id, NEW e \in Id, Record(e)' = d, d # e
                 PROVE  line'[d] = "gone" /\ ~Leaving(d)'
      OBVIOUS
    <3>1. CASE e = c
      <4>1. f.index \in DOMAIN net_Players_disconnected /\ d = net_Players_disconnected[f.index]
        BY <3>1, <1>2, <1>3
      <4>2. line[d] = "gone" /\ ~Leaving(d)
        BY <4>1, DepartedGone
      <4> QED
        BY <3>1, <4>2, <1>3, <1>5 DEF SameLeaving
    <3>2. CASE e # c
      <4>1. Record(e) = d /\ d # c
        BY <3>2, <1>3, <1>4
      <4> QED
        BY <4>1, <1>3, <1>5 DEF IInv, IDsRight, SameLeaving
    <3> QED
      BY <3>1, <3>2
  <2> QED
    BY <1>1, <2>1, <2>2, <2>3, <2>4 DEF IDsRight
<1>10. LockRight'
  <2>1. at = "leaving" => holder \in Id /\ holder # c /\ line[holder] = "gone"
    BY <1>4 DEF IInv, LockRight, Leaving
  <2>2. at \notin {"outside", "leaving"} => holder = Main \/ (holder # c /\ line[holder] = "update")
    BY <1>1 DEF IInv, LockRight
  <2>3. holder = Main \/ holder = None \/ holder \in Id
    BY DEF IInv, TypeOK
  <2> QED
    BY <1>1, <1>3, <2>1, <2>2, <2>3, IdAssumption DEF IInv, LockRight, lock, queues
<1>11. LeavingOff'
  <2>1. at = "leaving" => holder \in Id /\ holder # c
    BY <1>4 DEF IInv, LockRight, Leaving
  <2> QED
    BY <1>1, <1>3, <2>1 DEF IInv, LeavingOff, lock, lists
<1>12. ServerClientThere' /\ DepartedIdle'
  BY <1>1, ServerClientFrame, DepartedFrame DEF IInv, lists
<1>13. PacketsRight'
  <2>1. \A i \in DOMAIN m_aDelayedPackets : m_aDelayedPackets[i] \in Packet
    BY DEF IInv, TypeOK
  <2>2. \A i \in DOMAIN m_aDelayedPackets : m_aDelayedPackets[i].sender \in Id
    BY <2>1 DEF Packet
  <2> QED
    BY <1>1, <1>3, <1>4, <1>6, <2>2 DEF IInv, StagesRight, PacketsRight, queues, lock, game
<1>14. EventsRight'
  <2>1. \A i \in DOMAIN events : events[i] \in Event
    BY ConnectionTypes
  <2>2. \A i \in DOMAIN events : events[i].id \in Id
    BY <2>1 DEF Event
  <2> QED
    BY <1>1, <1>3, <2>2 DEF IInv, StagesRight, EventsRight, queues, lock, game
<1>15. ToldRight'
  BY <1>1, <1>3, <1>4 DEF IInv, StagesRight, ToldRight, NewEvent, queues, lock, game
<1>16. AvatarsRight'
  BY <1>1, <1>2, <1>3, <1>4 DEF IInv, StagesRight, AvatarsRight, NewEvent, queues, game
<1>17. ScoreRight'
  <2>1. ScoreKept'
    <3>1. \A r \in alive : client[r].score = {d \in Id : Record(d) = r /\ told[d] \in {"playing", "left"}}
      BY DEF IInv, StagesRight, ScoreRight, ScoreKept, Record
    <3>2. \A r \in alive : client'[r].score = {d \in Id : Record(d)' = r /\ told'[d] \in {"playing", "left"}}
      BY <1>1, <1>3, <1>4, <3>1 DEF game
    <3> QED
      BY <1>1, <3>2 DEF ScoreKept, Record
  <2> QED
    BY <1>1, <1>2, <1>3, <2>1 DEF IInv, StagesRight, ScoreRight
<1> QED
  BY <1>7, <1>8, <1>9, <1>10, <1>11, <1>12, <1>13, <1>14, <1>15, <1>16, <1>17 DEF IInv, StagesRight

\* A stop that is not the assertion in OnDelayedMessage leaves everything else.
LEMMA FailsInd ==
    ASSUME IInv, NEW why \in {"null", "freed", "moved"}, Fails(why)
    PROVE  IInv'
<1>1. UNCHANGED <<alive, client, lists, queues, lock, wire, keys, game>> /\ fault' = why
  BY DEF Fails
<1>2. SameRecords /\ SameLeaving /\ NoNewConfig /\ EventsStay
  BY <1>1 DEF SameRecords, SameLeaving, Leaving, NoNewConfig, EventsStay, lock, wire, queues
<1>3. TypeOK'
  BY <1>1 DEF IInv, TypeOK, lists, queues, lock, wire, keys, game
<1>4. ListsRight' /\ IDsRight' /\ LockRight' /\ LeavingOff' /\ ServerClientThere' /\ DepartedIdle'
  BY <1>1, <1>2, ListsFrame, IDsFrame, LockFrame, LeavingFrame, ServerClientFrame, DepartedFrame
     DEF IInv, lists, queues, lock, wire
<1>5. PacketsRight' /\ EventsRight' /\ ToldRight'
  BY <1>1, <1>2, PacketsFrame, EventsFrame, ToldFrame DEF IInv, StagesRight, queues, lock, wire, game
<1>6. AvatarsRight' /\ ScoreRight'
  BY <1>1, <1>2, AvatarsFrame, ScoreFrame DEF IInv, StagesRight, wire, game
<1> QED
  BY <1>3, <1>4, <1>5, <1>6 DEF IInv, StagesRight

\* The turn of the loop that takes the record out of the list.
LEMMA TakeClientInd ==
    ASSUME IInv, NEW c \in Id, TakeClient(c)
    PROVE  IInv'
<1> DEFINE k == found[c].index
           r == Record(c)
<1>1. line[c] = "found" /\ r = found[c].cl
  BY DEF TakeClient, Record
<1>2. CASE ~(k \in DOMAIN net_Players_disconnected /\ net_Players_disconnected[k] = found[c].cl)
  <2>1. Fails("moved")
    BY <1>2 DEF TakeClient
  <2> QED
    BY <2>1, FailsInd
<1>3. CASE k \in DOMAIN net_Players_disconnected /\ net_Players_disconnected[k] = found[c].cl
  <2>1. /\ net_Players_disconnected' = RemoveAt(net_Players_disconnected, k)
        /\ client' = [client EXCEPT ![r].bReconnect = TRUE]
        /\ line' = [line EXCEPT ![c] = "taken"]
        /\ UNCHANGED <<alive, net_Players, SV_Client, queues, lock, found, inbox, keys, game, fault>>
    BY <1>1, <1>3 DEF TakeClient
  <2>2. /\ r = net_Players_disconnected[k]
        /\ r \in Id /\ r \in alive /\ r \notin net_Players
        /\ line[r] = "gone" /\ ~Leaving(r)
        /\ \A d \in Id : Attached(d) \/ line[d] = "taken" => Record(d) # r
    BY <1>1, <1>3, DepartedGone
  <2>3. r # c
    BY <1>1, <2>2
  <2>4. /\ line' \in [Id -> Line] /\ line'[c] = "taken" /\ \A d \in Id : d # c => line'[d] = line[d]
        /\ client' \in [Id -> Client]
        /\ \A x \in Id : x # r => client'[x] = client[x]
        /\ client'[r] = [client[r] EXCEPT !.bReconnect = TRUE]
    <3>1. client \in [Id -> Client] /\ client[r] \in Client /\ line \in [Id -> Line]
      BY <2>2, ConnectionTypes
    <3>2. [client[r] EXCEPT !.bReconnect = TRUE] \in Client
      BY <3>1 DEF Client
    <3>3. "taken" \in Line
      BY DEF Line
    <3> QED
      BY <2>1, <2>2, <3>1, <3>2, <3>3
  <2>5. /\ client'[r].bReconnect
        /\ \A x \in Id : /\ client'[x].ID = client[x].ID /\ client'[x].bConnected = client[x].bConnected
                         /\ client'[x].bLocal = client[x].bLocal /\ client'[x].net_Ready = client[x].net_Ready
                         /\ client'[x].owner = client[x].owner /\ client'[x].GameID = client[x].GameID
                         /\ client'[x].score = client[x].score
    <3>1. client[r] \in Client
      BY <2>2, ConnectionTypes
    <3> QED
      BY <2>4, <3>1 DEF Client
  <2>6. /\ net_Players_disconnected' \in Seq(Id)
        /\ Len(net_Players_disconnected) \in Nat
        /\ DOMAIN net_Players_disconnected = 1..Len(net_Players_disconnected)
        /\ DOMAIN net_Players_disconnected' = 1..(Len(net_Players_disconnected) - 1)
        /\ \A i \in 1..(Len(net_Players_disconnected) - 1) :
              net_Players_disconnected'[i] = IF i < k THEN net_Players_disconnected[i]
                                             ELSE net_Players_disconnected[i + 1]
    BY <1>3, <2>1, RemoveAtProps, ConnectionTypes
  <2>7. k \in Nat
    BY <1>3, <2>6
  <2> HIDE DEF k
  <2> DEFINE old(i) == IF i < k THEN i ELSE i + 1
  <2>8. /\ \A i \in DOMAIN net_Players_disconnected' :
              /\ old(i) \in DOMAIN net_Players_disconnected /\ old(i) # k
              /\ net_Players_disconnected'[i] = net_Players_disconnected[old(i)]
        /\ \A i, j \in DOMAIN net_Players_disconnected' : old(i) = old(j) => i = j
    BY <2>6, <2>7
  <2> HIDE DEF old
  <2>9. \A i \in DOMAIN net_Players_disconnected' : net_Players_disconnected'[i] # r
    BY <1>3, <2>2, <2>8 DEF IInv, DepartedIdle, k
  <2>10. SameRecords /\ SameLeaving /\ NoNewConfig /\ EventsStay
    BY <2>1 DEF SameRecords, SameLeaving, Leaving, NoNewConfig, EventsStay, lock, queues
  <2>11. ~Attached(c) /\ ~Leaving(c) /\ told[c] = "nothing" /\ ~avatar[c].exists /\ c \notin alive
         /\ \A d \in Id : d # c => Record(d) # c
    BY <1>1, NewcomerUnknown DEF Before
  <2>12. \A d \in Id : (Attached(d)' <=> Attached(d)) /\ (Named(d)' <=> Named(d)) /\ Record(d)' = Record(d)
    BY <1>1, <2>1, <2>4, <2>10, <2>11 DEF Attached, Named, SameLeaving, Record
  <2>13. TypeOK'
    BY <2>1, <2>4, <2>6 DEF IInv, TypeOK, queues, lock, keys, game
  <2>14. ListsRight'
    <3>1. \A d \in Id : line'[d] = "taken" =>
             /\ Record(d) \in alive \ net_Players
             /\ \A i \in DOMAIN net_Players_disconnected' : net_Players_disconnected'[i] # Record(d)
             /\ \A e \in Id : line'[e] = "taken" /\ Record(e) = Record(d) => d = e
      <4>1. \A i \in DOMAIN net_Players_disconnected' :
               \E j \in DOMAIN net_Players_disconnected : net_Players_disconnected'[i] = net_Players_disconnected[j]
        BY <2>8
      <4>2. \A d \in Id : line'[d] = "taken" /\ d # c => line[d] = "taken" /\ Record(d) # r
        BY <2>2, <2>4
      <4> QED
        BY <2>2, <2>9, <4>1, <4>2 DEF IInv, ListsRight
    <3> QED
      BY <2>1, <2>12, <3>1 DEF IInv, ListsRight
  <2>15. IDsRight'
    <3>1. \A d \in Id : line'[d] \in Before <=> line[d] \in Before
      BY <1>1, <2>4 DEF Before
    <3>2. \A d \in Id : line'[d] \in {"out", "new"} => line[d] \in {"out", "new"}
      BY <2>4
    <3>3. \A d \in Id : line[d] = "gone" => line'[d] = "gone"
      BY <1>1, <2>4
    <3> QED
      BY <2>1, <2>5, <2>10, <2>12, <3>1, <3>2, <3>3, ConnectionTypes DEF IInv, IDsRight, SameLeaving
  <2>16. LockRight'
    <3>1. at = "leaving" => holder \in Id /\ holder # c /\ line[holder] = "gone"
      BY <1>1 DEF IInv, LockRight
    <3>2. at \notin {"outside", "leaving"} => holder = Main \/ (holder # c /\ line[holder] = "update")
      BY <1>1 DEF IInv, LockRight
    <3>3. holder = Main \/ holder = None \/ holder \in Id
      BY DEF IInv, TypeOK
    <3> QED
      BY <2>1, <2>4, <3>1, <3>2, <3>3, IdAssumption DEF IInv, LockRight, lock, queues
  <2>17. LeavingOff' /\ ServerClientThere'
    BY <2>1, <2>5, <2>10, LeavingFrame, ServerClientFrame DEF IInv, lock
  <2>18. DepartedIdle'
    <3> SUFFICES ASSUME NEW i \in DOMAIN net_Players_disconnected'
                 PROVE  LET x == net_Players_disconnected'[i] IN
                        /\ x \in alive \ net_Players
                        /\ \A j \in DOMAIN net_Players_disconnected' : net_Players_disconnected'[j] = x => i = j
                        /\ ~client'[x].bConnected /\ ~client'[x].net_Ready /\ client'[x].owner = None
      BY <2>1 DEF DepartedIdle
    <3>1. PICK j \in DOMAIN net_Players_disconnected :
             j = old(i) /\ net_Players_disconnected'[i] = net_Players_disconnected[j]
      BY <2>8
    <3>2. net_Players_disconnected[j] \in Id
      BY ConnectionTypes
    <3>3. \A n \in DOMAIN net_Players_disconnected' :
             net_Players_disconnected'[n] = net_Players_disconnected[j] => i = n
      <4>1. \A n \in DOMAIN net_Players_disconnected' :
               net_Players_disconnected'[n] = net_Players_disconnected[j] => old(n) = j
        BY <2>8 DEF IInv, DepartedIdle
      <4> QED
        BY <2>8, <3>1, <4>1
    <3> QED
      BY <2>5, <3>1, <3>2, <3>3 DEF IInv, DepartedIdle
  <2>19. PacketsRight'
    <3>1. \A i \in DOMAIN m_aDelayedPackets : m_aDelayedPackets[i] \in Packet
      BY DEF IInv, TypeOK
    <3>2. \A i \in DOMAIN m_aDelayedPackets : m_aDelayedPackets[i].sender \in Id /\ m_aDelayedPackets[i].sender # c
      BY <3>1, <2>11 DEF IInv, StagesRight, PacketsRight, Named, Packet
    <3> QED
      BY <2>1, <2>4, <2>12, <3>2 DEF IInv, StagesRight, PacketsRight, queues, lock, game
  <2>20. EventsRight'
    <3>1. \A i \in DOMAIN events : events[i] \in Event
      BY ConnectionTypes
    <3>2. \A i \in DOMAIN events : events[i].id \in Id
      BY <3>1 DEF Event
    <3> QED
      BY <1>1, <2>1, <2>4, <3>2 DEF IInv, StagesRight, EventsRight, queues, lock, game
  <2>21. ToldRight'
    <3>1. UNCHANGED <<told, at, inbox, events, m_aDelayedPackets>>
      BY <2>1 DEF queues, lock, game
    <3>2. ToldRight
      BY DEF IInv, StagesRight
    <3> QED
      BY <1>1, <2>4, <2>11, <3>1, <3>2 DEF ToldRight, NewEvent
  <2>22. AvatarsRight'
    <3>1. client[r].owner = None
      BY <1>3, <2>2 DEF IInv, DepartedIdle
    <3>2. UNCHANGED <<told, avatar, events>> /\ \A d \in Id : Record(d) \in Id
      BY <2>1, ConnectionTypes DEF queues, game
    <3>3. AvatarsRight
      BY DEF IInv, StagesRight
    <3> QED
      BY <2>4, <2>5, <2>11, <2>12, <3>1, <3>2, <3>3 DEF AvatarsRight, NewEvent
  <2>23. ScoreRight'
    <3>1. ScoreKept'
      <4>1. ScoreKept /\ UNCHANGED <<alive, found, told>>
        BY <2>1 DEF IInv, StagesRight, ScoreRight, game
      <4>2. \A x \in alive : client'[x].score = client[x].score
        BY <2>5, ConnectionTypes
      <4> QED
        BY <4>1, <4>2 DEF ScoreKept
    <3>2. ASSUME NEW d \in Id, line'[d] \in {"taken", "pushed", "update", "in", "joining"}
          PROVE  client'[Record(d)].bReconnect = (Record(d) # d)
      <4>1. CASE d = c
        BY <4>1, <2>3, <2>5, ConnectionTypes, <2>4 DEF Client
      <4>2. CASE d # c
        <5>1. Record(d) # r /\ Record(d) \in Id
          BY <3>2, <4>2, <2>2, <2>4, ConnectionTypes DEF Attached
        <5> QED
          BY <3>2, <4>2, <5>1, <2>4 DEF IInv, StagesRight, ScoreRight
      <4> QED
        BY <4>1, <4>2
    <3> QED
      BY <2>12, <3>1, <3>2 DEF ScoreRight
  <2> QED
    BY <2>13, <2>14, <2>15, <2>16, <2>17, <2>18, <2>19, <2>20, <2>21, <2>22, <2>23 DEF IInv, StagesRight
<1> QED
  BY <1>2, <1>3

\* A record, old or new, is a player again.
LEMMA PushClientInd ==
    ASSUME IInv, NEW c \in Id, PushClient(c)
    PROVE  IInv'
<1> DEFINE r == Record(c)
<1>1. /\ holder = None /\ at = "outside" /\ line[c] \in {"new", "taken"}
      /\ net_Players' = net_Players \union {r} /\ alive' = alive \union {r}
      /\ client' = IF line[c] = "new" THEN [client EXCEPT ![c] = FreshClient(c)] ELSE client
      /\ line' = [line EXCEPT ![c] = "pushed"]
      /\ UNCHANGED <<net_Players_disconnected, SV_Client, queues, lock, found, inbox, keys, game, fault>>
  BY DEF IInv, LockRight, PushClient, Free, Record
<1>2. CASE line[c] = "new"
  <2>1. r = c
    BY <1>2 DEF IInv, IDsRight
  <2>2. /\ c \notin alive /\ c \notin net_Players /\ ~Attached(c) /\ ~Leaving(c)
        /\ told[c] = "nothing" /\ ~avatar[c].exists
        /\ \A d \in Id : d # c => Record(d) # c
        /\ \A x \in alive : client[x].ID # c
        /\ \A i \in DOMAIN net_Players_disconnected : net_Players_disconnected[i] # c
        /\ \A i \in DOMAIN m_aDelayedPackets : m_aDelayedPackets[i].sender # c
    BY <1>2, NewcomerUnknown DEF Before
  <2>3. r \in Id /\ r \notin net_Players /\ (r \in alive => line[c] = "taken")
    BY <1>2, <2>1, <2>2
  <2>4. /\ FreshClient(c) \in Client
        /\ FreshClient(c).ID = c /\ FreshClient(c).owner = None /\ FreshClient(c).score = {}
        /\ FreshClient(c).bReconnect = FALSE
    BY DEF FreshClient, Client
  <2>5. /\ client' \in [Id -> Client] /\ client'[c] = FreshClient(c)
        /\ \A x \in Id : x # c => client'[x] = client[x]
    BY <1>1, <1>2, <2>4, ConnectionTypes
  <2>6. /\ line' \in [Id -> Line] /\ line'[c] = "pushed" /\ \A d \in Id : d # c => line'[d] = line[d]
    BY <1>1, ConnectionTypes DEF Line
  <2>7. SameRecords /\ SameLeaving /\ NoNewConfig /\ EventsStay
    BY <1>1 DEF SameRecords, SameLeaving, Leaving, NoNewConfig, EventsStay, lock, queues
  <2>8. /\ \A d \in Id : Record(d)' = Record(d)
        /\ \A d \in Id : d # c => (Attached(d)' <=> Attached(d)) /\ (Named(d)' <=> Named(d))
        /\ Attached(c)' /\ ~Named(c)'
    BY <1>1, <2>6, <2>7 DEF Attached, Named, SameLeaving, Record
  <2>9. TypeOK'
    BY <1>1, <2>3, <2>5, <2>6 DEF IInv, TypeOK, queues, lock, keys, game
  <2>10. ListsRight'
    BY <1>1, <2>1, <2>2, <2>6, <2>8 DEF IInv, ListsRight
  <2>11. IDsRight'
    <3>1. \A d \in Id : Named(d)' => client'[Record(d)].ID = d
      BY <2>2, <2>5, <2>8, ConnectionTypes DEF IInv, IDsRight
    <3>2. \A x \in alive' : /\ line'[x] \notin Before /\ Record(x) = x
                            /\ line'[client'[x].ID] \notin Before /\ Record(client'[x].ID) = x
      <4>1. \A x \in alive : x \in Id /\ x # c /\ client[x].ID \in Id /\ client[x].ID # c
        BY <2>2, ConnectionTypes
      <4>2. \A x \in alive : /\ line[x] \notin Before /\ Record(x) = x
                             /\ line[client[x].ID] \notin Before /\ Record(client[x].ID) = x
        BY DEF IInv, IDsRight
      <4>3. "pushed" \notin Before
        BY DEF Before
      <4> QED
        BY <1>1, <2>1, <2>4, <2>5, <2>6, <4>1, <4>2, <4>3
    <3>3. \A d \in Id : line'[d] \in {"out", "new"} => Record(d) = d
      BY <2>6 DEF IInv, IDsRight
    <3>4. \A d, e \in Id : Record(e) = d /\ d # e => line'[d] = "gone" /\ ~Leaving(d)'
      BY <2>2, <2>6, <2>7 DEF IInv, IDsRight, SameLeaving
    <3>5. \A x \in alive' : x \in Id /\ client'[x].ID \in Id
      BY <2>5, <2>9 DEF TypeOK, Client
    <3> QED
      BY <2>8, <3>1, <3>2, <3>3, <3>4, <3>5 DEF IDsRight
  <2>12. LockRight' /\ LeavingOff'
    BY <1>1 DEF IInv, LockRight, LeavingOff, lock
  <2>13. ServerClientThere'
    BY <1>1, <2>2, <2>5, ConnectionTypes DEF IInv, ServerClientThere
  <2>14. DepartedIdle'
    BY <1>1, <2>1, <2>2, <2>5, ConnectionTypes DEF IInv, DepartedIdle
  <2>15. PacketsRight'
    <3>1. \A i \in DOMAIN m_aDelayedPackets : m_aDelayedPackets[i] \in Packet
      BY DEF IInv, TypeOK
    <3>2. \A i \in DOMAIN m_aDelayedPackets : m_aDelayedPackets[i].sender \in Id
      BY <3>1 DEF Packet
    <3> QED
      BY <1>1, <2>2, <2>6, <2>8, <3>2 DEF IInv, StagesRight, PacketsRight, queues, lock, game
  <2>16. EventsRight'
    <3>1. \A i \in DOMAIN events : events[i] \in Event
      BY ConnectionTypes
    <3>2. \A i \in DOMAIN events : events[i].id \in Id
      BY <3>1 DEF Event
    <3> QED
      BY <1>1, <1>2, <2>6, <3>2 DEF IInv, StagesRight, EventsRight, queues, lock, game
  <2>17. ToldRight'
    BY <1>1, <1>2, <2>2, <2>6 DEF IInv, StagesRight, ToldRight, NewEvent, queues, lock, game
  <2>18. AvatarsRight'
    BY <1>1, <2>1, <2>2, <2>4, <2>5, <2>6, <2>8, ConnectionTypes
       DEF IInv, StagesRight, AvatarsRight, NewEvent, queues, game
  <2>19. ScoreRight'
    <3>1. \A x \in alive' : client'[x].score = {d \in Id : Record(d) = x /\ told[d] \in {"playing", "left"}}
      <4>1. \A x \in alive : client[x].score = {d \in Id : Record(d) = x /\ told[d] \in {"playing", "left"}}
        BY DEF IInv, StagesRight, ScoreRight, ScoreKept, Record
      <4>2. {d \in Id : Record(d) = c /\ told[d] \in {"playing", "left"}} = {}
        BY <2>2
      <4> QED
        BY <1>1, <2>1, <2>2, <2>4, <2>5, <4>1, <4>2, ConnectionTypes
    <3>2. ScoreKept'
      BY <1>1, <3>1 DEF ScoreKept, Record, game
    <3>3. \A d \in Id : line'[d] \in {"taken", "pushed", "update", "in", "joining"} =>
             client'[Record(d)].bReconnect = (Record(d) # d)
      <4>1. \A d \in Id : line[d] \in {"taken", "pushed", "update", "in", "joining"} =>
               client[Record(d)].bReconnect = (Record(d) # d)
        BY DEF IInv, StagesRight, ScoreRight
      <4>2. \A d \in Id : Record(d) \in Id
        BY ConnectionTypes
      <4> QED
        BY <2>1, <2>2, <2>4, <2>5, <2>6, <4>1, <4>2
    <3> QED
      BY <2>8, <3>2, <3>3 DEF ScoreRight
  <2> QED
    BY <2>9, <2>10, <2>11, <2>12, <2>13, <2>14, <2>15, <2>16, <2>17, <2>18, <2>19 DEF IInv, StagesRight
<1>3. CASE line[c] = "taken"
  <2>1. /\ r \in Id /\ r \in alive /\ r \notin net_Players
        /\ \A i \in DOMAIN net_Players_disconnected : net_Players_disconnected[i] # r
        /\ \A d \in Id : line[d] = "taken" /\ Record(d) = r => c = d
    BY <1>3, ConnectionTypes DEF IInv, ListsRight
  <2>2. \A d \in Id : Attached(d) => Record(d) # r
    BY <2>1 DEF IInv, ListsRight
  <2>3. ~Attached(c) /\ ~Leaving(c) /\ told[c] = "nothing" /\ ~avatar[c].exists
    <3>1. ~Leaving(c) /\ ~Attached(c)
      BY <1>1, <1>3 DEF Leaving, Attached
    <3>2. told[c] = "nothing"
      BY <1>3 DEF IInv, StagesRight, ToldRight
    <3> QED
      BY <1>3, <3>1, <3>2 DEF IInv, StagesRight, AvatarsRight, EventsRight, NewEvent
  <2>4. client' = client /\ alive' = alive
    BY <1>1, <1>3, <2>1
  <2>5. /\ line' \in [Id -> Line] /\ line'[c] = "pushed" /\ \A d \in Id : d # c => line'[d] = line[d]
    BY <1>1, ConnectionTypes DEF Line
  <2>6. SameRecords /\ SameLeaving /\ NoNewConfig /\ EventsStay
    BY <1>1 DEF SameRecords, SameLeaving, Leaving, NoNewConfig, EventsStay, lock, queues
  <2>7. /\ \A d \in Id : Record(d)' = Record(d)
        /\ \A d \in Id : d # c => (Attached(d)' <=> Attached(d)) /\ (Named(d)' <=> Named(d))
        /\ Attached(c)' /\ ~Named(c)'
    BY <1>1, <2>5, <2>6 DEF Attached, Named, SameLeaving, Record
  <2>8. TypeOK'
    BY <1>1, <2>1, <2>4, <2>5 DEF IInv, TypeOK, queues, lock, keys, game
  <2>9. ListsRight'
    <3>1. net_Players' \subseteq alive'
      BY <1>1, <2>1, <2>4 DEF IInv, ListsRight
    <3>2. /\ \A d \in Id : Attached(d)' => Record(d) \in net_Players'
          /\ \A x \in net_Players' : \E d \in Id : Attached(d)' /\ Record(d) = x
          /\ \A d, e \in Id : Attached(d)' /\ Attached(e)' /\ Record(d) = Record(e) => d = e
      BY <1>1, <2>2, <2>3, <2>7 DEF IInv, ListsRight
    <3>3. \A d \in Id : line'[d] = "taken" =>
             /\ Record(d) \in alive' \ net_Players'
             /\ \A i \in DOMAIN net_Players_disconnected : net_Players_disconnected[i] # Record(d)
             /\ \A e \in Id : line'[e] = "taken" /\ Record(e) = Record(d) => e = d
      <4>1. \A d \in Id : line'[d] = "taken" => d # c /\ line[d] = "taken"
        BY <2>5
      <4>2. \A d \in Id : line[d] = "taken" =>
               /\ Record(d) \in alive \ net_Players
               /\ \A i \in DOMAIN net_Players_disconnected : net_Players_disconnected[i] # Record(d)
               /\ \A e \in Id : line[e] = "taken" /\ Record(e) = Record(d) => e = d
        BY DEF IInv, ListsRight
      <4> QED
        BY <1>1, <2>1, <2>4, <4>1, <4>2
    <3> QED
      BY <1>1, <2>7, <3>1, <3>2, <3>3 DEF ListsRight
  <2>10. IDsRight'
    <3>1. \A d \in Id : line'[d] \in Before => line[d] \in Before
      BY <1>3, <2>5 DEF Before
    <3>2. \A d \in Id : line'[d] \in {"out", "new"} => line[d] \in {"out", "new"}
      BY <2>5
    <3>3. \A d \in Id : Named(d)' => Named(d)
      BY <2>7
    <3>4. \A d \in Id : line[d] = "gone" => line'[d] = "gone"
      BY <1>3, <2>5
    <3>5. IDsRight /\ alive \subseteq Id /\ \A x \in Id : Record(x) \in Id /\ client[x].ID \in Id
      BY ConnectionTypes DEF IInv
    <3>6. \A d \in Id : Record(d)' = Record(d)
      BY <2>7
    <3>7. \A d, e \in Id : Record(e) = d /\ d # e => line'[d] = "gone" /\ ~Leaving(d)'
      BY <2>6, <3>4, <3>5 DEF IDsRight, SameLeaving
    <3> QED
      BY <2>4, <3>1, <3>2, <3>3, <3>5, <3>6, <3>7 DEF IDsRight
  <2>11. LockRight' /\ LeavingOff'
    BY <1>1 DEF IInv, LockRight, LeavingOff, lock
  <2>12. ServerClientThere'
    BY <1>1, <2>4 DEF IInv, ServerClientThere
  <2>13. DepartedIdle'
    BY <1>1, <2>1, <2>4, ConnectionTypes DEF IInv, DepartedIdle
  <2>14. PacketsRight'
    <3>1. \A i \in DOMAIN m_aDelayedPackets : m_aDelayedPackets[i] \in Packet
      BY DEF IInv, TypeOK
    <3>2. \A i \in DOMAIN m_aDelayedPackets : m_aDelayedPackets[i].sender \in Id /\ m_aDelayedPackets[i].sender # c
      BY <2>3, <3>1 DEF IInv, StagesRight, PacketsRight, Packet, Named
    <3> QED
      BY <1>1, <2>5, <2>7, <3>2 DEF IInv, StagesRight, PacketsRight, queues, lock, game
  <2>15. EventsRight'
    <3>1. \A i \in DOMAIN events : events[i] \in Event
      BY ConnectionTypes
    <3>2. \A i \in DOMAIN events : events[i].id \in Id
      BY <3>1 DEF Event
    <3> QED
      BY <1>1, <1>3, <2>5, <3>2 DEF IInv, StagesRight, EventsRight, queues, lock, game
  <2>16. ToldRight'
    BY <1>1, <1>3, <2>3, <2>5 DEF IInv, StagesRight, ToldRight, NewEvent, queues, lock, game
  <2>17. AvatarsRight'
    <3>1. AvatarsRight /\ UNCHANGED <<events, avatar, told>>
      BY <1>1 DEF IInv, StagesRight, queues, game
    <3> QED
      BY <1>3, <2>3, <2>4, <2>5, <2>7, <3>1 DEF AvatarsRight, NewEvent
  <2>18. ScoreRight'
    <3>1. ScoreKept'
      <4>1. ScoreKept /\ UNCHANGED <<alive, client, found, told>>
        BY <1>1, <2>4 DEF IInv, StagesRight, ScoreRight, game
      <4> QED
        BY <4>1 DEF ScoreKept
    <3>2. \A d \in Id : line'[d] \in {"taken", "pushed", "update", "in", "joining"} =>
             client'[Record(d)].bReconnect = (Record(d) # d)
      BY <1>3, <2>4, <2>5 DEF IInv, StagesRight, ScoreRight
    <3> QED
      BY <2>7, <3>1, <3>2 DEF ScoreRight
  <2> QED
    BY <2>8, <2>9, <2>10, <2>11, <2>12, <2>13, <2>14, <2>15, <2>16, <2>17, <2>18 DEF IInv, StagesRight
<1> QED
  BY <1>1, <1>2, <1>3

\* The record gets its number.
LEMMA NameClientInd ==
    ASSUME IInv, NEW c \in Id, NameClient(c)
    PROVE  IInv'
<1> DEFINE r == Record(c)
<1>1. PICK l \in {"update", "in"} :
         /\ line[c] = "pushed" /\ line' = [line EXCEPT ![c] = l]
         /\ client' = [client EXCEPT ![r].ID = c]
         /\ events' = Append(events, NewEvent("create", c, None))
         /\ UNCHANGED <<alive, lists, m_aDelayedPackets, lock, found, inbox, keys, game, fault>>
  BY DEF NameClient, Record
<1>2. Attached(c) /\ ~Named(c) /\ r \in net_Players /\ r \in alive /\ r \in Id /\ ~Leaving(c)
  <2>1. Attached(c) /\ ~Named(c)
    BY <1>1 DEF Attached, Named
  <2>2. r \in net_Players /\ r \in alive /\ r \in Id
    BY <2>1, ConnectionTypes DEF IInv, ListsRight
  <2> QED
    BY <1>1, <2>1, <2>2 DEF IInv, LockRight, Leaving
<1>3. /\ line' \in [Id -> Line] /\ line'[c] = l /\ \A d \in Id : d # c => line'[d] = line[d]
  BY <1>1, ConnectionTypes DEF Line
<1>4. /\ client' \in [Id -> Client] /\ client'[r].ID = c
      /\ \A x \in Id : x # r => client'[x] = client[x]
      /\ \A x \in Id : /\ client'[x].bConnected = client[x].bConnected
                       /\ client'[x].bLocal = client[x].bLocal /\ client'[x].net_Ready = client[x].net_Ready
                       /\ client'[x].owner = client[x].owner /\ client'[x].GameID = client[x].GameID
                       /\ client'[x].score = client[x].score /\ client'[x].bReconnect = client[x].bReconnect
  <2>1. client \in [Id -> Client] /\ client[r] \in Client
    BY <1>2, ConnectionTypes
  <2>2. [client[r] EXCEPT !.ID = c] \in Client
    BY <2>1 DEF Client
  <2>3. client'[r] = [client[r] EXCEPT !.ID = c] /\ \A x \in Id : x # r => client'[x] = client[x]
    BY <1>1, <1>2, <2>1
  <2>4. client' \in [Id -> Client]
    BY <1>1, <1>2, <2>1, <2>2
  <2> QED
    BY <2>1, <2>3, <2>4 DEF Client
<1>5. SameRecords /\ SameLeaving /\ NoNewConfig
  BY <1>1 DEF SameRecords, SameLeaving, Leaving, NoNewConfig, lock
<1>6. EventsRight' /\ EventsStay /\ events' \in Seq(Event)
  <2>1. NewEvent("create", c, None) \in Event /\ NewEvent("create", c, None).type = "create"
    BY DEF NewEvent, Event
  <2>2. \A d \in Id : line[d] = "gone" => line'[d] = "gone"
    BY <1>1, <1>3
  <2> QED
    BY <1>1, <2>1, <2>2, EventAdded DEF IInv, StagesRight, lock, game
<1>7. /\ \A d \in Id : Record(d)' = Record(d)
      /\ \A d \in Id : Attached(d)' <=> Attached(d)
      /\ \A d \in Id : d # c => (Named(d)' <=> Named(d))
  BY <1>1, <1>3, <1>5 DEF Attached, Named, SameLeaving, Record
<1>8. \A d \in Id : d # c /\ (Attached(d) \/ line[d] = "taken") => Record(d) # r /\ Record(d) \in Id
  BY <1>2, ConnectionTypes DEF IInv, ListsRight
<1>9. TypeOK'
  BY <1>1, <1>3, <1>4, <1>6 DEF IInv, TypeOK, lists, lock, keys, game
<1>10. ListsRight'
  <2>1. \A d \in Id : line'[d] = "taken" <=> line[d] = "taken"
    BY <1>1, <1>3
  <2> QED
    BY <1>1, <1>7, <2>1 DEF IInv, ListsRight, lists
<1>11. IDsRight'
  <2>1. \A d \in Id : Named(d)' => client'[Record(d)].ID = d
    <3> SUFFICES ASSUME NEW d \in Id, Named(d)'
                 PROVE  client'[Record(d)].ID = d
      OBVIOUS
    <3>1. CASE d = c
      BY <3>1, <1>4
    <3>2. CASE d # c
      <4>1. Named(d) /\ Record(d) # r /\ Record(d) \in Id
        BY <3>2, <1>7, <1>8 DEF Named
      <4> QED
        BY <4>1, <1>4 DEF IInv, IDsRight
    <3> QED
      BY <3>1, <3>2
  <2>2. \A x \in alive' : /\ line'[x] \notin Before /\ Record(x) = x
                          /\ line'[client'[x].ID] \notin Before /\ Record(client'[x].ID) = x
    <3>1. \A d \in Id : line'[d] \in Before <=> line[d] \in Before
      BY <1>1, <1>3 DEF Before
    <3>2. line[c] \notin Before
      BY <1>1 DEF Before
    <3> QED
      BY <1>1, <1>2, <1>4, <3>1, <3>2, ConnectionTypes DEF IInv, IDsRight, lists
  <2>3. \A d \in Id : line'[d] \in {"out", "new"} => Record(d) = d
    BY <1>3 DEF IInv, IDsRight
  <2>4. \A d, e \in Id : Record(e) = d /\ d # e => line'[d] = "gone" /\ ~Leaving(d)'
    BY <1>1, <1>3, <1>5 DEF IInv, IDsRight, SameLeaving
  <2>5. \A x \in alive' : x \in Id /\ client'[x].ID \in Id
    BY <1>4, <1>9 DEF TypeOK, Client
  <2> QED
    BY <1>7, <2>1, <2>2, <2>3, <2>4, <2>5 DEF IDsRight
<1>12. LockRight'
  <2>1. at = "leaving" => holder \in Id /\ holder # c /\ line[holder] = "gone"
    BY <1>1 DEF IInv, LockRight
  <2>2. at \notin {"outside", "leaving"} => holder = Main \/ (holder # c /\ line[holder] = "update")
    BY <1>1 DEF IInv, LockRight
  <2>3. holder = Main \/ holder = None \/ holder \in Id
    BY DEF IInv, TypeOK
  <2> QED
    BY <1>1, <1>3, <2>1, <2>2, <2>3, IdAssumption DEF IInv, LockRight, lock
<1>13. LeavingOff' /\ ServerClientThere' /\ DepartedIdle'
  BY <1>1, <1>4, <1>5, LeavingFrame, ServerClientFrame, DepartedFrame DEF IInv, lists, lock
<1>14. PacketsRight'
  <2>1. \A i \in DOMAIN m_aDelayedPackets : m_aDelayedPackets[i] \in Packet
    BY DEF IInv, TypeOK
  <2>2. \A i \in DOMAIN m_aDelayedPackets : m_aDelayedPackets[i].sender \in Id /\ m_aDelayedPackets[i].sender # c
    BY <1>2, <2>1 DEF IInv, StagesRight, PacketsRight, Packet
  <2> QED
    BY <1>1, <1>3, <1>7, <2>2 DEF IInv, StagesRight, PacketsRight, lock, game
<1>15. ToldRight'
  <2>1. ToldRight /\ UNCHANGED <<told, at, inbox, m_aDelayedPackets>>
    BY <1>1 DEF IInv, StagesRight, lock, game
  <2> QED
    BY <1>1, <1>3, <1>6, <2>1 DEF ToldRight, NewEvent, EventsStay
<1>16. AvatarsRight'
  <2>1. AvatarsRight /\ UNCHANGED <<told, avatar>> /\ \A d \in Id : Record(d) \in Id
    BY <1>1, ConnectionTypes DEF IInv, StagesRight, game
  <2> QED
    BY <1>1, <1>3, <1>4, <1>6, <1>7, <2>1 DEF AvatarsRight, NewEvent, EventsStay
<1>17. ScoreRight'
  <2>1. ScoreKept'
    <3>1. ScoreKept /\ UNCHANGED <<alive, found, told>>
      BY <1>1 DEF IInv, StagesRight, ScoreRight, game
    <3>2. \A x \in alive : client'[x].score = client[x].score
      BY <1>4, ConnectionTypes
    <3> QED
      BY <3>1, <3>2 DEF ScoreKept
  <2>2. \A d \in Id : line[d] \in {"taken", "pushed", "update", "in", "joining"} =>
           client[Record(d)].bReconnect = (Record(d) # d)
    BY DEF IInv, StagesRight, ScoreRight
  <2>3. \A d \in Id : Record(d) \in Id
    BY ConnectionTypes
  <2> QED
    BY <1>1, <1>3, <1>4, <1>7, <2>1, <2>2, <2>3 DEF ScoreRight
<1> QED
  BY <1>6, <1>9, <1>10, <1>11, <1>12, <1>13, <1>14, <1>15, <1>16, <1>17 DEF IInv, StagesRight

-----------------------------------------------------------------------------
(* A connection ends.                                                      *)

\* A turn of the loop in client_Destroy.
LEMMA DropPacketInd ==
    ASSUME IInv, NEW c \in Id, DropPacket(c)
    PROVE  IInv'
<1>1. PICK k \in DOMAIN m_aDelayedPackets : m_aDelayedPackets' = RemoveAt(m_aDelayedPackets, k)
  BY DEF DropPacket
<1>2. /\ at = "leaving"
      /\ UNCHANGED <<alive, client, lists, events, lock, wire, keys, game, fault>>
  BY DEF DropPacket
<1>3. SameRecords /\ SameLeaving /\ NoNewConfig /\ EventsStay
  BY <1>2 DEF SameRecords, SameLeaving, Leaving, NoNewConfig, EventsStay, lock, wire
<1>4. PacketsRight' /\ m_aDelayedPackets' \in Seq(Packet)
  BY <1>1, <1>2, <1>3, PacketRemoved DEF IInv, StagesRight, lock, wire, game
<1>5. TypeOK'
  BY <1>2, <1>4 DEF IInv, TypeOK, lists, lock, wire, keys, game
<1>6. ListsRight' /\ IDsRight' /\ LeavingOff' /\ ServerClientThere' /\ DepartedIdle'
  BY <1>2, <1>3, ListsFrame, IDsFrame, LeavingFrame, ServerClientFrame, DepartedFrame DEF IInv, lists, lock, wire
<1>7. LockRight'
  BY <1>2 DEF IInv, LockRight, lock, wire
<1>8. EventsRight' /\ ToldRight'
  BY <1>2 DEF IInv, StagesRight, EventsRight, ToldRight, NewEvent, lock, wire, game
<1>9. AvatarsRight' /\ ScoreRight'
  BY <1>2, <1>3, AvatarsFrame, ScoreFrame DEF IInv, StagesRight, wire, game
<1> QED
  BY <1>4, <1>5, <1>6, <1>7, <1>8, <1>9 DEF IInv, StagesRight

\* OnCL_Disconnected: if he played, the event is added that tells the game so,
\* and it is the only one.
LEMMA DisconnectInd ==
    ASSUME IInv, NEW c \in Id, Disconnect(c)
    PROVE  IInv'
<1> DEFINE r == Record(c)
           off == [client EXCEPT ![r] = [@ EXCEPT !.bConnected = FALSE, !.bReconnect = FALSE]]
<1>1. holder = None /\ at = "outside" /\ line[c] \in Linked
  BY DEF IInv, LockRight, Disconnect, Free
<1>2. /\ Attached(c) /\ Named(c) /\ ID_to_client(c) = {r}
      /\ r \in net_Players /\ r \in alive /\ r \in Id /\ client[r].ID = c
  <2>1. Attached(c) /\ Named(c)
    BY <1>1, LinkedNamed
  <2> QED
    BY <2>1, OwnRecord, ConnectionTypes DEF IInv, IDsRight
<1>3. CASE Fails("freed")
  BY <1>3, FailsInd
<1>4. ASSUME NEW last \in BOOLEAN,
             events' = Farewell(c, r),
             avatar' = IF last THEN [e \in Id |-> [exists |-> FALSE, owner |-> None]] ELSE avatar,
             client' = IF last THEN [x \in Id |-> [off[x] EXCEPT !.owner = None]] ELSE off,
             SV_Client' = ServerClient(off, r),
             holder' = c, at' = "leaving",
             line' = [line EXCEPT ![c] = "gone"],
             inbox' = [inbox EXCEPT ![c] = {}],
             asked' = asked \ {c},
             UNCHANGED <<alive, net_Players, net_Players_disconnected, m_aDelayedPackets,
                         found, answered, told, fault>>
      PROVE  IInv'
  <2>1. /\ line' \in [Id -> Line] /\ line'[c] = "gone" /\ \A d \in Id : d # c => line'[d] = line[d]
        /\ inbox' \in [Id -> SUBSET Answer] /\ inbox'[c] = {} /\ \A d \in Id : d # c => inbox'[d] = inbox[d]
    <3>1. inbox \in [Id -> SUBSET Answer]
      BY DEF IInv, TypeOK
    <3> QED
      BY <1>4, <3>1, ConnectionTypes DEF Line
  <2>2. /\ off \in [Id -> Client] /\ \A x \in Id : x # r => off[x] = client[x]
        /\ ~off[r].bConnected /\ ~off[r].bReconnect
        /\ \A x \in Id : /\ off[x].ID = client[x].ID /\ off[x].bLocal = client[x].bLocal
                         /\ off[x].net_Ready = client[x].net_Ready /\ off[x].score = client[x].score
                         /\ off[x].owner = client[x].owner /\ off[x].GameID = client[x].GameID
    <3>1. client \in [Id -> Client] /\ client[r] \in Client
      BY <1>2, ConnectionTypes
    <3>2. [client[r] EXCEPT !.bConnected = FALSE, !.bReconnect = FALSE] \in Client
      BY <3>1 DEF Client
    <3>3. off[r] = [client[r] EXCEPT !.bConnected = FALSE, !.bReconnect = FALSE]
          /\ \A x \in Id : x # r => off[x] = client[x]
      BY <1>2, <3>1
    <3>4. off \in [Id -> Client]
      BY <1>2, <3>1, <3>2
    <3> QED
      BY <3>1, <3>3, <3>4 DEF Client
  <2> HIDE DEF off
  <2>3. /\ client' \in [Id -> Client]
        /\ \A x \in Id : /\ client'[x].ID = off[x].ID /\ client'[x].bLocal = off[x].bLocal
                         /\ client'[x].bConnected = off[x].bConnected
                         /\ client'[x].bReconnect = off[x].bReconnect
                         /\ client'[x].net_Ready = off[x].net_Ready /\ client'[x].score = off[x].score
                         /\ client'[x].GameID = off[x].GameID
                         /\ client'[x].owner = IF last THEN None ELSE off[x].owner
    <3>1. CASE ~last
      BY <3>1, <1>4, <2>2
    <3>2. CASE last
      <4>1. \A x \in Id : off[x] \in Client
        BY <2>2
      <4>2. \A x \in Id : [off[x] EXCEPT !.owner = None] \in Client
        BY <4>1 DEF Client
      <4>3. client' = [x \in Id |-> [off[x] EXCEPT !.owner = None]]
        BY <3>2, <1>4
      <4> QED
        BY <3>2, <4>1, <4>2, <4>3 DEF Client
    <3> QED
      BY <3>1, <3>2
  <2>22. /\ \A x \in Id : /\ client'[x].ID = client[x].ID /\ client'[x].bLocal = client[x].bLocal
                          /\ client'[x].net_Ready = client[x].net_Ready /\ client'[x].score = client[x].score
                          /\ client'[x].GameID = client[x].GameID
                          /\ client'[x].owner = IF last THEN None ELSE client[x].owner
                          /\ x # r => client'[x].bConnected = client[x].bConnected
                          /\ x # r => client'[x].bReconnect = client[x].bReconnect
         /\ ~client'[r].bConnected
    BY <1>2, <2>2, <2>3
  <2>23. /\ holder' = c /\ at' = "leaving"
         /\ UNCHANGED <<alive, net_Players, net_Players_disconnected, m_aDelayedPackets, found, told, fault>>
    BY <1>4
  <2>4. avatar' \in [Id -> Avatar] /\ \A d \in Id : avatar'[d].exists => avatar'[d] = avatar[d] /\ ~last
    <3>1. avatar \in [Id -> Avatar]
      BY DEF IInv, TypeOK
    <3> QED
      BY <1>4, <3>1 DEF Avatar
  <2>5. /\ Leaving(c)' /\ \A d \in Id : d # c => ~Leaving(d)' /\ ~Leaving(d)
        /\ \A d \in Id : Record(d)' = Record(d)
        /\ \A d \in Id : (Attached(d)' <=> Attached(d)) /\ (Named(d)' <=> Named(d))
    <3>1. /\ Leaving(c)' /\ ~Leaving(c) /\ \A d \in Id : d # c => ~Leaving(d)' /\ ~Leaving(d)
          /\ \A d \in Id : Record(d)' = Record(d)
      BY <1>1, <1>4 DEF Leaving, Record
    <3>2. \A d \in Id : d # c => (Attached(d)' <=> Attached(d)) /\ (Named(d)' <=> Named(d))
      BY <2>1, <3>1 DEF Attached, Named
    <3>3. Attached(c)' /\ Named(c)'
      BY <2>1, <3>1 DEF Attached, Named
    <3> QED
      BY <1>2, <3>1, <3>2, <3>3
  <2>6. \A d \in Id : d # c /\ (Attached(d) \/ line[d] = "taken") => Record(d) # r /\ Record(d) \in Id
    BY <1>2, ConnectionTypes DEF IInv, ListsRight
  <2>7. SV_Client' # r /\ (SV_Client' # None => SV_Client' = SV_Client)
    <3>1. SV_Client # None => SV_Client \in net_Players /\ SV_Client \in Id
      BY ConnectionTypes DEF IInv, ServerClientThere
    <3>2. SV_Client # None /\ off[SV_Client].ID = c => SV_Client = r
      BY <2>2, <3>1, ConnectionTypes DEF IInv, IDsRight
    <3>3. off[r].ID = c /\ r # None
      BY <1>2, <2>2, IdAssumption
    <3> QED
      BY <1>4, <2>2, <3>1, <3>2, <3>3 DEF ServerClient
  <2>8. \/ client[r].owner = None /\ events' = events
        \/ /\ client[r].owner = c /\ line[c] = "joining" /\ told[c] = "playing"
           /\ events' = Append(events, NewEvent("disconnected", c, c))
    <3>1. client[r].owner # None =>
             line[c] = "joining" /\ client[r].owner = c /\ client[r].GameID = c /\ told[c] = "playing"
      BY <1>1 DEF IInv, StagesRight, AvatarsRight, Linked
    <3> QED
      BY <1>4, <3>1 DEF Farewell
  <2>9. /\ events' \in Seq(Event) /\ EventsStay
        /\ \A i \in DOMAIN events' : \/ i \in DOMAIN events /\ events'[i] = events[i]
                                     \/ /\ i \notin DOMAIN events /\ DOMAIN events' = DOMAIN events \union {i}
                                        /\ events'[i] = NewEvent("disconnected", c, c)
                                        /\ told[c] = "playing"
        /\ client[r].owner # None => \E i \in DOMAIN events' : events'[i] = NewEvent("disconnected", c, c)
    <3>1. NewEvent("disconnected", c, c) \in Event
      BY DEF NewEvent, Event
    <3>2. CASE client[r].owner = None /\ events' = events
      BY <3>2, ConnectionTypes DEF EventsStay
    <3>3. CASE told[c] = "playing" /\ events' = Append(events, NewEvent("disconnected", c, c))
      <4>1. /\ events' \in Seq(Event)
            /\ Len(events) \in Nat /\ DOMAIN events = 1..Len(events)
            /\ DOMAIN events' = 1..(Len(events) + 1)
            /\ \A i \in 1..Len(events) : events'[i] = events[i]
            /\ events'[Len(events) + 1] = NewEvent("disconnected", c, c)
        BY <3>1, <3>3, AppendProps, ConnectionTypes
      <4>2. Len(events) + 1 \notin DOMAIN events /\ DOMAIN events' = DOMAIN events \union {Len(events) + 1}
        BY <4>1
      <4> QED
        BY <3>3, <4>1, <4>2 DEF EventsStay
    <3> QED
      BY <2>8, <3>2, <3>3
  <2>10. TypeOK'
    <3>1. SV_Client' \in Id \union {None}
      BY <2>7 DEF IInv, TypeOK
    <3> QED
      BY <1>4, <2>1, <2>3, <2>4, <2>9, <3>1 DEF IInv, TypeOK
  <2>11. ListsRight'
    <3>1. \A d \in Id : line'[d] = "taken" <=> line[d] = "taken"
      BY <1>1, <2>1 DEF Linked
    <3> QED
      BY <1>4, <2>5, <3>1 DEF IInv, ListsRight
  <2>12. IDsRight'
    <3>1. \A d \in Id : /\ line'[d] \in Before <=> line[d] \in Before
                        /\ line'[d] \in {"out", "new"} => line[d] \in {"out", "new"}
                        /\ line[d] = "gone" => line'[d] = "gone"
      BY <1>1, <2>1 DEF Linked, Before
    <3>2. \A d \in Id : line[d] = "gone" => ~Leaving(d)'
      BY <1>1, <2>5 DEF Linked
    <3>3. IDsRight /\ alive \subseteq Id /\ \A d \in Id : client[d].ID \in Id /\ Record(d) \in Id
      BY ConnectionTypes DEF IInv
    <3> QED
      BY <2>5, <2>22, <2>23, <3>1, <3>2, <3>3 DEF IDsRight
  <2>13. LockRight'
    BY <1>4, <2>1, IdAssumption DEF IInv, LockRight
  <2>14. LeavingOff'
    BY <2>5, <2>7, <2>22, <2>23 DEF LeavingOff
  <2>15. ServerClientThere'
    <3>1. SV_Client' # None => SV_Client' = SV_Client /\ SV_Client' # r
      BY <2>7
    <3>2. ServerClientThere /\ net_Players \subseteq Id
      BY ConnectionTypes DEF IInv
    <3> QED
      BY <2>22, <2>23, <3>1, <3>2 DEF ServerClientThere
  <2>16. DepartedIdle'
    <3>1. \A i \in DOMAIN net_Players_disconnected :
             net_Players_disconnected[i] \in Id /\ net_Players_disconnected[i] # r
      BY <1>2, ConnectionTypes DEF IInv, DepartedIdle
    <3>2. DepartedIdle
      BY DEF IInv
    <3> QED
      BY <2>22, <2>23, <3>1, <3>2 DEF DepartedIdle
  <2>17. PacketsRight'
    <3>1. \A i \in DOMAIN m_aDelayedPackets : m_aDelayedPackets[i] \in Packet
      BY DEF IInv, TypeOK
    <3>2. \A i \in DOMAIN m_aDelayedPackets : m_aDelayedPackets[i].sender \in Id
      BY <3>1 DEF Packet
    <3> QED
      BY <1>1, <1>4, <2>1, <2>5, <3>2 DEF IInv, StagesRight, PacketsRight
  <2>18. EventsRight'
    <3>1. \A i \in DOMAIN events : events[i] \in Event
      BY ConnectionTypes
    <3>2. \A i \in DOMAIN events : events[i].id \in Id /\ events[i].type # "connected"
      BY <1>1, <3>1 DEF IInv, StagesRight, EventsRight, Event
    <3>3. \A i \in DOMAIN events : events[i].type = "disconnected" => events[i].id # c
      BY <1>1 DEF IInv, StagesRight, EventsRight, Linked
    <3> DEFINE b == NewEvent("disconnected", c, c)
    <3>4. b.type = "disconnected" /\ b.id = c /\ b.GameID = c
      BY DEF NewEvent
    <3> HIDE DEF b
    <3>5. \A i \in DOMAIN events' : \/ i \in DOMAIN events /\ events'[i] = events[i]
                                    \/ /\ i \notin DOMAIN events /\ DOMAIN events' = DOMAIN events \union {i}
                                       /\ events'[i] = b /\ told[c] = "playing"
      BY <2>9 DEF b
    <3> SUFFICES ASSUME NEW i \in DOMAIN events'
                 PROVE  /\ events'[i].type # "connected"
                        /\ events'[i].type = "disconnected" =>
                              /\ line'[events'[i].id] = "gone" /\ told[events'[i].id] = "playing"
                              /\ events'[i].GameID = events'[i].id
                              /\ \A j \in DOMAIN events' :
                                    events'[j].type = "disconnected" /\ events'[j].id = events'[i].id => i = j
      BY <1>4 DEF EventsRight
    <3>6. CASE i \in DOMAIN events /\ events'[i] = events[i]
      <4>1. events[i].id \in Id /\ events[i].type # "connected"
        BY <3>2, <3>6
      <4>2. ASSUME events[i].type = "disconnected"
            PROVE  /\ events[i].id # c /\ line[events[i].id] = "gone" /\ told[events[i].id] = "playing"
                   /\ events[i].GameID = events[i].id
                   /\ \A j \in DOMAIN events :
                         events[j].type = "disconnected" /\ events[j].id = events[i].id => i = j
        BY <3>3, <3>6, <4>2 DEF IInv, StagesRight, EventsRight
      <4> QED
        BY <3>6, <2>1, <3>4, <3>5, <4>1, <4>2
    <3>7. CASE /\ i \notin DOMAIN events /\ DOMAIN events' = DOMAIN events \union {i}
               /\ events'[i] = b /\ told[c] = "playing"
      BY <3>7, <2>1, <2>9, <3>3, <3>4 DEF EventsStay
    <3> QED
      BY <3>5, <3>6, <3>7
  <2>19. ToldRight'
    <3>1. ToldRight
      BY DEF IInv, StagesRight
    <3> QED
      BY <1>4, <2>1, <2>9, <3>1 DEF ToldRight, NewEvent, EventsStay
  <2>20. AvatarsRight'
    <3>1. AvatarsRight /\ \A d \in Id : Record(d) \in Id
      BY ConnectionTypes DEF IInv, StagesRight
    <3> SUFFICES ASSUME NEW d \in Id
                 PROVE  /\ avatar'[d].exists =>
                              \/ told'[d] = "left"
                              \/ line'[d] = "joining" /\ client'[Record(d)].owner = d
                              \/ \E i \in DOMAIN events' : events'[i] = NewEvent("disconnected", d, d)
                        /\ line'[d] \in {"taken", "pushed", "update", "in"} => client'[Record(d)].owner = None
                        /\ line'[d] = "joining" /\ client'[Record(d)].owner # None =>
                              client'[Record(d)].owner = d /\ client'[Record(d)].GameID = d /\ told'[d] = "playing"
      BY <2>5 DEF AvatarsRight, NewEvent
    <3>2. avatar'[d].exists => \/ told[d] = "left"
                               \/ line[d] = "joining" /\ client[Record(d)].owner = d /\ ~last
                               \/ \E i \in DOMAIN events' : events'[i] = NewEvent("disconnected", d, d)
      BY <2>4, <2>9, <3>1 DEF AvatarsRight, EventsStay
    <3>3. CASE d = c
      <4>1. c # None
        BY IdAssumption
      <4> QED
        BY <3>2, <3>3, <4>1, <1>4, <2>1, <2>9
    <3>4. CASE d # c
      <4>1. client'[Record(d)].owner = (IF last THEN None ELSE client[Record(d)].owner)
            /\ client'[Record(d)].GameID = client[Record(d)].GameID
        BY <2>2, <2>3, <3>1
      <4> QED
        BY <3>1, <3>2, <3>4, <4>1, <1>4, <2>1 DEF AvatarsRight
    <3> QED
      BY <3>3, <3>4
  <2>21. ScoreRight'
    <3>1. ScoreKept'
      <4>1. ScoreKept /\ \A x \in alive : client'[x].score = client[x].score
        BY <2>22, ConnectionTypes DEF IInv, StagesRight, ScoreRight
      <4>2. alive' = alive /\ found' = found /\ told' = told
        BY <2>23
      <4> QED
        BY <4>1, <4>2 DEF ScoreKept
    <3>2. ASSUME NEW d \in Id, line'[d] \in {"taken", "pushed", "update", "in", "joining"}
          PROVE  client'[Record(d)].bReconnect = (Record(d) # d)
      <4>1. d # c /\ line[d] = line'[d]
        BY <3>2, <2>1
      <4>2. Record(d) # r /\ Record(d) \in Id
        BY <4>1, <3>2, <2>6 DEF Attached
      <4> QED
        BY <4>1, <4>2, <3>2, <2>2, <2>3 DEF IInv, StagesRight, ScoreRight
    <3> QED
      BY <2>5, <3>1, <3>2 DEF ScoreRight
  <2> QED
    BY <2>10, <2>11, <2>12, <2>13, <2>14, <2>15, <2>16, <2>17, <2>18, <2>19, <2>20, <2>21 DEF IInv, StagesRight
<1> QED
  <2>1. PICK x \in ID_to_client(c) :
           LET last == net_Players = {x} \/ client[x].bLocal
               out == [client EXCEPT ![x] = [@ EXCEPT !.bConnected = FALSE, !.bReconnect = FALSE]] IN
           IF last /\ \E e \in Id : avatar[e].exists /\ avatar[e].owner \notin alive \union {None}
           THEN Fails("freed")
           ELSE /\ events' = Farewell(c, x)
                /\ avatar' = IF last THEN [e \in Id |-> [exists |-> FALSE, owner |-> None]] ELSE avatar
                /\ client' = IF last THEN [y \in Id |-> [out[y] EXCEPT !.owner = None]] ELSE out
                /\ SV_Client' = ServerClient(out, x)
                /\ holder' = c /\ at' = "leaving"
                /\ line' = [line EXCEPT ![c] = "gone"]
                /\ inbox' = [inbox EXCEPT ![c] = {}]
                /\ asked' = asked \ {c}
                /\ UNCHANGED <<alive, net_Players, net_Players_disconnected, m_aDelayedPackets,
                               found, answered, told, fault>>
    BY DEF Disconnect
  <2>2. x = r
    BY <1>2, <2>1
  <2> DEFINE last == net_Players = {r} \/ client[r].bLocal
  <2>3. last \in BOOLEAN
    BY <1>2, ConnectionTypes DEF Client
  <2>4. \/ Fails("freed")
        \/ /\ events' = Farewell(c, r)
           /\ avatar' = IF last THEN [e \in Id |-> [exists |-> FALSE, owner |-> None]] ELSE avatar
           /\ client' = IF last THEN [y \in Id |-> [off[y] EXCEPT !.owner = None]] ELSE off
           /\ SV_Client' = ServerClient(off, r)
           /\ holder' = c /\ at' = "leaving"
           /\ line' = [line EXCEPT ![c] = "gone"]
           /\ inbox' = [inbox EXCEPT ![c] = {}]
           /\ asked' = asked \ {c}
           /\ UNCHANGED <<alive, net_Players, net_Players_disconnected, m_aDelayedPackets,
                          found, answered, told, fault>>
    BY <2>1, <2>2
  <2> HIDE DEF last, off
  <2> QED
    BY <1>3, <1>4, <2>3, <2>4

\* The rest of client_Destroy.
LEMMA DestroyClientInd ==
    ASSUME IInv, NEW c \in Id, DestroyClient(c)
    PROVE  IInv'
<1> DEFINE r == Record(c)
<1>1. /\ holder = c /\ at = "leaving" /\ holder' = None /\ at' = "outside" /\ NoneWaits(c)
      /\ UNCHANGED <<SV_Client, queues, wire, keys, game, fault>>
  BY DEF DestroyClient
<1>2. /\ Leaving(c) /\ line[c] = "gone" /\ Attached(c) /\ Named(c)
      /\ ID_to_client(c) = {r} /\ r \in net_Players /\ r \in alive /\ r \in Id
      /\ SV_Client # r /\ ~client[r].bConnected
  <2>1. Leaving(c) /\ line[c] = "gone" /\ Attached(c) /\ Named(c)
    BY <1>1 DEF IInv, LockRight, Leaving, Attached, Named
  <2> QED
    BY <1>1, <2>1, OwnRecord, ConnectionTypes DEF IInv, LeavingOff
<1>3. /\ net_Players' = net_Players \ {r}
      /\ \/ /\ net_Players_disconnected' = Append(net_Players_disconnected, r)
            /\ client' = [client EXCEPT ![r] = Cleared(@)]
            /\ alive' = alive
         \/ /\ alive' = alive \ {r}
            /\ client' = client /\ net_Players_disconnected' = net_Players_disconnected
  BY <1>2 DEF DestroyClient
<1>4. /\ client' \in [Id -> Client]
      /\ \A x \in Id : x # r => client'[x] = client[x]
      /\ \A x \in Id : /\ client'[x].ID = client[x].ID /\ client'[x].bConnected = client[x].bConnected
                       /\ client'[x].bLocal = client[x].bLocal
                       /\ client'[x].score = client[x].score /\ client'[x].bReconnect = client[x].bReconnect
      /\ r \in alive' => ~client'[r].net_Ready /\ client'[r].owner = None
  <2>1. client \in [Id -> Client] /\ client[r] \in Client
    BY <1>2, ConnectionTypes
  <2>2. CASE client' = [client EXCEPT ![r] = Cleared(@)]
    <3>1. /\ Cleared(client[r]) \in Client
          /\ Cleared(client[r]).ID = client[r].ID /\ Cleared(client[r]).bConnected = client[r].bConnected
          /\ Cleared(client[r]).bLocal = client[r].bLocal /\ Cleared(client[r]).score = client[r].score
          /\ Cleared(client[r]).bReconnect = client[r].bReconnect
          /\ ~Cleared(client[r]).net_Ready /\ Cleared(client[r]).owner = None
      BY <2>1 DEF Cleared, Client
    <3>2. client' \in [Id -> Client] /\ client'[r] = Cleared(client[r])
          /\ \A x \in Id : x # r => client'[x] = client[x]
      BY <1>2, <2>1, <2>2, <3>1
    <3> QED
      BY <3>1, <3>2
  <2>3. CASE client' = client /\ alive' = alive \ {r}
    BY <2>1, <2>3
  <2> QED
    BY <1>3, <2>2, <2>3
<1>5. /\ net_Players_disconnected' \in Seq(Id)
      /\ \A i \in DOMAIN net_Players_disconnected' :
            \/ /\ i \in DOMAIN net_Players_disconnected
               /\ net_Players_disconnected'[i] = net_Players_disconnected[i]
            \/ /\ i \notin DOMAIN net_Players_disconnected
               /\ DOMAIN net_Players_disconnected' = DOMAIN net_Players_disconnected \union {i}
               /\ net_Players_disconnected'[i] = r /\ r \in alive'
      /\ \A i \in DOMAIN net_Players_disconnected :
            net_Players_disconnected'[i] = net_Players_disconnected[i]
  <2>1. net_Players_disconnected \in Seq(Id)
    BY ConnectionTypes
  <2>2. CASE net_Players_disconnected' = Append(net_Players_disconnected, r) /\ alive' = alive
    <3>1. /\ net_Players_disconnected' \in Seq(Id)
          /\ Len(net_Players_disconnected) \in Nat
          /\ DOMAIN net_Players_disconnected = 1..Len(net_Players_disconnected)
          /\ DOMAIN net_Players_disconnected' = 1..(Len(net_Players_disconnected) + 1)
          /\ \A i \in 1..Len(net_Players_disconnected) :
                net_Players_disconnected'[i] = net_Players_disconnected[i]
          /\ net_Players_disconnected'[Len(net_Players_disconnected) + 1] = r
      BY <1>2, <2>1, <2>2, AppendProps
    <3>2. /\ Len(net_Players_disconnected) + 1 \notin DOMAIN net_Players_disconnected
          /\ DOMAIN net_Players_disconnected' =
                DOMAIN net_Players_disconnected \union {Len(net_Players_disconnected) + 1}
      BY <3>1
    <3> QED
      BY <1>2, <2>2, <3>1, <3>2
  <2>3. CASE net_Players_disconnected' = net_Players_disconnected
    BY <2>1, <2>3
  <2> QED
    BY <1>3, <2>2, <2>3
<1>6. alive' \subseteq alive /\ alive \ {r} \subseteq alive'
  BY <1>3
<1>7. /\ \A d \in Id : ~Leaving(d)'
      /\ \A d \in Id : Record(d)' = Record(d)
      /\ \A d \in Id : d # c => (Attached(d)' <=> Attached(d)) /\ (Named(d)' <=> Named(d))
      /\ ~Attached(c)' /\ ~Named(c)'
  <2>1. /\ \A d \in Id : ~Leaving(d)' /\ (d # c => ~Leaving(d))
        /\ line' = line /\ found' = found
    BY <1>1, IdAssumption DEF Leaving, wire
  <2> QED
    BY <1>2, <2>1 DEF Attached, Named, Record
<1>8. \A d \in Id : d # c /\ (Attached(d) \/ line[d] = "taken") => Record(d) # r /\ Record(d) \in Id
  BY <1>2, ConnectionTypes DEF IInv, ListsRight
<1>9. UNCHANGED <<SV_Client, m_aDelayedPackets, events, line, found, inbox, asked, answered, avatar, told, fault>>
  BY <1>1 DEF queues, wire, keys, game
<1>10. TypeOK'
  BY <1>1, <1>3, <1>4, <1>5, <1>6, <1>9 DEF IInv, TypeOK
<1>11. ListsRight'
  <2>1. net_Players' \subseteq alive'
    BY <1>3, <1>6, ConnectionTypes
  <2>2. /\ \A d \in Id : Attached(d)' => Record(d) \in net_Players'
        /\ \A x \in net_Players' : \E d \in Id : Attached(d)' /\ Record(d) = x
        /\ \A d, e \in Id : Attached(d)' /\ Attached(e)' /\ Record(d) = Record(e) => d = e
    BY <1>3, <1>7, <1>8 DEF IInv, ListsRight
  <2>3. ASSUME NEW d \in Id, line[d] = "taken"
        PROVE  /\ Record(d) \in alive' \ net_Players'
               /\ \A i \in DOMAIN net_Players_disconnected' : net_Players_disconnected'[i] # Record(d)
               /\ \A e \in Id : line[e] = "taken" /\ Record(e) = Record(d) => e = d
    <3>1. d # c /\ Record(d) # r
      BY <1>2, <1>8, <2>3
    <3>2. /\ Record(d) \in alive \ net_Players
          /\ \A i \in DOMAIN net_Players_disconnected : net_Players_disconnected[i] # Record(d)
          /\ \A e \in Id : line[e] = "taken" /\ Record(e) = Record(d) => e = d
      BY <2>3 DEF IInv, ListsRight
    <3> QED
      BY <1>3, <1>5, <1>6, <3>1, <3>2
  <2> QED
    BY <1>7, <1>9, <2>1, <2>2, <2>3 DEF ListsRight
<1>12. IDsRight'
  <2>1. IDsRight /\ alive \subseteq Id /\ \A d \in Id : client[d].ID \in Id /\ Record(d) \in Id
    BY ConnectionTypes DEF IInv
  <2> QED
    BY <1>4, <1>6, <1>7, <1>9, <2>1 DEF IDsRight
<1>13. LockRight' /\ LeavingOff'
  BY <1>1 DEF LockRight, LeavingOff
<1>14. ServerClientThere'
  <2>1. ServerClientThere /\ net_Players \subseteq Id
    BY ConnectionTypes DEF IInv
  <2> QED
    BY <1>2, <1>3, <1>4, <1>9, <2>1 DEF ServerClientThere
<1>15. DepartedIdle'
  <2>1. \A i \in DOMAIN net_Players_disconnected :
           /\ net_Players_disconnected[i] \in Id /\ net_Players_disconnected[i] # r
           /\ net_Players_disconnected[i] \in alive'
    BY <1>2, <1>6, ConnectionTypes DEF IInv, DepartedIdle
  <2>2. DepartedIdle
    BY DEF IInv
  <2> SUFFICES ASSUME NEW i \in DOMAIN net_Players_disconnected'
               PROVE  LET x == net_Players_disconnected'[i] IN
                      /\ x \in alive' \ net_Players'
                      /\ \A j \in DOMAIN net_Players_disconnected' : net_Players_disconnected'[j] = x => i = j
                      /\ ~client'[x].bConnected /\ ~client'[x].net_Ready /\ client'[x].owner = None
    BY DEF DepartedIdle
  <2>3. CASE i \in DOMAIN net_Players_disconnected /\ net_Players_disconnected'[i] = net_Players_disconnected[i]
    <3>1. \A j \in DOMAIN net_Players_disconnected' :
             net_Players_disconnected'[j] = net_Players_disconnected[i] => i = j
      BY <1>5, <2>1, <2>2, <2>3 DEF DepartedIdle
    <3> QED
      BY <1>3, <1>4, <2>1, <2>2, <2>3, <3>1 DEF DepartedIdle
  <2>4. CASE /\ i \notin DOMAIN net_Players_disconnected
             /\ DOMAIN net_Players_disconnected' = DOMAIN net_Players_disconnected \union {i}
             /\ net_Players_disconnected'[i] = r /\ r \in alive'
    BY <1>2, <1>3, <1>4, <1>5, <2>1, <2>4
  <2> QED
    BY <1>5, <2>3, <2>4
<1>16. PacketsRight'
  <2>1. \A i \in DOMAIN m_aDelayedPackets : m_aDelayedPackets[i] \in Packet
    BY DEF IInv, TypeOK
  <2>2. \A i \in DOMAIN m_aDelayedPackets : m_aDelayedPackets[i].sender \in Id /\ m_aDelayedPackets[i].sender # c
    BY <1>1, <2>1 DEF Packet, NoneWaits
  <2> QED
    BY <1>1, <1>7, <1>9, <2>2 DEF IInv, StagesRight, PacketsRight
<1>17. EventsRight' /\ ToldRight'
  BY <1>1, <1>9 DEF IInv, StagesRight, EventsRight, ToldRight, NewEvent
<1>18. AvatarsRight'
  <2>1. AvatarsRight /\ \A d \in Id : Record(d) \in Id
    BY ConnectionTypes DEF IInv, StagesRight
  <2>2. \A d \in Id : line[d] \in {"taken", "pushed", "update", "in", "joining"} =>
           client'[Record(d)] = client[Record(d)]
    BY <1>2, <1>4, <1>8, <2>1 DEF Attached
  <2> QED
    BY <1>7, <1>9, <2>1, <2>2 DEF AvatarsRight, NewEvent
<1>19. ScoreRight'
  <2>1. ScoreKept'
    <3>1. ScoreKept /\ \A x \in alive : client'[x].score = client[x].score
      BY <1>4, ConnectionTypes DEF IInv, StagesRight, ScoreRight
    <3> QED
      BY <1>6, <1>9, <3>1 DEF ScoreKept
  <2>2. \A d \in Id : Record(d) \in Id
    BY ConnectionTypes
  <2> QED
    BY <1>4, <1>7, <1>9, <2>1, <2>2 DEF IInv, StagesRight, ScoreRight
<1> QED
  BY <1>10, <1>11, <1>12, <1>13, <1>14, <1>15, <1>16, <1>17, <1>18, <1>19 DEF IInv, StagesRight

-----------------------------------------------------------------------------
(* xrServer::Update.                                                       *)

\* csPlayers is taken.
LEMMA StartUpdateInd ==
    ASSUME IInv, NEW t \in Id \union {Main}, StartUpdate(t)
    PROVE  IInv'
<1>1. /\ holder = None /\ at = "outside" /\ holder' = t /\ at' = "packets"
      /\ t = Main \/ line[t] = "update"
      /\ UNCHANGED <<alive, client, lists, queues, wire, keys, game, fault>>
  BY DEF IInv, LockRight, StartUpdate, Free
<1>2. SameRecords /\ SameLeaving /\ NoNewConfig /\ EventsStay
  BY <1>1, IdAssumption DEF SameRecords, SameLeaving, Leaving, NoNewConfig, EventsStay, wire, queues
<1>3. TypeOK'
  BY <1>1 DEF IInv, TypeOK, lists, queues, wire, keys, game
<1>4. ListsRight' /\ IDsRight' /\ ServerClientThere' /\ DepartedIdle'
  BY <1>1, <1>2, ListsFrame, IDsFrame, ServerClientFrame, DepartedFrame DEF IInv, lists, wire
<1>5. LockRight' /\ LeavingOff'
  BY <1>1, IdAssumption DEF LockRight, LeavingOff, wire
<1>6. PacketsRight'
  <2>1. \A i \in DOMAIN m_aDelayedPackets : m_aDelayedPackets[i] \in Packet
    BY DEF IInv, TypeOK
  <2>2. \A i \in DOMAIN m_aDelayedPackets : m_aDelayedPackets[i].sender \in Id
    BY <2>1 DEF Packet
  <2>3. \A d \in Id : Named(d)' <=> Named(d)
    BY <1>1, <1>2 DEF Named, Attached, SameLeaving, wire
  <2> QED
    BY <1>1, <2>2, <2>3 DEF IInv, StagesRight, PacketsRight, queues, wire, game
<1>7. EventsRight' /\ ToldRight'
  BY <1>1 DEF IInv, StagesRight, EventsRight, ToldRight, NewEvent, queues, wire, game
<1>8. AvatarsRight' /\ ScoreRight'
  BY <1>1, <1>2, AvatarsFrame, ScoreFrame DEF IInv, StagesRight, wire, game
<1> QED
  BY <1>3, <1>4, <1>5, <1>6, <1>7, <1>8 DEF IInv, StagesRight

\* Nobody is leaving while the lock is Update's.
LEMMA NobodyLeaves ==
    ASSUME IInv, at # "leaving"
    PROVE  /\ \A d \in Id : ~Leaving(d)
           /\ at' # "leaving" => SameLeaving
           /\ LeavingOff
           /\ at' # "leaving" => LeavingOff'
BY DEF Leaving, SameLeaving, LeavingOff

\* A delayed message: its sender is there, and a request is answered by the
\* connection data and the event that goes with it.
LEMMA DelayedMessageInd ==
    ASSUME IInv, DelayedMessage
    PROVE  IInv'
<1> DEFINE p == Head(m_aDelayedPackets)
           c == p.sender
<1>1. /\ m_aDelayedPackets # <<>> /\ at = "packets" /\ fault = "none"
      /\ m_aDelayedPackets \in Seq(Packet)
      /\ Len(m_aDelayedPackets) \in Nat \ {0}
      /\ DOMAIN m_aDelayedPackets = 1..Len(m_aDelayedPackets) /\ p = m_aDelayedPackets[1] /\ p \in Packet
  <2>1. m_aDelayedPackets # <<>> /\ m_aDelayedPackets \in Seq(Packet)
    BY DEF DelayedMessage, IInv, TypeOK
  <2> QED
    BY <2>1, TailProps DEF DelayedMessage
<1>2. /\ 1 \in DOMAIN m_aDelayedPackets
      /\ c \in Id /\ Named(c) /\ line[c] # "update"
      /\ ID_to_client(c) = {Record(c)}
  <2>1. 1 \in DOMAIN m_aDelayedPackets /\ c \in Id
    BY <1>1 DEF Packet
  <2>2. Named(c) /\ line[c] # "update"
    BY <1>1, <2>1 DEF IInv, StagesRight, PacketsRight
  <2> QED
    BY <2>1, <2>2, OwnRecord
<1>3. \A d \in Id : ~Leaving(d)
  BY <1>1, NobodyLeaves
<1>4. UNCHANGED <<alive, client, lists, holder, line, found, keys, game, fault>>
  BY <1>2 DEF DelayedMessage
<1>5. SameRecords
  BY <1>4 DEF SameRecords
<1>6. CASE p.type = "request"
  <2> DEFINE b == NewEvent("connected", c, None)
  <2>1. /\ inbox' = Sent(c, "config") /\ events' = Append(events, b) /\ at' = "nested"
        /\ m_aDelayedPackets' = m_aDelayedPackets
    BY <1>2, <1>6 DEF DelayedMessage
  <2>2. line[c] = "joining" /\ told[c] = "nothing" /\ "config" \notin inbox[c]
        /\ \A j \in DOMAIN m_aDelayedPackets : m_aDelayedPackets[j] = p => 1 = j
    <3>1. line[c] # "in" /\ line[c] # "gone" /\ line[c] # "pushed"
      BY <1>1, <1>2, <1>3, <1>6 DEF IInv, StagesRight, PacketsRight, Named, Attached
    <3>2. line[c] = "joining"
      BY <1>2, <1>3, <3>1 DEF Named, Attached
    <3> QED
      BY <1>1, <1>2, <1>6, <3>2 DEF IInv, StagesRight, PacketsRight
  <2>3. \A j \in DOMAIN m_aDelayedPackets : m_aDelayedPackets[j].type = "request" /\ j # 1 =>
           m_aDelayedPackets[j].sender # c
    <3>1. \A j \in DOMAIN m_aDelayedPackets : m_aDelayedPackets[j] \in Packet
      BY <1>1
    <3>2. \A q \in Packet : q.sender = p.sender /\ q.type = p.type => q = p
      BY <1>1 DEF Packet
    <3> QED
      BY <1>6, <2>2, <3>1, <3>2
  <2>4. /\ inbox' \in [Id -> SUBSET Answer] /\ \A d \in Id : d # c => inbox'[d] = inbox[d]
    <3>1. inbox \in [Id -> SUBSET Answer] /\ "config" \in Answer
      BY DEF IInv, TypeOK, Answer
    <3> QED
      BY <1>2, <2>1, <3>1 DEF Sent
  <2>5. /\ events' \in Seq(Event) /\ EventsStay
        /\ \E i \in DOMAIN events' : events'[i] = b
        /\ \A i \in DOMAIN events' : \/ i \in DOMAIN events /\ events'[i] = events[i]
                                     \/ /\ i \notin DOMAIN events /\ DOMAIN events' = DOMAIN events \union {i}
                                        /\ events'[i] = b
    <3>1. b \in Event
      BY <1>2 DEF NewEvent, Event
    <3>2. /\ events' \in Seq(Event)
          /\ Len(events) \in Nat /\ DOMAIN events = 1..Len(events)
          /\ DOMAIN events' = 1..(Len(events) + 1)
          /\ \A i \in 1..Len(events) : events'[i] = events[i]
          /\ events'[Len(events) + 1] = b
      BY <2>1, <3>1, AppendProps, ConnectionTypes
    <3>3. Len(events) + 1 \notin DOMAIN events /\ DOMAIN events' = DOMAIN events \union {Len(events) + 1}
      BY <3>2
    <3> QED
      BY <3>2, <3>3 DEF EventsStay
  <2>6. SameLeaving /\ LeavingOff'
    BY <1>1, <2>1, NobodyLeaves
  <2>7. TypeOK'
    BY <1>4, <2>1, <2>4, <2>5 DEF IInv, TypeOK, lists, keys, game
  <2>8. ListsRight' /\ IDsRight' /\ ServerClientThere' /\ DepartedIdle'
    BY <1>4, <1>5, <2>6, ListsFrame, IDsFrame, ServerClientFrame, DepartedFrame DEF IInv, lists
  <2>9. LockRight'
    BY <1>1, <1>4, <1>6, <2>1 DEF IInv, LockRight
  <2>10. PacketsRight'
    <3>1. \A i \in DOMAIN m_aDelayedPackets : m_aDelayedPackets[i] \in Packet
      BY <1>1
    <3>2. \A i \in DOMAIN m_aDelayedPackets : m_aDelayedPackets[i].sender \in Id
      BY <3>1 DEF Packet
    <3>3. \A d \in Id : Named(d)' <=> Named(d)
      BY <1>4, <2>6 DEF Named, Attached, SameLeaving
    <3>4. PacketsRight /\ told' = told
      BY <1>4 DEF IInv, StagesRight, game
    <3> QED
      BY <1>1, <1>4, <2>1, <2>3, <2>4, <3>2, <3>3, <3>4 DEF PacketsRight
  <2>11. EventsRight'
    <3>1. \A i \in DOMAIN events : events[i].type # "connected"
      BY <1>1 DEF IInv, StagesRight, EventsRight
    <3>2. b.type = "connected" /\ b.id = c
      BY DEF NewEvent
    <3> HIDE DEF b
    <3>3. EventsRight /\ UNCHANGED <<told, line, m_aDelayedPackets>>
      BY <1>4, <2>1 DEF IInv, StagesRight, game
    <3> QED
      BY <1>1, <2>1, <2>2, <2>5, <3>1, <3>2, <3>3 DEF EventsRight
  <2>12. ToldRight'
    <3>1. ToldRight /\ UNCHANGED <<told, line, m_aDelayedPackets>>
      BY <1>4, <2>1 DEF IInv, StagesRight, game
    <3> QED
      BY <1>1, <1>2, <2>1, <2>2, <2>4, <2>5, <3>1 DEF ToldRight, EventsStay, NewEvent
  <2>13. AvatarsRight' /\ ScoreRight'
    BY <1>4, <1>5, <2>5, AvatarsFrame, ScoreFrame DEF IInv, StagesRight, game
  <2> QED
    BY <2>6, <2>7, <2>8, <2>9, <2>10, <2>11, <2>12, <2>13 DEF IInv, StagesRight
<1>7. CASE p.type # "request"
  <2>1. UNCHANGED <<inbox, events, at>> /\ m_aDelayedPackets' = Tail(m_aDelayedPackets)
    BY <1>2, <1>7 DEF DelayedMessage
  <2>2. SameLeaving /\ LeavingOff' /\ NoNewConfig /\ EventsStay
    BY <1>1, <2>1, NobodyLeaves DEF NoNewConfig, EventsStay
  <2>3. PacketsRight' /\ m_aDelayedPackets' \in Seq(Packet)
    <3>1. Tail(m_aDelayedPackets) = RemoveAt(m_aDelayedPackets, 1)
      BY <1>1, TailIsRemoveAt
    <3> QED
      BY <1>1, <1>2, <1>4, <2>1, <2>2, <3>1, PacketRemoved DEF IInv, StagesRight, game
  <2>4. TypeOK'
    BY <1>4, <2>1, <2>3 DEF IInv, TypeOK, lists, keys, game
  <2>5. ListsRight' /\ IDsRight' /\ ServerClientThere' /\ DepartedIdle'
    BY <1>4, <1>5, <2>2, ListsFrame, IDsFrame, ServerClientFrame, DepartedFrame DEF IInv, lists
  <2>6. LockRight'
    BY <1>1, <1>4, <2>1 DEF IInv, LockRight
  <2>7. EventsRight' /\ ToldRight'
    BY <1>1, <1>4, <2>1 DEF IInv, StagesRight, EventsRight, ToldRight, NewEvent, game
  <2>8. AvatarsRight' /\ ScoreRight'
    BY <1>4, <1>5, <2>2, AvatarsFrame, ScoreFrame DEF IInv, StagesRight, game
  <2> QED
    BY <2>2, <2>3, <2>4, <2>5, <2>6, <2>7, <2>8 DEF IInv, StagesRight
<1> QED
  BY <1>6, <1>7

\* The end of the queue of events, after a delayed message or in its turn.
LEMMA EventsDoneInd ==
    ASSUME IInv, EventsDone
    PROVE  IInv'
<1>1. /\ at \in {"nested", "events"} /\ events = <<>> /\ at' \in {"packets", "expire"}
      /\ UNCHANGED <<alive, client, lists, events, holder, wire, keys, game, fault>>
  BY DEF EventsDone
<1>2. SameRecords /\ SameLeaving /\ LeavingOff' /\ NoNewConfig /\ EventsStay
  BY <1>1, NobodyLeaves DEF SameRecords, NoNewConfig, EventsStay, wire
<1>3. PacketsRight' /\ m_aDelayedPackets' \in Seq(Packet)
  <2>1. CASE at = "nested"
    <3>1. m_aDelayedPackets # <<>> /\ m_aDelayedPackets \in Seq(Packet)
      BY <2>1 DEF IInv, LockRight, TypeOK
    <3>2. m_aDelayedPackets' = RemoveAt(m_aDelayedPackets, 1)
      BY <2>1, <3>1, TailIsRemoveAt DEF EventsDone
    <3>3. 1 \in DOMAIN m_aDelayedPackets
      BY <3>1
    <3>4. PacketsRight /\ TypeOK /\ UNCHANGED <<line, told, fault>>
      BY <1>1 DEF IInv, StagesRight, wire, game
    <3> QED
      BY <1>1, <1>2, <3>2, <3>3, <3>4, PacketRemoved
  <2>2. CASE at # "nested"
    <3>1. m_aDelayedPackets' = m_aDelayedPackets /\ \A i \in DOMAIN m_aDelayedPackets : m_aDelayedPackets[i] \in Packet
      BY <1>1, <2>2 DEF EventsDone, IInv, TypeOK
    <3>2. \A i \in DOMAIN m_aDelayedPackets : m_aDelayedPackets[i].sender \in Id
      BY <3>1 DEF Packet
    <3>3. PacketsRight /\ UNCHANGED <<line, told, inbox, fault>> /\ \A d \in Id : Named(d)' <=> Named(d)
      BY <1>1, <1>2 DEF IInv, StagesRight, wire, game, Named, Attached, SameLeaving
    <3>4. PacketsRight'
      BY <1>1, <2>2, <3>1, <3>2, <3>3 DEF PacketsRight
    <3> QED
      BY <3>1, <3>4 DEF IInv, TypeOK
  <2> QED
    BY <2>1, <2>2
<1>4. TypeOK'
  BY <1>1, <1>3 DEF IInv, TypeOK, lists, wire, keys, game
<1>5. ListsRight' /\ IDsRight' /\ ServerClientThere' /\ DepartedIdle'
  BY <1>1, <1>2, ListsFrame, IDsFrame, ServerClientFrame, DepartedFrame DEF IInv, lists, wire
<1>6. LockRight'
  BY <1>1 DEF IInv, LockRight, wire
<1>7. EventsRight' /\ ToldRight'
  BY <1>1 DEF IInv, StagesRight, EventsRight, ToldRight, NewEvent, wire, game
<1>8. AvatarsRight' /\ ScoreRight'
  BY <1>1, <1>2, AvatarsFrame, ScoreFrame DEF IInv, StagesRight, wire, game
<1> QED
  BY <1>2, <1>3, <1>4, <1>5, <1>6, <1>7, <1>8 DEF IInv, StagesRight

\* The packets are done with.
LEMMA PacketsDoneInd ==
    ASSUME IInv, PacketsDone
    PROVE  IInv'
<1>1. /\ at = "packets" /\ at' = "events"
      /\ UNCHANGED <<alive, client, lists, queues, holder, wire, keys, game, fault>>
  BY DEF PacketsDone
<1>2. SameRecords /\ SameLeaving /\ LeavingOff' /\ NoNewConfig /\ EventsStay
  BY <1>1, NobodyLeaves DEF SameRecords, NoNewConfig, EventsStay, wire, queues
<1>3. TypeOK'
  BY <1>1 DEF IInv, TypeOK, lists, queues, wire, keys, game
<1>4. ListsRight' /\ IDsRight' /\ ServerClientThere' /\ DepartedIdle'
  BY <1>1, <1>2, ListsFrame, IDsFrame, ServerClientFrame, DepartedFrame DEF IInv, lists, wire
<1>5. LockRight'
  BY <1>1 DEF IInv, LockRight, wire
<1>6. PacketsRight'
  <2>1. \A i \in DOMAIN m_aDelayedPackets : m_aDelayedPackets[i] \in Packet
    BY DEF IInv, TypeOK
  <2>2. \A i \in DOMAIN m_aDelayedPackets : m_aDelayedPackets[i].sender \in Id
    BY <2>1 DEF Packet
  <2>3. PacketsRight /\ UNCHANGED <<line, told, inbox, fault, m_aDelayedPackets>>
        /\ \A d \in Id : Named(d)' <=> Named(d)
    BY <1>1, <1>2 DEF IInv, StagesRight, queues, wire, game, Named, Attached, SameLeaving
  <2> QED
    BY <1>1, <2>2, <2>3 DEF PacketsRight
<1>7. EventsRight' /\ ToldRight'
  BY <1>1 DEF IInv, StagesRight, EventsRight, ToldRight, NewEvent, queues, wire, game
<1>8. AvatarsRight' /\ ScoreRight'
  BY <1>1, <1>2, AvatarsFrame, ScoreFrame DEF IInv, StagesRight, wire, game
<1> QED
  BY <1>2, <1>3, <1>4, <1>5, <1>6, <1>7, <1>8 DEF IInv, StagesRight

\* An event is done with.
LEMMA EventPopped ==
    ASSUME TypeOK, EventsRight, events # <<>>, events' = Tail(events),
           UNCHANGED <<at, m_aDelayedPackets, line>>,
           \A i \in DOMAIN events : i # 1 /\ events[i].type \in {"connected", "disconnected"} =>
               told'[events[i].id] = told[events[i].id]
    PROVE  /\ EventsRight' /\ events' \in Seq(Event)
           /\ \A i \in DOMAIN events : i # 1 => \E j \in DOMAIN events' : events'[j] = events[i]
           /\ 1 \in DOMAIN events /\ Head(events) = events[1] /\ events[1] \in Event
<1>1. events \in Seq(Event)
  BY DEF TypeOK
<1>2. /\ events' \in Seq(Event)
      /\ Len(events) \in Nat \ {0} /\ DOMAIN events = 1..Len(events)
      /\ Head(events) = events[1] /\ events[1] \in Event
      /\ DOMAIN events' = 1..(Len(events) - 1)
      /\ \A i \in 1..(Len(events) - 1) : events'[i] = events[i + 1]
  BY <1>1, TailProps
<1>3. \A i \in DOMAIN events : i # 1 => \E j \in DOMAIN events' : events'[j] = events[i]
  <2> SUFFICES ASSUME NEW i \in DOMAIN events, i # 1
               PROVE  \E j \in DOMAIN events' : events'[j] = events[i]
    OBVIOUS
  <2>1. i - 1 \in DOMAIN events' /\ (i - 1) + 1 = i
    BY <1>2
  <2> QED
    BY <1>2, <2>1
<1> DEFINE old(i) == i + 1
<1>4. /\ \A i \in DOMAIN events' : old(i) \in DOMAIN events /\ old(i) # 1 /\ events'[i] = events[old(i)]
      /\ \A i, j \in DOMAIN events' : old(i) = old(j) => i = j
  BY <1>2
<1> HIDE DEF old
<1>5. EventsRight'
  BY <1>4 DEF EventsRight
<1> QED
  BY <1>2, <1>3, <1>5

\* A record whose bVerified alone is written.
LEMMA VerifiedOnly ==
    ASSUME NEW r \in Id, NEW v \in BOOLEAN, client \in [Id -> Client],
           client' = [client EXCEPT ![r].bVerified = v]
    PROVE  /\ client' \in [Id -> Client]
           /\ \A x \in Id : /\ client'[x].ID = client[x].ID /\ client'[x].net_Ready = client[x].net_Ready
                            /\ client'[x].owner = client[x].owner /\ client'[x].GameID = client[x].GameID
                            /\ client'[x].score = client[x].score /\ client'[x].bReconnect = client[x].bReconnect
                            /\ client'[x].bLocal = client[x].bLocal /\ client'[x].bConnected = client[x].bConnected
<1>1. client[r] \in Client
  OBVIOUS
<1>2. [client[r] EXCEPT !.bVerified = v] \in Client
  BY <1>1 DEF Client
<1>3. client'[r] = [client[r] EXCEPT !.bVerified = v] /\ client' \in [Id -> Client]
      /\ \A x \in Id : x # r => client'[x] = client[x]
  BY <1>2
<1> QED
  BY <1>1, <1>3 DEF Client

\* An event that tells the game nothing of who plays is done with: what the
\* game was told, and the avatars, do not depend on it.
LEMMA WaitingFrame ==
    ASSUME IInv, events # <<>>, events' = Tail(events), Head(events).type \notin {"connected", "disconnected"},
           1 \in DOMAIN events, Head(events) = events[1],
           \A i \in DOMAIN events : i # 1 => \E j \in DOMAIN events' : events'[j] = events[i],
           UNCHANGED <<line, found, told, at, m_aDelayedPackets, avatar>>, NoNewConfig,
           \A x \in Id : client'[x].owner = client[x].owner /\ client'[x].GameID = client[x].GameID
    PROVE  ToldRight' /\ AvatarsRight'
<1>1. \A d \in Id : NewEvent("connected", d, None).type = "connected"
                    /\ NewEvent("disconnected", d, d).type = "disconnected"
  BY DEF NewEvent
<1>2. \A d \in Id : /\ (\E i \in DOMAIN events : events[i] = NewEvent("connected", d, None)) =>
                          \E i \in DOMAIN events' : events'[i] = NewEvent("connected", d, None)
                    /\ (\E i \in DOMAIN events : events[i] = NewEvent("disconnected", d, d)) =>
                          \E i \in DOMAIN events' : events'[i] = NewEvent("disconnected", d, d)
  BY <1>1
<1>3. ToldRight /\ AvatarsRight /\ \A d \in Id : Record(d) \in Id /\ Record(d)' = Record(d)
  BY ConnectionTypes DEF IInv, StagesRight, Record
<1>4. \A d \in Id : NewEvent("connected", d, None)' = NewEvent("connected", d, None)
                    /\ NewEvent("disconnected", d, d)' = NewEvent("disconnected", d, d)
  BY DEF NewEvent
<1>5. ToldRight'
  BY <1>2, <1>3, <1>4 DEF ToldRight, NoNewConfig
<1>6. AvatarsRight'
  BY <1>2, <1>3, <1>4 DEF AvatarsRight
<1> QED
  BY <1>5, <1>6

\* GAME_EVENT_CREATE_CLIENT.
LEMMA CreateClientInd ==
    ASSUME IInv, CreateClient
    PROVE  IInv'
<1> DEFINE c == Head(events).id
           r == Record(c)
           on == [client EXCEPT ![r].bConnected = TRUE]
<1>1. /\ at \in {"nested", "events"} /\ events # <<>> /\ Head(events).type = "create"
      /\ events' = Tail(events)
      /\ UNCHANGED <<net_Players, net_Players_disconnected, m_aDelayedPackets, lock, line, found, keys,
                     alive, game, fault>>
  BY DEF CreateClient, EventStep
<1>2. /\ EventsRight' /\ events' \in Seq(Event)
      /\ \A i \in DOMAIN events : i # 1 => \E j \in DOMAIN events' : events'[j] = events[i]
      /\ 1 \in DOMAIN events /\ Head(events) = events[1] /\ events[1] \in Event
  BY <1>1, EventPopped DEF IInv, StagesRight, lock, game
<1>3. c \in Id
  BY <1>2 DEF Event
<1>4. /\ SameRecords /\ SameLeaving /\ LeavingOff'
      /\ UNCHANGED <<net_Players, net_Players_disconnected, m_aDelayedPackets, line, found, alive, at, holder, told,
                     avatar, asked, answered, fault>>
  BY <1>1, NobodyLeaves DEF SameRecords, lock, game, keys
<1>5. /\ client' \in [Id -> Client]
      /\ \A x \in Id : /\ client'[x].ID = client[x].ID /\ client'[x].net_Ready = client[x].net_Ready
                       /\ client'[x].owner = client[x].owner /\ client'[x].GameID = client[x].GameID
                       /\ client'[x].score = client[x].score /\ client'[x].bReconnect = client[x].bReconnect
      /\ \A x \in Id : x \notin net_Players => client'[x] = client[x]
      /\ ServerClientThere'
      /\ inbox' = inbox \/ inbox' = Sent(c, "key")
  <2>1. ServerClientThere /\ net_Players \subseteq Id /\ client \in [Id -> Client]
    BY ConnectionTypes DEF IInv
  <2>2. CASE ID_to_client(c) = {}
    <3>1. UNCHANGED <<client, SV_Client, inbox>>
      BY <2>2 DEF CreateClient
    <3> QED
      BY <1>4, <2>1, <3>1 DEF ServerClientThere
  <2>3. CASE ID_to_client(c) # {}
    <3>1. ID_to_client(c) = {r} /\ r \in net_Players /\ r \in Id
      BY <1>3, <2>1, <2>3, OwnRecord
    <3>2. /\ client' = [on EXCEPT ![r].bLocal = IsLocal(on, r)]
          /\ SV_Client' = ServerClient(on, r) /\ inbox' = Sent(c, "key")
      BY <2>3, <3>1 DEF CreateClient
    <3>3. /\ on \in [Id -> Client] /\ on[r] = [client[r] EXCEPT !.bConnected = TRUE]
          /\ \A x \in Id : x # r => on[x] = client[x]
      <4>1. client[r] \in Client
        BY <2>1, <3>1
      <4>2. [client[r] EXCEPT !.bConnected = TRUE] \in Client
        BY <4>1 DEF Client
      <4> QED
        BY <2>1, <3>1, <4>2
    <3>4. /\ on[r].bConnected
          /\ \A x \in Id : /\ on[x].ID = client[x].ID /\ on[x].net_Ready = client[x].net_Ready
                           /\ on[x].owner = client[x].owner /\ on[x].GameID = client[x].GameID
                           /\ on[x].score = client[x].score /\ on[x].bReconnect = client[x].bReconnect
                           /\ on[x].bLocal = client[x].bLocal
      <4>1. client[r] \in Client
        BY <2>1, <3>1
      <4> QED
        BY <3>3, <4>1 DEF Client
    <3>5. IsLocal(on, r) \in BOOLEAN
      <4>1. client[r] \in Client
        BY <2>1, <3>1
      <4>2. on[r].bLocal \in BOOLEAN
        BY <3>1, <3>4, <4>1 DEF Client
      <4>3. CASE SV_Client = None /\ on[r].bConnected
        <5>1. on[r].ID \in Local => IsLocal(on, r) = TRUE
          BY <4>3 DEF IsLocal
        <5>2. on[r].ID \notin Local => IsLocal(on, r) = FALSE
          BY <4>3 DEF IsLocal
        <5> QED
          BY <5>1, <5>2
      <4>4. CASE ~(SV_Client = None /\ on[r].bConnected)
        <5>1. IsLocal(on, r) = on[r].bLocal
          BY <4>4 DEF IsLocal
        <5> QED
          BY <4>2, <5>1
      <4> QED
        BY <4>3, <4>4
    <3> HIDE DEF on
    <3>6. /\ client' \in [Id -> Client] /\ \A x \in Id : x # r => client'[x] = on[x]
          /\ client'[r] = [on[r] EXCEPT !.bLocal = IsLocal(on, r)]
      <4>1. on[r] \in Client
        BY <3>1, <3>3
      <4>2. [on[r] EXCEPT !.bLocal = IsLocal(on, r)] \in Client
        BY <3>5, <4>1 DEF Client
      <4> QED
        BY <3>1, <3>2, <3>3, <4>2
    <3>7. /\ client'[r].bLocal = IsLocal(on, r)
          /\ \A x \in Id : /\ client'[x].ID = on[x].ID /\ client'[x].net_Ready = on[x].net_Ready
                           /\ client'[x].owner = on[x].owner /\ client'[x].GameID = on[x].GameID
                           /\ client'[x].score = on[x].score /\ client'[x].bReconnect = on[x].bReconnect
                           /\ client'[x].bConnected = on[x].bConnected
      <4>1. on[r] \in Client
        BY <3>1, <3>3
      <4> QED
        BY <3>6, <4>1 DEF Client
    <3>8. ServerClientThere'
      <4>1. CASE SV_Client = None
        <5>1. /\ SV_Client' = IF on[r].ID \in Local THEN r ELSE None
              /\ client'[r].bLocal = (on[r].ID \in Local)
          BY <4>1, <3>2, <3>4, <3>7 DEF ServerClient, IsLocal
        <5> QED
          BY <5>1, <1>4, <3>1, <3>4, <3>7 DEF ServerClientThere
      <4>2. CASE SV_Client # None
        <5>1. SV_Client' = SV_Client /\ client'[r].bLocal = on[r].bLocal
          BY <4>2, <3>2, <3>4, <3>7 DEF ServerClient, IsLocal
        <5>2. SV_Client \in Id /\ SV_Client \in net_Players /\ client[SV_Client].bLocal /\ client[SV_Client].bConnected
          BY <2>1, <4>2 DEF ServerClientThere
        <5>3. client'[SV_Client].bLocal /\ client'[SV_Client].bConnected
          <6>1. CASE SV_Client = r
            BY <6>1, <5>1, <5>2, <3>4, <3>7
          <6>2. CASE SV_Client # r
            BY <6>2, <5>2, <3>3, <3>6
          <6> QED
            BY <6>1, <6>2
        <5> QED
          BY <5>1, <5>2, <5>3, <1>4 DEF ServerClientThere
      <4> QED
        BY <4>1, <4>2
    <3> QED
      BY <3>1, <3>2, <3>3, <3>4, <3>6, <3>7, <3>8
  <2> QED
    BY <2>2, <2>3
<1>6. SV_Client' \in Id \union {None} /\ inbox' \in [Id -> SUBSET Answer] /\ NoNewConfig
  <2>1. inbox \in [Id -> SUBSET Answer] /\ "key" \in Answer
    BY DEF IInv, TypeOK, Answer
  <2>2. inbox' \in [Id -> SUBSET Answer] /\ NoNewConfig
    BY <1>3, <1>5, <2>1 DEF Sent, NoNewConfig
  <2> QED
    BY <1>4, <1>5, <2>2, ConnectionTypes DEF ServerClientThere
<1>7. TypeOK'
  BY <1>2, <1>4, <1>5, <1>6 DEF IInv, TypeOK
<1>8. ListsRight' /\ IDsRight' /\ LockRight'
  BY <1>4, <1>5, ListsFrame, IDsFrame, LockFrame DEF IInv
<1>9. DepartedIdle'
  <2>1. \A i \in DOMAIN net_Players_disconnected :
           net_Players_disconnected[i] \in Id /\ net_Players_disconnected[i] \notin net_Players
    BY ConnectionTypes DEF IInv, DepartedIdle
  <2> QED
    BY <1>4, <1>5, <2>1 DEF IInv, DepartedIdle
<1>10. PacketsRight'
  BY <1>4, <1>6, PacketsFrame DEF IInv, StagesRight, PacketsRight
<1>11. ToldRight' /\ AvatarsRight'
  BY <1>1, <1>2, <1>4, <1>5, <1>6, WaitingFrame
<1>12. ScoreRight'
  BY <1>4, <1>5, ScoreFrame DEF IInv, StagesRight
<1> QED
  BY <1>2, <1>4, <1>5, <1>7, <1>8, <1>9, <1>10, <1>11, <1>12 DEF IInv, StagesRight

\* GAME_EVENT_PLAYER_AUTH.
LEMMA PlayerAuthInd ==
    ASSUME IInv, PlayerAuth
    PROVE  IInv'
<1> DEFINE c == Head(events).id
           r == Record(c)
<1>1. /\ at \in {"nested", "events"} /\ events # <<>> /\ Head(events).type = "auth"
      /\ UNCHANGED <<net_Players, net_Players_disconnected, m_aDelayedPackets, lock, line, found, keys,
                     alive, SV_Client, game>>
  BY DEF PlayerAuth, EventStep
<1>2. CASE ID_to_client(c) = {}
  <2>1. fault' = "null" /\ UNCHANGED <<events, client, inbox>>
    BY <1>2 DEF PlayerAuth
  <2>2. Fails("null")
    BY <1>1, <2>1 DEF Fails, lists, queues, wire
  <2> QED
    BY <2>2, FailsInd
<1>3. CASE ID_to_client(c) # {}
  <2>1. events' = Tail(events) /\ fault' = fault
    BY <1>3 DEF PlayerAuth
  <2>2. /\ EventsRight' /\ events' \in Seq(Event)
        /\ \A i \in DOMAIN events : i # 1 => \E j \in DOMAIN events' : events'[j] = events[i]
        /\ 1 \in DOMAIN events /\ Head(events) = events[1] /\ events[1] \in Event
    BY <1>1, <2>1, EventPopped DEF IInv, StagesRight, lock, game
  <2>3. c \in Id
    BY <2>2 DEF Event
  <2>4. ID_to_client(c) = {r} /\ r \in net_Players /\ r \in Id
    BY <1>3, <2>3, OwnRecord, ConnectionTypes
  <2>5. /\ SameRecords /\ SameLeaving /\ LeavingOff'
        /\ UNCHANGED <<net_Players, net_Players_disconnected, m_aDelayedPackets, line, found, alive, at, holder, told,
                       avatar, asked, answered, fault, SV_Client>>
    BY <1>1, <2>1, NobodyLeaves DEF SameRecords, lock, game, keys
  <2>6. /\ client' = client \/ client' = [client EXCEPT ![r].bVerified = TRUE]
        /\ inbox' = Sent(c, "result") \/ inbox' = Sent(c, "refused")
    BY <1>3, <2>4 DEF PlayerAuth
  <2>7. /\ client' \in [Id -> Client]
        /\ \A x \in Id : /\ client'[x].ID = client[x].ID /\ client'[x].net_Ready = client[x].net_Ready
                         /\ client'[x].owner = client[x].owner /\ client'[x].GameID = client[x].GameID
                         /\ client'[x].score = client[x].score /\ client'[x].bReconnect = client[x].bReconnect
                         /\ client'[x].bLocal = client[x].bLocal /\ client'[x].bConnected = client[x].bConnected
    <3>1. client \in [Id -> Client] /\ client[r] \in Client
      BY <2>4, ConnectionTypes
    <3>2. CASE client' = [client EXCEPT ![r].bVerified = TRUE]
      BY <2>4, <3>1, <3>2, VerifiedOnly
    <3> QED
      BY <2>6, <3>1, <3>2
  <2>8. inbox' \in [Id -> SUBSET Answer] /\ NoNewConfig
    <3>1. inbox \in [Id -> SUBSET Answer] /\ "result" \in Answer /\ "refused" \in Answer
      BY DEF IInv, TypeOK, Answer
    <3> QED
      BY <2>3, <2>6, <3>1 DEF Sent, NoNewConfig
  <2>9. TypeOK'
    BY <2>2, <2>5, <2>7, <2>8 DEF IInv, TypeOK
  <2>10. ListsRight' /\ IDsRight' /\ LockRight' /\ ServerClientThere' /\ DepartedIdle'
    BY <2>5, <2>7, ListsFrame, IDsFrame, LockFrame, ServerClientFrame, DepartedFrame DEF IInv
  <2>11. PacketsRight'
    BY <2>5, <2>8, PacketsFrame DEF IInv, StagesRight, PacketsRight
  <2>12. ToldRight' /\ AvatarsRight'
    BY <1>1, <2>1, <2>2, <2>5, <2>7, <2>8, WaitingFrame DEF IInv
  <2>13. ScoreRight'
    BY <2>5, <2>7, ScoreFrame DEF IInv, StagesRight
  <2> QED
    BY <2>2, <2>5, <2>9, <2>10, <2>11, <2>12, <2>13 DEF IInv, StagesRight
<1> QED
  BY <1>2, <1>3

\* GAME_EVENT_PLAYER_CONNECTED: the player state is his who returned, or empty.
LEMMA PlayerConnectedInd ==
    ASSUME IInv, PlayerConnected
    PROVE  IInv'
<1> DEFINE c == Head(events).id
           r == Record(c)
<1>1. /\ at \in {"nested", "events"} /\ events # <<>> /\ Head(events).type = "connected"
      /\ UNCHANGED <<net_Players, net_Players_disconnected, m_aDelayedPackets, lock, line, found, keys,
                     alive, SV_Client, inbox, avatar>>
  BY DEF PlayerConnected, EventStep
<1>2. CASE ID_to_client(c) = {}
  <2>1. fault' = "null" /\ UNCHANGED <<events, client, told>>
    BY <1>2 DEF PlayerConnected
  <2>2. Fails("null")
    BY <1>1, <2>1 DEF Fails, lists, queues, wire, game
  <2> QED
    BY <2>2, FailsInd
<1>3. CASE ID_to_client(c) # {}
  <2>1. events' = Tail(events) /\ fault' = fault /\ told' = [told EXCEPT ![c] = "joined"]
    BY <1>3 DEF PlayerConnected
  <2>2. /\ events \in Seq(Event) /\ 1 \in DOMAIN events /\ Head(events) = events[1] /\ events[1] \in Event
    <3>1. events \in Seq(Event)
      BY ConnectionTypes
    <3>2. Len(events) \in Nat \ {0} /\ DOMAIN events = 1..Len(events) /\ Head(events) = events[1] /\ events[1] \in Event
      BY <1>1, <3>1, TailProps
    <3> QED
      BY <3>1, <3>2
  <2>3. c \in Id
    BY <2>2 DEF Event
  <2>4. ID_to_client(c) = {r} /\ r \in net_Players /\ r \in alive /\ r \in Id
    BY <1>3, <2>3, OwnRecord, ConnectionTypes
  <2>5. /\ SameRecords /\ SameLeaving /\ LeavingOff' /\ NoNewConfig
        /\ UNCHANGED <<net_Players, net_Players_disconnected, m_aDelayedPackets, line, found, alive, at, holder,
                       avatar, asked, answered, fault, SV_Client, inbox>>
    BY <1>1, <2>1, NobodyLeaves DEF SameRecords, NoNewConfig, lock, keys
  <2>6. /\ at = "nested" /\ c = m_aDelayedPackets[1].sender /\ told[c] = "nothing"
        /\ \A j \in DOMAIN events : j # 1 => events[j].type # "connected"
    BY <1>1, <2>2 DEF IInv, StagesRight, EventsRight
  <2>7. /\ m_aDelayedPackets # <<>> /\ 1 \in DOMAIN m_aDelayedPackets
        /\ m_aDelayedPackets[1].type = "request"
        /\ \A i \in DOMAIN m_aDelayedPackets : m_aDelayedPackets[i] \in Packet
    BY <2>6 DEF IInv, LockRight, TypeOK
  <2>8. Named(c) /\ line[c] = "joining"
    <3>1. Named(c) /\ line[c] # "update" /\ line[c] # "in"
      BY <2>6, <2>7 DEF IInv, StagesRight, PacketsRight
    <3>2. ~Leaving(c)
      BY <2>6 DEF Leaving
    <3> QED
      BY <3>1, <3>2 DEF Named, Attached
  <2>9. /\ told' \in [Id -> {"nothing", "joined", "playing", "left"}] /\ told'[c] = "joined"
        /\ \A d \in Id : d # c => told'[d] = told[d]
    BY <2>1, <2>3 DEF IInv, TypeOK
  <2>10. \A i \in DOMAIN events : i # 1 /\ events[i].type \in {"connected", "disconnected"} =>
            told'[events[i].id] = told[events[i].id]
    <3>1. \A i \in DOMAIN events : events[i] \in Event
      BY <2>2
    <3>2. \A i \in DOMAIN events : events[i].id \in Id
      BY <3>1 DEF Event
    <3>3. \A i \in DOMAIN events : events[i].type = "disconnected" => events[i].id # c
      BY <2>6 DEF IInv, StagesRight, EventsRight
    <3> QED
      BY <2>6, <2>9, <3>2, <3>3
  <2>11. /\ EventsRight' /\ events' \in Seq(Event)
         /\ \A i \in DOMAIN events : i # 1 => \E j \in DOMAIN events' : events'[j] = events[i]
    BY <1>1, <2>1, <2>5, <2>10, EventPopped DEF IInv, StagesRight
  <2>12. /\ client' \in [Id -> Client] /\ client'[r].score = KeptScore(r)
         /\ \A x \in Id : x # r => client'[x] = client[x]
         /\ \A x \in Id : /\ client'[x].ID = client[x].ID /\ client'[x].net_Ready = client[x].net_Ready
                          /\ client'[x].owner = client[x].owner /\ client'[x].GameID = client[x].GameID
                          /\ client'[x].bReconnect = client[x].bReconnect
                          /\ client'[x].bLocal = client[x].bLocal /\ client'[x].bConnected = client[x].bConnected
    <3>1. client \in [Id -> Client] /\ client[r] \in Client
      BY <2>4, ConnectionTypes
    <3>2. KeptScore(r) \in SUBSET Id
      BY <3>1 DEF KeptScore, Client
    <3>3. client' = [client EXCEPT ![r].score = KeptScore(r)]
      BY <1>3, <2>4 DEF PlayerConnected
    <3>4. [client[r] EXCEPT !.score = KeptScore(r)] \in Client
      BY <3>1, <3>2 DEF Client
    <3>5. client'[r] = [client[r] EXCEPT !.score = KeptScore(r)] /\ client' \in [Id -> Client]
          /\ \A x \in Id : x # r => client'[x] = client[x]
      BY <2>4, <3>1, <3>3, <3>4
    <3> QED
      BY <3>1, <3>5 DEF Client
  <2>13. TypeOK'
    BY <2>5, <2>9, <2>11, <2>12 DEF IInv, TypeOK
  <2>14. ListsRight' /\ IDsRight' /\ LockRight' /\ ServerClientThere' /\ DepartedIdle'
    BY <2>5, <2>12, ListsFrame, IDsFrame, LockFrame, ServerClientFrame, DepartedFrame DEF IInv
  <2>15. PacketsRight'
    <3>1. \A i \in DOMAIN m_aDelayedPackets : m_aDelayedPackets[i].sender \in Id
      BY <2>7 DEF Packet
    <3>2. \A d \in Id : Named(d)' <=> Named(d)
      BY <2>5 DEF Named, Attached, SameLeaving
    <3>3. PacketsRight
      BY DEF IInv, StagesRight
    <3>4. \A i \in DOMAIN m_aDelayedPackets : i # 1 /\ m_aDelayedPackets[i].type = "request" =>
             m_aDelayedPackets[i].sender # c
      <4>1. \A q \in Packet : q.sender = c /\ q.type = "request" => q = m_aDelayedPackets[1]
        BY <2>6, <2>7 DEF Packet
      <4> QED
        BY <2>7, <3>3, <4>1 DEF PacketsRight
    <3> QED
      BY <2>5, <2>6, <2>9, <3>1, <3>2, <3>3, <3>4 DEF PacketsRight
  <2>16. ToldRight'
    <3>1. ToldRight
      BY DEF IInv, StagesRight
    <3>2. \A d \in Id : d # c => ~\E i \in DOMAIN events : events[i] = NewEvent("connected", d, None)
      <4>1. \A d \in Id : NewEvent("connected", d, None).type = "connected" /\ NewEvent("connected", d, None).id = d
        BY DEF NewEvent
      <4> QED
        BY <2>2, <2>6, <4>1
    <3> QED
      BY <2>5, <2>6, <2>8, <2>9, <3>1, <3>2 DEF ToldRight, NewEvent
  <2>17. AvatarsRight'
    <3>1. AvatarsRight /\ \A d \in Id : Record(d) \in Id /\ Record(d)' = Record(d)
      BY <2>5, ConnectionTypes DEF IInv, StagesRight, Record
    <3>2. \A d \in Id : NewEvent("disconnected", d, d).type = "disconnected"
                        /\ NewEvent("disconnected", d, d)' = NewEvent("disconnected", d, d)
      BY DEF NewEvent
    <3>3. \A d \in Id : (\E i \in DOMAIN events : events[i] = NewEvent("disconnected", d, d)) =>
             \E i \in DOMAIN events' : events'[i] = NewEvent("disconnected", d, d)
      BY <1>1, <2>2, <2>11, <3>2
    <3>4. client[r].owner = None
      BY <2>3, <2>6, <2>8, <3>1 DEF AvatarsRight
    <3> QED
      BY <2>5, <2>6, <2>8, <2>9, <2>12, <3>1, <3>2, <3>3, <3>4 DEF AvatarsRight
  <2>18. ScoreRight'
    <3>1. ScoreKept
      BY DEF IInv, StagesRight, ScoreRight
    <3>2. \A x \in Id : {d \in Id : found'[d].cl = x /\ told'[d] \in {"playing", "left"}}
                           = {d \in Id : found[d].cl = x /\ told[d] \in {"playing", "left"}}
      BY <2>5, <2>6, <2>9
    <3>3. KeptScore(r) = {d \in Id : found[d].cl = r /\ told[d] \in {"playing", "left"}}
      <4>1. CASE client[r].bReconnect
        BY <2>4, <3>1, <4>1 DEF ScoreKept, KeptScore
      <4>2. CASE ~client[r].bReconnect
        <5>1. r = c
          BY <2>3, <2>8, <4>2 DEF IInv, StagesRight, ScoreRight
        <5>2. \A d \in Id : d # c => found[d].cl # r
          BY <2>3, <2>8, <5>1, ConnectionTypes DEF IInv, IDsRight
        <5> QED
          BY <2>6, <4>2, <5>2 DEF KeptScore
      <4> QED
        BY <4>1, <4>2
    <3>4. ScoreKept'
      BY <2>4, <2>5, <2>12, <3>1, <3>2, <3>3, ConnectionTypes DEF ScoreKept
    <3> QED
      BY <2>5, <2>12, <3>4, ConnectionTypes DEF IInv, StagesRight, ScoreRight, Record
  <2> QED
    BY <2>5, <2>11, <2>13, <2>14, <2>15, <2>16, <2>17, <2>18 DEF IInv, StagesRight
<1> QED
  BY <1>2, <1>3

\* GAME_EVENT_PLAYER_DISCONNECTED: the game is told that he left, and his entity
\* is the server's client's.
LEMMA PlayerDisconnectedInd ==
    ASSUME IInv, PlayerDisconnected
    PROVE  IInv'
<1> DEFINE e == Head(events)
           c == e.id
<1>1. /\ at \in {"nested", "events"} /\ events # <<>> /\ e.type = "disconnected" /\ events' = Tail(events)
      /\ told' = [told EXCEPT ![c] = "left"]
      /\ UNCHANGED <<net_Players, net_Players_disconnected, m_aDelayedPackets, lock, line, found, keys,
                     alive, client, SV_Client, inbox, fault>>
  BY DEF PlayerDisconnected, EventStep
<1>2. /\ events \in Seq(Event) /\ 1 \in DOMAIN events /\ e = events[1] /\ e \in Event
  <2>1. events \in Seq(Event)
    BY ConnectionTypes
  <2>2. Len(events) \in Nat \ {0} /\ DOMAIN events = 1..Len(events) /\ Head(events) = events[1] /\ events[1] \in Event
    BY <1>1, <2>1, TailProps
  <2> QED
    BY <2>1, <2>2
<1>3. /\ c \in Id /\ line[c] = "gone" /\ told[c] = "playing" /\ e.GameID = c
      /\ \A j \in DOMAIN events : events[j].type = "disconnected" /\ events[j].id = c => j = 1
  BY <1>1, <1>2 DEF IInv, StagesRight, EventsRight, Event
<1>4. /\ told' \in [Id -> {"nothing", "joined", "playing", "left"}] /\ told'[c] = "left"
      /\ \A d \in Id : d # c => told'[d] = told[d]
  BY <1>1, <1>3 DEF IInv, TypeOK
<1>5. avatar' \in [Id -> Avatar] /\ \A d \in Id : avatar'[d].exists = avatar[d].exists
  <2>1. avatar \in [Id -> Avatar] /\ SV_Client \in Id \union {None}
    BY DEF IInv, TypeOK
  <2>2. CASE avatar[c].exists
    <3>1. avatar' = [avatar EXCEPT ![c].owner = SV_Client]
      BY <1>3, <2>2, IdAssumption DEF PlayerDisconnected
    <3>2. avatar[c] \in Avatar
      BY <1>3, <2>1
    <3>3. [avatar[c] EXCEPT !.owner = SV_Client] \in Avatar
          /\ [avatar[c] EXCEPT !.owner = SV_Client].exists = avatar[c].exists
      BY <2>1, <3>2 DEF Avatar
    <3> QED
      BY <1>3, <2>1, <3>1, <3>3
  <2>3. CASE ~avatar[c].exists
    BY <1>3, <2>1, <2>3 DEF PlayerDisconnected
  <2> QED
    BY <2>2, <2>3
<1>6. \A i \in DOMAIN events : i # 1 /\ events[i].type \in {"connected", "disconnected"} =>
         told'[events[i].id] = told[events[i].id]
  <2>1. \A i \in DOMAIN events : events[i] \in Event
    BY <1>2
  <2>2. \A i \in DOMAIN events : events[i].id \in Id
    BY <2>1 DEF Event
  <2>3. \A i \in DOMAIN events : events[i].type = "connected" => events[i].id # c
    BY <1>3 DEF IInv, StagesRight, EventsRight
  <2> QED
    BY <1>3, <1>4, <2>2, <2>3
<1>7. /\ SameRecords /\ SameLeaving /\ LeavingOff' /\ NoNewConfig
      /\ UNCHANGED <<net_Players, net_Players_disconnected, m_aDelayedPackets, line, found, alive, client, at, holder,
                     asked, answered, fault, SV_Client, inbox>>
  BY <1>1, NobodyLeaves DEF SameRecords, NoNewConfig, lock, keys
<1>8. /\ EventsRight' /\ events' \in Seq(Event)
      /\ \A i \in DOMAIN events : i # 1 => \E j \in DOMAIN events' : events'[j] = events[i]
  BY <1>1, <1>6, <1>7, EventPopped DEF IInv, StagesRight
<1>9. TypeOK'
  BY <1>4, <1>5, <1>7, <1>8 DEF IInv, TypeOK
<1>10. ListsRight' /\ IDsRight' /\ LockRight' /\ ServerClientThere' /\ DepartedIdle'
  BY <1>7, ListsFrame, IDsFrame, LockFrame, ServerClientFrame, DepartedFrame DEF IInv
<1>11. PacketsRight'
  <2>1. \A i \in DOMAIN m_aDelayedPackets : m_aDelayedPackets[i] \in Packet
    BY DEF IInv, TypeOK
  <2>2. \A i \in DOMAIN m_aDelayedPackets : m_aDelayedPackets[i].sender \in Id
    BY <2>1 DEF Packet
  <2>3. PacketsRight /\ \A d \in Id : Named(d)' <=> Named(d)
    BY <1>7 DEF IInv, StagesRight, Named, Attached, SameLeaving
  <2>4. \A d \in Id : told[d] = "nothing" => told'[d] = "nothing"
    BY <1>3, <1>4
  <2> QED
    BY <1>7, <2>2, <2>3, <2>4 DEF PacketsRight
<1>12. \A d \in Id : NewEvent("connected", d, None).type = "connected"
                     /\ NewEvent("disconnected", d, d).type = "disconnected"
                     /\ NewEvent("disconnected", d, d).id = d
                     /\ NewEvent("connected", d, None)' = NewEvent("connected", d, None)
                     /\ NewEvent("disconnected", d, d)' = NewEvent("disconnected", d, d)
  BY DEF NewEvent
<1>13. ToldRight'
  <2>1. ToldRight
    BY DEF IInv, StagesRight
  <2>2. \A d \in Id : (\E i \in DOMAIN events : events[i] = NewEvent("connected", d, None)) =>
           \E i \in DOMAIN events' : events'[i] = NewEvent("connected", d, None)
    BY <1>1, <1>2, <1>8, <1>12
  <2>3. \A d \in Id : told[d] = "joined" => told'[d] = "joined"
    BY <1>3, <1>4
  <2>4. \A d \in Id : line[d] \notin {"joining", "gone"} => told'[d] = told[d]
    BY <1>3, <1>4
  <2> QED
    BY <1>7, <1>12, <2>1, <2>2, <2>3, <2>4 DEF ToldRight
<1>14. AvatarsRight'
  <2>1. AvatarsRight /\ \A d \in Id : Record(d) \in Id /\ Record(d)' = Record(d)
    BY <1>7, ConnectionTypes DEF IInv, StagesRight, Record
  <2>2. \A d \in Id : d # c /\ (\E i \in DOMAIN events : events[i] = NewEvent("disconnected", d, d)) =>
           \E i \in DOMAIN events' : events'[i] = NewEvent("disconnected", d, d)
    BY <1>2, <1>8, <1>12
  <2> QED
    BY <1>3, <1>4, <1>5, <1>7, <1>12, <2>1, <2>2 DEF AvatarsRight
<1>15. ScoreRight'
  <2>1. \A x \in Id : {d \in Id : found'[d].cl = x /\ told'[d] \in {"playing", "left"}}
                         = {d \in Id : found[d].cl = x /\ told[d] \in {"playing", "left"}}
    BY <1>3, <1>4, <1>7
  <2>2. ScoreKept'
    BY <1>7, <2>1, ConnectionTypes DEF IInv, StagesRight, ScoreRight, ScoreKept
  <2> QED
    BY <1>7, <2>2, ConnectionTypes DEF IInv, StagesRight, ScoreRight, Record
<1> QED
  BY <1>7, <1>8, <1>9, <1>10, <1>11, <1>13, <1>14, <1>15 DEF IInv, StagesRight

\* Whoever has been gone for too long is forgotten.
LEMMA ExpireInd ==
    ASSUME IInv, Expire
    PROVE  IInv'
<1> DEFINE s == net_Players_disconnected
<1>1. /\ at = "expire"
      /\ UNCHANGED <<client, net_Players, SV_Client, queues, lock, wire, keys, game, fault>>
  BY DEF Expire
<1>2. PICK k \in DOMAIN s : alive' = alive \ {s[k]} /\ net_Players_disconnected' = RemoveAt(s, k)
  BY DEF Expire
<1>3. s \in Seq(Id)
  BY ConnectionTypes
<1>4. /\ net_Players_disconnected' \in Seq(Id)
      /\ Len(s) \in Nat /\ DOMAIN s = 1..Len(s) /\ k \in 1..Len(s)
      /\ DOMAIN net_Players_disconnected' = 1..(Len(s) - 1)
      /\ \A i \in 1..(Len(s) - 1) : net_Players_disconnected'[i] = IF i < k THEN s[i] ELSE s[i + 1]
  BY <1>2, <1>3, RemoveAtProps
<1> DEFINE old(i) == IF i < k THEN i ELSE i + 1
<1>5. /\ \A i \in DOMAIN net_Players_disconnected' :
            old(i) \in DOMAIN s /\ old(i) # k /\ net_Players_disconnected'[i] = s[old(i)]
      /\ \A i, j \in DOMAIN net_Players_disconnected' : old(i) = old(j) => i = j
  BY <1>4
<1> HIDE DEF old
<1>6. /\ s[k] \in Id /\ s[k] \in alive /\ s[k] \notin net_Players
      /\ \A d \in Id : Attached(d) \/ line[d] = "taken" => Record(d) # s[k]
  BY <1>2, DepartedGone
<1>7. SameRecords /\ SameLeaving /\ LeavingOff' /\ NoNewConfig /\ EventsStay
  BY <1>1, NobodyLeaves DEF SameRecords, NoNewConfig, EventsStay, wire, queues, lock
<1>8. TypeOK'
  BY <1>1, <1>2, <1>4 DEF IInv, TypeOK, queues, lock, wire, keys, game
<1>9. \A d \in Id : Record(d) \in Id /\ Record(d)' = Record(d) /\ (Attached(d)' <=> Attached(d))
  BY <1>1, <1>7, ConnectionTypes DEF Record, Attached, SameLeaving, wire
<1>10. ListsRight'
  <2>1. \A d \in Id : line[d] = "taken" => \A i \in DOMAIN net_Players_disconnected' :
           net_Players_disconnected'[i] # Record(d)
    BY <1>5 DEF IInv, ListsRight
  <2>2. /\ net_Players' = net_Players /\ line' = line /\ net_Players \subseteq alive
        /\ \A d \in Id : line[d] = "taken" => Record(d) \in alive \ net_Players
    BY <1>1 DEF wire, IInv, ListsRight
  <2>3. /\ \A c \in Id : Attached(c) => Record(c) \in net_Players
        /\ \A r \in net_Players : \E c \in Id : Attached(c) /\ Record(c) = r
        /\ \A c, d \in Id : Attached(c) /\ Attached(d) /\ Record(c) = Record(d) => c = d
        /\ \A c, d \in Id : line[c] = "taken" /\ line[d] = "taken" /\ Record(d) = Record(c) => c = d
    BY DEF IInv, ListsRight
  <2> QED
    BY <1>2, <1>6, <1>9, <2>1, <2>2, <2>3 DEF ListsRight
<1>11. IDsRight'
  <2>1. IDsRight /\ UNCHANGED <<client, line>> /\ \A r \in Id : client[r].ID \in Id
    BY <1>1, ConnectionTypes DEF IInv, wire
  <2>2. alive \subseteq Id /\ alive' \subseteq alive
    BY <1>2, ConnectionTypes
  <2>3. \A d \in Id : Named(d)' <=> Named(d)
    BY <1>9, <2>1 DEF Named
  <2> QED
    BY <1>7, <1>9, <2>1, <2>2, <2>3 DEF IDsRight, SameLeaving
<1>12. LockRight' /\ ServerClientThere'
  BY <1>1, LockFrame, ServerClientFrame DEF IInv, lock, wire, queues
<1>13. DepartedIdle'
  <2>1. DepartedIdle /\ UNCHANGED <<client, net_Players>>
    BY <1>1 DEF IInv
  <2>2. \A i \in DOMAIN net_Players_disconnected' :
           /\ net_Players_disconnected'[i] \in alive \ net_Players
           /\ net_Players_disconnected'[i] # s[k]
           /\ \A j \in DOMAIN net_Players_disconnected' :
                 net_Players_disconnected'[j] = net_Players_disconnected'[i] => i = j
           /\ ~client[net_Players_disconnected'[i]].bConnected /\ ~client[net_Players_disconnected'[i]].net_Ready
           /\ client[net_Players_disconnected'[i]].owner = None
    BY <1>2, <1>5, <2>1 DEF DepartedIdle
  <2> QED
    BY <1>2, <2>1, <2>2 DEF DepartedIdle
<1>14. PacketsRight' /\ EventsRight' /\ ToldRight'
  BY <1>1, <1>7, PacketsFrame, EventsFrame, ToldFrame
     DEF IInv, StagesRight, PacketsRight, queues, lock, wire, game
<1>15. AvatarsRight'
  BY <1>1, <1>7, AvatarsFrame DEF IInv, StagesRight, wire, game
<1>16. ScoreRight'
  <2>1. ScoreRight /\ UNCHANGED <<client, line, found, told>> /\ alive' \subseteq alive
    BY <1>1, <1>2 DEF IInv, StagesRight, wire, game
  <2> QED
    BY <2>1 DEF ScoreRight, ScoreKept, Record
<1> QED
  BY <1>7, <1>8, <1>10, <1>11, <1>12, <1>13, <1>14, <1>15, <1>16 DEF IInv, StagesRight

\* csPlayers is left; the first client's callback is over too.
LEMMA EndUpdateInd ==
    ASSUME IInv, EndUpdate
    PROVE  IInv'
<1>1. /\ at = "expire" /\ holder' = None /\ at' = "outside"
      /\ line' = IF holder \in Id THEN [line EXCEPT ![holder] = "in"] ELSE line
      /\ UNCHANGED <<alive, client, lists, queues, found, inbox, keys, game, fault>>
  BY DEF EndUpdate
<1>2. line' \in [Id -> Line] /\ \A d \in Id : line'[d] = line[d] \/ (line[d] = "update" /\ line'[d] = "in")
  <2>1. line \in [Id -> Line] /\ (holder = Main \/ line[holder] = "update")
    BY <1>1, ConnectionTypes DEF IInv, LockRight
  <2> QED
    BY <1>1, <2>1, IdAssumption DEF Line
<1>3. SameRecords /\ SameLeaving /\ LeavingOff' /\ NoNewConfig /\ EventsStay
  BY <1>1, NobodyLeaves DEF SameRecords, NoNewConfig, EventsStay, queues
<1>4. TypeOK'
  BY <1>1, <1>2 DEF IInv, TypeOK, lists, queues, keys, game
<1>5. \A d \in Id : /\ Record(d) \in Id /\ Record(d)' = Record(d)
                    /\ (Attached(d)' <=> Attached(d)) /\ (Named(d)' <=> Named(d))
                    /\ (line'[d] = "taken" <=> line[d] = "taken") /\ (line'[d] \in Before <=> line[d] \in Before)
                    /\ (line'[d] \in {"out", "new"} <=> line[d] \in {"out", "new"})
                    /\ (line'[d] = "gone" <=> line[d] = "gone") /\ (line'[d] = "joining" <=> line[d] = "joining")
  BY <1>1, <1>2, <1>3, ConnectionTypes DEF Record, Attached, Named, SameLeaving, Before
<1>6. ListsRight'
  <2>1. ListsRight /\ UNCHANGED <<alive, net_Players, net_Players_disconnected>>
    BY <1>1 DEF IInv, lists
  <2> QED
    BY <1>5, <2>1 DEF ListsRight
<1>7. IDsRight'
  <2>1. IDsRight /\ UNCHANGED <<client, alive>> /\ alive \subseteq Id /\ \A r \in Id : client[r].ID \in Id
    BY <1>1, ConnectionTypes DEF IInv
  <2> QED
    BY <1>3, <1>5, <2>1 DEF IDsRight, SameLeaving
<1>8. LockRight' /\ ServerClientThere' /\ DepartedIdle'
  BY <1>1, ServerClientFrame, DepartedFrame DEF IInv, LockRight, lists
<1>9. PacketsRight'
  <2>1. \A i \in DOMAIN m_aDelayedPackets : m_aDelayedPackets[i] \in Packet
    BY DEF IInv, TypeOK
  <2>2. \A i \in DOMAIN m_aDelayedPackets : m_aDelayedPackets[i].sender \in Id
    BY <2>1 DEF Packet
  <2>3. PacketsRight /\ UNCHANGED <<m_aDelayedPackets, told, inbox, fault>>
    BY <1>1 DEF IInv, StagesRight, queues, game
  <2>4. \A i \in DOMAIN m_aDelayedPackets : line'[m_aDelayedPackets[i].sender] = line[m_aDelayedPackets[i].sender]
    BY <1>2, <2>2, <2>3 DEF PacketsRight
  <2> QED
    BY <1>1, <1>5, <2>2, <2>3, <2>4 DEF PacketsRight
<1>10. EventsRight'
  <2>1. \A i \in DOMAIN events : events[i] \in Event
    BY ConnectionTypes
  <2>2. \A i \in DOMAIN events : events[i].id \in Id
    BY <2>1 DEF Event
  <2>3. EventsRight /\ UNCHANGED <<events, told, m_aDelayedPackets>>
    BY <1>1 DEF IInv, StagesRight, queues, game
  <2> QED
    BY <1>1, <1>5, <2>2, <2>3 DEF EventsRight
<1>11. ToldRight'
  <2>1. ToldRight /\ UNCHANGED <<events, told, inbox>>
    BY <1>1 DEF IInv, StagesRight, queues, game
  <2> QED
    BY <1>1, <1>5, <2>1 DEF ToldRight, NewEvent
<1>12. AvatarsRight'
  <2>1. AvatarsRight /\ UNCHANGED <<events, told, avatar, client>>
    BY <1>1 DEF IInv, StagesRight, queues, game
  <2>2. \A d \in Id : line'[d] \in {"taken", "pushed", "update", "in"} => line[d] \in {"taken", "pushed", "update", "in"}
    BY <1>2
  <2> QED
    BY <1>5, <2>1, <2>2 DEF AvatarsRight, NewEvent
<1>13. ScoreRight'
  <2>1. ScoreRight /\ UNCHANGED <<alive, client, found, told>>
    BY <1>1 DEF IInv, StagesRight, game
  <2>2. \A d \in Id : line'[d] \in {"taken", "pushed", "update", "in", "joining"} =>
           line[d] \in {"taken", "pushed", "update", "in", "joining"}
    BY <1>2
  <2> QED
    BY <2>1, <2>2 DEF ScoreRight, ScoreKept, Record
<1> QED
  BY <1>3, <1>4, <1>6, <1>7, <1>8, <1>9, <1>10, <1>11, <1>12, <1>13 DEF IInv, StagesRight

-----------------------------------------------------------------------------
(* The CD key library.                                                     *)

\* The library has the answer, and looks the client up.
LEMMA KeyAnsweredInd ==
    ASSUME IInv, NEW c \in Id, KeyAnswered(c)
    PROVE  IInv'
<1>1. /\ UNCHANGED <<alive, client, lists, queues, lock, wire, game, fault>>
      /\ asked' = asked \ {c} /\ answered' \in ID_to_client(c)
  BY DEF KeyAnswered
<1>2. SameRecords /\ SameLeaving /\ NoNewConfig /\ EventsStay
  BY <1>1 DEF SameRecords, SameLeaving, Leaving, NoNewConfig, EventsStay, lock, wire, queues
<1>3. TypeOK'
  BY <1>1 DEF IInv, TypeOK, ID_to_client, lists, queues, lock, wire, game
<1>4. ListsRight' /\ IDsRight' /\ LockRight' /\ LeavingOff' /\ ServerClientThere' /\ DepartedIdle'
  BY <1>1, <1>2, ListsFrame, IDsFrame, LockFrame, LeavingFrame, ServerClientFrame, DepartedFrame
     DEF IInv, lists, queues, lock, wire
<1>5. PacketsRight' /\ EventsRight' /\ ToldRight'
  BY <1>1, <1>2, PacketsFrame, EventsFrame, ToldFrame
     DEF IInv, StagesRight, PacketsRight, queues, lock, wire, game
<1>6. AvatarsRight' /\ ScoreRight'
  BY <1>1, <1>2, AvatarsFrame, ScoreFrame DEF IInv, StagesRight, wire, game
<1> QED
  BY <1>3, <1>4, <1>5, <1>6 DEF IInv, StagesRight

\* ... and goes on with the client it found, who may be gone by now.
LEMMA KeyCheckedInd ==
    ASSUME IInv, KeyChecked
    PROVE  IInv'
<1> DEFINE c == client[answered].ID
<1>1. CASE answered \notin alive
  BY <1>1, FailsInd DEF KeyChecked
<1>2. CASE answered \in alive
  <2>1. /\ answered' = None
        /\ UNCHANGED <<alive, lists, queues, lock, line, found, asked, game, fault>>
    BY <1>2 DEF KeyChecked
  <2>2. /\ client' = client \/ client' = [client EXCEPT ![answered].bVerified = ~AuthCheck]
        /\ \E m \in {"auth", "result", "refused"} : inbox' = Sent(c, m)
    BY <1>2 DEF KeyChecked
  <2>3. answered \in Id /\ c \in Id
    BY <1>2, ConnectionTypes
  <2>4. /\ client' \in [Id -> Client]
        /\ \A x \in Id : /\ client'[x].ID = client[x].ID /\ client'[x].net_Ready = client[x].net_Ready
                         /\ client'[x].owner = client[x].owner /\ client'[x].GameID = client[x].GameID
                         /\ client'[x].score = client[x].score /\ client'[x].bReconnect = client[x].bReconnect
                         /\ client'[x].bLocal = client[x].bLocal /\ client'[x].bConnected = client[x].bConnected
    <3>1. client \in [Id -> Client] /\ (~AuthCheck) \in BOOLEAN
      BY ConnectionTypes
    <3>2. CASE client' = [client EXCEPT ![answered].bVerified = ~AuthCheck]
      BY <2>3, <3>1, <3>2, VerifiedOnly
    <3> QED
      BY <2>2, <3>1, <3>2
  <2>5. inbox' \in [Id -> SUBSET Answer] /\ NoNewConfig
    <3>1. inbox \in [Id -> SUBSET Answer] /\ {"auth", "result", "refused"} \subseteq Answer
      BY DEF IInv, TypeOK, Answer
    <3> QED
      BY <2>2, <2>3, <3>1 DEF Sent, NoNewConfig
  <2>6. SameRecords /\ SameLeaving /\ EventsStay
    BY <2>1 DEF SameRecords, SameLeaving, Leaving, EventsStay, lock, queues
  <2>7. TypeOK'
    BY <2>1, <2>4, <2>5 DEF IInv, TypeOK, lists, queues, lock, game
  <2>8. ListsRight' /\ IDsRight' /\ LockRight' /\ LeavingOff' /\ ServerClientThere' /\ DepartedIdle'
    BY <2>1, <2>4, <2>6, ListsFrame, IDsFrame, LockFrame, LeavingFrame, ServerClientFrame, DepartedFrame
       DEF IInv, lists, queues, lock
  <2>9. PacketsRight' /\ EventsRight' /\ ToldRight'
    BY <2>1, <2>5, <2>6, PacketsFrame, EventsFrame, ToldFrame
       DEF IInv, StagesRight, PacketsRight, queues, lock, game
  <2>10. AvatarsRight' /\ ScoreRight'
    BY <2>1, <2>4, <2>6, AvatarsFrame, ScoreFrame DEF IInv, StagesRight, game
  <2> QED
    BY <2>7, <2>8, <2>9, <2>10 DEF IInv, StagesRight
<1> QED
  BY <1>1, <1>2

-----------------------------------------------------------------------------
(* The theorems.                                                           *)

\* A step that changes nothing.
LEMMA StutterInd ==
    ASSUME IInv, UNCHANGED vars
    PROVE  IInv'
<1>1. UNCHANGED <<alive, client, lists, queues, lock, wire, keys, game, fault>>
  BY DEF vars, lists, queues, lock, wire, keys, game
<1>2. SameRecords /\ SameLeaving /\ NoNewConfig /\ EventsStay
  BY <1>1 DEF SameRecords, SameLeaving, Leaving, NoNewConfig, EventsStay, lock, wire, queues
<1>3. TypeOK'
  BY <1>1 DEF IInv, TypeOK, lists, queues, lock, wire, keys, game
<1>4. ListsRight' /\ IDsRight' /\ LockRight' /\ LeavingOff' /\ ServerClientThere' /\ DepartedIdle'
  BY <1>1, <1>2, ListsFrame, IDsFrame, LockFrame, LeavingFrame, ServerClientFrame, DepartedFrame
     DEF IInv, lists, queues, lock, wire
<1>5. PacketsRight' /\ EventsRight' /\ ToldRight'
  BY <1>1, <1>2, PacketsFrame, EventsFrame, ToldFrame
     DEF IInv, StagesRight, PacketsRight, queues, lock, wire, game
<1>6. AvatarsRight' /\ ScoreRight'
  BY <1>1, <1>2, AvatarsFrame, ScoreFrame DEF IInv, StagesRight, wire, game
<1> QED
  BY <1>3, <1>4, <1>5, <1>6 DEF IInv, StagesRight

\* Every step keeps the invariant.
LEMMA NextInd ==
    ASSUME IInv, [Next]_vars
    PROVE  IInv'
<1>1. ASSUME NEW c \in Id, Connect(c)
      PROVE  IInv'
  BY <1>1, FindClientInd, TakeClientInd, PushClientInd, NameClientInd DEF Connect
<1>2. ASSUME NEW c \in Id, Receive(c)
      PROVE  IInv'
  BY <1>2, AnswerKeyInd, AnswerAuthInd, RequestDataInd, SendCommandInd, ClientReadyInd DEF Receive
<1>3. ASSUME NEW c \in Id, Leave(c)
      PROVE  IInv'
  BY <1>3, DisconnectInd, DropPacketInd, DestroyClientInd DEF Leave
<1>4. CASE UpdateStep
  BY <1>4, DelayedMessageInd, EventsDoneInd, PacketsDoneInd, ExpireInd, EndUpdateInd,
     CreateClientInd, PlayerAuthInd, PlayerConnectedInd, PlayerDisconnectedInd DEF UpdateStep, Event1
<1> QED
  BY <1>1, <1>2, <1>3, <1>4, KeyAnsweredInd, StartUpdateInd, KeyCheckedInd, StutterInd DEF Next, Stopped

\* A server nobody has come to yet.
LEMMA InitInd == Init => IInv
<1> SUFFICES ASSUME Init
             PROVE  IInv
  OBVIOUS
<1>1. \A c \in Id : FreshClient(c) \in Client
  BY DEF FreshClient, Client
<1>2. TypeOK
  BY <1>1 DEF Init, TypeOK, Line, Avatar
<1>3. \A c \in Id : line[c] = "out" /\ Record(c) = c /\ ~Leaving(c) /\ ~Attached(c) /\ ~Named(c)
  BY DEF Init, Record, Leaving, Attached, Named
<1>4. ListsRight /\ IDsRight /\ LockRight /\ LeavingOff /\ ServerClientThere /\ DepartedIdle
  BY <1>3 DEF Init, ListsRight, IDsRight, LockRight, LeavingOff, ServerClientThere, DepartedIdle
<1>5. PacketsRight /\ EventsRight /\ ToldRight /\ AvatarsRight /\ ScoreRight
  BY <1>3 DEF Init, PacketsRight, EventsRight, ToldRight, AvatarsRight, ScoreRight, ScoreKept
<1> QED
  BY <1>2, <1>4, <1>5 DEF IInv, StagesRight

\* Lists, records, queues, clients and game fit together, always.
THEOREM Invariance == Spec => []IInv
<1>1. Init => IInv
  BY InitInd
<1>2. IInv /\ [Next]_vars => IInv'
  BY NextInd
<1> QED
  BY <1>1, <1>2, PTL DEF Spec

\* Every variable keeps its type.
THEOREM TypeCorrect == Spec => []TypeOK
<1>1. IInv => TypeOK
  BY DEF IInv
<1> QED
  BY <1>1, Invariance, PTL

\* Every delayed packet's sender is found when it is processed.
THEOREM SendersFound == Spec => []SendersThere
<1>1. ASSUME IInv
      PROVE  SendersThere
  <2>1. \A i \in DOMAIN m_aDelayedPackets : m_aDelayedPackets[i] \in Packet
    BY <1>1 DEF IInv, TypeOK
  <2>2. \A i \in DOMAIN m_aDelayedPackets : m_aDelayedPackets[i].sender \in Id /\ Named(m_aDelayedPackets[i].sender)
    BY <1>1, <2>1 DEF Packet, IInv, StagesRight, PacketsRight
  <2>3. fault # "assert"
    BY <1>1 DEF IInv, StagesRight, PacketsRight
  <2> QED
    BY <1>1, <2>2, <2>3, OwnRecord DEF SendersThere
<1> QED
  BY <1>1, Invariance, PTL

\* The server's client is one who is connected, and local.
THEOREM ServerClientConnected == Spec => []ServerClientThere
<1>1. IInv => ServerClientThere
  BY DEF IInv
<1> QED
  BY <1>1, Invariance, PTL

\* Whoever may return is out of the game until then.
THEOREM DepartedOut == Spec => []DepartedIdle
<1>1. IInv => DepartedIdle
  BY DEF IInv
<1> QED
  BY <1>1, Invariance, PTL

\* No avatar stays behind without its player and without the game being told.
THEOREM GhostsFree == Spec => []NoGhosts
<1>1. ASSUME IInv
      PROVE  NoGhosts
  <2>1. \A c \in Id : line[c] = "joining" => Record(c) \in ID_to_client(c)
    BY <1>1, OwnRecord, LinkedNamed DEF Linked
  <2> QED
    BY <1>1, <2>1 DEF IInv, StagesRight, AvatarsRight, NoGhosts
<1> QED
  BY <1>1, Invariance, PTL

\* A player state is its client's own, through all of his connections.
THEOREM ScoresKept == Spec => []ScoreKept
<1>1. IInv => ScoreKept
  BY DEF IInv, StagesRight, ScoreRight
<1> QED
  BY <1>1, Invariance, PTL

\* What a step tells the game.
LEMMA StepTells ==
    ASSUME IInv, [Next]_vars, told' # told
    PROVE  \E c \in Id : \E to \in {"joined", "playing", "left"} :
              /\ told' = [told EXCEPT ![c] = to]
              /\ <<told[c], to>> \in {<<"nothing", "joined">>, <<"joined", "playing">>, <<"playing", "left">>}
<1>1. CASE PlayerConnected
  <2>1. events # <<>> /\ Head(events).type = "connected" /\ told' = [told EXCEPT ![Head(events).id] = "joined"]
    BY <1>1 DEF PlayerConnected, EventStep
  <2>2. 1 \in DOMAIN events /\ Head(events) = events[1] /\ events[1] \in Event
    <3>1. Len(events) \in Nat \ {0} /\ DOMAIN events = 1..Len(events) /\ Head(events) = events[1] /\ events[1] \in Event
      BY <2>1, ConnectionTypes, TailProps
    <3> QED
      BY <3>1
  <2>3. Head(events).id \in Id /\ told[Head(events).id] = "nothing"
    BY <2>1, <2>2 DEF Event, IInv, StagesRight, EventsRight
  <2> QED
    BY <2>1, <2>3
<1>2. CASE PlayerDisconnected
  <2>1. events # <<>> /\ Head(events).type = "disconnected" /\ told' = [told EXCEPT ![Head(events).id] = "left"]
    BY <1>2 DEF PlayerDisconnected, EventStep
  <2>2. 1 \in DOMAIN events /\ Head(events) = events[1] /\ events[1] \in Event
    <3>1. Len(events) \in Nat \ {0} /\ DOMAIN events = 1..Len(events) /\ Head(events) = events[1] /\ events[1] \in Event
      BY <2>1, ConnectionTypes, TailProps
    <3> QED
      BY <3>1
  <2>3. Head(events).id \in Id /\ told[Head(events).id] = "playing"
    BY <2>1, <2>2 DEF Event, IInv, StagesRight, EventsRight
  <2> QED
    BY <2>1, <2>3
<1>3. ASSUME NEW c \in Id, ClientReady(c)
      PROVE  told' = [told EXCEPT ![c] = "playing"] /\ told[c] = "joined"
  <2>1. Free /\ "config" \in inbox[c] /\ told' = [told EXCEPT ![c] = "playing"]
    BY <1>3 DEF ClientReady
  <2>2. at = "outside"
    BY <2>1 DEF Free, IInv, LockRight
  <2>3. told[c] = "joined"
    BY <2>1, <2>2 DEF IInv, StagesRight, ToldRight, EventsRight, NewEvent
  <2> QED
    BY <2>1, <2>3
<1>4. ASSUME NEW c \in Id, Connect(c) \/ Leave(c) \/ KeyAnswered(c) \/ (Receive(c) /\ ~ClientReady(c))
      PROVE  FALSE
  BY <1>4 DEF Connect, Leave, Receive, FindClient, TakeClient, PushClient, NameClient, AnswerKey, AnswerAuth,
     RequestData, SendCommand, Disconnect, DropPacket, DestroyClient, KeyAnswered, Fails, game
<1>5. ASSUME UpdateStep, ~PlayerConnected, ~PlayerDisconnected
      PROVE  FALSE
  BY <1>5 DEF UpdateStep, Event1, DelayedMessage, EventsDone, PacketsDone, CreateClient, PlayerAuth, Expire,
     EndUpdate, Fails, game
<1>6. ~KeyChecked /\ ~Stopped /\ ~UNCHANGED vars /\ \A t \in Id \union {Main} : ~StartUpdate(t)
  BY DEF KeyChecked, Stopped, StartUpdate, Fails, game, vars
<1>7. \/ \E c \in Id : ClientReady(c)
      \/ PlayerConnected \/ PlayerDisconnected
  BY <1>4, <1>5, <1>6 DEF Next, Receive
<1>8. CASE \E c \in Id : ClientReady(c)
  BY <1>3, <1>8
<1> QED
  BY <1>1, <1>2, <1>7, <1>8

\* The game is told of each connection in order, each thing once.
THEOREM OrderKept == Spec => ToldInOrder
<1> DEFINE Right == \A c \in Id : <<told[c], told'[c]>> \in
                {<<"nothing", "joined">>, <<"joined", "playing">>, <<"playing", "left">>, <<told[c], told[c]>>}
<1>1. IInv /\ [Next]_vars => [Right]_told
  <2> SUFFICES ASSUME IInv, [Next]_vars, told' # told
               PROVE  Right
    OBVIOUS
  <2>1. told \in [Id -> {"nothing", "joined", "playing", "left"}]
    BY DEF IInv, TypeOK
  <2>2. PICK c \in Id : \E to \in {"joined", "playing", "left"} :
              /\ told' = [told EXCEPT ![c] = to]
              /\ <<told[c], to>> \in {<<"nothing", "joined">>, <<"joined", "playing">>, <<"playing", "left">>}
    BY StepTells
  <2>3. \A d \in Id : d # c => told'[d] = told[d]
    BY <2>1, <2>2
  <2>4. <<told[c], told'[c]>> \in {<<"nothing", "joined">>, <<"joined", "playing">>, <<"playing", "left">>}
    BY <2>1, <2>2
  <2> QED
    BY <2>3, <2>4
<1> QED
  BY <1>1, Invariance, PTL DEF Spec, ToldInOrder
=============================================================================
