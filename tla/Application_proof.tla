--------------------------- MODULE Application_proof ---------------------------
(***************************************************************************)
(* For any number of addresses a level may be at: the list of listeners    *)
(* and the walk over it stay in order whatever the handlers do (Walked),   *)
(* so that the list keeps what Listeners promises; and as long as nothing  *)
(* is asked for while something else is under way, the application is in   *)
(* one of the few situations of Quiet, from which the rest follows.        *)
(***************************************************************************)
EXTENDS Application, FiniteSetTheorems, WellFoundedInduction, TLAPS

-----------------------------------------------------------------------------
(* The list.                                                               *)

Entry == [Object : Object, Prio : (1..5) \cup {INVALID}]

List == {q \in [R : Seq(Entry), in_process : BOOLEAN, changed : BOOLEAN] :
            \A i \in 1..Len(q.R) : q.R[i].Prio \in {INVALID, Prio[q.R[i].Object]}}

\* Those who are listed from the beginning to the end.
Fixed == {"application", "persistent", "input"}

\* r is q after calls of Add and Remove in the middle of a walk.
Evolves(q, r) ==
    /\ r \in List /\ r.in_process = q.in_process /\ Len(q.R) <= Len(r.R)
    /\ \A i \in 1..Len(q.R) : /\ r.R[i].Object = q.R[i].Object
                              /\ r.R[i].Prio \in {INVALID, q.R[i].Prio}
                              /\ q.R[i].Object \in Fixed => r.R[i].Prio = q.R[i].Prio
    /\ r.changed \/ r = q

LEMMA ObjectsAre ==
    /\ None \notin Object /\ None \notin Address /\ Address \subseteq Object /\ "console" \in Object
    /\ "console" \notin Address /\ Engine \subseteq Object /\ \A a \in Address : a \notin Engine
    /\ Fixed \subseteq Engine /\ "console" \notin Fixed /\ \A a \in Address : a \notin Fixed
BY AddressAssumption DEF Object, Engine, None, Fixed

LEMMA PriosAre ==
    /\ \A o \in Object : Prio[o] \in 1..5
    /\ Prio["application"] = 5 /\ Prio["persistent"] = 4 /\ Prio["input"] = 3 /\ Prio["menu"] = 1
    /\ Prio["console"] = 2 /\ \A a \in Address : Prio[a] = 2
    /\ \A o \in Object : /\ Prio[o] = 5 => o = "application"
                         /\ Prio[o] = 4 => o = "persistent"
                         /\ Prio[o] = 3 => o = "input"
<1>1. \A o \in Object : Prio[o] = CASE o = "application" -> 5 [] o = "persistent"  -> 4
                                    [] o = "input" -> 3 [] o = "menu" -> 1 [] OTHER -> 2
  BY DEF Prio
<1> QED
  BY <1>1, ObjectsAre DEF Engine

LEMMA EvolvesItself == ASSUME NEW q \in List PROVE Evolves(q, q)
BY DEF Evolves, List, Entry

LEMMA EvolvesOn ==
    ASSUME NEW p \in List, NEW q, NEW r, Evolves(p, q), Evolves(q, r)
    PROVE  Evolves(p, r)
<1>1. Len(p.R) \in Nat /\ Len(q.R) \in Nat /\ Len(r.R) \in Nat
  BY DEF Evolves, List
<1>2. \A i \in 1..Len(p.R) : i \in 1..Len(q.R)
  BY <1>1 DEF Evolves
<1>3. \A i \in 1..Len(p.R) : /\ r.R[i].Object = p.R[i].Object
                              /\ r.R[i].Prio \in {INVALID, p.R[i].Prio}
                              /\ p.R[i].Object \in Fixed => r.R[i].Prio = p.R[i].Prio
  BY <1>2 DEF Evolves
<1> QED
  BY <1>1, <1>3 DEF Evolves

LEMMA ListedIs ==
    ASSUME NEW q \in List
    PROVE  /\ Listed(q) \subseteq Object
           /\ \A o : o \in Listed(q) <=> \E i \in 1..Len(q.R) : q.R[i].Object = o /\ q.R[i].Prio # INVALID
           /\ \A o : o \in Listed(q) <=> \E i \in 1..Len(q.R) : q.R[i] = [Object |-> o, Prio |-> Prio[o]]
<1>1. DOMAIN q.R = 1..Len(q.R)
  BY DEF List
<1>2. \A i \in 1..Len(q.R) : q.R[i] \in Entry /\ q.R[i].Prio \in {INVALID, Prio[q.R[i].Object]}
  BY DEF List
<1>3. \A o : o \in Listed(q) <=> \E i \in 1..Len(q.R) : q.R[i].Object = o /\ q.R[i].Prio # INVALID
  BY <1>1 DEF Listed, IsValid
<1>4. \A i \in 1..Len(q.R) : q.R[i] = [Object |-> q.R[i].Object, Prio |-> q.R[i].Prio]
  BY <1>2 DEF Entry
<1>5. \A o : o \in Listed(q) => \E i \in 1..Len(q.R) : q.R[i] = [Object |-> o, Prio |-> Prio[o]]
  BY <1>2, <1>3, <1>4
<1>6. Listed(q) \subseteq Object
  BY <1>2, <1>3 DEF Entry
<1>7. ASSUME NEW o, NEW i \in 1..Len(q.R), q.R[i] = [Object |-> o, Prio |-> Prio[o]]
      PROVE  o \in Listed(q)
  <2>1. o \in Object
    BY <1>2, <1>7 DEF Entry
  <2> QED
    BY <1>3, <1>7, <2>1, PriosAre DEF INVALID
<1> QED
  BY <1>3, <1>5, <1>6, <1>7

LEMMA TwiceIs ==
    ASSUME NEW q \in List
    PROVE  Twice(q) <=> \E i, j \in 1..Len(q.R) : /\ i < j /\ q.R[i].Prio # INVALID /\ q.R[j].Prio # INVALID
                                                  /\ q.R[i].Object = q.R[j].Object
<1>1. \A i \in 1..Len(q.R) : q.R[i] \in Entry /\ q.R[i].Prio \in {INVALID, Prio[q.R[i].Object]}
  BY DEF List
<1>2. DOMAIN q.R = 1..Len(q.R)
  BY DEF List
<1>3. \A i, j \in 1..Len(q.R) : q.R[i] = q.R[j] <=> q.R[i].Object = q.R[j].Object /\ q.R[i].Prio = q.R[j].Prio
  BY <1>1 DEF Entry
<1> QED
  BY <1>1, <1>2, <1>3 DEF Twice, IsValid

LEMMA AddDoes ==
    ASSUME NEW q \in List, NEW o \in Object
    PROVE  LET r == AddTo(q, o, Prio[o]) IN
           /\ Evolves(q, r) /\ Listed(r) = Listed(q) \cup {o}
           /\ Twice(r) => Twice(q) \/ o \in Listed(q)
<1> DEFINE e == [Object |-> o, Prio |-> Prio[o]]
           r == AddTo(q, o, Prio[o])
<1>0. q.R \in Seq(Entry) /\ e \in Entry /\ e.Prio # INVALID /\ e.Object = o /\ e.Prio = Prio[o]
  BY PriosAre DEF List, Entry, INVALID
<1> HIDE DEF e
<1>1. r.R = Append(q.R, e) /\ r.changed = TRUE /\ r.in_process = q.in_process
      /\ r = [R |-> Append(q.R, e), in_process |-> q.in_process, changed |-> TRUE]
  <2>1. q \in [R : Seq(Entry), in_process : BOOLEAN, changed : BOOLEAN]
    BY DEF List
  <2>2. r = [q EXCEPT !.R = Append(@, e), !.changed = TRUE]
    BY DEF AddTo, e
  <2> HIDE DEF r, e
  <2> QED
    BY <2>1, <2>2
<1> HIDE DEF r
<1>2. r.R \in Seq(Entry) /\ Len(r.R) = Len(q.R) + 1 /\ r.R[Len(q.R) + 1] = e /\ \A i \in 1..Len(q.R) : r.R[i] = q.R[i]
  BY <1>0, <1>1
<1>3. Len(q.R) \in Nat /\ q.in_process \in BOOLEAN
  BY <1>0 DEF List
<1>4. r \in List
  <2>1. \A i \in 1..Len(r.R) : r.R[i].Prio \in {INVALID, Prio[r.R[i].Object]}
    BY <1>0, <1>2, <1>3 DEF List
  <2> QED
    BY <1>1, <1>2, <1>3, <2>1 DEF List
<1>5. Evolves(q, r)
  BY <1>1, <1>2, <1>3, <1>4 DEF Evolves
<1>6. Listed(r) = Listed(q) \cup {o}
  <2>1. \A i : i \in 1..Len(r.R) <=> i \in 1..Len(q.R) \/ i = Len(q.R) + 1
    BY <1>2, <1>3
  <2>2. \A x : x \in Listed(r) <=> x \in Listed(q) \/ x = o
    <3>1. \A x : x \in Listed(r) <=> \E i \in 1..Len(r.R) : r.R[i].Object = x /\ r.R[i].Prio # INVALID
      BY <1>4, ListedIs
    <3>2. \A x : x \in Listed(q) <=> \E i \in 1..Len(q.R) : q.R[i].Object = x /\ q.R[i].Prio # INVALID
      BY ListedIs
    <3>3. Len(q.R) + 1 \in 1..Len(r.R)
      BY <1>2, <1>3
    <3>4. ASSUME NEW x, x \in Listed(r) PROVE x \in Listed(q) \/ x = o
      <4>1. PICK i \in 1..Len(r.R) : r.R[i].Object = x /\ r.R[i].Prio # INVALID
        BY <3>1, <3>4
      <4>2. CASE i \in 1..Len(q.R)
        BY <1>2, <3>2, <4>1, <4>2
      <4>3. CASE i = Len(q.R) + 1
        BY <1>0, <1>2, <4>1, <4>3
      <4> QED
        BY <2>1, <4>2, <4>3
    <3>5. ASSUME NEW x, x \in Listed(q) PROVE x \in Listed(r)
      <4>1. PICK i \in 1..Len(q.R) : q.R[i].Object = x /\ q.R[i].Prio # INVALID
        BY <3>2, <3>5
      <4>2. i \in 1..Len(r.R) /\ r.R[i] = q.R[i]
        BY <1>2, <2>1, <4>1
      <4> QED
        BY <3>1, <4>1, <4>2
    <3>6. o \in Listed(r)
      BY <1>0, <1>2, <3>1, <3>3
    <3> QED
      BY <3>4, <3>5, <3>6
  <2> QED
    BY <2>2
<1>7. Twice(r) => Twice(q) \/ o \in Listed(q)
  <2> SUFFICES ASSUME NEW i \in 1..Len(r.R), NEW j \in 1..Len(r.R), i < j, r.R[i].Prio # INVALID,
                      r.R[j].Prio # INVALID, r.R[i].Object = r.R[j].Object
               PROVE  Twice(q) \/ o \in Listed(q)
    BY <1>4, TwiceIs
  <2>1. i \in 1..Len(q.R)
    BY <1>2, <1>3
  <2>2. CASE j \in 1..Len(q.R)
    <3>1. r.R[i] = q.R[i] /\ r.R[j] = q.R[j]
      BY <1>2, <2>1, <2>2
    <3> QED
      BY <2>1, <2>2, <3>1, TwiceIs
  <2>3. CASE j = Len(q.R) + 1
    BY <1>0, <1>2, <2>1, <2>3, ListedIs
  <2> QED
    BY <1>2, <1>3, <2>2, <2>3
<1> QED
  BY <1>5, <1>6, <1>7 DEF r

LEMMA RemoveDoes ==
    ASSUME NEW q \in List, NEW o, o \notin Fixed
    PROVE  LET r == RemoveFrom(q, o) IN
           Evolves(q, r) /\ Listed(r) = Listed(q) \ {o} /\ (Twice(r) => Twice(q))
<1> DEFINE R == [i \in DOMAIN q.R |-> IF q.R[i].Object = o THEN [q.R[i] EXCEPT !.Prio = INVALID] ELSE q.R[i]]
           r == RemoveFrom(q, o)
<1>0. q.R \in Seq(Entry) /\ DOMAIN q.R = 1..Len(q.R) /\ Len(q.R) \in Nat /\ q.in_process \in BOOLEAN
  BY DEF List
<1>1. r.R = R /\ r.changed = TRUE /\ r.in_process = q.in_process
      /\ r = [R |-> R, in_process |-> q.in_process, changed |-> TRUE]
  <2>1. q \in [R : Seq(Entry), in_process : BOOLEAN, changed : BOOLEAN]
    BY DEF List
  <2>2. r = [q EXCEPT !.R = R, !.changed = TRUE]
    BY DEF RemoveFrom
  <2> HIDE DEF r, R
  <2> QED
    BY <2>1, <2>2
<1>2. \A i \in 1..Len(q.R) : /\ R[i] \in Entry /\ R[i].Object = q.R[i].Object
                             /\ R[i].Prio = IF q.R[i].Object = o THEN INVALID ELSE q.R[i].Prio
  <2> SUFFICES ASSUME NEW i \in 1..Len(q.R)
               PROVE  /\ R[i] \in Entry /\ R[i].Object = q.R[i].Object
                      /\ R[i].Prio = IF q.R[i].Object = o THEN INVALID ELSE q.R[i].Prio
    OBVIOUS
  <2>1. q.R[i] \in Entry /\ R[i] = IF q.R[i].Object = o THEN [q.R[i] EXCEPT !.Prio = INVALID] ELSE q.R[i]
    BY <1>0
  <2> HIDE DEF R
  <2> QED
    BY <2>1 DEF Entry
<1>3. R \in Seq(Entry) /\ Len(R) = Len(q.R)
  <2>1. R \in [1..Len(q.R) -> Entry]
    <3>1. DOMAIN R = 1..Len(q.R) /\ R = [i \in DOMAIN R |-> R[i]]
      BY <1>0
    <3> HIDE DEF R
    <3> QED
      BY <1>2, <3>1
  <2> HIDE DEF R
  <2> QED
    BY <1>0, <2>1
<1> HIDE DEF R, r
<1>4. r \in List
  <2>1. \A i \in 1..Len(R) : R[i].Prio \in {INVALID, Prio[R[i].Object]}
    BY <1>2, <1>3 DEF List
  <2> QED
    BY <1>0, <1>1, <1>3, <2>1 DEF List
<1>5. Evolves(q, r)
  BY <1>0, <1>1, <1>2, <1>3, <1>4 DEF Evolves
<1>6. Listed(r) = Listed(q) \ {o}
  <2>1. \A x : x \in Listed(r) <=> x \in Listed(q) /\ x # o
    BY <1>1, <1>2, <1>3, <1>4, ListedIs
  <2> QED
    BY <2>1
<1>7. Twice(r) => Twice(q)
  BY <1>1, <1>2, <1>3, <1>4, TwiceIs
<1> QED
  BY <1>5, <1>6, <1>7 DEF r

-----------------------------------------------------------------------------
(* What the calls do to the record of what they share.                     *)

Menu == [active : BOOLEAN, saving : BOOLEAN, shot : -2..1, restoreConsole : BOOLEAN, restorePause : BOOLEAN]

Record == [list : List, level : Address \cup {None}, menu : Menu, visible : BOOLEAN, paused : BOOLEAN]

\* Who has gone is not listed, and the console is while it is seen.
Right(s) ==
    /\ s \in Record
    /\ \A a \in Address : a \in Listed(s.list) => a = s.level
    /\ s.visible <=> "console" \in Listed(s.list)

Heard(s) == s.level \in Listed(s.list)

\* r is s but for the console, which is listed or not.
Consoled(s, r) ==
    /\ Right(r) /\ Evolves(s.list, r.list)
    /\ r.level = s.level /\ r.menu = s.menu /\ r.paused = s.paused
    /\ Heard(r) <=> Heard(s)
    /\ Twice(r.list) => Twice(s.list)

LEMMA ListenDoes ==
    ASSUME NEW s \in Record, NEW o \in Object
    PROVE  LET r == Listen(s, o) IN
           /\ r \in Record /\ Evolves(s.list, r.list) /\ Listed(r.list) = Listed(s.list) \cup {o}
           /\ Twice(r.list) => Twice(s.list) \/ o \in Listed(s.list)
           /\ r.level = s.level /\ r.menu = s.menu /\ r.visible = s.visible /\ r.paused = s.paused
<1> DEFINE q == AddTo(s.list, o, Prio[o])
<1>1. s.list \in List
  BY DEF Record
<1>2. /\ Evolves(s.list, q) /\ Listed(q) = Listed(s.list) \cup {o}
      /\ Twice(q) => Twice(s.list) \/ o \in Listed(s.list)
  BY <1>1, AddDoes
<1>3. Listen(s, o) = [s EXCEPT !.list = q]
  BY DEF Listen
<1> HIDE DEF q
<1>4. q \in List
  BY <1>2 DEF Evolves
<1> QED
  BY <1>2, <1>3, <1>4 DEF Record

LEMMA UnlistenDoes ==
    ASSUME NEW s \in Record, NEW o, o \notin Fixed
    PROVE  LET r == Unlisten(s, o) IN
           /\ r \in Record /\ Evolves(s.list, r.list) /\ Listed(r.list) = Listed(s.list) \ {o}
           /\ Twice(r.list) => Twice(s.list)
           /\ r.level = s.level /\ r.menu = s.menu /\ r.visible = s.visible /\ r.paused = s.paused
<1> DEFINE q == RemoveFrom(s.list, o)
<1>1. s.list \in List
  BY DEF Record
<1>2. /\ Evolves(s.list, q) /\ Listed(q) = Listed(s.list) \ {o}
      /\ Twice(q) => Twice(s.list)
  BY <1>1, RemoveDoes
<1>3. Unlisten(s, o) = [s EXCEPT !.list = q]
  BY DEF Unlisten
<1> HIDE DEF q
<1>4. q \in List
  BY <1>2 DEF Evolves
<1> QED
  BY <1>2, <1>3, <1>4 DEF Record

LEMMA ConsoledItself == ASSUME NEW s, Right(s) PROVE Consoled(s, s)
BY EvolvesItself DEF Consoled, Right, Record

LEMMA ShowDoes ==
    ASSUME NEW s, Right(s)
    PROVE  Consoled(s, Show(s)) /\ Show(s).visible = TRUE
<1>1. CASE s.visible
  BY <1>1, ConsoledItself DEF Show, Right, Record
<1>2. CASE ~s.visible
  <2> DEFINE t == [s EXCEPT !.visible = TRUE]
             r == Listen(t, "console")
  <2>1. t \in Record /\ t.list = s.list /\ t.level = s.level /\ t.menu = s.menu /\ t.paused = s.paused /\ t.visible = TRUE
    BY DEF Right, Record
  <2>2. Show(s) = r
    BY <1>2 DEF Show
  <2> HIDE DEF t
  <2>3. /\ r \in Record /\ Evolves(s.list, r.list) /\ Listed(r.list) = Listed(s.list) \cup {"console"}
        /\ Twice(r.list) => Twice(s.list) \/ "console" \in Listed(s.list)
        /\ r.level = s.level /\ r.menu = s.menu /\ r.visible = TRUE /\ r.paused = s.paused
    BY <2>1, ListenDoes, ObjectsAre
  <2> HIDE DEF r
  <2>4. Heard(r) <=> Heard(s)
    <3>1. s.level # "console"
      BY ObjectsAre DEF Right, Record, None
    <3> QED
      BY <2>3, <3>1 DEF Heard
  <2> QED
    BY <1>2, <2>2, <2>3, <2>4, ObjectsAre DEF Consoled, Right
<1>3. s.visible \in BOOLEAN
  BY DEF Right, Record
<1> QED
  BY <1>1, <1>2, <1>3

LEMMA HideDoes ==
    ASSUME NEW s, Right(s)
    PROVE  Consoled(s, Hide(s)) /\ Hide(s).visible = FALSE
<1>1. CASE ~s.visible
  BY <1>1, ConsoledItself DEF Hide, Right, Record
<1>2. CASE s.visible
  <2> DEFINE t == [s EXCEPT !.visible = FALSE]
             r == Unlisten(t, "console")
  <2>1. t \in Record /\ t.list = s.list /\ t.level = s.level /\ t.menu = s.menu /\ t.paused = s.paused /\ t.visible = FALSE
    BY DEF Right, Record
  <2>2. Hide(s) = r
    BY <1>2 DEF Hide
  <2> HIDE DEF t
  <2>3. /\ r \in Record /\ Evolves(s.list, r.list) /\ Listed(r.list) = Listed(s.list) \ {"console"}
        /\ Twice(r.list) => Twice(s.list)
        /\ r.level = s.level /\ r.menu = s.menu /\ r.visible = FALSE /\ r.paused = s.paused
    BY <2>1, UnlistenDoes, ObjectsAre
  <2> HIDE DEF r
  <2>4. Heard(r) <=> Heard(s)
    <3>1. s.level # "console"
      BY ObjectsAre DEF Right, Record, None
    <3> QED
      BY <2>3, <3>1 DEF Heard
  <2> QED
    BY <1>2, <2>2, <2>3, <2>4, ObjectsAre DEF Consoled, Right
<1>3. s.visible \in BOOLEAN
  BY DEF Right, Record
<1> QED
  BY <1>1, <1>2, <1>3

\* Whoever only sets what is not listed.
Set(s, m, p) == [s EXCEPT !.menu = m, !.paused = p]

LEMMA SetDoes ==
    ASSUME NEW s, Right(s), NEW m \in Menu, NEW p \in BOOLEAN
    PROVE  LET r == Set(s, m, p) IN
           /\ Right(r) /\ r.list = s.list /\ r.level = s.level /\ r.menu = m /\ r.paused = p /\ r.visible = s.visible
           /\ Heard(r) <=> Heard(s)
<1>1. Set(s, m, p) = [s EXCEPT !.menu = m, !.paused = p]
  BY DEF Set
<1> QED
  BY <1>1 DEF Right, Record, Heard

\* The level listed or not; everything else the same.
LEMMA LevelListens ==
    ASSUME NEW s, Right(s), s.level # None
    PROVE  LET r == Listen(s, s.level) IN
           /\ Right(r) /\ Evolves(s.list, r.list) /\ Heard(r)
           /\ Twice(r.list) => Twice(s.list) \/ Heard(s)
           /\ r.level = s.level /\ r.menu = s.menu /\ r.visible = s.visible /\ r.paused = s.paused
<1> DEFINE r == Listen(s, s.level)
<1>1. s \in Record /\ s.level \in Address /\ s.level \in Object /\ s.level # "console"
  BY ObjectsAre DEF Right, Record
<1>2. /\ r \in Record /\ Evolves(s.list, r.list) /\ Listed(r.list) = Listed(s.list) \cup {s.level}
      /\ Twice(r.list) => Twice(s.list) \/ s.level \in Listed(s.list)
      /\ r.level = s.level /\ r.menu = s.menu /\ r.visible = s.visible /\ r.paused = s.paused
  BY <1>1, ListenDoes
<1> HIDE DEF r
<1>3. Right(r) /\ Heard(r)
  BY <1>1, <1>2 DEF Right, Heard
<1> QED
  BY <1>2, <1>3 DEF Heard, r

LEMMA LevelSilent ==
    ASSUME NEW s, Right(s), s.level # None
    PROVE  LET r == Unlisten(s, s.level) IN
           /\ Right(r) /\ Evolves(s.list, r.list) /\ ~Heard(r)
           /\ Twice(r.list) => Twice(s.list)
           /\ r.level = s.level /\ r.menu = s.menu /\ r.visible = s.visible /\ r.paused = s.paused
<1> DEFINE r == Unlisten(s, s.level)
<1>1. s \in Record /\ s.level \in Address /\ s.level \in Object /\ s.level # "console"
  BY ObjectsAre DEF Right, Record
<1>2. /\ r \in Record /\ Evolves(s.list, r.list) /\ Listed(r.list) = Listed(s.list) \ {s.level}
      /\ Twice(r.list) => Twice(s.list)
      /\ r.level = s.level /\ r.menu = s.menu /\ r.visible = s.visible /\ r.paused = s.paused
  BY <1>1, UnlistenDoes, ObjectsAre
<1> HIDE DEF r
<1>3. Right(r) /\ ~Heard(r)
  BY <1>1, <1>2 DEF Right, Heard
<1> QED
  BY <1>2, <1>3 DEF r

LEMMA DeletedDoes ==
    ASSUME NEW s, Right(s), s.level # None
    PROVE  LET r == Deleted(s) IN
           /\ Right(r) /\ Evolves(s.list, r.list) /\ r.level = None /\ ~Heard(r)
           /\ Twice(r.list) => Twice(s.list)
           /\ r.menu = s.menu /\ r.visible = s.visible /\ r.paused = s.paused
<1> DEFINE u == Unlisten(s, s.level)
           r == Deleted(s)
<1>1. /\ Right(u) /\ Evolves(s.list, u.list) /\ ~Heard(u) /\ (Twice(u.list) => Twice(s.list))
      /\ u.level = s.level /\ u.menu = s.menu /\ u.visible = s.visible /\ u.paused = s.paused
  BY LevelSilent
<1>2. r = [u EXCEPT !.level = None]
  BY DEF Deleted
<1> HIDE DEF u
<1>3. /\ r \in Record /\ r.list = u.list /\ r.level = None /\ r.menu = u.menu
      /\ r.visible = u.visible /\ r.paused = u.paused
  BY <1>1, <1>2 DEF Right, Record
<1> HIDE DEF r
<1>4. None \notin Listed(r.list)
  BY <1>3, ListedIs, ObjectsAre DEF Record
<1>5. Right(r) /\ ~Heard(r)
  BY <1>1, <1>3, <1>4 DEF Right, Heard
<1> QED
  BY <1>1, <1>3, <1>5 DEF r

\* The menu has been opened.
Opened(s, r) ==
    /\ Right(r) /\ Evolves(s.list, r.list) /\ r.level = s.level /\ (Twice(r.list) => Twice(s.list))
    /\ Refuses(s, TRUE) => r = s
    /\ ~Refuses(s, TRUE) =>
          /\ r.menu \in Menu /\ r.menu.active = TRUE /\ r.menu.saving = s.menu.saving /\ r.menu.shot = s.menu.shot
          /\ r.menu.restorePause = IF IsGameTypeSingle THEN s.paused ELSE s.menu.restorePause
          /\ r.paused = (s.paused \/ IsGameTypeSingle)
          /\ r.visible = FALSE
          /\ Heard(r) <=> Heard(s) /\ ~IsGameTypeSingle

LEMMA MenuOnDoes ==
    ASSUME NEW s, Right(s)
    PROVE  Opened(s, MenuOn(s))
<1> DEFINE m == [s.menu EXCEPT !.active = TRUE, !.restoreConsole = s.visible,
                               !.restorePause = IF IsGameTypeSingle THEN s.paused ELSE @]
           p == s.paused \/ IsGameTypeSingle
           t == Set(s, m, p)
           h == Hide(t)
           r == MenuOn(s)
<1>0. s \in Record /\ s.menu \in Menu /\ s.list \in List
  BY DEF Right, Record
<1>1. Refuses(s, TRUE) => r = s
  BY DEF MenuOn
<1>2. CASE Refuses(s, TRUE)
  BY <1>0, <1>1, <1>2, EvolvesItself DEF Opened
<1>3. CASE ~Refuses(s, TRUE)
  <2>1. r = IF s.level # None /\ IsGameTypeSingle THEN Unlisten(h, s.level) ELSE h
    <3>1. t = [s EXCEPT !.menu.active = TRUE, !.menu.restoreConsole = s.visible,
                        !.menu.restorePause = IF IsGameTypeSingle THEN s.paused ELSE @,
                        !.paused = @ \/ IsGameTypeSingle]
      BY <1>0 DEF Record, Menu, Set
    <3> HIDE DEF m, p, t
    <3> QED
      BY <1>3, <3>1 DEF MenuOn
  <2>2. /\ m \in Menu /\ m.active = TRUE /\ m.saving = s.menu.saving /\ m.shot = s.menu.shot
        /\ m.restorePause = IF IsGameTypeSingle THEN s.paused ELSE s.menu.restorePause
        /\ p \in BOOLEAN
    BY <1>0 DEF Record, Menu
  <2> HIDE DEF m, p
  <2>3. /\ Right(t) /\ t.list = s.list /\ t.level = s.level /\ t.menu = m /\ t.paused = p
        /\ Heard(t) <=> Heard(s)
    BY <2>2, SetDoes
  <2> HIDE DEF t
  <2>4. Consoled(t, h) /\ h.visible = FALSE
    BY <2>3, HideDoes
  <2> HIDE DEF h
  <2>5. /\ Right(h) /\ Evolves(s.list, h.list) /\ h.level = s.level /\ h.menu = m /\ h.paused = p
        /\ (Heard(h) <=> Heard(s)) /\ (Twice(h.list) => Twice(s.list))
    BY <2>3, <2>4 DEF Consoled
  <2>6. CASE s.level # None /\ IsGameTypeSingle
    <3> DEFINE u == Unlisten(h, h.level)
    <3>1. r = u
      BY <2>1, <2>5, <2>6
    <3>2. /\ Right(u) /\ Evolves(h.list, u.list) /\ ~Heard(u) /\ (Twice(u.list) => Twice(h.list))
          /\ u.level = h.level /\ u.menu = h.menu /\ u.visible = h.visible /\ u.paused = h.paused
      BY <2>5, <2>6, LevelSilent
    <3> HIDE DEF u
    <3>3. Evolves(s.list, u.list)
      BY <1>0, <2>5, <3>2, EvolvesOn
    <3> QED
      BY <1>3, <2>2, <2>4, <2>5, <2>6, <3>1, <3>2, <3>3 DEF Opened, p, IsGameTypeSingle
  <2>7. CASE ~(s.level # None /\ IsGameTypeSingle)
    <3>1. r = h
      BY <2>1, <2>7
    <3>2. s.level = None => ~Heard(s)
      BY <1>0, ListedIs, ObjectsAre DEF Heard
    <3> QED
      BY <1>3, <2>2, <2>4, <2>5, <2>7, <3>1, <3>2 DEF Opened, p, IsGameTypeSingle
  <2> QED
    BY <2>6, <2>7
<1> QED
  BY <1>2, <1>3

\* The menu has been closed.
Closed(s, r) ==
    /\ Right(r) /\ Evolves(s.list, r.list) /\ r.level = s.level
    /\ Twice(r.list) => Twice(s.list) \/ (Heard(s) /\ IsGameTypeSingle)
    /\ Refuses(s, FALSE) => r = s
    /\ ~Refuses(s, FALSE) =>
          /\ r.menu \in Menu /\ r.menu.active = FALSE /\ r.menu.saving = s.menu.saving /\ r.menu.shot = s.menu.shot
          /\ r.menu.restorePause = s.menu.restorePause
          /\ r.paused = (s.paused /\ ~(IsGameTypeSingle /\ ~s.menu.restorePause))
          /\ Heard(r) <=> Heard(s) \/ (s.level # None /\ IsGameTypeSingle)

LEMMA MenuOffDoes ==
    ASSUME NEW s, Right(s)
    PROVE  Closed(s, MenuOff(s))
<1> DEFINE m == [s.menu EXCEPT !.active = FALSE]
           off == Set(s, m, s.paused)
           again == IF s.visible THEN Show(Hide(off)) ELSE off
           back == IF s.level # None /\ IsGameTypeSingle THEN Listen(again, s.level) ELSE again
           shown == IF s.menu.restoreConsole THEN Show(back) ELSE back
           p == s.paused /\ ~(IsGameTypeSingle /\ ~s.menu.restorePause)
           last == Set(shown, m, p)
           r == MenuOff(s)
<1>0. s \in Record /\ s.menu \in Menu /\ s.list \in List /\ s.paused \in BOOLEAN
  BY DEF Right, Record
<1>1. Refuses(s, FALSE) => r = s
  BY DEF MenuOff
<1>2. CASE Refuses(s, FALSE)
  BY <1>0, <1>1, <1>2, EvolvesItself DEF Closed
<1>3. CASE ~Refuses(s, FALSE)
  <2>1. r = [shown EXCEPT !.paused = @ /\ ~(IsGameTypeSingle /\ ~s.menu.restorePause)]
    <3>1. off = [s EXCEPT !.menu.active = FALSE]
      BY <1>0 DEF Record, Menu, Set
    <3> HIDE DEF off
    <3> QED
      BY <1>3, <3>1 DEF MenuOff
  <2>2. m \in Menu /\ m.active = FALSE /\ m.saving = s.menu.saving /\ m.shot = s.menu.shot
        /\ m.restorePause = s.menu.restorePause /\ p \in BOOLEAN
    BY <1>0 DEF Record, Menu
  <2> HIDE DEF m
  <2>3. /\ Right(off) /\ off.list = s.list /\ off.level = s.level /\ off.menu = m /\ off.paused = s.paused
        /\ (Heard(off) <=> Heard(s))
    BY <1>0, <2>2, SetDoes
  <2> HIDE DEF off
  <2>4. Consoled(off, again)
    <3>1. CASE s.visible
      <4>1. Consoled(off, Hide(off)) /\ Right(Hide(off))
        BY <2>3, HideDoes DEF Consoled
      <4>2. Consoled(Hide(off), Show(Hide(off)))
        BY <4>1, ShowDoes
      <4>3. Evolves(off.list, Show(Hide(off)).list)
        <5>1. off.list \in List
          BY <1>0, <2>3
        <5> QED
          BY <4>1, <4>2, <5>1, EvolvesOn DEF Consoled
      <4>4. again = Show(Hide(off))
        BY <3>1
      <4> HIDE DEF again
      <4> QED
        BY <4>1, <4>2, <4>3, <4>4 DEF Consoled
    <3>2. CASE ~s.visible
      BY <2>3, <3>2, ConsoledItself
    <3> QED
      BY <3>1, <3>2
  <2> HIDE DEF again
  <2>5. /\ Right(again) /\ Evolves(s.list, again.list) /\ again.level = s.level /\ again.menu = m
        /\ again.paused = s.paused /\ (Heard(again) <=> Heard(s)) /\ (Twice(again.list) => Twice(s.list))
    BY <2>3, <2>4 DEF Consoled
  <2>6. /\ Right(back) /\ Evolves(s.list, back.list) /\ back.level = s.level /\ back.menu = m
        /\ back.paused = s.paused /\ (Heard(back) <=> Heard(s) \/ (s.level # None /\ IsGameTypeSingle))
        /\ Twice(back.list) => Twice(s.list) \/ (Heard(s) /\ IsGameTypeSingle)
    <3>1. CASE s.level # None /\ IsGameTypeSingle
      <4> DEFINE u == Listen(again, again.level)
      <4>1. back = u
        BY <2>5, <3>1
      <4>2. /\ Right(u) /\ Evolves(again.list, u.list) /\ Heard(u)
            /\ Twice(u.list) => Twice(again.list) \/ Heard(again)
            /\ u.level = again.level /\ u.menu = again.menu /\ u.paused = again.paused
        BY <2>5, <3>1, LevelListens
      <4> HIDE DEF u, back
      <4>3. Evolves(s.list, u.list)
        BY <1>0, <2>5, <4>2, EvolvesOn
      <4> QED
        BY <2>5, <3>1, <4>1, <4>2, <4>3
    <3>2. CASE ~(s.level # None /\ IsGameTypeSingle)
      <4>1. back = again
        BY <3>2
      <4> HIDE DEF back
      <4> QED
        BY <2>5, <3>2, <4>1
    <3> QED
      BY <3>1, <3>2
  <2> HIDE DEF back
  <2>7. /\ Right(shown) /\ Evolves(s.list, shown.list) /\ shown.level = s.level /\ shown.menu = m
        /\ shown.paused = s.paused /\ (Heard(shown) <=> Heard(s) \/ (s.level # None /\ IsGameTypeSingle))
        /\ Twice(shown.list) => Twice(s.list) \/ (Heard(s) /\ IsGameTypeSingle)
    <3>1. CASE s.menu.restoreConsole
      <4>1. Consoled(back, shown)
        BY <2>6, <3>1, ShowDoes
      <4> HIDE DEF shown
      <4>2. Evolves(s.list, shown.list)
        BY <1>0, <2>6, <4>1, EvolvesOn DEF Consoled
      <4> QED
        BY <2>6, <4>1, <4>2 DEF Consoled
    <3>2. CASE ~s.menu.restoreConsole
      <4>1. shown = back
        BY <3>2
      <4> HIDE DEF shown
      <4> QED
        BY <2>6, <4>1
    <3> QED
      BY <3>1, <3>2
  <2> HIDE DEF shown
  <2>8. /\ Right(last) /\ last.list = shown.list /\ last.level = shown.level /\ last.menu = m /\ last.paused = p
        /\ (Heard(last) <=> Heard(shown))
    <3> HIDE DEF p
    <3> QED
      BY <2>2, <2>7, SetDoes
  <2>9. r = last
    <3>1. shown \in Record /\ shown.menu = m /\ shown.paused = s.paused
      BY <2>7 DEF Right
    <3> QED
      BY <2>1, <3>1 DEF Record, Set
  <2> HIDE DEF last
  <2> QED
    BY <1>3, <2>2, <2>7, <2>8, <2>9 DEF Closed, p, IsGameTypeSingle
<1> QED
  BY <1>2, <1>3

\* A picture is being taken for a game that is saved.
LEMMA ScreenshotDoes ==
    ASSUME NEW s, Right(s), s.level # None
    PROVE  LET r == Screenshot(s) IN
           /\ Right(r) /\ Evolves(s.list, r.list) /\ r.level = s.level
           /\ Twice(r.list) => Twice(s.list) \/ (Heard(s) /\ s.menu.active)
           /\ r.menu \in Menu /\ r.menu.saving = TRUE /\ r.menu.shot = 1 /\ r.menu.active = s.menu.active
           /\ r.menu.restorePause = s.menu.restorePause /\ r.paused = s.paused
           /\ Heard(r) <=> Heard(s) \/ s.menu.active
<1> DEFINE l == IF s.level # None /\ s.menu.active THEN Listen(s, s.level) ELSE s
           m == [s.menu EXCEPT !.saving = TRUE, !.shot = 1, !.restoreConsole = s.visible]
           t == Set(l, m, s.paused)
           r == Screenshot(s)
<1>0. s \in Record /\ s.menu \in Menu /\ s.list \in List /\ s.paused \in BOOLEAN
  BY DEF Right, Record
<1>1. /\ Right(l) /\ Evolves(s.list, l.list) /\ l.level = s.level /\ l.menu = s.menu /\ l.paused = s.paused
      /\ (Heard(l) <=> Heard(s) \/ s.menu.active) /\ (Twice(l.list) => Twice(s.list) \/ (Heard(s) /\ s.menu.active))
  <2>1. CASE s.menu.active
    <3> DEFINE u == Listen(s, s.level)
    <3>1. l = u
      BY <2>1
    <3>2. /\ Right(u) /\ Evolves(s.list, u.list) /\ Heard(u) /\ (Twice(u.list) => Twice(s.list) \/ Heard(s))
          /\ u.level = s.level /\ u.menu = s.menu /\ u.paused = s.paused
      BY LevelListens
    <3> HIDE DEF u, l
    <3> QED
      BY <2>1, <3>1, <3>2
  <2>2. CASE ~s.menu.active
    <3>1. l = s
      BY <2>2
    <3> HIDE DEF l
    <3> QED
      BY <1>0, <2>2, <3>1, EvolvesItself
  <2> QED
    BY <2>1, <2>2
<1>2. r = Hide(t)
  <2>1. l \in Record /\ l.menu = s.menu /\ l.paused = s.paused
    BY <1>1 DEF Right
  <2>2. t = [l EXCEPT !.menu.saving = TRUE, !.menu.shot = 1, !.menu.restoreConsole = s.visible]
    <3> HIDE DEF l
    <3> QED
      BY <1>0, <2>1 DEF Record, Menu, Set
  <2> HIDE DEF t
  <2> QED
    BY <2>2 DEF Screenshot
<1> HIDE DEF l
<1>3. m \in Menu /\ m.saving = TRUE /\ m.shot = 1 /\ m.active = s.menu.active /\ m.restorePause = s.menu.restorePause
  <2>1. s.visible \in BOOLEAN
    BY <1>0 DEF Record
  <2>2. DOMAIN s.menu = {"active", "saving", "shot", "restoreConsole", "restorePause"} /\ 1 \in -2..1
    BY <1>0 DEF Menu
  <2> QED
    BY <1>0, <2>1, <2>2 DEF Menu
<1> HIDE DEF m
<1>4. Right(t) /\ t.list = l.list /\ t.level = l.level /\ t.menu = m /\ t.paused = s.paused /\ (Heard(t) <=> Heard(l))
  BY <1>0, <1>1, <1>3, SetDoes
<1> HIDE DEF t
<1>5. Consoled(t, r)
  BY <1>2, <1>4, HideDoes
<1> HIDE DEF r
<1>6. Evolves(s.list, r.list)
  BY <1>0, <1>1, <1>4, <1>5, EvolvesOn DEF Consoled
<1> QED
  BY <1>1, <1>3, <1>4, <1>5, <1>6 DEF Consoled, r

-----------------------------------------------------------------------------
(* What Resort makes of the list.                                          *)

\* Between two walks.
Tidy(q) == ~q.in_process /\ ~q.changed /\ InOrder(q.R) /\ \A i \in 1..Len(q.R) : IsValid(q.R[i])

LEMMA KeptIsFinite ==
    ASSUME NEW q \in List
    PROVE  IsFiniteSet({e \in ToSet(q.R) : IsValid(e)})
<1> DEFINE f == [i \in 1..Len(q.R) |-> q.R[i]]
<1>1. Len(q.R) \in Nat /\ DOMAIN q.R = 1..Len(q.R)
  BY DEF List
<1>2. ToSet(q.R) = {q.R[i] : i \in 1..Len(q.R)}
  BY <1>1 DEF ToSet
<1>3. f \in Surjection(1..Len(q.R), ToSet(q.R))
  <2>1. f \in [1..Len(q.R) -> ToSet(q.R)]
    BY <1>2
  <2>2. \A e \in ToSet(q.R) : \E i \in 1..Len(q.R) : f[i] = e
    BY <1>2
  <2> HIDE DEF f
  <2> QED
    BY <2>1, <2>2 DEF Surjection
<1>4. IsFiniteSet(1..Len(q.R))
  BY <1>1, FS_Interval
<1>5. IsFiniteSet(ToSet(q.R))
  BY <1>3, <1>4, FS_Surjection
<1> QED
  BY <1>5, FS_Subset

LEMMA ResortDoes ==
    ASSUME NEW q \in List, NEW r \in Resort(q)
    PROVE  r \in List /\ ~Twice(r) /\ Tidy(r) /\ Listed(r) = Listed(q)
<1> DEFINE kept == {e \in ToSet(q.R) : IsValid(e)}
           n == Cardinality(kept)
           one == Descending(SelectSeq(q.R, IsValid))
           tied == {i \in DOMAIN one : \E j \in DOMAIN one \ {i} : one[j].Prio = one[i].Prio}
           As(swap) == [i \in 1..n |-> IF i \in tied THEN one[swap[i]] ELSE one[i]]
<1>1. PICK T \in {As(swap) : swap \in [tied -> tied]} :
          ToSet(T) = kept /\ InOrder(T) /\ r = [R |-> T, in_process |-> FALSE, changed |-> FALSE]
  BY DEF Resort
<1>2. T = [i \in 1..n |-> T[i]]
  <2>1. PICK swap : T = As(swap)
    BY <1>1
  <2> HIDE DEF tied, one, n
  <2> QED
    BY <2>1
<1>3. /\ IsFiniteSet(kept) /\ n \in Nat
      /\ \A e : e \in kept <=> e \in ToSet(q.R) /\ e.Prio # INVALID
  BY KeptIsFinite, FS_CardinalityType DEF IsValid
<1>4. IsFiniteSet(1..n) /\ Cardinality(1..n) = n
  BY <1>3, FS_Interval
<1>5. ToSet(T) = {T[i] : i \in 1..n}
  BY <1>2 DEF ToSet
<1>6. T \in Surjection(1..n, kept)
  <2> HIDE DEF kept, n
  <2> QED
    BY <1>1, <1>2, <1>5 DEF Surjection
<1>7. \A i, j \in 1..n : T[i] = T[j] => i = j
  <2>1. T \in Injection(1..n, kept)
    BY <1>3, <1>4, <1>6, FS_SurjSameCardinalityImpliesInj
  <2> HIDE DEF kept, n
  <2> QED
    BY <1>2, <2>1 DEF Injection, IsInjective
<1>8. \A e : e \in kept <=> e.Prio # INVALID /\ \E i \in 1..Len(q.R) : q.R[i] = e
  BY <1>3 DEF ToSet, List
<1> HIDE DEF kept, n
<1>9. \A e \in kept : e \in Entry /\ e.Prio = Prio[e.Object]
  BY <1>8 DEF List
<1>10. T \in [1..n -> kept] /\ \A e \in kept : \E i \in 1..n : T[i] = e
  BY <1>1, <1>2, <1>5
<1>11. T \in Seq(Entry) /\ Len(T) = n
  <2>1. T \in [1..n -> Entry]
    BY <1>2, <1>9, <1>10
  <2> QED
    BY <1>3, <2>1
<1>12. r.R = T /\ r.in_process = FALSE /\ r.changed = FALSE /\ Len(r.R) = n
  BY <1>1, <1>11
<1>13. r \in List
  BY <1>1, <1>9, <1>10, <1>11, <1>12 DEF List
<1>14. ~Twice(r)
  <2>1. \A i, j \in 1..n : T[i].Object = T[j].Object => T[i] = T[j]
    BY <1>9, <1>10 DEF Entry
  <2> QED
    BY <1>3, <1>7, <1>12, <1>13, <2>1, TwiceIs
<1>15. Tidy(r)
  BY <1>1, <1>8, <1>10, <1>12 DEF Tidy, IsValid
<1>16. Listed(r) = Listed(q)
  <2>1. \A o : o \in Listed(r) <=> \E e \in kept : e.Object = o
    <3>1. \A o : o \in Listed(r) <=> \E i \in 1..n : T[i].Object = o /\ T[i].Prio # INVALID
      BY <1>12, <1>13, ListedIs
    <3>2. \A i \in 1..n : T[i] \in kept /\ T[i].Prio # INVALID
      BY <1>8, <1>10
    <3>3. \A e \in kept : \E i \in 1..n : T[i] = e
      BY <1>10
    <3> QED
      BY <3>1, <3>2, <3>3
  <2>2. \A o : o \in Listed(q) <=> \E e \in kept : e.Object = o
    BY <1>8, ListedIs
  <2> QED
    BY <2>1, <2>2
<1> QED
  BY <1>13, <1>14, <1>15, <1>16

LEMMA InFrontIs ==
    ASSUME NEW q \in List
    PROVE  InFront(q.R) <=> /\ Len(q.R) >= 3
                            /\ q.R[1] = [Object |-> "application", Prio |-> 5]
                            /\ q.R[2] = [Object |-> "persistent", Prio |-> 4]
                            /\ q.R[3] = [Object |-> "input", Prio |-> 3]
<1>1. 1..3 = {1, 2, 3}
  OBVIOUS
<1>2. Standing[1] = "application" /\ Standing[2] = "persistent" /\ Standing[3] = "input"
  BY DEF Standing
<1> QED
  BY <1>1, <1>2 DEF InFront

\* Whoever has the priority p alone is where the p before him are.
LEMMA FrontStays ==
    ASSUME NEW q \in List, InFront(q.R), NEW r \in Resort(q)
    PROVE  InFront(r.R)
<1>1. r \in List /\ ~Twice(r) /\ Tidy(r) /\ Listed(r) = Listed(q)
  BY ResortDoes
<1> DEFINE n == Len(r.R)
<1>2. /\ n \in Nat
      /\ \A i \in 1..n : r.R[i].Object \in Object /\ r.R[i].Prio = Prio[r.R[i].Object]
                         /\ r.R[i] = [Object |-> r.R[i].Object, Prio |-> r.R[i].Prio]
      /\ \A i, j \in 1..n : r.R[i].Object = r.R[j].Object => i = j
      /\ \A i, j \in 1..n : i < j => r.R[i].Prio >= r.R[j].Prio
  <2>1. n \in Nat /\ DOMAIN r.R = 1..n /\ \A i \in 1..n : r.R[i] \in Entry /\ r.R[i].Prio = Prio[r.R[i].Object]
    BY <1>1 DEF List, Tidy, IsValid
  <2>2. \A i \in 1..n : r.R[i].Prio # INVALID
    BY <1>1 DEF Tidy, IsValid
  <2>3. \A i, j \in 1..n : r.R[i].Object = r.R[j].Object => i = j
    BY <1>1, <2>1, <2>2, TwiceIs
  <2>4. \A i, j \in 1..n : i < j => r.R[i].Prio >= r.R[j].Prio
    BY <1>1, <2>1 DEF Tidy, InOrder
  <2> QED
    BY <2>1, <2>3, <2>4 DEF Entry
<1>3. \A o \in Fixed : \E i \in 1..n : r.R[i].Object = o
  <2>1. Fixed \subseteq Listed(q)
    <3>1. \A i \in {1, 2, 3} : i \in 1..Len(q.R) /\ q.R[i].Prio # INVALID
      BY InFrontIs DEF INVALID, List
    <3> QED
      BY <3>1, ListedIs, InFrontIs DEF Fixed
  <2> QED
    BY <1>1, <2>1, ListedIs
<1>4. \A i \in 1..n : r.R[i].Prio \in 1..5
  BY <1>2, PriosAre
<1>10. \A i \in 1..n : /\ r.R[i].Prio = 5 <=> r.R[i].Object = "application"
                       /\ r.R[i].Prio = 4 <=> r.R[i].Object = "persistent"
                       /\ r.R[i].Prio = 3 <=> r.R[i].Object = "input"
  <2> HIDE DEF n
  <2> SUFFICES ASSUME NEW i \in 1..n
               PROVE  /\ r.R[i].Prio = 5 <=> r.R[i].Object = "application"
                      /\ r.R[i].Prio = 4 <=> r.R[i].Object = "persistent"
                      /\ r.R[i].Prio = 3 <=> r.R[i].Object = "input"
    OBVIOUS
  <2>1. r.R[i].Object \in Object /\ r.R[i].Prio = Prio[r.R[i].Object]
    BY <1>2
  <2> QED
    BY <2>1, PriosAre
<1> HIDE DEF n
<1>5. 1 \in 1..n /\ r.R[1].Object = "application"
  <2>1. PICK i \in 1..n : r.R[i].Object = "application"
    BY <1>3 DEF Fixed
  <2>2. 1 \in 1..n
    BY <1>2, <2>1
  <2>3. r.R[1].Prio = 5
    BY <1>2, <1>4, <2>1, <2>2, <1>10
  <2> QED
    BY <1>2, <2>2, <2>3, <1>10
<1>6. 2 \in 1..n /\ r.R[2].Object = "persistent"
  <2>1. PICK i \in 1..n : r.R[i].Object = "persistent"
    BY <1>3 DEF Fixed
  <2>2. i # 1 /\ 2 \in 1..n
    BY <1>2, <1>5, <2>1
  <2>3. r.R[2].Prio # 5
    BY <1>2, <1>5, <2>2, <1>10
  <2>4. r.R[i].Prio = 4
    BY <1>2, <2>1, <1>10
  <2>5. r.R[2].Prio >= 4
    BY <1>2, <2>2, <2>4
  <2>6. r.R[2].Prio = 4
    BY <1>4, <2>2, <2>3, <2>5
  <2> QED
    BY <1>2, <2>2, <2>6, <1>10
<1>7. 3 \in 1..n /\ r.R[3].Object = "input"
  <2>1. PICK i \in 1..n : r.R[i].Object = "input"
    BY <1>3 DEF Fixed
  <2>2. i # 1 /\ i # 2 /\ 3 \in 1..n
    BY <1>2, <1>5, <1>6, <2>1
  <2>3. r.R[3].Prio # 5
    BY <1>2, <1>5, <2>2, <1>10
  <2>4. r.R[3].Prio # 4
    BY <1>2, <1>6, <2>2, <1>10
  <2>5. r.R[i].Prio = 3
    BY <1>2, <2>1, <1>10
  <2>6. r.R[3].Prio >= 3
    BY <1>2, <2>2, <2>5
  <2>7. r.R[3].Prio = 3
    BY <1>4, <2>2, <2>3, <2>4, <2>6
  <2> QED
    BY <1>2, <2>2, <2>7, <1>10
<1>8. n >= 3
  BY <1>2, <1>7
<1>9. r.R[1].Prio = 5 /\ r.R[2].Prio = 4 /\ r.R[3].Prio = 3
  BY <1>2, <1>5, <1>6, <1>7, <1>10
<1> QED
  BY <1>1, <1>2, <1>5, <1>6, <1>7, <1>8, <1>9, InFrontIs DEF n

-----------------------------------------------------------------------------
(* The walk.                                                               *)

LEMMA LeastNatural ==
    ASSUME NEW S, S \subseteq Nat, S # {}
    PROVE  \E n \in S : \A m \in S : n <= m
<1>1. PICK n \in S : \A m \in S : ~(<<m, n>> \in OpToRel(<, Nat))
  BY NatLessThanWellFounded, WFMin
<1>2. ASSUME NEW m \in S
      PROVE  n <= m
  <2>1. ~(<<m, n>> \in {p \in Nat \X Nat : p[1] < p[2]})
    BY <1>1 DEF OpToRel
  <2>2. <<m, n>> \in Nat \X Nat /\ <<m, n>>[1] = m /\ <<m, n>>[2] = n
    OBVIOUS
  <2>3. ~(m < n)
    BY <2>1, <2>2
  <2> QED
    BY <2>3
<1> QED
  BY <1>2

LEMMA AtIs ==
    ASSUME seqFrame \in List, walk \in Nat, walk <= Len(seqFrame.R) + 1
    PROVE  /\ At \in walk..(Len(seqFrame.R) + 1)
           /\ At <= Len(seqFrame.R) => IsValid(seqFrame.R[At])
           /\ \A j \in walk..(At - 1) : ~IsValid(seqFrame.R[j])
<1> DEFINE n == Len(seqFrame.R)
           S == {k \in walk..(n + 1) : k <= n => IsValid(seqFrame.R[k])}
           Is(k) == (k <= n => IsValid(seqFrame.R[k])) /\ \A j \in walk..(k - 1) : ~IsValid(seqFrame.R[j])
<1>1. n \in Nat
  BY DEF List
<1>2. At = CHOOSE k \in walk..(n + 1) : Is(k)
  BY DEF At
<1> HIDE DEF n
<1>3. n + 1 \in S /\ S \subseteq Nat
  <2>1. n + 1 \in walk..(n + 1) /\ ~(n + 1 <= n)
    BY <1>1 DEF n
  <2> QED
    BY <1>1, <2>1
<1>4. PICK k \in S : \A m \in S : k <= m
  <2> HIDE DEF S
  <2> QED
    BY <1>3, LeastNatural
<1>5. Is(k) /\ k \in walk..(n + 1)
  <2> SUFFICES ASSUME NEW j \in walk..(k - 1), IsValid(seqFrame.R[j])
               PROVE  FALSE
    OBVIOUS
  <2>1. j \in S /\ j < k
    BY <1>1, <1>4
  <2> QED
    BY <1>1, <1>4, <2>1
<1> HIDE DEF S, Is
<1>6. \E i \in walk..(n + 1) : Is(i)
  BY <1>5
<1>7. At \in walk..(n + 1) /\ Is(At)
  BY <1>2, <1>6
<1> QED
  BY <1>7 DEF Is, n

\* Walked, of any list and any place in it.
WalkedAs(q, w, b) ==
    /\ q \in List /\ ~Twice(q) /\ InFront(q.R) /\ Descends(q.R, b)
    /\ w \in Nat /\ w <= Len(q.R) + 1 /\ b \in Nat /\ b <= Len(q.R)
    /\ q.in_process <=> w > 0
    /\ w = 0 => b = 0 /\ ~q.changed
    /\ ~q.changed => Tidy([q EXCEPT !.in_process = FALSE])

LEMMA EvolvesFront ==
    ASSUME NEW q \in List, NEW r, Evolves(q, r), InFront(q.R)
    PROVE  InFront(r.R)
<1>1. Len(q.R) \in Nat /\ Len(r.R) \in Nat /\ r \in List /\ Len(q.R) <= Len(r.R)
  BY DEF Evolves, List
<1>2. \A i \in {1, 2, 3} : i \in 1..Len(q.R) /\ q.R[i].Object \in Fixed
  BY <1>1, InFrontIs DEF Fixed
<1>3. \A i \in {1, 2, 3} : i \in 1..Len(r.R) /\ r.R[i].Object = q.R[i].Object /\ r.R[i].Prio = q.R[i].Prio
  BY <1>1, <1>2 DEF Evolves
<1>4. \A i \in 1..Len(r.R) : r.R[i] = [Object |-> r.R[i].Object, Prio |-> r.R[i].Prio]
  <2>1. \A i \in 1..Len(r.R) : r.R[i] \in Entry
    BY <1>1 DEF List
  <2> QED
    BY <2>1 DEF Entry
<1>5. /\ q.R[1].Object = "application" /\ q.R[1].Prio = 5 /\ q.R[2].Object = "persistent" /\ q.R[2].Prio = 4
      /\ q.R[3].Object = "input" /\ q.R[3].Prio = 3 /\ Len(q.R) >= 3
  BY <1>1, InFrontIs
<1>6. /\ r.R[1] = [Object |-> "application", Prio |-> 5] /\ r.R[2] = [Object |-> "persistent", Prio |-> 4]
      /\ r.R[3] = [Object |-> "input", Prio |-> 3]
  BY <1>3, <1>4, <1>5
<1> QED
  BY <1>1, <1>5, <1>6, InFrontIs

LEMMA EvolvesWalked ==
    ASSUME NEW q, NEW w, NEW b, WalkedAs(q, w, b), w > 0, NEW r, Evolves(q, r), ~Twice(r),
           NEW v \in Nat, v > 0, v <= Len(q.R) + 1
    PROVE  WalkedAs(r, v, b)
<1>1. Len(q.R) \in Nat /\ Len(r.R) \in Nat /\ r \in List /\ Len(q.R) <= Len(r.R) /\ q \in List
  BY DEF WalkedAs, Evolves, List
<1>2. InFront(r.R)
  BY <1>1, EvolvesFront DEF WalkedAs
<1>3. Descends(r.R, b)
  <2> SUFFICES ASSUME NEW i \in 1..b, NEW j \in 1..b, i < j, IsValid(r.R[i]), IsValid(r.R[j])
               PROVE  r.R[i].Prio >= r.R[j].Prio
    BY DEF Descends
  <2>1. i \in 1..Len(q.R) /\ j \in 1..Len(q.R)
    BY <1>1 DEF WalkedAs
  <2>2. r.R[i].Prio = q.R[i].Prio /\ r.R[j].Prio = q.R[j].Prio
    BY <2>1 DEF Evolves, IsValid
  <2> QED
    BY <2>2 DEF WalkedAs, Descends, IsValid
<1>4. r.in_process = TRUE
  BY DEF WalkedAs, Evolves, List
<1>5. ~r.changed => Tidy([r EXCEPT !.in_process = FALSE])
  BY DEF WalkedAs, Evolves
<1> QED
  BY <1>1, <1>2, <1>3, <1>4, <1>5 DEF WalkedAs

LEMMA TidyWalked ==
    ASSUME NEW r \in List, ~Twice(r), Tidy(r), InFront(r.R)
    PROVE  WalkedAs(r, 0, 0)
<1>1. [r EXCEPT !.in_process = FALSE] = r
  BY DEF Tidy, List
<1> QED
  BY <1>1 DEF WalkedAs, Tidy, Descends, List

LEMMA ResortWalked ==
    ASSUME NEW q \in List, InFront(q.R), NEW r \in Resort(q)
    PROVE  WalkedAs(r, 0, 0)
BY ResortDoes, FrontStays, TidyWalked

\* Between two walks what was added and removed is put in order at once.
LEMMA SettlesWalked ==
    ASSUME NEW q, WalkedAs(q, 0, 0), NEW p, Evolves(q, p), NEW r \in Resort(p)
    PROVE  WalkedAs(r, 0, 0)
<1>1. p \in List /\ q \in List /\ Len(q.R) \in Nat /\ Len(p.R) \in Nat /\ Len(q.R) <= Len(p.R)
  BY DEF Evolves, WalkedAs, List
<1>2. InFront(p.R)
  BY <1>1, EvolvesFront DEF WalkedAs
<1> QED
  BY <1>1, <1>2, ResortWalked

LEMMA EnterWalked ==
    ASSUME NEW q, WalkedAs(q, 0, 0)
    PROVE  WalkedAs(Enter(q), 1, Len(q.R)) /\ Listed(Enter(q)) = Listed(q)
<1> DEFINE r == Enter(q)
<1>1. q \in [R : Seq(Entry), in_process : BOOLEAN, changed : BOOLEAN] /\ Len(q.R) \in Nat
  BY DEF WalkedAs, List
<1>2. r.R = q.R /\ r.in_process = TRUE /\ r.changed = q.changed
      /\ r \in [R : Seq(Entry), in_process : BOOLEAN, changed : BOOLEAN]
      /\ [r EXCEPT !.in_process = FALSE] = [q EXCEPT !.in_process = FALSE]
  BY <1>1 DEF Enter
<1> HIDE DEF r
<1>3. r \in List
  BY <1>2 DEF WalkedAs, List
<1>4. Listed(r) = Listed(q) /\ ~Twice(r)
  BY <1>2 DEF Listed, Twice, WalkedAs
<1>5. Descends(r.R, Len(q.R))
  <2>1. InOrder(q.R) /\ DOMAIN q.R = 1..Len(q.R)
    BY <1>1 DEF WalkedAs, Tidy
  <2> QED
    BY <1>2, <2>1 DEF InOrder, Descends
<1> QED
  BY <1>1, <1>2, <1>3, <1>4, <1>5 DEF WalkedAs, r

LEMMA LeaveWalked ==
    ASSUME NEW q, NEW w, NEW b, WalkedAs(q, w, b), NEW r \in Leave(q)
    PROVE  WalkedAs(r, 0, 0) /\ Listed(r) = Listed(q)
<1>0. q \in List /\ InFront(q.R)
  BY DEF WalkedAs
<1>1. CASE q.changed
  BY <1>0, <1>1, ResortWalked, ResortDoes DEF Leave
<1>2. CASE ~q.changed
  <2>1. r = [q EXCEPT !.in_process = FALSE] /\ Tidy(r)
    BY <1>2 DEF Leave, WalkedAs
  <2>2. r \in List /\ r.R = q.R
    BY <1>0, <2>1 DEF List
  <2>3. ~Twice(r) /\ Listed(r) = Listed(q)
    BY <2>2 DEF Twice, Listed, WalkedAs
  <2> QED
    BY <1>0, <2>1, <2>2, <2>3, TidyWalked
<1> QED
  BY <1>1, <1>2

-----------------------------------------------------------------------------
(* The walk and what Listeners promises.                                   *)

Due(q, w, b) == {q.R[i].Object : i \in {j \in DOMAIN q.R : w > 0 /\ j >= w /\ j <= b /\ IsValid(q.R[j])}}
Late(q, w, b) == {q.R[i].Object : i \in {j \in DOMAIN q.R : w > 0 /\ j >= w /\ j > b /\ IsValid(q.R[j])}}

LEMMA WaitingIs ==
    ASSUME NEW q \in List, NEW w, NEW b
    PROVE  /\ \A o : o \in Due(q, w, b) <=> \E i \in 1..Len(q.R) : /\ w > 0 /\ i >= w /\ i <= b
                                                                   /\ q.R[i].Prio # INVALID /\ q.R[i].Object = o
           /\ \A o : o \in Late(q, w, b) <=> \E i \in 1..Len(q.R) : /\ w > 0 /\ i >= w /\ i > b
                                                                    /\ q.R[i].Prio # INVALID /\ q.R[i].Object = o
<1>1. DOMAIN q.R = 1..Len(q.R)
  BY DEF List
<1> QED
  BY <1>1 DEF Due, Late, IsValid

\* Who waits after the list has evolved and the walk has come from w to v, past
\* the entries of X: nobody new before those who are called, nobody forgotten.
\* X are those of q between w and v.
Passed(q, w, v, X) ==
    /\ v \in Nat /\ w <= v /\ v <= Len(q.R) + 1
    /\ \A i \in 1..Len(q.R) : i >= w /\ i < v /\ q.R[i].Prio # INVALID => q.R[i].Object \in X
    /\ \A i \in 1..Len(q.R) : i >= v /\ q.R[i].Prio # INVALID => q.R[i].Object \notin X

LEMMA WaitingEvolves ==
    ASSUME NEW q, NEW w, NEW b, WalkedAs(q, w, b), w > 0, NEW r, Evolves(q, r), ~Twice(r),
           NEW v, NEW X, Passed(q, w, v, X)
    PROVE  /\ Due(r, v, b) \subseteq (Due(q, w, b) \ X) \cap Listed(r)
           /\ Late(r, v, b) \subseteq Listed(r) \ Due(r, v, b)
           /\ Listed(r) \ (Due(r, v, b) \cup Late(r, v, b))
                 \subseteq Listed(q) \ ((Due(q, w, b) \ X) \cup (Late(q, w, b) \ X))
<1>0. /\ v \in Nat /\ w <= v /\ v <= Len(q.R) + 1
      /\ \A i \in 1..Len(q.R) : i >= w /\ i < v /\ q.R[i].Prio # INVALID => q.R[i].Object \in X
      /\ \A i \in 1..Len(q.R) : i >= v /\ q.R[i].Prio # INVALID => q.R[i].Object \notin X
  BY DEF Passed
<1>1. /\ q \in List /\ r \in List /\ Len(q.R) \in Nat /\ Len(r.R) \in Nat /\ Len(q.R) <= Len(r.R)
      /\ w \in Nat /\ b \in Nat /\ b <= Len(q.R) /\ v > 0 /\ ~Twice(q)
  BY <1>0 DEF WalkedAs, Evolves, List
<1>2. \A i \in 1..Len(q.R) : r.R[i].Prio # INVALID => q.R[i].Prio # INVALID /\ r.R[i].Object = q.R[i].Object
  BY DEF Evolves
<1>3. \A i, j \in 1..Len(r.R) : r.R[i].Prio # INVALID /\ r.R[j].Prio # INVALID /\ r.R[i].Object = r.R[j].Object
                                => i = j
  BY <1>1, TwiceIs
<1>4. \A i, j \in 1..Len(q.R) : q.R[i].Prio # INVALID /\ q.R[j].Prio # INVALID /\ q.R[i].Object = q.R[j].Object
                                => i = j
  BY <1>1, TwiceIs
<1>5. ASSUME NEW o \in Due(r, v, b)
      PROVE  o \in (Due(q, w, b) \ X) \cap Listed(r)
  <2>1. PICK i \in 1..Len(r.R) : i >= v /\ i <= b /\ r.R[i].Prio # INVALID /\ r.R[i].Object = o
    BY <1>1, WaitingIs
  <2>2. i \in 1..Len(q.R) /\ i >= w
    BY <1>0, <1>1, <2>1
  <2>3. q.R[i].Prio # INVALID /\ q.R[i].Object = o
    BY <1>2, <2>1, <2>2
  <2>4. o \notin X
    BY <1>0, <2>1, <2>2, <2>3
  <2>5. o \in Due(q, w, b)
    BY <1>1, <2>1, <2>2, <2>3, WaitingIs
  <2> QED
    BY <1>1, <2>1, <2>4, <2>5, ListedIs
<1>6. ASSUME NEW o \in Late(r, v, b)
      PROVE  o \in Listed(r) \ Due(r, v, b)
  <2>1. PICK i \in 1..Len(r.R) : i >= v /\ i > b /\ r.R[i].Prio # INVALID /\ r.R[i].Object = o
    BY <1>1, WaitingIs
  <2>2. o \in Listed(r)
    BY <1>1, <2>1, ListedIs
  <2>3. ASSUME o \in Due(r, v, b)
        PROVE  FALSE
    <3>1. PICK j \in 1..Len(r.R) : j <= b /\ r.R[j].Prio # INVALID /\ r.R[j].Object = o
      BY <1>1, <2>3, WaitingIs
    <3> QED
      BY <1>1, <1>3, <2>1, <3>1
  <2> QED
    BY <2>2, <2>3
<1>7. ASSUME NEW o \in Listed(r), o \notin Due(r, v, b) \cup Late(r, v, b)
      PROVE  o \in Listed(q) \ ((Due(q, w, b) \ X) \cup (Late(q, w, b) \ X))
  <2>1. PICK i \in 1..Len(r.R) : r.R[i].Prio # INVALID /\ r.R[i].Object = o
    BY <1>1, ListedIs
  <2>2. i < v
    BY <1>0, <1>1, <1>7, <2>1, WaitingIs
  <2>3. i \in 1..Len(q.R)
    BY <1>0, <1>1, <2>1, <2>2
  <2>4. q.R[i].Prio # INVALID /\ q.R[i].Object = o
    BY <1>2, <2>1, <2>3
  <2>5. o \in Listed(q)
    BY <1>1, <2>3, <2>4, ListedIs
  <2>6. ASSUME o \notin X, o \in Due(q, w, b) \cup Late(q, w, b)
        PROVE  FALSE
    <3>1. PICK j \in 1..Len(q.R) : j >= w /\ q.R[j].Prio # INVALID /\ q.R[j].Object = o
      BY <1>1, <2>6, WaitingIs
    <3>2. i = j
      BY <1>4, <2>3, <2>4, <3>1
    <3> QED
      BY <1>0, <2>2, <2>3, <2>4, <2>6, <3>1, <3>2
  <2> QED
    BY <2>5, <2>6
<1> QED
  BY <1>5, <1>6, <1>7

WalkedNow == WalkedAs(seqFrame, walk, began)

\* Everything but the beginning and the end of a frame, as the list sees it.
Passes ==
    /\ began' = began
    /\ \/ /\ InFrame
          /\ Evolves(seqFrame, seqFrame') /\ ~Twice(seqFrame')
          /\ walk' = walk \/ \E o \in Object : Called(o) /\ walk' = At + 1
       \/ /\ ~InFrame /\ walk' = walk
          /\ seqFrame' = seqFrame \/ \E p : Evolves(seqFrame, p) /\ seqFrame' \in Resort(p)

LEMMA PassesWalked ==
    ASSUME WalkedNow, Passes
    PROVE  WalkedAs(seqFrame', walk', began')
<1>0. seqFrame \in List /\ walk \in Nat /\ walk <= Len(seqFrame.R) + 1 /\ Len(seqFrame.R) \in Nat
  BY DEF WalkedNow, WalkedAs, List
<1>1. CASE InFrame
  <2>1. /\ Evolves(seqFrame, seqFrame') /\ ~Twice(seqFrame') /\ began' = began
        /\ walk' = walk \/ \E o \in Object : Called(o) /\ walk' = At + 1
    BY <1>1 DEF Passes
  <2>2. walk' \in Nat /\ walk' > 0 /\ walk' <= Len(seqFrame.R) + 1
    <3>1. CASE walk' = walk
      BY <1>0, <1>1, <3>1 DEF InFrame
    <3>2. CASE walk' # walk
      <4>1. walk' = At + 1 /\ At <= Len(seqFrame.R)
        BY <2>1, <3>2 DEF Called
      <4>2. At \in walk..(Len(seqFrame.R) + 1)
        BY <1>0, AtIs
      <4> QED
        BY <1>0, <4>1, <4>2
    <3> QED
      BY <3>1, <3>2
  <2> QED
    BY <1>1, <2>1, <2>2, EvolvesWalked DEF WalkedNow, InFrame
<1>2. CASE ~InFrame
  <2>1. walk = 0 /\ began = 0 /\ walk' = 0 /\ began' = 0
    BY <1>0, <1>2 DEF InFrame, WalkedNow, WalkedAs, Passes
  <2>2. WalkedAs(seqFrame, 0, 0)
    BY <2>1 DEF WalkedNow
  <2>3. CASE seqFrame' = seqFrame
    BY <2>1, <2>2, <2>3
  <2>4. CASE seqFrame' # seqFrame
    <3>1. PICK p : Evolves(seqFrame, p) /\ seqFrame' \in Resort(p)
      BY <1>2, <2>4 DEF Passes
    <3> QED
      BY <2>1, <2>2, <3>1, SettlesWalked
  <2> QED
    BY <2>3, <2>4
<1> QED
  BY <1>1, <1>2

\* The actions of Listeners, of the list.
Moves(W, V) ==
    /\ Listed(seqFrame') \subseteq Object
    /\ Due(seqFrame', walk', began') \subseteq W \cap Listed(seqFrame')
    /\ Late(seqFrame', walk', began') \subseteq Listed(seqFrame') \ Due(seqFrame', walk', began')
    /\ Listed(seqFrame') \ (Due(seqFrame', walk', began') \cup Late(seqFrame', walk', began'))
           \subseteq Listed(seqFrame) \ (W \cup V)
    /\ InFrame' = InFrame

Waiting == Due(seqFrame, walk, began)
Behind == Late(seqFrame, walk, began)

LEMMA PrimesAre ==
    /\ Waiting' = Due(seqFrame', walk', began') /\ Behind' = Late(seqFrame', walk', began')
    /\ Listed(seqFrame)' = Listed(seqFrame')
BY DEF Waiting, Behind, Due, Late, Listed

LEMMA ShellChange == ASSUME InFrame, Moves(Waiting, Behind) PROVE Shell!Change
<1>1. /\ Listed(seqFrame)' \in SUBSET Object
      /\ Waiting' \in SUBSET (Waiting \cap Listed(seqFrame)')
      /\ Behind' \in SUBSET (Listed(seqFrame)' \ Waiting')
      /\ Listed(seqFrame)' \ (Waiting' \cup Behind') \subseteq Listed(seqFrame) \ (Waiting \cup Behind)
      /\ InFrame' = InFrame
  BY PrimesAre DEF Moves
<1> QED
  BY <1>1 DEF Shell!Change, Shell!Changes, Due, Late, InFrame, Waiting, Behind

LEMMA ShellRests ==
    ASSUME ~InFrame, ~InFrame', Listed(seqFrame') \subseteq Object,
           Waiting = {}, Waiting' = {}, Behind = {}, Behind' = {}
    PROVE  Shell!Change
<1>1. Listed(seqFrame)' \in SUBSET Object /\ InFrame' = InFrame /\ Waiting' = Waiting /\ Behind' = Behind
  BY PrimesAre DEF InFrame
<1> QED
  BY <1>1 DEF Shell!Change, Due, Late, InFrame, Waiting, Behind

LEMMA ShellCall ==
    ASSUME NEW o \in Object, InFrame, Moves(Waiting \ {o}, Behind \ {o}),
           (o \in Waiting /\ \A p \in Waiting : Prio[p] <= Prio[o]) \/ (Waiting = {} /\ o \in Behind)
    PROVE  Shell!Call(o)
<1>1. /\ Listed(seqFrame)' \in SUBSET Object
      /\ Waiting' \in SUBSET ((Waiting \ {o}) \cap Listed(seqFrame)')
      /\ Behind' \in SUBSET (Listed(seqFrame)' \ Waiting')
      /\ Listed(seqFrame)' \ (Waiting' \cup Behind') \subseteq Listed(seqFrame) \ ((Waiting \ {o}) \cup (Behind \ {o}))
      /\ InFrame' = InFrame
  BY PrimesAre DEF Moves
<1>2. \/ o \in Waiting /\ \A p \in Waiting : Prio[p] <= Prio[o]
      \/ Waiting = {} /\ o \in Behind
  OBVIOUS
<1> QED
  BY <1>1, <1>2 DEF Shell!Call, Shell!Changes, Due, Late, InFrame, Waiting, Behind

LEMMA ShellBegin ==
    ASSUME ~InFrame, InFrame', Waiting' = Listed(seqFrame'), Behind' = {}, Listed(seqFrame') = Listed(seqFrame)
    PROVE  Shell!Begin
<1>1. Waiting' = Listed(seqFrame) /\ Listed(seqFrame)' = Listed(seqFrame)
  BY PrimesAre
<1> QED
  BY <1>1 DEF Shell!Begin, Due, Late, InFrame, Waiting, Behind

LEMMA ShellEnd ==
    ASSUME InFrame, ~InFrame', Waiting = {}, Behind = {}, Waiting' = {}, Behind' = {},
           Listed(seqFrame') = Listed(seqFrame)
    PROVE  Shell!End
<1>1. Waiting' = Waiting /\ Behind' = Behind /\ Listed(seqFrame)' = Listed(seqFrame)
  BY PrimesAre
<1> QED
  BY <1>1 DEF Shell!End, Due, Late, InFrame, Waiting, Behind

LEMMA PassesRefines ==
    ASSUME WalkedNow, Passes
    PROVE  Shell!Next \/ UNCHANGED Shell!vars
<1>0. seqFrame \in List /\ walk \in Nat /\ walk <= Len(seqFrame.R) + 1 /\ Len(seqFrame.R) \in Nat
  BY DEF WalkedNow, WalkedAs, List
<1>1. WalkedAs(seqFrame', walk', began') /\ Listed(seqFrame') \subseteq Object
  <2>1. WalkedAs(seqFrame', walk', began')
    BY PassesWalked
  <2>2. seqFrame' \in List
    BY <2>1 DEF WalkedAs
  <2> QED
    BY <2>1, <2>2, ListedIs
<1>2. CASE ~InFrame
  <2>1. walk = 0 /\ walk' = 0
    BY <1>0, <1>2 DEF InFrame, Passes
  <2>2. Waiting = {} /\ Waiting' = {} /\ Behind = {} /\ Behind' = {}
    BY <2>1 DEF Due, Late, Waiting, Behind
  <2>3. ~InFrame'
    BY <2>1 DEF InFrame
  <2>4. Shell!Change
    BY <1>1, <1>2, <2>2, <2>3, ShellRests
  <2> QED
    BY <2>4 DEF Shell!Next
<1>3. CASE InFrame
  <2>1. /\ Evolves(seqFrame, seqFrame') /\ ~Twice(seqFrame') /\ began' = began
        /\ walk' = walk \/ \E o \in Object : Called(o) /\ walk' = At + 1
    BY <1>3 DEF Passes
  <2>3. walk > 0
    BY <1>3 DEF InFrame
  <2>4. CASE walk' = walk
    <3>1. \A i \in 1..Len(seqFrame.R) : ~(i >= walk /\ i < walk)
      BY <1>0
    <3>2. /\ Due(seqFrame', walk, began) \subseteq (Waiting \ {}) \cap Listed(seqFrame')
          /\ Late(seqFrame', walk, began) \subseteq Listed(seqFrame') \ Due(seqFrame', walk, began)
          /\ Listed(seqFrame') \ (Due(seqFrame', walk, began) \cup Late(seqFrame', walk, began))
                 \subseteq Listed(seqFrame) \ ((Waiting \ {}) \cup (Behind \ {}))
      <4>1. walk <= walk
        BY <1>0
      <4>2. \A i \in 1..Len(seqFrame.R) : i >= walk /\ i < walk /\ seqFrame.R[i].Prio # INVALID
                                          => seqFrame.R[i].Object \in {}
        BY <3>1
      <4>3. \A i \in 1..Len(seqFrame.R) : i >= walk /\ seqFrame.R[i].Prio # INVALID
                                          => seqFrame.R[i].Object \notin {}
        OBVIOUS
      <4>4. WalkedAs(seqFrame, walk, began)
        BY DEF WalkedNow
      <4>5. Waiting = Due(seqFrame, walk, began) /\ Behind = Late(seqFrame, walk, began)
        BY DEF Waiting, Behind
      <4>6. /\ Due(seqFrame', walk, began) \subseteq (Due(seqFrame, walk, began) \ {}) \cap Listed(seqFrame')
            /\ Late(seqFrame', walk, began) \subseteq Listed(seqFrame') \ Due(seqFrame', walk, began)
            /\ Listed(seqFrame') \ (Due(seqFrame', walk, began) \cup Late(seqFrame', walk, began))
                   \subseteq Listed(seqFrame) \ ((Due(seqFrame, walk, began) \ {})
                                                  \cup (Late(seqFrame, walk, began) \ {}))
        <5>1. Passed(seqFrame, walk, walk, {})
          BY <1>0, <4>1, <4>2, <4>3 DEF Passed
        <5>2. Evolves(seqFrame, seqFrame') /\ ~Twice(seqFrame')
          BY <2>1
        <5> QED
          BY <2>3, <4>4, <5>1, <5>2, WaitingEvolves, Zenon
      <4> QED
        BY <4>5, <4>6
    <3>3. InFrame' = InFrame
      BY <2>4 DEF InFrame
    <3>4. Moves(Waiting, Behind)
      BY <1>1, <2>1, <2>4, <3>2, <3>3 DEF Moves
    <3>5. Shell!Change
      BY <1>3, <3>4, ShellChange
    <3> QED
      BY <3>5 DEF Shell!Next
  <2>5. CASE walk' # walk
    <3>1. PICK o \in Object : Called(o) /\ walk' = At + 1
      BY <2>1, <2>5
    <3>2. /\ At \in walk..(Len(seqFrame.R) + 1) /\ At <= Len(seqFrame.R) /\ At \in 1..Len(seqFrame.R)
          /\ seqFrame.R[At].Prio # INVALID /\ seqFrame.R[At].Object = o
          /\ \A j \in walk..(At - 1) : seqFrame.R[j].Prio = INVALID
      <4>1. At <= Len(seqFrame.R) /\ seqFrame.R[At].Object = o
        BY <3>1 DEF Called
      <4> QED
        BY <1>0, <2>3, <4>1, AtIs DEF IsValid
    <3>3. \A i, j \in 1..Len(seqFrame.R) : /\ seqFrame.R[i].Prio # INVALID /\ seqFrame.R[j].Prio # INVALID
                                           /\ seqFrame.R[i].Object = seqFrame.R[j].Object
                                           => i = j
      BY <1>0, TwiceIs DEF WalkedNow, WalkedAs
    <3>4. \A i \in 1..Len(seqFrame.R) : i >= walk /\ i < walk' /\ seqFrame.R[i].Prio # INVALID
                                        => seqFrame.R[i].Object \in {o}
      <4> SUFFICES ASSUME NEW i \in 1..Len(seqFrame.R), i >= walk, i < walk', seqFrame.R[i].Prio # INVALID
                   PROVE  i = At
        BY <3>2
      <4>1. i \in Nat /\ At \in Nat /\ walk \in Nat /\ i <= At
        BY <1>0, <3>1, <3>2
      <4>2. ~(i \in walk..(At - 1))
        BY <3>2
      <4> QED
        BY <4>1, <4>2
    <3>5. \A i \in 1..Len(seqFrame.R) : i >= walk' /\ seqFrame.R[i].Prio # INVALID
                                        => seqFrame.R[i].Object \notin {o}
      <4> SUFFICES ASSUME NEW i \in 1..Len(seqFrame.R), i >= walk', seqFrame.R[i].Prio # INVALID,
                          seqFrame.R[i].Object = o
                   PROVE  FALSE
        OBVIOUS
      <4>1. i = At
        BY <3>2, <3>3
      <4> QED
        BY <3>1, <3>2, <4>1
    <3>6. walk' \in Nat /\ walk <= walk' /\ walk' <= Len(seqFrame.R) + 1 /\ walk' > 0
      BY <1>0, <3>1, <3>2
    <3>7. /\ Due(seqFrame', walk', began) \subseteq (Waiting \ {o}) \cap Listed(seqFrame')
          /\ Late(seqFrame', walk', began) \subseteq Listed(seqFrame') \ Due(seqFrame', walk', began)
          /\ Listed(seqFrame') \ (Due(seqFrame', walk', began) \cup Late(seqFrame', walk', began))
                 \subseteq Listed(seqFrame) \ ((Waiting \ {o}) \cup (Behind \ {o}))
      <4>1. WalkedAs(seqFrame, walk, began)
        BY DEF WalkedNow
      <4>2. Waiting = Due(seqFrame, walk, began) /\ Behind = Late(seqFrame, walk, began)
        BY DEF Waiting, Behind
      <4>3. /\ Due(seqFrame', walk', began) \subseteq (Due(seqFrame, walk, began) \ {o}) \cap Listed(seqFrame')
            /\ Late(seqFrame', walk', began) \subseteq Listed(seqFrame') \ Due(seqFrame', walk', began)
            /\ Listed(seqFrame') \ (Due(seqFrame', walk', began) \cup Late(seqFrame', walk', began))
                   \subseteq Listed(seqFrame) \ ((Due(seqFrame, walk, began) \ {o})
                                                  \cup (Late(seqFrame, walk, began) \ {o}))
        <5>1. Evolves(seqFrame, seqFrame') /\ ~Twice(seqFrame')
          BY <2>1
        <5>2. Passed(seqFrame, walk, walk', {o})
          BY <3>4, <3>5, <3>6 DEF Passed
        <5> QED
          BY <2>3, <4>1, <5>1, <5>2, WaitingEvolves
      <4> QED
        BY <4>2, <4>3
    <3>8. InFrame' = InFrame
      BY <1>3, <3>6 DEF InFrame
    <3>9. Moves(Waiting \ {o}, Behind \ {o})
      BY <1>1, <2>1, <3>7, <3>8 DEF Moves
    <3>10. (o \in Waiting /\ \A p \in Waiting : Prio[p] <= Prio[o]) \/ (Waiting = {} /\ o \in Behind)
      <4>1. CASE At <= began
        <5>1. o \in Waiting
          BY <1>0, <2>3, <3>2, <4>1, WaitingIs DEF Waiting
        <5>2. ASSUME NEW p \in Waiting
              PROVE  Prio[p] <= Prio[o]
          <6>1. PICK i \in 1..Len(seqFrame.R) : /\ i >= walk /\ i <= began /\ seqFrame.R[i].Prio # INVALID
                                                /\ seqFrame.R[i].Object = p
            BY <1>0, <5>2, WaitingIs DEF Waiting
          <6>2. i >= At
            <7>1. ~(i \in walk..(At - 1))
              BY <3>2, <6>1
            <7> QED
              BY <1>0, <3>2, <6>1, <7>1
          <6>3. seqFrame.R[i].Prio = Prio[p] /\ seqFrame.R[At].Prio = Prio[o]
            BY <1>0, <3>2, <6>1 DEF List
          <6>4. Prio[p] \in 1..5 /\ Prio[o] \in 1..5
            <7>1. p \in Object
              <8>1. seqFrame.R[i] \in Entry
                BY <1>0, <6>1 DEF List
              <8> QED
                BY <6>1, <8>1 DEF Entry
            <7> QED
              BY <3>1, <7>1, PriosAre
          <6>5. CASE i = At
            BY <3>2, <6>1, <6>4, <6>5
          <6>6. CASE i # At
            <7>1. At < i /\ At \in 1..began /\ i \in 1..began
              BY <3>2, <4>1, <6>1, <6>2, <6>6 DEF WalkedNow, WalkedAs
            <7>2. seqFrame.R[At].Prio >= seqFrame.R[i].Prio
              BY <3>2, <6>1, <7>1 DEF WalkedNow, WalkedAs, Descends, IsValid
            <7> QED
              BY <6>3, <6>4, <7>2
          <6> QED
            BY <6>5, <6>6
        <5> QED
          BY <5>1, <5>2
      <4>2. CASE ~(At <= began)
        <5>1. began \in Nat
          BY DEF WalkedNow, WalkedAs
        <5>2. o \in Behind
          BY <1>0, <2>3, <3>2, <4>2, <5>1, WaitingIs DEF Behind
        <5>3. ASSUME NEW p \in Waiting
              PROVE  FALSE
          <6>1. PICK i \in 1..Len(seqFrame.R) : /\ i >= walk /\ i <= began /\ seqFrame.R[i].Prio # INVALID
                                                /\ seqFrame.R[i].Object = p
            BY <1>0, <5>3, WaitingIs DEF Waiting
          <6>2. i \in walk..(At - 1)
            BY <1>0, <3>2, <4>2, <5>1, <6>1
          <6> QED
            BY <3>2, <6>1, <6>2
        <5> QED
          BY <5>2, <5>3
      <4> QED
        BY <4>1, <4>2
    <3>11. Shell!Call(o)
      BY <1>3, <3>9, <3>10, ShellCall
    <3> QED
      BY <3>1, <3>11 DEF Shell!Next
  <2> QED
    BY <2>4, <2>5
<1> QED
  BY <1>2, <1>3

\* The beginning of a frame.
LEMMA BeginRefines ==
    ASSUME WalkedNow, FrameMove
    PROVE  Shell!Next /\ WalkedAs(seqFrame', walk', began') /\ Listed(seqFrame') = Listed(seqFrame)
<1>1. walk = 0 /\ began = 0 /\ walk' = 1 /\ began' = Len(seqFrame.R) /\ seqFrame' = Enter(seqFrame)
  BY DEF FrameMove, InFrame, WalkedNow, WalkedAs
<1>2. WalkedAs(seqFrame, 0, 0)
  BY <1>1 DEF WalkedNow
<1>3. WalkedAs(seqFrame', walk', began') /\ Listed(seqFrame') = Listed(seqFrame)
  BY <1>1, <1>2, EnterWalked
<1>4. seqFrame' \in List /\ seqFrame'.R = seqFrame.R /\ Len(seqFrame.R) \in Nat
  <2>1. seqFrame \in [R : Seq(Entry), in_process : BOOLEAN, changed : BOOLEAN]
    BY <1>2 DEF WalkedAs, List
  <2> QED
    BY <1>1, <1>3, <2>1 DEF Enter, WalkedAs
<1>5. Waiting' = Listed(seqFrame')
  <2>1. \A o : o \in Due(seqFrame', walk', began') <=> o \in Listed(seqFrame')
    BY <1>1, <1>4, WaitingIs, ListedIs
  <2> QED
    BY <2>1, PrimesAre
<1>6. Behind' = {}
  <2>1. \A o : o \notin Late(seqFrame', walk', began')
    BY <1>1, <1>4, WaitingIs
  <2> QED
    BY <2>1, PrimesAre
<1>7. ~InFrame /\ InFrame'
  BY <1>1 DEF InFrame
<1>8. Shell!Begin
  BY <1>3, <1>5, <1>6, <1>7, ShellBegin
<1> QED
  BY <1>3, <1>8 DEF Shell!Next

\* The end of a frame.
LEMMA EndRefines ==
    ASSUME WalkedNow, FrameEnd
    PROVE  Shell!Next /\ WalkedAs(seqFrame', walk', began') /\ Listed(seqFrame') = Listed(seqFrame)
<1>1. InFrame /\ At = Len(seqFrame.R) + 1 /\ walk' = 0 /\ began' = 0 /\ seqFrame' \in Leave(seqFrame)
  BY DEF FrameEnd
<1>2. WalkedAs(seqFrame', walk', began') /\ Listed(seqFrame') = Listed(seqFrame)
  BY <1>1, LeaveWalked DEF WalkedNow
<1>3. seqFrame \in List /\ walk \in Nat /\ walk <= Len(seqFrame.R) + 1 /\ Len(seqFrame.R) \in Nat
  BY DEF WalkedNow, WalkedAs, List
<1>4. \A i \in 1..Len(seqFrame.R) : i >= walk => seqFrame.R[i].Prio = INVALID
  <2>1. \A j \in walk..(At - 1) : seqFrame.R[j].Prio = INVALID
    BY <1>3, AtIs DEF IsValid
  <2> QED
    BY <1>1, <1>3, <2>1
<1>5. Waiting = {} /\ Behind = {}
  <2>1. \A o : o \notin Due(seqFrame, walk, began) /\ o \notin Late(seqFrame, walk, began)
    BY <1>3, <1>4, WaitingIs
  <2> QED
    BY <2>1 DEF Waiting, Behind
<1>6. Waiting' = {} /\ Behind' = {} /\ ~InFrame'
  BY <1>1 DEF Due, Late, InFrame, Waiting, Behind
<1>7. Shell!End
  BY <1>1, <1>2, <1>5, <1>6, ShellEnd
<1> QED
  BY <1>2, <1>7 DEF Shell!Next

-----------------------------------------------------------------------------
(* The invariant.                                                          *)

Request == {"single", "multi", "disconnect", "QuickLoad", "quit"}
Stage == {"server", "client", "spawn", "finish", "finalizer"}

Typed ==
    /\ events \in Seq(Request) /\ handled \in Nat /\ handled <= Len(events)
    /\ loading \in Seq([level : Address \cup {None}, stage : Stage])
    /\ \A i \in 1..Len(loading) : loading[i].stage # "finalizer" => loading[i].level \in Address
    /\ inbox \in {None, "load", "change"} /\ gameType \in {"any", "single", "multi"}
    /\ ready \in BOOLEAN /\ result \in BOOLEAN /\ logo \in BOOLEAN /\ quit \in BOOLEAN
    /\ byKey \in BOOLEAN /\ crossed \in BOOLEAN
    /\ away \in [now : BOOLEAN, restorePause : BOOLEAN]

Shape == Typed /\ WalkedNow /\ Right(Here)

Calm == fault = None /\ OneThing /\ LevelRight /\ PauseRight /\ MenuThere /\ LevelMoves /\ ClockRuns

Inv == Shape /\ (~crossed => Calm)

\* The walk stays or goes on by one call.
Steps ==
    /\ began' = began
    /\ IF InFrame THEN walk' = walk \/ \E o \in Object : Called(o) /\ walk' = At + 1
                  ELSE walk' = walk

Outcome(s) ==
    \/ /\ Twice(s.list) /\ fault' = "listed twice"
       /\ seqFrame' = seqFrame /\ level' = level /\ menu' = menu /\ visible' = visible /\ paused' = paused
    \/ /\ ~Twice(s.list) /\ fault' = fault /\ level' = s.level /\ menu' = s.menu
       /\ visible' = s.visible /\ paused' = s.paused /\ Listed(seqFrame') = Listed(s.list)

LEMMA HereIs ==
    /\ Here.list = seqFrame /\ Here.level = level /\ Here.menu = menu /\ Here.visible = visible
    /\ Here.paused = paused
BY DEF Here

LEMMA HereIsThen ==
    ASSUME NEW s, Right(s), seqFrame' \in List, Listed(seqFrame') = Listed(s.list), level' = s.level,
           menu' = s.menu, visible' = s.visible, paused' = s.paused
    PROVE  Right(Here)'
<1>1. /\ Here'.list = seqFrame' /\ Here'.level = level' /\ Here'.menu = menu' /\ Here'.visible = visible'
      /\ Here'.paused = paused' /\ Here' \in Record
  BY DEF Here, Right, Record
<1> QED
  BY <1>1 DEF Right

LEMMA BecomesDoes ==
    ASSUME WalkedNow, Right(Here), Steps, NEW s, Right(s), Evolves(seqFrame, s.list), Becomes(s)
    PROVE  Passes /\ Outcome(s) /\ Right(Here)'
<1>0. seqFrame \in List /\ ~Twice(seqFrame) /\ (seqFrame.in_process <=> InFrame) /\ s.list \in List
      /\ s.list.in_process = seqFrame.in_process
  BY DEF WalkedNow, WalkedAs, InFrame, Evolves
<1>1. CASE Twice(s.list)
  <2>1. fault' = "listed twice" /\ seqFrame' = seqFrame /\ level' = level /\ menu' = menu
        /\ visible' = visible /\ paused' = paused
    BY <1>1 DEF Becomes, Fails
  <2>2. Outcome(s)
    BY <1>1, <2>1 DEF Outcome
  <2>3. Passes
    BY <1>0, <2>1, EvolvesItself DEF Passes, Steps
  <2>4. Right(Here)'
    BY <1>0, <2>1, HereIs, HereIsThen
  <2> QED
    BY <2>2, <2>3, <2>4
<1>2. CASE ~Twice(s.list)
  <2>1. seqFrame' \in Settled(s.list) /\ level' = s.level /\ menu' = s.menu /\ visible' = s.visible
        /\ paused' = s.paused /\ fault' = fault
    BY <1>2 DEF Becomes
  <2>2. CASE InFrame
    <3>1. seqFrame' = s.list
      BY <1>0, <2>1, <2>2 DEF Settled
    <3> QED
      BY <1>0, <1>2, <2>1, <2>2, <3>1, HereIsThen DEF Outcome, Passes, Steps
  <2>3. CASE ~InFrame
    <3>1. seqFrame' \in Resort(s.list)
      BY <1>0, <2>1, <2>3 DEF Settled
    <3>2. seqFrame' \in List /\ Listed(seqFrame') = Listed(s.list)
      BY <1>0, <3>1, ResortDoes
    <3> QED
      BY <1>2, <2>1, <2>3, <3>1, <3>2, HereIsThen DEF Outcome, Passes, Steps
  <2> QED
    BY <2>2, <2>3
<1> QED
  BY <1>1, <1>2

LEMMA NothingDone ==
    ASSUME WalkedNow, Right(Here), Steps,
           seqFrame' = seqFrame, level' = level, menu' = menu, visible' = visible, paused' = paused
    PROVE  Passes /\ Right(Here)'
<1>0. seqFrame \in List /\ ~Twice(seqFrame)
  BY DEF WalkedNow, WalkedAs
<1>1. Passes
  BY <1>0, EvolvesItself DEF Passes, Steps
<1> QED
  BY <1>0, <1>1, HereIs, HereIsThen

LEMMA SameDoes ==
    ASSUME WalkedNow, Right(Here), Steps, Same
    PROVE  /\ Passes /\ Right(Here)' /\ fault' = fault /\ level' = level /\ menu' = menu
           /\ visible' = visible /\ paused' = paused /\ Listed(seqFrame') = Listed(seqFrame)
<1>1. Evolves(seqFrame, Here.list) /\ ~Twice(Here.list)
  BY HereIs, EvolvesItself DEF WalkedNow, WalkedAs
<1>2. Passes /\ Outcome(Here) /\ Right(Here)'
  BY <1>1, BecomesDoes DEF Same
<1> QED
  BY <1>1, <1>2, HereIs DEF Outcome

\* Whose turn it is.
LEMMA CalledWhere ==
    ASSUME WalkedNow, NEW o, Called(o)
    PROVE  /\ o \in Object /\ InFrame /\ o \in Listed(seqFrame)
           /\ o = "application" => walk = 1
           /\ o = "persistent" \/ o = "input" => walk \in 2..3
           /\ o \notin Fixed => At + 1 > 4
<1>0. seqFrame \in List /\ walk \in Nat /\ walk <= Len(seqFrame.R) + 1 /\ Len(seqFrame.R) \in Nat /\ walk > 0
      /\ InFront(seqFrame.R) /\ ~Twice(seqFrame)
  BY DEF WalkedNow, WalkedAs, List, Called, InFrame
<1>1. /\ At \in walk..(Len(seqFrame.R) + 1) /\ At <= Len(seqFrame.R) /\ seqFrame.R[At].Object = o
      /\ seqFrame.R[At].Prio # INVALID /\ \A j \in walk..(At - 1) : seqFrame.R[j].Prio = INVALID
  BY <1>0, AtIs DEF Called, IsValid
<1>2. At \in 1..Len(seqFrame.R)
  BY <1>0, <1>1
<1>3. /\ seqFrame.R[1].Object = "application" /\ seqFrame.R[1].Prio = 5 /\ Len(seqFrame.R) >= 3
      /\ seqFrame.R[2].Object = "persistent" /\ seqFrame.R[2].Prio = 4
      /\ seqFrame.R[3].Object = "input" /\ seqFrame.R[3].Prio = 3
  BY <1>0, InFrontIs
<1>4. \A i, j \in 1..Len(seqFrame.R) :
          seqFrame.R[i].Prio # INVALID /\ seqFrame.R[j].Prio # INVALID
          /\ seqFrame.R[i].Object = seqFrame.R[j].Object => i = j
  BY <1>0, TwiceIs
<1>5. o \in Listed(seqFrame) /\ o \in Object
  BY <1>0, <1>1, <1>2, ListedIs
<1>21. 1 \in 1..Len(seqFrame.R) /\ 2 \in 1..Len(seqFrame.R) /\ 3 \in 1..Len(seqFrame.R)
  BY <1>0, <1>3
<1>22. 5 # INVALID /\ 4 # INVALID /\ 3 # INVALID
  BY DEF INVALID
<1>6. o = "application" => At = 1
  BY <1>1, <1>2, <1>3, <1>4, <1>21, <1>22
<1>7. o = "persistent" => At = 2
  BY <1>1, <1>2, <1>3, <1>4, <1>21, <1>22
<1>8. o = "input" => At = 3
  BY <1>1, <1>2, <1>3, <1>4, <1>21, <1>22
<1>9. At > 1 => walk # 1
  <2> SUFFICES ASSUME At > 1, walk = 1
               PROVE  FALSE
    OBVIOUS
  <2>1. 1 \in walk..(At - 1)
    BY <1>1
  <2> QED
    BY <1>1, <1>3, <2>1 DEF INVALID
<1>10. o \notin Fixed => At > 3
  <2> SUFFICES ASSUME At \in {1, 2, 3}
               PROVE  o \in Fixed
    BY <1>2
  <2> QED
    BY <1>1, <1>3 DEF Fixed
<1> QED
  BY <1>0, <1>1, <1>5, <1>6, <1>7, <1>8, <1>9, <1>10 DEF Called

-----------------------------------------------------------------------------
(* The steps.                                                              *)

\* A step that keeps everything right, and all calm if nothing crosses.
Good ==
    /\ Passes /\ Typed' /\ Right(Here)'
    /\ crossed => crossed'
    /\ ~crossed /\ Calm /\ ~crossed' => Calm'

LEMMA InFrameStays ==
    ASSUME WalkedNow, Passes
    PROVE  InFrame' <=> InFrame
<1>1. /\ seqFrame \in List /\ walk \in Nat /\ walk <= Len(seqFrame.R) + 1
  BY DEF WalkedNow, WalkedAs
<1>2. CASE ~InFrame
  BY <1>2 DEF Passes, InFrame
<1>3. CASE InFrame
  <2>1. CASE walk' = walk
    BY <1>3, <2>1 DEF InFrame
  <2>2. CASE walk' # walk
    <3>1. walk' = At + 1
      BY <1>3, <2>2 DEF Passes
    <3>2. At \in walk..(Len(seqFrame.R) + 1) /\ walk > 0
      BY <1>1, <1>3, AtIs DEF InFrame
    <3> QED
      BY <1>1, <1>3, <3>1, <3>2 DEF InFrame, List
  <2> QED
    BY <2>1, <2>2
<1> QED
  BY <1>2, <1>3

\* What waits in each of the cases of OneThing.
LEMMA EventsAre ==
    ASSUME Typed, OneThing
    PROVE  /\ handled \in 0..Len(events) /\ Len(events) \in 0..2
           /\ handled < Len(events) => loading = <<>> /\ events # <<>> /\ inbox = None /\ ~menu.saving /\ menu.shot = -2
           /\ events = <<>> => handled = 0 /\ Len(events) = 0
           /\ \A e : Upcoming(e) => handled < Len(events) /\ events[handled + 1] = e
           /\ Upcoming("single") => handled + 1 = Len(events)
           /\ Upcoming("multi") => handled + 1 = Len(events)
           /\ Upcoming("quit") => handled + 1 = Len(events)
           /\ Upcoming("QuickLoad") => handled + 1 = Len(events)
           /\ Upcoming("disconnect") => handled = 0
           /\ Upcoming("disconnect") /\ handled + 1 < Len(events)
                 => Len(events) = 2 /\ events[2] \in {"single", "multi", "quit"}
<1>1. events = <<>> \/ events = <<"single">> \/ events = <<"multi">> \/ events = <<"disconnect">>
      \/ events = <<"disconnect", "quit">> \/ events = <<"disconnect", "single">> \/ events = <<"QuickLoad">>
      \/ events = <<"disconnect", "multi">>
  BY DEF OneThing, LevelChange
<1>2. Len(events) \in {0, 1, 2} /\ (events = <<>> <=> Len(events) = 0)
  BY <1>1
<1>3. handled \in Nat /\ handled <= Len(events)
  BY DEF Typed
<1>4. handled \in 0..Len(events) /\ handled \in {0, 1, 2}
  <2> DEFINE n == Len(events)
  <2>1. n \in {0, 1, 2} /\ handled \in Nat /\ handled <= n
    BY <1>2, <1>3
  <2> HIDE DEF n
  <2>2. handled \in 0..n /\ handled \in {0, 1, 2}
    BY <2>1
  <2> QED
    BY <2>2 DEF n
<1>5. handled < Len(events) => loading = <<>> /\ events # <<>> /\ inbox = None /\ ~menu.saving /\ menu.shot = -2
  BY <1>2, <1>3 DEF OneThing
<1>6. \A e : Upcoming(e) => handled < Len(events) /\ events[handled + 1] = e
  BY DEF Upcoming
<1>7. /\ Upcoming("single") => handled + 1 = Len(events)
      /\ Upcoming("multi") => handled + 1 = Len(events)
      /\ Upcoming("quit") => handled + 1 = Len(events)
      /\ Upcoming("QuickLoad") => handled + 1 = Len(events)
      /\ Upcoming("disconnect") => handled = 0
      /\ Upcoming("disconnect") /\ handled + 1 < Len(events)
            => Len(events) = 2 /\ events[2] \in {"single", "multi", "quit"}
  <2>1. CASE events = <<>>
    BY <1>3, <2>1 DEF Upcoming
  <2>2. CASE events = <<"single">>
    BY <1>3, <1>4, <2>2 DEF Upcoming
  <2>3. CASE events = <<"multi">>
    BY <1>3, <1>4, <2>3 DEF Upcoming
  <2>4. CASE events = <<"disconnect">>
    BY <1>3, <1>4, <2>4 DEF Upcoming
  <2>5. CASE events = <<"disconnect", "quit">>
    BY <1>3, <1>4, <2>5 DEF Upcoming
  <2>6. CASE events = <<"disconnect", "single">>
    BY <1>3, <1>4, <2>6 DEF Upcoming
  <2>7. CASE events = <<"QuickLoad">>
    BY <1>3, <1>4, <2>7 DEF Upcoming
  <2>8. CASE events = <<"disconnect", "multi">>
    BY <1>3, <1>4, <2>8 DEF Upcoming
  <2> QED
    BY <1>1, <2>1, <2>2, <2>3, <2>4, <2>5, <2>6, <2>7, <2>8
<1> QED
  BY <1>2, <1>4, <1>5, <1>6, <1>7

\* Nothing but the place in the list has changed.
LEMMA CalmStays ==
    ASSUME Calm, WalkedNow, Passes, Listed(seqFrame') = Listed(seqFrame),
           Upcoming("QuickLoad") => walk' \notin 2..3, fault' = fault, paused => byKey' = byKey,
           UNCHANGED <<level, ready, gameType, events, handled, inbox, loading, result, menu, visible, paused,
                       away, logo, quit, crossed>>
    PROVE  Calm'
<1>1. InFrame' <=> InFrame
  BY InFrameStays
<1>2. OneThing'
  <2> HIDE DEF InFrame
  <2> QED
    BY <1>1 DEF Calm, OneThing, Playing, Rest, Stages
<1>3. LevelRight'
  BY DEF Calm, LevelRight, Playing, Rest, Stages, Finalizer, Upcoming
<1>4. PauseRight' /\ MenuThere' /\ LevelMoves' /\ ClockRuns'
  BY DEF Calm, PauseRight, MenuThere, LevelMoves, ClockRuns, IsGameTypeSingle
<1> QED
  BY <1>2, <1>3, <1>4 DEF Calm

LEMMA TypedStays ==
    ASSUME Typed, UNCHANGED <<ready, gameType, events, handled, inbox, loading, result, away, logo, quit, byKey, crossed>>
    PROVE  Typed'
BY DEF Typed

LEMMA CallsSteps ==
    ASSUME WalkedNow, NEW o, Called(o), Returns, UNCHANGED began
    PROVE  Steps
<1>1. o \in Object /\ InFrame
  BY CalledWhere
<1> QED
  BY <1>1 DEF Steps, Returns

\* Who is not listed from the beginning to the end is called behind those who are.
LEMMA CallsBehind ==
    ASSUME WalkedNow, NEW o, Called(o), Returns, o \notin Fixed
    PROVE  walk' \notin 2..3
<1>1. At + 1 > 4
  BY CalledWhere
<1>2. At \in Int
  <2>1. seqFrame \in List /\ walk \in Nat /\ walk <= Len(seqFrame.R) + 1 /\ Len(seqFrame.R) \in Nat
    BY DEF WalkedNow, WalkedAs, List
  <2>2. At \in walk..(Len(seqFrame.R) + 1)
    BY <2>1, AtIs
  <2> QED
    BY <2>1, <2>2
<1> QED
  BY <1>1, <1>2 DEF Returns

LEMMA ConsoleFrameIsGood == ASSUME Shape, ConsoleFrame PROVE Good
<1>1. Called("console") /\ Returns /\ Same /\ UNCHANGED <<handled, away, began>>
      /\ UNCHANGED <<gameVars, events, inbox, byKey, crossed>>
  BY DEF ConsoleFrame, Calls
<1>2. Steps /\ walk' \notin 2..3
  BY <1>1, CallsSteps, CallsBehind DEF Shape, Fixed
<1>3. Passes /\ Right(Here)' /\ fault' = fault /\ level' = level /\ menu' = menu
      /\ visible' = visible /\ paused' = paused /\ Listed(seqFrame') = Listed(seqFrame)
  BY <1>1, <1>2, SameDoes DEF Shape
<1>4. Typed'
  BY <1>1, TypedStays DEF Shape, gameVars
<1>5. Calm => Calm'
  BY <1>1, <1>2, <1>3, CalmStays DEF Shape, gameVars
<1> QED
  BY <1>1, <1>3, <1>4, <1>5 DEF Good

-----------------------------------------------------------------------------
(* What is known of a moment in which all is calm.                         *)

LEMMA ShapeIs ==
    ASSUME Shape
    PROVE  /\ WalkedNow /\ Right(Here) /\ Typed
           /\ menu \in Menu /\ level \in Address \cup {None} /\ paused \in BOOLEAN /\ visible \in BOOLEAN
           /\ menu.active \in BOOLEAN /\ menu.saving \in BOOLEAN /\ menu.shot \in -2..1
           /\ menu.restorePause \in BOOLEAN /\ menu.restoreConsole \in BOOLEAN
           /\ seqFrame \in List /\ ~Twice(seqFrame) /\ Evolves(seqFrame, Here.list)
           /\ Heard(Here) <=> level \in Listed(seqFrame)
           /\ level = None => level \notin Listed(seqFrame)
<1>1. WalkedNow /\ Right(Here) /\ Typed
  BY DEF Shape
<1>2. menu \in Menu /\ level \in Address \cup {None} /\ paused \in BOOLEAN /\ visible \in BOOLEAN
  BY <1>1, HereIs DEF Right, Record
<1>3. /\ menu.active \in BOOLEAN /\ menu.saving \in BOOLEAN /\ menu.shot \in -2..1
      /\ menu.restorePause \in BOOLEAN /\ menu.restoreConsole \in BOOLEAN
  BY <1>2 DEF Menu
<1>4. seqFrame \in List /\ ~Twice(seqFrame) /\ Evolves(seqFrame, Here.list)
  BY <1>1, HereIs, EvolvesItself DEF WalkedNow, WalkedAs
<1>5. Heard(Here) <=> level \in Listed(seqFrame)
  BY HereIs DEF Heard
<1>6. level = None => level \notin Listed(seqFrame)
  BY <1>4, ListedIs, ObjectsAre
<1> QED
  BY <1>1, <1>2, <1>3, <1>4, <1>5, <1>6

LEMMA HeardThen ==
    ASSUME NEW s, Outcome(s), ~Twice(s.list)
    PROVE  /\ fault' = fault /\ level' = s.level /\ menu' = s.menu /\ visible' = s.visible /\ paused' = s.paused
           /\ level' \in Listed(seqFrame') <=> Heard(s)
BY DEF Outcome, Heard

LEMMA LaterDoes ==
    ASSUME NEW m \in Menu, NEW n \in Nat
    PROVE  LET l == Later(m, n) IN
           /\ l \in Menu /\ l.active = m.active /\ l.saving = m.saving /\ l.restorePause = m.restorePause
           /\ l.restoreConsole = m.restoreConsole /\ l.shot <= m.shot /\ (m.shot = -2 => l.shot = -2)
<1> DEFINE k == IF m.shot - n < -2 THEN -2 ELSE m.shot - n
           l == Later(m, n)
<1>1. k \in -2..1 /\ k <= m.shot /\ (m.shot = -2 => k = -2)
  <2>1. m.shot \in -2..1
    BY DEF Menu
  <2> QED
    BY <2>1
<1>2. l = [m EXCEPT !.shot = k]
  BY DEF Later
<1> HIDE DEF k
<1> QED
  BY <1>1, <1>2 DEF Menu

\* A level being loaded goes through the stages one by one.
LEMMA RestIs ==
    ASSUME NEW a
    PROVE  LET Waits(stage) == [level |-> a, stage |-> stage]
           IN  /\ Rest(a, 1) = <<Waits("server"), Waits("client"), Waits("spawn"), Waits("finish")>>
               /\ Rest(a, 2) = <<Waits("client"), Waits("spawn"), Waits("finish")>>
               /\ Rest(a, 3) = <<Waits("spawn"), Waits("finish")>>
               /\ Rest(a, 4) = <<Waits("finish")>>
<1> DEFINE S(k) == [level |-> a, stage |-> Stages[k]]
           Waits(stage) == [level |-> a, stage |-> stage]
<1>1. S(1) = Waits("server") /\ S(2) = Waits("client") /\ S(3) = Waits("spawn") /\ S(4) = Waits("finish")
  BY DEF Stages
<1>2. \A n \in 1..4 : Rest(a, n) = [i \in 1..(5 - n) |-> S(n + i - 1)]
  BY DEF Rest
<1> HIDE DEF S, Waits
<1>3. Rest(a, 1) = <<S(1), S(2), S(3), S(4)>>
  <2>1. Rest(a, 1) = [i \in 1..4 |-> S(i)]
    BY <1>2
  <2> QED
    BY <2>1
<1>4. Rest(a, 2) = <<S(2), S(3), S(4)>>
  <2>1. Rest(a, 2) = [i \in 1..3 |-> S(i + 1)]
    BY <1>2
  <2> QED
    BY <2>1
<1>5. Rest(a, 3) = <<S(3), S(4)>>
  <2>1. Rest(a, 3) = [i \in 1..2 |-> S(i + 2)]
    BY <1>2
  <2> QED
    BY <2>1
<1>6. Rest(a, 4) = <<S(4)>>
  <2>1. Rest(a, 4) = [i \in 1..1 |-> S(i + 3)]
    BY <1>2
  <2> QED
    BY <2>1
<1> QED
  BY <1>1, <1>3, <1>4, <1>5, <1>6 DEF Waits

LEMMA TailsAre ==
    ASSUME NEW p, NEW q, NEW r, NEW s
    PROVE  /\ Tail(<<p, q, r, s>>) = <<q, r, s>> /\ Tail(<<p, q, r>>) = <<q, r>> /\ Tail(<<p, q>>) = <<q>>
           /\ Tail(<<p>>) = <<>>
<1>1. Tail(<<p, q, r, s>>) = <<q, r, s>>
  BY SMT
<1>2. Tail(<<p, q, r>>) = <<q, r>>
  BY SMT
<1>3. Tail(<<p, q>>) = <<q>>
  BY SMT
<1>4. Tail(<<p>>) = <<>>
  BY SMT
<1> QED
  BY <1>1, <1>2, <1>3, <1>4

LEMMA RestGoesOn ==
    ASSUME NEW a
    PROVE  /\ \A n \in 1..4 : Rest(a, n) # <<>> /\ Rest(a, n) # Finalizer
           /\ \A m, n \in 1..4 : Rest(a, m) = Rest(a, n) => m = n
           /\ \A n \in 1..4 : Head(Rest(a, n)) = [level |-> a, stage |-> Stages[n]]
           /\ \A n \in 1..3 : Tail(Rest(a, n)) = Rest(a, n + 1)
           /\ Tail(Rest(a, 4)) = <<>>
           /\ Finalizer # <<>> /\ Tail(Finalizer) = <<>> /\ Head(Finalizer) = [level |-> None, stage |-> "finalizer"]
<1> DEFINE Waits(stage) == [level |-> a, stage |-> stage]
<1>1. /\ Rest(a, 1) = <<Waits("server"), Waits("client"), Waits("spawn"), Waits("finish")>>
      /\ Rest(a, 2) = <<Waits("client"), Waits("spawn"), Waits("finish")>>
      /\ Rest(a, 3) = <<Waits("spawn"), Waits("finish")>>
      /\ Rest(a, 4) = <<Waits("finish")>>
  BY RestIs
<1>2. Waits("finish") # [level |-> None, stage |-> "finalizer"]
  BY Zenon
<1>3. \A n \in 1..4 : [level |-> a, stage |-> Stages[n]] = Waits(Stages[n])
  OBVIOUS
<1> HIDE DEF Waits
<1> DEFINE p == Waits("server")
           q == Waits("client")
           r == Waits("spawn")
           s == Waits("finish")
<1>0. Rest(a, 1) = <<p, q, r, s>> /\ Rest(a, 2) = <<q, r, s>> /\ Rest(a, 3) = <<r, s>> /\ Rest(a, 4) = <<s>>
  BY <1>1
<1> HIDE DEF p, q, r, s
<1>4. /\ Len(Rest(a, 1)) = 4 /\ Len(Rest(a, 2)) = 3 /\ Len(Rest(a, 3)) = 2 /\ Len(Rest(a, 4)) = 1
  BY <1>1
<1>5. \A n \in 1..4 : Rest(a, n) # <<>> /\ Rest(a, n) # Finalizer
  <2>1. Len(Finalizer) = 1 /\ Len(<<>>) = 0 /\ Finalizer[1] = [level |-> None, stage |-> "finalizer"]
    BY DEF Finalizer
  <2>2. Rest(a, 4)[1] = Waits("finish")
    BY <1>1
  <2> QED
    BY <1>2, <1>4, <2>1, <2>2
<1>6. \A m, n \in 1..4 : Rest(a, m) = Rest(a, n) => m = n
  BY <1>4
<1>7. \A n \in 1..4 : Head(Rest(a, n)) = Waits(Stages[n])
  BY <1>1 DEF Stages
<1>8. \A n \in 1..3 : Tail(Rest(a, n)) = Rest(a, n + 1)
  <2>1. Tail(Rest(a, 1)) = Rest(a, 2)
    <3>1. Tail(<<p, q, r, s>>) = <<q, r, s>>
      BY TailsAre
    <3> QED
      BY <1>0, <3>1, Zenon
  <2>2. Tail(Rest(a, 2)) = Rest(a, 3)
    <3>1. Tail(<<q, r, s>>) = <<r, s>>
      BY TailsAre
    <3> QED
      BY <1>0, <3>1, Zenon
  <2>3. Tail(Rest(a, 3)) = Rest(a, 4)
    <3>1. Tail(<<r, s>>) = <<s>>
      BY TailsAre
    <3> QED
      BY <1>0, <3>1, Zenon
  <2> QED
    BY <2>1, <2>2, <2>3
<1>9. Tail(Rest(a, 4)) = <<>>
  BY <1>0, TailsAre
<1>10. Finalizer # <<>> /\ Tail(Finalizer) = <<>> /\ Head(Finalizer) = [level |-> None, stage |-> "finalizer"]
  BY DEF Finalizer
<1> QED
  BY <1>3, <1>5, <1>6, <1>7, <1>8, <1>9, <1>10

\* Nothing is under way when something is asked for.
LEMMA AskedWhen ==
    ASSUME Shape, Asked, ~crossed'
    PROVE  /\ ~crossed /\ events = <<>> /\ handled = 0 /\ loading = <<>> /\ inbox = None
           /\ ~menu.saving /\ menu.shot = -2 /\ \A on : Refuses(Here, on) <=> menu.active = on
<1>1. ~crossed /\ ~Busy
  BY DEF Asked
<1>2. events = <<>> /\ loading = <<>> /\ inbox = None /\ ~menu.saving /\ menu.shot \notin -1..1
  BY <1>1 DEF Busy, Window
<1>3. menu.shot = -2
  <2>1. menu.shot \in -2..1
    BY ShapeIs
  <2> QED
    BY <1>2, <2>1
<1>4. handled = 0
  <2>1. handled \in Nat /\ handled <= Len(events) /\ Len(events) = 0
    BY <1>2, ShapeIs DEF Typed
  <2> QED
    BY <2>1
<1> QED
  BY <1>1, <1>2, <1>3, <1>4, HereIs DEF Refuses, Window

\* What the input finds when it is called, and when it may end in a command.
LEMMA InputWhen ==
    ASSUME Shape, Calls("input")
    PROVE  /\ Steps /\ InFrame
           /\ Calm => ~Upcoming("QuickLoad")
           /\ Calm /\ Commands => loading = <<>> /\ ~away.now /\ (level # None => ready)
<1>1. Called("input") /\ Returns /\ UNCHANGED began
  BY DEF Calls
<1>2. Steps
  BY <1>1, CallsSteps DEF Shape
<1>3. InFrame /\ walk \in 2..3
  BY <1>1, CalledWhere DEF Shape
<1>4. Calm => ~Upcoming("QuickLoad")
  BY <1>3 DEF Calm, LevelRight
<1>5. ASSUME Calm, Commands
      PROVE  loading = <<>> /\ ~away.now /\ (level # None => ready)
  <2>1. loading # <<>> => level # None /\ ~ready /\ ~visible /\ ~menu.active
    <3> SUFFICES ASSUME loading # <<>>
                 PROVE  level # None /\ ~ready /\ ~visible /\ ~menu.active
      OBVIOUS
    <3>1. loading = Rest(level, 1) /\ ~visible /\ ~menu.active
      BY <1>3, <1>5 DEF Calm, OneThing
    <3>2. loading \notin {Rest(level, 2), Rest(level, 3), Rest(level, 4), Finalizer}
      BY <3>1, RestGoesOn
    <3> QED
      BY <1>5, <3>1, <3>2 DEF Calm, LevelRight
  <2>2. ~away.now /\ (visible \/ menu.active \/ (level # None /\ ready))
    BY <1>5 DEF Commands
  <2>3. loading = <<>>
    BY <2>1, <2>2
  <2> QED
    BY <1>5, <2>2, <2>3 DEF Calm, LevelRight
<1> QED
  BY <1>2, <1>3, <1>4, <1>5

LEMMA TypedForgets ==
    ASSUME Typed, KeyForgotten, UNCHANGED <<ready, gameType, events, handled, loading, result, away, logo, quit>>,
           inbox' \in {None, "load", "change"}, crossed' \in BOOLEAN
    PROVE  Typed'
<1>1. byKey' \in BOOLEAN
  BY DEF KeyForgotten
<1> QED
  BY <1>1 DEF Typed

LEMMA InputIdleIsGood == ASSUME Shape, InputIdle PROVE Good
<1>1. Calls("input") /\ Same /\ UNCHANGED <<handled, away, began>> /\ UNCHANGED <<gameVars, events, inbox, byKey, crossed>>
  BY DEF InputIdle, Calls
<1>2. Steps /\ (Calm => ~Upcoming("QuickLoad"))
  BY <1>1, InputWhen
<1>3. Passes /\ Right(Here)' /\ fault' = fault /\ level' = level /\ menu' = menu
      /\ visible' = visible /\ paused' = paused /\ Listed(seqFrame') = Listed(seqFrame)
  BY <1>1, <1>2, SameDoes, ShapeIs
<1>4. Typed'
  BY <1>1, TypedStays, ShapeIs DEF gameVars
<1>5. Calm => Calm'
  BY <1>1, <1>2, <1>3, CalmStays, ShapeIs DEF gameVars
<1> QED
  BY <1>1, <1>3, <1>4, <1>5 DEF Good

\* Upcoming depends on what is deferred alone.
LEMMA UpcomingStays ==
    ASSUME UNCHANGED <<events, handled>>
    PROVE  \A e : Upcoming(e)' <=> Upcoming(e)
BY DEF Upcoming

LEMMA MainMenuIsGood == ASSUME Shape, MainMenu PROVE Good
<1> DEFINE s == Activate(Here, ~menu.active)
<1>1. /\ Calls("input") /\ Becomes(s) /\ KeyForgotten /\ Commands /\ (menu.active => level # None)
      /\ UNCHANGED <<ready, gameType, events, handled, inbox, loading, result, away, logo, quit, crossed>>
  BY DEF MainMenu, Commands, Calls, gameVars
<1>2. /\ menu.active => s = MenuOff(Here) /\ Closed(Here, s)
      /\ ~menu.active => s = MenuOn(Here) /\ Opened(Here, s)
  BY MenuOnDoes, MenuOffDoes, ShapeIs DEF Activate
<1> HIDE DEF s
<1>3. Right(s) /\ Evolves(seqFrame, s.list) /\ s.level = level
  BY <1>2, HereIs DEF Opened, Closed
<1>4. Passes /\ Outcome(s) /\ Right(Here)' /\ menu.active \in BOOLEAN /\ InFrame
  BY <1>1, <1>3, InputWhen, BecomesDoes, ShapeIs
<1>5. Typed'
  BY <1>1, TypedForgets, ShapeIs DEF Typed
<1>6. ASSUME ~crossed, Calm, ~crossed'
      PROVE  Calm'
  <2>1. loading = <<>> /\ ~away.now /\ (level # None => ready) /\ ~Upcoming("QuickLoad")
    BY <1>1, <1>6, InputWhen
  <2>2. fault = None /\ OneThing /\ LevelRight /\ PauseRight /\ MenuThere /\ LevelMoves /\ ClockRuns
    BY <1>6 DEF Calm
  <2>3. ~Twice(s.list)
    <3>1. /\ Twice(s.list) => ~Refuses(Here, FALSE) /\ menu.active /\ Heard(Here) /\ IsGameTypeSingle
      BY <1>2, <1>4, HereIs, ShapeIs DEF Opened, Closed
    <3>2. ~Refuses(Here, FALSE) => ~menu.saving
      BY HereIs DEF Refuses
    <3> QED
      BY <1>6, <2>1, <2>2, <3>1, <3>2, ShapeIs DEF LevelMoves
  <2>4. /\ fault' = None /\ level' = level /\ menu' = s.menu /\ paused' = s.paused
        /\ level' \in Listed(seqFrame') <=> Heard(s)
    BY <1>3, <1>4, <2>2, <2>3, HeardThen
  <2>5. CASE menu' = menu /\ paused' = paused /\ (Heard(s) <=> Heard(Here))
    <3>1. OneThing'
      BY <1>1, <2>1, <2>2, <2>4, <2>5 DEF OneThing, Playing
    <3>2. LevelRight'
      BY <1>1, <2>1, <2>2, <2>4, UpcomingStays DEF LevelRight, Playing
    <3>3. PauseRight' /\ MenuThere' /\ LevelMoves' /\ ClockRuns'
      BY <1>1, <2>1, <2>2, <2>4, <2>5, ShapeIs
         DEF PauseRight, MenuThere, LevelMoves, ClockRuns, IsGameTypeSingle, KeyForgotten
    <3> QED
      BY <2>4, <3>1, <3>2, <3>3 DEF Calm
  <2>6. CASE ~menu.active /\ ~Refuses(Here, TRUE)
    <3>1. /\ menu'.active = TRUE /\ menu'.saving = menu.saving /\ menu'.shot = menu.shot
          /\ menu'.restorePause = IF IsGameTypeSingle THEN paused ELSE menu.restorePause
          /\ paused' = (paused \/ IsGameTypeSingle)
          /\ level' \in Listed(seqFrame') <=> Heard(Here) /\ ~IsGameTypeSingle
      BY <1>2, <2>4, <2>6, HereIs DEF Opened
    <3>2. ~menu.saving
      BY <2>6, HereIs DEF Refuses
    <3>3. OneThing'
      BY <1>1, <2>1, <2>2, <2>4, <3>1 DEF OneThing, Playing
    <3>4. LevelRight'
      BY <1>1, <2>1, <2>2, <2>4, UpcomingStays DEF LevelRight, Playing
    <3>5. PauseRight' /\ ClockRuns'
      BY <1>1, <1>6, <2>1, <2>2, <2>4, <2>6, <3>1, ShapeIs
         DEF PauseRight, ClockRuns, IsGameTypeSingle, KeyForgotten
    <3>6. MenuThere' /\ LevelMoves'
      BY <1>1, <1>6, <2>1, <2>2, <2>4, <2>6, <3>1, <3>2, ShapeIs
         DEF MenuThere, LevelMoves, IsGameTypeSingle
    <3> QED
      BY <2>4, <3>3, <3>4, <3>5, <3>6 DEF Calm
  <2>7. CASE menu.active /\ ~Refuses(Here, FALSE)
    <3>1. /\ menu'.active = FALSE /\ menu'.saving = menu.saving /\ menu'.shot = menu.shot
          /\ menu'.restorePause = menu.restorePause
          /\ paused' = (paused /\ ~(IsGameTypeSingle /\ ~menu.restorePause))
          /\ level' \in Listed(seqFrame') <=> Heard(Here) \/ (level # None /\ IsGameTypeSingle)
      BY <1>2, <2>4, <2>7, HereIs DEF Closed
    <3>2. ~menu.saving
      BY <2>7, HereIs DEF Refuses
    <3>3. OneThing'
      BY <1>1, <2>1, <2>2, <2>4, <3>1 DEF OneThing, Playing
    <3>4. LevelRight'
      BY <1>1, <2>1, <2>2, <2>4, UpcomingStays DEF LevelRight, Playing
    <3>5. PauseRight' /\ ClockRuns'
      BY <1>1, <1>6, <2>1, <2>2, <2>4, <2>7, <3>1, ShapeIs
         DEF PauseRight, ClockRuns, IsGameTypeSingle, KeyForgotten
    <3>6. MenuThere' /\ LevelMoves'
      BY <1>1, <1>6, <2>1, <2>2, <2>4, <2>7, <3>1, <3>2, ShapeIs
         DEF MenuThere, LevelMoves, IsGameTypeSingle
    <3> QED
      BY <2>4, <3>3, <3>4, <3>5, <3>6 DEF Calm
  <2>8. CASE (menu.active /\ Refuses(Here, FALSE)) \/ (~menu.active /\ Refuses(Here, TRUE))
    <3>1. s = Here
      BY <1>2, <2>8 DEF Opened, Closed
    <3> QED
      BY <2>4, <2>5, <3>1, HereIs
  <2> QED
    BY <2>6, <2>7, <2>8
<1> QED
  BY <1>1, <1>4, <1>5, <1>6 DEF Good

LEMMA StartGameIsGood == ASSUME Shape, NEW type \in {"single", "multi"}, StartGame(type) PROVE Good
<1>1. /\ Calls("input") /\ Same /\ Commands /\ level = None /\ events' = events \o <<type>> /\ Asked
      /\ UNCHANGED <<ready, gameType, handled, inbox, loading, result, away, logo, quit, byKey>>
  BY DEF StartGame, Asks, Commands, Calls, gameVars
<1>2. /\ Passes /\ Right(Here)' /\ fault' = fault /\ level' = level /\ menu' = menu
      /\ visible' = visible /\ paused' = paused /\ Listed(seqFrame') = Listed(seqFrame) /\ InFrame
  BY <1>1, InputWhen, SameDoes, ShapeIs
<1>3. (crossed => crossed') /\ crossed' \in BOOLEAN
  BY <1>1, ShapeIs DEF Asked, Typed
<1>4. Typed'
  <2>1. events' \in Seq(Request) /\ Len(events') = Len(events) + 1
    BY <1>1, ShapeIs DEF Typed, Request
  <2> QED
    BY <1>1, <1>3, <2>1, ShapeIs DEF Typed
<1>5. ASSUME ~crossed, Calm, ~crossed'
      PROVE  Calm'
  <2>1. /\ events = <<>> /\ handled = 0 /\ loading = <<>> /\ inbox = None /\ ~menu.saving /\ menu.shot = -2
    BY <1>1, <1>5, AskedWhen
  <2>2. events' = <<type>> /\ Len(events') = 1 /\ events'[1] = type
    BY <1>1, <2>1
  <2>3. fault = None /\ LevelRight /\ PauseRight /\ MenuThere /\ LevelMoves /\ ClockRuns
    BY <1>5 DEF Calm
  <2>4. OneThing'
    BY <1>1, <1>2, <2>1, <2>2 DEF OneThing, Playing
  <2>5. LevelRight'
    <3>1. ~Upcoming("QuickLoad")'
      BY <1>1, <2>1, <2>2 DEF Upcoming
    <3> QED
      BY <1>1, <1>2, <2>1, <2>3, <3>1 DEF LevelRight, Playing
  <2>6. PauseRight' /\ LevelMoves' /\ ClockRuns'
    BY <1>1, <1>2, <1>5, <2>3 DEF PauseRight, LevelMoves, ClockRuns, IsGameTypeSingle
  <2>7. MenuThere'
    <3>1. 1 \in (handled' + 1)..Len(events')
      BY <1>1, <2>1, <2>2
    <3> QED
      BY <1>1, <1>2, <2>2, <2>3, <3>1 DEF MenuThere
  <2> QED
    BY <1>2, <2>3, <2>4, <2>5, <2>6, <2>7 DEF Calm
<1> QED
  BY <1>2, <1>3, <1>4, <1>5 DEF Good

LEMMA DisconnectIsGood == ASSUME Shape, Disconnect PROVE Good
<1>1. /\ Calls("input") /\ Same /\ Commands /\ events' = events \o <<"disconnect">> /\ Asked
      /\ UNCHANGED <<ready, gameType, handled, inbox, loading, result, away, logo, quit, byKey>>
  BY DEF Disconnect, Asks, Commands, Calls, gameVars
<1>2. /\ Passes /\ Right(Here)' /\ fault' = fault /\ level' = level /\ menu' = menu
      /\ visible' = visible /\ paused' = paused /\ Listed(seqFrame') = Listed(seqFrame) /\ InFrame
  BY <1>1, InputWhen, SameDoes, ShapeIs
<1>3. (crossed => crossed') /\ crossed' \in BOOLEAN
  BY <1>1, ShapeIs DEF Asked, Typed
<1>4. Typed'
  <2>1. events' \in Seq(Request) /\ Len(events') = Len(events) + 1
    BY <1>1, ShapeIs DEF Typed, Request
  <2> QED
    BY <1>1, <1>3, <2>1, ShapeIs DEF Typed
<1>5. ASSUME ~crossed, Calm, ~crossed'
      PROVE  Calm'
  <2>1. /\ events = <<>> /\ handled = 0 /\ loading = <<>> /\ inbox = None /\ ~menu.saving /\ menu.shot = -2
    BY <1>1, <1>5, AskedWhen
  <2>2. events' = <<"disconnect">> /\ Len(events') = 1 /\ events'[1] = "disconnect"
    BY <1>1, <2>1
  <2>3. fault = None /\ LevelRight /\ PauseRight /\ MenuThere /\ LevelMoves /\ ClockRuns
    BY <1>5 DEF Calm
  <2>4. OneThing'
    BY <1>1, <1>2, <2>1, <2>2 DEF OneThing, Playing
  <2>5. LevelRight'
    <3>1. ~Upcoming("QuickLoad")' /\ ~Upcoming("single")' /\ ~Upcoming("multi")'
      BY <1>1, <2>1, <2>2 DEF Upcoming
    <3> QED
      BY <1>1, <1>2, <2>1, <2>3, <3>1 DEF LevelRight, Playing
  <2>6. PauseRight' /\ LevelMoves' /\ ClockRuns'
    BY <1>1, <1>2, <1>5, <2>3 DEF PauseRight, LevelMoves, ClockRuns, IsGameTypeSingle
  <2>7. MenuThere'
    BY <1>1, <1>2, <2>1, <2>2, <2>3 DEF MenuThere
  <2> QED
    BY <1>2, <2>3, <2>4, <2>5, <2>6, <2>7 DEF Calm
<1> QED
  BY <1>2, <1>3, <1>4, <1>5 DEF Good

LEMMA QuitIsGood == ASSUME Shape, Quit PROVE Good
<1>1. /\ Calls("input") /\ (Becomes(Hide(Here)) \/ Becomes(Here)) /\ events' = events \o <<"disconnect", "quit">> /\ Asked
      /\ UNCHANGED <<ready, gameType, handled, inbox, loading, result, away, logo, quit, byKey>>
  BY DEF Quit, Asks, Calls, gameVars, Same
<1>2. /\ Passes /\ Right(Here)' /\ fault' = fault /\ level' = level /\ menu' = menu
      /\ paused' = paused /\ InFrame /\ (level' \in Listed(seqFrame') <=> level \in Listed(seqFrame))
  <2>1. Steps /\ InFrame
    BY <1>1, InputWhen
  <2>2. Consoled(Here, Hide(Here)) /\ Consoled(Here, Here)
    BY HideDoes, ConsoledItself, ShapeIs
  <2>3. PICK s \in {Hide(Here), Here} : Becomes(s)
    BY <1>1
  <2>4. Consoled(Here, s)
    BY <2>2, <2>3
  <2>5. Right(s) /\ Evolves(seqFrame, s.list) /\ ~Twice(s.list)
    BY <2>4, HereIs, ShapeIs DEF Consoled
  <2>6. Passes /\ Outcome(s) /\ Right(Here)'
    BY <2>1, <2>3, <2>5, BecomesDoes, ShapeIs
  <2> QED
    BY <2>1, <2>4, <2>5, <2>6, HeardThen, HereIs, ShapeIs DEF Consoled
<1>3. (crossed => crossed') /\ crossed' \in BOOLEAN
  BY <1>1, ShapeIs DEF Asked, Typed
<1>4. Typed'
  <2>1. events' \in Seq(Request) /\ Len(events') = Len(events) + 2
    BY <1>1, ShapeIs DEF Typed, Request
  <2> QED
    BY <1>1, <1>3, <2>1, ShapeIs DEF Typed
<1>5. ASSUME ~crossed, Calm, ~crossed'
      PROVE  Calm'
  <2>1. /\ events = <<>> /\ handled = 0 /\ loading = <<>> /\ inbox = None /\ ~menu.saving /\ menu.shot = -2
    BY <1>1, <1>5, AskedWhen
  <2>2. events' = <<"disconnect", "quit">> /\ Len(events') = 2 /\ events'[1] = "disconnect"
    BY <1>1, <2>1
  <2>3. fault = None /\ LevelRight /\ PauseRight /\ MenuThere /\ LevelMoves /\ ClockRuns
    BY <1>5 DEF Calm
  <2>4. OneThing'
    BY <1>1, <1>2, <2>1, <2>2 DEF OneThing, Playing
  <2>5. LevelRight'
    <3>1. ~Upcoming("QuickLoad")' /\ ~Upcoming("single")' /\ ~Upcoming("multi")'
      BY <1>1, <2>1, <2>2 DEF Upcoming
    <3> QED
      BY <1>1, <1>2, <2>1, <2>3, <3>1 DEF LevelRight, Playing
  <2>6. PauseRight' /\ LevelMoves' /\ ClockRuns'
    BY <1>1, <1>2, <1>5, <2>3 DEF PauseRight, LevelMoves, ClockRuns, IsGameTypeSingle
  <2>7. MenuThere'
    BY <1>1, <1>2, <2>1, <2>2, <2>3 DEF MenuThere
  <2> QED
    BY <1>2, <2>3, <2>4, <2>5, <2>6, <2>7 DEF Calm
<1> QED
  BY <1>2, <1>3, <1>4, <1>5 DEF Good

LEMMA LoadGameIsGood == ASSUME Shape, LoadGame PROVE Good
<1> DEFINE m == MenuOff(Here)
           s == Set(m, m.menu, FALSE)
<1>1. /\ Calls("input") /\ Commands /\ level # None /\ ready /\ gameType = "single" /\ Becomes([m EXCEPT !.paused = FALSE])
      /\ inbox' = "load" /\ Asked /\ KeyForgotten
      /\ UNCHANGED <<ready, gameType, events, handled, loading, result, away, logo, quit>>
  BY DEF LoadGame, Commands, Calls, gameVars, Activate
<1>2. Closed(Here, m)
  BY MenuOffDoes, ShapeIs
<1> HIDE DEF m
<1>3. Right(m) /\ m \in Record /\ m.menu \in Menu
  BY <1>2 DEF Closed, Right, Record
<1>4. s = [m EXCEPT !.paused = FALSE]
  BY <1>3 DEF Set, Record
<1>5. /\ Right(s) /\ s.list = m.list /\ s.level = m.level /\ s.menu = m.menu /\ s.paused = FALSE
      /\ (Heard(s) <=> Heard(m))
  BY <1>3, SetDoes
<1> HIDE DEF s
<1>6. Evolves(seqFrame, s.list) /\ s.level = level
  BY <1>2, <1>5, HereIs DEF Closed
<1>7. Passes /\ Outcome(s) /\ Right(Here)' /\ InFrame
  BY <1>1, <1>4, <1>5, <1>6, InputWhen, BecomesDoes, ShapeIs
<1>8. (crossed => crossed') /\ crossed' \in BOOLEAN
  BY <1>1, ShapeIs DEF Asked, Typed
<1>9. Typed'
  BY <1>1, <1>8, TypedForgets, ShapeIs
<1>10. ASSUME ~crossed, Calm, ~crossed'
       PROVE  Calm'
  <2>1. /\ events = <<>> /\ handled = 0 /\ loading = <<>> /\ inbox = None /\ ~menu.saving /\ menu.shot = -2
        /\ (Refuses(Here, FALSE) <=> menu.active = FALSE)
    BY <1>1, <1>10, AskedWhen
  <2>2. fault = None /\ LevelRight /\ LevelMoves
    BY <1>10 DEF Calm
  <2>3. ~Twice(s.list)
    <3>1. Twice(s.list) => ~Refuses(Here, FALSE) /\ Heard(Here)
      BY <1>2, <1>5, HereIs, ShapeIs DEF Closed
    <3> QED
      BY <1>1, <1>10, <2>1, <2>2, <3>1, ShapeIs DEF LevelMoves, IsGameTypeSingle
  <2>4. /\ fault' = None /\ level' = level /\ menu' = s.menu /\ paused' = FALSE
        /\ level' \in Listed(seqFrame') <=> Heard(s)
    BY <1>5, <1>6, <1>7, <2>2, <2>3, HeardThen
  <2>5. menu'.active = FALSE /\ menu'.saving = menu.saving /\ menu'.shot = menu.shot /\ level' \in Listed(seqFrame')
    <3>1. CASE menu.active = FALSE
      <4>1. m = Here /\ Heard(Here)
        BY <1>1, <1>2, <1>10, <2>1, <2>2, <3>1, ShapeIs DEF Closed, LevelMoves
      <4> QED
        BY <1>5, <2>4, <3>1, <4>1, HereIs
    <3>2. CASE menu.active # FALSE
      BY <1>1, <1>2, <1>5, <2>1, <2>4, <3>2, HereIs DEF Closed, IsGameTypeSingle
    <3> QED
      BY <3>1, <3>2
  <2>6. OneThing'
    BY <1>1, <2>1, <2>4, <2>5 DEF OneThing, Playing
  <2>7. LevelRight'
    <3>1. \A e : ~Upcoming(e)'
      BY <1>1, <2>1 DEF Upcoming
    <3> QED
      BY <1>1, <2>1, <2>4, <3>1 DEF LevelRight, Playing
  <2>8. PauseRight' /\ LevelMoves' /\ ClockRuns' /\ MenuThere'
    BY <1>1, <1>10, <2>1, <2>4, <2>5 DEF PauseRight, LevelMoves, ClockRuns, MenuThere, IsGameTypeSingle, Calm
  <2> QED
    BY <2>4, <2>6, <2>7, <2>8 DEF Calm
<1> QED
  BY <1>7, <1>8, <1>9, <1>10 DEF Good

LEMMA SaveGameIsGood == ASSUME Shape, SaveGame PROVE Good
<1> DEFINE s == Screenshot(Here)
<1>1. /\ Calls("input") /\ Commands /\ level # None /\ ready /\ gameType = "single" /\ Becomes(s) /\ Asked
      /\ UNCHANGED <<ready, gameType, events, handled, inbox, loading, result, away, logo, quit, byKey>>
  BY DEF SaveGame, Commands, Calls, gameVars
<1>2. /\ Right(s) /\ Evolves(seqFrame, s.list) /\ s.level = level
      /\ Twice(s.list) => level \in Listed(seqFrame) /\ menu.active
      /\ s.menu \in Menu /\ s.menu.saving = TRUE /\ s.menu.shot = 1 /\ s.menu.active = menu.active
      /\ s.menu.restorePause = menu.restorePause /\ s.paused = paused
      /\ Heard(s) <=> level \in Listed(seqFrame) \/ menu.active
  BY <1>1, ScreenshotDoes, HereIs, ShapeIs
<1> HIDE DEF s
<1>3. Passes /\ Outcome(s) /\ Right(Here)' /\ InFrame
  BY <1>1, <1>2, InputWhen, BecomesDoes, ShapeIs
<1>4. (crossed => crossed') /\ crossed' \in BOOLEAN
  BY <1>1, ShapeIs DEF Asked, Typed
<1>5. Typed'
  BY <1>1, <1>4, ShapeIs DEF Typed
<1>6. ASSUME ~crossed, Calm, ~crossed'
      PROVE  Calm'
  <2>1. /\ events = <<>> /\ handled = 0 /\ loading = <<>> /\ inbox = None /\ ~menu.saving /\ menu.shot = -2
    BY <1>1, <1>6, AskedWhen
  <2>2. fault = None /\ OneThing /\ LevelRight /\ PauseRight /\ MenuThere /\ LevelMoves /\ ClockRuns
    BY <1>6 DEF Calm
  <2>3. level \in Listed(seqFrame) <=> ~menu.active
    BY <1>1, <1>6, <2>1, <2>2 DEF LevelMoves, IsGameTypeSingle
  <2>4. /\ fault' = None /\ level' = level /\ menu' = s.menu /\ paused' = paused /\ level' \in Listed(seqFrame')
    BY <1>2, <1>3, <2>2, <2>3, HeardThen
  <2>5. OneThing'
    BY <1>1, <1>2, <2>1, <2>2, <2>4 DEF OneThing, Playing
  <2>6. LevelRight'
    BY <1>1, <2>1, <2>2, <2>4, UpcomingStays DEF LevelRight, Playing, Upcoming
  <2>7. PauseRight' /\ LevelMoves' /\ ClockRuns' /\ MenuThere'
    BY <1>1, <1>2, <2>1, <2>2, <2>4, <1>6 DEF PauseRight, LevelMoves, ClockRuns, MenuThere, IsGameTypeSingle
  <2> QED
    BY <2>4, <2>5, <2>6, <2>7 DEF Calm
<1> QED
  BY <1>3, <1>4, <1>5, <1>6 DEF Good

LEMMA ToggleConsoleIsGood == ASSUME Shape, ToggleConsole PROVE Good
<1> DEFINE s == IF visible THEN Hide(Here) ELSE Show(Here)
<1>1. /\ Calls("input") /\ Commands /\ Becomes(s)
      /\ UNCHANGED <<ready, gameType, events, handled, inbox, loading, result, away, logo, quit, byKey, crossed>>
  BY DEF ToggleConsole, Commands, Calls, gameVars
<1>2. Consoled(Here, s)
  BY HideDoes, ShowDoes, ShapeIs
<1> HIDE DEF s
<1>3. /\ Right(s) /\ Evolves(seqFrame, s.list) /\ ~Twice(s.list) /\ s.level = level /\ s.menu = menu
      /\ s.paused = paused /\ (Heard(s) <=> level \in Listed(seqFrame))
  BY <1>2, HereIs, ShapeIs DEF Consoled
<1>4. Passes /\ Outcome(s) /\ Right(Here)' /\ InFrame
  BY <1>1, <1>3, InputWhen, BecomesDoes, ShapeIs
<1>5. Typed'
  BY <1>1, TypedStays, ShapeIs
<1>6. ASSUME ~crossed, Calm, ~crossed'
      PROVE  Calm'
  <2>1. loading = <<>> /\ (level # None => ready) /\ ~Upcoming("QuickLoad")
    BY <1>1, <1>6, InputWhen
  <2>2. fault = None /\ OneThing /\ LevelRight /\ PauseRight /\ MenuThere /\ LevelMoves /\ ClockRuns
    BY <1>6 DEF Calm
  <2>3. /\ fault' = None /\ level' = level /\ menu' = menu /\ paused' = paused
        /\ (level' \in Listed(seqFrame') <=> level \in Listed(seqFrame))
    BY <1>3, <1>4, <2>2, HeardThen
  <2>4. OneThing'
    BY <1>1, <2>1, <2>2, <2>3 DEF OneThing, Playing
  <2>5. LevelRight'
    BY <1>1, <2>1, <2>2, <2>3, UpcomingStays DEF LevelRight, Playing
  <2>6. PauseRight' /\ LevelMoves' /\ ClockRuns' /\ MenuThere'
    BY <1>1, <1>6, <2>2, <2>3 DEF PauseRight, LevelMoves, ClockRuns, MenuThere, IsGameTypeSingle
  <2> QED
    BY <2>3, <2>4, <2>5, <2>6 DEF Calm
<1> QED
  BY <1>1, <1>4, <1>5, <1>6 DEF Good

LEMMA PauseKeyIsGood == ASSUME Shape, PauseKey PROVE Good
<1> DEFINE p == ~paused
           s == Set(Here, menu, p)
<1>1. /\ Calls("input") /\ ~away.now /\ level # None /\ ready /\ ~menu.active /\ ~visible /\ gameType = "single"
      /\ Becomes([Here EXCEPT !.paused = ~@]) /\ byKey' = ~paused
      /\ UNCHANGED <<ready, gameType, events, handled, inbox, loading, result, away, logo, quit, crossed>>
  BY DEF PauseKey, Calls, gameVars
<1>2. s = [Here EXCEPT !.paused = ~@]
  BY HereIs DEF Set, Here
<1>3. p \in BOOLEAN /\ p = ~paused
  BY ShapeIs
<1> HIDE DEF p
<1>4. /\ Right(s) /\ s.list = seqFrame /\ s.level = level /\ s.menu = menu /\ s.paused = p
      /\ (Heard(s) <=> level \in Listed(seqFrame))
  <2>0. Right(Here) /\ menu \in Menu
    BY ShapeIs
  <2>1. /\ Right(s) /\ s.list = Here.list /\ s.level = Here.level /\ s.menu = menu /\ s.paused = p
        /\ (Heard(s) <=> Heard(Here))
    BY <1>3, <2>0, SetDoes
  <2> QED
    BY <2>1, HereIs, ShapeIs
<1> HIDE DEF s
<1>5. Evolves(seqFrame, s.list) /\ ~Twice(s.list)
  BY <1>4, HereIs, ShapeIs
<1>6. Passes /\ Outcome(s) /\ Right(Here)' /\ InFrame
  BY <1>1, <1>2, <1>4, <1>5, InputWhen, BecomesDoes, ShapeIs
<1>7. Typed'
  BY <1>1, ShapeIs DEF Typed
<1>8. ASSUME ~crossed, Calm, ~crossed'
      PROVE  Calm'
  <2>1. loading = <<>> /\ ~Upcoming("QuickLoad")
    BY <1>1, <1>8, InputWhen DEF Commands
  <2>2. fault = None /\ OneThing /\ LevelRight /\ PauseRight /\ MenuThere /\ LevelMoves /\ ClockRuns
    BY <1>8 DEF Calm
  <2>3. /\ fault' = None /\ level' = level /\ menu' = menu /\ paused' = ~paused
        /\ (level' \in Listed(seqFrame') <=> level \in Listed(seqFrame))
    BY <1>3, <1>4, <1>5, <1>6, <2>2, HeardThen
  <2>4. OneThing'
    BY <1>1, <2>1, <2>2, <2>3 DEF OneThing, Playing
  <2>5. LevelRight'
    BY <1>1, <2>1, <2>2, <2>3, UpcomingStays DEF LevelRight, Playing
  <2>6. PauseRight' /\ LevelMoves' /\ ClockRuns' /\ MenuThere'
    BY <1>1, <1>8, <2>2, <2>3 DEF PauseRight, LevelMoves, ClockRuns, MenuThere, IsGameTypeSingle
  <2> QED
    BY <2>3, <2>4, <2>5, <2>6 DEF Calm
<1> QED
  BY <1>1, <1>6, <1>7, <1>8 DEF Good

\* What was deferred is done with.
LEMMA ApplicationFrameIsGood == ASSUME Shape, ApplicationFrame PROVE Good
<1>1. /\ Called("application") /\ handled = Len(events) /\ events' = <<>> /\ handled' = 0 /\ Same /\ Returns
      /\ UNCHANGED <<ready, gameType, loading, result, logo, quit, inbox, away, began, byKey, crossed>>
  BY DEF ApplicationFrame, gameVars
<1>2. Steps
  BY <1>1, CallsSteps, ShapeIs
<1>3. Passes /\ Right(Here)' /\ fault' = fault /\ level' = level /\ menu' = menu
      /\ visible' = visible /\ paused' = paused /\ Listed(seqFrame') = Listed(seqFrame)
  BY <1>1, <1>2, SameDoes, ShapeIs
<1>4. InFrame' <=> InFrame
  BY <1>3, InFrameStays, ShapeIs
<1>5. Typed'
  <2>1. events' \in Seq(Request) /\ Len(events') = 0
    BY <1>1
  <2> QED
    BY <1>1, <2>1, ShapeIs DEF Typed
<1>6. ASSUME ~crossed, Calm
      PROVE  Calm'
  <2>1. fault = None /\ OneThing /\ LevelRight /\ PauseRight /\ MenuThere /\ LevelMoves /\ ClockRuns
    BY <1>6 DEF Calm
  <2>2. Len(events') = 0 /\ \A e : ~Upcoming(e)'
    BY <1>1 DEF Upcoming
  <2>3. Rest(level, 1)' = Rest(level, 1) /\ Rest(level, 2)' = Rest(level, 2)
        /\ Rest(level, 3)' = Rest(level, 3) /\ Rest(level, 4)' = Rest(level, 4) /\ Finalizer' = Finalizer
    BY <1>3 DEF Rest, Stages, Finalizer
  <2>4. OneThing'
    BY <1>1, <1>3, <1>4, <2>1, <2>2, <2>3 DEF OneThing, Playing
  <2>5. LevelRight'
    BY <1>1, <1>3, <2>1, <2>2, <2>3 DEF LevelRight, Playing
  <2>6. PauseRight' /\ LevelMoves' /\ ClockRuns'
    BY <1>1, <1>3, <1>6, <2>1 DEF PauseRight, LevelMoves, ClockRuns, IsGameTypeSingle
  <2>7. MenuThere'
    <3>1. \A i : i \notin (handled + 1)..Len(events)
      <4>1. handled \in Nat
        BY ShapeIs DEF Typed
      <4> QED
        BY <1>1, <4>1
    <3> QED
      BY <1>1, <1>3, <2>1, <3>1 DEF MenuThere
  <2> QED
    BY <1>3, <2>1, <2>4, <2>5, <2>6, <2>7 DEF Calm
<1> QED
  BY <1>1, <1>3, <1>5, <1>6 DEF Good

LEMMA MenuFrameIsGood == ASSUME Shape, MenuFrame PROVE Good
<1> DEFINE done == Set(Here, [menu EXCEPT !.saving = FALSE], paused)
           back == IF level # None /\ menu.active THEN Unlisten(done, level) ELSE done
           shown == IF menu.restoreConsole THEN Show(back) ELSE back
           s == IF ~(menu.saving /\ menu.shot < 0) THEN Here ELSE shown
<1>1. /\ Called("menu") /\ Returns
      /\ UNCHANGED <<ready, gameType, events, handled, inbox, loading, result, away, logo, quit, byKey, crossed, began>>
  BY DEF MenuFrame, Calls, gameVars
<1>2. Becomes(s)
  <2>1. done = [Here EXCEPT !.menu.saving = FALSE]
    <3>1. Here \in Record /\ Here.menu = menu /\ Here.paused = paused /\ menu \in Menu
      BY HereIs, ShapeIs DEF Right
    <3> QED
      BY <3>1 DEF Set, Record, Menu
  <2> HIDE DEF done
  <2> QED
    BY <2>1 DEF MenuFrame
<1>3. Steps /\ walk' \notin 2..3
  BY <1>1, CallsSteps, CallsBehind, ShapeIs DEF Fixed
<1>4. [menu EXCEPT !.saving = FALSE] \in Menu
  BY ShapeIs DEF Menu
<1>5. /\ Right(done) /\ done.list = seqFrame /\ done.level = level /\ done.menu = [menu EXCEPT !.saving = FALSE]
      /\ done.paused = paused /\ (Heard(done) <=> level \in Listed(seqFrame))
  <2>1. /\ Right(done) /\ done.list = Here.list /\ done.level = Here.level /\ done.menu = [menu EXCEPT !.saving = FALSE]
        /\ done.paused = paused /\ (Heard(done) <=> Heard(Here))
    BY <1>4, SetDoes, ShapeIs
  <2> HIDE DEF done
  <2> QED
    BY <2>1, HereIs, ShapeIs
<1> HIDE DEF done
<1>6. /\ Right(back) /\ Evolves(seqFrame, back.list) /\ ~Twice(back.list) /\ back.level = level
      /\ back.menu = done.menu /\ back.paused = paused
      /\ Heard(back) <=> level \in Listed(seqFrame) /\ ~(level # None /\ menu.active)
  <2>1. CASE level # None /\ menu.active
    <3> DEFINE u == Unlisten(done, done.level)
    <3>1. back = u
      BY <1>5, <2>1
    <3>2. /\ Right(u) /\ Evolves(done.list, u.list) /\ ~Heard(u) /\ (Twice(u.list) => Twice(done.list))
          /\ u.level = done.level /\ u.menu = done.menu /\ u.paused = done.paused
      BY <1>5, <2>1, LevelSilent
    <3> HIDE DEF u, back
    <3> QED
      BY <1>5, <2>1, <3>1, <3>2, ShapeIs
  <2>2. CASE ~(level # None /\ menu.active)
    <3>1. back = done
      BY <2>2
    <3> HIDE DEF back
    <3> QED
      BY <1>5, <2>2, <3>1, HereIs, ShapeIs
  <2> QED
    BY <2>1, <2>2
<1> HIDE DEF back
<1>7. /\ Right(shown) /\ Evolves(seqFrame, shown.list) /\ ~Twice(shown.list) /\ shown.level = level
      /\ shown.menu = done.menu /\ shown.paused = paused
      /\ Heard(shown) <=> level \in Listed(seqFrame) /\ ~(level # None /\ menu.active)
  <2>1. CASE menu.restoreConsole
    <3>1. Consoled(back, Show(back)) /\ shown = Show(back)
      BY <1>6, <2>1, ShowDoes
    <3> HIDE DEF shown
    <3>2. Evolves(seqFrame, shown.list)
      BY <1>6, <3>1, EvolvesOn, ShapeIs DEF Consoled
    <3> QED
      BY <1>6, <3>1, <3>2 DEF Consoled
  <2>2. CASE ~menu.restoreConsole
    BY <1>6, <2>2
  <2> QED
    BY <2>1, <2>2
<1> HIDE DEF shown
<1>8. /\ Right(s) /\ Evolves(seqFrame, s.list) /\ ~Twice(s.list) /\ s.level = level /\ s.paused = paused
  BY <1>7, HereIs, ShapeIs
<1>9. Passes /\ Outcome(s) /\ Right(Here)'
  BY <1>2, <1>3, <1>8, BecomesDoes, ShapeIs
<1>10. Typed'
  BY <1>1, TypedStays, ShapeIs
<1>11. fault' = fault /\ level' = level /\ menu' = s.menu /\ paused' = paused /\ (level' \in Listed(seqFrame') <=> Heard(s))
  BY <1>8, <1>9, HeardThen
<1>12. ASSUME ~crossed, Calm
       PROVE  Calm'
  <2>1. fault = None /\ OneThing /\ LevelRight /\ PauseRight /\ MenuThere /\ LevelMoves /\ ClockRuns
    BY <1>12 DEF Calm
  <2>2. CASE ~(menu.saving /\ menu.shot < 0)
    <3>1. s = Here
      BY <2>2
    <3>2. visible' = visible /\ Listed(seqFrame') = Listed(seqFrame) /\ menu' = menu
      BY <1>8, <1>9, <3>1, HereIs DEF Outcome
    <3> QED
      BY <1>1, <1>3, <1>9, <1>11, <1>12, <3>2, CalmStays, ShapeIs
  <2>3. CASE menu.saving /\ menu.shot < 0
    <3>1. s = shown
      BY <2>3
    <3> HIDE DEF s
    <3>2. /\ menu'.active = menu.active /\ menu'.saving = FALSE /\ menu'.shot = menu.shot
          /\ menu'.restorePause = menu.restorePause
      BY <1>5, <1>7, <1>11, <3>1, ShapeIs DEF Menu
    <3>3. level' \in Listed(seqFrame') <=> level \in Listed(seqFrame) /\ ~(level # None /\ menu.active)
      BY <1>7, <1>11, <3>1
    <3>4. events = <<>> /\ inbox = None /\ Playing /\ loading = <<>>
      BY <2>1, <2>3 DEF OneThing
    <3>5. OneThing'
      BY <1>1, <1>11, <2>1, <2>3, <3>2, <3>4, ShapeIs DEF OneThing, Playing
    <3>6. LevelRight'
      BY <1>1, <1>3, <1>11, <2>1, <3>2, <3>3, <3>4, UpcomingStays DEF LevelRight, Playing
    <3>7. PauseRight' /\ LevelMoves' /\ ClockRuns' /\ MenuThere'
      BY <1>1, <1>11, <1>12, <2>1, <2>3, <3>2, <3>3, <3>4, ShapeIs
         DEF PauseRight, LevelMoves, ClockRuns, MenuThere, Playing, IsGameTypeSingle
    <3> QED
      BY <1>11, <2>1, <3>5, <3>6, <3>7 DEF Calm
  <2> QED
    BY <2>2, <2>3
<1> QED
  BY <1>1, <1>9, <1>10, <1>12 DEF Good

LEMMA DeferredIs ==
    /\ inbox = None => Deferred = {<<>>}
    /\ \A more \in Deferred : more \in {<<>>, <<"disconnect", "single">>, <<"QuickLoad">>}
    /\ \A more \in Deferred : inbox = None => more = <<>>
    /\ inbox # None => <<>> \notin Deferred
    /\ \A more \in Received : more \in Seq(Request) /\ Len(more) \in Nat
    /\ LevelChange \in Seq(Request) /\ Len(LevelChange) = 2
<1>1. /\ inbox = None => Deferred = {<<>>}
      /\ inbox # None => \A more \in Deferred : more \in {<<"disconnect", "single">>, <<"QuickLoad">>}
  BY DEF Deferred
<1>2. /\ <<"disconnect", "single">> # <<>> /\ <<"QuickLoad">> # <<>>
      /\ <<"disconnect", "single">> \in Seq(Request) /\ <<"QuickLoad">> \in Seq(Request) /\ <<>> \in Seq(Request)
      /\ Len(<<"disconnect", "single">>) \in Nat /\ Len(<<"QuickLoad">>) \in Nat /\ Len(<<>>) \in Nat
  BY DEF Request
<1>3. \A more \in Received : more \in Deferred \/ more = <<>> \/ more = LevelChange
  BY DEF Received
<1>4. LevelChange \in Seq(Request) /\ Len(LevelChange) = 2
  BY DEF LevelChange, Request
<1> QED
  BY <1>1, <1>2, <1>3, <1>4

LEMMA LevelFrameIsGood == ASSUME Shape, LevelFrame PROVE Good
<1>1. PICK a \in Address : Calls(a)
  BY DEF LevelFrame
<1>2. /\ Called(a) /\ Returns /\ Same
      /\ UNCHANGED <<ready, gameType, handled, loading, result, away, logo, quit, byKey, began>>
  BY <1>1 DEF LevelFrame, Calls, gameVars
<1>3. \/ UNCHANGED <<events, inbox, crossed>>
      \/ \E more \in Deferred : events' = events \o more /\ inbox' = None /\ UNCHANGED crossed
      \/ inbox = None /\ gameType = "single" /\ inbox' = "change" /\ Asked /\ UNCHANGED events
      \/ gameType = "multi" /\ Asks(<<"disconnect">>) /\ UNCHANGED inbox
      \/ gameType = "multi" /\ Asks(LevelChange) /\ UNCHANGED inbox
  BY DEF LevelFrame, ChangeComes
<1>4. Steps /\ walk' \notin 2..3
  BY <1>2, CallsSteps, CallsBehind, ObjectsAre, ShapeIs
<1>5. /\ Passes /\ Right(Here)' /\ fault' = fault /\ level' = level /\ menu' = menu
      /\ visible' = visible /\ paused' = paused /\ Listed(seqFrame') = Listed(seqFrame)
  BY <1>2, <1>4, SameDoes, ShapeIs
<1>6. level = a /\ level # None /\ level \in Listed(seqFrame)
  <2>1. a \in Listed(seqFrame)
    BY <1>2, CalledWhere, ShapeIs
  <2> QED
    BY <2>1, HereIs, ShapeIs, ObjectsAre DEF Right
<1>7. CASE UNCHANGED <<events, inbox, crossed>>
  <2>1. Typed'
    BY <1>2, <1>7, TypedStays, ShapeIs
  <2>2. Calm => Calm'
    BY <1>2, <1>4, <1>5, <1>7, CalmStays, ShapeIs
  <2> QED
    BY <1>5, <1>7, <2>1, <2>2 DEF Good
<1>8. (crossed => crossed') /\ crossed' \in BOOLEAN
  <2>1. crossed \in BOOLEAN
    BY ShapeIs DEF Typed
  <2>2. CASE Asked
    BY <2>1, <2>2 DEF Asked
  <2>3. CASE UNCHANGED crossed
    BY <2>1, <2>3
  <2> QED
    BY <1>3, <2>2, <2>3 DEF Asks
<1>9. ASSUME Calm
      PROVE  ready /\ loading = <<>> /\ fault = None /\ OneThing /\ LevelRight /\ PauseRight /\ MenuThere /\ LevelMoves /\ ClockRuns
  <2>1. ready /\ fault = None /\ OneThing /\ LevelRight /\ PauseRight /\ MenuThere /\ LevelMoves /\ ClockRuns
    BY <1>6, <1>9 DEF Calm, LevelRight
  <2>2. loading = <<>> \/ loading # <<>>
    OBVIOUS
  <2>3. loading # <<>> => FALSE
    <3> SUFFICES ASSUME loading # <<>>
                 PROVE  FALSE
      OBVIOUS
    <3>1. InFrame
      BY <1>2, CalledWhere, ShapeIs
    <3>2. loading = Rest(level, 1)
      BY <2>1, <3>1 DEF OneThing
    <3>3. loading \notin {Rest(level, 3), Rest(level, 4), Finalizer}
      BY <3>2, RestGoesOn
    <3> QED
      BY <2>1, <3>3 DEF LevelRight
  <2> QED
    BY <2>1, <2>3
<1>10. CASE \E more \in Deferred : events' = events \o more /\ inbox' = None /\ UNCHANGED crossed
  <2>1. PICK more \in Deferred : events' = events \o more /\ inbox' = None /\ UNCHANGED crossed
    BY <1>10
  <2>2. more \in Received /\ more \in Deferred /\ more \in {<<>>, <<"disconnect", "single">>, <<"QuickLoad">>}
    BY DeferredIs DEF Received
  <2>3. Typed'
    <3>1. more \in Seq(Request)
      BY <2>2, DeferredIs
    <3>2. events \in Seq(Request)
      BY ShapeIs DEF Typed
    <3>3. events' \in Seq(Request) /\ Len(events') = Len(events) + Len(more) /\ Len(more) \in Nat /\ Len(events) \in Nat
      BY <2>1, <3>1, <3>2
    <3> QED
      BY <1>2, <2>1, <3>3, ShapeIs DEF Typed
  <2>4. CASE inbox = None
    <3>1. more = <<>>
      BY <2>2, <2>4, DeferredIs
    <3>2. events' = events /\ inbox' = inbox
      <4>1. events \in Seq(Request)
        BY ShapeIs DEF Typed
      <4> QED
        BY <2>1, <2>4, <3>1, <4>1
    <3> QED
      BY <1>7, <2>1, <3>2
  <2>5. CASE inbox # None
    <3>1. ASSUME ~crossed, Calm
          PROVE  Calm'
      <4>1. /\ ready /\ loading = <<>> /\ fault = None /\ OneThing /\ LevelRight /\ PauseRight
            /\ MenuThere /\ LevelMoves /\ ClockRuns
        BY <1>9, <3>1
      <4>2. events = <<>> /\ Playing /\ ~menu.saving /\ menu.shot = -2
        BY <2>5, <4>1 DEF OneThing
      <4>3. ~menu.active
        BY <1>6, <3>1, <4>1, <4>2 DEF LevelMoves, Playing, IsGameTypeSingle
      <4>4. handled = 0
        <5>1. handled \in Nat /\ handled <= Len(events) /\ Len(events) = 0
          BY <4>2, ShapeIs DEF Typed
        <5> QED
          BY <5>1
      <4>5. events' \in {<<"disconnect", "single">>, <<"QuickLoad">>}
        <5>1. more # <<>>
          BY <2>5, DeferredIs
        <5> QED
          BY <2>1, <2>2, <4>2, <5>1
      <4>6. ~Upcoming("single")' /\ ~Upcoming("multi")'
        BY <1>2, <4>4, <4>5 DEF Upcoming
      <4>7. OneThing'
        BY <1>2, <1>5, <2>1, <4>1, <4>2, <4>5 DEF OneThing, Playing
      <4>8. LevelRight'
        BY <1>2, <1>4, <1>5, <4>1, <4>2, <4>3, <4>6 DEF LevelRight, Playing
      <4>9. PauseRight' /\ LevelMoves' /\ ClockRuns' /\ MenuThere'
        BY <1>2, <1>5, <1>6, <3>1, <4>1 DEF PauseRight, LevelMoves, ClockRuns, MenuThere, IsGameTypeSingle
      <4> QED
        BY <1>5, <4>1, <4>7, <4>8, <4>9 DEF Calm
    <3> QED
      BY <1>5, <1>8, <2>3, <3>1 DEF Good
  <2> QED
    BY <2>4, <2>5
<1>11. CASE inbox = None /\ gameType = "single" /\ inbox' = "change" /\ Asked /\ UNCHANGED events
  <2>1. Typed'
    BY <1>2, <1>8, <1>11, ShapeIs DEF Typed
  <2>2. ASSUME ~crossed, Calm, ~crossed'
        PROVE  Calm'
    <3>1. /\ ready /\ loading = <<>> /\ fault = None /\ OneThing /\ LevelRight /\ PauseRight
          /\ MenuThere /\ LevelMoves /\ ClockRuns
      BY <1>9, <2>2
    <3>2. events = <<>> /\ ~menu.saving /\ menu.shot = -2 /\ handled = 0
      BY <1>11, <2>2, AskedWhen
    <3>3. OneThing'
      BY <1>2, <1>5, <1>6, <1>11, <3>1, <3>2 DEF OneThing, Playing
    <3>4. LevelRight'
      BY <1>2, <1>4, <1>5, <1>11, <3>1, UpcomingStays DEF LevelRight, Playing
    <3>5. PauseRight' /\ LevelMoves' /\ ClockRuns' /\ MenuThere'
      BY <1>2, <1>5, <1>6, <1>11, <2>2, <3>1 DEF PauseRight, LevelMoves, ClockRuns, MenuThere, IsGameTypeSingle
    <3> QED
      BY <1>5, <3>1, <3>3, <3>4, <3>5 DEF Calm
  <2> QED
    BY <1>5, <1>8, <2>1, <2>2 DEF Good
<1>12. ASSUME NEW list \in {<<"disconnect">>, LevelChange}, gameType = "multi", Asks(list), UNCHANGED inbox
       PROVE  Good
  <2> USE DEF Asks
  <2>1. Typed'
    <3>0. <<"disconnect">> \in Seq(Request) /\ Len(<<"disconnect">>) = 1
      BY DEF Request
    <3>1. events \in Seq(Request) /\ list \in Seq(Request) /\ Len(list) \in Nat
      <4>1. events \in Seq(Request)
        BY ShapeIs DEF Typed
      <4>2. CASE list = <<"disconnect">>
        BY <3>0, <4>1, <4>2
      <4>3. CASE list = LevelChange
        BY <4>1, <4>3, DeferredIs
      <4> QED
        BY <4>2, <4>3
    <3>2. events' \in Seq(Request) /\ Len(events') = Len(events) + Len(list) /\ Len(events) \in Nat
      BY <1>12, <3>1
    <3> QED
      BY <1>2, <1>8, <1>12, <3>1, <3>2, ShapeIs DEF Typed
  <2>2. ASSUME ~crossed, Calm, ~crossed'
        PROVE  Calm'
    <3>1. /\ ready /\ loading = <<>> /\ fault = None /\ OneThing /\ LevelRight /\ PauseRight
          /\ MenuThere /\ LevelMoves /\ ClockRuns
      BY <1>9, <2>2
    <3>2. events = <<>> /\ ~menu.saving /\ menu.shot = -2 /\ handled = 0 /\ inbox = None
      BY <1>12, <2>2, AskedWhen
    <3>3. events' \in {<<"disconnect">>, <<"disconnect", "multi">>} /\ events'[1] = "disconnect"
      <4>1. list \in {<<"disconnect">>, <<"disconnect", "multi">>} /\ events' = <<>> \o list
        BY <1>12, <3>2 DEF LevelChange
      <4>2. <<>> \o <<"disconnect">> = <<"disconnect">>
            /\ <<>> \o <<"disconnect", "multi">> = <<"disconnect", "multi">>
        OBVIOUS
      <4> QED
        BY <4>1, <4>2
    <3>4. ~Upcoming("single")' /\ ~Upcoming("multi")' /\ ~Upcoming("QuickLoad")'
      BY <1>2, <3>2, <3>3 DEF Upcoming
    <3>5. OneThing'
      BY <1>2, <1>5, <1>12, <3>1, <3>2, <3>3 DEF OneThing, Playing, LevelChange
    <3>6. LevelRight'
      BY <1>2, <1>4, <1>5, <3>1, <3>4 DEF LevelRight, Playing
    <3>7. PauseRight' /\ LevelMoves' /\ ClockRuns' /\ MenuThere'
      BY <1>2, <1>5, <1>6, <2>2, <3>1 DEF PauseRight, LevelMoves, ClockRuns, MenuThere, IsGameTypeSingle
    <3> QED
      BY <1>5, <3>1, <3>5, <3>6, <3>7 DEF Calm
  <2> QED
    BY <1>5, <1>8, <2>1, <2>2 DEF Good
<1> QED
  BY <1>3, <1>7, <1>10, <1>11, <1>12 DEF Asks

\* The menu as it is first shown.
LEMMA IntroDone ==
    ASSUME Shape, NEW s, s = IF logo THEN MenuOn(Show(Here)) ELSE Here
    PROVE  /\ Right(s) /\ Evolves(seqFrame, s.list) /\ ~Twice(s.list) /\ s.level = level
           /\ ~logo => s = Here
           /\ logo /\ ~Refuses(Here, TRUE) =>
                 /\ s.menu.active = TRUE /\ s.menu.saving = menu.saving /\ s.menu.shot = menu.shot
                 /\ s.menu.restorePause = IF IsGameTypeSingle THEN paused ELSE menu.restorePause
                 /\ s.paused = (paused \/ IsGameTypeSingle)
           /\ logo /\ Refuses(Here, TRUE) => s.menu = menu /\ s.paused = paused /\ (Heard(s) <=> Heard(Here))
<1>1. CASE ~logo
  BY <1>1, HereIs, ShapeIs
<1>2. CASE logo
  <2> DEFINE shown == Show(Here)
  <2>1. Consoled(Here, shown)
    BY ShowDoes, ShapeIs
  <2>2. s = MenuOn(shown)
    BY <1>2
  <2> HIDE DEF shown
  <2>3. /\ Right(shown) /\ Evolves(seqFrame, shown.list) /\ ~Twice(shown.list) /\ shown.level = level
        /\ shown.menu = menu /\ shown.paused = paused /\ (Heard(shown) <=> Heard(Here))
    BY <2>1, HereIs, ShapeIs DEF Consoled
  <2>4. Opened(shown, s)
    BY <2>2, <2>3, MenuOnDoes
  <2>5. Refuses(shown, TRUE) <=> Refuses(Here, TRUE)
    BY <2>3, HereIs DEF Refuses
  <2>6. Right(s) /\ Evolves(seqFrame, s.list) /\ ~Twice(s.list) /\ s.level = level
    BY <2>3, <2>4, EvolvesOn, ShapeIs DEF Opened
  <2> QED
    BY <1>2, <2>3, <2>4, <2>5, <2>6 DEF Opened
<1> QED
  BY <1>1, <1>2

LEMMA PersistentFrameIsGood == ASSUME Shape, PersistentFrame PROVE Good
<1> DEFINE s == IF logo THEN MenuOn(Show(Here)) ELSE Here
<1>1. /\ Called("persistent") /\ Returns /\ logo' = FALSE /\ KeyForgotten
      /\ UNCHANGED <<ready, gameType, events, handled, inbox, loading, result, away, quit, began>>
  BY DEF PersistentFrame, Calls
<1>2. \/ Becomes(s) /\ UNCHANGED crossed
      \/ /\ level # None /\ ready /\ gameType = "single" /\ ~s.paused
         /\ Becomes(Screenshot(s)) /\ Asked
  BY DEF PersistentFrame
<1>3. /\ Right(s) /\ Evolves(seqFrame, s.list) /\ ~Twice(s.list) /\ s.level = level
      /\ ~logo => s = Here
      /\ logo /\ ~Refuses(Here, TRUE) =>
            /\ s.menu.active = TRUE /\ s.menu.saving = menu.saving /\ s.menu.shot = menu.shot
            /\ s.menu.restorePause = IF IsGameTypeSingle THEN paused ELSE menu.restorePause
            /\ s.paused = (paused \/ IsGameTypeSingle)
      /\ logo /\ Refuses(Here, TRUE) => s.menu = menu /\ s.paused = paused /\ (Heard(s) <=> Heard(Here))
  BY IntroDone
<1> HIDE DEF s
<1>4. Steps /\ InFrame /\ walk \in 2..3
  BY <1>1, CallsSteps, CalledWhere, ShapeIs
<1>5. byKey' \in BOOLEAN
  BY <1>1 DEF KeyForgotten
<1>6. (crossed => crossed') /\ crossed' \in BOOLEAN
  <2>1. crossed \in BOOLEAN
    BY ShapeIs DEF Typed
  <2>2. CASE Asked
    BY <2>1, <2>2 DEF Asked
  <2>3. CASE UNCHANGED crossed
    BY <2>1, <2>3
  <2> QED
    BY <1>2, <2>2, <2>3
<1>7. Typed'
  BY <1>1, <1>5, <1>6, ShapeIs DEF Typed
<1>8. ASSUME Calm
      PROVE  /\ fault = None /\ OneThing /\ LevelRight /\ PauseRight /\ MenuThere /\ LevelMoves /\ ClockRuns
             /\ ~Upcoming("QuickLoad")
             /\ logo => level = None /\ loading = <<>> /\ ~menu.saving /\ menu.shot = -2
                        /\ (Refuses(Here, TRUE) <=> menu.active = TRUE)
  <2>1. /\ fault = None /\ OneThing /\ LevelRight /\ PauseRight /\ MenuThere /\ LevelMoves /\ ClockRuns
        /\ ~Upcoming("QuickLoad")
    BY <1>4, <1>8 DEF Calm, LevelRight
  <2>2. logo => level = None /\ loading = <<>> /\ ~menu.saving /\ menu.shot = -2
    BY <2>1 DEF MenuThere, OneThing, Playing
  <2>3. logo => (Refuses(Here, TRUE) <=> menu.active = TRUE)
    BY <2>2, HereIs DEF Refuses, Window
  <2> QED
    BY <2>1, <2>2, <2>3
<1>9. CASE Becomes(s) /\ UNCHANGED crossed
  <2>1. Passes /\ Outcome(s) /\ Right(Here)'
    BY <1>3, <1>4, <1>9, BecomesDoes, ShapeIs
  <2>2. /\ fault' = fault /\ level' = level /\ menu' = s.menu /\ paused' = s.paused
        /\ level' \in Listed(seqFrame') <=> Heard(s)
    BY <1>3, <2>1, HeardThen
  <2>3. ASSUME ~crossed, Calm
        PROVE  Calm'
    <3>1. /\ fault = None /\ OneThing /\ LevelRight /\ PauseRight /\ MenuThere /\ LevelMoves /\ ClockRuns
          /\ ~Upcoming("QuickLoad")
          /\ logo => level = None /\ loading = <<>> /\ ~menu.saving /\ menu.shot = -2
                     /\ (Refuses(Here, TRUE) <=> menu.active = TRUE)
      BY <1>8, <2>3
    <3>2. InFrame' <=> InFrame
      BY <2>1, InFrameStays, ShapeIs
    <3>3. CASE ~logo
      <4>1. /\ s = Here /\ menu' = menu /\ paused' = paused /\ visible' = visible /\ Listed(seqFrame') = Listed(seqFrame)
        BY <1>3, <2>1, <3>3, HereIs DEF Outcome
      <4>2. UNCHANGED logo /\ (paused => byKey' = byKey)
        <5>1. logo \in BOOLEAN /\ logo' = FALSE /\ byKey \in BOOLEAN
          BY <1>1, ShapeIs DEF Typed
        <5> QED
          BY <1>1, <3>3, <4>1, <5>1 DEF KeyForgotten
      <4> QED
        BY <1>1, <1>9, <2>1, <2>2, <2>3, <3>1, <4>1, <4>2, CalmStays, ShapeIs
    <3>4. CASE logo
      <4>1. level = None /\ loading = <<>> /\ ~menu.saving /\ menu.shot = -2 /\ (Refuses(Here, TRUE) <=> menu.active = TRUE)
        BY <3>1, <3>4
      <4>2. /\ menu'.active = TRUE /\ menu'.saving = menu.saving /\ menu'.shot = menu.shot
            /\ \/ menu'.restorePause = menu.restorePause /\ paused' = paused /\ menu.active = TRUE
               \/ /\ menu'.restorePause = IF IsGameTypeSingle THEN paused ELSE menu.restorePause
                  /\ paused' = (paused \/ IsGameTypeSingle) /\ menu.active = FALSE
        BY <1>3, <2>2, <3>4, <4>1, HereIs, ShapeIs
      <4>3. OneThing'
        BY <1>1, <2>2, <3>1, <4>1, <4>2 DEF OneThing, Playing
      <4>4. LevelRight'
        BY <1>1, <2>2, <3>1, <4>1, UpcomingStays DEF LevelRight, Playing
      <4>5. PauseRight' /\ ClockRuns'
        BY <1>1, <2>2, <2>3, <3>1, <4>1, <4>2, ShapeIs DEF PauseRight, ClockRuns, IsGameTypeSingle, KeyForgotten
      <4>6. LevelMoves' /\ MenuThere'
        BY <1>1, <2>2, <4>1, <4>2 DEF LevelMoves, MenuThere
      <4> QED
        BY <2>2, <3>1, <4>3, <4>4, <4>5, <4>6 DEF Calm
    <3> QED
      BY <3>3, <3>4
  <2> QED
    BY <1>6, <1>7, <2>1, <2>3 DEF Good
<1>10. CASE level # None /\ ready /\ gameType = "single" /\ ~s.paused /\ Becomes(Screenshot(s)) /\ Asked
  <2> DEFINE r == Screenshot(s)
  <2>1. /\ Right(r) /\ Evolves(s.list, r.list) /\ r.level = s.level
        /\ Twice(r.list) => Twice(s.list) \/ (Heard(s) /\ s.menu.active)
        /\ r.menu \in Menu /\ r.menu.saving = TRUE /\ r.menu.shot = 1 /\ r.menu.active = s.menu.active
        /\ r.menu.restorePause = s.menu.restorePause /\ r.paused = s.paused
        /\ Heard(r) <=> Heard(s) \/ s.menu.active
    BY <1>3, <1>10, ScreenshotDoes
  <2>2. Becomes(r)
    BY <1>10
  <2> HIDE DEF r
  <2>3. Evolves(seqFrame, r.list)
    BY <1>3, <2>1, EvolvesOn, ShapeIs
  <2>4. Passes /\ Outcome(r) /\ Right(Here)'
    BY <1>4, <2>1, <2>2, <2>3, BecomesDoes, ShapeIs
  <2>5. ASSUME ~crossed, Calm, ~crossed'
        PROVE  Calm'
    <3>1. /\ fault = None /\ OneThing /\ LevelRight /\ PauseRight /\ MenuThere /\ LevelMoves /\ ClockRuns
          /\ (logo => level = None)
      BY <1>8, <2>5
    <3>2. /\ events = <<>> /\ handled = 0 /\ loading = <<>> /\ inbox = None /\ ~menu.saving /\ menu.shot = -2
      BY <1>10, <2>5, AskedWhen
    <3>3. s = Here /\ ~logo
      BY <1>3, <1>10, <3>1
    <3>4. level \in Listed(seqFrame) <=> ~menu.active
      BY <1>10, <2>5, <3>1, <3>2 DEF LevelMoves, IsGameTypeSingle
    <3>5. ~Twice(r.list)
      BY <1>3, <2>1, <3>3, <3>4, HereIs, ShapeIs
    <3>6. /\ fault' = None /\ level' = level /\ menu' = r.menu /\ paused' = paused /\ level' \in Listed(seqFrame')
          /\ menu'.saving = TRUE /\ menu'.shot = 1 /\ menu'.active = menu.active /\ menu'.restorePause = menu.restorePause
          /\ ~paused
      BY <1>10, <2>1, <2>4, <3>1, <3>3, <3>4, <3>5, HeardThen, HereIs, ShapeIs
    <3>7. OneThing'
      BY <1>1, <1>10, <3>1, <3>2, <3>6 DEF OneThing, Playing
    <3>8. LevelRight'
      BY <1>1, <1>10, <3>1, <3>2, <3>6 DEF LevelRight, Playing, Upcoming
    <3>9. PauseRight' /\ LevelMoves' /\ ClockRuns' /\ MenuThere'
      BY <1>1, <1>10, <2>5, <3>1, <3>2, <3>6 DEF PauseRight, LevelMoves, ClockRuns, MenuThere, IsGameTypeSingle
    <3> QED
      BY <3>6, <3>7, <3>8, <3>9 DEF Calm
  <2> QED
    BY <1>6, <1>7, <2>4, <2>5 DEF Good
<1> QED
  BY <1>2, <1>9, <1>10

\* What is handled next, one of the events deferred.
LEMMA HandlesWhen ==
    ASSUME Shape, NEW e, Handles(e)
    PROVE  /\ Steps /\ InFrame /\ InFrame' /\ walk = 1 /\ walk' = 1 /\ Upcoming(e) /\ handled' = handled + 1
           /\ handled' \in Nat /\ handled' <= Len(events)
           /\ UNCHANGED <<away, began>>
<1>1. /\ Called("application") /\ handled < Len(events) /\ events[handled + 1] = e /\ handled' = handled + 1
      /\ walk' = walk /\ UNCHANGED <<away, began>>
  BY DEF Handles, Stays
<1>2. InFrame /\ walk = 1
  BY <1>1, CalledWhere, ShapeIs
<1>3. handled \in Nat /\ Len(events) \in Nat
  BY ShapeIs DEF Typed
<1>4. InFrame'
  BY <1>1, <1>2 DEF InFrame
<1> QED
  BY <1>1, <1>2, <1>3, <1>4 DEF Steps, Upcoming

LEMMA OnQuitIsGood == ASSUME Shape, OnQuit PROVE Good
<1>1. /\ Handles("quit") /\ quit' = TRUE /\ Same
      /\ UNCHANGED <<events, ready, loading, result, gameType, logo, inbox, crossed, byKey>>
  BY DEF OnQuit
<1>2. /\ Steps /\ InFrame /\ InFrame' /\ walk' = 1 /\ Upcoming("quit") /\ handled' = handled + 1
      /\ handled' \in Nat /\ handled' <= Len(events) /\ UNCHANGED <<away, began>>
  BY <1>1, HandlesWhen
<1>3. /\ Passes /\ Right(Here)' /\ fault' = fault /\ level' = level /\ menu' = menu
      /\ visible' = visible /\ paused' = paused /\ Listed(seqFrame') = Listed(seqFrame)
  BY <1>1, <1>2, SameDoes, ShapeIs
<1>4. Typed'
  BY <1>1, <1>2, ShapeIs DEF Typed
<1>5. ASSUME ~crossed, Calm
      PROVE  Calm'
  <2>1. fault = None /\ OneThing /\ LevelRight /\ PauseRight /\ MenuThere /\ LevelMoves /\ ClockRuns
    BY <1>5 DEF Calm
  <2>2. handled + 1 = Len(events) /\ loading = <<>> /\ events # <<>> /\ inbox = None /\ ~menu.saving /\ menu.shot = -2
    BY <1>2, <2>1, EventsAre, ShapeIs
  <2>3. \A e : ~Upcoming(e)'
    BY <1>1, <1>2, <2>2 DEF Upcoming
  <2>4. OneThing'
    BY <1>1, <1>3, <2>1, <2>2 DEF OneThing, Playing
  <2>5. LevelRight'
    BY <1>1, <1>3, <2>1, <2>2, <2>3 DEF LevelRight, Playing
  <2>6. PauseRight' /\ LevelMoves' /\ ClockRuns' /\ MenuThere'
    BY <1>1, <1>2, <1>3, <1>5, <2>1 DEF PauseRight, LevelMoves, ClockRuns, MenuThere, IsGameTypeSingle
  <2> QED
    BY <1>3, <2>1, <2>4, <2>5, <2>6 DEF Calm
<1> QED
  BY <1>1, <1>3, <1>4, <1>5 DEF Good

\* A handler that stops at a failed assertion is good unless all was calm.
LEMMA FailsIsGood ==
    ASSUME Shape, Steps, Typed', crossed => crossed', NEW what, Fails(what), ~crossed /\ Calm => FALSE
    PROVE  Good
<1>1. Passes /\ Right(Here)'
  BY NothingDone, ShapeIs DEF Fails
<1> QED
  BY <1>1 DEF Good

LEMMA OnQuickLoadIsGood == ASSUME Shape, OnQuickLoad PROVE Good
<1> DEFINE m == Later(menu, 12)
           s == Set(Here, m, FALSE)
<1>1. /\ Handles("QuickLoad") /\ UNCHANGED <<ready, loading, result, gameType, logo, quit>> /\ KeyForgotten
  BY DEF OnQuickLoad, gameVars
<1>2. /\ Steps /\ InFrame /\ InFrame' /\ walk' = 1 /\ Upcoming("QuickLoad") /\ handled' = handled + 1
      /\ handled' \in Nat /\ handled' <= Len(events) /\ UNCHANGED <<away, began>>
  BY <1>1, HandlesWhen
<1>3. byKey' \in BOOLEAN
  BY <1>1 DEF KeyForgotten
<1>4. CASE level = None
  <2>1. Fails("no level") /\ UNCHANGED <<events, inbox, crossed>>
    BY <1>4 DEF OnQuickLoad
  <2>2. Typed'
    BY <1>1, <1>2, <1>3, <2>1, ShapeIs DEF Typed
  <2>3. Calm => FALSE
    BY <1>2, <1>4 DEF Calm, LevelRight, Playing
  <2> QED
    BY <1>2, <2>1, <2>2, <2>3, FailsIsGood
<1>5. CASE level # None
  <2>1. PICK more \in Received :
            /\ Becomes([Here EXCEPT !.paused = FALSE, !.menu = Later(@, 12)])
            /\ events' = events \o more /\ inbox' = None /\ crossed' = (crossed \/ more # <<>>)
    BY <1>5 DEF OnQuickLoad
  <2>2. m \in Menu /\ m.active = menu.active /\ m.saving = menu.saving /\ m.restorePause = menu.restorePause
        /\ (menu.shot = -2 => m.shot = -2)
    BY LaterDoes, ShapeIs
  <2>3. s = [Here EXCEPT !.paused = FALSE, !.menu = Later(@, 12)]
    <3>1. Here \in Record /\ Here.menu = menu
      BY HereIs, ShapeIs DEF Right
    <3> QED
      BY <3>1 DEF Set, Record
  <2> HIDE DEF m
  <2>4. /\ Right(s) /\ s.list = seqFrame /\ s.level = level /\ s.menu = m /\ s.paused = FALSE
        /\ (Heard(s) <=> level \in Listed(seqFrame))
    <3>1. /\ Right(s) /\ s.list = Here.list /\ s.level = Here.level /\ s.menu = m /\ s.paused = FALSE
          /\ (Heard(s) <=> Heard(Here))
      BY <2>2, SetDoes, ShapeIs
    <3> HIDE DEF s
    <3> QED
      BY <3>1, HereIs, ShapeIs
  <2> HIDE DEF s
  <2>5. Evolves(seqFrame, s.list) /\ ~Twice(s.list)
    BY <2>4, HereIs, ShapeIs
  <2>6. Passes /\ Outcome(s) /\ Right(Here)'
    BY <1>2, <2>1, <2>3, <2>4, <2>5, BecomesDoes, ShapeIs
  <2>7. (crossed => crossed') /\ crossed' \in BOOLEAN
    BY <2>1, ShapeIs DEF Typed
  <2>8. Typed'
    <3>1. events \in Seq(Request) /\ more \in Seq(Request) /\ Len(more) \in Nat /\ Len(events) \in Nat
      BY DeferredIs, ShapeIs DEF Typed
    <3>2. events' \in Seq(Request) /\ Len(events') = Len(events) + Len(more)
      BY <2>1, <3>1
    <3> QED
      BY <1>1, <1>2, <1>3, <2>1, <2>7, <3>1, <3>2, ShapeIs DEF Typed
  <2>9. ASSUME ~crossed, Calm, ~crossed'
        PROVE  Calm'
    <3>1. fault = None /\ OneThing /\ LevelRight /\ LevelMoves /\ MenuThere
      BY <2>9 DEF Calm
    <3>2. handled + 1 = Len(events) /\ loading = <<>> /\ events # <<>> /\ inbox = None /\ ~menu.saving /\ menu.shot = -2
      BY <1>2, <3>1, EventsAre, ShapeIs
    <3>3. events' = events
      <4>1. more = <<>> /\ events \in Seq(Request)
        BY <2>1, <2>9, ShapeIs DEF Typed
      <4> QED
        BY <2>1, <4>1
    <3>4. \A e : ~Upcoming(e)'
      BY <1>2, <3>2, <3>3 DEF Upcoming
    <3>5. Playing /\ ~menu.active
      BY <1>2, <3>1 DEF LevelRight
    <3>6. /\ fault' = None /\ level' = level /\ menu' = m /\ paused' = FALSE
          /\ (level' \in Listed(seqFrame') <=> level \in Listed(seqFrame))
      BY <2>4, <2>5, <2>6, <3>1, HeardThen
    <3>7. OneThing'
      BY <1>1, <2>1, <2>2, <3>1, <3>2, <3>3, <3>6 DEF OneThing, Playing
    <3>8. LevelRight'
      BY <1>1, <3>1, <3>2, <3>4, <3>5, <3>6 DEF LevelRight, Playing
    <3>9. menu'.active = menu.active /\ menu'.saving = menu.saving /\ level # None /\ ready
      BY <2>2, <3>5, <3>6 DEF Playing
    <3>10. PauseRight' /\ ClockRuns'
      BY <1>1, <1>2, <2>9, <3>5, <3>6, <3>9 DEF PauseRight, ClockRuns
    <3>11. LevelMoves' /\ MenuThere'
      BY <1>1, <2>9, <3>1, <3>6, <3>9 DEF LevelMoves, MenuThere, IsGameTypeSingle
    <3> QED
      BY <3>6, <3>7, <3>8, <3>10, <3>11 DEF Calm
  <2> QED
    BY <2>6, <2>7, <2>8, <2>9 DEF Good
<1> QED
  BY <1>4, <1>5

\* A level where there was none.
LEMMA CreatedDoes ==
    ASSUME NEW s, Right(s), s.level = None, NEW a \in Address
    PROVE  LET r == [s EXCEPT !.level = a] IN
           /\ Right(r) /\ r.list = s.list /\ r.level = a /\ r.menu = s.menu /\ r.visible = s.visible
           /\ r.paused = s.paused /\ ~Heard(r)
<1> DEFINE r == [s EXCEPT !.level = a]
<1>1. s \in Record /\ a # None
  BY ObjectsAre DEF Right
<1>2. r \in Record /\ r.list = s.list /\ r.level = a /\ r.menu = s.menu /\ r.visible = s.visible /\ r.paused = s.paused
  BY <1>1 DEF Record
<1> HIDE DEF r
<1>3. \A b \in Address : b \notin Listed(r.list)
  BY <1>2, ObjectsAre DEF Right
<1>4. Right(r) /\ ~Heard(r)
  BY <1>2, <1>3 DEF Right, Heard
<1> QED
  BY <1>2, <1>4 DEF r

LEMMA OnStartIsGood == ASSUME Shape, NEW type \in {"single", "multi"}, OnStart(type) PROVE Good
<1>1. Handles(type) /\ UNCHANGED <<events, crossed>> /\ KeyForgotten
  BY DEF OnStart
<1>2. /\ Steps /\ InFrame /\ InFrame' /\ walk' = 1 /\ Upcoming(type) /\ handled' = handled + 1
      /\ handled' \in Nat /\ handled' <= Len(events) /\ UNCHANGED <<away, began>>
  BY <1>1, HandlesWhen
<1>3. byKey' \in BOOLEAN
  BY <1>1 DEF KeyForgotten
<1>4. CASE level # None
  <2>1. Fails("level exists") /\ UNCHANGED <<ready, loading, result, gameType, logo, quit, inbox>>
    BY <1>4 DEF OnStart, gameVars
  <2>2. Typed'
    BY <1>1, <1>2, <1>3, <2>1, ShapeIs DEF Typed
  <2>3. Calm => FALSE
    BY <1>2, <1>4 DEF Calm, LevelRight
  <2> QED
    BY <1>1, <1>2, <2>1, <2>2, <2>3, FailsIsGood
<1>5. CASE level = None
  <2> DEFINE m == MenuOff(Here)
             h == Hide(m)
  <2>1. PICK a \in Address :
            /\ Becomes([h EXCEPT !.level = a])
            /\ ready' = FALSE
            /\ loading' = loading \o [i \in DOMAIN Stages |-> [level |-> a, stage |-> Stages[i]]]
            /\ result' = TRUE /\ gameType' = type /\ logo' = FALSE /\ inbox' = None /\ UNCHANGED quit
    BY <1>5 DEF OnStart
  <2>2. Closed(Here, m)
    BY MenuOffDoes, ShapeIs
  <2> HIDE DEF m
  <2>3. Consoled(m, h) /\ h.visible = FALSE
    BY <2>2, HideDoes DEF Closed
  <2> HIDE DEF h
  <2> DEFINE s == [h EXCEPT !.level = a]
  <2>4. /\ Right(s) /\ s.list = h.list /\ s.level = a /\ s.menu = h.menu /\ s.visible = h.visible
        /\ s.paused = h.paused /\ ~Heard(s)
    BY <1>5, <2>2, <2>3, CreatedDoes, HereIs DEF Closed, Consoled
  <2> HIDE DEF s
  <2>5. Evolves(seqFrame, s.list) /\ ~Twice(s.list)
    <3>1. Evolves(seqFrame, m.list) /\ ~Twice(m.list)
      BY <1>5, <2>2, HereIs, ShapeIs DEF Closed
    <3> QED
      BY <2>3, <2>4, <3>1, EvolvesOn, ShapeIs DEF Consoled
  <2>6. Passes /\ Outcome(s) /\ Right(Here)'
    BY <1>2, <2>1, <2>4, <2>5, BecomesDoes, ShapeIs DEF s
  <2>7. [i \in DOMAIN Stages |-> [level |-> a, stage |-> Stages[i]]] = Rest(a, 1)
    <3>1. DOMAIN Stages = 1..4
      BY DEF Stages
    <3>2. Rest(a, 1) = [i \in 1..4 |-> [level |-> a, stage |-> Stages[i]]]
      BY DEF Rest
    <3> QED
      BY <3>1, <3>2
  <2>8. Typed'
    <3>1. Rest(a, 1) \in Seq([level : Address \cup {None}, stage : Stage])
      <4> DEFINE W == [level : Address \cup {None}, stage : Stage]
      <4>1. \A stage \in Stage : [level |-> a, stage |-> stage] \in W
        OBVIOUS
      <4>2. "server" \in Stage /\ "client" \in Stage /\ "spawn" \in Stage /\ "finish" \in Stage
        BY DEF Stage
      <4> HIDE DEF W
      <4>3. \A p, q, r, t \in W : <<p, q, r, t>> \in Seq(W)
        OBVIOUS
      <4>4. Rest(a, 1) \in Seq(W)
        BY <4>1, <4>2, <4>3, RestIs, Zenon
      <4> QED
        BY <4>4 DEF W
    <3>2. \A i \in 1..Len(Rest(a, 1)) : Rest(a, 1)[i].level \in Address
      <4>1. Len(Rest(a, 1)) = 4 /\ \A i \in 1..4 : Rest(a, 1)[i].level = a
        BY RestIs
      <4> QED
        BY <4>1
    <3>3. loading \in Seq([level : Address \cup {None}, stage : Stage])
          /\ \A i \in 1..Len(loading) : loading[i].stage # "finalizer" => loading[i].level \in Address
      BY ShapeIs DEF Typed
    <3>4. /\ loading' \in Seq([level : Address \cup {None}, stage : Stage])
          /\ \A i \in 1..Len(loading') : loading'[i].stage # "finalizer" => loading'[i].level \in Address
      BY <2>1, <2>7, <3>1, <3>2, <3>3
    <3> QED
      BY <1>1, <1>2, <1>3, <2>1, <3>4, ShapeIs DEF Typed
  <2>9. ASSUME ~crossed, Calm
        PROVE  Calm'
    <3>1. fault = None /\ OneThing /\ PauseRight /\ ClockRuns
      BY <2>9 DEF Calm
    <3>2. handled + 1 = Len(events) /\ loading = <<>> /\ events # <<>> /\ inbox = None /\ ~menu.saving /\ menu.shot = -2
      BY <1>2, <3>1, EventsAre, ShapeIs
    <3>3. \A e : ~Upcoming(e)'
      BY <1>1, <1>2, <3>2 DEF Upcoming
    <3>4. loading' = Rest(level', 1) /\ loading' # <<>>
      <4>1. level' = a
        BY <2>4, <2>5, <2>6, HeardThen
      <4>2. loading' = Rest(a, 1)
        BY <2>1, <2>7, <3>2, RestIs
      <4> QED
        BY <4>1, <4>2, RestGoesOn
    <3>5. /\ fault' = None /\ level' = a /\ level' # None /\ menu' = m.menu /\ paused' = m.paused /\ visible' = FALSE
          /\ level' \notin Listed(seqFrame')
      BY <2>3, <2>4, <2>5, <2>6, <3>1, HeardThen, ObjectsAre DEF Consoled
    <3>6. /\ menu'.active = FALSE /\ menu'.saving = menu.saving /\ menu'.shot = menu.shot
          /\ \/ paused' = paused /\ menu.active = FALSE
             \/ paused' = (paused /\ ~(IsGameTypeSingle /\ ~menu.restorePause)) /\ menu.active = TRUE
      <4>1. Refuses(Here, FALSE) <=> menu.active = FALSE
        BY <3>2, HereIs DEF Refuses, Window
      <4> QED
        BY <2>2, <3>5, <4>1, HereIs, ShapeIs DEF Closed
    <3>7. OneThing'
      <4>1. Rest(level, 1)' = Rest(level', 1)
        BY DEF Rest, Stages
      <4> QED
        BY <1>1, <1>2, <2>1, <3>1, <3>2, <3>4, <3>5, <3>6, <4>1 DEF OneThing, Playing
    <3>8. LevelRight'
      <4>1. Rest(level, 1)' = Rest(level', 1)
        BY DEF Rest, Stages
      <4> QED
        BY <2>1, <3>3, <3>4, <3>5, <4>1 DEF LevelRight
    <3>9. PauseRight' /\ ClockRuns'
      <4>1. paused' => paused
        BY <3>6
      <4>2. PauseRight'
        BY <1>1, <1>2, <2>9, <3>1, <3>6, <4>1, ShapeIs DEF PauseRight, IsGameTypeSingle, KeyForgotten
      <4>3. ClockRuns'
        BY <1>1, <1>2, <2>9, <3>1, <3>6, <4>1, ShapeIs DEF PauseRight, ClockRuns, IsGameTypeSingle, KeyForgotten
      <4> QED
        BY <4>2, <4>3
    <3>10. LevelMoves' /\ MenuThere'
      BY <2>1, <3>5 DEF LevelMoves, MenuThere
    <3> QED
      BY <3>5, <3>7, <3>8, <3>9, <3>10 DEF Calm
  <2> QED
    BY <1>1, <2>6, <2>8, <2>9 DEF Good
<1> QED
  BY <1>4, <1>5

\* The level is deleted, and the console shown.
LEMMA GoneDoes ==
    ASSUME Shape, level # None
    PROVE  LET g == Show(Deleted(Hide([Here EXCEPT !.menu = Later(@, 12)]))) IN
           /\ Right(g) /\ Evolves(seqFrame, g.list) /\ ~Twice(g.list) /\ g.level = None
           /\ g.menu = Later(menu, 12) /\ g.paused = paused /\ ~Heard(g)
<1> DEFINE m == Later(menu, 12)
           t == Set(Here, m, paused)
           h == Hide(t)
           d == Deleted(h)
           g == Show(d)
<1>1. m \in Menu
  BY LaterDoes, ShapeIs
<1>2. t = [Here EXCEPT !.menu = Later(@, 12)]
  <2>1. Here \in Record /\ Here.menu = menu /\ Here.paused = paused
    BY HereIs, ShapeIs DEF Right
  <2> QED
    BY <2>1 DEF Set, Record
<1> HIDE DEF m
<1>3. Right(t) /\ t.list = seqFrame /\ t.level = level /\ t.menu = m /\ t.paused = paused
  <2>1. Right(t) /\ t.list = Here.list /\ t.level = Here.level /\ t.menu = m /\ t.paused = paused
    BY <1>1, SetDoes, ShapeIs
  <2> HIDE DEF t
  <2> QED
    BY <2>1, HereIs
<1> HIDE DEF t
<1>4. Consoled(t, h)
  BY <1>3, HideDoes
<1> HIDE DEF h
<1>5. Right(h) /\ Evolves(seqFrame, h.list) /\ ~Twice(h.list) /\ h.level = level /\ h.menu = m /\ h.paused = paused
  BY <1>3, <1>4, HereIs, ShapeIs DEF Consoled
<1>6. /\ Right(d) /\ Evolves(h.list, d.list) /\ d.level = None /\ ~Heard(d) /\ (Twice(d.list) => Twice(h.list))
      /\ d.menu = h.menu /\ d.paused = h.paused
  BY <1>5, DeletedDoes
<1> HIDE DEF d
<1>7. Consoled(d, g)
  BY <1>6, ShowDoes
<1> HIDE DEF g
<1>8. Evolves(seqFrame, d.list)
  BY <1>5, <1>6, EvolvesOn, ShapeIs
<1>9. /\ Right(g) /\ Evolves(seqFrame, g.list) /\ ~Twice(g.list) /\ g.level = None
      /\ g.menu = m /\ g.paused = paused /\ ~Heard(g)
  BY <1>5, <1>6, <1>7, <1>8, EvolvesOn, ShapeIs DEF Consoled
<1> QED
  BY <1>2, <1>9 DEF g, d, h, m

\* Without a level the menu is closed and opened again.
LEMMA ReopenedDoes ==
    ASSUME NEW g, Right(g), g.level = None
    PROVE  LET r == MenuOn(MenuOff(g)) IN
           /\ Right(r) /\ Evolves(g.list, r.list) /\ (Twice(r.list) => Twice(g.list)) /\ r.level = None /\ ~Heard(r)
           /\ ~g.menu.saving /\ g.menu.shot = -2 =>
                 /\ r.menu.active = TRUE /\ r.menu.saving = g.menu.saving /\ r.menu.shot = -2
                 /\ \E p \in BOOLEAN :
                       /\ p <=> g.paused /\ ~(g.menu.active /\ IsGameTypeSingle /\ ~g.menu.restorePause)
                       /\ r.paused = (p \/ IsGameTypeSingle)
                       /\ r.menu.restorePause = IF IsGameTypeSingle THEN p ELSE g.menu.restorePause
<1> DEFINE o == MenuOff(g)
           r == MenuOn(o)
<1>0. g.menu \in Menu /\ g.paused \in BOOLEAN /\ g.list \in List /\ ~Heard(g)
  BY ListedIs, ObjectsAre DEF Right, Record, Heard
<1>1. Closed(g, o)
  BY MenuOffDoes
<1> HIDE DEF o
<1>2. Opened(o, r)
  BY <1>1, MenuOnDoes DEF Closed
<1> HIDE DEF r
<1>3. Right(r) /\ Evolves(g.list, r.list) /\ (Twice(r.list) => Twice(g.list)) /\ r.level = None
  BY <1>0, <1>1, <1>2, EvolvesOn DEF Closed, Opened
<1>4. ~Heard(r)
  BY <1>3, ListedIs, ObjectsAre DEF Right, Record, Heard
<1>5. ASSUME ~g.menu.saving, g.menu.shot = -2
      PROVE  /\ r.menu.active = TRUE /\ r.menu.saving = g.menu.saving /\ r.menu.shot = -2
             /\ \E p \in BOOLEAN :
                   /\ p <=> g.paused /\ ~(g.menu.active /\ IsGameTypeSingle /\ ~g.menu.restorePause)
                   /\ r.paused = (p \/ IsGameTypeSingle)
                   /\ r.menu.restorePause = IF IsGameTypeSingle THEN p ELSE g.menu.restorePause
  <2>1. Refuses(g, FALSE) <=> g.menu.active = FALSE
    BY <1>5 DEF Refuses, Window
  <2>2. g.menu.active \in BOOLEAN /\ g.menu.restorePause \in BOOLEAN
    BY <1>0 DEF Menu
  <2>3. /\ o.menu.active = FALSE /\ o.menu.saving = g.menu.saving /\ o.menu.shot = -2
        /\ o.menu.restorePause = g.menu.restorePause
        /\ o.paused <=> g.paused /\ ~(g.menu.active /\ IsGameTypeSingle /\ ~g.menu.restorePause)
    <3>1. CASE g.menu.active = FALSE
      BY <1>1, <1>5, <2>1, <3>1 DEF Closed
    <3>2. CASE g.menu.active = TRUE
      BY <1>1, <1>5, <2>1, <3>2 DEF Closed
    <3> QED
      BY <2>2, <3>1, <3>2
  <2>4. ~Refuses(o, TRUE) /\ o.paused \in BOOLEAN
    BY <1>1, <1>5, <2>3 DEF Refuses, Window, Closed, Right, Record
  <2>5. /\ r.menu.active = TRUE /\ r.menu.saving = g.menu.saving /\ r.menu.shot = -2
        /\ r.paused = (o.paused \/ IsGameTypeSingle)
        /\ r.menu.restorePause = IF IsGameTypeSingle THEN o.paused ELSE g.menu.restorePause
    BY <1>2, <2>3, <2>4 DEF Opened
  <2>6. \E p \in BOOLEAN :
           /\ p <=> g.paused /\ ~(g.menu.active /\ IsGameTypeSingle /\ ~g.menu.restorePause)
           /\ r.paused = (p \/ IsGameTypeSingle)
           /\ r.menu.restorePause = IF IsGameTypeSingle THEN p ELSE g.menu.restorePause
    BY <2>3, <2>4, <2>5
  <2> QED
    BY <2>5, <2>6
<1> QED
  BY <1>3, <1>4, <1>5 DEF r, o

LEMMA OnDisconnectIsGood == ASSUME Shape, OnDisconnect PROVE Good
<1>1. Handles("disconnect") /\ gameType' = "any" /\ UNCHANGED <<loading, result, logo, quit>> /\ KeyForgotten
  BY DEF OnDisconnect
<1>2. /\ Steps /\ InFrame /\ InFrame' /\ walk' = 1 /\ Upcoming("disconnect") /\ handled' = handled + 1
      /\ handled' \in Nat /\ handled' <= Len(events) /\ UNCHANGED <<away, began>>
  BY <1>1, HandlesWhen
<1>3. byKey' \in BOOLEAN
  BY <1>1 DEF KeyForgotten
<1>4. ASSUME Calm
      PROVE  /\ fault = None /\ OneThing /\ LevelRight /\ PauseRight /\ MenuThere /\ ClockRuns
             /\ handled = 0 /\ loading = <<>> /\ events # <<>> /\ inbox = None /\ ~menu.saving /\ menu.shot = -2
             /\ UNCHANGED events => ~Upcoming("QuickLoad")'
             /\ events[1] = "disconnect" /\ Len(events) \in 1..2
             /\ Len(events) = 2 => events[2] \in {"single", "multi", "quit"}
  <2>1. fault = None /\ OneThing /\ LevelRight /\ PauseRight /\ MenuThere /\ ClockRuns
    BY <1>4 DEF Calm
  <2>2. /\ handled = 0 /\ loading = <<>> /\ events # <<>> /\ inbox = None /\ ~menu.saving /\ menu.shot = -2
        /\ events[1] = "disconnect" /\ Len(events) \in 0..2 /\ 0 < Len(events)
        /\ 1 < Len(events) => Len(events) = 2 /\ events[2] \in {"single", "multi", "quit"}
    BY <1>2, <2>1, EventsAre, ShapeIs
  <2>3. UNCHANGED events => ~Upcoming("QuickLoad")'
    BY <1>2, <2>2 DEF Upcoming
  <2> QED
    BY <2>1, <2>2, <2>3
<1>5. CASE level = None
  <2>1. Same /\ UNCHANGED <<ready, inbox, events, crossed>>
    BY <1>5 DEF OnDisconnect
  <2>2. /\ Passes /\ Right(Here)' /\ fault' = fault /\ level' = level /\ menu' = menu
        /\ visible' = visible /\ paused' = paused /\ Listed(seqFrame') = Listed(seqFrame)
    BY <1>2, <2>1, SameDoes, ShapeIs
  <2>3. Typed'
    BY <1>1, <1>2, <1>3, <2>1, ShapeIs DEF Typed
  <2>4. ASSUME ~crossed, Calm
        PROVE  Calm'
    <3>1. /\ fault = None /\ OneThing /\ LevelRight /\ PauseRight /\ MenuThere /\ ClockRuns
          /\ handled = 0 /\ loading = <<>> /\ events # <<>> /\ inbox = None /\ ~menu.saving /\ menu.shot = -2
          /\ ~Upcoming("QuickLoad")' /\ events[1] = "disconnect" /\ Len(events) \in 1..2
      BY <1>4, <2>1, <2>4
    <3>2. OneThing'
      BY <1>1, <2>1, <2>2, <3>1 DEF OneThing, Playing
    <3>3. LevelRight'
      BY <1>1, <1>5, <2>1, <2>2, <3>1 DEF LevelRight, Playing
    <3>4. PauseRight' /\ ClockRuns'
      BY <1>1, <1>2, <1>5, <2>1, <2>2, <2>4, <3>1, ShapeIs DEF PauseRight, ClockRuns, KeyForgotten
    <3>5. LevelMoves'
      BY <1>5, <2>2 DEF LevelMoves
    <3>6. MenuThere'
      <4>1. \A i \in (handled + 1)..Len(events) : events[i] \in {"single", "multi", "quit"} => i \in (handled' + 1)..Len(events)
        BY <1>2, <3>1
      <4> QED
        BY <1>1, <1>5, <2>1, <2>2, <3>1, <4>1 DEF MenuThere
    <3> QED
      BY <2>2, <3>1, <3>2, <3>3, <3>4, <3>5, <3>6 DEF Calm
  <2> QED
    BY <2>1, <2>2, <2>3, <2>4 DEF Good
<1>6. CASE level # None
  <2> DEFINE g == Show(Deleted(Hide([Here EXCEPT !.menu = Later(@, 12)])))
             o == MenuOn(MenuOff(g))
  <2>1. PICK more \in Received :
            /\ \/ Becomes(g) /\ \E i \in 1..Len(events \o more) : (events \o more)[i] \in {"single", "multi", "quit"}
               \/ Becomes(o)
            /\ ready' = FALSE /\ events' = events \o more /\ inbox' = None
            /\ crossed' = (crossed \/ more # <<>>)
    <3> DEFINE Peek(more, n) == n \in ToSet(events \o more)
    <3>1. PICK more \in Received :
             /\ \E gone \in {g} : Becomes(IF Peek(more, "quit") \/ Peek(more, "single") \/ Peek(more, "multi")
                                          THEN gone ELSE MenuOn(MenuOff(gone)))
             /\ ready' = FALSE /\ events' = events \o more /\ inbox' = None
             /\ crossed' = (crossed \/ more # <<>>)
      BY <1>6 DEF OnDisconnect
    <3>2. events \in Seq(Request) /\ more \in Seq(Request)
      BY DeferredIs, ShapeIs DEF Typed
    <3>3. \A n : Peek(more, n) => \E i \in 1..Len(events \o more) : (events \o more)[i] = n
      BY <3>2 DEF ToSet
    <3>4. CASE Peek(more, "quit") \/ Peek(more, "single") \/ Peek(more, "multi")
      <4>1. Becomes(g)
        BY <3>1, <3>4
      <4>2. \E i \in 1..Len(events \o more) : (events \o more)[i] \in {"single", "multi", "quit"}
        BY <3>3, <3>4
      <4> QED
        BY <3>1, <4>1, <4>2
    <3>5. CASE ~(Peek(more, "quit") \/ Peek(more, "single") \/ Peek(more, "multi"))
      <4>1. Becomes(o)
        BY <3>1, <3>5
      <4> QED
        BY <3>1, <4>1
    <3> QED
      BY <3>4, <3>5
  <2>2. /\ Right(g) /\ Evolves(seqFrame, g.list) /\ ~Twice(g.list) /\ g.level = None
        /\ g.menu = Later(menu, 12) /\ g.paused = paused /\ ~Heard(g)
    BY <1>6, GoneDoes
  <2> HIDE DEF g
  <2>3. /\ g.menu.active = menu.active /\ g.menu.saving = menu.saving /\ g.menu.restorePause = menu.restorePause
        /\ (menu.shot = -2 => g.menu.shot = -2)
    BY <2>2, LaterDoes, ShapeIs
  <2>4. /\ Right(o) /\ Evolves(g.list, o.list) /\ (Twice(o.list) => Twice(g.list)) /\ o.level = None /\ ~Heard(o)
        /\ ~g.menu.saving /\ g.menu.shot = -2 =>
              /\ o.menu.active = TRUE /\ o.menu.saving = g.menu.saving /\ o.menu.shot = -2
              /\ \E p \in BOOLEAN :
                    /\ p <=> g.paused /\ ~(g.menu.active /\ IsGameTypeSingle /\ ~g.menu.restorePause)
                    /\ o.paused = (p \/ IsGameTypeSingle)
                    /\ o.menu.restorePause = IF IsGameTypeSingle THEN p ELSE g.menu.restorePause
    BY <2>2, ReopenedDoes
  <2> HIDE DEF o
  <2>5. Evolves(seqFrame, o.list)
    BY <2>2, <2>4, EvolvesOn, ShapeIs
  <2>6. PICK s \in {g, o} :
            /\ Becomes(s)
            /\ s = o \/ (s = g /\ \E i \in 1..Len(events \o more) : (events \o more)[i] \in {"single", "multi", "quit"})
    BY <2>1
  <2>7. Right(s) /\ Evolves(seqFrame, s.list) /\ ~Twice(s.list) /\ s.level = None
    BY <2>2, <2>4, <2>5, <2>6
  <2>8. Passes /\ Outcome(s) /\ Right(Here)'
    BY <1>2, <2>6, <2>7, BecomesDoes, ShapeIs
  <2>9. (crossed => crossed') /\ crossed' \in BOOLEAN
    BY <2>1, ShapeIs DEF Typed
  <2>10. Typed'
    <3>1. events \in Seq(Request) /\ more \in Seq(Request) /\ Len(more) \in Nat /\ Len(events) \in Nat
      BY DeferredIs, ShapeIs DEF Typed
    <3>2. events' \in Seq(Request) /\ Len(events') = Len(events) + Len(more)
      BY <2>1, <3>1
    <3>3. handled' \in Nat /\ handled' <= Len(events')
      BY <1>2, <3>1, <3>2
    <3> QED
      BY <1>1, <1>2, <1>3, <2>1, <2>9, <3>2, <3>3, ShapeIs DEF Typed
  <2>11. ASSUME ~crossed, Calm, ~crossed'
         PROVE  Calm'
    <3>1. events' = events /\ events \o more = events
      <4>1. more = <<>> /\ events \in Seq(Request)
        BY <2>1, <2>11, ShapeIs DEF Typed
      <4> QED
        BY <2>1, <4>1
    <3>2. /\ fault = None /\ OneThing /\ LevelRight /\ PauseRight /\ MenuThere /\ ClockRuns
          /\ handled = 0 /\ loading = <<>> /\ events # <<>> /\ inbox = None /\ ~menu.saving /\ menu.shot = -2
          /\ ~Upcoming("QuickLoad")' /\ events[1] = "disconnect" /\ Len(events) \in 1..2
      BY <1>4, <2>11, <3>1
    <3>3. fault' = None /\ level' = None /\ menu' = s.menu /\ paused' = s.paused
      BY <2>7, <2>8, <3>2, HeardThen
    <3>4. menu'.saving = menu.saving /\ menu'.shot = -2
      BY <2>3, <2>4, <2>6, <3>2, <3>3
    <3>5. OneThing'
      BY <1>1, <2>1, <3>1, <3>2, <3>3, <3>4 DEF OneThing, Playing
    <3>6. LevelRight'
      BY <1>1, <2>1, <3>2, <3>3 DEF LevelRight, Playing
    <3>7. LevelMoves'
      BY <3>3 DEF LevelMoves
    <3>8. CASE s = o
      <4>1. PICK p \in BOOLEAN :
                /\ p <=> paused /\ ~(menu.active /\ IsGameTypeSingle /\ ~menu.restorePause)
                /\ paused' = (p \/ IsGameTypeSingle) /\ menu'.active = TRUE
                /\ menu'.restorePause = IF IsGameTypeSingle THEN p ELSE menu.restorePause
        <5>1. ~g.menu.saving /\ g.menu.shot = -2 /\ menu' = o.menu /\ paused' = o.paused
          BY <2>3, <3>2, <3>3, <3>8
        <5> QED
          BY <2>2, <2>3, <2>4, <5>1
      <4>2. PauseRight' /\ ClockRuns'
        <5>1. CASE IsGameTypeSingle
          <6>1. paused' = TRUE /\ menu'.restorePause = p /\ gameType # "multi"
            BY <4>1, <5>1 DEF IsGameTypeSingle
          <6>2. PauseRight'
            BY <1>1, <1>2, <2>11, <3>2, <3>3, <4>1, <5>1, <6>1, ShapeIs DEF PauseRight, ClockRuns, KeyForgotten
          <6>3. ClockRuns'
            BY <1>1, <4>1 DEF ClockRuns
          <6> QED
            BY <6>2, <6>3
        <5>2. CASE ~IsGameTypeSingle
          <6>1. paused' = paused /\ menu'.restorePause = menu.restorePause /\ gameType = "multi"
            BY <4>1, <5>2, ShapeIs DEF IsGameTypeSingle
          <6>2. PauseRight'
            BY <1>1, <1>2, <2>11, <3>2, <3>3, <4>1, <6>1, ShapeIs DEF PauseRight, ClockRuns, KeyForgotten
          <6>3. ClockRuns'
            BY <1>1, <4>1 DEF ClockRuns
          <6> QED
            BY <6>2, <6>3
        <5> QED
          BY <5>1, <5>2
      <4>3. MenuThere'
        BY <1>1, <3>2, <3>3, <4>1 DEF MenuThere
      <4> QED
        BY <3>2, <3>3, <3>5, <3>6, <3>7, <4>2, <4>3 DEF Calm
    <3>9. CASE s = g /\ \E i \in 1..Len(events \o more) : (events \o more)[i] \in {"single", "multi", "quit"}
      <4>1. menu'.active = menu.active /\ menu'.restorePause = menu.restorePause /\ paused' = paused
        BY <2>2, <2>3, <3>3, <3>9
      <4>2. PauseRight' /\ ClockRuns'
        BY <1>1, <1>2, <2>11, <3>2, <3>3, <4>1, ShapeIs DEF PauseRight, ClockRuns, KeyForgotten
      <4>3. MenuThere'
        <5>1. PICK i \in 1..Len(events) : events[i] \in {"single", "multi", "quit"}
          BY <3>1, <3>9
        <5>2. i \in (handled' + 1)..Len(events')
          BY <1>2, <3>1, <3>2, <5>1
        <5> QED
          BY <1>1, <3>1, <3>2, <3>3, <5>1, <5>2 DEF MenuThere
      <4> QED
        BY <3>2, <3>3, <3>5, <3>6, <3>7, <4>2, <4>3 DEF Calm
    <3> QED
      BY <2>6, <3>8, <3>9
  <2> QED
    BY <2>8, <2>9, <2>10, <2>11 DEF Good
<1> QED
  BY <1>5, <1>6

\* The focus changes between two frames, and the list does not.
LEMMA FocusDoes ==
    ASSUME Shape, ~InFrame, paused' \in BOOLEAN,
           UNCHANGED <<seqFrame, walk, level, menu, visible, began>>
    PROVE  Passes /\ Right(Here)' /\ Listed(seqFrame') = Listed(seqFrame)
<1>1. Passes
  BY DEF Passes
<1>2. /\ Here'.list = Here.list /\ Here'.level = Here.level /\ Here'.menu = Here.menu
      /\ Here'.visible = Here.visible /\ Here'.paused = paused'
  BY DEF Here
<1>3. Here' \in Record
  BY <1>2, HereIs, ShapeIs DEF Here, Record
<1> QED
  BY <1>1, <1>2, <1>3, ShapeIs DEF Right

\* What the focus leaves alone.
LEMMA FocusLeaves ==
    ASSUME Calm, ~InFrame, Listed(seqFrame') = Listed(seqFrame),
           UNCHANGED <<seqFrame, walk, events, handled, level, ready, loading, result, gameType, logo, quit,
                       inbox, menu, visible, began, crossed, fault>>
    PROVE  fault' = None /\ OneThing' /\ LevelRight' /\ MenuThere' /\ LevelMoves'
<1>1. fault = None /\ OneThing /\ LevelRight /\ MenuThere /\ LevelMoves
  BY DEF Calm
<1>2. Rest(level, 1)' = Rest(level, 1) /\ Rest(level, 2)' = Rest(level, 2)
      /\ Rest(level, 3)' = Rest(level, 3) /\ Rest(level, 4)' = Rest(level, 4) /\ Finalizer' = Finalizer
  BY DEF Rest, Stages, Finalizer
<1>3. OneThing'
  BY <1>1, <1>2 DEF OneThing, Playing, InFrame
<1>4. LevelRight'
  BY <1>1, <1>2, UpcomingStays DEF LevelRight, Playing
<1>5. MenuThere' /\ LevelMoves'
  BY <1>1 DEF MenuThere, LevelMoves, IsGameTypeSingle
<1> QED
  BY <1>1, <1>3, <1>4, <1>5

LEMMA OnAppDeactivateIsGood == ASSUME Shape, OnAppDeactivate PROVE Good
<1>1. /\ ~InFrame /\ ~away.now /\ away' = [now |-> TRUE, restorePause |-> ~Multiplayer /\ paused]
      /\ paused' = (paused \/ (~Multiplayer /\ IsGameTypeSingle))
      /\ UNCHANGED <<seqFrame, walk, events, handled, level, ready, loading, result, gameType, logo, quit,
                     inbox, menu, visible, began, byKey, crossed, fault>>
  BY DEF OnAppDeactivate, gameVars
<1>2. paused' \in BOOLEAN
  BY <1>1
<1>3. Passes /\ Right(Here)' /\ Listed(seqFrame') = Listed(seqFrame)
  BY <1>1, <1>2, FocusDoes
<1>4. away'.now = TRUE /\ (away'.restorePause <=> ~Multiplayer /\ paused) /\ away' \in [now : BOOLEAN, restorePause : BOOLEAN]
  BY <1>1, ShapeIs
<1>5. Typed'
  BY <1>1, <1>4, ShapeIs DEF Typed
<1>6. ASSUME ~crossed, Calm
      PROVE  Calm'
  <2>1. PauseRight /\ ClockRuns
    BY <1>6 DEF Calm
  <2>2. fault' = None /\ OneThing' /\ LevelRight' /\ MenuThere' /\ LevelMoves'
    BY <1>1, <1>3, <1>6, FocusLeaves
  <2>3. PauseRight'
    BY <1>1, <1>4, <1>6, <2>1, ShapeIs DEF PauseRight, ClockRuns, Multiplayer
  <2>4. ClockRuns'
    BY <1>1, <1>4, <1>6, <2>1 DEF ClockRuns
  <2> QED
    BY <2>2, <2>3, <2>4 DEF Calm
<1> QED
  BY <1>1, <1>3, <1>5, <1>6 DEF Good

LEMMA OnAppActivateIsGood == ASSUME Shape, OnAppActivate PROVE Good
<1>1. /\ ~InFrame /\ away.now /\ away' = [away EXCEPT !.now = FALSE]
      /\ paused' = (paused /\ away.restorePause) /\ KeyForgotten
      /\ UNCHANGED <<seqFrame, walk, events, handled, level, ready, loading, result, gameType, logo, quit,
                     inbox, menu, visible, began, crossed, fault>>
  BY DEF OnAppActivate, gameVars
<1>2. paused' \in BOOLEAN /\ byKey' \in BOOLEAN
  BY <1>1 DEF KeyForgotten
<1>3. Passes /\ Right(Here)' /\ Listed(seqFrame') = Listed(seqFrame)
  BY <1>1, <1>2, FocusDoes
<1>4. away'.now = FALSE /\ away' \in [now : BOOLEAN, restorePause : BOOLEAN]
  BY <1>1, ShapeIs DEF Typed
<1>5. Typed'
  BY <1>1, <1>2, <1>4, ShapeIs DEF Typed
<1>6. ASSUME ~crossed, Calm
      PROVE  Calm'
  <2>1. PauseRight /\ ClockRuns
    BY <1>6 DEF Calm
  <2>2. fault' = None /\ OneThing' /\ LevelRight' /\ MenuThere' /\ LevelMoves'
    BY <1>1, <1>3, <1>6, FocusLeaves
  <2>3. PauseRight'
    BY <1>1, <1>4, <1>6, <2>1, ShapeIs DEF PauseRight, ClockRuns, KeyForgotten
  <2>4. ClockRuns'
    BY <1>1, <1>4, <1>6, <2>1, ShapeIs DEF PauseRight, ClockRuns, KeyForgotten
  <2> QED
    BY <2>2, <2>3, <2>4 DEF Calm
<1> QED
  BY <1>1, <1>3, <1>5, <1>6 DEF Good

\* What the loading goes on from.
LEMMA LoadingWhen ==
    ASSUME Shape, LoadingEvent
    PROVE  /\ ~InFrame /\ Steps /\ ~InFrame' /\ loading # <<>>
           /\ UNCHANGED <<walk, handled, gameType, logo, quit, inbox, away, began>>
           /\ byKey' \in BOOLEAN /\ KeyForgotten
           /\ crossed' \in BOOLEAN /\ (crossed => crossed') /\ (~crossed' => UNCHANGED <<events, crossed>>)
           /\ events' \in Seq(Request) /\ Len(events') \in Nat /\ Len(events) <= Len(events')
           /\ Calm => /\ fault = None /\ OneThing /\ LevelRight /\ PauseRight /\ MenuThere /\ LevelMoves /\ ClockRuns
                      /\ level # None /\ inbox = None /\ ~menu.saving /\ menu.shot = -2 /\ ~menu.active /\ ~logo
                      /\ (~crossed' => \A e : ~Upcoming(e)')
<1>1. /\ ~InFrame /\ loading # <<>>
      /\ UNCHANGED <<walk, handled, gameType, logo, quit, inbox, away, began>> /\ KeyForgotten
      /\ UNCHANGED <<events, crossed>> \/ Asks(LevelChange)
  BY DEF LoadingEvent
<1>4. events \in Seq(Request) /\ Len(events) \in Nat /\ crossed \in BOOLEAN
  BY ShapeIs DEF Typed
<1>5. /\ crossed' \in BOOLEAN /\ (crossed => crossed') /\ (~crossed' => UNCHANGED <<events, crossed>>)
      /\ events' \in Seq(Request) /\ Len(events') \in Nat /\ Len(events) <= Len(events')
  <2>1. CASE UNCHANGED <<events, crossed>>
    BY <1>4, <2>1
  <2>2. CASE Asks(LevelChange)
    <3>1. crossed' = TRUE /\ events' = events \o LevelChange
      BY <1>1, <2>2 DEF Asks, Asked, Busy
    <3> QED
      BY <1>4, <3>1, DeferredIs
  <2> QED
    BY <1>1, <2>1, <2>2
<1>2. Steps /\ ~InFrame' /\ byKey' \in BOOLEAN
  BY <1>1 DEF Steps, InFrame, KeyForgotten
<1>3. ASSUME Calm
      PROVE  /\ fault = None /\ OneThing /\ LevelRight /\ PauseRight /\ MenuThere /\ LevelMoves /\ ClockRuns
             /\ level # None /\ inbox = None /\ ~menu.saving /\ menu.shot = -2 /\ ~menu.active /\ ~logo
             /\ (~crossed' => \A e : ~Upcoming(e)')
  <2>1. fault = None /\ OneThing /\ LevelRight /\ PauseRight /\ MenuThere /\ LevelMoves /\ ClockRuns
    BY <1>3 DEF Calm
  <2>2. inbox = None /\ ~menu.saving /\ menu.shot = -2 /\ ~menu.active /\ ~logo /\ handled = Len(events)
    BY <1>1, <2>1 DEF OneThing
  <2>3. level # None
    BY <1>1, <2>1 DEF LevelRight
  <2>4. ASSUME ~crossed'
        PROVE  \A e : ~Upcoming(e)'
    <3>1. handled' = Len(events') /\ handled' \in Nat
      BY <1>1, <1>5, <2>2, <2>4, ShapeIs DEF Typed
    <3> QED
      BY <3>1 DEF Upcoming
  <2> QED
    BY <2>1, <2>2, <2>3, <2>4
<1> QED
  BY <1>1, <1>2, <1>3, <1>5

\* After a step of the loading that leaves the level and the menu.
LEMMA LoadsOn ==
    ASSUME Shape, LoadingEvent, Calm, ~crossed, ~crossed', fault' = None, level' = level,
           menu'.active = menu.active, menu'.saving = menu.saving, menu'.shot = -2, menu'.restorePause = menu.restorePause,
           paused' = paused,
           ready' => level' \in Listed(seqFrame'), ~ready' => loading' # <<>> /\ level' \notin Listed(seqFrame'),
           \/ loading' = <<>>
           \/ ~ready' /\ loading' = Rest(level, 2)
           \/ (ready' \/ ~result') /\ loading' \in {Rest(level, 3), Rest(level, 4), Finalizer}
    PROVE  Calm'
<1>1. /\ ~InFrame /\ ~InFrame' /\ KeyForgotten /\ level # None /\ inbox = None
      /\ UNCHANGED <<walk, events, handled, gameType, logo, quit, inbox, away, began, crossed>>
      /\ fault = None /\ OneThing /\ LevelRight /\ PauseRight /\ MenuThere /\ LevelMoves /\ ClockRuns
      /\ ~menu.saving /\ menu.shot = -2 /\ ~menu.active /\ ~logo /\ \A e : ~Upcoming(e)'
  BY LoadingWhen
<1>2. Rest(level, 2)' = Rest(level, 2) /\ Rest(level, 3)' = Rest(level, 3) /\ Rest(level, 4)' = Rest(level, 4)
      /\ Finalizer' = Finalizer
  BY DEF Rest, Stages, Finalizer
<1>3. loading # <<>>
  BY LoadingWhen
<1>4. OneThing'
  BY <1>1, <1>3 DEF OneThing, Playing
<1>5. LevelRight'
  BY <1>1, <1>2 DEF LevelRight
<1>6. PauseRight' /\ ClockRuns'
  BY <1>1, ShapeIs DEF PauseRight, ClockRuns, KeyForgotten
<1>7. MenuThere' /\ LevelMoves'
  BY <1>1 DEF MenuThere, LevelMoves
<1> QED
  BY <1>4, <1>5, <1>6, <1>7 DEF Calm

LEMMA TypedLoads ==
    ASSUME Shape, LoadingEvent, ready' \in BOOLEAN, result' \in BOOLEAN,
           loading' = loading \/ loading' = Tail(loading)
           \/ loading' = <<[level |-> None, stage |-> "finalizer"]>> \o Tail(loading)
    PROVE  Typed'
<1> DEFINE W == [level : Address \cup {None}, stage : Stage]
           f == [level |-> None, stage |-> "finalizer"]
<1>1. /\ loading # <<>> /\ byKey' \in BOOLEAN /\ crossed' \in BOOLEAN
      /\ events' \in Seq(Request) /\ Len(events') \in Nat /\ Len(events) <= Len(events') /\ Len(events) \in Nat
      /\ UNCHANGED <<walk, handled, gameType, logo, quit, inbox, away, began>>
  BY LoadingWhen, ShapeIs DEF Typed
<1>2. loading \in Seq(W) /\ \A i \in 1..Len(loading) : loading[i].stage # "finalizer" => loading[i].level \in Address
  BY ShapeIs DEF Typed
<1>3. f \in W /\ f.stage = "finalizer"
  BY DEF Stage
<1> HIDE DEF W, f
<1>4. /\ Tail(loading) \in Seq(W) /\ Len(Tail(loading)) \in Nat
      /\ \A i \in 1..Len(Tail(loading)) : Tail(loading)[i].stage # "finalizer" => Tail(loading)[i].level \in Address
  BY <1>1, <1>2
<1>5. /\ <<f>> \o Tail(loading) \in Seq(W)
      /\ \A i \in 1..Len(<<f>> \o Tail(loading)) : (<<f>> \o Tail(loading))[i].stage # "finalizer"
                                                     => (<<f>> \o Tail(loading))[i].level \in Address
  <2> DEFINE t == Tail(loading)
  <2>1. t \in Seq(W) /\ Len(t) \in Nat /\ \A i \in 1..Len(t) : t[i].stage # "finalizer" => t[i].level \in Address
    BY <1>4
  <2> HIDE DEF t
  <2>2. /\ <<f>> \o t \in Seq(W) /\ Len(<<f>> \o t) = Len(t) + 1
        /\ \A i \in 1..(Len(t) + 1) : (<<f>> \o t)[i] = IF i = 1 THEN f ELSE t[i - 1]
    BY <1>3, <2>1
  <2>3. ASSUME NEW i \in 1..(Len(t) + 1), (<<f>> \o t)[i].stage # "finalizer"
        PROVE  (<<f>> \o t)[i].level \in Address
    <3>1. i # 1
      BY <1>3, <2>2, <2>3
    <3>2. i - 1 \in 1..Len(t) /\ (<<f>> \o t)[i] = t[i - 1]
      BY <2>1, <2>2, <3>1
    <3> QED
      BY <2>1, <2>3, <3>2
  <2> QED
    BY <2>2, <2>3 DEF t
<1>6. /\ loading' \in Seq(W)
      /\ \A i \in 1..Len(loading') : loading'[i].stage # "finalizer" => loading'[i].level \in Address
  BY <1>2, <1>4, <1>5 DEF f
<1> QED
  BY <1>1, <1>6, ShapeIs DEF Typed, W

\* Where the loading is, while all is calm.
LEMMA HeadIs ==
    ASSUME Shape, Calm, ~crossed, loading # <<>>
    PROVE  LET e == Head(loading) IN
           /\ e.level \in {level, None}
           /\ e.stage = "server" => ~ready /\ Tail(loading) = Rest(level, 2)
           /\ e.stage = "client" => ~ready /\ Tail(loading) = Rest(level, 3)
           /\ e.stage = "spawn" => (ready \/ ~result) /\ Tail(loading) = Rest(level, 4)
           /\ e.stage = "finish" => (ready \/ ~result)
                                    /\ <<[level |-> None, stage |-> "finalizer"]>> \o Tail(loading) = Finalizer
           /\ e.stage = "finalizer" => (ready \/ ~result) /\ Tail(loading) = <<>>
           /\ ready <=> level \in Listed(seqFrame)
<1> DEFINE e == Head(loading)
<1>1. OneThing /\ LevelRight /\ LevelMoves /\ fault = None
  BY DEF Calm
<1>2. ready <=> level \in Listed(seqFrame)
  <2>1. level # None /\ ~menu.active
    BY <1>1 DEF OneThing, LevelRight
  <2> QED
    BY <1>1, <2>1 DEF LevelRight, LevelMoves
<1>3. /\ Stages[1] = "server" /\ Stages[2] = "client" /\ Stages[3] = "spawn" /\ Stages[4] = "finish"
  BY DEF Stages
<1>4. CASE loading = Rest(level, 1)
  <2>1. ~ready
    <3>1. loading \notin {Rest(level, 3), Rest(level, 4), Finalizer}
      BY <1>4, RestGoesOn
    <3> QED
      BY <1>1, <3>1 DEF LevelRight
  <2>2. e = [level |-> level, stage |-> "server"] /\ Tail(loading) = Rest(level, 2)
    BY <1>3, <1>4, RestGoesOn
  <2> QED
    BY <1>2, <2>1, <2>2
<1>5. CASE loading = Rest(level, 2)
  <2>1. ~ready
    <3>1. loading \notin {Rest(level, 3), Rest(level, 4), Finalizer}
      BY <1>5, RestGoesOn
    <3> QED
      BY <1>1, <3>1 DEF LevelRight
  <2>2. e = [level |-> level, stage |-> "client"] /\ Tail(loading) = Rest(level, 3)
    BY <1>3, <1>5, RestGoesOn
  <2> QED
    BY <1>2, <2>1, <2>2
<1>6. CASE loading = Rest(level, 3)
  <2>1. ready \/ ~result
    <3>1. loading # Rest(level, 1) /\ loading # Rest(level, 2)
      BY <1>6, RestGoesOn
    <3> QED
      BY <1>1, <3>1 DEF LevelRight
  <2>2. e = [level |-> level, stage |-> "spawn"] /\ Tail(loading) = Rest(level, 4)
    BY <1>3, <1>6, RestGoesOn
  <2> QED
    BY <1>2, <2>1, <2>2
<1>7. CASE loading = Rest(level, 4)
  <2>1. ready \/ ~result
    <3>1. loading # Rest(level, 1) /\ loading # Rest(level, 2)
      BY <1>7, RestGoesOn
    <3> QED
      BY <1>1, <3>1 DEF LevelRight
  <2>2. e = [level |-> level, stage |-> "finish"] /\ Tail(loading) = <<>>
    BY <1>3, <1>7, RestGoesOn
  <2>3. <<[level |-> None, stage |-> "finalizer"]>> \o Tail(loading) = Finalizer
    <3> DEFINE f == [level |-> None, stage |-> "finalizer"]
    <3> HIDE DEF f
    <3>1. <<f>> \o <<>> = <<f>>
      OBVIOUS
    <3> QED
      BY <2>2, <3>1 DEF Finalizer, f
  <2> QED
    BY <1>2, <2>1, <2>2, <2>3
<1>8. CASE loading = Finalizer
  <2>1. ready \/ ~result
    <3>1. loading # Rest(level, 1) /\ loading # Rest(level, 2)
      BY <1>8, RestGoesOn
    <3> QED
      BY <1>1, <3>1 DEF LevelRight
  <2>2. e = [level |-> None, stage |-> "finalizer"] /\ Tail(loading) = <<>>
    BY <1>8, RestGoesOn
  <2> QED
    BY <1>2, <2>1, <2>2
<1> QED
  BY <1>1, <1>4, <1>5, <1>6, <1>7, <1>8 DEF LevelRight

LEMMA LoadingEventIsGood == ASSUME Shape, LoadingEvent PROVE Good
<1> DEFINE e == Head(loading)
           m == Later(menu, 1)
           t == Set(Here, m, paused)
<1>1. /\ ~InFrame /\ Steps /\ ~InFrame' /\ loading # <<>> /\ byKey' \in BOOLEAN /\ KeyForgotten
      /\ UNCHANGED <<walk, handled, gameType, logo, quit, inbox, away, began>>
      /\ crossed' \in BOOLEAN /\ (crossed => crossed') /\ (~crossed' => UNCHANGED <<events, crossed>>)
  BY LoadingWhen
<1>2. m \in Menu /\ m.active = menu.active /\ m.saving = menu.saving /\ m.restorePause = menu.restorePause
      /\ (menu.shot = -2 => m.shot = -2)
  BY LaterDoes, ShapeIs
<1>3. t = [Here EXCEPT !.menu = Later(@, 1)]
  <2>1. Here \in Record /\ Here.menu = menu /\ Here.paused = paused
    BY HereIs, ShapeIs DEF Right
  <2> QED
    BY <2>1 DEF Set, Record
<1> HIDE DEF m
<1>4. /\ Right(t) /\ t.list = seqFrame /\ t.level = level /\ t.menu = m /\ t.paused = paused
      /\ (Heard(t) <=> level \in Listed(seqFrame)) /\ Evolves(seqFrame, t.list) /\ ~Twice(t.list)
  <2>1. /\ Right(t) /\ t.list = Here.list /\ t.level = Here.level /\ t.menu = m /\ t.paused = paused
        /\ (Heard(t) <=> Heard(Here))
    BY <1>2, SetDoes, ShapeIs
  <2> HIDE DEF t
  <2> QED
    BY <2>1, HereIs, ShapeIs
<1> HIDE DEF t
<1>5. ready \in BOOLEAN /\ result \in BOOLEAN
  BY ShapeIs DEF Typed
<1>6. ASSUME Becomes(t)
      PROVE  /\ Passes /\ Right(Here)' /\ fault' = fault /\ level' = level /\ menu' = m /\ paused' = paused
             /\ (level' \in Listed(seqFrame') <=> level \in Listed(seqFrame))
  BY <1>1, <1>4, <1>6, BecomesDoes, HeardThen, ShapeIs
<1>7. CASE e.level \notin {level, None} /\ Fails("level gone") /\ UNCHANGED <<ready, loading, result>>
  <2>1. Typed'
    BY <1>5, <1>7, TypedLoads
  <2>2. ~crossed /\ Calm => FALSE
    BY <1>1, <1>7, HeadIs
  <2> QED
    BY <1>1, <1>7, <2>1, <2>2, FailsIsGood
<1>8. CASE /\ e.level = level /\ e.stage = "client" /\ loading' = Tail(loading)
           /\ result /\ ready' = TRUE /\ UNCHANGED result
           /\ Becomes(Listen(t, level))
  <2> DEFINE r == Listen(t, t.level)
  <2>1. level # None
    <3>1. loading[1].stage # "finalizer" => loading[1].level \in Address
      <4>1. 1 \in 1..Len(loading)
        BY <1>1, ShapeIs DEF Typed
      <4> QED
        BY <4>1, ShapeIs DEF Typed
    <3> QED
      BY <1>8, <3>1, ObjectsAre
  <2>2. /\ Right(r) /\ Evolves(t.list, r.list) /\ Heard(r) /\ (Twice(r.list) => Twice(t.list) \/ Heard(t))
        /\ r.level = t.level /\ r.menu = t.menu /\ r.paused = t.paused
    BY <1>4, <2>1, LevelListens
  <2>3. Becomes(r)
    BY <1>4, <1>8
  <2> HIDE DEF r
  <2>4. Passes /\ Outcome(r) /\ Right(Here)'
    BY <1>1, <1>4, <2>2, <2>3, BecomesDoes, ShapeIs
  <2>5. Typed'
    BY <1>5, <1>8, TypedLoads
  <2>6. ASSUME ~crossed, Calm, ~crossed'
        PROVE  Calm'
    <3>1. ~ready /\ Tail(loading) = Rest(level, 3) /\ level \notin Listed(seqFrame)
      BY <1>1, <1>8, <2>6, HeadIs
    <3>2. fault = None /\ menu.shot = -2
      BY <2>6, LoadingWhen
    <3>3. ~Twice(r.list)
      BY <1>4, <2>2, <3>1
    <3>4. fault' = None /\ level' = level /\ menu' = m /\ paused' = paused /\ level' \in Listed(seqFrame')
      BY <1>4, <2>2, <2>4, <3>2, <3>3, HeardThen
    <3> QED
      BY <1>2, <1>8, <2>6, <3>1, <3>2, <3>4, LoadsOn
  <2> QED
    BY <1>1, <2>4, <2>5, <2>6 DEF Good
<1>9. CASE /\ e.level = level /\ e.stage \in {"server", "client"} /\ loading' = Tail(loading) /\ UNCHANGED ready
           /\ \/ ~(result /\ e.stage = "client") /\ UNCHANGED result
              \/ result /\ result' = FALSE
           /\ Becomes(t)
  <2>1. Typed'
    BY <1>5, <1>9, TypedLoads
  <2>2. ASSUME ~crossed, Calm, ~crossed'
        PROVE  Calm'
    <3>1. /\ ~ready /\ level \notin Listed(seqFrame)
          /\ e.stage = "server" => Tail(loading) = Rest(level, 2)
          /\ e.stage = "client" => Tail(loading) = Rest(level, 3)
      BY <1>1, <1>9, <2>2, HeadIs
    <3>2. fault = None /\ menu.shot = -2
      BY <2>2, LoadingWhen
    <3>3. /\ fault' = None /\ level' = level /\ menu' = m /\ paused' = paused /\ ~ready' /\ level' \notin Listed(seqFrame')
          /\ menu'.active = menu.active /\ menu'.saving = menu.saving /\ menu'.shot = -2
          /\ menu'.restorePause = menu.restorePause
      BY <1>2, <1>6, <1>9, <3>1, <3>2
    <3>4. loading' # <<>> /\ (loading' = Rest(level, 2) \/ (~result' /\ loading' = Rest(level, 3)))
      <4>1. Rest(level, 2) # <<>> /\ Rest(level, 3) # <<>>
        BY RestGoesOn
      <4>2. CASE e.stage = "server"
        <5>1. loading' = Rest(level, 2)
          BY <1>9, <3>1, <4>2
        <5> QED
          BY <4>1, <5>1
      <4>3. CASE e.stage = "client"
        <5>1. loading' = Rest(level, 3)
          BY <1>9, <3>1, <4>3
        <5>2. ~result'
          BY <1>9, <4>3
        <5> QED
          BY <4>1, <5>1, <5>2
      <4> QED
        BY <1>9, <4>2, <4>3
    <3> QED
      BY <2>2, <3>3, <3>4, LoadsOn
  <2> QED
    BY <1>1, <1>6, <1>9, <2>1, <2>2 DEF Good
<1>10. CASE e.level = level /\ e.stage = "spawn" /\ loading' = Tail(loading) /\ Becomes(t) /\ UNCHANGED <<ready, result>>
  <2>1. Typed'
    BY <1>5, <1>10, TypedLoads
  <2>2. ASSUME ~crossed, Calm, ~crossed'
        PROVE  Calm'
    <3>1. (ready \/ ~result) /\ Tail(loading) = Rest(level, 4) /\ (ready <=> level \in Listed(seqFrame))
      BY <1>1, <1>10, <2>2, HeadIs
    <3>2. fault = None /\ menu.shot = -2
      BY <2>2, LoadingWhen
    <3>3. /\ fault' = None /\ level' = level /\ menu' = m /\ paused' = paused /\ (ready' <=> level' \in Listed(seqFrame'))
          /\ menu'.active = menu.active /\ menu'.saving = menu.saving /\ menu'.shot = -2
          /\ menu'.restorePause = menu.restorePause
      BY <1>2, <1>6, <1>10, <3>1, <3>2
    <3>4. loading' # <<>> /\ loading' = Rest(level, 4) /\ (ready' \/ ~result')
      <4>1. Rest(level, 4) # <<>>
        BY RestGoesOn
      <4> QED
        BY <1>10, <3>1, <4>1
    <3> QED
      BY <2>2, <3>3, <3>4, LoadsOn
  <2> QED
    BY <1>1, <1>6, <1>10, <2>1, <2>2 DEF Good
<1>11. CASE /\ e.level = level /\ e.stage = "finish" /\ Same /\ UNCHANGED <<ready, result>>
            /\ loading' = <<[level |-> None, stage |-> "finalizer"]>> \o Tail(loading)
  <2>1. Typed'
    BY <1>5, <1>11, TypedLoads
  <2>2. /\ Passes /\ Right(Here)' /\ fault' = fault /\ level' = level /\ menu' = menu
        /\ visible' = visible /\ paused' = paused /\ Listed(seqFrame') = Listed(seqFrame)
    BY <1>1, <1>11, SameDoes, ShapeIs
  <2>3. ASSUME ~crossed, Calm, ~crossed'
        PROVE  Calm'
    <3>1. (ready \/ ~result) /\ loading' = Finalizer /\ (ready <=> level \in Listed(seqFrame))
      BY <1>1, <1>11, <2>3, HeadIs
    <3>2. fault = None /\ menu.shot = -2
      BY <2>3, LoadingWhen
    <3>3. fault' = None /\ (ready' <=> level' \in Listed(seqFrame')) /\ loading' # <<>> /\ (ready' \/ ~result')
      BY <1>11, <2>2, <3>1, <3>2, RestGoesOn
    <3> QED
      BY <2>2, <2>3, <3>1, <3>2, <3>3, LoadsOn
  <2> QED
    BY <1>1, <2>1, <2>2, <2>3 DEF Good
<1>12. CASE /\ e.stage = "finalizer" /\ loading' = Tail(loading) /\ UNCHANGED result
            /\ Becomes(IF level # None /\ ~result THEN MenuOn(Deleted(Here)) ELSE Here)
            /\ ready' = (ready /\ level' # None)
  <2>1. Typed'
    BY <1>5, <1>12, TypedLoads
  <2>2. CASE ~(level # None /\ ~result)
    <3>1. Same
      BY <1>12, <2>2 DEF Same
    <3>2. /\ Passes /\ Right(Here)' /\ fault' = fault /\ level' = level /\ menu' = menu
          /\ visible' = visible /\ paused' = paused /\ Listed(seqFrame') = Listed(seqFrame)
      BY <1>1, <3>1, SameDoes, ShapeIs
    <3>3. ASSUME ~crossed, Calm, ~crossed'
          PROVE  Calm'
      <4>1. (ready \/ ~result) /\ loading' = <<>> /\ (ready <=> level \in Listed(seqFrame))
        BY <1>1, <1>12, <3>3, HeadIs
      <4>2. fault = None /\ menu.shot = -2 /\ level # None
        BY <3>3, LoadingWhen
      <4>3. fault' = None /\ ready' /\ level' \in Listed(seqFrame')
        BY <1>12, <2>2, <3>2, <4>1, <4>2
      <4> QED
        BY <3>2, <3>3, <4>1, <4>2, <4>3, LoadsOn
    <3> QED
      BY <1>1, <2>1, <3>2, <3>3 DEF Good
  <2>3. CASE level # None /\ ~result
    <3> DEFINE d == Deleted(Here)
               r == MenuOn(d)
    <3>1. Becomes(r)
      BY <1>12, <2>3
    <3>2. /\ Right(d) /\ Evolves(seqFrame, d.list) /\ d.level = None /\ ~Heard(d) /\ ~Twice(d.list)
          /\ d.menu = menu /\ d.paused = paused
      BY <2>3, DeletedDoes, HereIs, ShapeIs
    <3> HIDE DEF d
    <3>3. Opened(d, r)
      BY <3>2, MenuOnDoes
    <3> HIDE DEF r
    <3>4. Right(r) /\ Evolves(seqFrame, r.list) /\ ~Twice(r.list) /\ r.level = None
      BY <3>2, <3>3, EvolvesOn, ShapeIs DEF Opened
    <3>5. Passes /\ Outcome(r) /\ Right(Here)'
      BY <1>1, <3>1, <3>4, BecomesDoes, ShapeIs
    <3>6. fault' = fault /\ level' = None /\ menu' = r.menu /\ paused' = r.paused
      BY <3>4, <3>5, HeardThen
    <3>7. ASSUME ~crossed, Calm, ~crossed'
          PROVE  Calm'
      <4>1. loading' = <<>>
        BY <1>1, <1>12, <3>7, HeadIs
      <4>2. /\ fault = None /\ OneThing /\ LevelRight /\ PauseRight /\ MenuThere /\ LevelMoves /\ ClockRuns
            /\ inbox = None /\ ~menu.saving /\ menu.shot = -2 /\ ~menu.active /\ ~logo /\ \A q : ~Upcoming(q)'
        BY <3>7, LoadingWhen
      <4>3. ~Refuses(d, TRUE)
        BY <3>2, <4>2 DEF Refuses, Window
      <4>4. /\ menu'.active = TRUE /\ menu'.saving = menu.saving /\ menu'.shot = -2
            /\ menu'.restorePause = IF IsGameTypeSingle THEN paused ELSE menu.restorePause
            /\ paused' = (paused \/ IsGameTypeSingle)
        BY <3>2, <3>3, <3>6, <4>2, <4>3 DEF Opened
      <4>5. OneThing'
        BY <1>1, <3>7, <4>1, <4>2, <4>4 DEF OneThing, Playing
      <4>6. LevelRight'
        BY <1>12, <3>6, <3>7, <4>1, <4>2 DEF LevelRight
      <4>7. PauseRight' /\ ClockRuns'
        BY <1>1, <3>6, <3>7, <4>2, <4>4, ShapeIs DEF PauseRight, ClockRuns, KeyForgotten, IsGameTypeSingle
      <4>8. MenuThere' /\ LevelMoves'
        BY <1>1, <3>6, <4>2, <4>4 DEF MenuThere, LevelMoves
      <4> QED
        BY <3>6, <4>2, <4>5, <4>6, <4>7, <4>8 DEF Calm
    <3> QED
      BY <1>1, <2>1, <3>5, <3>7 DEF Good
  <2> QED
    BY <2>2, <2>3
<1> QED
  BY <1>3, <1>7, <1>8, <1>9, <1>10, <1>11, <1>12 DEF LoadingEvent

\* Every step but the beginning and the end of a frame.
LEMMA StepIsGood ==
    ASSUME Shape, Next, ~FrameMove, ~FrameEnd
    PROVE  Good
<1>1. CASE LoadingEvent
  BY <1>1, LoadingEventIsGood
<1>2. CASE ApplicationFrame
  BY <1>2, ApplicationFrameIsGood
<1>3. CASE InputFrame
  <2>1. CASE InputIdle
    BY <2>1, InputIdleIsGood
  <2>2. CASE MainMenu
    BY <2>2, MainMenuIsGood
  <2>3. CASE Disconnect
    BY <2>3, DisconnectIsGood
  <2>4. CASE Quit
    BY <2>4, QuitIsGood
  <2>5. CASE LoadGame
    BY <2>5, LoadGameIsGood
  <2>6. CASE SaveGame
    BY <2>6, SaveGameIsGood
  <2>7. CASE ToggleConsole
    BY <2>7, ToggleConsoleIsGood
  <2>8. CASE PauseKey
    BY <2>8, PauseKeyIsGood
  <2>9. CASE \E type \in {"single", "multi"} : StartGame(type)
    BY <2>9, StartGameIsGood
  <2> QED
    BY <1>3, <2>1, <2>2, <2>3, <2>4, <2>5, <2>6, <2>7, <2>8, <2>9 DEF InputFrame
<1>4. CASE ConsoleFrame
  BY <1>4, ConsoleFrameIsGood
<1>5. CASE MenuFrame
  BY <1>5, MenuFrameIsGood
<1>6. CASE LevelFrame
  BY <1>6, LevelFrameIsGood
<1>7. CASE PersistentFrame
  BY <1>7, PersistentFrameIsGood
<1>8. CASE OnDisconnect
  BY <1>8, OnDisconnectIsGood
<1>9. CASE OnQuickLoad
  BY <1>9, OnQuickLoadIsGood
<1>10. CASE OnQuit
  BY <1>10, OnQuitIsGood
<1>11. CASE \E type \in {"single", "multi"} : OnStart(type)
  BY <1>11, OnStartIsGood
<1>12. CASE OnAppDeactivate
  BY <1>12, OnAppDeactivateIsGood
<1>13. CASE OnAppActivate
  BY <1>13, OnAppActivateIsGood
<1> QED
  BY <1>1, <1>2, <1>3, <1>4, <1>5, <1>6, <1>7, <1>8, <1>9, <1>10, <1>11, <1>12, <1>13 DEF Next, Frame

LEMMA GoodHolds ==
    ASSUME Inv, Good
    PROVE  Inv'
<1>1. WalkedNow'
  BY PassesWalked DEF Inv, Shape, Good, WalkedNow
<1>2. Shape'
  BY <1>1 DEF Good, Shape
<1>3. ~crossed' => Calm'
  BY DEF Good, Inv
<1> QED
  BY <1>2, <1>3 DEF Inv

LEMMA FrameMoveHolds ==
    ASSUME Inv, FrameMove
    PROVE  Inv'
<1> DEFINE m == Later(menu, 1)
           t == Set(Here, m, paused)
<1>0. Shape
  BY DEF Inv
<1>1. /\ ~InFrame /\ ~quit /\ loading = <<>> /\ walk' = 1 /\ menu' = m
      /\ UNCHANGED <<events, handled, level, ready, loading, result, gameType, logo, quit, inbox, visible,
                     paused, away, byKey, crossed, fault>>
  BY DEF FrameMove, gameVars
<1>2. WalkedAs(seqFrame', walk', began') /\ Listed(seqFrame') = Listed(seqFrame)
  BY <1>0, BeginRefines, ShapeIs
<1>3. /\ m \in Menu /\ m.active = menu.active /\ m.saving = menu.saving /\ m.restorePause = menu.restorePause
      /\ m.shot <= menu.shot /\ (menu.shot = -2 => m.shot = -2)
  BY <1>0, LaterDoes, ShapeIs
<1> HIDE DEF m
<1>4. Right(t) /\ t.list = seqFrame /\ t.level = level /\ t.menu = m /\ t.visible = visible /\ t.paused = paused
  <2>1. Right(t) /\ t.list = Here.list /\ t.level = Here.level /\ t.menu = m /\ t.visible = Here.visible /\ t.paused = paused
    BY <1>0, <1>3, SetDoes, ShapeIs
  <2> HIDE DEF t
  <2> QED
    BY <2>1, HereIs
<1> HIDE DEF t
<1>5. Right(Here)'
  <2>1. seqFrame' \in List
    BY <1>2 DEF WalkedAs
  <2> QED
    BY <1>1, <1>2, <1>4, <2>1, HereIsThen
<1>6. Shape'
  <2>1. Typed'
    BY <1>0, <1>1, TypedStays, ShapeIs
  <2>2. WalkedNow'
    BY <1>2 DEF WalkedNow
  <2> QED
    BY <1>5, <2>1, <2>2 DEF Shape
<1>7. ASSUME ~crossed'
      PROVE  Calm'
  <2>1. fault = None /\ OneThing /\ LevelRight /\ PauseRight /\ MenuThere /\ LevelMoves /\ ClockRuns /\ ~crossed
    BY <1>1, <1>7 DEF Inv, Calm
  <2>2. /\ menu'.active = menu.active /\ menu'.saving = menu.saving /\ menu'.restorePause = menu.restorePause
        /\ menu'.shot <= menu.shot /\ menu'.shot \in -2..1 /\ menu.shot \in -2..1
        /\ (menu.shot = -2 => menu'.shot = -2)
    BY <1>0, <1>1, <1>3, ShapeIs DEF Menu
  <2>3. OneThing'
    BY <1>1, <2>1, <2>2 DEF OneThing, Playing
  <2>4. LevelRight'
    BY <1>1, <1>2, <2>1, <2>2, UpcomingStays DEF LevelRight, Playing
  <2>5. PauseRight' /\ MenuThere' /\ LevelMoves' /\ ClockRuns'
    BY <1>1, <1>2, <2>1, <2>2 DEF PauseRight, MenuThere, LevelMoves, ClockRuns, IsGameTypeSingle
  <2> QED
    BY <1>1, <2>1, <2>3, <2>4, <2>5 DEF Calm
<1> QED
  BY <1>6, <1>7 DEF Inv

LEMMA FrameEndHolds ==
    ASSUME Inv, FrameEnd
    PROVE  Inv'
<1>0. Shape
  BY DEF Inv
<1>1. /\ InFrame /\ walk' = 0
      /\ UNCHANGED <<events, handled, level, ready, loading, result, gameType, logo, quit, inbox, menu, visible,
                     paused, away, byKey, crossed, fault>>
  BY DEF FrameEnd, gameVars
<1>2. WalkedAs(seqFrame', walk', began') /\ Listed(seqFrame') = Listed(seqFrame) /\ ~InFrame'
  BY <1>0, <1>1, EndRefines, ShapeIs DEF InFrame
<1>3. Right(Here)'
  <2>1. seqFrame' \in List
    BY <1>2 DEF WalkedAs
  <2> QED
    BY <1>0, <1>1, <1>2, <2>1, HereIs, HereIsThen, ShapeIs
<1>4. Shape'
  <2>1. Typed'
    BY <1>0, <1>1, TypedStays, ShapeIs
  <2>2. WalkedNow'
    BY <1>2 DEF WalkedNow
  <2> QED
    BY <1>3, <2>1, <2>2 DEF Shape
<1>5. ASSUME ~crossed'
      PROVE  Calm'
  <2>1. fault = None /\ OneThing /\ LevelRight /\ PauseRight /\ MenuThere /\ LevelMoves /\ ClockRuns /\ ~crossed
    BY <1>1, <1>5 DEF Inv, Calm
  <2>2. Rest(level, 1)' = Rest(level, 1) /\ Rest(level, 2)' = Rest(level, 2)
        /\ Rest(level, 3)' = Rest(level, 3) /\ Rest(level, 4)' = Rest(level, 4) /\ Finalizer' = Finalizer
    BY <1>1 DEF Rest, Stages, Finalizer
  <2>3. OneThing'
    BY <1>1, <1>2, <2>1 DEF OneThing, Playing
  <2>4. LevelRight'
    BY <1>1, <1>2, <2>1, <2>2, UpcomingStays DEF LevelRight, Playing
  <2>5. PauseRight' /\ MenuThere' /\ LevelMoves' /\ ClockRuns'
    BY <1>1, <1>2, <2>1 DEF PauseRight, MenuThere, LevelMoves, ClockRuns, IsGameTypeSingle
  <2> QED
    BY <1>1, <2>1, <2>3, <2>4, <2>5 DEF Calm
<1> QED
  BY <1>4, <1>5 DEF Inv

LEMMA VarsStay == ASSUME Inv, UNCHANGED vars PROVE Inv' /\ Passes
<1>1. Passes /\ Right(Here)' /\ Typed'
  <2>1. Passes
    BY EvolvesItself DEF vars, Inv, Shape, WalkedNow, WalkedAs, Passes, InFrame
  <2>2. Right(Here)'
    BY DEF vars, Here, Inv, Shape, Right, Heard, Record
  <2>3. Typed'
    BY TypedStays DEF vars, Inv, Shape
  <2> QED
    BY <2>1, <2>2, <2>3
<1>2. WalkedNow'
  BY DEF vars, Inv, Shape, WalkedNow
<1>3. ASSUME ~crossed'
      PROVE  Calm'
  <2>1. fault = None /\ OneThing /\ LevelRight /\ PauseRight /\ MenuThere /\ LevelMoves /\ ClockRuns
    BY <1>3 DEF vars, Inv, Calm
  <2>2. /\ UNCHANGED <<seqFrame, walk, events, handled, level, ready, loading, result, gameType, inbox, menu,
                       visible, paused, away, logo, quit, byKey, crossed>>
        /\ fault' = fault /\ ~crossed
    BY <1>3 DEF vars
  <2>3. OneThing' /\ LevelRight' /\ PauseRight' /\ MenuThere' /\ LevelMoves' /\ ClockRuns'
    <3>1. OneThing'
      BY <2>1, <2>2 DEF OneThing, Playing, Rest, Stages, InFrame
    <3>2. LevelRight'
      BY <2>1, <2>2 DEF LevelRight, Playing, Rest, Stages, Finalizer, Upcoming
    <3>3. PauseRight' /\ MenuThere' /\ LevelMoves' /\ ClockRuns'
      BY <2>1, <2>2 DEF PauseRight, MenuThere, LevelMoves, ClockRuns, IsGameTypeSingle
    <3> QED
      BY <3>1, <3>2, <3>3
  <2> QED
    BY <2>1, <2>2, <2>3 DEF Calm
<1> QED
  BY <1>1, <1>2, <1>3 DEF Inv, Shape

-----------------------------------------------------------------------------
(* The theorems.                                                           *)

LEMMA InitWalked == ASSUME Init PROVE WalkedNow /\ Listed(seqFrame) = Engine
<1> DEFINE S == <<"application", "persistent", "input", "console", "menu">>
           E(o) == [Object |-> o, Prio |-> Prio[o]]
           R == <<E("application"), E("persistent"), E("input"), E("console"), E("menu")>>
<1>1. seqFrame = [R |-> R, in_process |-> FALSE, changed |-> FALSE] /\ walk = 0 /\ began = 0
  <2>1. seqFrame = [Empty EXCEPT !.R = [i \in DOMAIN S |-> E(S[i])]] /\ walk = 0 /\ began = 0
    BY DEF Init
  <2>2. [i \in DOMAIN S |-> E(S[i])] = R
    <3> HIDE DEF E
    <3>1. DOMAIN S = 1..5
      OBVIOUS
    <3>2. [i \in 1..5 |-> E(S[i])] = R
      OBVIOUS
    <3> QED
      BY <3>1, <3>2
  <2> HIDE DEF R, E, S
  <2> QED
    BY <2>1, <2>2 DEF Empty
<1>2. /\ \A o \in Engine : E(o) \in Entry /\ E(o).Object = o /\ E(o).Prio = Prio[o] /\ Prio[o] # INVALID
      /\ "application" \in Engine /\ "persistent" \in Engine /\ "input" \in Engine
      /\ "console" \in Engine /\ "menu" \in Engine
  <2>1. \A o \in Engine : Prio[o] \in 1..5 /\ o \in Object
    BY PriosAre, ObjectsAre
  <2> QED
    BY <2>1 DEF Entry, INVALID, Engine
<1>3. /\ E("application") = [Object |-> "application", Prio |-> 5] /\ E("persistent") = [Object |-> "persistent", Prio |-> 4]
      /\ E("input") = [Object |-> "input", Prio |-> 3]
  BY PriosAre
<1> HIDE DEF E
<1>4. R \in Seq(Entry) /\ Len(R) = 5
  <2>1. \A p, q, r, s, t \in Entry : <<p, q, r, s, t>> \in Seq(Entry) /\ Len(<<p, q, r, s, t>>) = 5
    OBVIOUS
  <2> QED
    BY <1>2, <2>1
<1>5. /\ R[1] = E("application") /\ R[2] = E("persistent") /\ R[3] = E("input") /\ R[4] = E("console") /\ R[5] = E("menu")
  OBVIOUS
<1>6. 1..5 = {1, 2, 3, 4, 5}
  OBVIOUS
<1> HIDE DEF R
<1>7. seqFrame \in List /\ seqFrame.R = R /\ ~seqFrame.in_process /\ ~seqFrame.changed
  <2>1. \A i \in 1..5 : R[i].Prio = Prio[R[i].Object] /\ R[i].Prio # INVALID
    BY <1>2, <1>5, <1>6
  <2> QED
    BY <1>1, <1>4, <2>1 DEF List
<1>8. InFront(seqFrame.R)
  BY <1>3, <1>4, <1>5, <1>7, InFrontIs
<1>9. /\ R[1].Prio = 5 /\ R[2].Prio = 4 /\ R[3].Prio = 3 /\ R[4].Prio = 2 /\ R[5].Prio = 1
      /\ R[1].Object = "application" /\ R[2].Object = "persistent" /\ R[3].Object = "input"
      /\ R[4].Object = "console" /\ R[5].Object = "menu"
  BY <1>2, <1>5, PriosAre
<1>10. InOrder(R) /\ \A i \in 1..5 : IsValid(R[i])
  <2>1. DOMAIN R = 1..5
    BY <1>4
  <2>2. \A i, j \in 1..5 : i < j => R[i].Prio >= R[j].Prio
    BY <1>6, <1>9
  <2>3. \A i \in 1..5 : R[i].Prio # INVALID
    BY <1>6, <1>9 DEF INVALID
  <2> QED
    BY <2>1, <2>2, <2>3 DEF InOrder, IsValid
<1>11. ~Twice(seqFrame)
  <2>1. \A i, j \in 1..5 : i < j => R[i].Object # R[j].Object
    BY <1>6, <1>9
  <2> QED
    BY <1>4, <1>7, <2>1, TwiceIs
<1>12. Listed(seqFrame) = Engine
  <2>1. \A o : o \in Listed(seqFrame) <=> \E i \in 1..5 : R[i].Object = o /\ R[i].Prio # INVALID
    BY <1>4, <1>7, ListedIs
  <2>2. \A o : o \in Listed(seqFrame) <=> o \in Engine
    BY <1>6, <1>9, <2>1 DEF Engine, INVALID
  <2> QED
    BY <2>2
<1>13. Tidy([seqFrame EXCEPT !.in_process = FALSE])
  <2> DEFINE q == [seqFrame EXCEPT !.in_process = FALSE]
  <2>1. seqFrame \in [R : Seq(Entry), in_process : BOOLEAN, changed : BOOLEAN]
    BY <1>7 DEF List
  <2>2. q.R = R /\ q.in_process = FALSE /\ q.changed = FALSE
    BY <1>7, <2>1
  <2> HIDE DEF q
  <2>3. Tidy(q)
    BY <1>4, <1>10, <2>2 DEF Tidy
  <2> QED
    BY <2>3 DEF q
<1>14. Descends(seqFrame.R, began)
  BY <1>1 DEF Descends
<1> QED
  BY <1>1, <1>4, <1>7, <1>8, <1>11, <1>12, <1>13, <1>14 DEF WalkedNow, WalkedAs

LEMMA InitHolds == ASSUME Init PROVE Inv
<1>1. WalkedNow /\ Listed(seqFrame) = Engine
  BY InitWalked
<1>2. /\ handled = 0 /\ events \in {<<>>, <<"single">>, <<"multi">>}
      /\ level = None /\ ready = FALSE /\ loading = <<>> /\ result = TRUE /\ gameType = "any" /\ inbox = None
      /\ menu = [active |-> FALSE, saving |-> FALSE, shot |-> -2, restoreConsole |-> FALSE, restorePause |-> FALSE]
      /\ visible = TRUE /\ paused = FALSE
      /\ away = [now |-> FALSE, restorePause |-> FALSE] /\ logo = TRUE /\ quit = FALSE
      /\ byKey = FALSE /\ crossed = FALSE /\ fault = None
  BY DEF Init
<1>3. Typed
  <2>1. \A r \in Request : <<r>> \in Seq(Request)
    OBVIOUS
  <2>2. "single" \in Request /\ "multi" \in Request
    BY DEF Request
  <2>3. events \in Seq(Request)
    <3>1. <<>> \in Seq(Request)
      OBVIOUS
    <3>2. <<"single">> \in Seq(Request) /\ <<"multi">> \in Seq(Request)
      BY <2>1, <2>2
    <3> QED
      BY <1>2, <3>1, <3>2
  <2>4. handled \in Nat /\ handled <= Len(events)
    <3>1. Len(events) \in Nat
      BY <2>3
    <3> QED
      BY <1>2, <3>1
  <2>5. loading \in Seq([level : Address \cup {None}, stage : Stage])
    BY <1>2
  <2>6. \A i \in 1..Len(loading) : loading[i].stage # "finalizer" => loading[i].level \in Address
    <3>1. 1..Len(loading) = {}
      BY <1>2
    <3> QED
      BY <3>1
  <2>7. away \in [now : BOOLEAN, restorePause : BOOLEAN]
    BY <1>2
  <2> QED
    BY <1>2, <2>3, <2>4, <2>5, <2>6, <2>7 DEF Typed
<1>4. Right(Here)
  <2>1. seqFrame \in List
    BY <1>1 DEF WalkedNow, WalkedAs
  <2>2. menu \in Menu
    BY <1>2 DEF Menu
  <2>3. Here \in Record
    BY <1>2, <2>1, <2>2 DEF Here, Record
  <2>4. "console" \in Engine /\ \A a \in Address : a \notin Engine
    BY ObjectsAre DEF Engine
  <2> QED
    BY <1>1, <1>2, <2>3, <2>4, HereIs DEF Right
<1>5. Calm
  <2>1. menu.active = FALSE /\ menu.saving = FALSE /\ menu.shot = -2 /\ away.now = FALSE
    BY <1>2
  <2>2. OneThing /\ PauseRight /\ MenuThere /\ LevelMoves /\ ClockRuns
    BY <1>2, <2>1 DEF OneThing, PauseRight, MenuThere, LevelMoves, ClockRuns
  <2>3. LevelRight
    <3>1. ~Upcoming("QuickLoad")
      BY <1>2 DEF Upcoming
    <3> QED
      BY <1>2, <3>1 DEF LevelRight
  <2> QED
    BY <1>2, <2>2, <2>3 DEF Calm
<1> QED
  BY <1>1, <1>3, <1>4, <1>5 DEF Inv, Shape

\* The application is always in order, and all is calm until something crosses.
THEOREM Invariance == Spec => []Inv
<1>1. Init => Inv
  BY InitHolds
<1>2. ASSUME Inv, [Next]_vars
      PROVE  Inv'
  <2>1. CASE UNCHANGED vars
    BY <1>2, <2>1, VarsStay
  <2>2. CASE FrameMove
    BY <1>2, <2>2, FrameMoveHolds
  <2>3. CASE FrameEnd
    BY <1>2, <2>3, FrameEndHolds
  <2>4. CASE Next /\ ~FrameMove /\ ~FrameEnd
    BY <1>2, <2>4, StepIsGood, GoodHolds DEF Inv
  <2> QED
    BY <1>2, <2>1, <2>2, <2>3, <2>4
<1> QED
  BY <1>1, <1>2, PTL DEF Spec

LEMMA InvIsWalked == ASSUME Inv PROVE Walked
<1>1. WalkedAs(seqFrame, walk, began)
  BY DEF Inv, Shape, WalkedNow
<1>2. seqFrame \in [R : Seq(Entry), in_process : BOOLEAN, changed : BOOLEAN] /\ DOMAIN seqFrame.R = 1..Len(seqFrame.R)
      /\ Len(seqFrame.R) \in Nat
  BY <1>1 DEF WalkedAs, List
<1>3. [seqFrame EXCEPT !.in_process = FALSE].R = seqFrame.R
  BY <1>2
<1>4. ~seqFrame.changed => InOrder(seqFrame.R) /\ \A i \in DOMAIN seqFrame.R : IsValid(seqFrame.R[i])
  BY <1>1, <1>2, <1>3 DEF WalkedAs, Tidy
<1>5. InFrame \/ (began = 0 /\ ~seqFrame.changed)
  BY <1>1 DEF WalkedAs, InFrame
<1>6. walk \in 0..(Len(seqFrame.R) + 1) /\ began \in 0..Len(seqFrame.R)
  BY <1>1, <1>2 DEF WalkedAs
<1> QED
  BY <1>1, <1>4, <1>5, <1>6 DEF Walked, WalkedAs

\* The handlers may list whom they like and take out whom they like in the
\* middle of CRegistrator::Process: nobody is listed twice, the three who are
\* never taken out stay in front, and the list is in order between two frames.
THEOREM WalkKept == Spec => []Walked
<1>1. Inv => Walked
  BY InvIsWalked
<1> QED
  BY <1>1, Invariance, PTL

\* Nobody stays listed who has gone: a CLevel takes itself out however it ends,
\* and the console is listed while it is seen.
THEOREM NobodyKept == Spec => []NobodyDangles
<1>1. ASSUME Inv
      PROVE  NobodyDangles
  <2>1. Shape /\ Walked /\ WalkedAs(seqFrame, walk, began)
    BY <1>1, InvIsWalked DEF Inv, Shape, WalkedNow
  <2>2. seqFrame \in List /\ DOMAIN seqFrame.R = 1..Len(seqFrame.R) /\ \A i \in 1..Len(seqFrame.R) : seqFrame.R[i] \in Entry
    BY <2>1 DEF WalkedAs, List
  <2>3. \A i \in DOMAIN seqFrame.R :
            seqFrame.R[i].Object \in Object /\ seqFrame.R[i].Prio \in {INVALID, Prio[seqFrame.R[i].Object]}
    BY <2>2 DEF List, Entry
  <2>4. seqFrame.in_process <=> InFrame
    BY <2>1 DEF WalkedAs, InFrame
  <2>5. ~InFrame => InOrder(seqFrame.R) /\ \A e \in ToSet(seqFrame.R) : IsValid(e)
    BY <2>1 DEF Walked, ToSet
  <2>6. level \in Address \union {None} /\ menu.shot \in -2..1
    BY <2>1, ShapeIs
  <2>7. handled \in 0..Len(events) /\ events \in Seq({"single", "multi", "disconnect", "QuickLoad", "quit"})
        /\ inbox \in {None, "load", "change"} /\ gameType \in {"any", "single", "multi"}
    <3>1. handled \in Nat /\ handled <= Len(events) /\ events \in Seq(Request) /\ Len(events) \in Nat
      BY <2>1 DEF Shape, Typed
    <3> QED
      BY <2>1, <3>1 DEF Shape, Typed, Request
  <2>8. TypeInvariant
    BY <2>3, <2>4, <2>5, <2>6, <2>7 DEF TypeInvariant
  <2>9. Listed(seqFrame) \cap Address \subseteq {level} /\ (visible <=> "console" \in Listed(seqFrame))
    BY <2>1, HereIs, ShapeIs DEF Right
  <2> QED
    BY <2>8, <2>9 DEF NobodyDangles
<1> QED
  BY <1>1, Invariance, PTL

\* As long as nothing is asked for while something else is under way, the
\* application is in one of the few situations it was written for.
THEOREM QuietKept == Spec => []Quiet
<1>1. Inv => Quiet
  BY DEF Inv, Calm, Quiet
<1> QED
  BY <1>1, Invariance, PTL

\* A CLevel moves on in every frame, but for the time the menu covers a single
\* player game, in which it moves only to have its picture taken.
THEOREM LevelKept == Spec => []LevelMoves
<1>1. Inv => LevelMoves
  <2>1. CASE crossed
    BY <2>1 DEF LevelMoves
  <2>2. CASE ~crossed
    BY <2>2 DEF Inv, Calm
  <2> QED
    BY <2>1, <2>2
<1> QED
  BY <1>1, Invariance, PTL

\* No VERIFY of the shell fails and no pointer to nothing is followed as long as
\* nothing is asked for while something else is under way.
THEOREM NothingFails == Spec => []OneAtATime
<1>1. Inv => OneAtATime
  BY DEF Inv, Calm, OneAtATime
<1> QED
  BY <1>1, Invariance, PTL

\* Whoever stops the clock starts it again: the menu, the focus, the user.
THEOREM ClockKept == Spec => []ClockRuns
<1>1. Inv => ClockRuns
  <2>1. CASE crossed
    BY <2>1 DEF ClockRuns
  <2>2. CASE ~crossed
    BY <2>2 DEF Inv, Calm
  <2> QED
    BY <2>1, <2>2
<1> QED
  BY <1>1, Invariance, PTL

\* When a game has ended or could not be started, the user has his menu.
THEOREM MenuKept == Spec => []NobodyStranded
<1>1. ASSUME Inv
      PROVE  NobodyStranded
  <2> SUFFICES ASSUME ~crossed, ~quit, level = None, events = <<>>, loading = <<>>, ~logo
               PROVE  menu.active
    BY DEF NobodyStranded
  <2>1. MenuThere
    BY <1>1 DEF Inv, Calm
  <2>2. \A i : i \notin (handled + 1)..Len(events)
    <3>1. handled \in Nat /\ Len(events) = 0
      BY <1>1 DEF Inv, Shape, Typed
    <3> QED
      BY <3>1
  <2> QED
    BY <2>1, <2>2 DEF MenuThere
<1> QED
  BY <1>1, Invariance, PTL

\* CRegistrator, walked by index while the handlers change it, keeps what
\* Listeners promises: who was listed when the pass began and still is gets his
\* one call, in the order of the priorities, and who was listed since after them.
THEOREM ListenersKept == Spec => ListenersServed
<1>1. Init => Shell!Init
  <2> SUFFICES ASSUME Init
               PROVE  Shell!Init
    OBVIOUS
  <2>1. Listed(seqFrame) \subseteq Object /\ walk = 0
    BY InitWalked DEF Object, Init
  <2>2. ~InFrame
    BY <2>1 DEF InFrame
  <2> QED
    BY <2>1, <2>2 DEF Shell!Init, InFrame
<1>2. ASSUME Inv, [Next]_vars
      PROVE  [Shell!Next]_(Shell!vars)
  <2>1. WalkedNow
    BY <1>2 DEF Inv, Shape
  <2>2. CASE FrameMove
    BY <2>1, <2>2, BeginRefines
  <2>3. CASE FrameEnd
    BY <2>1, <2>3, EndRefines
  <2>4. CASE UNCHANGED vars
    BY <1>2, <2>1, <2>4, VarsStay, PassesRefines
  <2>5. CASE Next /\ ~FrameMove /\ ~FrameEnd
    <3>1. Passes
      BY <1>2, <2>5, StepIsGood DEF Inv, Good
    <3> QED
      BY <2>1, <3>1, PassesRefines
  <2> QED
    BY <1>2, <2>2, <2>3, <2>4, <2>5
<1> QED
  BY <1>1, <1>2, Invariance, PTL DEF Spec, ListenersServed, Shell!Spec

=============================================================================
