------------------------------ MODULE Sheduler ------------------------------
(***************************************************************************)
(* CSheduler: the objects that are updated every frame (ItemsRT), those    *)
(* that are updated when they are due (Items, a heap), and the list in     *)
(* which they register and unregister meanwhile (Registration).            *)
(*                                                                         *)
(* An object is its address, which a new object may get after the old one  *)
(* was deleted.  Updates are callbacks: in them, as between two calls of   *)
(* CSheduler::Update, objects are made, deleted, registered and            *)
(* unregistered.  Times are relative to Device.dwTimeGlobal.               *)
(*                                                                         *)
(* Not here: EnsureOrder, which nothing calls; Destroy, at the end of the  *)
(* program; the items internal_Unregister leaves in the heap with a NULL   *)
(* object, which are popped without effect when they are due; and          *)
(* dwTimeOfLastExecute, an argument of the updates and no more.            *)
(***************************************************************************)
EXTENDS Integers, FiniteSets, Sequences, SequencesExt

CONSTANTS
    Object,      \* the addresses of ISheduled objects
    NoObject,    \* none
    Flags,       \* the values of RT that Register is called with
    MaxUpdate,   \* the longest time between two updates
    MaxElapsed,  \* the longest frame
    MaxLate,     \* an item that is later than this is as late as this
    MaxPending,  \* how long the Registration list may get
    StableRT     \* no update of an ItemsRT object unregisters one of them

ASSUME ObjectAssumption == NoObject \notin Object /\ Flags \subseteq BOOLEAN /\ StableRT \in BOOLEAN
ASSUME BoundAssumption == {MaxUpdate, MaxElapsed, MaxLate, MaxPending} \subseteq Nat

VARIABLES
    alive,           \* the objects that exist
    b_RT,            \* ISheduled::shedule.b_RT
    ItemsRT,
    Items,
    ItemsProcessed,
    Registration,
    at,              \* where CSheduler::Update is
    it,              \* its index into ItemsRT
    i,               \* ProcessStep's count of items, modulo 3
    current,         \* the object that is being updated
    visited          \* (history) the objects visited in this frame

lists == <<ItemsRT, Items, ItemsProcessed>>
place == <<at, it, i, current>>
vars == <<alive, b_RT, ItemsRT, Items, ItemsProcessed, Registration, at, it, i, current, visited>>

Item == [Object : Object, due : Int]
ItemReg == [OP : BOOLEAN, RT : BOOLEAN, Object : Object]

\* "limit" is where ProcessStep looks at the time it has used.
Place == {"outside", "before", "rt", "rtUpdate", "items", "update", "limit", "after"}

TypeOK ==
    /\ alive \subseteq Object
    /\ b_RT \in [Object -> BOOLEAN]
    /\ ItemsRT \in Seq(Object)
    /\ Items \subseteq Item /\ ItemsProcessed \subseteq Item
    /\ Registration \in Seq(ItemReg)
    /\ at \in Place
    /\ it \in Nat \ {0}
    /\ i \in 0..2
    /\ current \in Object \cup {NoObject}
    /\ visited \subseteq Object

Reg(op, rt, o) == [OP |-> op, RT |-> rt, Object |-> o]

m_processing_now == at \in {"rt", "rtUpdate", "items", "update", "limit"}

\* Where code of the application runs.
Called == at \in {"outside", "rtUpdate", "update"}

InItems(o) == \E t \in Items : t.Object = o
InProcessed(o) == \E t \in ItemsProcessed : t.Object = o
Within(o, rt) == IF rt THEN o \in ToSet(ItemsRT) ELSE InItems(o)

\* The object is in one of the lists, or between two of them.
Listed(o) ==
    \/ o \in ToSet(ItemsRT)
    \/ InItems(o)
    \/ InProcessed(o)
    \/ at = "update" /\ current = o

LastWord(o, k) ==
    Registration[k].Object = o /\ \A n \in DOMAIN Registration : Registration[n].Object = o => n <= k

Mentioned(o) == \E k \in DOMAIN Registration : Registration[k].Object = o

\* CSheduler::Registered, with the object that is being updated taken for
\* one that is in the lists, to which it will return.
Registered(o) ==
    IF Mentioned(o) THEN \E k \in DOMAIN Registration : LastWord(o, k) /\ Registration[k].OP
    ELSE Listed(o)

Init ==
    /\ alive = {}
    /\ b_RT \in [Object -> BOOLEAN]
    /\ ItemsRT = <<>> /\ Items = {} /\ ItemsProcessed = {} /\ Registration = <<>>
    /\ at = "outside" /\ it = 1 /\ i = 0 /\ current = NoObject
    /\ visited = {}

-----------------------------------------------------------------------------
(* What the application calls, in an update or outside.                    *)

\* The constructor does not initialize b_RT.
Construct(o) ==
    /\ Called
    /\ o \notin alive
    /\ alive' = alive \cup {o}
    /\ \E rt \in BOOLEAN : b_RT' = [b_RT EXCEPT ![o] = rt]
    /\ UNCHANGED <<lists, Registration, place, visited>>

Register(o, rt) ==
    /\ Called
    /\ o \in alive
    /\ ~Registered(o)
    /\ Len(Registration) < MaxPending
    /\ b_RT' = [b_RT EXCEPT ![o] = rt]
    /\ Registration' = Append(Registration, Reg(TRUE, rt, o))
    /\ UNCHANGED <<alive, lists, place, visited>>

Unlist(o, rt) ==
    /\ ItemsRT' = IF rt THEN RemoveFirst(ItemsRT, o) ELSE ItemsRT
    /\ Items' = IF rt THEN Items ELSE {t \in Items : t.Object # o}
    /\ UNCHANGED ItemsProcessed

Defer(o) ==
    /\ Len(Registration) < MaxPending
    /\ Registration' = Append(Registration, Reg(FALSE, b_RT[o], o))
    /\ UNCHANGED lists

\* Fault: always deferred.
TakeOut_Faulty(o) == Defer(o)

\* CSheduler::Unregister
TakeOut(o) ==
    IF m_processing_now /\ Within(o, b_RT[o])
    THEN Unlist(o, b_RT[o]) /\ UNCHANGED Registration
    ELSE Defer(o)

\* No update in the repository unregisters an object of ItemsRT.
MayTakeOut(o) == StableRT /\ at = "rtUpdate" => o \notin ToSet(ItemsRT)

Unregister(o) ==
    /\ Called
    /\ o \in alive
    /\ Registered(o)
    /\ MayTakeOut(o)
    /\ TakeOut(o)
    /\ UNCHANGED <<alive, b_RT, place, visited>>

\* ~ISheduled, in release builds, unregisters whether registered or not.
\* An update does not delete its own object.
Destruct(o) ==
    /\ Called
    /\ o \in alive
    /\ at # "outside" => o # current
    /\ MayTakeOut(o)
    /\ TakeOut(o)
    /\ alive' = alive \ {o}
    /\ UNCHANGED <<b_RT, place, visited>>

Application ==
    \E o \in Object :
        \/ Construct(o)
        \/ \E rt \in Flags : Register(o, rt)
        \/ Unregister(o)
        \/ Destruct(o)

-----------------------------------------------------------------------------
(* CSheduler::Update.                                                      *)

Aged(t, d) == [t EXCEPT !.due = IF @ - d < -MaxLate THEN -MaxLate ELSE @ - d]

\* A frame, d after the last one.
StartUpdate(d) ==
    /\ at = "outside"
    /\ Items' = {Aged(t, d) : t \in Items}
    /\ at' = "before"
    /\ UNCHANGED <<alive, b_RT, ItemsRT, ItemsProcessed, Registration, it, i, current, visited>>

\* Fault: whoever's.
IsPair_Faulty(k) ==
    /\ ~Registration[k].OP
    /\ \A n \in 2..(k - 1) : Registration[n].OP

\* The first request to unregister the object that the head registers.
IsPair(k) ==
    /\ ~Registration[k].OP /\ Registration[k].Object = Head(Registration).Object
    /\ \A n \in 2..(k - 1) : ~(~Registration[n].OP /\ Registration[n].Object = Head(Registration).Object)

Pairs == {k \in 2..Len(Registration) : IsPair(k)}

Registering == at \in {"before", "after"} /\ Registration # <<>>

\* A request to register that was taken back.
SkipPair ==
    /\ Registering
    /\ Head(Registration).OP
    /\ \E k \in Pairs : Registration' = Tail(RemoveAt(Registration, k))
    /\ UNCHANGED <<alive, b_RT, lists, place, visited>>

\* internal_Register
DoRegister ==
    /\ Registering
    /\ Head(Registration).OP
    /\ Pairs = {}
    /\ LET R == Head(Registration)
       IN IF R.RT THEN ItemsRT' = Append(ItemsRT, R.Object) /\ UNCHANGED Items
          ELSE Items' = Items \cup {[Object |-> R.Object, due |-> 0]} /\ UNCHANGED ItemsRT
    /\ b_RT' = [b_RT EXCEPT ![Head(Registration).Object] = Head(Registration).RT]
    /\ Registration' = Tail(Registration)
    /\ UNCHANGED <<alive, ItemsProcessed, place, visited>>

\* internal_Unregister
DoUnregister ==
    /\ Registering
    /\ ~Head(Registration).OP
    /\ Unlist(Head(Registration).Object, Head(Registration).RT)
    /\ Registration' = Tail(Registration)
    /\ UNCHANGED <<alive, b_RT, place, visited>>

StartItemsRT ==
    /\ at = "before"
    /\ Registration = <<>>
    /\ at' = "rt"
    /\ it' = 1
    /\ visited' = {}
    /\ UNCHANGED <<alive, b_RT, lists, Registration, i, current>>

\* Fault: the item is erased and the index moves on.
SkipRT_Faulty ==
    /\ at = "rt"
    /\ it <= Len(ItemsRT)
    /\ visited' = visited \cup {ItemsRT[it]}
    /\ ItemsRT' = RemoveAt(ItemsRT, it)
    /\ it' = it + 1
    /\ UNCHANGED <<alive, b_RT, Items, ItemsProcessed, Registration, at, i, current>>

\* shedule_Needed: the object may need an update or not.
SkipRT ==
    /\ at = "rt"
    /\ it <= Len(ItemsRT)
    /\ visited' = visited \cup {ItemsRT[it]}
    /\ it' = it + 1
    /\ UNCHANGED <<alive, b_RT, lists, Registration, at, i, current>>

UpdateRT ==
    /\ at = "rt"
    /\ it <= Len(ItemsRT)
    /\ current' = ItemsRT[it]
    /\ visited' = visited \cup {ItemsRT[it]}
    /\ at' = "rtUpdate"
    /\ UNCHANGED <<alive, b_RT, lists, Registration, it, i>>

ReturnRT ==
    /\ at = "rtUpdate"
    /\ at' = "rt"
    /\ it' = it + 1
    /\ current' = NoObject
    /\ UNCHANGED <<alive, b_RT, lists, Registration, i, visited>>

ProcessStep ==
    /\ at = "rt"
    /\ it > Len(ItemsRT)
    /\ at' = "items"
    /\ i' = 0
    /\ UNCHANGED <<alive, b_RT, lists, Registration, it, current, visited>>

\* Fault: the heap is upside down.
IsTop_Faulty(t) == t \in Items /\ \A u \in Items : u.due <= t.due

IsTop(t) == t \in Items /\ \A u \in Items : t.due <= u.due

\* The heap's first item, if it is due.
Due(t) == at = "items" /\ IsTop(t) /\ t.due < 0

NextItem == i' = (i + 1) % 3

\* Fault: the item stays in the heap.
RetireItem_Faulty(t) ==
    /\ Due(t)
    /\ visited' = visited \cup {t.Object}
    /\ NextItem
    /\ UNCHANGED <<alive, b_RT, lists, Registration, at, it, current>>

\* shedule_Needed says no.  (It does not raise an exception, for which the
\* code would try the same item for ever: the object exists.)
RetireItem(t) ==
    /\ Due(t)
    /\ Items' = Items \ {t}
    /\ visited' = visited \cup {t.Object}
    /\ NextItem
    /\ UNCHANGED <<alive, b_RT, ItemsRT, ItemsProcessed, Registration, at, it, current>>

UpdateItem(t) ==
    /\ Due(t)
    /\ Items' = Items \ {t}
    /\ current' = t.Object
    /\ visited' = visited \cup {t.Object}
    /\ at' = "update"
    /\ UNCHANGED <<alive, b_RT, ItemsRT, ItemsProcessed, Registration, it, i>>

\* Every third item the time is looked at.
Return ==
    /\ at' = IF i = 2 THEN "limit" ELSE "items"
    /\ NextItem
    /\ current' = NoObject
    /\ UNCHANGED <<alive, b_RT, ItemsRT, Registration, it, visited>>

\* dwUpdate lies between the object's bounds.
ReturnItem(u) ==
    /\ at = "update"
    /\ ItemsProcessed' = ItemsProcessed \cup {[Object |-> current, due |-> u]}
    /\ UNCHANGED Items
    /\ Return

\* The update raises an exception: the item is gone, the loop continues.
ThrowItem ==
    /\ at = "update"
    /\ at' = "items"
    /\ NextItem
    /\ current' = NoObject
    /\ UNCHANGED <<alive, b_RT, lists, Registration, it, visited>>

GoOn ==
    /\ at = "limit"
    /\ at' = "items"
    /\ UNCHANGED <<alive, b_RT, lists, Registration, it, i, current, visited>>

\* The time is used up, or nothing else is due.
PushBack ==
    /\ \/ at = "limit"
       \/ at = "items" /\ \A t \in Items : ~Due(t)
    /\ Items' = Items \cup ItemsProcessed
    /\ ItemsProcessed' = {}
    /\ at' = "after"
    /\ UNCHANGED <<alive, b_RT, ItemsRT, Registration, it, i, current, visited>>

EndUpdate ==
    /\ at = "after"
    /\ Registration = <<>>
    /\ at' = "outside"
    /\ UNCHANGED <<alive, b_RT, lists, Registration, it, i, current, visited>>

Step ==
    \/ SkipPair
    \/ DoRegister
    \/ DoUnregister
    \/ StartItemsRT
    \/ SkipRT
    \/ UpdateRT
    \/ ReturnRT
    \/ ProcessStep
    \/ \E t \in Items : RetireItem(t) \/ UpdateItem(t)
    \/ \E u \in 1..MaxUpdate : ReturnItem(u)
    \/ ThrowItem
    \/ GoOn
    \/ PushBack
    \/ EndUpdate

Update == Step \/ \E d \in 0..MaxElapsed : StartUpdate(d)

Next == Application \/ Update

Spec == Init /\ [][Next]_vars

\* Frames follow one another, time passes, and an update returns.
FairSpec == Spec /\ WF_vars(Update) /\ SF_vars(\E d \in 1..MaxElapsed : StartUpdate(d))

-----------------------------------------------------------------------------
(* Properties.                                                             *)

Promised == INSTANCE UpdateService WITH
                registered <- {o \in Object : Registered(o)},
                updating <- at \notin {"outside", "before"}

\* That registrations wait in a list cannot be told from outside: an object
\* is visited only while it exists and has registered, also when it goes, or
\* another one takes its address, in the middle of a frame, and at most once
\* in a frame.
KeepsToRegistered == Promised!Spec

\* Unless they unregister one another, every object of ItemsRT is visited in
\* every frame.
EveryRT ==
    StableRT /\ at \in {"items", "limit"} =>
        \A o \in ToSet(ItemsRT) : o \in visited

\* An object is in one of the lists, once.
ListedOnce ==
    /\ \A m, n \in DOMAIN ItemsRT : ItemsRT[m] = ItemsRT[n] => m = n
    /\ \A t, u \in Items : t.Object = u.Object => t = u
    /\ \A t, u \in ItemsProcessed : t.Object = u.Object => t = u
    /\ \A o \in Object :
          /\ InItems(o) => o \notin ToSet(ItemsRT)
          /\ InProcessed(o) => o \notin ToSet(ItemsRT) /\ ~InItems(o)
          /\ at = "update" /\ current = o =>
                o \notin ToSet(ItemsRT) /\ ~InItems(o) /\ ~InProcessed(o)

FirstWord(o, k) ==
    Registration[k].Object = o /\ \A n \in DOMAIN Registration : Registration[n].Object = o => k <= n

\* An object registers once before it unregisters; one that is in a list has
\* to unregister first, and will be looked for in the list where it is.
WordsAlternate ==
    /\ \A m, n \in DOMAIN Registration :
          m < n /\ Registration[m].OP /\ Registration[n].OP
                /\ Registration[m].Object = Registration[n].Object =>
             \E k \in (m + 1)..(n - 1) :
                ~Registration[k].OP /\ Registration[k].Object = Registration[m].Object
    /\ \A o \in Object, k \in DOMAIN Registration :
          FirstWord(o, k) /\ Listed(o) =>
             ~Registration[k].OP /\ (Registration[k].RT <=> o \in ToSet(ItemsRT))

\* b_RT tells the list where an object is, or will be.
FlagTells ==
    /\ \A o \in Object :
          Listed(o) /\ ~Mentioned(o) => o \in alive /\ (b_RT[o] <=> o \in ToSet(ItemsRT))
    /\ \A o \in Object, k \in DOMAIN Registration :
          LastWord(o, k) /\ Registration[k].OP => o \in alive /\ b_RT[o] = Registration[k].RT

\* What the loops are still to run over has not asked to go, and has not been
\* visited in this frame.
YetToVisit ==
    /\ m_processing_now =>
          \A o \in Object : o \in ToSet(ItemsRT) \/ InItems(o) => ~Mentioned(o)
    /\ m_processing_now => \A t \in Items : t.Object \notin visited
    /\ at = "rt" => \A n \in DOMAIN ItemsRT : n >= it => ItemsRT[n] \notin visited
    /\ at = "rtUpdate" => \A n \in DOMAIN ItemsRT : n > it => ItemsRT[n] \notin visited

CurrentRight ==
    /\ at \in {"update", "rtUpdate"} => current \in visited
    /\ at \notin {"items", "update", "limit"} => ItemsProcessed = {}

\* The inductive invariant.
IInv == TypeOK /\ ListedOnce /\ WordsAlternate /\ FlagTells /\ YetToVisit /\ CurrentRight

\* A frame comes to its end whatever the updates register and unregister.
UpdateEnds == (at = "before") ~> (at = "outside")

\* Each update serves the latest items first, three at least, whatever the
\* time it has used: no item comes to be MaxLate late.  (So Aged loses nothing.)
InTime == \A t \in Items : t.due > -MaxLate

(* What makes it so.                                                       *)

\* How many this frame has served: i counts them modulo 3, and the time is
\* looked at no sooner than after the third.
Served ==
    CASE at = "items" -> i
      [] at = "update" -> i + 1
      [] at = "limit" -> 3
      [] OTHER -> 0

\* The objects of a heap that are not served after t.
NotBehind(heap, t) == {u.Object : u \in {v \in heap : v.due <= t.due}}

\* t has been due for f whole frames, and no longer than they were long: three others
\* went before it in each of them, and so did some that were served in this one.
Spared(heap, t, served, frame) ==
    \E f \in 0..Cardinality(Object) :
        /\ 3 * f + served + Cardinality(NotBehind(heap, t)) <= Cardinality(Object)
        /\ t.due >= -(MaxElapsed * (f + frame))

Waited ==
    /\ \A t \in ItemsProcessed : t.due > 0
    /\ \A t \in Items : Spared(Items, t, Served, IF at \in {"outside", "after"} THEN 0 ELSE 1)

\* MaxLate is later than anyone can be who has to wait for all others.
LateEnough ==
    /\ IsFiniteSet(Object)
    /\ \A f \in 0..Cardinality(Object) :
          3 * f < Cardinality(Object) => MaxElapsed * (f + 1) < MaxLate

\* However little time there is, nobody in the heap waits for ever.
NobodyStarves ==
    \A o \in Object : (Registered(o) /\ ~b_RT[o]) ~> (o \in visited \/ ~Registered(o) \/ b_RT[o])
=============================================================================
