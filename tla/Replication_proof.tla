-------------------------- MODULE Replication_proof --------------------------
(***************************************************************************)
(* For any identifiers and any forest of entities: the client's objects    *)
(* are where the events still to be run start from, and the server's       *)
(* entities where they end, whatever was sent while the client joined and  *)
(* whatever it misses while it leaves.                                     *)
(*                                                                         *)
(* A View is what the events speak of: who is alive, and in whose hands.   *)
(* An event turns one into the next (Turn), a sequence of events or of     *)
(* messages leads from one to another (Leads, LeadsAll).  The proof keeps  *)
(* a view that stands for the client (Stands) and from which what is       *)
(* pending leads to the server's own (Served).                             *)
(***************************************************************************)
EXTENDS Replication, FiniteSetTheorems, WellFoundedInduction, TLAPS

View == {a \in [alive : SUBSET ID, hand : [ID -> ID \union {NoID}]] :
            \A e \in ID : a.hand[e] # NoID => e \in a.alive /\ a.hand[e] \in a.alive}

Nobody == [alive |-> {}, hand |-> [e \in ID |-> NoID]]

Handed(a, p, e) == [alive |-> a.alive, hand |-> [a.hand EXCEPT ![e] = p]]

\* What an event makes of a view, when it is true of it.
Turn(ev, a, b) ==
    \/ ev.type = "config" /\ b = Nobody
    \/ ev.type = "finished" /\ b = a
    \/ /\ ev.type = "spawn"
       /\ ev.id \in ID \ a.alive /\ ev.parent \in a.alive \union {NoID}
       /\ b = [alive |-> a.alive \union {ev.id}, hand |-> [a.hand EXCEPT ![ev.id] = ev.parent]]
    \/ /\ ev.type = "take"
       /\ {ev.parent, ev.id} \subseteq a.alive /\ a.hand[ev.id] = NoID
       /\ b = Handed(a, ev.parent, ev.id)
    \/ /\ ev.type = "reject"
       /\ ev.id \in ID /\ ev.parent # NoID /\ a.hand[ev.id] = ev.parent
       /\ b = Handed(a, NoID, ev.id)
    \/ /\ ev.type = "destroy"
       /\ ev.id \in ID /\ a.hand[ev.id] = NoID /\ \A c \in ID : a.hand[c] # ev.id
       /\ b = [alive |-> a.alive \ {ev.id}, hand |-> a.hand]

\* From a to b by a step of each of the relations of R.
Chain(R, a, b) ==
    \E v \in [0 .. Len(R) -> View] :
        /\ v[0] = a /\ v[Len(R)] = b
        /\ \A k \in 1 .. Len(R) : <<v[k - 1], v[k]>> \in R[k]

TurnOf(ev) == {x \in View \X View : Turn(ev, x[1], x[2])}
Turns(q) == [k \in 1 .. Len(q) |-> TurnOf(q[k])]
Leads(q, a, b) == Chain(Turns(q), a, b)

LeadOf(m) == {x \in View \X View : Leads(m, x[1], x[2])}
LeadsOf(ms) == [k \in 1 .. Len(ms) |-> LeadOf(ms[k])]
LeadsAll(ms, a, b) == Chain(LeadsOf(ms), a, b)

-----------------------------------------------------------------------------
(* Chains.                                                                 *)

\* A set of naturals that is not empty has a least element.
LEMMA LeastOf ==
    ASSUME NEW I \in SUBSET Nat, I # {}
    PROVE  \E m \in I : \A n \in I : m =< n
<1>1. PICK m \in I : \A n \in I : ~ (<<n, m>> \in OpToRel(<, Nat))
  BY NatLessThanWellFounded, WFMin
<1>2. ASSUME NEW n \in I
      PROVE  m =< n
  <2>1. ~ (<<n, m>> \in {ss \in Nat \X Nat : ss[1] < ss[2]})
    BY <1>1 DEF OpToRel
  <2>2. <<n, m>> \in Nat \X Nat /\ <<n, m>>[1] = n /\ <<n, m>>[2] = m
    OBVIOUS
  <2> QED
    BY <2>1, <2>2
<1> QED
  BY <1>2

\* No step leads nowhere else.
LEMMA ChainNone ==
    ASSUME NEW a \in View
    PROVE  Chain(<<>>, a, a) /\ \A b : Chain(<<>>, a, b) => b = a
<1>1. Chain(<<>>, a, a)
  <2> DEFINE v == [k \in 0 .. 0 |-> a]
  <2>1. v \in [0 .. 0 -> View] /\ v[0] = a
    OBVIOUS
  <2> HIDE DEF v
  <2>2. Len(<<>>) = 0 /\ \A k \in 1 .. 0 : FALSE
    OBVIOUS
  <2> QED
    BY <2>1, <2>2 DEF Chain
<1> QED
  BY <1>1 DEF Chain

\* Both ends of a chain are views.
LEMMA ChainEnds ==
    ASSUME NEW X, NEW R \in Seq(X), NEW a, NEW b, Chain(R, a, b)
    PROVE  a \in View /\ b \in View
<1>1. Len(R) \in Nat
  OBVIOUS
<1>2. 0 \in 0 .. Len(R) /\ Len(R) \in 0 .. Len(R)
  BY <1>1
<1> QED
  BY <1>2 DEF Chain

\* One step.
LEMMA ChainOne ==
    ASSUME NEW a \in View, NEW b \in View, NEW r, <<a, b>> \in r
    PROVE  Chain(<<r>>, a, b)
<1> DEFINE v == [k \in 0 .. 1 |-> IF k = 0 THEN a ELSE b]
<1>1. v \in [0 .. 1 -> View] /\ v[0] = a /\ v[1] = b
  OBVIOUS
<1> HIDE DEF v
<1>2. Len(<<r>>) = 1 /\ <<r>>[1] = r
  OBVIOUS
<1>3. ASSUME NEW k \in 1 .. 1
      PROVE  <<v[k - 1], v[k]>> \in <<r>>[k]
  <2>1. k = 1 /\ k - 1 = 0
    OBVIOUS
  <2> QED
    BY <2>1, <1>1, <1>2
<1> QED
  BY <1>1, <1>2, <1>3 DEF Chain

\* A chain after another.
LEMMA ChainJoin ==
    ASSUME NEW X, NEW R \in Seq(X), NEW S \in Seq(X), NEW a, NEW b, NEW c,
           Chain(R, a, b), Chain(S, b, c)
    PROVE  Chain(R \o S, a, c)
<1>1. PICK v \in [0 .. Len(R) -> View] :
          /\ v[0] = a /\ v[Len(R)] = b
          /\ \A k \in 1 .. Len(R) : <<v[k - 1], v[k]>> \in R[k]
  BY DEF Chain
<1>2. PICK w \in [0 .. Len(S) -> View] :
          /\ w[0] = b /\ w[Len(S)] = c
          /\ \A k \in 1 .. Len(S) : <<w[k - 1], w[k]>> \in S[k]
  BY DEF Chain
<1> DEFINE n == Len(R)
           m == Len(S)
           u == [k \in 0 .. n + m |-> IF k =< n THEN v[k] ELSE w[k - n]]
<1>3. n \in Nat /\ m \in Nat /\ Len(R \o S) = n + m
  OBVIOUS
<1>4. u \in [0 .. n + m -> View]
  <2>1. ASSUME NEW k \in 0 .. n + m
        PROVE  (IF k =< n THEN v[k] ELSE w[k - n]) \in View
    <3>1. CASE k =< n
      <4>1. k \in 0 .. n
        BY <3>1, <1>3
      <4> QED
        BY <3>1, <4>1, <1>1
    <3>2. CASE ~ (k =< n)
      <4>1. k - n \in 0 .. m
        BY <3>2, <1>3
      <4> QED
        BY <3>2, <4>1, <1>2
    <3> QED
      BY <3>1, <3>2
  <2> QED
    BY <2>1
<1>5. u[0] = a
  BY <1>1, <1>3
<1>6. u[n + m] = c
  <2>1. CASE m = 0
    BY <2>1, <1>1, <1>2, <1>3
  <2>2. CASE m # 0
    BY <2>2, <1>2, <1>3
  <2> QED
    BY <2>1, <2>2
<1>7. ASSUME NEW k \in 1 .. n + m
      PROVE  <<u[k - 1], u[k]>> \in (R \o S)[k]
  <2>1. CASE k =< n
    <3>1. k \in 1 .. n /\ u[k - 1] = v[k - 1] /\ u[k] = v[k] /\ (R \o S)[k] = R[k]
      BY <2>1, <1>3
    <3> QED
      BY <3>1, <1>1
  <2>2. CASE k = n + 1
    <3>1. 1 \in 1 .. m /\ k - 1 = n /\ k - n = 1
      BY <2>2, <1>3
    <3>2. u[k - 1] = w[0] /\ u[k] = w[1] /\ (R \o S)[k] = S[1]
      BY <2>2, <3>1, <1>1, <1>2, <1>3
    <3> QED
      BY <3>1, <3>2, <1>2
  <2>3. CASE k > n + 1
    <3>1. k - n \in 1 .. m /\ (k - 1) - n = (k - n) - 1 /\ ~ (k - 1 =< n) /\ ~ (k =< n)
      BY <2>3, <1>3
    <3>2. u[k - 1] = w[(k - n) - 1] /\ u[k] = w[k - n] /\ (R \o S)[k] = S[k - n]
      BY <3>1, <1>3
    <3> QED
      BY <3>1, <3>2, <1>2
  <2> QED
    BY <2>1, <2>2, <2>3, <1>3
<1> HIDE DEF u
<1> QED
  BY <1>3, <1>4, <1>5, <1>6, <1>7 DEF Chain

\* The first step of a chain and the rest.
LEMMA ChainHead ==
    ASSUME NEW X, NEW R \in Seq(X), R # <<>>, NEW a, NEW c, Chain(R, a, c)
    PROVE  \E b \in View : <<a, b>> \in Head(R) /\ Chain(Tail(R), b, c)
<1>1. PICK v \in [0 .. Len(R) -> View] :
          /\ v[0] = a /\ v[Len(R)] = c
          /\ \A k \in 1 .. Len(R) : <<v[k - 1], v[k]>> \in R[k]
  BY DEF Chain
<1> DEFINE n == Len(R)
           u == [k \in 0 .. n - 1 |-> v[k + 1]]
<1>2. n \in Nat /\ n >= 1 /\ Len(Tail(R)) = n - 1 /\ Head(R) = R[1]
  OBVIOUS
<1>3. <<a, v[1]>> \in Head(R) /\ v[1] \in View
  <2>1. 1 \in 1 .. n /\ 1 - 1 = 0 /\ 1 \in 0 .. n
    BY <1>2
  <2> QED
    BY <2>1, <1>1, <1>2
<1>4. u \in [0 .. n - 1 -> View] /\ u[0] = v[1] /\ u[n - 1] = c
  BY <1>1, <1>2
<1>5. ASSUME NEW k \in 1 .. n - 1
      PROVE  <<u[k - 1], u[k]>> \in Tail(R)[k]
  <2>1. k + 1 \in 1 .. n /\ (k + 1) - 1 = k /\ (k - 1) + 1 = k
    BY <1>2
  <2>2. u[k - 1] = v[k] /\ u[k] = v[k + 1] /\ Tail(R)[k] = R[k + 1]
    BY <2>1, <1>2
  <2> QED
    BY <2>1, <2>2, <1>1
<1> HIDE DEF u
<1>6. Chain(Tail(R), v[1], c)
  BY <1>2, <1>4, <1>5 DEF Chain
<1> QED
  BY <1>3, <1>6

\* What every step of a chain keeps is true all along it.
LEMMA ChainKeeps ==
    ASSUME NEW X, NEW R \in Seq(X), NEW K, NEW v \in [0 .. Len(R) -> View], v[0] \in K,
           \A k \in 1 .. Len(R) : v[k - 1] \in K => v[k] \in K
    PROVE  \A k \in 0 .. Len(R) : v[k] \in K
<1> DEFINE I == {k \in 0 .. Len(R) : v[k] \notin K}
<1>1. SUFFICES ASSUME I # {}
               PROVE  FALSE
  OBVIOUS
<1>2. I \in SUBSET Nat
  OBVIOUS
<1>3. PICK m \in I : \A n \in I : m =< n
  BY <1>1, <1>2, LeastOf
<1>4. m \in Nat /\ m # 0 /\ m =< Len(R) /\ v[m] \notin K
  OBVIOUS
<1>5. m \in 1 .. Len(R) /\ m - 1 \in 0 .. Len(R) /\ ~ (m =< m - 1)
  BY <1>4
<1>6. v[m - 1] \in K
  BY <1>3, <1>5
<1> QED
  BY <1>4, <1>5, <1>6

-----------------------------------------------------------------------------
(* What an event, a message and several messages lead to.                  *)

\* The sequences of steps are sequences.
LEMMA TurnsType ==
    ASSUME NEW q \in Seq(Events)
    PROVE  /\ Turns(q) \in Seq(SUBSET (View \X View)) /\ Len(Turns(q)) = Len(q)
           /\ \A k \in 1 .. Len(q) : Turns(q)[k] = TurnOf(q[k])
<1>1. \A k \in 1 .. Len(q) : TurnOf(q[k]) \in SUBSET (View \X View)
  BY DEF TurnOf
<1>2. Len(q) \in Nat
  OBVIOUS
<1> HIDE DEF TurnOf
<1> QED
  BY <1>1, <1>2 DEF Turns

\* And those of the steps of the messages.
LEMMA LeadsType ==
    ASSUME NEW ms \in Seq(Seq(Events))
    PROVE  /\ LeadsOf(ms) \in Seq(SUBSET (View \X View)) /\ Len(LeadsOf(ms)) = Len(ms)
           /\ \A k \in 1 .. Len(ms) : LeadsOf(ms)[k] = LeadOf(ms[k])
<1>1. \A k \in 1 .. Len(ms) : LeadOf(ms[k]) \in SUBSET (View \X View)
  BY DEF LeadOf
<1>2. Len(ms) \in Nat
  OBVIOUS
<1> QED
  BY <1>1, <1>2 DEF LeadsOf

\* Two sequences of the same elements are the same.
LEMMA SeqSame ==
    ASSUME NEW X, NEW s \in Seq(X), NEW t \in Seq(X), Len(s) = Len(t),
           \A k \in 1 .. Len(s) : s[k] = t[k]
    PROVE  s = t
OBVIOUS

\* A sequence of nothing is empty, and so is what follows the only element.
LEMMA SeqNone ==
    ASSUME NEW X, NEW s \in Seq(X)
    PROVE  (Len(s) = 0 => s = <<>>) /\ (Len(s) = 1 => Tail(s) = <<>>)
<1>1. Len(s) = 0 => s = <<>>
  OBVIOUS
<1>2. ASSUME Len(s) = 1
      PROVE  Tail(s) = <<>>
  <2>1. s # <<>> /\ Tail(s) \in Seq(X) /\ Len(Tail(s)) = 0
    BY <1>2
  <2>2. \A t \in Seq(X) : Len(t) = 0 => t = <<>>
    OBVIOUS
  <2> QED
    BY <2>1, <2>2
<1> QED
  BY <1>1, <1>2

\* Nothing comes of nothing only.
LEMMA SeqsNone ==
    ASSUME NEW X, NEW s \in Seq(X), NEW t \in Seq(X), s \o t = <<>>
    PROVE  s = <<>> /\ t = <<>>
<1>1. Len(s) \in Nat /\ Len(t) \in Nat /\ Len(s \o t) = Len(s) + Len(t)
  OBVIOUS
<1>2. Len(s \o t) = 0
  OBVIOUS
<1>3. \A i, j \in Nat : i + j = 0 => i = 0 /\ j = 0
  OBVIOUS
<1>4. Len(s) = 0 /\ Len(t) = 0
  BY <1>1, <1>2, <1>3
<1> QED
  BY <1>4, SeqNone

\* One sequence after another is a sequence.
LEMMA SeqJoin ==
    ASSUME NEW X, NEW s \in Seq(X), NEW t \in Seq(X)
    PROVE  s \o t \in Seq(X) /\ Len(s \o t) = Len(s) + Len(t)
OBVIOUS

\* The first of them is the first one's, and the rest follows the rest of it.
LEMMA HeadJoin ==
    ASSUME NEW X, NEW s \in Seq(X), s # <<>>, NEW t \in Seq(X), NEW u, u = s \o t
    PROVE  Len(s) >= 1 /\ Head(u) = s[1] /\ Tail(u) = Tail(s) \o t
<1> DEFINE l == Tail(s \o t)
           r == Tail(s) \o t
<1>1. Len(s) \in Nat /\ Len(t) \in Nat /\ Len(s) >= 1 /\ Len(s \o t) = Len(s) + Len(t)
      /\ (s \o t)[1] = s[1] /\ s \o t # <<>>
  OBVIOUS
<1>2. l \in Seq(X) /\ r \in Seq(X) /\ Len(l) = Len(s) + Len(t) - 1 /\ Len(r) = Len(l)
  BY <1>1
<1>3. ASSUME NEW k \in 1 .. Len(s) + Len(t) - 1
      PROVE  l[k] = r[k]
  <2>1. l[k] = (s \o t)[k + 1]
    BY <1>1
  <2>2. CASE k =< Len(s) - 1
    BY <1>1, <2>1, <2>2
  <2>3. CASE k > Len(s) - 1
    BY <1>1, <2>1, <2>3
  <2> QED
    BY <1>1, <2>2, <2>3
<1> HIDE DEF l, r
<1>4. l = r
  BY <1>2, <1>3, SeqSame
<1> QED
  BY <1>1, <1>4 DEF l, r

\* And it has the elements of both.
LEMMA SeqParts ==
    ASSUME NEW X, NEW s \in Seq(X), NEW t \in Seq(X)
    PROVE  /\ Len(s) \in Nat /\ Len(t) \in Nat
           /\ s \o t \in Seq(X) /\ Len(s \o t) = Len(s) + Len(t)
           /\ \A k \in 1 .. Len(s) : (s \o t)[k] = s[k]
           /\ \A k \in 1 .. Len(t) : (s \o t)[Len(s) + k] = t[k]
OBVIOUS

\* Two elements are one after the other.
LEMMA PairJoin ==
    ASSUME NEW X, NEW x \in X, NEW y \in X
    PROVE  <<x, y>> = <<x>> \o <<y>>
<1>1. <<x, y>> \in Seq(X) /\ <<x>> \in Seq(X) /\ <<y>> \in Seq(X)
  OBVIOUS
<1>2. <<x>> \o <<y>> \in Seq(X) /\ Len(<<x>> \o <<y>>) = 2
  BY <1>1
<1>3. (<<x>> \o <<y>>)[1] = x /\ (<<x>> \o <<y>>)[2] = y
  BY <1>1
<1>4. Len(<<x, y>>) = 2 /\ <<x, y>>[1] = x /\ <<x, y>>[2] = y /\ \A k \in 1 .. 2 : k = 1 \/ k = 2
  OBVIOUS
<1>5. \A k \in 1 .. 2 : <<x, y>>[k] = (<<x>> \o <<y>>)[k]
  BY <1>3, <1>4
<1> QED
  BY <1>1, <1>2, <1>4, <1>5, SeqSame

\* The steps of one sequence after another.
LEMMA TurnsJoin ==
    ASSUME NEW q \in Seq(Events), NEW r \in Seq(Events)
    PROVE  Turns(q \o r) = Turns(q) \o Turns(r)
<1> DEFINE X == SUBSET (View \X View)
<1>1. q \o r \in Seq(Events) /\ Len(q \o r) = Len(q) + Len(r) /\ Len(q) \in Nat /\ Len(r) \in Nat
  OBVIOUS
<1>2. Turns(q) \in Seq(X) /\ Turns(r) \in Seq(X) /\ Turns(q \o r) \in Seq(X)
  BY <1>1, TurnsType
<1>3. Len(Turns(q)) = Len(q) /\ Len(Turns(r)) = Len(r) /\ Len(Turns(q \o r)) = Len(q) + Len(r)
  BY <1>1, TurnsType
<1>4. ASSUME NEW k \in 1 .. Len(q) + Len(r)
      PROVE  Turns(q \o r)[k] = (Turns(q) \o Turns(r))[k]
  <2>1. Turns(q \o r)[k] = TurnOf((q \o r)[k])
    BY <1>1, TurnsType
  <2>2. CASE k =< Len(q)
    <3>1. k \in 1 .. Len(q) /\ (q \o r)[k] = q[k]
      BY <2>2, <1>1
    <3>2. (Turns(q) \o Turns(r))[k] = Turns(q)[k]
      BY <3>1, <1>2, <1>3
    <3> QED
      BY <2>1, <3>1, <3>2, TurnsType
  <2>3. CASE ~ (k =< Len(q))
    <3>1. k - Len(q) \in 1 .. Len(r) /\ (q \o r)[k] = r[k - Len(q)]
      BY <2>3, <1>1
    <3>2. (Turns(q) \o Turns(r))[k] = Turns(r)[k - Len(q)]
      BY <2>3, <3>1, <1>1, <1>2, <1>3
    <3> QED
      BY <2>1, <3>1, <3>2, TurnsType
  <2> QED
    BY <2>2, <2>3
<1> HIDE DEF X
<1>5. Turns(q) \o Turns(r) \in Seq(X) /\ Len(Turns(q) \o Turns(r)) = Len(q) + Len(r)
  BY <1>2, <1>3, SeqJoin
<1> QED
  BY <1>2, <1>3, <1>4, <1>5, SeqSame

\* The steps of the messages of one sequence after another.
LEMMA LeadsJoin ==
    ASSUME NEW q \in Seq(Seq(Events)), NEW r \in Seq(Seq(Events))
    PROVE  LeadsOf(q \o r) = LeadsOf(q) \o LeadsOf(r)
<1> DEFINE X == SUBSET (View \X View)
<1>1. q \o r \in Seq(Seq(Events)) /\ Len(q \o r) = Len(q) + Len(r) /\ Len(q) \in Nat /\ Len(r) \in Nat
  OBVIOUS
<1>2. LeadsOf(q) \in Seq(X) /\ LeadsOf(r) \in Seq(X) /\ LeadsOf(q \o r) \in Seq(X)
  BY <1>1, LeadsType
<1>3. Len(LeadsOf(q)) = Len(q) /\ Len(LeadsOf(r)) = Len(r) /\ Len(LeadsOf(q \o r)) = Len(q) + Len(r)
  BY <1>1, LeadsType
<1>4. ASSUME NEW k \in 1 .. Len(q) + Len(r)
      PROVE  LeadsOf(q \o r)[k] = (LeadsOf(q) \o LeadsOf(r))[k]
  <2>1. LeadsOf(q \o r)[k] = LeadOf((q \o r)[k])
    BY <1>1, LeadsType
  <2>2. CASE k =< Len(q)
    <3>1. k \in 1 .. Len(q) /\ (q \o r)[k] = q[k]
      BY <2>2, <1>1
    <3>2. (LeadsOf(q) \o LeadsOf(r))[k] = LeadsOf(q)[k]
      BY <3>1, <1>2, <1>3
    <3> QED
      BY <2>1, <3>1, <3>2, LeadsType
  <2>3. CASE ~ (k =< Len(q))
    <3>1. k - Len(q) \in 1 .. Len(r) /\ (q \o r)[k] = r[k - Len(q)]
      BY <2>3, <1>1
    <3>2. (LeadsOf(q) \o LeadsOf(r))[k] = LeadsOf(r)[k - Len(q)]
      BY <2>3, <3>1, <1>1, <1>2, <1>3
    <3> QED
      BY <2>1, <3>1, <3>2, LeadsType
  <2> QED
    BY <2>2, <2>3
<1> HIDE DEF X
<1>5. LeadsOf(q) \o LeadsOf(r) \in Seq(X) /\ Len(LeadsOf(q) \o LeadsOf(r)) = Len(q) + Len(r)
  BY <1>2, <1>3, SeqJoin
<1> QED
  BY <1>2, <1>3, <1>4, <1>5, SeqSame

\* What no event leads to, what one does, and several after others.
LEMMA LeadsFacts ==
    /\ \A a \in View : Leads(<<>>, a, a) /\ \A b : Leads(<<>>, a, b) => b = a
    /\ \A ev \in Events : \A a, b \in View : Turn(ev, a, b) => Leads(<<ev>>, a, b)
    /\ \A q, r \in Seq(Events) : \A a, b, c : Leads(q, a, b) /\ Leads(r, b, c) => Leads(q \o r, a, c)
    /\ \A q \in Seq(Events) : \A a, b : Leads(q, a, b) => a \in View /\ b \in View
<1>1. Turns(<<>>) = <<>>
  BY DEF Turns
<1>2. ASSUME NEW ev \in Events, NEW a \in View, NEW b \in View, Turn(ev, a, b)
      PROVE  Leads(<<ev>>, a, b)
  <2>1. <<a, b>> \in TurnOf(ev)
    BY <1>2 DEF TurnOf
  <2>2. Turns(<<ev>>) = <<TurnOf(ev)>>
    <3>1. <<ev>> \in Seq(Events) /\ Len(<<ev>>) = 1 /\ <<ev>>[1] = ev /\ 1 \in 1 .. 1
      OBVIOUS
    <3>2. Turns(<<ev>>) \in Seq(SUBSET (View \X View)) /\ Len(Turns(<<ev>>)) = 1
          /\ Turns(<<ev>>)[1] = TurnOf(<<ev>>[1])
      BY <3>1, TurnsType
    <3> QED
      BY <3>1, <3>2
  <2> QED
    BY <2>1, <2>2, ChainOne DEF Leads
<1>3. ASSUME NEW q \in Seq(Events), NEW r \in Seq(Events), NEW a, NEW b, NEW c,
             Leads(q, a, b), Leads(r, b, c)
      PROVE  Leads(q \o r, a, c)
  <2>1. Turns(q) \in Seq(SUBSET (View \X View)) /\ Turns(r) \in Seq(SUBSET (View \X View))
    BY TurnsType
  <2>2. Chain(Turns(q), a, b) /\ Chain(Turns(r), b, c)
    BY <1>3 DEF Leads
  <2>3. Chain(Turns(q) \o Turns(r), a, c)
    BY <2>1, <2>2, ChainJoin
  <2> QED
    BY <2>3, TurnsJoin DEF Leads
<1>4. ASSUME NEW q \in Seq(Events), NEW a, NEW b, Leads(q, a, b)
      PROVE  a \in View /\ b \in View
  <2>1. Turns(q) \in Seq(SUBSET (View \X View))
    BY TurnsType
  <2> QED
    BY <1>4, <2>1, ChainEnds DEF Leads
<1> QED
  BY <1>1, <1>2, <1>3, <1>4, ChainNone DEF Leads

\* The same of messages.
LEMMA LeadsAllFacts ==
    /\ \A a \in View : LeadsAll(<<>>, a, a) /\ \A b : LeadsAll(<<>>, a, b) => b = a
    /\ \A m \in Seq(Events) : \A a, b : Leads(m, a, b) => LeadsAll(<<m>>, a, b)
    /\ \A q, r \in Seq(Seq(Events)) : \A a, b, c :
          LeadsAll(q, a, b) /\ LeadsAll(r, b, c) => LeadsAll(q \o r, a, c)
    /\ \A q \in Seq(Seq(Events)) : \A a, b : LeadsAll(q, a, b) => a \in View /\ b \in View
<1>1. LeadsOf(<<>>) = <<>>
  BY DEF LeadsOf
<1>2. ASSUME NEW m \in Seq(Events), NEW a, NEW b, Leads(m, a, b)
      PROVE  LeadsAll(<<m>>, a, b)
  <2>1. a \in View /\ b \in View
    BY <1>2, LeadsFacts
  <2>2. <<a, b>> \in LeadOf(m)
    BY <1>2, <2>1 DEF LeadOf
  <2>3. LeadsOf(<<m>>) = <<LeadOf(m)>>
    <3>1. <<m>> \in Seq(Seq(Events)) /\ Len(<<m>>) = 1 /\ <<m>>[1] = m /\ 1 \in 1 .. 1
      OBVIOUS
    <3>2. LeadsOf(<<m>>) \in Seq(SUBSET (View \X View)) /\ Len(LeadsOf(<<m>>)) = 1
          /\ LeadsOf(<<m>>)[1] = LeadOf(<<m>>[1])
      BY <3>1, LeadsType
    <3> QED
      BY <3>1, <3>2
  <2> QED
    BY <2>1, <2>2, <2>3, ChainOne DEF LeadsAll
<1>3. ASSUME NEW q \in Seq(Seq(Events)), NEW r \in Seq(Seq(Events)), NEW a, NEW b, NEW c,
             LeadsAll(q, a, b), LeadsAll(r, b, c)
      PROVE  LeadsAll(q \o r, a, c)
  <2>1. LeadsOf(q) \in Seq(SUBSET (View \X View)) /\ LeadsOf(r) \in Seq(SUBSET (View \X View))
    BY LeadsType
  <2>2. Chain(LeadsOf(q), a, b) /\ Chain(LeadsOf(r), b, c)
    BY <1>3 DEF LeadsAll
  <2>3. Chain(LeadsOf(q) \o LeadsOf(r), a, c)
    BY <2>1, <2>2, ChainJoin
  <2> QED
    BY <2>3, LeadsJoin DEF LeadsAll
<1>4. ASSUME NEW q \in Seq(Seq(Events)), NEW a, NEW b, LeadsAll(q, a, b)
      PROVE  a \in View /\ b \in View
  <2>1. LeadsOf(q) \in Seq(SUBSET (View \X View))
    BY LeadsType
  <2> QED
    BY <1>4, <2>1, ChainEnds DEF LeadsAll
<1> QED
  BY <1>1, <1>2, <1>3, <1>4, ChainNone DEF LeadsAll

\* The first event is true, and what follows leads on from what it makes.
LEMMA LeadsHead ==
    ASSUME NEW q \in Seq(Events), q # <<>>, NEW a, NEW c, Leads(q, a, c)
    PROVE  \E b \in View : Turn(Head(q), a, b) /\ Leads(Tail(q), b, c)
<1>1. Turns(q) \in Seq(SUBSET (View \X View)) /\ Len(Turns(q)) = Len(q) /\ Len(q) \in Nat \ {0}
  BY TurnsType
<1>2. Turns(q) # <<>> /\ Head(Turns(q)) = TurnOf(Head(q))
  <2>1. 1 \in 1 .. Len(q) /\ Head(q) = q[1]
    BY <1>1
  <2> QED
    BY <1>1, <2>1, TurnsType
<1>3. Turns(Tail(q)) = Tail(Turns(q))
  <2>1. Tail(q) \in Seq(Events) /\ Len(Tail(q)) = Len(q) - 1
    OBVIOUS
  <2>2. /\ Turns(Tail(q)) \in Seq(SUBSET (View \X View)) /\ Len(Turns(Tail(q))) = Len(q) - 1
        /\ \A k \in 1 .. Len(q) - 1 : Turns(Tail(q))[k] = TurnOf(Tail(q)[k])
    BY <2>1, TurnsType
  <2>3. Tail(Turns(q)) \in Seq(SUBSET (View \X View)) /\ Len(Tail(Turns(q))) = Len(q) - 1
    BY <1>1, <1>2
  <2>4. ASSUME NEW k \in 1 .. Len(q) - 1
        PROVE  Turns(Tail(q))[k] = Tail(Turns(q))[k]
    <3>1. k + 1 \in 1 .. Len(q) /\ Tail(q)[k] = q[k + 1]
      BY <1>1
    <3>2. Tail(Turns(q))[k] = Turns(q)[k + 1]
      BY <1>1
    <3> QED
      BY <2>2, <3>1, <3>2, TurnsType
  <2> QED
    BY <2>2, <2>3, <2>4, SeqSame
<1>4. PICK b \in View : <<a, b>> \in Head(Turns(q)) /\ Chain(Tail(Turns(q)), b, c)
  BY <1>1, <1>2, ChainHead DEF Leads
<1> QED
  BY <1>2, <1>3, <1>4 DEF Leads, TurnOf

\* And the first message.
LEMMA LeadsAllHead ==
    ASSUME NEW q \in Seq(Seq(Events)), q # <<>>, NEW a, NEW c, LeadsAll(q, a, c)
    PROVE  \E b \in View : Leads(Head(q), a, b) /\ LeadsAll(Tail(q), b, c)
<1>1. LeadsOf(q) \in Seq(SUBSET (View \X View)) /\ Len(LeadsOf(q)) = Len(q) /\ Len(q) \in Nat \ {0}
  BY LeadsType
<1>2. LeadsOf(q) # <<>> /\ Head(LeadsOf(q)) = LeadOf(Head(q))
  <2>1. 1 \in 1 .. Len(q) /\ Head(q) = q[1]
    BY <1>1
  <2> QED
    BY <1>1, <2>1, LeadsType
<1>3. LeadsOf(Tail(q)) = Tail(LeadsOf(q))
  <2>1. Tail(q) \in Seq(Seq(Events)) /\ Len(Tail(q)) = Len(q) - 1
    OBVIOUS
  <2>2. /\ LeadsOf(Tail(q)) \in Seq(SUBSET (View \X View)) /\ Len(LeadsOf(Tail(q))) = Len(q) - 1
        /\ \A k \in 1 .. Len(q) - 1 : LeadsOf(Tail(q))[k] = LeadOf(Tail(q)[k])
    BY <2>1, LeadsType
  <2>3. Tail(LeadsOf(q)) \in Seq(SUBSET (View \X View)) /\ Len(Tail(LeadsOf(q))) = Len(q) - 1
    BY <1>1, <1>2
  <2>4. ASSUME NEW k \in 1 .. Len(q) - 1
        PROVE  LeadsOf(Tail(q))[k] = Tail(LeadsOf(q))[k]
    <3>1. k + 1 \in 1 .. Len(q) /\ Tail(q)[k] = q[k + 1]
      BY <1>1
    <3>2. Tail(LeadsOf(q))[k] = LeadsOf(q)[k + 1]
      BY <1>1
    <3> QED
      BY <2>2, <3>1, <3>2, LeadsType
  <2> QED
    BY <2>2, <2>3, <2>4, SeqSame
<1>4. PICK b \in View : <<a, b>> \in Head(LeadsOf(q)) /\ Chain(Tail(LeadsOf(q)), b, c)
  BY <1>1, <1>2, ChainHead DEF LeadsAll
<1> QED
  BY <1>2, <1>3, <1>4 DEF LeadsAll, LeadOf

\* A message for each event leads where the events lead.
LEMMA LeadsOneByOne ==
    ASSUME NEW q \in Seq(Events), NEW a, NEW b, Leads(q, a, b)
    PROVE  OneByOne(q) \in Seq(Seq(Events)) /\ LeadsAll(OneByOne(q), a, b)
<1>1. Turns(q) \in Seq(SUBSET (View \X View)) /\ Len(Turns(q)) = Len(q) /\ Len(q) \in Nat
      /\ DOMAIN q = 1 .. Len(q)
  BY TurnsType
<1>2. OneByOne(q) \in Seq(Seq(Events)) /\ Len(OneByOne(q)) = Len(q)
      /\ \A k \in 1 .. Len(q) : OneByOne(q)[k] = <<q[k]>>
  BY <1>1 DEF OneByOne
<1>3. Len(LeadsOf(OneByOne(q))) = Len(q)
      /\ \A k \in 1 .. Len(q) : LeadsOf(OneByOne(q))[k] = LeadOf(<<q[k]>>)
  BY <1>2, LeadsType
<1>4. PICK v \in [0 .. Len(q) -> View] :
          /\ v[0] = a /\ v[Len(q)] = b
          /\ \A k \in 1 .. Len(q) : <<v[k - 1], v[k]>> \in Turns(q)[k]
  BY <1>1 DEF Leads, Chain
<1>5. ASSUME NEW k \in 1 .. Len(q)
      PROVE  <<v[k - 1], v[k]>> \in LeadsOf(OneByOne(q))[k]
  <2>1. q[k] \in Events
    OBVIOUS
  <2>2. k \in 0 .. Len(q) /\ k - 1 \in 0 .. Len(q)
    BY <1>1
  <2>3. v[k - 1] \in View /\ v[k] \in View /\ Turn(q[k], v[k - 1], v[k])
    <3>1. v[k - 1] \in View /\ v[k] \in View
      BY <2>2
    <3>2. <<v[k - 1], v[k]>> \in TurnOf(q[k])
      BY <1>4, TurnsType
    <3> QED
      BY <3>1, <3>2 DEF TurnOf
  <2>4. Leads(<<q[k]>>, v[k - 1], v[k])
    BY <2>1, <2>3, LeadsFacts
  <2> QED
    BY <1>3, <2>3, <2>4 DEF LeadOf
<1> QED
  BY <1>2, <1>3, <1>4, <1>5 DEF LeadsAll, Chain


-----------------------------------------------------------------------------
(* Events that undo what there is.                                         *)

\* The events are told apart by what is in them.
LEMMA EventSame ==
    ASSUME NEW t, NEW p, NEW e, NEW u, NEW r, NEW f
    PROVE  /\ Event(t, p, e) = Event(u, r, f) => t = u /\ p = r /\ e = f
           /\ Event(t, p, e).type = t /\ Event(t, p, e).parent = p /\ Event(t, p, e).id = e
BY DEF Event

\* Everybody is rejected before he, or who holds him, is destroyed, and nothing
\* is said twice.
Undoes(q, a) ==
    /\ \A j, k \in 1 .. Len(q) : q[j] = q[k] => j = k
    /\ \A k \in 1 .. Len(q) :
        \/ \E x \in ID : q[k] = Event("reject", a.hand[x], x) /\ a.hand[x] # NoID
        \/ \E x \in ID :
            /\ q[k] = Event("destroy", NoID, x)
            /\ a.hand[x] # NoID => \E j \in 1 .. k - 1 : q[j] = Event("reject", a.hand[x], x)
            /\ \A c \in ID : a.hand[c] = x => \E j \in 1 .. k - 1 : q[j] = Event("reject", x, c)

Rejected(q, a, k) == {x \in ID : \E j \in 1 .. k : q[j] = Event("reject", a.hand[x], x)}
Destroyed(q, k) == {x \in ID : \E j \in 1 .. k : q[j] = Event("destroy", NoID, x)}

\* What is left of a after the first k of them.
After(q, a, k) ==
    [alive |-> a.alive \ Destroyed(q, k),
     hand |-> [x \in ID |-> IF x \in Rejected(q, a, k) THEN NoID ELSE a.hand[x]]]

\* What is left is a view.
LEMMA AfterView ==
    ASSUME NEW a \in View, NEW q \in Seq(Events), Undoes(q, a), NEW k \in 0 .. Len(q)
    PROVE  After(q, a, k) \in View
<1> DEFINE b == After(q, a, k)
<1>1. a.alive \in SUBSET ID /\ a.hand \in [ID -> ID \union {NoID}]
      /\ \A e \in ID : a.hand[e] # NoID => e \in a.alive /\ a.hand[e] \in a.alive
  BY DEF View
<1>2. b \in [alive : SUBSET ID, hand : [ID -> ID \union {NoID}]]
  BY <1>1 DEF After
<1>3. ASSUME NEW e \in ID, b.hand[e] # NoID
      PROVE  e \in b.alive /\ b.hand[e] \in b.alive
  <2>1. e \notin Rejected(q, a, k) /\ b.hand[e] = a.hand[e] /\ a.hand[e] \in ID
    BY <1>1, <1>3 DEF After
  <2>2. e \in a.alive /\ a.hand[e] \in a.alive
    BY <1>1, <1>3, <2>1
  <2>3. Len(q) \in Nat
    OBVIOUS
  <2>4. ASSUME NEW j \in 1 .. k, NEW x \in ID, q[j] = Event("destroy", NoID, x), x \in {e, a.hand[e]}
        PROVE  FALSE
    <3>1. j \in 1 .. Len(q)
      BY <2>3
    <3>2. \A y \in ID : q[j] # Event("reject", a.hand[y], y)
      BY <2>4, EventSame
    <3>3. PICK y \in ID :
            /\ q[j] = Event("destroy", NoID, y)
            /\ a.hand[y] # NoID => \E i \in 1 .. j - 1 : q[i] = Event("reject", a.hand[y], y)
            /\ \A c \in ID : a.hand[c] = y => \E i \in 1 .. j - 1 : q[i] = Event("reject", y, c)
      BY <3>1, <3>2 DEF Undoes
    <3>4. y = x
      BY <2>4, <3>3, EventSame
    <3>5. \E i \in 1 .. j - 1 : q[i] = Event("reject", a.hand[e], e)
      BY <1>3, <2>1, <2>4, <3>3, <3>4
    <3>6. \E i \in 1 .. k : q[i] = Event("reject", a.hand[e], e)
      BY <3>5, <2>3
    <3> QED
      BY <3>6, <2>1 DEF Rejected
  <2>5. e \notin Destroyed(q, k) /\ a.hand[e] \notin Destroyed(q, k)
    BY <2>4 DEF Destroyed
  <2> QED
    BY <2>1, <2>2, <2>5 DEF After
<1> QED
  BY <1>2, <1>3 DEF View

\* One more of them.
LEMMA AfterOne ==
    ASSUME NEW a \in View, NEW q \in Seq(Events), Undoes(q, a), NEW k \in 1 .. Len(q)
    PROVE  Turn(q[k], After(q, a, k - 1), After(q, a, k))
<1> DEFINE b == After(q, a, k - 1)
           c == After(q, a, k)
<1>1. a.alive \in SUBSET ID /\ a.hand \in [ID -> ID \union {NoID}]
  BY DEF View
<1>2. Len(q) \in Nat /\ k \in Nat /\ 1 =< k /\ k =< Len(q)
  OBVIOUS
<1>3. \A j \in 1 .. k : j = k \/ j \in 1 .. k - 1
  BY <1>2
<1>4. 1 .. k - 1 \subseteq 1 .. k /\ k \in 1 .. k
  BY <1>2
<1>5. b.alive = a.alive \ Destroyed(q, k - 1) /\ c.alive = a.alive \ Destroyed(q, k)
      /\ b = [alive |-> b.alive, hand |-> b.hand] /\ c = [alive |-> c.alive, hand |-> c.hand]
      /\ b.hand \in [ID -> ID \union {NoID}] /\ c.hand \in [ID -> ID \union {NoID}]
      /\ (\A x \in ID : b.hand[x] = IF x \in Rejected(q, a, k - 1) THEN NoID ELSE a.hand[x])
      /\ (\A x \in ID : c.hand[x] = IF x \in Rejected(q, a, k) THEN NoID ELSE a.hand[x])
  BY <1>1 DEF After
<1>6. ASSUME NEW x \in ID, q[k] = Event("reject", a.hand[x], x), a.hand[x] # NoID
      PROVE  Turn(q[k], b, c)
  <2>1. x \notin Rejected(q, a, k - 1)
    <3>1. SUFFICES ASSUME NEW j \in 1 .. k - 1, q[j] = Event("reject", a.hand[x], x)
                   PROVE  FALSE
      BY DEF Rejected
    <3>2. j \in 1 .. Len(q) /\ j # k
      BY <1>2
    <3> QED
      BY <1>6, <3>1, <3>2 DEF Undoes
  <2>2. Destroyed(q, k) = Destroyed(q, k - 1)
    <3>1. \A y \in ID : q[k] # Event("destroy", NoID, y)
      BY <1>6, EventSame
    <3> QED
      BY <3>1, <1>3, <1>4 DEF Destroyed
  <2>3. Rejected(q, a, k) = Rejected(q, a, k - 1) \union {x}
    <3>1. \A y \in ID : q[k] = Event("reject", a.hand[y], y) <=> y = x
      BY <1>6, EventSame
    <3> QED
      BY <3>1, <1>3, <1>4 DEF Rejected
  <2>4. c.hand = [b.hand EXCEPT ![x] = NoID]
    BY <1>5, <2>3
  <2>5. c = Handed(b, NoID, x)
    BY <1>5, <2>2, <2>4 DEF Handed
  <2>6. q[k].type = "reject" /\ q[k].id = x /\ q[k].parent = a.hand[x]
    BY <1>6, EventSame
  <2>7. b.hand[x] = a.hand[x]
    BY <1>5, <2>1
  <2> HIDE DEF b, c
  <2> QED
    BY <1>6, <2>5, <2>6, <2>7 DEF Turn
<1>7. ASSUME NEW x \in ID, q[k] = Event("destroy", NoID, x),
             a.hand[x] # NoID => \E j \in 1 .. k - 1 : q[j] = Event("reject", a.hand[x], x),
             \A y \in ID : a.hand[y] = x => \E j \in 1 .. k - 1 : q[j] = Event("reject", x, y)
      PROVE  Turn(q[k], b, c)
  <2>0. q[k] = Event("destroy", NoID, x)
    BY <1>7
  <2>1. \A y \in ID : a.hand[y] = x => y \in Rejected(q, a, k - 1)
    BY <1>7 DEF Rejected
  <2>2. a.hand[x] # NoID => x \in Rejected(q, a, k - 1)
    BY <1>7 DEF Rejected
  <2>3. b.hand[x] = NoID
    BY <1>5, <2>2
  <2>4. \A y \in ID : b.hand[y] # x
    BY <1>5, <2>1, ObjectAssumption
  <2>5. Rejected(q, a, k) = Rejected(q, a, k - 1)
    <3>1. \A y \in ID : q[k] # Event("reject", a.hand[y], y)
      BY <2>0, EventSame
    <3> QED
      BY <3>1, <1>3, <1>4 DEF Rejected
  <2>6. Destroyed(q, k) = Destroyed(q, k - 1) \union {x}
    <3>1. \A y \in ID : q[k] = Event("destroy", NoID, y) <=> y = x
      BY <2>0, EventSame
    <3> QED
      BY <3>1, <1>3, <1>4 DEF Destroyed
  <2>7. c.hand = b.hand
    BY <1>5, <2>5
  <2>8. c.alive = b.alive \ {x}
    BY <1>5, <2>6
  <2>9. q[k].type = "destroy" /\ q[k].id = x
    BY <1>7, EventSame
  <2>10. c = [alive |-> b.alive \ {x}, hand |-> b.hand]
    BY <1>5, <2>7, <2>8
  <2> HIDE DEF b, c
  <2> QED
    BY <2>3, <2>4, <2>9, <2>10 DEF Turn
<1>8. CASE \E x \in ID : q[k] = Event("reject", a.hand[x], x) /\ a.hand[x] # NoID
  BY <1>6, <1>8
<1>9. CASE \E x \in ID :
            /\ q[k] = Event("destroy", NoID, x)
            /\ a.hand[x] # NoID => \E j \in 1 .. k - 1 : q[j] = Event("reject", a.hand[x], x)
            /\ \A y \in ID : a.hand[y] = x => \E j \in 1 .. k - 1 : q[j] = Event("reject", x, y)
  <2>1. PICK x \in ID :
            /\ q[k] = Event("destroy", NoID, x)
            /\ a.hand[x] # NoID => \E j \in 1 .. k - 1 : q[j] = Event("reject", a.hand[x], x)
            /\ \A y \in ID : a.hand[y] = x => \E j \in 1 .. k - 1 : q[j] = Event("reject", x, y)
    BY <1>9
  <2> QED
    BY <2>1, <1>7
<1> QED
  BY <1>8, <1>9 DEF Undoes

\* They lead to what is left.
LEMMA Undoing ==
    ASSUME NEW a \in View, NEW q \in Seq(Events), Undoes(q, a)
    PROVE  Leads(q, a, After(q, a, Len(q)))
<1> DEFINE v == [k \in 0 .. Len(q) |-> After(q, a, k)]
<1>1. Len(q) \in Nat /\ Len(Turns(q)) = Len(q)
  BY TurnsType
<1>2. v \in [0 .. Len(q) -> View] /\ \A k \in 0 .. Len(q) : v[k] = After(q, a, k)
  BY AfterView
<1>3. After(q, a, 0) = a
  <2>1. Destroyed(q, 0) = {} /\ Rejected(q, a, 0) = {}
    BY DEF Destroyed, Rejected
  <2>2. a \in [alive : SUBSET ID, hand : [ID -> ID \union {NoID}]]
    BY DEF View
  <2> QED
    BY <2>1, <2>2 DEF After
<1>4. v[0] = a /\ v[Len(q)] = After(q, a, Len(q))
  BY <1>1, <1>2, <1>3
<1>5. ASSUME NEW k \in 1 .. Len(q)
      PROVE  <<v[k - 1], v[k]>> \in Turns(q)[k]
  <2>1. k \in 0 .. Len(q) /\ k - 1 \in 0 .. Len(q)
    BY <1>1
  <2>2. v[k - 1] \in View /\ v[k] \in View /\ Turn(q[k], v[k - 1], v[k])
    BY <1>2, <2>1, AfterOne
  <2> QED
    BY <2>2, TurnsType DEF TurnOf
<1> HIDE DEF v
<1> QED
  BY <1>1, <1>2, <1>4, <1>5 DEF Leads, Chain


-----------------------------------------------------------------------------
(* What the server says of a destruction.                                  *)

Served == [alive |-> entities \ departed, hand |-> ID_Parent]

\* Who is in somebody's hands is an entity, in the hands of one that may hold
\* him; only spectators stay behind.
ServerOK ==
    /\ entities \subseteq ID /\ ID_Parent \in [ID -> ID \union {NoID}]
    /\ departed \subseteq entities \intersect Spectator
    /\ \A e \in ID : ID_Parent[e] # NoID =>
          e \in entities /\ ID_Parent[e] \in entities /\ <<ID_Parent[e], e>> \in Holds

\* What is in hands, or has something in hands, does not watch.
LEMMA ServedView == ServerOK => Served \in View
<1>1. ASSUME ServerOK, NEW e \in ID, ID_Parent[e] # NoID
      PROVE  e \in entities \ departed /\ ID_Parent[e] \in entities \ departed
  <2>1. <<ID_Parent[e], e>> \in (ID \ Spectator) \X (ID \ Spectator)
    BY <1>1, ReplicaAssumption DEF ServerOK
  <2>2. e \notin Spectator /\ ID_Parent[e] \notin Spectator
    BY <2>1
  <2> QED
    BY <1>1, <2>2 DEF ServerOK
<1> QED
  BY <1>1 DEF ServerOK, Served, View

\* The same after a step.
LEMMA ServedViewNext == ServerOK' => Served' \in View
<1>1. ASSUME ServerOK', NEW e \in ID, ID_Parent'[e] # NoID
      PROVE  e \in entities' \ departed' /\ ID_Parent'[e] \in entities' \ departed'
  <2>1. <<ID_Parent'[e], e>> \in (ID \ Spectator) \X (ID \ Spectator)
    BY <1>1, ReplicaAssumption DEF ServerOK
  <2>2. e \notin Spectator /\ ID_Parent'[e] \notin Spectator
    BY <2>1
  <2> QED
    BY <1>1, <2>2 DEF ServerOK
<1> QED
  BY <1>1 DEF ServerOK, Served, View

\* A listing of a finite set is a sequence that has each of its elements once.
LEMMA Listing ==
    ASSUME NEW S, IsFiniteSet(S), NEW f \in SetToSeqs(S)
    PROVE  /\ f \in Seq(S)
           /\ \A j, k \in 1 .. Len(f) : f[j] = f[k] => j = k
           /\ \A x \in S : \E k \in 1 .. Len(f) : f[k] = x
<1> DEFINE n == Cardinality(S)
<1>1. n \in Nat
  BY FS_CardinalityType
<1>2. f \in [1 .. n -> S] /\ \A j, k \in 1 .. n : j # k => f[j] # f[k]
  BY DEF SetToSeqs
<1>3. f \in Injection(1 .. n, S)
  BY <1>2 DEF Injection, IsInjective
<1>4. IsFiniteSet(1 .. n) /\ Cardinality(1 .. n) = n
  <2>1. IsFiniteSet(1 .. n) /\ Cardinality(1 .. n) = IF 1 > n THEN 0 ELSE n - 1 + 1
    BY <1>1, FS_Interval
  <2> QED
    BY <1>1, <2>1
<1>5. f \in Surjection(1 .. n, S)
  BY <1>3, <1>4, FS_Injection
<1>6. f \in Seq(S) /\ Len(f) = n
  BY <1>1, <1>2
<1> HIDE DEF n
<1> QED
  BY <1>2, <1>5, <1>6 DEF Surjection

\* The words are finitely many.
LEMMA WordsFinite ==
    ASSUME NEW S \in SUBSET ID
    PROVE  IsFiniteSet(Words(S))
<1> DEFINE T == {y \in S : ID_Parent[y] # NoID}
           D == {Event("destroy", NoID, x) : x \in S}
           R == {Event("reject", ID_Parent[x], x) : x \in T}
           f == [x \in S |-> Event("destroy", NoID, x)]
           g == [x \in T |-> Event("reject", ID_Parent[x], x)]
<1>1. IsFiniteSet(S) /\ IsFiniteSet(T)
  BY ReplicaAssumption, FS_Subset
<1>2. f \in Surjection(S, D)
  BY DEF Surjection
<1>3. g \in Surjection(T, R)
  BY DEF Surjection
<1>4. IsFiniteSet(D) /\ IsFiniteSet(R)
  BY <1>1, <1>2, <1>3, FS_Surjection
<1>5. Words(S) = D \union R
  BY DEF Words
<1> HIDE DEF D, R
<1> QED
  BY <1>4, <1>5, FS_Union

\* And are events.
LEMMA WordsType ==
    ASSUME NEW S \in SUBSET ID, ServerOK
    PROVE  /\ Words(S) \subseteq Events
           /\ \A w \in Words(S) : w.type \in {"reject", "destroy"}
<1>1. \A x \in S : Event("destroy", NoID, x) \in Events
  BY DEF Event, Events, EventTypes
<1>2. \A x \in S : Event("reject", ID_Parent[x], x) \in Events
  BY DEF Event, Events, EventTypes, ServerOK
<1> QED
  BY <1>1, <1>2, EventSame DEF Words

\* What goes with an entity goes with all it has.
LEMMA SubtreeFacts ==
    ASSUME NEW e \in entities
    PROVE  /\ e \in Subtree(e) /\ Subtree(e) \subseteq entities
           /\ \A x \in Subtree(e) : Children(x) \subseteq Subtree(e)
<1>1. e \in Subtree(e) /\ Subtree(e) \subseteq entities
  BY DEF Subtree
<1>2. ASSUME NEW x \in Subtree(e), NEW c \in Children(x)
      PROVE  c \in Subtree(e)
  <2>1. c \in entities
    BY <1>2 DEF Children
  <2>2. ASSUME NEW S \in SUBSET entities, e \in S, \A y \in S : Children(y) \subseteq S
        PROVE  c \in S
    <3>1. x \in S
      BY <2>2 DEF Subtree
    <3> QED
      BY <2>2, <3>1
  <2> QED
    BY <2>1, <2>2 DEF Subtree
<1> QED
  BY <1>1, <1>2

Without(S) ==
    [alive |-> Served.alive \ S, hand |-> [x \in ID |-> IF x \in S THEN NoID ELSE ID_Parent[x]]]

\* What is said of a set that holds all its members carry leads to what is left.
LEMMA ToldLeads ==
    ASSUME ServerOK, NEW S \in SUBSET entities, \A x \in S : Children(x) \subseteq S,
           NEW said \in SetToSeqs(Words(S)),
           \A x \in S : \E first, last \in DOMAIN said :
              /\ Block(said, first, last, x)
              /\ ID_Parent[x] # NoID =>
                    \E j \in first .. last - 1 : said[j] = Event("reject", ID_Parent[x], x)
    PROVE  said \in Seq(Events) /\ Leads(said, Served, Without(S))
<1> DEFINE n == Len(said)
<1>1. S \subseteq ID /\ Words(S) \subseteq Events /\ IsFiniteSet(Words(S))
  BY WordsType, WordsFinite DEF ServerOK
<1>2. /\ said \in Seq(Words(S))
      /\ \A j, k \in 1 .. n : said[j] = said[k] => j = k
      /\ \A w \in Words(S) : \E k \in 1 .. n : said[k] = w
  BY <1>1, Listing
<1>3. said \in Seq(Events) /\ n \in Nat /\ DOMAIN said = 1 .. n
  BY <1>1, <1>2
<1>4. \A k \in 1 .. n : said[k] \in Words(S)
  BY <1>2
<1>5. Served.hand = ID_Parent
  BY DEF Served
<1>6. ASSUME NEW k \in 1 .. n, NEW x \in S, said[k] = Event("destroy", NoID, x)
      PROVE  /\ ID_Parent[x] # NoID => \E j \in 1 .. k - 1 : said[j] = Event("reject", ID_Parent[x], x)
             /\ \A c \in ID : ID_Parent[c] = x => \E j \in 1 .. k - 1 : said[j] = Event("reject", x, c)
  <2>1. PICK first \in 1 .. n, last \in 1 .. n :
            /\ Block(said, first, last, x)
            /\ ID_Parent[x] # NoID =>
                  \E j \in first .. last - 1 : said[j] = Event("reject", ID_Parent[x], x)
    BY <1>3
  <2>2. last = k
    BY <1>2, <1>6, <2>1 DEF Block
  <2>3. \A j \in first .. last - 1 : j \in 1 .. k - 1
    BY <1>3, <2>2
  <2>4. ASSUME NEW c \in ID, ID_Parent[c] = x
        PROVE  \E j \in 1 .. k - 1 : said[j] = Event("reject", x, c)
    <3>1. x \in ID /\ x # NoID
      BY <1>1, ObjectAssumption
    <3>2. c \in Children(x) /\ c \in S
      BY <2>4, <3>1 DEF ServerOK, Children
    <3>3. c \in Subtree(x)
      BY <3>2, SubtreeFacts
    <3>4. Event("reject", x, c) \in Words(S)
      BY <2>4, <3>1, <3>2 DEF Words
    <3>5. PICK j \in 1 .. n : said[j] = Event("reject", x, c)
      BY <1>2, <3>4
    <3>6. said[j].id = c /\ j # last
      BY <1>6, <2>2, <3>5, EventSame
    <3>7. j \in first .. last
      BY <1>3, <2>1, <3>3, <3>6 DEF Block
    <3>8. j \in 1 .. k - 1
      BY <1>3, <2>2, <3>6, <3>7
    <3> QED
      BY <3>5, <3>8
  <2> QED
    BY <2>1, <2>3, <2>4
<1>7. Undoes(said, Served)
  <2>1. ASSUME NEW k \in 1 .. n
        PROVE  \/ \E x \in ID : said[k] = Event("reject", ID_Parent[x], x) /\ ID_Parent[x] # NoID
               \/ \E x \in S : said[k] = Event("destroy", NoID, x)
    BY <1>1, <1>4 DEF Words
  <2>2. ASSUME NEW k \in 1 .. n, NEW x \in S, said[k] = Event("destroy", NoID, x)
        PROVE  \E y \in ID :
            /\ said[k] = Event("destroy", NoID, y)
            /\ ID_Parent[y] # NoID => \E j \in 1 .. k - 1 : said[j] = Event("reject", ID_Parent[y], y)
            /\ \A c \in ID : ID_Parent[c] = y => \E j \in 1 .. k - 1 : said[j] = Event("reject", y, c)
    BY <1>1, <1>6, <2>2
  <2>3. \A k \in 1 .. n :
          \/ \E x \in ID : said[k] = Event("reject", ID_Parent[x], x) /\ ID_Parent[x] # NoID
          \/ \E y \in ID :
              /\ said[k] = Event("destroy", NoID, y)
              /\ ID_Parent[y] # NoID => \E j \in 1 .. k - 1 : said[j] = Event("reject", ID_Parent[y], y)
              /\ \A c \in ID : ID_Parent[c] = y => \E j \in 1 .. k - 1 : said[j] = Event("reject", y, c)
    BY <2>1, <2>2, Zenon
  <2> QED
    BY <1>2, <1>5, <2>3 DEF Undoes
<1>8. Served \in View
  BY ServedView
<1>9. Leads(said, Served, After(said, Served, n))
  BY <1>3, <1>7, <1>8, Undoing
<1>10. After(said, Served, n) = Without(S)
  <2>1. \A x \in S : Event("destroy", NoID, x) \in Words(S)
    BY DEF Words
  <2>2. Destroyed(said, n) \subseteq S
    <3>1. ASSUME NEW x \in ID, NEW k \in 1 .. n, said[k] = Event("destroy", NoID, x)
          PROVE  x \in S
      <4>1. Event("destroy", NoID, x) \in Words(S)
        BY <1>4, <3>1
      <4> QED
        BY <4>1, EventSame DEF Words
    <3> QED
      BY <3>1 DEF Destroyed
  <2>3. Destroyed(said, n) = S
    BY <1>1, <1>2, <2>1, <2>2 DEF Destroyed
  <2>4. \A x \in S : ID_Parent[x] # NoID => Event("reject", ID_Parent[x], x) \in Words(S)
    BY DEF Words
  <2>5. \A x \in S : ID_Parent[x] # NoID => x \in Rejected(said, Served, n)
    BY <1>1, <1>2, <1>5, <2>4 DEF Rejected
  <2>6. ASSUME NEW x \in ID, NEW k \in 1 .. n, said[k] = Event("reject", ID_Parent[x], x)
        PROVE  x \in S
    <3>1. Event("reject", ID_Parent[x], x) \in Words(S)
      BY <1>4, <2>6
    <3> QED
      BY <3>1, EventSame DEF Words
  <2>7. Rejected(said, Served, n) \subseteq S
    BY <1>5, <2>6 DEF Rejected
  <2>8. \A x \in ID : (IF x \in Rejected(said, Served, n) THEN NoID ELSE Served.hand[x])
                      = (IF x \in S THEN NoID ELSE ID_Parent[x])
    BY <1>5, <2>5, <2>7
  <2> QED
    BY <2>3, <2>8 DEF After, Without
<1> QED
  BY <1>3, <1>9, <1>10

\* Each listing of the words that Process_event_destroy or Perform_destroy may
\* come to is one.
LEMMA DestroyTells ==
    ASSUME ServerOK, NEW S \in SUBSET entities, \A x \in S : Children(x) \subseteq S,
           NEW said \in DestroyTold(S) \union ClearTold(S)
    PROVE  said \in Seq(Events) /\ Leads(said, Served, Without(S))
<1>1. said \in SetToSeqs(Words(S))
  BY DEF DestroyTold, ClearTold
<1>2. S \subseteq ID /\ IsFiniteSet(Words(S))
  BY WordsFinite DEF ServerOK
<1>3. said \in Seq(Words(S))
  BY <1>1, <1>2, Listing
<1>4. Len(said) \in Nat /\ DOMAIN said = 1 .. Len(said)
  BY <1>3
<1>5. ASSUME NEW x \in S
      PROVE  \E first, last \in DOMAIN said :
                /\ Block(said, first, last, x)
                /\ ID_Parent[x] # NoID =>
                      \E j \in first .. last - 1 : said[j] = Event("reject", ID_Parent[x], x)
  <2>1. CASE said \in DestroyTold(S)
    <3>1. PICK first \in DOMAIN said, last \in DOMAIN said :
            /\ Block(said, first, last, x)
            /\ ID_Parent[x] # NoID => last > first /\ said[last - 1] = Event("reject", ID_Parent[x], x)
      BY <2>1 DEF DestroyTold
    <3>2. last > first => last - 1 \in first .. last - 1
      BY <1>4
    <3> QED
      BY <3>1, <3>2
  <2>2. CASE said \in ClearTold(S)
    <3>1. PICK first \in DOMAIN said, last \in DOMAIN said :
            /\ Block(said, first, last, x)
            /\ ID_Parent[x] # NoID => last > first /\ said[first] = Event("reject", ID_Parent[x], x)
      BY <2>2 DEF ClearTold
    <3>2. last > first => first \in first .. last - 1
      BY <1>4
    <3> QED
      BY <3>1, <3>2
  <2> QED
    BY <2>1, <2>2
<1> QED
  BY <1>1, <1>5, ToldLeads


-----------------------------------------------------------------------------
(* The invariant.                                                          *)

\* A message is about one thing, or only about hands and destructions.
Shape(m) ==
    /\ m \in Seq(Events) /\ m # <<>>
    /\ Len(m) = 1 \/ \A k \in 1 .. Len(m) : m[k].type \in {"take", "reject", "destroy"}

Says(m, t) == m \in 1 .. Len(toClient) /\ toClient[m][1].type = t

\* The entities are announced after the game's configuration, which comes once.
MessagesOK ==
    /\ \A m \in 1 .. Len(toClient) : Shape(toClient[m])
    /\ stage = "joining" => Objects = {}
    /\ stage = "playing" => m_bGameConfigStarted
    /\ ~ net_Accepted => /\ stage = "joining" /\ ~ m_bGameConfigStarted
                         /\ \A m : ~ Says(m, "config") /\ ~ Says(m, "finished")
    /\ ~ bConnected /\ stage # "stopped" => ~ net_Accepted /\ toClient = <<>>
    /\ \A m : Says(m, "config") =>
          stage = "joining" /\ ~ m_bGameConfigStarted /\ \A n : Says(n, "config") => n = m
    /\ \A m : Says(m, "finished") /\ stage = "joining" /\ ~ m_bGameConfigStarted =>
          \E n : Says(n, "config") /\ n < m

\* What is sent before the configuration is dropped, or finds no object.
Live(m) == \A n : Says(n, "config") => n < m

Announces(m, e) == Says(m, "spawn") /\ Live(m) /\ toClient[m][1].id = e

Brings(k, e) == k \in 1 .. Len(game_events) /\ game_events[k].type = "spawn" /\ game_events[k].id = e

\* What is still to be spawned is not there, and is spawned once.
FreshOK ==
    /\ \A m, e : Announces(m, e) =>
          /\ e \notin Objects
          /\ \A n : Announces(n, e) => n = m
          /\ \A k : ~ Brings(k, e)
    /\ \A k, e : Brings(k, e) => e \notin Objects /\ \A l : Brings(l, e) => l = k

\* A single player game has nobody who watches, the client has no clearing of its
\* own, and only what is there is taken.
SingleOK == single =>
    /\ departed = {} /\ stage \in {"joining", "playing", "stopping", "stopped"}
    /\ \A m \in 1 .. Len(toClient) : \A k \in 1 .. Len(toClient[m]) :
          toClient[m][k].type = "take" => toClient[m][k].id \in Objects
    /\ \A k \in 1 .. Len(game_events) : game_events[k].type = "take" => game_events[k].id \in Objects

\* Nobody dangles, and the two ends of a hold agree.
HandsOK ==
    /\ map_NETID = Objects /\ destroy_queue \subseteq Objects
    /\ \A p, e \in ID : e \in m_all[p] <=> Parent[e] = p
    /\ \A e \in ID : Parent[e] # NoID => e \in Objects /\ Parent[e] \in Objects
    /\ \A w \in Watcher : memory[w] \subseteq Objects
    /\ ~ single => refused = {}

\* The client's objects are those of a, but for what it was never told of: who
\* is in the hands of somebody it misses is in nobody's.
Stands(a) ==
    /\ \A e \in Objects : e \in destroy_queue <=> e \notin a.alive
    /\ \A e \in ID : Parent[e] = IF e \in Objects \ refused /\ a.hand[e] \in Objects THEN a.hand[e] ELSE NoID
    /\ \A e \in refused : e \in Objects /\ a.hand[e] \in Objects

Waiting == stage = "joining" /\ ~ m_bGameConfigStarted
Following == stage \in {"joining", "playing", "stopping"}

\* The events to be run, but for those of before the configuration, lead from
\* where the client stands, and the messages from there to the server.
FollowsFrom(a, b, J, q) ==
    /\ game_events = J \o q
    /\ \A k \in 1 .. Len(J) : J[k].type \in {"take", "reject", "destroy"}
    /\ J # <<>> => Objects = {}
    /\ Stands(a) /\ Leads(q, a, b)
    /\ Waiting => q = <<>>
    /\ Following => \E c \in View : LeadsAll(toClient, c, Served) /\ (Waiting \/ c = b)
    /\ stage \in {"joining", "playing"} /\ m_bGameConfigStarted => a.alive \subseteq Objects

Follows == \E a, b \in View : \E J, q \in Seq(Events) : FollowsFrom(a, b, J, q)

IInv ==
    /\ TypeOK /\ ServerOK /\ HandsOK /\ MessagesOK /\ FreshOK /\ SingleOK /\ FailsByRefusal
    /\ failed = {} => Follows

\* At first there is nobody and nothing is said.
LEMMA InitIInv == Init => IInv
<1> SUFFICES ASSUME Init
             PROVE  IInv
  OBVIOUS
<1>1. Objects = {} /\ Parent = [o \in ID |-> NoID] /\ refused = {} /\ destroy_queue = {}
      /\ ID_Parent = [e \in ID |-> NoID] /\ entities = {} /\ departed = {}
      /\ toClient = <<>> /\ game_events = <<>> /\ toServer = <<>> /\ failed = {}
  BY DEF Init, ObjectInit, Objects
<1>2. TypeOK
  <2>1. ObjectTypeOK
    BY DEF Init, ObjectInit, ObjectTypeOK
  <2>2. <<>> \in Seq(Seq(Events)) /\ <<>> \in Seq(Events)
    OBVIOUS
  <2>3. stage \in Stage /\ single \in BOOLEAN /\ bConnected \in BOOLEAN
        /\ net_Accepted \in BOOLEAN /\ m_bGameConfigStarted \in BOOLEAN
    BY DEF Init, Stage
  <2> QED
    BY <1>1, <2>1, <2>2, <2>3 DEF TypeOK
<1>3. ServerOK
  BY <1>1 DEF ServerOK
<1>4. HandsOK
  BY <1>1, ObjectAssumption DEF Init, ObjectInit, HandsOK
<1>5. MessagesOK /\ FreshOK /\ SingleOK
  BY <1>1 DEF Init, MessagesOK, FreshOK, SingleOK, Says, Announces, Brings
<1>6. FailsByRefusal
  BY <1>1 DEF FailsByRefusal
<1>7. Served \in View /\ Served = Nobody
  BY <1>1, <1>3, ServedView DEF Served, Nobody
<1>8. Stands(Nobody)
  BY <1>1, ObjectAssumption DEF Stands, Nobody
<1>9. Leads(<<>>, Nobody, Nobody) /\ LeadsAll(toClient, Nobody, Served)
  BY <1>1, <1>7, LeadsFacts, LeadsAllFacts
<1>10. <<>> = <<>> \o <<>> /\ <<>> \in Seq(Events)
  OBVIOUS
<1>11. FollowsFrom(Nobody, Nobody, <<>>, <<>>)
  <2>1. \A k \in 1 .. Len(<<>>) : FALSE
    OBVIOUS
  <2>2. Nobody.alive \subseteq Objects
    BY DEF Nobody
  <2>3. \E c \in View : LeadsAll(toClient, c, Served) /\ c = Nobody
    BY <1>7, <1>9
  <2> QED
    BY <1>1, <1>8, <1>9, <1>10, <2>1, <2>2, <2>3 DEF FollowsFrom
<1>12. Follows
  BY <1>7, <1>10, <1>11 DEF Follows
<1> QED
  BY <1>2, <1>3, <1>4, <1>5, <1>6, <1>12 DEF IInv

-----------------------------------------------------------------------------
(* What the server says.                                                   *)

\* Messages that are about hands, destructions or one new entity, that lead from
\* what the server was to what it is.
Telling(msgs) ==
    /\ msgs \in Seq(Seq(Events))
    /\ \A m \in 1 .. Len(msgs) : Shape(msgs[m]) /\ msgs[m][1].type \notin {"config", "finished"}
    /\ \A m \in 1 .. Len(msgs) : msgs[m][1].type = "spawn" => Len(msgs) = 1 /\ Unused(msgs[m][1].id)
    /\ single => \A m \in 1 .. Len(msgs) : \A k \in 1 .. Len(msgs[m]) :
          msgs[m][k].type = "take" => msgs[m][k].id \in Objects

\* The messages after more of them.
LEMMA SaysMore ==
    ASSUME TypeOK, MessagesOK, FreshOK, SingleOK, NEW msgs, Telling(msgs), Broadcast(msgs),
           Objects' = Objects, UNCHANGED <<single, game_events>>,
           single => departed' \subseteq departed /\ stage' \in {stage, "stopping"}
    PROVE  /\ toClient' \in Seq(Seq(Events)) /\ FreshOK' /\ SingleOK'
           /\ \A m \in 1 .. Len(toClient') : Shape(toClient'[m])
           /\ \A m : (Says(m, "config")' <=> Says(m, "config")) /\ (Says(m, "finished")' <=> Says(m, "finished"))
<1>1. CASE ~ bConnected
  <2>1. toClient' = toClient
    BY <1>1 DEF Broadcast
  <2>2. FreshOK' /\ SingleOK'
    BY <2>1 DEF FreshOK, SingleOK, Says, Live, Announces, Brings
  <2> QED
    BY <2>1, <2>2 DEF TypeOK, MessagesOK, Says
<1>2. CASE bConnected
  <2> DEFINE n == Len(toClient)
             l == Len(msgs)
  <2>1. toClient' = toClient \o msgs /\ toClient \in Seq(Seq(Events)) /\ msgs \in Seq(Seq(Events))
    BY <1>2 DEF Broadcast, TypeOK, Telling
  <2>2. /\ toClient' \in Seq(Seq(Events)) /\ n \in Nat /\ l \in Nat /\ Len(toClient') = n + l
        /\ \A m \in 1 .. n : toClient'[m] = toClient[m]
        /\ \A m \in 1 .. l : toClient'[n + m] = msgs[m]
    BY <2>1
  <2>3. \A m \in 1 .. n + l : m \in 1 .. n \/ (m - n \in 1 .. l /\ m = n + (m - n))
    BY <2>2
  <2>4. Objects' = Objects /\ single' = single /\ game_events' = game_events
    OBVIOUS
  <2>5. \A m, t : Says(m, t)' <=> Says(m, t) \/ (m - n \in 1 .. l /\ m \in 1 .. n + l /\ m \notin 1 .. n
                                                 /\ msgs[m - n][1].type = t)
    <3> SUFFICES ASSUME NEW m, NEW t
                 PROVE  Says(m, t)' <=> Says(m, t) \/ (m - n \in 1 .. l /\ m \in 1 .. n + l /\ m \notin 1 .. n
                                                       /\ msgs[m - n][1].type = t)
      OBVIOUS
    <3>1. Says(m, t)' <=> m \in 1 .. n + l /\ toClient'[m][1].type = t
      BY <2>2 DEF Says
    <3>2. CASE m \in 1 .. n
      BY <3>1, <3>2, <2>2 DEF Says
    <3>3. CASE m \in (1 .. n + l) \ (1 .. n)
      <4>1. m - n \in 1 .. l /\ toClient'[m] = msgs[m - n]
        BY <3>3, <2>2, <2>3
      <4> QED
        BY <3>1, <3>3, <4>1 DEF Says
    <3>4. CASE m \notin 1 .. n + l
      <4>1. m \notin 1 .. n
        BY <3>4, <2>2
      <4> QED
        BY <3>1, <3>4, <4>1 DEF Says
    <3> QED
      BY <3>2, <3>3, <3>4
  <2> HIDE DEF n, l
  <2>6. \A m : (Says(m, "config")' <=> Says(m, "config")) /\ (Says(m, "finished")' <=> Says(m, "finished"))
    BY <2>5 DEF Telling, l
  <2>7. \A m \in 1 .. n + l : Shape(toClient'[m])
    <3>1. \A m \in 1 .. n : Shape(toClient'[m])
      BY <2>2 DEF MessagesOK, n
    <3>2. \A m \in 1 .. l : Shape(toClient'[n + m])
      BY <2>2 DEF Telling, l
    <3> QED
      BY <2>3, <3>1, <3>2
  <2>9. SingleOK'
    <3>1. ASSUME single, NEW m \in 1 .. n + l, NEW k \in 1 .. Len(toClient'[m]), toClient'[m][k].type = "take"
          PROVE  toClient'[m][k].id \in Objects
      <4>1. CASE m \in 1 .. n
        BY <2>2, <3>1, <4>1 DEF SingleOK, n
      <4>2. CASE m - n \in 1 .. l /\ m = n + (m - n)
        <5>1. toClient'[m] = msgs[m - n]
          BY <2>2, <4>2
        <5> QED
          BY <3>1, <4>2, <5>1 DEF Telling, l
      <4> QED
        BY <2>3, <4>1, <4>2
    <3> QED
      BY <2>2, <2>4, <3>1 DEF SingleOK
  <2>10. \A m : Live(m)' <=> Live(m)
    BY <2>6 DEF Live
  <2>11. \A k, e : Brings(k, e)' <=> Brings(k, e)
    BY <2>4 DEF Brings
  <2>12. ASSUME NEW m, NEW e, Announces(m, e)'
         PROVE  \/ Announces(m, e)
                \/ /\ m = n + 1 /\ l = 1 /\ Unused(e)
    <3>1. CASE Says(m, "spawn")
      <4>1. toClient'[m] = toClient[m]
        BY <2>2, <3>1 DEF Says, n
      <4> QED
        BY <2>10, <2>12, <3>1, <4>1 DEF Announces
    <3>2. CASE m - n \in 1 .. l /\ m \in 1 .. n + l /\ m \notin 1 .. n /\ msgs[m - n][1].type = "spawn"
      <4>1. l = 1 /\ Unused(msgs[m - n][1].id)
        BY <3>2 DEF Telling, l
      <4>2. m = n + 1 /\ toClient'[m] = msgs[m - n]
        BY <2>2, <3>2, <4>1
      <4> QED
        BY <2>12, <4>1, <4>2 DEF Announces
    <3> QED
      BY <2>5, <2>12, <3>1, <3>2 DEF Announces
  <2>13. ASSUME NEW e, Unused(e)
         PROVE  e \notin Objects /\ (\A k : ~ Brings(k, e)) /\ \A m : ~ Announces(m, e)
    <3>1. ASSUME NEW m, Announces(m, e)
          PROVE  FALSE
      <4>1. m \in DOMAIN toClient /\ toClient[m] \in Seq(Events) /\ toClient[m] # <<>>
        BY <2>1, <3>1 DEF Announces, Says, MessagesOK, Shape
      <4>2. 1 \in DOMAIN toClient[m]
        BY <4>1
      <4> QED
        BY <2>13, <3>1, <4>1, <4>2 DEF Unused, Announces
    <3>2. game_events \in Seq(Events)
      BY DEF TypeOK
    <3>3. \A k : ~ Brings(k, e)
      BY <2>13, <3>2 DEF Unused, Brings
    <3> QED
      BY <2>13, <3>1, <3>3 DEF Unused
  <2>14. FreshOK'
    <3>1. ASSUME NEW m, NEW e, Announces(m, e)'
          PROVE  e \notin Objects /\ (\A k : ~ Brings(k, e))
      BY <2>12, <2>13, <3>1 DEF FreshOK
    <3>2. ASSUME NEW m, NEW e, Announces(m, e)', NEW j, Announces(j, e)'
          PROVE  j = m
      BY <2>12, <2>13, <3>2 DEF FreshOK
    <3> QED
      BY <2>4, <2>11, <3>1, <3>2 DEF FreshOK
  <2> QED
    BY <2>2, <2>6, <2>7, <2>9, <2>14
<1> QED
  BY <1>1, <1>2

\* The messages after the server has spoken.
LEMMA SaysMessages ==
    ASSUME TypeOK, MessagesOK, FreshOK, SingleOK, NEW msgs, Telling(msgs), Speaks(msgs),
           single => departed' \subseteq departed
    PROVE  toClient' \in Seq(Seq(Events)) /\ MessagesOK' /\ FreshOK' /\ SingleOK'
<1>1. UNCHANGED <<clientVars, single, bConnected, net_Accepted, game_events>> /\ Objects' = Objects
      /\ Broadcast(msgs)
  BY DEF Speaks, Objects, objectVars, listVars
<1>2. /\ toClient' \in Seq(Seq(Events)) /\ FreshOK' /\ SingleOK'
      /\ \A m \in 1 .. Len(toClient') : Shape(toClient'[m])
      /\ \A m : (Says(m, "config")' <=> Says(m, "config")) /\ (Says(m, "finished")' <=> Says(m, "finished"))
  <2>1. stage' = stage /\ single' = single /\ game_events' = game_events
    BY <1>1 DEF clientVars
  <2> QED
    BY <1>1, <2>1, SaysMore
<1>3. ~ bConnected => toClient' = toClient
  BY <1>1 DEF Broadcast
<1>4. MessagesOK'
  BY <1>1, <1>2, <1>3 DEF MessagesOK, clientVars
<1> QED
  BY <1>2, <1>4


\* The server has said what it did, to a client that gets it.
LEMMA SaysKeeps ==
    ASSUME IInv, NEW msgs, Telling(msgs), Speaks(msgs), ServerOK',
           bConnected => LeadsAll(msgs, Served, Served'), single => departed' \subseteq departed,
           toServer' \in Seq(Events), failed' \in {failed, failed \union {"server"}}
    PROVE  IInv'
<1>0. TypeOK /\ HandsOK /\ MessagesOK /\ FreshOK /\ SingleOK /\ FailsByRefusal /\ ServerOK /\ failed = {} /\ Follows
  BY DEF IInv, Speaks, ServerRuns
<1>1. toClient' \in Seq(Seq(Events)) /\ MessagesOK' /\ FreshOK' /\ SingleOK'
  BY <1>0, SaysMessages
<1>2. UNCHANGED <<objectVars, clientVars, single, bConnected, net_Accepted, game_events>>
  BY DEF Speaks
<1>3. ObjectTypeOK' /\ HandsOK' /\ Objects' = Objects
  <2>1. ObjectTypeOK'
    BY <1>0, <1>2 DEF TypeOK, ObjectTypeOK, objectVars, listVars, handVars
  <2> QED
    BY <1>0, <1>2, <2>1 DEF HandsOK, Objects, objectVars, listVars, handVars, clientVars
<1>4. TypeOK'
  <2>1. entities' \subseteq ID /\ departed' \subseteq ID /\ ID_Parent' \in [ID -> ID \union {NoID}]
    BY DEF ServerOK
  <2>2. failed' \subseteq {"client", "server"}
    BY <1>0
  <2>3. refused' \subseteq ID /\ game_events' \in Seq(Events) /\ stage' \in Stage
    BY <1>0, <1>2 DEF TypeOK, clientVars
  <2>4. single' = single /\ bConnected' = bConnected /\ net_Accepted' = net_Accepted
        /\ m_bGameConfigStarted' = m_bGameConfigStarted
    BY <1>2 DEF clientVars
  <2> QED
    BY <1>0, <1>1, <1>3, <2>1, <2>2, <2>3, <2>4 DEF TypeOK
<1>5. FailsByRefusal'
  BY <1>0 DEF FailsByRefusal
<1>6. ASSUME NEW a \in View, NEW b \in View, NEW J \in Seq(Events), NEW q \in Seq(Events),
             FollowsFrom(a, b, J, q)
      PROVE  FollowsFrom(a, b, J, q)'
  <2>1. Served' \in View
    BY <1>0, ServedViewNext
  <2>2. Following => \E c \in View : LeadsAll(toClient', c, Served') /\ (Waiting \/ c = b)
    <3>1. SUFFICES ASSUME Following
                   PROVE  \E c \in View : LeadsAll(toClient', c, Served') /\ (Waiting \/ c = b)
      OBVIOUS
    <3>2. PICK c \in View : LeadsAll(toClient, c, Served) /\ (Waiting \/ c = b)
      BY <1>6, <3>1 DEF FollowsFrom
    <3>3. CASE bConnected
      <4>1. toClient' = toClient \o msgs
        BY <3>3 DEF Speaks, Broadcast
      <4>2. toClient \in Seq(Seq(Events)) /\ msgs \in Seq(Seq(Events))
        BY <1>0 DEF TypeOK, Telling
      <4>3. LeadsAll(toClient', c, Served')
        BY <3>2, <3>3, <4>1, <4>2, LeadsAllFacts
      <4> QED
        BY <3>2, <4>3
    <3>4. CASE ~ bConnected
      <4>1. Waiting /\ toClient' = <<>>
        BY <1>0, <3>1, <3>4 DEF MessagesOK, Following, Waiting, Speaks, Broadcast
      <4>2. LeadsAll(toClient', Served', Served')
        BY <2>1, <4>1, LeadsAllFacts
      <4> QED
        BY <2>1, <4>1, <4>2
    <3> QED
      BY <3>3, <3>4
  <2>3. Stands(a)' <=> Stands(a)
    BY <1>2, <1>3 DEF Stands, objectVars, handVars, clientVars
  <2>4. (Waiting' <=> Waiting) /\ (Following' <=> Following)
    BY <1>2 DEF Waiting, Following, clientVars
  <2>5. Stands(a)' /\ (J # <<>> => Objects' = {}) /\ game_events' = J \o q
    BY <1>2, <1>3, <1>6, <2>3 DEF FollowsFrom
  <2> QED
    BY <1>2, <1>3, <1>6, <2>2, <2>4, <2>5 DEF FollowsFrom, clientVars
<1>7. Follows'
  BY <1>0, <1>6 DEF Follows
<1> QED
  BY <1>1, <1>3, <1>4, <1>5, <1>7 DEF IInv

\* One event in one message leads where it leads.
LEMMA SaysOne ==
    ASSUME NEW ev \in Events, ev.type \notin {"config", "finished"},
           ev.type = "spawn" => Unused(ev.id), single /\ ev.type = "take" => ev.id \in Objects,
           NEW a \in View, NEW b \in View, Turn(ev, a, b)
    PROVE  Telling(<< <<ev>> >>) /\ LeadsAll(<< <<ev>> >>, a, b)
<1>1. <<ev>> \in Seq(Events) /\ Len(<<ev>>) = 1 /\ <<ev>>[1] = ev /\ <<ev>> # <<>>
  OBVIOUS
<1>2. << <<ev>> >> \in Seq(Seq(Events)) /\ Len(<< <<ev>> >>) = 1 /\ << <<ev>> >>[1] = <<ev>>
  BY <1>1
<1>3. \A k \in 1 .. 1 : k = 1
  OBVIOUS
<1>4. Shape(<<ev>>)
  BY <1>1 DEF Shape
<1>5. Telling(<< <<ev>> >>)
  BY <1>1, <1>2, <1>3, <1>4 DEF Telling
<1>6. LeadsAll(<< <<ev>> >>, a, b)
  BY <1>1, LeadsFacts, LeadsAllFacts
<1> QED
  BY <1>5, <1>6

\* A new entity.
LEMMA SpawnKeeps ==
    ASSUME IInv, NEW id \in ID, NEW p \in ID \union {NoID}, Process_spawn(id, p)
    PROVE  IInv'
<1> DEFINE ev == Event("spawn", p, id)
<1>1. TypeOK /\ ServerOK /\ Served \in View
  BY ServedView DEF IInv
<1>2. /\ Unused(id) /\ (p # NoID => p \in entities /\ <<p, id>> \in Holds)
      /\ entities' = entities \union {id} /\ ID_Parent' = [ID_Parent EXCEPT ![id] = p]
      /\ departed' = departed /\ toServer' = toServer /\ failed' = failed
  BY DEF Process_spawn
<1>3. id \notin entities
  BY <1>2 DEF Unused
<1>4. ServerOK'
  <2>1. \A e \in ID : ID_Parent'[e] = IF e = id THEN p ELSE ID_Parent[e]
    BY <1>1, <1>2 DEF ServerOK
  <2>2. ID_Parent' \in [ID -> ID \union {NoID}]
    BY <1>1, <1>2 DEF ServerOK
  <2> QED
    BY <1>1, <1>2, <2>1, <2>2 DEF ServerOK
<1>5. Served' \in View
  BY <1>4, ServedViewNext
<1>6. ev \in Events /\ ev.type = "spawn" /\ ev.id = id /\ ev.parent = p
  BY EventSame DEF Event, Events, EventTypes
<1>7. p # NoID => p \in entities \ departed
  <2>1. p # NoID => <<p, id>> \in (ID \ Spectator) \X (ID \ Spectator)
    BY <1>2, ReplicaAssumption
  <2> QED
    BY <1>1, <1>2, <2>1 DEF ServerOK
<1>8. Turn(ev, Served, Served')
  <2>1. id \in ID \ Served.alive /\ p \in Served.alive \union {NoID}
    BY <1>3, <1>7 DEF Served
  <2>2. Served' = [alive |-> Served.alive \union {id}, hand |-> [Served.hand EXCEPT ![id] = p]]
    BY <1>1, <1>2, <1>3 DEF Served, ServerOK
  <2> HIDE DEF ev
  <2> QED
    BY <1>6, <2>1, <2>2 DEF Turn
<1>9. Telling(<< <<ev>> >>) /\ LeadsAll(<< <<ev>> >>, Served, Served')
  <2> HIDE DEF ev
  <2> QED
    BY <1>1, <1>2, <1>5, <1>6, <1>8, SaysOne
<1>10. Speaks(<< <<ev>> >>)
  BY DEF Process_spawn
<1>11. toServer' \in Seq(Events)
  BY <1>1, <1>2 DEF TypeOK
<1> HIDE DEF ev
<1> QED
  BY <1>2, <1>4, <1>9, <1>10, <1>11, SaysKeeps

\* A change of hands: from nobody's, to nobody's.
LEMMA HandedKeeps ==
    ASSUME ServerOK, NEW e \in entities, NEW p \in entities \union {NoID}, p # NoID => <<p, e>> \in Holds,
           entities' = entities, departed' = departed, ID_Parent' = [ID_Parent EXCEPT ![e] = p]
    PROVE  ServerOK' /\ Served \in View /\ Served' \in View /\ Served' = Handed(Served, p, e)
           /\ (p # NoID => {p, e} \subseteq Served.alive)
<1>1. \A x \in ID : ID_Parent'[x] = IF x = e THEN p ELSE ID_Parent[x]
  BY DEF ServerOK
<1>2. ID_Parent' \in [ID -> ID \union {NoID}]
  BY DEF ServerOK
<1>3. ServerOK'
  BY <1>1, <1>2 DEF ServerOK
<1>4. Served \in View /\ Served' \in View
  BY <1>3, ServedView, ServedViewNext
<1>5. Served' = Handed(Served, p, e)
  BY DEF Served, Handed
<1>6. p # NoID => {p, e} \subseteq Served.alive
  <2>1. p # NoID => <<p, e>> \in (ID \ Spectator) \X (ID \ Spectator)
    BY ReplicaAssumption
  <2> QED
    BY <2>1 DEF ServerOK, Served
<1> QED
  BY <1>3, <1>4, <1>5, <1>6


\* An entity is taken.
LEMMA OwnershipKeeps ==
    ASSUME IInv, NEW p \in ID, NEW e \in ID, Process_event_ownership(p, e)
    PROVE  IInv'
<1> DEFINE ev == Event("take", p, e)
<1>1. TypeOK /\ ServerOK /\ map_NETID = Objects
  BY DEF IInv, HandsOK
<1>2. /\ {p, e} \subseteq entities /\ <<p, e>> \in Holds /\ ID_Parent[e] = NoID
      /\ (single => {p, e} \subseteq map_NETID)
      /\ ID_Parent' = [ID_Parent EXCEPT ![e] = p]
      /\ entities' = entities /\ departed' = departed /\ toServer' = toServer /\ failed' = failed
  BY DEF Process_event_ownership
<1>3. p # NoID
  BY ObjectAssumption
<1>4. ServerOK' /\ Served \in View /\ Served' \in View /\ Served' = Handed(Served, p, e)
      /\ {p, e} \subseteq Served.alive
  BY <1>1, <1>2, <1>3, HandedKeeps
<1>5. ev \in Events /\ ev.type = "take" /\ ev.id = e /\ ev.parent = p
  BY EventSame DEF Event, Events, EventTypes
<1>6. Speaks(<< <<ev>> >>)
  BY DEF Process_event_ownership
<1>7. toServer' \in Seq(Events)
  BY <1>1, <1>2 DEF TypeOK
<1>8. single => e \in Objects
  BY <1>1, <1>2
<1> HIDE DEF ev
<1>9. Turn(ev, Served, Served')
  <2>1. Served.hand[e] = NoID
    BY <1>2 DEF Served
  <2> QED
    BY <1>4, <1>5, <2>1 DEF Turn
<1>10. Telling(<< <<ev>> >>) /\ LeadsAll(<< <<ev>> >>, Served, Served')
  BY <1>4, <1>5, <1>8, <1>9, SaysOne
<1> QED
  BY <1>2, <1>4, <1>6, <1>7, <1>10, SaysKeeps

\* An entity is rejected by who holds it.
LEMMA RejectTold ==
    ASSUME ServerOK, NEW p \in ID, NEW e \in entities, ID_Parent[e] = p,
           ID_Parent' = [ID_Parent EXCEPT ![e] = NoID], entities' = entities, departed' = departed
    PROVE  /\ ServerOK'
           /\ Telling(<< <<Event("reject", p, e)>> >>)
           /\ LeadsAll(<< <<Event("reject", p, e)>> >>, Served, Served')
<1> DEFINE ev == Event("reject", p, e)
<1>1. ServerOK' /\ Served \in View /\ Served' \in View /\ Served' = Handed(Served, NoID, e)
  BY HandedKeeps
<1>2. e \in ID
  BY DEF ServerOK
<1>3. ev \in Events /\ ev.type = "reject" /\ ev.id = e /\ ev.parent = p
  BY <1>2, EventSame DEF Event, Events, EventTypes
<1> HIDE DEF ev
<1>4. Turn(ev, Served, Served')
  <2>1. Served.hand[e] = p /\ p # NoID
    BY ObjectAssumption DEF Served
  <2> QED
    BY <1>1, <1>2, <1>3, <2>1 DEF Turn
<1>5. Telling(<< <<ev>> >>) /\ LeadsAll(<< <<ev>> >>, Served, Served')
  BY <1>1, <1>3, <1>4, SaysOne
<1> QED
  BY <1>1, <1>5 DEF ev

\* Another client asks for it.
LEMMA RejectKeeps ==
    ASSUME IInv, NEW p \in ID, NEW e \in ID, Process_event_reject(p, e)
    PROVE  IInv'
<1>1. TypeOK /\ ServerOK
  BY DEF IInv
<1>2. /\ e \in entities /\ ID_Parent[e] = p
      /\ ID_Parent' = [ID_Parent EXCEPT ![e] = NoID] /\ entities' = entities /\ departed' = departed
      /\ toServer' = toServer /\ failed' = failed
      /\ Speaks(<< <<Event("reject", p, e)>> >>)
  BY DEF Process_event_reject
<1>3. toServer' \in Seq(Events)
  BY <1>1, <1>2 DEF TypeOK
<1>4. /\ ServerOK' /\ Telling(<< <<Event("reject", p, e)>> >>)
      /\ LeadsAll(<< <<Event("reject", p, e)>> >>, Served, Served')
  BY <1>1, <1>2, RejectTold
<1> QED
  BY <1>2, <1>3, <1>4, SaysKeeps

\* This one does.
LEMMA RequestKeeps ==
    ASSUME IInv, OnRequest
    PROVE  IInv'
<1> DEFINE p == Head(toServer).parent
           e == Head(toServer).id
           late == ~ ({p, e} \subseteq entities) \/ ID_Parent[e] \notin {p, NoID}
           ends == ~ late /\ ID_Parent[e] = p
<1>1. TypeOK /\ ServerOK
  BY DEF IInv
<1>2. /\ failed' = IF late THEN failed \union {"server"} ELSE failed
      /\ ID_Parent' = IF ends THEN [ID_Parent EXCEPT ![e] = NoID] ELSE ID_Parent
      /\ Speaks(IF ends THEN << <<Event("reject", p, e)>> >> ELSE <<>>)
      /\ toServer # <<>> /\ toServer' = Tail(toServer)
      /\ entities' = entities /\ departed' = departed
  BY DEF OnRequest
<1>3. toServer' \in Seq(Events)
  BY <1>1, <1>2 DEF TypeOK
<1>4. failed' \in {failed, failed \union {"server"}}
  BY <1>2
<1>5. departed' \subseteq departed
  BY <1>2
<1>6. CASE ends
  <2>1. p \in ID /\ e \in entities /\ ID_Parent[e] = p
    BY <1>1, <1>6 DEF ServerOK
  <2>2. ID_Parent' = [ID_Parent EXCEPT ![e] = NoID] /\ Speaks(<< <<Event("reject", p, e)>> >>)
    BY <1>2, <1>6
  <2> HIDE DEF p, e, late, ends
  <2>3. /\ ServerOK' /\ Telling(<< <<Event("reject", p, e)>> >>)
        /\ LeadsAll(<< <<Event("reject", p, e)>> >>, Served, Served')
    BY <1>1, <1>2, <2>1, <2>2, RejectTold
  <2> QED
    BY <1>3, <1>4, <1>5, <2>2, <2>3, SaysKeeps
<1>7. CASE ~ ends
  <2>1. ID_Parent' = ID_Parent /\ Speaks(<<>>)
    BY <1>2, <1>7
  <2> HIDE DEF p, e, late, ends
  <2>2. ServerOK' /\ Served' = Served
    BY <1>1, <1>2, <2>1 DEF ServerOK, Served
  <2>3. Telling(<<>>)
    <3>1. <<>> \in Seq(Seq(Events)) /\ \A k \in 1 .. Len(<<>>) : FALSE
      OBVIOUS
    <3> QED
      BY <3>1 DEF Telling
  <2>4. LeadsAll(<<>>, Served, Served')
    BY <1>1, <2>2, ServedView, LeadsAllFacts
  <2> QED
    BY <1>3, <1>4, <1>5, <2>1, <2>2, <2>3, <2>4, SaysKeeps
<1> QED
  BY <1>6, <1>7

\* From one to another in one message.
LEMMA TransferKeeps ==
    ASSUME IInv, NEW e \in ID, NEW from \in ID, NEW to \in ID, Perform_transfer(e, from, to)
    PROVE  IInv'
<1> DEFINE out == Event("reject", from, e)
           into == Event("take", to, e)
           m == <<out, into>>
           mid == Handed(Served, NoID, e)
<1>1. TypeOK /\ ServerOK
  BY DEF IInv
<1>2. /\ ~ single /\ e \in entities /\ to \in entities /\ ID_Parent[e] = from /\ <<to, e>> \in Holds
      /\ ID_Parent' = [ID_Parent EXCEPT ![e] = to]
      /\ entities' = entities /\ departed' = departed /\ toServer' = toServer /\ failed' = failed
      /\ Speaks(<<m>>)
  BY DEF Perform_transfer
<1>3. from # NoID /\ to # NoID
  BY ObjectAssumption
<1>4. ServerOK' /\ Served \in View /\ Served' \in View /\ Served' = Handed(Served, to, e)
      /\ {to, e} \subseteq Served.alive
  BY <1>1, <1>2, <1>3, HandedKeeps
<1>5. /\ out \in Events /\ out.type = "reject" /\ out.id = e /\ out.parent = from
      /\ into \in Events /\ into.type = "take" /\ into.id = e /\ into.parent = to
  BY EventSame DEF Event, Events, EventTypes
<1>6. toServer' \in Seq(Events)
  BY <1>1, <1>2 DEF TypeOK
<1>7. mid \in View
  <2>1. Served.alive \subseteq ID /\ Served.hand \in [ID -> ID \union {NoID}]
        /\ \A x \in ID : Served.hand[x] # NoID => x \in Served.alive /\ Served.hand[x] \in Served.alive
    BY <1>4 DEF View
  <2> QED
    BY <2>1 DEF View, Handed
<1> HIDE DEF out, into
<1>8. Turn(out, Served, mid)
  <2>1. Served.hand[e] = from
    BY <1>2 DEF Served
  <2> QED
    BY <1>3, <1>5, <2>1 DEF Turn
<1>9. Turn(into, mid, Served')
  <2>1. mid.alive = Served.alive /\ mid.hand[e] = NoID /\ Served' = Handed(mid, to, e)
    BY <1>1, <1>4 DEF Handed, Served, ServerOK
  <2> HIDE DEF mid
  <2> QED
    BY <1>4, <1>5, <2>1 DEF Turn
<1> HIDE DEF mid
<1>10. m \in Seq(Events) /\ m = <<out>> \o <<into>> /\ <<out>> \in Seq(Events) /\ <<into>> \in Seq(Events)
  <2>1. out \in Events /\ into \in Events
    BY <1>5
  <2>2. <<out>> \in Seq(Events) /\ <<into>> \in Seq(Events) /\ m \in Seq(Events)
    BY <2>1
  <2>3. m = <<out>> \o <<into>>
    BY <2>1, PairJoin
  <2> QED
    BY <2>2, <2>3
<1>11. Leads(m, Served, Served')
  <2>1. Leads(<<out>>, Served, mid) /\ Leads(<<into>>, mid, Served')
    BY <1>4, <1>5, <1>7, <1>8, <1>9, LeadsFacts
  <2> HIDE DEF m
  <2> QED
    BY <1>10, <2>1, LeadsFacts
<1>12. Shape(m) /\ m[1].type = "reject"
  <2>1. Len(m) = 2 /\ m[1] = out /\ m[2] = into /\ m # <<>> /\ \A k \in 1 .. 2 : k = 1 \/ k = 2
    OBVIOUS
  <2>2. \A k \in 1 .. Len(m) : m[k].type \in {"take", "reject", "destroy"}
    BY <1>5, <2>1
  <2> QED
    BY <1>5, <1>10, <2>1, <2>2 DEF Shape
<1> HIDE DEF m
<1>13. Telling(<<m>>)
  <2>1. <<m>> \in Seq(Seq(Events)) /\ Len(<<m>>) = 1 /\ <<m>>[1] = m /\ \A k \in 1 .. 1 : k = 1
    BY <1>10
  <2> QED
    BY <1>2, <1>12, <2>1 DEF Telling
<1>14. LeadsAll(<<m>>, Served, Served')
  BY <1>10, <1>11, LeadsAllFacts
<1> QED
  BY <1>2, <1>4, <1>6, <1>13, <1>14, SaysKeeps


\* What an entity leaves when it goes with all it carries.
LEMMA RemovedLeaves ==
    ASSUME ServerOK, NEW e \in entities, Removed(e)
    PROVE  ServerOK' /\ Served' = Without(Subtree(e))
<1> DEFINE S == Subtree(e)
<1>1. S \subseteq entities /\ \A x \in S : Children(x) \subseteq S
  BY SubtreeFacts
<1>2. /\ entities' = entities \ S /\ departed' = departed \ S
      /\ ID_Parent' = [x \in ID |-> IF x \in S THEN NoID ELSE ID_Parent[x]]
  BY DEF Removed
<1> HIDE DEF S
<1>3. ASSUME NEW x \in ID, ID_Parent'[x] # NoID
      PROVE  x \in entities' /\ ID_Parent'[x] \in entities' /\ <<ID_Parent'[x], x>> \in Holds
  <2>1. x \notin S /\ ID_Parent'[x] = ID_Parent[x] /\ ID_Parent[x] # NoID
    BY <1>2, <1>3
  <2>2. x \in entities /\ ID_Parent[x] \in entities /\ <<ID_Parent[x], x>> \in Holds
    BY <2>1 DEF ServerOK
  <2>3. x \in Children(ID_Parent[x])
    BY <2>2 DEF Children
  <2>4. ID_Parent[x] \notin S
    BY <1>1, <2>1, <2>3
  <2> QED
    BY <1>2, <2>1, <2>2, <2>4
<1>4. ServerOK'
  <2>1. ID_Parent' \in [ID -> ID \union {NoID}]
    BY <1>2 DEF ServerOK
  <2> QED
    BY <1>2, <1>3, <2>1 DEF ServerOK
<1>5. Served' = Without(S)
  BY <1>2 DEF Served, Without
<1> QED
  BY <1>4, <1>5 DEF S

\* What is said of it is about hands and destructions.
LEMMA ToldShape ==
    ASSUME ServerOK, NEW e \in entities, NEW said \in SetToSeqs(Words(Subtree(e)))
    PROVE  /\ said \in Seq(Events) /\ said # <<>>
           /\ \A k \in 1 .. Len(said) : said[k] \in Events /\ said[k].type \in {"reject", "destroy"}
<1>1. e \in Subtree(e) /\ Subtree(e) \in SUBSET ID
  BY SubtreeFacts DEF ServerOK
<1>2. IsFiniteSet(Words(Subtree(e)))
  BY <1>1, WordsFinite
<1>3. /\ said \in Seq(Words(Subtree(e)))
      /\ \A x \in Words(Subtree(e)) : \E k \in 1 .. Len(said) : said[k] = x
  BY <1>2, Listing
<1>4. /\ Words(Subtree(e)) \subseteq Events
      /\ \A w \in Words(Subtree(e)) : w.type \in {"reject", "destroy"}
  BY <1>1, WordsType
<1>5. Event("destroy", NoID, e) \in Words(Subtree(e))
  BY <1>1 DEF Words
<1>6. said # <<>>
  BY <1>3, <1>5
<1>7. \A k \in 1 .. Len(said) : said[k] \in Words(Subtree(e))
  BY <1>3
<1>8. said \in Seq(Events)
  BY <1>3, <1>4
<1> QED
  BY <1>4, <1>6, <1>7, <1>8

\* In one pack.
LEMMA EventDestroyKeeps ==
    ASSUME IInv, NEW e \in ID, Process_event_destroy(e)
    PROVE  IInv'
<1>1. TypeOK /\ ServerOK
  BY DEF IInv
<1>2. e \in entities /\ Removed(e)
  BY DEF Process_event_destroy
<1>3. PICK said \in DestroyTold(Subtree(e)) : Speaks(<<said>>)
  BY DEF Process_event_destroy
<1>4. said \in SetToSeqs(Words(Subtree(e)))
  BY DEF DestroyTold
<1>5. ServerOK' /\ Served' = Without(Subtree(e))
  BY <1>1, <1>2, RemovedLeaves
<1>6. Leads(said, Served, Served')
  BY <1>1, <1>2, <1>5, SubtreeFacts, DestroyTells
<1>7. /\ said \in Seq(Events) /\ said # <<>>
      /\ \A k \in 1 .. Len(said) : said[k].type \in {"reject", "destroy"}
  BY <1>1, <1>2, <1>4, ToldShape
<1>8. Shape(said) /\ said[1].type \in {"reject", "destroy"}
  <2>1. 1 \in 1 .. Len(said)
    BY <1>7
  <2> QED
    BY <1>7, <2>1 DEF Shape
<1>9. Telling(<<said>>)
  <2>1. <<said>> \in Seq(Seq(Events)) /\ Len(<<said>>) = 1 /\ <<said>>[1] = said /\ \A k \in 1 .. 1 : k = 1
    BY <1>7
  <2> QED
    BY <1>7, <1>8, <2>1 DEF Telling
<1>10. LeadsAll(<<said>>, Served, Served')
  BY <1>6, <1>7, LeadsAllFacts
<1>11. toServer' \in Seq(Events) /\ failed' = failed /\ departed' \subseteq departed
  BY <1>1, <1>2 DEF Removed, TypeOK
<1> QED
  BY <1>3, <1>5, <1>9, <1>10, <1>11, SaysKeeps

\* Each in a message of its own.
LEMMA OneByOneTells ==
    ASSUME NEW said \in Seq(Events), \A k \in 1 .. Len(said) : said[k].type \in {"reject", "destroy"}
    PROVE  Telling(OneByOne(said))
<1>1. OneByOne(said) \in Seq(Seq(Events)) /\ Len(OneByOne(said)) = Len(said)
      /\ \A k \in 1 .. Len(said) : OneByOne(said)[k] = <<said[k]>>
  <2>1. DOMAIN said = 1 .. Len(said) /\ Len(said) \in Nat
    OBVIOUS
  <2> QED
    BY <2>1 DEF OneByOne
<1>2. ASSUME NEW k \in 1 .. Len(said)
      PROVE  /\ Shape(<<said[k]>>) /\ <<said[k]>>[1].type \in {"reject", "destroy"}
             /\ \A j \in 1 .. Len(<<said[k]>>) : <<said[k]>>[j].type \in {"reject", "destroy"}
  <2>1. said[k] \in Events
    OBVIOUS
  <2>2. <<said[k]>> \in Seq(Events) /\ Len(<<said[k]>>) = 1 /\ <<said[k]>>[1] = said[k]
        /\ <<said[k]>> # <<>> /\ \A j \in 1 .. 1 : j = 1
    BY <2>1
  <2> QED
    BY <2>2 DEF Shape
<1>3. ASSUME NEW k \in 1 .. Len(said)
      PROVE  /\ Shape(OneByOne(said)[k]) /\ OneByOne(said)[k][1].type \notin {"config", "finished", "spawn"}
             /\ \A j \in 1 .. Len(OneByOne(said)[k]) : OneByOne(said)[k][j].type # "take"
  <2>1. OneByOne(said)[k] = <<said[k]>>
    BY <1>1
  <2>2. \A t \in {"reject", "destroy"} : t \notin {"config", "finished", "spawn"} /\ t # "take"
    OBVIOUS
  <2> QED
    BY <1>2, <2>1, <2>2
<1> QED
  BY <1>1, <1>3 DEF Telling

\* A message for each step.
LEMMA DestroyKeeps ==
    ASSUME IInv, NEW e \in ID, Perform_destroy(e)
    PROVE  IInv'
<1>1. TypeOK /\ ServerOK
  BY DEF IInv
<1>2. e \in entities /\ Removed(e)
  BY DEF Perform_destroy
<1>3. PICK said \in ClearTold(Subtree(e)) : Speaks(OneByOne(said))
  BY DEF Perform_destroy
<1>4. said \in SetToSeqs(Words(Subtree(e)))
  BY DEF ClearTold
<1>5. ServerOK' /\ Served' = Without(Subtree(e))
  BY <1>1, <1>2, RemovedLeaves
<1>6. Leads(said, Served, Served')
  BY <1>1, <1>2, <1>5, SubtreeFacts, DestroyTells
<1>7. /\ said \in Seq(Events)
      /\ \A k \in 1 .. Len(said) : said[k].type \in {"reject", "destroy"}
  BY <1>1, <1>2, <1>4, ToldShape
<1>8. Telling(OneByOne(said)) /\ LeadsAll(OneByOne(said), Served, Served')
  BY <1>6, <1>7, OneByOneTells, LeadsOneByOne
<1>9. toServer' \in Seq(Events) /\ failed' = failed /\ departed' \subseteq departed
  BY <1>1, <1>2 DEF Removed, TypeOK
<1> QED
  BY <1>3, <1>5, <1>8, <1>9, SaysKeeps

\* A spectator is said to be destroyed and stays.
LEMMA ClientDestroyKeeps ==
    ASSUME IInv, NEW e \in ID, client_Destroy(e)
    PROVE  IInv'
<1> DEFINE ev == Event("destroy", NoID, e)
           b == [alive |-> Served.alive \ {e}, hand |-> Served.hand]
<1>1. TypeOK /\ ServerOK /\ Served \in View
  BY ServedView DEF IInv
<1>2. /\ ~ single /\ e \in entities /\ e \in Spectator
      /\ departed' = IF bConnected THEN departed \union {e} ELSE departed
      /\ entities' = entities /\ ID_Parent' = ID_Parent /\ toServer' = toServer /\ failed' = failed
      /\ Speaks(<< <<ev>> >>)
  BY DEF client_Destroy
<1>3. \A x \in ID : ID_Parent[x] # NoID => x # e /\ ID_Parent[x] # e
  <2>1. ASSUME NEW x \in ID, ID_Parent[x] # NoID
        PROVE  x # e /\ ID_Parent[x] # e
    <3>1. <<ID_Parent[x], x>> \in (ID \ Spectator) \X (ID \ Spectator)
      BY <1>1, <2>1, ReplicaAssumption DEF ServerOK
    <3> QED
      BY <1>2, <3>1
  <2> QED
    BY <2>1
<1>4. ServerOK'
  BY <1>1, <1>2 DEF ServerOK
<1>5. Served.hand[e] = NoID /\ \A c \in ID : Served.hand[c] # e
  BY <1>3, ObjectAssumption DEF Served
<1>6. b \in View
  <2>1. Served.alive \subseteq ID /\ Served.hand \in [ID -> ID \union {NoID}]
        /\ \A x \in ID : Served.hand[x] # NoID => x \in Served.alive /\ Served.hand[x] \in Served.alive
    BY <1>1 DEF View
  <2>2. b.alive \subseteq ID /\ b \in [alive : SUBSET ID, hand : [ID -> ID \union {NoID}]]
    BY <2>1
  <2>3. ASSUME NEW x \in ID, b.hand[x] # NoID
        PROVE  x \in b.alive /\ b.hand[x] \in b.alive
    BY <1>5, <2>1, <2>3
  <2> HIDE DEF b
  <2> QED
    BY <2>2, <2>3 DEF View
<1>7. ev \in Events /\ ev.type = "destroy" /\ ev.id = e
  BY EventSame DEF Event, Events, EventTypes
<1>8. bConnected => Served' = b
  BY <1>2 DEF Served
<1> HIDE DEF ev
<1>9. Turn(ev, Served, b)
  BY <1>5, <1>7 DEF Turn
<1> HIDE DEF b
<1>10. Telling(<< <<ev>> >>) /\ LeadsAll(<< <<ev>> >>, Served, b)
  BY <1>1, <1>6, <1>7, <1>9, SaysOne
<1>11. toServer' \in Seq(Events)
  BY <1>1, <1>2 DEF TypeOK
<1> QED
  BY <1>2, <1>4, <1>8, <1>10, <1>11, SaysKeeps


-----------------------------------------------------------------------------
(* The client is let in.                                                   *)

\* It gets what is broadcast from now on.
LEMMA CreateKeeps ==
    ASSUME IInv, CreateClient
    PROVE  IInv'
<1>1. TypeOK /\ HandsOK /\ MessagesOK /\ FreshOK /\ SingleOK /\ FailsByRefusal /\ ServerOK /\ failed = {} /\ Follows
  BY DEF IInv, CreateClient, ServerRuns
<1>2. /\ bConnected' = TRUE
      /\ UNCHANGED <<objectVars, clientVars, single, entities, ID_Parent, departed, net_Accepted,
                     toClient, toServer, game_events, failed>>
  BY DEF CreateClient
<1>3. Objects' = Objects /\ Served' = Served /\ ServerOK'
  BY <1>1, <1>2 DEF Objects, Served, ServerOK, objectVars, listVars
<1>4. TypeOK' /\ HandsOK'
  BY <1>1, <1>2, <1>3 DEF TypeOK, ObjectTypeOK, HandsOK, objectVars, listVars, handVars, clientVars
<1>5. MessagesOK' /\ FreshOK' /\ SingleOK' /\ FailsByRefusal'
  BY <1>1, <1>2, <1>3 DEF MessagesOK, FreshOK, SingleOK, FailsByRefusal, Says, Live, Announces, Brings, clientVars
<1>6. ASSUME NEW a \in View, NEW b \in View, NEW J \in Seq(Events), NEW q \in Seq(Events),
             FollowsFrom(a, b, J, q)
      PROVE  FollowsFrom(a, b, J, q)'
  BY <1>2, <1>3, <1>6 DEF FollowsFrom, Stands, Waiting, Following, objectVars, handVars, clientVars
<1>7. Follows'
  BY <1>1, <1>6 DEF Follows
<1> QED
  BY <1>3, <1>4, <1>5, <1>7 DEF IInv

Spawned(order, k) ==
    LET there == {order[j] : j \in 1 .. k}
    IN [alive |-> there, hand |-> [x \in ID |-> IF x \in there THEN ID_Parent[x] ELSE NoID]]

SpawnsOf(order) == [k \in DOMAIN order |-> Event("spawn", ID_Parent[order[k]], order[k])]

\* The entities, in an order in which nobody comes before who holds him, lead
\* from nobody to all of them.
LEMMA SpawnsLead ==
    ASSUME ServerOK, NEW order \in ConnectSpawns
    PROVE  /\ order \in Seq(entities)
           /\ \A j, k \in 1 .. Len(order) : order[j] = order[k] => j = k
           /\ SpawnsOf(order) \in Seq(Events)
           /\ Leads(SpawnsOf(order), Nobody, [alive |-> entities, hand |-> ID_Parent])
<1> DEFINE n == Len(order)
           q == SpawnsOf(order)
           v == [k \in 0 .. n |-> Spawned(order, k)]
           all == [alive |-> entities, hand |-> ID_Parent]
<1>1. IsFiniteSet(entities)
  BY ReplicaAssumption, FS_Subset DEF ServerOK
<1>2. /\ order \in Seq(entities)
      /\ \A j, k \in 1 .. n : order[j] = order[k] => j = k
      /\ \A x \in entities : \E k \in 1 .. n : order[k] = x
  BY <1>1, Listing DEF ConnectSpawns
<1>3. n \in Nat /\ DOMAIN order = 1 .. n /\ \A k \in 1 .. n : order[k] \in entities /\ order[k] \in ID
  BY <1>2 DEF ServerOK
<1>4. \A k \in 1 .. n : ID_Parent[order[k]] # NoID => \E j \in 1 .. k - 1 : order[j] = ID_Parent[order[k]]
  BY <1>3 DEF ConnectSpawns
<1>5. q \in Seq(Events) /\ Len(q) = n /\ \A k \in 1 .. n : q[k] = Event("spawn", ID_Parent[order[k]], order[k])
  <2>1. \A k \in 1 .. n : Event("spawn", ID_Parent[order[k]], order[k]) \in Events
    BY <1>3 DEF Event, Events, EventTypes, ServerOK
  <2> QED
    BY <1>3, <2>1 DEF SpawnsOf
<1>6. ASSUME NEW k \in 0 .. n
      PROVE  Spawned(order, k) \in View
  <2> DEFINE there == {order[j] : j \in 1 .. k}
  <2>1. \A j \in 1 .. k : j \in 1 .. n /\ \A i \in 1 .. j - 1 : i \in 1 .. k
    BY <1>3
  <2>2. there \subseteq ID
    BY <1>3, <2>1
  <2>3. ASSUME NEW x \in there, ID_Parent[x] # NoID
        PROVE  ID_Parent[x] \in there
    <3>1. PICK j \in 1 .. k : order[j] = x
      BY <2>3
    <3>2. PICK i \in 1 .. j - 1 : order[i] = ID_Parent[x]
      BY <1>4, <2>1, <2>3, <3>1
    <3>3. i \in 1 .. k
      BY <2>1, <3>1
    <3> QED
      BY <3>2, <3>3
  <2> HIDE DEF there
  <2> DEFINE h == [x \in ID |-> IF x \in there THEN ID_Parent[x] ELSE NoID]
  <2>4. h \in [ID -> ID \union {NoID}]
    BY DEF ServerOK
  <2>5. \A x \in ID : h[x] # NoID => x \in there /\ h[x] \in there
    BY <2>3
  <2>6. Spawned(order, k) = [alive |-> there, hand |-> h]
    BY DEF Spawned, there
  <2> HIDE DEF h
  <2> QED
    BY <2>2, <2>4, <2>5, <2>6 DEF View
<1>7. v \in [0 .. n -> View] /\ \A k \in 0 .. n : v[k] = Spawned(order, k)
  BY <1>6
<1>8. v[0] = Nobody
  <2>1. {order[j] : j \in 1 .. 0} = {}
    OBVIOUS
  <2>2. v[0] = Spawned(order, 0)
    BY <1>3, <1>7
  <2>3. Spawned(order, 0) = Nobody
    BY <2>1 DEF Spawned, Nobody
  <2> QED
    BY <2>2, <2>3
<1>9. v[n] = all
  <2>1. {order[j] : j \in 1 .. n} = entities
    BY <1>2, <1>3
  <2>2. \A x \in ID : (IF x \in entities THEN ID_Parent[x] ELSE NoID) = ID_Parent[x]
    BY DEF ServerOK
  <2>3. [x \in ID |-> IF x \in entities THEN ID_Parent[x] ELSE NoID] = ID_Parent
    BY <2>2 DEF ServerOK
  <2>4. v[n] = Spawned(order, n)
    BY <1>3, <1>7
  <2>5. Spawned(order, n) = all
    BY <2>1, <2>3 DEF Spawned
  <2> QED
    BY <2>4, <2>5
<1>10. ASSUME NEW k \in 1 .. n
       PROVE  Turn(q[k], Spawned(order, k - 1), Spawned(order, k))
  <2> DEFINE e == order[k]
             p == ID_Parent[e]
             old == {order[j] : j \in 1 .. k - 1}
             new == {order[j] : j \in 1 .. k}
  <2>1. q[k].type = "spawn" /\ q[k].id = e /\ q[k].parent = p /\ e \in ID
    BY <1>3, <1>5, EventSame
  <2>2. new = old \union {e}
    <3>1. k \in 1 .. k /\ \A j \in 1 .. k : j = k \/ j \in 1 .. k - 1
      BY <1>3
    <3>2. \A j \in 1 .. k - 1 : j \in 1 .. k
      BY <1>3
    <3> QED
      BY <3>1, <3>2
  <2>3. e \notin old
    <3>1. \A j \in 1 .. k - 1 : j \in 1 .. n /\ j # k
      BY <1>3
    <3> QED
      BY <1>2, <3>1
  <2>4. p \in old \union {NoID}
    BY <1>4
  <2> HIDE DEF e, p, old, new
  <2> DEFINE a == [alive |-> old, hand |-> [x \in ID |-> IF x \in old THEN ID_Parent[x] ELSE NoID]]
             b == [alive |-> new, hand |-> [x \in ID |-> IF x \in new THEN ID_Parent[x] ELSE NoID]]
  <2>5. Spawned(order, k - 1) = a /\ Spawned(order, k) = b
    BY DEF Spawned, old, new
  <2>6. b.hand = [a.hand EXCEPT ![e] = p]
    BY <2>2 DEF p
  <2>7. a.alive = old /\ b = [alive |-> a.alive \union {e}, hand |-> [a.hand EXCEPT ![e] = p]]
    BY <2>2, <2>6
  <2> HIDE DEF a, b
  <2> QED
    BY <2>1, <2>3, <2>4, <2>5, <2>7 DEF Turn
<1>11. Len(Turns(q)) = n /\ \A k \in 1 .. n : Turns(q)[k] = TurnOf(q[k])
  BY <1>5, TurnsType
<1> HIDE DEF q, v, all
<1>12. ASSUME NEW k \in 1 .. n
       PROVE  <<v[k - 1], v[k]>> \in Turns(q)[k]
  <2>1. k \in 0 .. n /\ k - 1 \in 0 .. n
    BY <1>3
  <2>2. v[k - 1] \in View /\ v[k] \in View /\ Turn(q[k], v[k - 1], v[k])
    BY <1>7, <1>10, <2>1
  <2> QED
    BY <1>11, <2>2 DEF TurnOf
<1>13. Leads(q, Nobody, all)
  BY <1>7, <1>8, <1>9, <1>11, <1>12 DEF Leads, Chain
<1> QED
  BY <1>2, <1>5, <1>13 DEF q, all


\* The configuration, the entities and the end of it are sent.
LEMMA ConnectedKeeps ==
    ASSUME IInv, OnCL_Connected
    PROVE  IInv'
<1> DEFINE cfg == Event("config", NoID, NoID)
           fin == Event("finished", NoID, NoID)
           all == [alive |-> entities, hand |-> ID_Parent]
           n == Len(toClient)
<1>1. TypeOK /\ HandsOK /\ MessagesOK /\ FreshOK /\ SingleOK /\ FailsByRefusal /\ ServerOK /\ failed = {} /\ Follows
  BY DEF IInv, OnCL_Connected, ServerRuns
<1>2. PICK order \in ConnectSpawns :
        toClient' = toClient \o << <<cfg>> >> \o OneByOne(SpawnsOf(order)) \o << <<fin>> >>
  BY DEF OnCL_Connected, SpawnsOf
<1>3. /\ bConnected /\ ~ net_Accepted /\ net_Accepted' = TRUE /\ departed' = {}
      /\ UNCHANGED <<objectVars, clientVars, single, entities, ID_Parent, bConnected, toServer,
                     game_events, failed>>
  BY DEF OnCL_Connected
<1>4. /\ stage = "joining" /\ ~ m_bGameConfigStarted /\ Objects = {}
      /\ \A m : ~ Says(m, "config") /\ ~ Says(m, "finished")
  BY <1>1, <1>3 DEF MessagesOK
<1>5. Objects' = Objects
  BY <1>3 DEF Objects, objectVars, listVars
<1>6. ServerOK' /\ Served' = all
  BY <1>1, <1>3 DEF ServerOK, Served
<1>7. Served \in View /\ Served' \in View /\ Nobody \in View
  <2>1. Nobody \in View
    BY DEF Nobody, View
  <2> QED
    BY <1>1, <1>6, <2>1, ServedView, ServedViewNext
<1> DEFINE q == SpawnsOf(order)
           l == Len(order)
<1>8. /\ order \in Seq(entities) /\ \A j, k \in 1 .. l : order[j] = order[k] => j = k
      /\ q \in Seq(Events) /\ Leads(q, Nobody, all)
  BY <1>1, SpawnsLead
<1>9. l \in Nat /\ DOMAIN order = 1 .. l /\ Len(q) = l /\ DOMAIN q = 1 .. l
      /\ \A k \in 1 .. l : q[k] = Event("spawn", ID_Parent[order[k]], order[k])
  BY <1>8 DEF SpawnsOf
<1>10. OneByOne(q) \in Seq(Seq(Events)) /\ Len(OneByOne(q)) = l
       /\ (\A k \in 1 .. l : OneByOne(q)[k] = <<q[k]>>) /\ LeadsAll(OneByOne(q), Nobody, all)
  <2>1. OneByOne(q) \in Seq(Seq(Events)) /\ LeadsAll(OneByOne(q), Nobody, all)
    BY <1>8, LeadsOneByOne
  <2>2. Len(OneByOne(q)) = l /\ \A k \in 1 .. l : OneByOne(q)[k] = <<q[k]>>
    BY <1>9 DEF OneByOne
  <2> QED
    BY <2>1, <2>2
<1>11. /\ cfg \in Events /\ cfg.type = "config" /\ fin \in Events /\ fin.type = "finished"
  BY EventSame DEF Event, Events, EventTypes
<1>12. \A k \in 1 .. l : q[k] \in Events /\ q[k].type = "spawn" /\ q[k].id = order[k]
  BY <1>8, <1>9, EventSame
<1>13. <<cfg>> \in Seq(Events) /\ <<fin>> \in Seq(Events) /\ toClient \in Seq(Seq(Events)) /\ n \in Nat
       /\ << <<cfg>> >> \in Seq(Seq(Events)) /\ << <<fin>> >> \in Seq(Seq(Events))
  BY <1>1, <1>11 DEF TypeOK
<1> DEFINE s == OneByOne(q)
           A == toClient \o << <<cfg>> >>
           B == A \o s
           C == B \o << <<fin>> >>
<1>14. toClient' = C
  BY <1>2
<1>15. Turn(cfg, Served, Nobody) /\ Turn(fin, all, all)
  BY <1>11 DEF Turn
<1>16. LeadsAll(<< <<cfg>> >>, Served, Nobody) /\ LeadsAll(<< <<fin>> >>, all, all)
  <2>1. Leads(<<cfg>>, Served, Nobody) /\ Leads(<<fin>>, all, all)
    BY <1>6, <1>7, <1>11, <1>15, LeadsFacts
  <2> QED
    BY <1>13, <2>1, LeadsAllFacts
<1> HIDE DEF cfg, fin, all, q, l, s
<1>17. A \in Seq(Seq(Events)) /\ Len(A) = n + 1 /\ (\A m \in 1 .. n : A[m] = toClient[m]) /\ A[n + 1] = <<cfg>>
  BY <1>13
<1>18. s \in Seq(Seq(Events)) /\ Len(s) = l /\ (\A k \in 1 .. l : s[k] = <<q[k]>>) /\ LeadsAll(s, Nobody, all)
  BY <1>10 DEF s
<1> HIDE DEF A
<1>19. B \in Seq(Seq(Events)) /\ Len(B) = n + 1 + l /\ (\A m \in 1 .. n + 1 : B[m] = A[m])
       /\ \A k \in 1 .. l : B[n + 1 + k] = s[k]
  <2> HIDE DEF n
  <2>1. B \in Seq(Seq(Events)) /\ Len(B) = Len(A) + Len(s) /\ (\A m \in 1 .. Len(A) : B[m] = A[m])
        /\ \A k \in 1 .. Len(s) : B[Len(A) + k] = s[k]
    <3> HIDE DEF B
    <3>1. A \in Seq(Seq(Events)) /\ s \in Seq(Seq(Events))
      BY <1>17, <1>18
    <3> QED
      BY <3>1, SeqParts DEF B
  <2> HIDE DEF B
  <2> QED
    BY <1>17, <1>18, <2>1
<1> HIDE DEF B
<1>20. C \in Seq(Seq(Events)) /\ Len(C) = n + l + 2 /\ (\A m \in 1 .. n + 1 + l : C[m] = B[m])
       /\ C[n + l + 2] = <<fin>>
  <2> HIDE DEF n
  <2>1. C \in Seq(Seq(Events)) /\ Len(C) = Len(B) + Len(<< <<fin>> >>) /\ (\A m \in 1 .. Len(B) : C[m] = B[m])
        /\ \A k \in 1 .. Len(<< <<fin>> >>) : C[Len(B) + k] = << <<fin>> >>[k]
    <3> HIDE DEF C
    <3> QED
      BY <1>13, <1>19, SeqParts DEF C
  <2> HIDE DEF C
  <2>2. Len(<< <<fin>> >>) = 1 /\ << <<fin>> >>[1] = <<fin>> /\ 1 \in 1 .. 1
    OBVIOUS
  <2>3. n + 1 + l + 1 = n + l + 2
    BY <1>9, <1>13
  <2> QED
    BY <1>19, <2>1, <2>2, <2>3
<1> HIDE DEF C
<1>21. /\ \A m \in 1 .. n : C[m] = toClient[m]
       /\ C[n + 1] = <<cfg>> /\ \A k \in 1 .. l : C[n + 1 + k] = <<q[k]>>
  <2>1. \A m \in 1 .. n : m \in 1 .. n + 1 /\ m \in 1 .. n + 1 + l
    BY <1>9, <1>13
  <2>2. n + 1 \in 1 .. n + 1 /\ n + 1 \in 1 .. n + 1 + l
    BY <1>9, <1>13
  <2>3. \A k \in 1 .. l : n + 1 + k \in 1 .. n + 1 + l
    BY <1>9, <1>13
  <2> QED
    BY <1>17, <1>18, <1>19, <1>20, <2>1, <2>2, <2>3
<1>22. ASSUME NEW c \in View, LeadsAll(toClient, c, Served)
       PROVE  LeadsAll(C, c, Served')
  <2>1. LeadsAll(A, c, Nobody)
    BY <1>13, <1>16, <1>22, LeadsAllFacts DEF A
  <2>2. LeadsAll(B, c, all)
    BY <1>17, <1>18, <2>1, LeadsAllFacts DEF B
  <2>3. LeadsAll(C, c, all)
    BY <1>13, <1>16, <1>19, <2>2, LeadsAllFacts DEF C
  <2> QED
    BY <1>6, <2>3
<1>23. ASSUME NEW m \in 1 .. n + l + 2
       PROVE  \/ m \in 1 .. n /\ C[m] = toClient[m]
              \/ m = n + 1 /\ C[m] = <<cfg>>
              \/ m - n - 1 \in 1 .. l /\ C[m] = <<q[m - n - 1]>> /\ m > n + 1 /\ m < n + l + 2
              \/ m = n + l + 2 /\ C[m] = <<fin>> /\ m > n + 1
  <2>1. m \in 1 .. n \/ m = n + 1 \/ (m - n - 1 \in 1 .. l /\ m = n + 1 + (m - n - 1) /\ m > n + 1 /\ m < n + l + 2)
        \/ (m = n + l + 2 /\ m > n + 1)
    <3> HIDE DEF n
    <3> QED
      BY <1>9, <1>13
  <2> QED
    BY <1>20, <1>21, <2>1
<1>24. \A m, t : Says(m, t)' <=> m \in 1 .. n + l + 2 /\ C[m][1].type = t
  BY <1>14, <1>20 DEF Says
<1> HIDE DEF n
<1>25. \A m : Says(m, "config")' <=> m = n + 1
  <2>1. n + 1 \in 1 .. n + l + 2
    BY <1>9, <1>13 DEF n
  <2>2. \A m \in 1 .. n : toClient[m][1].type # "config"
    BY <1>4 DEF Says, n
  <2>3. <<cfg>>[1] = cfg /\ <<fin>>[1] = fin /\ \A k : <<q[k]>>[1] = q[k]
    OBVIOUS
  <2> QED
    BY <1>11, <1>12, <1>21, <1>23, <1>24, <2>1, <2>2, <2>3
<1>26. \A m : Says(m, "finished")' => m = n + l + 2 /\ n + 1 < m
  <2>2. \A m \in 1 .. n : toClient[m][1].type # "finished"
    BY <1>4 DEF Says, n
  <2>3. <<cfg>>[1] = cfg /\ <<fin>>[1] = fin /\ \A k : <<q[k]>>[1] = q[k]
    OBVIOUS
  <2> QED
    BY <1>11, <1>12, <1>23, <1>24, <2>2, <2>3
<1>27. \A m, e : Announces(m, e)' => m - n - 1 \in 1 .. l /\ e = order[m - n - 1] /\ m = n + 1 + (m - n - 1)
  <2>1. ASSUME NEW m, NEW e, Announces(m, e)'
        PROVE  m - n - 1 \in 1 .. l /\ e = order[m - n - 1] /\ m = n + 1 + (m - n - 1)
    <3>1. Says(m, "spawn")' /\ n + 1 < m /\ toClient'[m][1].id = e
      BY <1>25, <2>1 DEF Announces, Live
    <3>2. m \in 1 .. n + l + 2 /\ C[m][1].type = "spawn" /\ C[m][1].id = e
      BY <1>14, <1>24, <3>1
    <3>3. <<cfg>>[1] = cfg /\ <<fin>>[1] = fin /\ \A k : <<q[k]>>[1] = q[k]
      OBVIOUS
    <3>4. m - n - 1 \in 1 .. l /\ C[m] = <<q[m - n - 1]>>
      <4>1. m \notin 1 .. n
        BY <3>1, <1>13 DEF n
      <4> QED
        BY <1>11, <1>23, <3>2, <3>3, <4>1
    <3>5. m = n + 1 + (m - n - 1)
      BY <3>2, <1>9, <1>13 DEF n
    <3> QED
      BY <1>12, <3>2, <3>3, <3>4, <3>5
  <2> QED
    BY <2>1
<1>28. MessagesOK'
  <2>1. \A m \in 1 .. n + l + 2 : Shape(C[m])
    <3>1. \A m \in 1 .. n : Shape(toClient[m])
      BY <1>1 DEF MessagesOK, n
    <3>2. \A ev \in Events : Shape(<<ev>>)
      <4>1. \A ev \in Events : <<ev>> \in Seq(Events) /\ <<ev>> # <<>> /\ Len(<<ev>>) = 1
        OBVIOUS
      <4> QED
        BY <4>1 DEF Shape
    <3> QED
      BY <1>11, <1>12, <1>23, <3>1, <3>2
  <2>2. stage' = "joining" /\ ~ m_bGameConfigStarted' /\ Objects' = {} /\ bConnected'
    BY <1>3, <1>4, <1>5 DEF clientVars
  <2>3. net_Accepted'
    BY <1>3
  <2>4. \A m : Says(m, "config")' => \A k : Says(k, "config")' => k = m
    BY <1>25
  <2>5. \A m : Says(m, "finished")' => \E k : Says(k, "config")' /\ k < m
    BY <1>25, <1>26
  <2> QED
    BY <1>14, <1>20, <2>1, <2>2, <2>3, <2>4, <2>5 DEF MessagesOK
<1>29. PICK a \in View, b \in View, J \in Seq(Events), r \in Seq(Events) : FollowsFrom(a, b, J, r)
  BY <1>1 DEF Follows
<1>30. \A k, e : ~ Brings(k, e)'
  <2>1. r = <<>>
    BY <1>4, <1>29 DEF FollowsFrom, Waiting
  <2>2. game_events = J /\ game_events' = game_events
    BY <1>3, <1>29, <2>1 DEF FollowsFrom
  <2> QED
    BY <1>29, <2>2 DEF FollowsFrom, Brings
<1>31. FreshOK'
  <2>1. ASSUME NEW m, NEW e, Announces(m, e)', NEW j, Announces(j, e)'
        PROVE  j = m
    <3>1. m - n - 1 \in 1 .. l /\ j - n - 1 \in 1 .. l /\ order[m - n - 1] = order[j - n - 1]
          /\ m = n + 1 + (m - n - 1) /\ j = n + 1 + (j - n - 1)
      BY <1>27, <2>1
    <3>2. m - n - 1 = j - n - 1
      BY <1>8, <3>1 DEF l
    <3> QED
      BY <3>1, <3>2
  <2> QED
    BY <1>4, <1>5, <1>30, <2>1 DEF FreshOK
<1>32. SingleOK'
  <2>1. ASSUME single, NEW m \in 1 .. n + l + 2, NEW k \in 1 .. Len(C[m]), C[m][k].type = "take"
        PROVE  C[m][k].id \in Objects
    <3>1. \A ev : \A i \in 1 .. Len(<<ev>>) : <<ev>>[i] = ev
      OBVIOUS
    <3>2. m \in 1 .. n /\ C[m] = toClient[m]
      BY <1>11, <1>12, <1>23, <2>1, <3>1
    <3> QED
      BY <1>1, <2>1, <3>2 DEF SingleOK, n
  <2> QED
    BY <1>1, <1>3, <1>5, <1>14, <1>20, <2>1 DEF SingleOK, clientVars
<1>33. TypeOK' /\ HandsOK' /\ FailsByRefusal'
  <2>1. ObjectTypeOK' /\ HandsOK' /\ FailsByRefusal'
    BY <1>1, <1>3, <1>5 DEF TypeOK, ObjectTypeOK, HandsOK, FailsByRefusal, objectVars, listVars, handVars, clientVars
  <2>2. toClient' \in Seq(Seq(Events)) /\ departed' \subseteq ID /\ net_Accepted' \in BOOLEAN
    BY <1>3, <1>14, <1>20
  <2> QED
    BY <1>1, <1>3, <2>1, <2>2 DEF TypeOK, clientVars
<1>34. FollowsFrom(a, b, J, r)'
  <2>1. PICK c \in View : LeadsAll(toClient, c, Served)
    BY <1>4, <1>29 DEF FollowsFrom, Following
  <2>2. LeadsAll(toClient', c, Served')
    BY <1>14, <1>22, <2>1
  <2>3. Stands(a)'
    BY <1>3, <1>5, <1>29 DEF FollowsFrom, Stands, objectVars, handVars, clientVars
  <2>4. Waiting /\ Waiting' /\ ~ m_bGameConfigStarted'
    BY <1>3, <1>4 DEF Waiting, clientVars
  <2> QED
    BY <1>3, <1>5, <1>29, <2>2, <2>3, <2>4 DEF FollowsFrom
<1>35. Follows'
  BY <1>34 DEF Follows
<1> QED
  BY <1>6, <1>28, <1>31, <1>32, <1>33, <1>35 DEF IInv

-----------------------------------------------------------------------------
(* The client takes a message.                                             *)

\* What is said of the messages after the first.
LEMMA TailSays ==
    ASSUME toClient \in Seq(Seq(Events)), toClient # <<>>, toClient' = Tail(toClient)
    PROVE  /\ toClient' \in Seq(Seq(Events))
           /\ Head(toClient) = toClient[1] /\ Head(toClient) \in Seq(Events)
           /\ \A m \in 1 .. Len(toClient') : m + 1 \in 1 .. Len(toClient) /\ toClient'[m] = toClient[m + 1]
           /\ \A m, t : Says(m, t)' => m \in Nat /\ m > 0 /\ Says(m + 1, t)
           /\ \A m, t : Says(m, t) => m \in Nat /\ m > 0 /\ (m = 1 \/ Says(m - 1, t)')
           /\ \A t : Says(1, t) <=> Head(toClient)[1].type = t
<1> DEFINE n == Len(toClient)
<1>1. n \in Nat /\ n >= 1 /\ toClient' \in Seq(Seq(Events)) /\ Len(toClient') = n - 1
      /\ Head(toClient) = toClient[1] /\ Head(toClient) \in Seq(Events)
  OBVIOUS
<1>2. \A m \in 1 .. n - 1 : m + 1 \in 1 .. n /\ toClient'[m] = toClient[m + 1]
  BY <1>1
<1>3. ASSUME NEW m, NEW t, Says(m, t)'
      PROVE  m \in Nat /\ m > 0 /\ Says(m + 1, t)
  <2>1. m \in 1 .. n - 1 /\ toClient'[m][1].type = t
    BY <1>1, <1>3 DEF Says
  <2> QED
    BY <1>1, <1>2, <2>1 DEF Says
<1>4. ASSUME NEW m, NEW t, Says(m, t)
      PROVE  m \in Nat /\ m > 0 /\ (m = 1 \/ Says(m - 1, t)')
  <2>1. m \in 1 .. n /\ toClient[m][1].type = t
    BY <1>4 DEF Says
  <2>2. CASE m # 1
    <3>1. m - 1 \in 1 .. n - 1 /\ (m - 1) + 1 = m
      BY <1>1, <2>1, <2>2
    <3>2. toClient'[m - 1] = toClient[m]
      BY <1>2, <3>1
    <3>3. Says(m - 1, t)'
      BY <1>1, <2>1, <3>1, <3>2 DEF Says
    <3> QED
      BY <2>1, <3>3
  <2> QED
    BY <2>1, <2>2
<1>5. \A t : Says(1, t) <=> Head(toClient)[1].type = t
  BY <1>1 DEF Says
<1> QED
  BY <1>1, <1>2, <1>3, <1>4, <1>5

Joins(g, s, t) == g = s \o t

\* One sequence after another and a third.
LEMMA SeqAssoc ==
    ASSUME NEW X, NEW s \in Seq(X), NEW t \in Seq(X), NEW u \in Seq(X), NEW g, NEW h, NEW v,
           Joins(g, s, t), Joins(h, g, u), Joins(v, t, u)
    PROVE  Joins(h, s, v)
<1> DEFINE l == (s \o t) \o u
           r == s \o (t \o u)
<1>1. Len(s) \in Nat /\ Len(t) \in Nat /\ Len(u) \in Nat
  OBVIOUS
<1>2. l \in Seq(X) /\ r \in Seq(X) /\ Len(l) = Len(s) + Len(t) + Len(u) /\ Len(r) = Len(l)
  OBVIOUS
<1>3. ASSUME NEW k \in 1 .. Len(s) + Len(t) + Len(u)
      PROVE  l[k] = r[k]
  <2>1. CASE k =< Len(s)
    BY <1>1, <2>1
  <2>2. CASE k > Len(s) /\ k =< Len(s) + Len(t)
    BY <1>1, <2>2
  <2>3. CASE k > Len(s) + Len(t)
    BY <1>1, <2>3
  <2> QED
    BY <1>1, <2>1, <2>2, <2>3
<1>4. h = l /\ r = s \o v
  BY DEF Joins
<1> HIDE DEF l, r
<1>5. l = r
  BY <1>2, <1>3, SeqSame
<1> QED
  BY <1>4, <1>5 DEF Joins

\* What the messages hold when one of them has been taken, of which nothing or
\* all goes to the events.
LEMMA ReceivedFresh ==
    ASSUME TypeOK, MessagesOK, FreshOK, SingleOK, ClientReceive
    PROVE  FreshOK' /\ SingleOK' /\ MessagesOK' /\ game_events' \in Seq(Events)
<1> DEFINE m == Head(toClient)
<1>1. /\ toClient \in Seq(Seq(Events)) /\ toClient # <<>> /\ toClient' = Tail(toClient)
      /\ game_events \in Seq(Events)
  BY DEF TypeOK, ClientReceive
<1>2. /\ toClient' \in Seq(Seq(Events)) /\ m = toClient[1] /\ m \in Seq(Events)
      /\ (\A j \in 1 .. Len(toClient') : j + 1 \in 1 .. Len(toClient) /\ toClient'[j] = toClient[j + 1])
      /\ (\A j, t : Says(j, t)' => j \in Nat /\ j > 0 /\ Says(j + 1, t))
      /\ (\A j, t : Says(j, t) => j \in Nat /\ j > 0 /\ (j = 1 \/ Says(j - 1, t)'))
      /\ \A t : Says(1, t) <=> m[1].type = t
  BY <1>1, TailSays
<1>3. /\ UNCHANGED <<single, bConnected, net_Accepted, departed>> /\ Objects' = Objects
      /\ stage \in {"joining", "playing", "stopping"}
  BY DEF ClientReceive, serverVars, objectVars, listVars, Objects
<1>4. Len(toClient) >= 1 /\ 1 \in 1 .. Len(toClient)
  BY <1>1
<1>5. Shape(m) /\ Len(m) >= 1 /\ 1 \in 1 .. Len(m)
  BY <1>2, <1>4 DEF MessagesOK, Shape
<1>6. \/ /\ m[1].type = "config" /\ m_bGameConfigStarted' = TRUE /\ UNCHANGED <<stage, game_events>>
      \/ /\ m[1].type = "finished" /\ stage' = (IF stage = "joining" THEN "playing" ELSE stage)
         /\ UNCHANGED <<m_bGameConfigStarted, game_events>>
      \/ /\ m[1].type \notin {"config", "finished"} /\ game_events' = game_events \o Taken(m)
         /\ UNCHANGED <<m_bGameConfigStarted, stage>>
  BY DEF ClientReceive
<1> HIDE DEF m
<1>7. /\ net_Accepted \/ m[1].type \notin {"config", "finished"}
      /\ bConnected
      /\ m[1].type = "config" => /\ stage = "joining" /\ ~ m_bGameConfigStarted
                                 /\ \A j : Says(j, "config") => j = 1
      /\ m[1].type = "finished" => /\ stage = "joining" => m_bGameConfigStarted
                                   /\ \A j : ~ Says(j, "config")
  <2>1. net_Accepted \/ m[1].type \notin {"config", "finished"}
    BY <1>2 DEF MessagesOK
  <2>2. bConnected
    BY <1>1, <1>3 DEF MessagesOK
  <2>3. m[1].type = "config" => /\ stage = "joining" /\ ~ m_bGameConfigStarted
                                /\ \A j : Says(j, "config") => j = 1
    BY <1>2 DEF MessagesOK
  <2>4. ASSUME m[1].type = "finished"
        PROVE  /\ stage = "joining" => m_bGameConfigStarted
               /\ \A j : ~ Says(j, "config")
    <3>1. Says(1, "finished")
      BY <1>2, <2>4
    <3>2. stage = "joining" => m_bGameConfigStarted
      <4>1. ASSUME NEW j, Says(j, "config")
            PROVE  ~ (j < 1)
        BY <1>2, <4>1
      <4> QED
        BY <3>1, <4>1 DEF MessagesOK
    <3> QED
      BY <3>2 DEF MessagesOK
  <2> QED
    BY <2>1, <2>2, <2>3, <2>4
<1>8. MessagesOK'
  <2>1. \A j \in 1 .. Len(toClient') : Shape(toClient'[j])
    BY <1>2 DEF MessagesOK
  <2>2. (stage' = "joining" => Objects' = {}) /\ (stage' = "playing" => m_bGameConfigStarted')
    BY <1>3, <1>6, <1>7 DEF MessagesOK
  <2>3. ~ net_Accepted' => /\ stage' = "joining" /\ ~ m_bGameConfigStarted'
                           /\ \A j : ~ Says(j, "config")' /\ ~ Says(j, "finished")'
    BY <1>2, <1>3, <1>6, <1>7 DEF MessagesOK
  <2>4. bConnected'
    BY <1>3, <1>7
  <2>5. ASSUME NEW j, Says(j, "config")'
        PROVE  stage' = "joining" /\ ~ m_bGameConfigStarted' /\ \A k : Says(k, "config")' => k = j
    <3>1. j \in Nat /\ j > 0 /\ Says(j + 1, "config")
      BY <1>2, <2>5
    <3>2. stage = "joining" /\ ~ m_bGameConfigStarted /\ \A k : Says(k, "config") => k = j + 1
      BY <3>1 DEF MessagesOK
    <3>3. m[1].type \notin {"config", "finished"}
      BY <1>7, <3>1
    <3>4. \A k : Says(k, "config")' => k \in Nat /\ k + 1 = j + 1
      BY <1>2, <3>2
    <3>5. \A k : Says(k, "config")' => k = j
      BY <3>1, <3>4
    <3> QED
      BY <1>6, <3>2, <3>3, <3>5
  <2>6. ASSUME NEW j, Says(j, "finished")', stage' = "joining", ~ m_bGameConfigStarted'
        PROVE  \E k : Says(k, "config")' /\ k < j
    <3>1. j \in Nat /\ j > 0 /\ Says(j + 1, "finished")
      BY <1>2, <2>6
    <3>2. stage = "joining" /\ ~ m_bGameConfigStarted /\ m[1].type \notin {"config", "finished"}
      BY <1>6, <1>7, <2>6
    <3>3. PICK k : Says(k, "config") /\ k < j + 1
      BY <3>1, <3>2 DEF MessagesOK
    <3>4. k \in Nat /\ k # 1 /\ k > 0 /\ Says(k - 1, "config")'
      BY <1>2, <3>2, <3>3
    <3>5. k - 1 < j
      BY <3>1, <3>3, <3>4
    <3> QED
      BY <3>4, <3>5
  <2> QED
    BY <2>1, <2>2, <2>3, <2>4, <2>5, <2>6 DEF MessagesOK
<1>9. m[1].type \notin {"config", "finished"} => Taken(m) = m \/ Taken(m) = <<>>
  BY DEF Taken
<1>10. game_events' \in Seq(Events)
  <2>1. Taken(m) \in Seq(Events)
    BY <1>2 DEF Taken
  <2> QED
    BY <1>1, <1>6, <2>1, SeqJoin
<1>11. ASSUME NEW k \in 1 .. Len(game_events')
       PROVE  \/ k \in 1 .. Len(game_events) /\ game_events'[k] = game_events[k]
              \/ /\ Taken(m) = m /\ m[1].type \notin {"config", "finished"}
                 /\ k - Len(game_events) \in 1 .. Len(m) /\ k = Len(game_events) + (k - Len(game_events))
                 /\ game_events'[k] = m[k - Len(game_events)]
  <2>1. CASE game_events' = game_events
    BY <2>1
  <2>2. CASE game_events' = game_events \o m /\ Taken(m) = m /\ m[1].type \notin {"config", "finished"}
    <3>1. /\ Len(game_events) \in Nat /\ Len(m) \in Nat /\ Len(game_events') = Len(game_events) + Len(m)
          /\ \A j \in 1 .. Len(game_events) : game_events'[j] = game_events[j]
          /\ \A j \in 1 .. Len(m) : game_events'[Len(game_events) + j] = m[j]
      BY <1>1, <1>2, <2>2, SeqParts
    <3>2. k \in 1 .. Len(game_events) \/ (k - Len(game_events) \in 1 .. Len(m)
                                          /\ k = Len(game_events) + (k - Len(game_events)))
      BY <3>1
    <3> QED
      BY <2>2, <3>1, <3>2
  <2>3. game_events \o <<>> = game_events
    BY <1>1
  <2> QED
    BY <1>6, <1>9, <2>1, <2>2, <2>3
<1>12. SingleOK'
  <2>1. single => stage' \in {"joining", "playing", "stopping", "stopped"} /\ departed' = {}
    BY <1>3, <1>6 DEF SingleOK
  <2>2. ASSUME single, NEW j \in 1 .. Len(toClient'), NEW k \in 1 .. Len(toClient'[j]),
               toClient'[j][k].type = "take"
        PROVE  toClient'[j][k].id \in Objects
    BY <1>2, <2>2 DEF SingleOK
  <2>3. ASSUME single, NEW k \in 1 .. Len(game_events'), game_events'[k].type = "take"
        PROVE  game_events'[k].id \in Objects
    <3>1. CASE k \in 1 .. Len(game_events) /\ game_events'[k] = game_events[k]
      BY <2>3, <3>1 DEF SingleOK
    <3>2. CASE k - Len(game_events) \in 1 .. Len(m) /\ game_events'[k] = m[k - Len(game_events)]
      BY <1>2, <1>4, <2>3, <3>2 DEF SingleOK
    <3> QED
      BY <1>11, <3>1, <3>2
  <2> QED
    BY <1>3, <2>1, <2>2, <2>3 DEF SingleOK
<1>13. ASSUME NEW j, NEW e, Announces(j, e)'
       PROVE  j \in Nat /\ Announces(j + 1, e) /\ j > 0
  <2>1. j \in Nat /\ j > 0 /\ Says(j + 1, "spawn") /\ toClient'[j] = toClient[j + 1]
    BY <1>2, <1>13 DEF Announces, Says
  <2>2. ASSUME NEW k, Says(k, "config")
        PROVE  k < j + 1
    <3>1. k \in Nat /\ k > 0 /\ (k = 1 \/ Says(k - 1, "config")')
      BY <1>2, <2>2
    <3>2. CASE k = 1
      BY <2>1, <3>2
    <3>3. CASE Says(k - 1, "config")'
      <4>1. k - 1 < j
        BY <1>13, <3>3 DEF Announces, Live
      <4> QED
        BY <2>1, <3>1, <4>1
    <3> QED
      BY <3>1, <3>2, <3>3
  <2> QED
    BY <1>13, <2>1, <2>2 DEF Announces, Live
<1>14. ASSUME NEW k, NEW e, Brings(k, e)'
       PROVE  Brings(k, e) \/ (Announces(1, e) /\ k = Len(game_events) + 1)
  <2>1. k \in 1 .. Len(game_events') /\ game_events'[k].type = "spawn" /\ game_events'[k].id = e
    BY <1>14 DEF Brings
  <2>2. CASE k \in 1 .. Len(game_events) /\ game_events'[k] = game_events[k]
    BY <2>1, <2>2 DEF Brings
  <2>3. CASE /\ Taken(m) = m /\ m[1].type \notin {"config", "finished"}
             /\ k - Len(game_events) \in 1 .. Len(m) /\ k = Len(game_events) + (k - Len(game_events))
             /\ game_events'[k] = m[k - Len(game_events)]
    <3>1. Len(m) = 1
      <4>1. ~ \A j \in 1 .. Len(m) : m[j].type \in {"take", "reject", "destroy"}
        BY <2>1, <2>3
      <4> QED
        BY <1>5, <4>1 DEF Shape
    <3>2. k - Len(game_events) = 1 /\ k = Len(game_events) + 1
      BY <2>3, <3>1
    <3>3. m[1].type = "spawn" /\ m[1].id = e
      BY <2>1, <2>3, <3>2
    <3>4. m_bGameConfigStarted
      <4>1. <<>> # m
        BY <1>5 DEF Shape
      <4> QED
        BY <2>3, <3>3, <4>1 DEF Taken
    <3>5. \A j : ~ Says(j, "config")
      BY <3>4 DEF MessagesOK
    <3>6. Announces(1, e)
      BY <1>2, <3>3, <3>5 DEF Announces, Live
    <3> QED
      BY <3>2, <3>6
  <2> QED
    BY <1>11, <2>1, <2>2, <2>3
<1>15. FreshOK'
  <2>1. ASSUME NEW j, NEW e, Announces(j, e)'
        PROVE  e \notin Objects /\ (\A i : Announces(i, e)' => i = j) /\ \A k : ~ Brings(k, e)'
    <3>1. j \in Nat /\ j > 0 /\ Announces(j + 1, e)
      BY <1>13, <2>1
    <3>2. e \notin Objects /\ (\A i : Announces(i, e) => i = j + 1) /\ \A k : ~ Brings(k, e)
      BY <3>1 DEF FreshOK
    <3>3. \A i : Announces(i, e)' => i \in Nat /\ i + 1 = j + 1
      BY <1>13, <3>2
    <3>4. \A i : Announces(i, e)' => i = j
      BY <3>1, <3>3
    <3>5. ~ Announces(1, e)
      BY <3>1, <3>2
    <3> QED
      BY <1>14, <3>2, <3>4, <3>5
  <2>2. ASSUME NEW k, NEW e, Brings(k, e)'
        PROVE  e \notin Objects /\ \A l : Brings(l, e)' => l = k
    BY <1>14, <2>2 DEF FreshOK
  <2> QED
    BY <1>3, <2>1, <2>2 DEF FreshOK
<1> QED
  BY <1>8, <1>10, <1>12, <1>15


\* What the client has, and what is still to come, after a message.
LEMMA ReceiveKeeps ==
    ASSUME IInv, ClientReceive
    PROVE  IInv'
<1> DEFINE m == Head(toClient)
<1>1. TypeOK /\ HandsOK /\ MessagesOK /\ FreshOK /\ SingleOK /\ FailsByRefusal /\ ServerOK /\ failed = {} /\ Follows
  BY DEF IInv, ClientReceive, ClientRuns
<1>2. FreshOK' /\ SingleOK' /\ MessagesOK' /\ game_events' \in Seq(Events)
  BY <1>1, ReceivedFresh
<1>3. /\ toClient \in Seq(Seq(Events)) /\ toClient # <<>> /\ toClient' = Tail(toClient)
      /\ game_events \in Seq(Events)
      /\ UNCHANGED <<objectVars, serverVars, toServer, refused, failed>>
  BY <1>1 DEF TypeOK, ClientReceive
<1>4. stage = "joining" \/ (stage \in {"playing", "stopping"} /\ game_events = <<>>)
  BY DEF ClientReceive
<1>5. \/ /\ m[1].type = "config" /\ m_bGameConfigStarted' = TRUE /\ UNCHANGED <<stage, game_events>>
      \/ /\ m[1].type = "finished" /\ stage' = (IF stage = "joining" THEN "playing" ELSE stage)
         /\ UNCHANGED <<m_bGameConfigStarted, game_events>>
      \/ /\ m[1].type \notin {"config", "finished"} /\ game_events' = game_events \o Taken(m)
         /\ UNCHANGED <<m_bGameConfigStarted, stage>>
  BY DEF ClientReceive
<1>6. /\ toClient' \in Seq(Seq(Events)) /\ m = toClient[1] /\ m \in Seq(Events)
      /\ \A t : Says(1, t) <=> m[1].type = t
  BY <1>3, TailSays
<1>7. Shape(m) /\ Len(m) >= 1 /\ m # <<>> /\ m[1] = Head(m)
  <2>1. 1 \in 1 .. Len(toClient)
    BY <1>3
  <2> QED
    BY <1>1, <1>6, <2>1 DEF MessagesOK, Shape
<1> HIDE DEF m
<1>8. /\ m[1].type = "config" => stage = "joining" /\ ~ m_bGameConfigStarted
      /\ m[1].type = "finished" => ~ Waiting
  <2>1. m[1].type = "config" => stage = "joining" /\ ~ m_bGameConfigStarted
    BY <1>1, <1>6 DEF MessagesOK
  <2>2. ASSUME m[1].type = "finished", Waiting
        PROVE  FALSE
    <3>1. PICK k : Says(k, "config") /\ k < 1
      BY <1>1, <1>6, <2>2 DEF MessagesOK, Waiting
    <3>2. k \in Nat /\ k > 0
      BY <1>3, <3>1, TailSays
    <3> QED
      BY <3>1, <3>2
  <2> QED
    BY <2>1, <2>2
<1>9. Objects' = Objects /\ Served' = Served /\ ServerOK' /\ HandsOK' /\ FailsByRefusal' /\ ObjectTypeOK'
  BY <1>1, <1>3 DEF TypeOK, ObjectTypeOK, Objects, Served, ServerOK, HandsOK, FailsByRefusal,
                    objectVars, listVars, handVars, serverVars
<1>10. stage' \in Stage /\ m_bGameConfigStarted' \in BOOLEAN
  BY <1>1, <1>5 DEF TypeOK, Stage
<1>11. TypeOK'
  BY <1>1, <1>2, <1>3, <1>6, <1>9, <1>10 DEF TypeOK, serverVars
<1>12. \A v : Stands(v)' <=> Stands(v)
  BY <1>3, <1>9 DEF Stands, objectVars, handVars
<1>13. PICK a \in View, b \in View, J \in Seq(Events), q \in Seq(Events) : FollowsFrom(a, b, J, q)
  BY <1>1 DEF Follows
<1>14. Following
  BY <1>4 DEF Following
<1>15. PICK c \in View : LeadsAll(toClient, c, Served) /\ (Waiting \/ c = b)
  BY <1>13, <1>14 DEF FollowsFrom
<1>16. PICK d \in View : Leads(m, c, d) /\ LeadsAll(toClient', d, Served')
  BY <1>3, <1>9, <1>15, LeadsAllHead DEF m
<1>17. Following'
  BY <1>4, <1>5 DEF Following
<1>18. \A x, y : Leads(<<>>, x, y) /\ x \in View => y = x
  BY LeadsFacts
<1>19. <<>> \in Seq(Events)
  OBVIOUS
<1>20. CASE m[1].type = "config"
  <2>1. Waiting /\ ~ Waiting' /\ game_events' = game_events /\ stage' = "joining"
    BY <1>5, <1>8, <1>20 DEF Waiting
  <2>2. Objects = {} /\ q = <<>> /\ game_events = J
    BY <1>1, <1>13, <2>1 DEF FollowsFrom, MessagesOK, Waiting
  <2>3. PICK f \in View : Turn(Head(m), c, f) /\ Leads(Tail(m), f, d)
    BY <1>6, <1>7, <1>16, LeadsHead
  <2>4. Tail(m) = <<>>
    <3>1. Len(m) = 1
      <4>1. 1 \in 1 .. Len(m)
        BY <1>6, <1>7
      <4> QED
        BY <1>7, <1>20, <4>1 DEF Shape
    <3> QED
      BY <1>6, <3>1, SeqNone
  <2>5. d = Nobody
    <3>1. f = Nobody
      BY <1>7, <1>20, <2>3 DEF Turn
    <3> QED
      BY <1>18, <2>3, <2>4, <3>1
  <2>6. Stands(Nobody)
    <3>1. refused = {} /\ \A e \in ID : Parent[e] = NoID
      BY <1>13, <2>2 DEF FollowsFrom, Stands
    <3> QED
      BY <2>2, <3>1 DEF Stands
  <2>7. FollowsFrom(Nobody, Nobody, J, <<>>)'
    <3>1. game_events' = J \o <<>>
      BY <2>1, <2>2
    <3>2. \A k \in 1 .. Len(J) : J[k].type \in {"take", "reject", "destroy"}
      BY <1>13 DEF FollowsFrom
    <3>3. Stands(Nobody)' /\ Leads(<<>>, Nobody, Nobody) /\ Nobody.alive = {}
      BY <1>12, <2>5, <2>6, LeadsFacts DEF Nobody
    <3>4. \E v \in View : LeadsAll(toClient', v, Served') /\ v = Nobody
      BY <1>16, <2>5
    <3> QED
      BY <1>9, <2>2, <3>1, <3>2, <3>3, <3>4 DEF FollowsFrom
  <2>8. Follows'
    BY <1>19, <2>5, <2>7 DEF Follows
  <2> QED
    BY <1>2, <1>9, <1>11, <2>8 DEF IInv
<1>21. CASE m[1].type = "finished"
  <2>1. ~ Waiting /\ ~ Waiting' /\ game_events' = game_events /\ m_bGameConfigStarted' = m_bGameConfigStarted
        /\ (stage' = stage \/ stage = "joining")
    BY <1>5, <1>8, <1>21 DEF Waiting
  <2>2. c = b
    BY <1>15, <2>1
  <2>3. PICK f \in View : Turn(Head(m), c, f) /\ Leads(Tail(m), f, d)
    BY <1>6, <1>7, <1>16, LeadsHead
  <2>4. Tail(m) = <<>>
    <3>1. Len(m) = 1
      <4>1. 1 \in 1 .. Len(m)
        BY <1>6, <1>7
      <4> QED
        BY <1>7, <1>21, <4>1 DEF Shape
    <3> QED
      BY <1>6, <3>1, SeqNone
  <2>5. d = b
    <3>1. f = c
      BY <1>7, <1>21, <2>3 DEF Turn
    <3> QED
      BY <1>18, <2>2, <2>3, <2>4, <3>1
  <2>6. FollowsFrom(a, b, J, q)'
    <3>1. stage' \in {"joining", "playing"} => stage \in {"joining", "playing"}
      BY <1>5, <1>21
    <3>2. Stands(a)'
      BY <1>12, <1>13 DEF FollowsFrom
    <3>3. \E v \in View : LeadsAll(toClient', v, Served') /\ v = b
      BY <1>16, <2>5
    <3> QED
      BY <1>9, <1>13, <2>1, <3>1, <3>2, <3>3 DEF FollowsFrom
  <2>7. Follows'
    BY <2>6 DEF Follows
  <2> QED
    BY <1>2, <1>9, <1>11, <2>7 DEF IInv
<1>22. CASE m[1].type \notin {"config", "finished"}
  <2>1. game_events' = game_events \o Taken(m) /\ UNCHANGED <<m_bGameConfigStarted, stage>>
    BY <1>5, <1>22
  <2>2. (Waiting' <=> Waiting) /\ (Following' <=> Following)
    BY <2>1 DEF Waiting, Following
  <2>3. Stands(a)'
    BY <1>12, <1>13 DEF FollowsFrom
  <2>4. Taken(m) \in Seq(Events)
    BY <1>6, <1>19 DEF Taken
  <2>5. CASE Waiting
    <3>1. \A k \in 1 .. Len(Taken(m)) : Taken(m)[k].type \in {"take", "reject", "destroy"}
      <4>1. CASE m[1].type = "spawn"
        BY <2>5, <4>1 DEF Taken, Waiting
      <4>2. CASE m[1].type # "spawn" /\ Len(m) = 1
        <5>1. m[1].type \in EventTypes
          <6>1. m[1] \in Events
            BY <1>6, <1>7
          <6> QED
            BY <6>1 DEF Events
        <5>2. \A k \in 1 .. 1 : k = 1
          OBVIOUS
        <5> QED
          BY <1>22, <4>2, <5>1, <5>2 DEF Taken, EventTypes
      <4>3. CASE \A k \in 1 .. Len(m) : m[k].type \in {"take", "reject", "destroy"}
        BY <4>3 DEF Taken
      <4> QED
        BY <1>7, <4>1, <4>2, <4>3 DEF Shape
    <3>0. PICK K \in Seq(Events) : K = J \o Taken(m)
      BY <2>4, SeqJoin
    <3>2. q = <<>> /\ game_events = J /\ Objects = {}
      BY <1>1, <1>13, <2>5 DEF FollowsFrom, Waiting, MessagesOK
    <3>3. \A k \in 1 .. Len(K) : K[k].type \in {"take", "reject", "destroy"}
      <4>1. /\ Len(J) \in Nat /\ Len(Taken(m)) \in Nat /\ K \in Seq(Events) /\ Len(K) = Len(J) + Len(Taken(m))
            /\ \A k \in 1 .. Len(J) : K[k] = J[k]
            /\ \A k \in 1 .. Len(Taken(m)) : K[Len(J) + k] = Taken(m)[k]
        BY <2>4, <3>0, SeqParts
      <4>2. \A k \in 1 .. Len(J) : J[k].type \in {"take", "reject", "destroy"}
        BY <1>13 DEF FollowsFrom
      <4>3. \A k \in 1 .. Len(K) : k \in 1 .. Len(J) \/ (k - Len(J) \in 1 .. Len(Taken(m)) /\ k = Len(J) + (k - Len(J)))
        BY <4>1
      <4> QED
        BY <3>1, <4>1, <4>2, <4>3
    <3>4. game_events' = K /\ K = K \o <<>>
      BY <2>1, <3>0, <3>2
    <3>5. Leads(<<>>, a, a) /\ a = b
      BY <1>13, <3>2, LeadsFacts DEF FollowsFrom
    <3>6. FollowsFrom(a, a, K, <<>>)'
      <4>1. \E v \in View : LeadsAll(toClient', v, Served')
        BY <1>16
      <4> QED
        BY <1>9, <2>1, <2>2, <2>3, <2>5, <3>2, <3>3, <3>4, <3>5, <4>1 DEF FollowsFrom, Waiting
    <3>7. Follows'
      BY <1>19, <3>3, <3>6 DEF Follows
    <3> QED
      BY <1>2, <1>9, <1>11, <3>7 DEF IInv
  <2>6. CASE ~ Waiting /\ Taken(m) = m
    <3>1. c = b
      BY <1>15, <2>6
    <3>0. PICK r \in Seq(Events) : r = q \o m
      BY <1>6, SeqJoin
    <3>2. Leads(r, a, d)
      <4>1. Leads(q, a, b)
        BY <1>13 DEF FollowsFrom
      <4> QED
        BY <1>6, <1>16, <3>0, <3>1, <4>1, LeadsFacts
    <3>3. game_events' = J \o r
      <4>1. game_events = J \o q
        BY <1>13 DEF FollowsFrom
      <4>2. game_events' = game_events \o m
        BY <2>1, <2>6
      <4>3. Joins(game_events, J, q) /\ Joins(game_events', game_events, m) /\ Joins(r, q, m)
        BY <3>0, <4>1, <4>2 DEF Joins
      <4>4. Joins(game_events', J, r)
        BY <1>6, <4>3, SeqAssoc
      <4> QED
        BY <4>4 DEF Joins
    <3>4. FollowsFrom(a, d, J, r)'
      <4>1. \E v \in View : LeadsAll(toClient', v, Served') /\ v = d
        BY <1>16
      <4> QED
        BY <1>9, <1>13, <2>1, <2>2, <2>3, <2>6, <3>2, <3>3, <4>1 DEF FollowsFrom
    <3>5. Follows'
      BY <3>2, <3>4 DEF Follows
    <3> QED
      BY <1>2, <1>9, <1>11, <3>5 DEF IInv
  <2>7. CASE ~ Waiting /\ Taken(m) # m
    <3>1. m[1].type = "spawn" /\ ~ m_bGameConfigStarted /\ Taken(m) = <<>>
      BY <2>7 DEF Taken
    <3>2. stage = "stopping" /\ game_events = <<>>
      BY <1>1, <1>4, <2>7, <3>1 DEF Waiting, MessagesOK
    <3>3. J = <<>> /\ q = <<>>
      <4>1. game_events = J \o q
        BY <1>13 DEF FollowsFrom
      <4> QED
        BY <3>2, <4>1, SeqsNone
    <3>4. a = b /\ c = b
      BY <1>13, <1>15, <2>7, <3>3, <1>18 DEF FollowsFrom
    <3>5. PICK f \in View : Turn(Head(m), c, f) /\ Leads(Tail(m), f, d)
      BY <1>6, <1>7, <1>16, LeadsHead
    <3>6. Tail(m) = <<>>
      <4>1. Len(m) = 1
        <5>1. 1 \in 1 .. Len(m)
          BY <1>6, <1>7
        <5> QED
          BY <1>7, <3>1, <5>1 DEF Shape
      <4> QED
        BY <1>6, <4>1, SeqNone
    <3>7. d = f
      BY <1>18, <3>5, <3>6
    <3> DEFINE e == m[1].id
               p == m[1].parent
    <3>8. e \in ID \ a.alive /\ d.alive = a.alive \union {e} /\ d.hand = [a.hand EXCEPT ![e] = p]
      BY <1>7, <3>1, <3>4, <3>5, <3>7 DEF Turn
    <3>9. e \notin Objects
      <4>1. Announces(1, e)
        BY <1>1, <1>6, <3>1, <3>2 DEF Announces, Live, MessagesOK
      <4> QED
        BY <1>1, <4>1 DEF FreshOK
    <3> HIDE DEF e, p
    <3>10. Stands(d)
      <4>1. Stands(a)
        BY <1>13 DEF FollowsFrom
      <4>2. \A x \in ID : x # e => d.hand[x] = a.hand[x]
        BY <3>8 DEF View
      <4>3. Parent[e] = NoID
        BY <3>8, <3>9, <4>1 DEF Stands
      <4>4. Objects \subseteq ID /\ refused \subseteq Objects
        BY <1>1, <4>1 DEF TypeOK, ObjectTypeOK, Objects, Stands
      <4> QED
        BY <3>8, <3>9, <4>1, <4>2, <4>3, <4>4 DEF Stands
    <3>11. FollowsFrom(d, d, <<>>, <<>>)'
      <4>1. game_events' = <<>> \o <<>>
        BY <2>1, <3>1, <3>2
      <4>2. Leads(<<>>, d, d) /\ Stands(d)' /\ \A k \in 1 .. Len(<<>>) : FALSE
        BY <1>12, <3>10, LeadsFacts
      <4>3. \E v \in View : LeadsAll(toClient', v, Served') /\ v = d
        BY <1>16
      <4>4. stage' = "stopping"
        BY <2>1, <3>2
      <4> QED
        BY <4>1, <4>2, <4>3, <4>4 DEF FollowsFrom
    <3>12. Follows'
      BY <1>19, <3>11 DEF Follows
    <3> QED
      BY <1>2, <1>9, <1>11, <3>12 DEF IInv
  <2> QED
    BY <2>5, <2>6, <2>7
<1> QED
  BY <1>20, <1>21, <1>22


-----------------------------------------------------------------------------
(* The client runs its events.                                             *)

\* The event is one of before the configuration, of nobody the client has, or
\* is true of where it stands and leads on.
LEMMA RunTurn ==
    ASSUME IInv, NEW t, Running(t), Done
    PROVE  \E a \in View :
              /\ Stands(a) /\ (stage = "playing" => a.alive \subseteq Objects)
              /\ \/ /\ Objects = {} /\ t \in {"take", "reject", "destroy"}
                    /\ UNCHANGED <<objectVars, refused>> => Follows'
                 \/ \E c \in View :
                      /\ Turn(Head(game_events), a, c)
                      /\ Stands(c)' /\ (stage = "playing" => c.alive \subseteq Objects') => Follows'
<1>1. TypeOK /\ MessagesOK /\ Follows
  BY DEF IInv, Running, InFrames, ClientRuns
<1>2. /\ game_events # <<>> /\ Head(game_events).type = t /\ game_events \in Seq(Events)
      /\ stage \in {"playing", "stopping", "rejecting", "destroying"}
      /\ game_events' = Tail(game_events)
      /\ UNCHANGED <<serverVars, stage, m_bGameConfigStarted, toClient>>
  BY <1>1 DEF Running, Done, InFrames, Stage, TypeOK
<1>3. ~ Waiting /\ ~ Waiting' /\ (Following' <=> Following) /\ Served' = Served
  BY <1>2 DEF Waiting, Following, Served, serverVars
<1>4. PICK a \in View, b \in View, J \in Seq(Events), q \in Seq(Events) : FollowsFrom(a, b, J, q)
  BY <1>1 DEF Follows
<1>5. Stands(a) /\ (stage = "playing" => a.alive \subseteq Objects)
  BY <1>1, <1>4 DEF FollowsFrom, MessagesOK
<1>6. game_events = J \o q
  BY <1>4 DEF FollowsFrom
<1>7. Following => \E v \in View : LeadsAll(toClient, v, Served) /\ v = b
  BY <1>3, <1>4 DEF FollowsFrom
<1>8. CASE J # <<>>
  <2>1. Objects = {} /\ \A k \in 1 .. Len(J) : J[k].type \in {"take", "reject", "destroy"}
    BY <1>4, <1>8 DEF FollowsFrom
  <2>2. PICK K \in Seq(Events) : K = Tail(J)
    <3>1. Tail(J) \in Seq(Events)
      BY <1>8
    <3> QED
      BY <3>1, Zenon
  <2>3. Len(J) >= 1 /\ Head(game_events) = J[1] /\ game_events' = K \o q
    BY <1>2, <1>6, <1>8, <2>2, HeadJoin
  <2>4. t \in {"take", "reject", "destroy"}
    <3>1. 1 \in 1 .. Len(J)
      BY <2>3
    <3> QED
      BY <1>2, <2>1, <2>3, <3>1
  <2>5. \A k \in 1 .. Len(K) : K[k].type \in {"take", "reject", "destroy"}
    <3>1. \A k \in 1 .. Len(K) : k + 1 \in 1 .. Len(J) /\ K[k] = J[k + 1]
      BY <1>8, <2>2
    <3> QED
      BY <2>1, <3>1
  <2>6. ASSUME UNCHANGED <<objectVars, refused>>
        PROVE  Follows'
    <3>1. Objects' = Objects /\ (Stands(a)' <=> Stands(a))
      BY <2>6 DEF Objects, Stands, objectVars, listVars, handVars
    <3>2. FollowsFrom(a, b, K, q)'
      BY <1>2, <1>3, <1>4, <1>7, <2>1, <2>3, <2>5, <3>1 DEF FollowsFrom
    <3> QED
      BY <3>2 DEF Follows
  <2> QED
    BY <1>5, <2>1, <2>4, <2>6
<1>9. CASE J = <<>>
  <2>1. game_events = q
    BY <1>6, <1>9
  <2>2. Leads(game_events, a, b)
    BY <1>4, <2>1 DEF FollowsFrom
  <2>3. PICK c \in View : Turn(Head(game_events), a, c) /\ Leads(game_events', c, b)
    BY <1>2, <2>2, LeadsHead
  <2>4. ASSUME Stands(c)', stage = "playing" => c.alive \subseteq Objects'
        PROVE  Follows'
    <3>1. PICK r \in Seq(Events) : r = Tail(game_events)
      <4>1. Tail(game_events) \in Seq(Events)
        BY <1>2
      <4> QED
        BY <4>1, Zenon
    <3>2. game_events' = <<>> \o r /\ game_events' = r /\ \A k \in 1 .. Len(<<>>) : FALSE
      BY <1>2, <3>1
    <3>3. stage' # "joining" /\ (stage' = "playing" => stage = "playing")
      BY <1>2
    <3>4. FollowsFrom(c, b, <<>>, r)'
      BY <1>2, <1>3, <1>7, <2>3, <2>4, <3>2, <3>3 DEF FollowsFrom
    <3>5. <<>> \in Seq(Events)
      OBVIOUS
    <3> QED
      BY <3>4, <3>5 DEF Follows
  <2> QED
    BY <1>5, <2>3, <2>4
<1> QED
  BY <1>8, <1>9

\* What stays when an event has been run.
LEMMA RunKeeps ==
    ASSUME IInv, NEW t, Running(t), Done,
           Objects' = IF t = "spawn" THEN Objects \union {Head(game_events).id} ELSE Objects,
           ObjectTypeOK', refused' \subseteq ID, toServer' \in Seq(Events), HandsOK',
           failed' \subseteq {"client", "server"}, FailsByRefusal', failed' = {} => Follows'
    PROVE  IInv'
<1>1. TypeOK /\ MessagesOK /\ FreshOK /\ SingleOK /\ ServerOK
  BY DEF IInv
<1>2. /\ game_events # <<>> /\ Head(game_events).type = t /\ game_events \in Seq(Events)
      /\ stage \in {"playing", "stopping", "rejecting", "destroying"}
      /\ game_events' = Tail(game_events)
      /\ UNCHANGED <<serverVars, stage, m_bGameConfigStarted, toClient>>
  BY <1>1 DEF Running, Done, InFrames, Stage, TypeOK
<1>3. TypeOK' /\ ServerOK'
  BY <1>1, <1>2 DEF TypeOK, ServerOK, serverVars
<1>4. MessagesOK'
  BY <1>1, <1>2 DEF MessagesOK, Says, serverVars
<1>5. /\ game_events' \in Seq(Events) /\ Head(game_events) = game_events[1] /\ 1 \in 1 .. Len(game_events)
      /\ \A k \in 1 .. Len(game_events') :
            /\ k + 1 \in 1 .. Len(game_events) /\ game_events'[k] = game_events[k + 1]
            /\ k \in Nat /\ k + 1 # 1
  BY <1>2
<1>6. ASSUME NEW k, NEW e, Brings(k, e)'
      PROVE  Brings(k + 1, e) /\ k \in Nat /\ k + 1 # 1
  BY <1>5, <1>6 DEF Brings
<1>7. \A m, e : Announces(m, e)' <=> Announces(m, e)
  BY <1>2 DEF Announces, Says, Live
<1>8. t = "spawn" => Brings(1, Head(game_events).id)
  BY <1>2, <1>5 DEF Brings
<1>9. FreshOK'
  <2>1. ASSUME NEW m, NEW e, Announces(m, e)'
        PROVE  e \notin Objects' /\ (\A n : Announces(n, e)' => n = m) /\ \A k : ~ Brings(k, e)'
    BY <1>1, <1>6, <1>7, <1>8, <2>1 DEF FreshOK
  <2>2. ASSUME NEW k, NEW e, Brings(k, e)'
        PROVE  e \notin Objects' /\ \A l : Brings(l, e)' => l = k
    <3>1. Brings(k + 1, e) /\ k \in Nat /\ k + 1 # 1
      BY <1>6, <2>2
    <3>2. e \notin Objects /\ \A l : Brings(l, e) => l = k + 1
      BY <1>1, <3>1 DEF FreshOK
    <3>3. \A l : Brings(l, e)' => l \in Nat /\ l + 1 = k + 1
      BY <1>6, <3>2
    <3>4. \A l : Brings(l, e)' => l = k
      BY <3>1, <3>3
    <3>5. ~ Brings(1, e)
      BY <3>1, <3>2
    <3> QED
      BY <1>8, <3>2, <3>4, <3>5
  <2> QED
    BY <2>1, <2>2 DEF FreshOK
<1>10. SingleOK'
  <2>1. Objects \subseteq Objects'
    OBVIOUS
  <2>2. single' = single /\ departed' = departed
    BY <1>2 DEF serverVars
  <2> QED
    BY <1>1, <1>2, <1>5, <2>1, <2>2 DEF SingleOK
<1> QED
  BY <1>3, <1>4, <1>9, <1>10 DEF IInv


\* What stands for the client in an event, of the objects it has.
LEMMA StandsFacts ==
    ASSUME IInv, NEW a \in View, Stands(a)
    PROVE  /\ Objects \subseteq ID /\ refused \subseteq Objects /\ destroy_queue \subseteq Objects
           /\ map_NETID = Objects /\ NoID \notin ID
           /\ Parent \in [ID -> ID \union {NoID}] /\ m_all \in [ID -> SUBSET ID]
           /\ \A e \in ID : /\ a.hand[e] # NoID => e \in a.alive /\ a.hand[e] \in a.alive
                            /\ a.hand[e] \in ID \union {NoID}
                            /\ Parent[e] \in {a.hand[e], NoID}
                            /\ e \notin Objects => Parent[e] = NoID
           /\ a.alive \subseteq ID /\ a.hand \in [ID -> ID \union {NoID}]
BY ObjectAssumption DEF IInv, TypeOK, ObjectTypeOK, HandsOK, Stands, View, Objects

\* GE_OWNERSHIP_TAKE, of somebody there.
LEMMA TakenHands ==
    ASSUME IInv, NEW p \in Objects, NEW e \in ID, Parent[e] = NoID, e \notin destroy_queue, e \notin refused,
           TakesOrRefuses(p, e)
    PROVE  /\ Parent' \in [ID -> ID \union {NoID}] /\ m_all' \in [ID -> SUBSET ID]
           /\ \A x, y \in ID : y \in m_all'[x] <=> Parent'[y] = x
           /\ \A y \in ID : y # e => Parent'[y] = Parent[y]
           /\ \/ Parent'[e] = p /\ refused' = refused /\ toServer' = toServer
              \/ /\ Parent'[e] = NoID /\ refused' = refused \union {e} /\ single
                 /\ UNCHANGED handVars /\ toServer' = Append(toServer, Event("reject", p, e))
           /\ toServer' \in Seq(Events) /\ refused' \subseteq ID
<1>1. /\ Parent \in [ID -> ID \union {NoID}] /\ m_all \in [ID -> SUBSET ID] /\ p \in ID /\ NoID \notin ID
      /\ refused \subseteq ID /\ toServer \in Seq(Events)
      /\ \A x, y \in ID : y \in m_all[x] <=> Parent[y] = x
  BY ObjectAssumption DEF IInv, TypeOK, ObjectTypeOK, HandsOK, Objects
<1>2. Event("reject", p, e) \in Events
  BY <1>1 DEF Event, Events, EventTypes
<1>3. CASE Attached(p, e) /\ UNCHANGED <<refused, toServer>>
  <2>1. /\ Parent' = [Parent EXCEPT ![e] = p] /\ m_all' = [m_all EXCEPT ![p] = @ \union {e}]
        /\ refused' = refused /\ toServer' = toServer
    BY <1>3 DEF Attached
  <2>2. \A y \in ID : Parent'[y] = IF y = e THEN p ELSE Parent[y]
    BY <1>1, <2>1
  <2>3. \A x \in ID : m_all'[x] = IF x = p THEN m_all[x] \union {e} ELSE m_all[x]
    BY <1>1, <2>1
  <2>4. Parent' \in [ID -> ID \union {NoID}] /\ m_all' \in [ID -> SUBSET ID]
    BY <1>1, <2>1
  <2> QED
    BY <1>1, <2>1, <2>2, <2>3, <2>4
<1>4. CASE /\ e \in destroy_queue \/ Creature(p)
           /\ refused' = refused \union {e} /\ toServer' = Append(toServer, Event("reject", p, e))
           /\ UNCHANGED handVars
  <2>1. single
    BY <1>4 DEF Creature
  <2>2. Append(toServer, Event("reject", p, e)) \in Seq(Events)
    BY <1>1, <1>2
  <2> QED
    BY <1>1, <1>4, <2>1, <2>2 DEF handVars
<1> QED
  BY <1>3, <1>4 DEF TakesOrRefuses

\* A new object.
LEMMA OnSpawnKeeps ==
    ASSUME IInv, OnSpawn
    PROVE  IInv'
<1> DEFINE ev == Head(game_events)
           p == Head(game_events).parent
           e == Head(game_events).id
<1>1. Running("spawn") /\ Done
  BY DEF OnSpawn
<1>2. TypeOK /\ HandsOK /\ FreshOK /\ FailsByRefusal /\ failed = {}
  BY <1>1 DEF IInv, Running, InFrames, ClientRuns
<1>3. /\ map_NETID' = map_NETID \union {e}
      /\ IF p \in map_NETID THEN TakesOrRefuses(p, e) ELSE UNCHANGED <<handVars, refused, toServer>>
      /\ objects_active' \union objects_sleeping' = objects_active \union objects_sleeping \union {e}
      /\ UNCHANGED <<destroy_queue, memory, failed>>
      /\ Processing(e, Parent'[e] = NoID)
  BY DEF OnSpawn, Processing
<1>4. ev.type = "spawn" /\ game_events # <<>> /\ game_events \in Seq(Events)
  BY <1>1, <1>2 DEF Running, TypeOK
<1>5. PICK a \in View, c \in View :
        /\ Stands(a) /\ (stage = "playing" => a.alive \subseteq Objects)
        /\ Turn(ev, a, c)
        /\ Stands(c)' /\ (stage = "playing" => c.alive \subseteq Objects') => Follows'
  BY <1>1, RunTurn
<1>6. /\ e \in ID \ a.alive /\ p \in a.alive \union {NoID}
      /\ c.alive = a.alive \union {e} /\ c.hand = [a.hand EXCEPT ![e] = p]
  BY <1>4, <1>5 DEF Turn
<1>7. e \notin Objects
  <2>1. Brings(1, e)
    BY <1>4 DEF Brings
  <2> QED
    BY <1>2, <2>1 DEF FreshOK
<1> HIDE DEF ev, p, e
<1>8. /\ Objects \subseteq ID /\ refused \subseteq Objects /\ destroy_queue \subseteq Objects
      /\ map_NETID = Objects /\ NoID \notin ID
      /\ Parent \in [ID -> ID \union {NoID}] /\ m_all \in [ID -> SUBSET ID]
      /\ \A x \in ID : /\ a.hand[x] # NoID => x \in a.alive /\ a.hand[x] \in a.alive
                       /\ a.hand[x] \in ID \union {NoID}
                       /\ x \notin Objects => Parent[x] = NoID
      /\ a.alive \subseteq ID /\ a.hand \in [ID -> ID \union {NoID}]
  BY <1>5, StandsFacts
<1>9. Objects' = Objects \union {e}
  BY <1>3 DEF Objects
<1>10. /\ Parent' \in [ID -> ID \union {NoID}] /\ m_all' \in [ID -> SUBSET ID]
       /\ (\A x, y \in ID : y \in m_all'[x] <=> Parent'[y] = x)
       /\ (\A y \in ID : y # e => Parent'[y] = Parent[y])
       /\ \/ p \in Objects /\ Parent'[e] = p /\ refused' = refused
          \/ p \in Objects /\ Parent'[e] = NoID /\ refused' = refused \union {e} /\ single
          \/ p \notin Objects /\ Parent'[e] = NoID /\ refused' = refused
       /\ toServer' \in Seq(Events) /\ refused' \subseteq ID
  <2>1. CASE p \in Objects
    <3>1. TakesOrRefuses(p, e)
      BY <1>3, <1>8, <2>1
    <3>2. Parent[e] = NoID /\ e \notin destroy_queue /\ e \notin refused
      BY <1>6, <1>7, <1>8
    <3> QED
      BY <1>6, <2>1, <3>1, <3>2, TakenHands
  <2>2. CASE p \notin Objects
    <3>1. UNCHANGED <<handVars, refused, toServer>>
      BY <1>3, <1>8, <2>2
    <3> QED
      BY <1>2, <1>6, <1>7, <1>8, <2>2, <3>1 DEF handVars, HandsOK, TypeOK
  <2> QED
    BY <2>1, <2>2
<1>11. HandsOK'
  <2>1. map_NETID' = Objects' /\ destroy_queue' \subseteq Objects'
    BY <1>3, <1>8, <1>9
  <2>2. \A x \in ID : Parent'[x] # NoID => x \in Objects' /\ Parent'[x] \in Objects'
    BY <1>2, <1>6, <1>9, <1>10 DEF HandsOK
  <2>3. \A w \in Watcher : memory'[w] \subseteq Objects'
    BY <1>2, <1>3, <1>9 DEF HandsOK
  <2>4. ~ single' => refused' = {}
    BY <1>1, <1>2, <1>10 DEF HandsOK, Done, serverVars
  <2> QED
    BY <1>10, <2>1, <2>2, <2>3, <2>4 DEF HandsOK
<1>12. Stands(c)'
  <2>1. \A x \in ID : c.hand[x] = IF x = e THEN p ELSE a.hand[x]
    BY <1>6, <1>8
  <2>2. \A x \in ID : a.hand[x] # e
    <3>1. e # NoID /\ e \notin a.alive
      BY <1>6, <1>8
    <3>2. \A x \in ID : a.hand[x] # NoID => a.hand[x] \in a.alive
      BY <1>8
    <3> QED
      BY <3>1, <3>2
  <2>3. \A x \in Objects' : x \in destroy_queue' <=> x \notin c.alive
    BY <1>3, <1>5, <1>6, <1>7, <1>8, <1>9 DEF Stands
  <2>4. p # e
    BY <1>6, <1>8
  <2>5. ASSUME NEW x \in ID
        PROVE  Parent'[x] = IF x \in Objects' \ refused' /\ c.hand[x] \in Objects' THEN c.hand[x] ELSE NoID
    <3>1. CASE x = e
      BY <1>7, <1>8, <1>9, <1>10, <2>1, <2>4, <3>1
    <3>2. CASE x # e
      <4>1. Parent[x] = IF x \in Objects \ refused /\ a.hand[x] \in Objects THEN a.hand[x] ELSE NoID
        BY <1>5 DEF Stands
      <4>2. x \in Objects' \ refused' <=> x \in Objects \ refused
        BY <1>9, <1>10, <3>2
      <4>3. a.hand[x] \in Objects' <=> a.hand[x] \in Objects
        BY <1>9, <2>2
      <4>4. c.hand[x] = a.hand[x] /\ Parent'[x] = Parent[x]
        BY <1>10, <2>1, <3>2
      <4> QED
        BY <4>1, <4>2, <4>3, <4>4
    <3> QED
      BY <3>1, <3>2
  <2>6. ASSUME NEW x \in refused'
        PROVE  x \in Objects' /\ c.hand[x] \in Objects'
    <3>1. CASE x \in refused
      <4>1. x \in Objects /\ a.hand[x] \in Objects /\ x # e
        BY <1>5, <1>7, <3>1 DEF Stands
      <4> QED
        BY <1>8, <1>9, <2>1, <4>1
    <3>2. CASE x = e /\ p \in Objects
      BY <1>6, <1>9, <2>1, <3>2
    <3> QED
      BY <1>10, <3>1, <3>2
  <2> QED
    BY <2>3, <2>5, <2>6 DEF Stands
<1>13. Follows'
  BY <1>5, <1>6, <1>9, <1>12
<1>14. ObjectTypeOK'
  <2>1. objects_active' \subseteq ID /\ objects_sleeping' \subseteq ID \ objects_active'
    BY <1>2, <1>3, <1>6 DEF Processing, TypeOK, ObjectTypeOK
  <2>2. map_NETID' \subseteq ID /\ destroy_queue' \subseteq ID /\ memory' \in [Watcher -> SUBSET ID]
    BY <1>2, <1>3, <1>6 DEF TypeOK, ObjectTypeOK
  <2> QED
    BY <1>10, <2>1, <2>2 DEF ObjectTypeOK
<1>15. failed' \subseteq {"client", "server"} /\ FailsByRefusal'
  BY <1>2, <1>3 DEF FailsByRefusal
<1>16. Objects' = Objects \union {Head(game_events).id}
  BY <1>9 DEF e
<1> QED
  BY <1>1, <1>10, <1>11, <1>13, <1>14, <1>15, <1>16, RunKeeps


\* A taking.
LEMMA OnTakeKeeps ==
    ASSUME IInv, OnTake
    PROVE  IInv'
<1> DEFINE ev == Head(game_events)
           p == Head(game_events).parent
           e == Head(game_events).id
<1>1. Running("take") /\ Done
  BY DEF OnTake
<1>2. TypeOK /\ HandsOK /\ SingleOK /\ FailsByRefusal /\ failed = {}
  BY <1>1 DEF IInv, Running, InFrames, ClientRuns
<1>3. /\ IF {p, e} \subseteq map_NETID
         THEN /\ TakesOrRefuses(p, e)
              /\ IF Parent' = Parent THEN UNCHANGED listVars ELSE Processing(e, FALSE)
              /\ UNCHANGED failed
         ELSE /\ failed' = IF p \in map_NETID /\ Creature(p) THEN failed \union {"client"} ELSE failed
              /\ UNCHANGED <<listVars, handVars, refused, toServer>>
      /\ UNCHANGED <<map_NETID, destroy_queue, memory>>
  BY DEF OnTake
<1>4. ev.type = "take" /\ game_events # <<>> /\ game_events \in Seq(Events) /\ single' = single
  BY <1>1, <1>2 DEF Running, TypeOK, Done, serverVars
<1>5. PICK a \in View :
        /\ Stands(a) /\ (stage = "playing" => a.alive \subseteq Objects)
        /\ \/ Objects = {} /\ (UNCHANGED <<objectVars, refused>> => Follows')
           \/ \E c \in View :
                /\ Turn(ev, a, c)
                /\ Stands(c)' /\ (stage = "playing" => c.alive \subseteq Objects') => Follows'
  BY <1>1, RunTurn
<1>6. single => e \in Objects
  <2>1. 1 \in 1 .. Len(game_events) /\ game_events[1] = ev
    BY <1>4
  <2> QED
    BY <1>2, <1>4, <2>1 DEF SingleOK
<1>7. \A c : Turn(ev, a, c) => /\ {p, e} \subseteq a.alive /\ a.hand[e] = NoID
                               /\ c.alive = a.alive /\ c.hand = [a.hand EXCEPT ![e] = p]
  BY <1>4 DEF Turn, Handed
<1> HIDE DEF ev, p, e
<1>8. /\ Objects \subseteq ID /\ refused \subseteq Objects /\ destroy_queue \subseteq Objects
      /\ map_NETID = Objects /\ NoID \notin ID
      /\ Parent \in [ID -> ID \union {NoID}] /\ m_all \in [ID -> SUBSET ID]
      /\ \A x \in ID : /\ a.hand[x] # NoID => x \in a.alive /\ a.hand[x] \in a.alive
                       /\ a.hand[x] \in ID \union {NoID} /\ Parent[x] \in {a.hand[x], NoID}
                       /\ x \notin Objects => Parent[x] = NoID
      /\ a.alive \subseteq ID /\ a.hand \in [ID -> ID \union {NoID}]
  BY <1>5, StandsFacts
<1>9. CASE ~ ({p, e} \subseteq Objects)
  <2>1. UNCHANGED <<listVars, handVars, refused, toServer, map_NETID, destroy_queue, memory>> /\ failed' = failed
    <3>1. Creature(p) => e \in Objects
      BY <1>6 DEF Creature
    <3> QED
      BY <1>3, <1>8, <1>9, <3>1
  <2>2. UNCHANGED <<objectVars, refused>> /\ Objects' = Objects
    BY <2>1 DEF objectVars, listVars, Objects
  <2>3. ObjectTypeOK' /\ HandsOK' /\ FailsByRefusal' /\ refused' \subseteq ID /\ toServer' \in Seq(Events)
        /\ failed' \subseteq {"client", "server"}
    BY <1>2, <1>4, <2>1, <2>2 DEF TypeOK, ObjectTypeOK, HandsOK, FailsByRefusal, listVars, handVars
  <2>4. ASSUME NEW c \in View, Turn(ev, a, c)
        PROVE  Stands(c)' /\ (stage = "playing" => c.alive \subseteq Objects')
    <3>1. /\ {p, e} \subseteq a.alive /\ a.hand[e] = NoID
          /\ c.alive = a.alive /\ c.hand = [a.hand EXCEPT ![e] = p]
      BY <1>7, <2>4
    <3>2. e \in ID /\ Parent[e] = NoID /\ e \notin refused
      BY <1>5, <1>8, <3>1 DEF Stands
    <3>3. \A x \in ID : c.hand[x] = IF x = e THEN p ELSE a.hand[x]
      BY <1>8, <3>1
    <3>4. Stands(c)
      BY <1>5, <1>8, <1>9, <3>1, <3>2, <3>3 DEF Stands
    <3> QED
      BY <1>5, <2>1, <2>2, <3>1, <3>4 DEF Stands, handVars
  <2>5. Follows'
    BY <1>5, <2>2, <2>4
  <2>6. Objects' = IF "take" = "spawn" THEN Objects \union {Head(game_events).id} ELSE Objects
    BY <2>2
  <2> QED
    BY <1>1, <2>3, <2>5, <2>6, RunKeeps
<1>10. CASE {p, e} \subseteq Objects
  <2>1. PICK c \in View :
          /\ Turn(ev, a, c)
          /\ Stands(c)' /\ (stage = "playing" => c.alive \subseteq Objects') => Follows'
    BY <1>5, <1>10
  <2>2. /\ {p, e} \subseteq a.alive /\ a.hand[e] = NoID
        /\ c.alive = a.alive /\ c.hand = [a.hand EXCEPT ![e] = p]
    BY <1>7, <2>1
  <2>3. e \in ID /\ p \in ID /\ Parent[e] = NoID /\ e \notin refused /\ e \notin destroy_queue
    BY <1>5, <1>8, <1>10, <2>2 DEF Stands
  <2>4. TakesOrRefuses(p, e) /\ failed' = failed
        /\ (IF Parent' = Parent THEN UNCHANGED listVars ELSE Processing(e, FALSE))
        /\ UNCHANGED <<map_NETID, destroy_queue, memory>>
    BY <1>3, <1>8, <1>10
  <2>5. /\ Parent' \in [ID -> ID \union {NoID}] /\ m_all' \in [ID -> SUBSET ID]
        /\ (\A x, y \in ID : y \in m_all'[x] <=> Parent'[y] = x)
        /\ (\A y \in ID : y # e => Parent'[y] = Parent[y])
        /\ \/ Parent'[e] = p /\ refused' = refused
           \/ Parent'[e] = NoID /\ refused' = refused \union {e} /\ single
        /\ toServer' \in Seq(Events) /\ refused' \subseteq ID
    BY <1>10, <2>3, <2>4, TakenHands
  <2>6. Objects' = Objects /\ objects_active' \subseteq ID /\ objects_sleeping' \subseteq ID \ objects_active'
    BY <1>2, <1>10, <2>3, <2>4 DEF Objects, listVars, Processing, TypeOK, ObjectTypeOK
  <2>7. ObjectTypeOK' /\ FailsByRefusal' /\ failed' \subseteq {"client", "server"}
    BY <1>2, <2>4, <2>5, <2>6 DEF TypeOK, ObjectTypeOK, FailsByRefusal
  <2>8. HandsOK'
    <3>1. \A x \in ID : Parent'[x] # NoID => x \in Objects' /\ Parent'[x] \in Objects'
      BY <1>2, <1>10, <2>5, <2>6 DEF HandsOK
    <3>2. ~ single' => refused' = {}
      BY <1>2, <1>4, <2>5 DEF HandsOK
    <3> QED
      BY <1>2, <2>4, <2>5, <2>6, <3>1, <3>2 DEF HandsOK
  <2>9. \A x \in ID : c.hand[x] = IF x = e THEN p ELSE a.hand[x]
    BY <1>8, <2>2
  <2>10. Stands(c)'
    <3>1. \A x \in Objects' : x \in destroy_queue' <=> x \notin c.alive
      BY <1>5, <2>2, <2>4, <2>6 DEF Stands
    <3>2. ASSUME NEW x \in ID
          PROVE  Parent'[x] = IF x \in Objects' \ refused' /\ c.hand[x] \in Objects' THEN c.hand[x] ELSE NoID
      <4>1. CASE x = e
        BY <1>10, <2>3, <2>5, <2>6, <2>9, <4>1
      <4>2. CASE x # e
        <5>1. Parent[x] = IF x \in Objects \ refused /\ a.hand[x] \in Objects THEN a.hand[x] ELSE NoID
          BY <1>5 DEF Stands
        <5>2. x \in refused' <=> x \in refused
          BY <2>5, <4>2
        <5> QED
          BY <2>5, <2>6, <2>9, <4>2, <5>1, <5>2
      <4> QED
        BY <4>1, <4>2
    <3>3. ASSUME NEW x \in refused'
          PROVE  x \in Objects' /\ c.hand[x] \in Objects'
      <4>1. CASE x = e
        BY <1>10, <2>3, <2>6, <2>9, <4>1
      <4>2. CASE x # e
        <5>1. x \in refused /\ x \in ID
          BY <1>8, <2>5, <4>2
        <5> QED
          BY <1>5, <2>6, <2>9, <4>2, <5>1 DEF Stands
      <4> QED
        BY <4>1, <4>2
    <3> QED
      BY <3>1, <3>2, <3>3 DEF Stands
  <2>11. Follows'
    BY <1>5, <2>1, <2>2, <2>6, <2>10
  <2>12. Objects' = IF "take" = "spawn" THEN Objects \union {Head(game_events).id} ELSE Objects
    BY <2>6
  <2> QED
    BY <1>1, <2>5, <2>7, <2>8, <2>11, <2>12, RunKeeps
<1> QED
  BY <1>9, <1>10


\* A rejection.
LEMMA OnRejectKeeps ==
    ASSUME IInv, OnReject
    PROVE  IInv'
<1> DEFINE ev == Head(game_events)
           p == Head(game_events).parent
           e == Head(game_events).id
<1>1. Running("reject") /\ Done
  BY DEF OnReject
<1>2. TypeOK /\ HandsOK /\ FailsByRefusal /\ failed = {}
  BY <1>1 DEF IInv, Running, InFrames, ClientRuns
<1>3. /\ IF {p, e} \subseteq map_NETID /\ Owns(p, e)
         THEN Detached(p, e) /\ Processing(e, TRUE) /\ UNCHANGED failed
         ELSE /\ failed' = IF {p, e} \subseteq map_NETID THEN failed \union {"client"} ELSE failed
              /\ UNCHANGED <<listVars, handVars>>
      /\ UNCHANGED <<map_NETID, destroy_queue, memory, refused, toServer>>
  BY DEF OnReject
<1>4. ev.type = "reject" /\ game_events # <<>> /\ game_events \in Seq(Events) /\ single' = single
  BY <1>1, <1>2 DEF Running, TypeOK, Done, serverVars
<1>5. PICK a \in View :
        /\ Stands(a) /\ (stage = "playing" => a.alive \subseteq Objects)
        /\ \/ Objects = {} /\ (UNCHANGED <<objectVars, refused>> => Follows')
           \/ \E c \in View :
                /\ Turn(ev, a, c)
                /\ Stands(c)' /\ (stage = "playing" => c.alive \subseteq Objects') => Follows'
  BY <1>1, RunTurn
<1>6. \A c : Turn(ev, a, c) => /\ e \in ID /\ p # NoID /\ a.hand[e] = p
                               /\ c.alive = a.alive /\ c.hand = [a.hand EXCEPT ![e] = NoID]
  BY <1>4 DEF Turn, Handed
<1> HIDE DEF ev, p, e
<1>7. /\ Objects \subseteq ID /\ refused \subseteq Objects /\ destroy_queue \subseteq Objects
      /\ map_NETID = Objects /\ NoID \notin ID
      /\ Parent \in [ID -> ID \union {NoID}] /\ m_all \in [ID -> SUBSET ID]
      /\ \A x \in ID : /\ a.hand[x] # NoID => x \in a.alive /\ a.hand[x] \in a.alive
                       /\ a.hand[x] \in ID \union {NoID} /\ Parent[x] \in {a.hand[x], NoID}
                       /\ x \notin Objects => Parent[x] = NoID
      /\ a.alive \subseteq ID /\ a.hand \in [ID -> ID \union {NoID}]
  BY <1>5, StandsFacts
<1>8. CASE ~ ({p, e} \subseteq Objects)
  <2>1. UNCHANGED <<listVars, handVars, refused, toServer, map_NETID, destroy_queue, memory>> /\ failed' = failed
    BY <1>3, <1>7, <1>8
  <2>2. UNCHANGED <<objectVars, refused>> /\ Objects' = Objects
    BY <2>1 DEF objectVars, listVars, Objects
  <2>3. ObjectTypeOK' /\ HandsOK' /\ FailsByRefusal' /\ refused' \subseteq ID /\ toServer' \in Seq(Events)
        /\ failed' \subseteq {"client", "server"}
    BY <1>2, <1>4, <2>1, <2>2 DEF TypeOK, ObjectTypeOK, HandsOK, FailsByRefusal, listVars, handVars
  <2>4. ASSUME NEW c \in View, Turn(ev, a, c)
        PROVE  Stands(c)' /\ (stage = "playing" => c.alive \subseteq Objects')
    <3>1. /\ e \in ID /\ p # NoID /\ a.hand[e] = p
          /\ c.alive = a.alive /\ c.hand = [a.hand EXCEPT ![e] = NoID]
      BY <1>6, <2>4
    <3>2. e \notin refused /\ Parent[e] = NoID
      BY <1>5, <1>8, <3>1 DEF Stands
    <3>3. \A x \in ID : c.hand[x] = IF x = e THEN NoID ELSE a.hand[x]
      BY <1>7, <3>1
    <3>4. Stands(c)
      BY <1>5, <1>7, <3>1, <3>2, <3>3 DEF Stands
    <3> QED
      BY <1>5, <2>1, <2>2, <3>1, <3>4 DEF Stands, handVars
  <2>5. Follows'
    BY <1>5, <2>2, <2>4
  <2>6. Objects' = IF "reject" = "spawn" THEN Objects \union {Head(game_events).id} ELSE Objects
    BY <2>2
  <2> QED
    BY <1>1, <2>3, <2>5, <2>6, RunKeeps
<1>9. CASE {p, e} \subseteq Objects
  <2>1. PICK c \in View :
          /\ Turn(ev, a, c)
          /\ Stands(c)' /\ (stage = "playing" => c.alive \subseteq Objects') => Follows'
    BY <1>5, <1>9
  <2>2. /\ e \in ID /\ p # NoID /\ a.hand[e] = p
        /\ c.alive = a.alive /\ c.hand = [a.hand EXCEPT ![e] = NoID]
    BY <1>6, <2>1
  <2>3. p \in ID /\ e \in a.alive /\ e \notin destroy_queue
    BY <1>5, <1>7, <1>9, <2>2 DEF Stands
  <2>4. \A x \in ID : c.hand[x] = IF x = e THEN NoID ELSE a.hand[x]
    BY <1>7, <2>2
  <2>5. CASE e \in refused
    <3>1. Parent[e] = NoID
      BY <1>5, <2>2, <2>5 DEF Stands
    <3>2. ~ Owns(p, e)
      BY <2>2, <3>1 DEF Owns
    <3>3. UNCHANGED <<listVars, handVars, refused, toServer, map_NETID, destroy_queue, memory>>
          /\ failed' = failed \union {"client"}
      BY <1>3, <1>7, <1>9, <3>2
    <3>4. Objects' = Objects
      BY <3>3 DEF listVars, Objects
    <3>5. ObjectTypeOK' /\ HandsOK' /\ FailsByRefusal' /\ refused' \subseteq ID /\ toServer' \in Seq(Events)
          /\ failed' \subseteq {"client", "server"} /\ failed' # {}
      BY <1>2, <1>4, <2>5, <3>3, <3>4 DEF TypeOK, ObjectTypeOK, HandsOK, FailsByRefusal, listVars, handVars
    <3>6. Objects' = IF "reject" = "spawn" THEN Objects \union {Head(game_events).id} ELSE Objects
      BY <3>4
    <3> QED
      BY <1>1, <3>5, <3>6, RunKeeps
  <2>6. CASE e \notin refused
    <3>1. Parent[e] = p /\ e \in m_all[p]
      BY <1>2, <1>5, <1>9, <2>2, <2>3, <2>6 DEF Stands, HandsOK
    <3>2. Detached(p, e) /\ Processing(e, TRUE) /\ failed' = failed
          /\ UNCHANGED <<map_NETID, destroy_queue, memory, refused, toServer>>
      BY <1>3, <1>7, <1>9, <3>1 DEF Owns
    <3>3. m_all' = [m_all EXCEPT ![p] = @ \ {e}] /\ Parent' = [Parent EXCEPT ![e] = NoID]
      BY <2>3, <3>2 DEF Detached
    <3>4. \A x \in ID : Parent'[x] = IF x = e THEN NoID ELSE Parent[x]
      BY <1>7, <3>3
    <3>5. \A x \in ID : m_all'[x] = IF x = p THEN m_all[x] \ {e} ELSE m_all[x]
      BY <1>7, <3>3
    <3>6. Parent' \in [ID -> ID \union {NoID}] /\ m_all' \in [ID -> SUBSET ID]
      BY <1>7, <3>3
    <3>7. Objects' = Objects /\ objects_active' \subseteq ID /\ objects_sleeping' \subseteq ID \ objects_active'
      BY <1>2, <1>9, <2>2, <3>2 DEF Objects, Processing, TypeOK, ObjectTypeOK
    <3>8. ObjectTypeOK' /\ FailsByRefusal' /\ failed' \subseteq {"client", "server"}
          /\ refused' \subseteq ID /\ toServer' \in Seq(Events)
      BY <1>2, <3>2, <3>6, <3>7 DEF TypeOK, ObjectTypeOK, FailsByRefusal
    <3>9. HandsOK'
      <4>1. \A x, y \in ID : y \in m_all'[x] <=> Parent'[y] = x
        <5>1. \A x, y \in ID : y \in m_all[x] <=> Parent[y] = x
          BY <1>2 DEF HandsOK
        <5>2. ASSUME NEW x \in ID, NEW y \in ID
              PROVE  y \in m_all'[x] <=> Parent'[y] = x
          <6>1. CASE y = e
            <7>1. Parent'[y] # x
              BY <1>7, <3>4, <6>1
            <7>2. y \notin m_all'[x]
              <8>1. CASE x = p
                BY <3>5, <6>1, <8>1
              <8>2. CASE x # p
                <9>1. Parent[y] # x
                  BY <3>1, <6>1, <8>2
                <9> QED
                  BY <3>5, <5>1, <8>2, <9>1
              <8> QED
                BY <8>1, <8>2
            <7> QED
              BY <7>1, <7>2
          <6>2. CASE y # e
            <7>1. y \in m_all'[x] <=> y \in m_all[x]
              BY <3>5, <6>2
            <7> QED
              BY <3>4, <5>1, <6>2, <7>1
          <6> QED
            BY <6>1, <6>2
        <5> QED
          BY <5>2
      <4>2. \A x \in ID : Parent'[x] # NoID => x \in Objects' /\ Parent'[x] \in Objects'
        BY <1>2, <3>4, <3>7 DEF HandsOK
      <4> QED
        BY <1>2, <1>4, <3>2, <3>7, <4>1, <4>2 DEF HandsOK
    <3>10. Stands(c)'
      <4>1. \A x \in Objects' : x \in destroy_queue' <=> x \notin c.alive
        BY <1>5, <2>2, <3>2, <3>7 DEF Stands
      <4>2. ASSUME NEW x \in ID
            PROVE  Parent'[x] = IF x \in Objects' \ refused' /\ c.hand[x] \in Objects' THEN c.hand[x] ELSE NoID
        <5>1. Parent[x] = IF x \in Objects \ refused /\ a.hand[x] \in Objects THEN a.hand[x] ELSE NoID
          BY <1>5 DEF Stands
        <5> QED
          BY <2>4, <3>2, <3>4, <3>7, <5>1
      <4>3. ASSUME NEW x \in refused'
            PROVE  x \in Objects' /\ c.hand[x] \in Objects'
        <5>1. x \in refused /\ x \in ID /\ x # e
          BY <1>7, <2>6, <3>2
        <5> QED
          BY <1>5, <2>4, <3>7, <5>1 DEF Stands
      <4> QED
        BY <4>1, <4>2, <4>3 DEF Stands
    <3>11. Follows'
      BY <1>5, <2>1, <2>2, <3>7, <3>10
    <3>12. Objects' = IF "reject" = "spawn" THEN Objects \union {Head(game_events).id} ELSE Objects
      BY <3>7
    <3> QED
      BY <1>1, <3>8, <3>9, <3>11, <3>12, RunKeeps
  <2> QED
    BY <2>5, <2>6
<1> QED
  BY <1>8, <1>9

\* A destruction: of what carries nothing any more.
LEMMA OnDestroyKeeps ==
    ASSUME IInv, OnDestroy
    PROVE  IInv'
<1> DEFINE ev == Head(game_events)
           e == Head(game_events).id
<1>1. Running("destroy") /\ Done
  BY DEF OnDestroy
<1>2. TypeOK /\ HandsOK /\ FailsByRefusal /\ failed = {}
  BY <1>1 DEF IInv, Running, InFrames, ClientRuns
<1>3. /\ IF e \in map_NETID THEN setDestroy(e) ELSE UNCHANGED destroy_queue
      /\ UNCHANGED <<listVars, map_NETID, handVars, memory, refused, toServer, failed>>
  BY DEF OnDestroy
<1>4. ev.type = "destroy" /\ game_events # <<>> /\ game_events \in Seq(Events) /\ single' = single
  BY <1>1, <1>2 DEF Running, TypeOK, Done, serverVars
<1>5. PICK a \in View :
        /\ Stands(a) /\ (stage = "playing" => a.alive \subseteq Objects)
        /\ \/ Objects = {} /\ (UNCHANGED <<objectVars, refused>> => Follows')
           \/ \E c \in View :
                /\ Turn(ev, a, c)
                /\ Stands(c)' /\ (stage = "playing" => c.alive \subseteq Objects') => Follows'
  BY <1>1, RunTurn
<1>6. \A c : Turn(ev, a, c) => /\ e \in ID /\ a.hand[e] = NoID /\ (\A x \in ID : a.hand[x] # e)
                               /\ c.alive = a.alive \ {e} /\ c.hand = a.hand
  BY <1>4 DEF Turn
<1> HIDE DEF ev, e
<1>7. /\ Objects \subseteq ID /\ refused \subseteq Objects /\ destroy_queue \subseteq Objects
      /\ map_NETID = Objects /\ NoID \notin ID
      /\ \A x \in ID : Parent[x] \in {a.hand[x], NoID}
  BY <1>5, StandsFacts
<1>8. Objects' = Objects /\ handVars' = handVars
  BY <1>3 DEF Objects, listVars
<1>9. ASSUME NEW c \in View, Turn(ev, a, c)
      PROVE  /\ destroy_queue' = IF e \in Objects THEN destroy_queue \union {e} ELSE destroy_queue
             /\ Stands(c)' /\ (stage = "playing" => c.alive \subseteq Objects')
  <2>1. /\ e \in ID /\ a.hand[e] = NoID /\ (\A x \in ID : a.hand[x] # e)
        /\ c.alive = a.alive \ {e} /\ c.hand = a.hand
    BY <1>6, <1>9
  <2>2. WithChildren(e) = {e}
    <3>1. \A x \in Objects \ destroy_queue : Parent[x] # e
      BY <1>7, <2>1
    <3>2. {e} \in SUBSET ID /\ \A x \in Objects \ destroy_queue : Parent[x] \in {e} => x \in {e}
      BY <2>1, <3>1
    <3>3. WithChildren(e) \subseteq {e}
      BY <3>2 DEF WithChildren
    <3>4. e \in WithChildren(e)
      BY <2>1 DEF WithChildren
    <3> QED
      BY <3>3, <3>4
  <2>3. destroy_queue' = IF e \in Objects THEN destroy_queue \union {e} ELSE destroy_queue
    BY <1>3, <1>7, <2>2 DEF setDestroy
  <2>4. \A x \in Objects : x \in destroy_queue' <=> x \notin c.alive
    BY <1>5, <2>1, <2>3 DEF Stands
  <2>5. Stands(c)'
    BY <1>3, <1>5, <1>8, <2>1, <2>4 DEF Stands, handVars
  <2> QED
    BY <1>5, <1>8, <2>1, <2>3, <2>5
<1>10. Follows' /\ destroy_queue' \subseteq Objects
  <2>1. CASE Objects = {} /\ (UNCHANGED <<objectVars, refused>> => Follows')
    <3>1. UNCHANGED <<objectVars, refused>>
      BY <1>3, <1>7, <2>1 DEF objectVars
    <3> QED
      BY <1>7, <2>1, <3>1 DEF objectVars
  <2>2. CASE \E c \in View :
                /\ Turn(ev, a, c)
                /\ Stands(c)' /\ (stage = "playing" => c.alive \subseteq Objects') => Follows'
    BY <1>7, <1>9, <2>2
  <2> QED
    BY <1>5, <2>1, <2>2
<1>11. ObjectTypeOK' /\ HandsOK' /\ FailsByRefusal' /\ refused' \subseteq ID /\ toServer' \in Seq(Events)
       /\ failed' \subseteq {"client", "server"}
  BY <1>2, <1>3, <1>4, <1>7, <1>8, <1>10 DEF TypeOK, ObjectTypeOK, HandsOK, FailsByRefusal, listVars, handVars
<1>12. Objects' = IF "destroy" = "spawn" THEN Objects \union {Head(game_events).id} ELSE Objects
  BY <1>8
<1> QED
  BY <1>1, <1>10, <1>11, <1>12, RunKeeps


-----------------------------------------------------------------------------
(* The end of a frame.                                                     *)

\* Who is not there is not taken before he is spawned.
LEMMA NotBack ==
    ASSUME NEW m \in Seq(Events), NEW a, NEW b, Leads(m, a, b), NEW e \in ID, e \notin a.alive,
           \A k \in 1 .. Len(m) : ~ (m[k].type = "spawn" /\ m[k].id = e)
    PROVE  e \notin b.alive /\ \A k \in 1 .. Len(m) : ~ (m[k].type = "take" /\ m[k].id = e)
<1> DEFINE K == {x \in View : e \notin x.alive}
<1>1. /\ Turns(m) \in Seq(SUBSET (View \X View)) /\ Len(Turns(m)) = Len(m) /\ Len(m) \in Nat
      /\ \A k \in 1 .. Len(m) : Turns(m)[k] = TurnOf(m[k])
  BY TurnsType
<1>2. PICK v \in [0 .. Len(m) -> View] :
          /\ v[0] = a /\ v[Len(m)] = b
          /\ \A k \in 1 .. Len(m) : <<v[k - 1], v[k]>> \in Turns(m)[k]
  BY <1>1 DEF Leads, Chain
<1>3. ASSUME NEW k \in 1 .. Len(m)
      PROVE  Turn(m[k], v[k - 1], v[k]) /\ k - 1 \in 0 .. Len(m) /\ k \in 0 .. Len(m)
             /\ v[k - 1] \in View /\ v[k] \in View
  <2>1. k - 1 \in 0 .. Len(m) /\ k \in 0 .. Len(m)
    BY <1>1
  <2>2. v[k - 1] \in View /\ v[k] \in View
    BY <2>1
  <2>3. <<v[k - 1], v[k]>> \in TurnOf(m[k])
    BY <1>1, <1>2
  <2>4. Turn(m[k], v[k - 1], v[k])
    BY <2>3 DEF TurnOf
  <2> QED
    BY <2>1, <2>2, <2>4
<1>4. ASSUME NEW k \in 1 .. Len(m), v[k - 1] \in K
      PROVE  v[k] \in K
  <2>1. Turn(m[k], v[k - 1], v[k]) /\ v[k] \in View /\ e \notin v[k - 1].alive
    BY <1>3, <1>4
  <2>2. ~ (m[k].type = "spawn" /\ m[k].id = e)
    OBVIOUS
  <2>3. e \notin v[k].alive
    BY <2>1, <2>2 DEF Turn, Nobody, Handed
  <2> QED
    BY <2>1, <2>3
<1>5. v[0] \in K
  <2>1. 0 \in 0 .. Len(m)
    BY <1>1
  <2> QED
    BY <1>2, <2>1
<1> HIDE DEF K
<1>6. \A k \in 0 .. Len(m) : v[k] \in K
  <2>1. v \in [0 .. Len(Turns(m)) -> View] /\ \A k \in 1 .. Len(Turns(m)) : v[k - 1] \in K => v[k] \in K
    BY <1>1, <1>4
  <2>2. \A k \in 0 .. Len(Turns(m)) : v[k] \in K
    BY <1>1, <1>5, <2>1, ChainKeeps
  <2> QED
    BY <1>1, <2>2
<1>7. e \notin b.alive
  <2>1. Len(m) \in 0 .. Len(m)
    BY <1>1
  <2> QED
    BY <1>2, <1>6, <2>1 DEF K
<1>8. ASSUME NEW k \in 1 .. Len(m), m[k].type = "take", m[k].id = e
      PROVE  FALSE
  <2>1. e \notin v[k - 1].alive
    BY <1>3, <1>6 DEF K
  <2>2. e \in v[k - 1].alive
    BY <1>3, <1>8 DEF Turn
  <2> QED
    BY <2>1, <2>2
<1> QED
  BY <1>7, <1>8

\* The same of messages.
LEMMA NotBackAll ==
    ASSUME NEW ms \in Seq(Seq(Events)), NEW a, NEW b, LeadsAll(ms, a, b), NEW e \in ID, e \notin a.alive,
           \A j \in 1 .. Len(ms) : \A k \in 1 .. Len(ms[j]) : ~ (ms[j][k].type = "spawn" /\ ms[j][k].id = e)
    PROVE  \A j \in 1 .. Len(ms) : \A k \in 1 .. Len(ms[j]) : ~ (ms[j][k].type = "take" /\ ms[j][k].id = e)
<1> DEFINE K == {x \in View : e \notin x.alive}
<1>1. /\ LeadsOf(ms) \in Seq(SUBSET (View \X View)) /\ Len(LeadsOf(ms)) = Len(ms) /\ Len(ms) \in Nat
      /\ \A j \in 1 .. Len(ms) : LeadsOf(ms)[j] = LeadOf(ms[j])
  BY LeadsType
<1>2. PICK v \in [0 .. Len(ms) -> View] :
          /\ v[0] = a /\ v[Len(ms)] = b
          /\ \A j \in 1 .. Len(ms) : <<v[j - 1], v[j]>> \in LeadsOf(ms)[j]
  BY <1>1 DEF LeadsAll, Chain
<1>3. ASSUME NEW j \in 1 .. Len(ms)
      PROVE  Leads(ms[j], v[j - 1], v[j]) /\ j - 1 \in 0 .. Len(ms) /\ j \in 0 .. Len(ms)
             /\ v[j - 1] \in View /\ v[j] \in View /\ ms[j] \in Seq(Events)
  <2>1. j - 1 \in 0 .. Len(ms) /\ j \in 0 .. Len(ms)
    BY <1>1
  <2>2. v[j - 1] \in View /\ v[j] \in View
    BY <2>1
  <2>3. <<v[j - 1], v[j]>> \in LeadOf(ms[j])
    BY <1>1, <1>2
  <2>4. Leads(ms[j], v[j - 1], v[j])
    BY <2>3 DEF LeadOf
  <2> QED
    BY <2>1, <2>2, <2>4
<1>4. ASSUME NEW j \in 1 .. Len(ms), v[j - 1] \in K
      PROVE  v[j] \in K
  <2>1. Leads(ms[j], v[j - 1], v[j]) /\ ms[j] \in Seq(Events) /\ v[j] \in View
    BY <1>3
  <2>2. e \notin v[j - 1].alive
    BY <1>4
  <2>3. \A k \in 1 .. Len(ms[j]) : ~ (ms[j][k].type = "spawn" /\ ms[j][k].id = e)
    OBVIOUS
  <2> HIDE DEF K
  <2>4. e \notin v[j].alive
    BY <2>1, <2>2, <2>3, NotBack
  <2> QED
    BY <2>1, <2>4 DEF K
<1>5. v[0] \in K
  <2>1. 0 \in 0 .. Len(ms)
    BY <1>1
  <2> QED
    BY <1>2, <2>1
<1> HIDE DEF K
<1>6. \A j \in 0 .. Len(ms) : v[j] \in K
  <2>1. v \in [0 .. Len(LeadsOf(ms)) -> View] /\ \A j \in 1 .. Len(LeadsOf(ms)) : v[j - 1] \in K => v[j] \in K
    BY <1>1, <1>4
  <2>2. \A j \in 0 .. Len(LeadsOf(ms)) : v[j] \in K
    BY <1>1, <1>5, <2>1, ChainKeeps
  <2> QED
    BY <1>1, <2>2
<1>7. ASSUME NEW j \in 1 .. Len(ms), NEW i \in 1 .. Len(ms[j])
      PROVE  ~ (ms[j][i].type = "take" /\ ms[j][i].id = e)
  <2>1. e \notin v[j - 1].alive
    BY <1>3, <1>6 DEF K
  <2>2. PICK m \in Seq(Events), x \in View, y \in View : m = ms[j] /\ x = v[j - 1] /\ y = v[j]
    BY <1>3
  <2>3. Leads(m, x, y) /\ e \notin x.alive
    BY <1>3, <2>1, <2>2
  <2>4. \A k \in 1 .. Len(m) : ~ (m[k].type = "spawn" /\ m[k].id = e)
    BY <2>2
  <2>5. \A k \in 1 .. Len(m) : ~ (m[k].type = "take" /\ m[k].id = e)
    BY <2>3, <2>4, NotBack
  <2> QED
    BY <2>2, <2>5
<1> QED
  BY <1>7


\* A step that is not about what is said.
LEMMA QuietKeeps ==
    ASSUME IInv, failed = {}, stage # "joining",
           UNCHANGED <<serverVars, stage, m_bGameConfigStarted, toClient, game_events, failed>>,
           Objects' \subseteq Objects, ObjectTypeOK', refused' \subseteq refused, toServer' \in Seq(Events),
           HandsOK', SingleOK',
           \A a \in View : Stands(a) => Stands(a)' /\ (a.alive \subseteq Objects => a.alive \subseteq Objects')
    PROVE  IInv'
<1>1. TypeOK /\ MessagesOK /\ FreshOK /\ ServerOK /\ Follows
  BY DEF IInv
<1>2. TypeOK' /\ ServerOK' /\ FailsByRefusal'
  BY <1>1 DEF TypeOK, ServerOK, FailsByRefusal, serverVars
<1>3. MessagesOK' /\ FreshOK'
  BY <1>1 DEF MessagesOK, FreshOK, Says, Live, Announces, Brings, serverVars
<1>4. PICK a \in View, b \in View, J \in Seq(Events), q \in Seq(Events) : FollowsFrom(a, b, J, q)
  BY <1>1 DEF Follows
<1>5. Served' = Served /\ (Waiting' <=> Waiting) /\ (Following' <=> Following)
  BY DEF Served, Waiting, Following, serverVars
<1>6. FollowsFrom(a, b, J, q)'
  BY <1>4, <1>5 DEF FollowsFrom
<1>7. Follows'
  BY <1>6 DEF Follows
<1> QED
  BY <1>2, <1>3, <1>7 DEF IInv

\* Where the client stands when it has run all its events.
LEMMA Idle ==
    ASSUME IInv, InFrames, game_events = <<>>
    PROVE  /\ TypeOK /\ HandsOK /\ MessagesOK /\ FreshOK /\ SingleOK /\ ServerOK /\ failed = {} /\ FailsByRefusal
           /\ stage \in {"playing", "stopping", "rejecting", "destroying"}
           /\ \E a \in View : /\ Stands(a) /\ (stage = "playing" => a.alive \subseteq Objects)
                              /\ Following => LeadsAll(toClient, a, Served)
<1>1. TypeOK /\ HandsOK /\ MessagesOK /\ FreshOK /\ SingleOK /\ ServerOK /\ failed = {} /\ FailsByRefusal
      /\ Follows /\ stage \in {"playing", "stopping", "rejecting", "destroying"}
  BY DEF IInv, InFrames, ClientRuns, Stage
<1>2. PICK a \in View, b \in View, J \in Seq(Events), q \in Seq(Events) : FollowsFrom(a, b, J, q)
  BY <1>1 DEF Follows
<1>3. J \o q = <<>>
  BY <1>2 DEF FollowsFrom
<1>4. q = <<>>
  BY <1>3, SeqsNone
<1>5. b = a
  BY <1>2, <1>4, LeadsFacts DEF FollowsFrom
<1>6. ~ Waiting
  BY <1>1 DEF Waiting
<1> QED
  BY <1>1, <1>2, <1>5, <1>6 DEF FollowsFrom, MessagesOK

\* What is to be destroyed is not taken any more.
LEMMA UpdateTakes ==
    ASSUME IInv, InFrames, game_events = <<>>, single, NEW m \in 1 .. Len(toClient),
           NEW k \in 1 .. Len(toClient[m]), toClient[m][k].type = "take"
    PROVE  toClient[m][k].id \notin destroy_queue
<1> DEFINE e == toClient[m][k].id
<1>1. SUFFICES ASSUME e \in destroy_queue
               PROVE  FALSE
  OBVIOUS
<1>2. TypeOK /\ HandsOK /\ MessagesOK /\ FreshOK /\ SingleOK
  BY Idle
<1>3. stage \in {"playing", "stopping"}
  BY <1>2, Idle DEF SingleOK
<1>4. PICK a \in View : Stands(a) /\ LeadsAll(toClient, a, Served)
  BY <1>3, Idle DEF Following
<1>5. e \in Objects /\ e \in ID /\ e \notin a.alive
  BY <1>1, <1>2, <1>4 DEF HandsOK, Stands, TypeOK, ObjectTypeOK
<1>6. toClient \in Seq(Seq(Events))
  BY <1>2 DEF TypeOK
<1> HIDE DEF e
<1>7. ASSUME NEW j \in 1 .. Len(toClient), NEW i \in 1 .. Len(toClient[j]),
             toClient[j][i].type = "spawn", toClient[j][i].id = e
      PROVE  FALSE
  <2>1. Shape(toClient[j])
    BY <1>2 DEF MessagesOK
  <2>2. i = 1
    BY <1>7, <2>1 DEF Shape
  <2>3. \A n : ~ Says(n, "config")
    BY <1>2, <1>3 DEF MessagesOK
  <2>4. Announces(j, e)
    BY <1>7, <2>2, <2>3 DEF Announces, Says, Live
  <2> QED
    BY <1>2, <1>5, <2>4 DEF FreshOK
<1>8. \A j \in 1 .. Len(toClient) : \A i \in 1 .. Len(toClient[j]) :
        ~ (toClient[j][i].type = "take" /\ toClient[j][i].id = e)
  BY <1>4, <1>5, <1>6, <1>7, NotBackAll
<1> QED
  BY <1>8 DEF e

\* What is to be destroyed is.
LEMMA UpdateKeeps ==
    ASSUME IInv, ObjectsUpdate
    PROVE  IInv'
<1>1. /\ InFrames /\ game_events = <<>> /\ Update /\ refused' = refused \ destroy_queue
      /\ UNCHANGED <<serverVars, stage, m_bGameConfigStarted, toClient, toServer, game_events, failed>>
  BY DEF ObjectsUpdate
<1>2. /\ TypeOK /\ HandsOK /\ SingleOK /\ failed = {}
      /\ stage \in {"playing", "stopping", "rejecting", "destroying"}
  BY <1>1, Idle
<1>3. PICK a \in View : Stands(a)
  BY <1>1, Idle
<1>4. /\ Objects \subseteq ID /\ destroy_queue \subseteq Objects /\ map_NETID = Objects /\ NoID \notin ID
      /\ Parent \in [ID -> ID \union {NoID}] /\ m_all \in [ID -> SUBSET ID]
  BY <1>3, StandsFacts
<1>5. \A e \in ID : Parent[e] # NoID => e \in Objects \ destroy_queue /\ Parent[e] \in Objects \ destroy_queue
  <2>1. ASSUME NEW e \in ID, Parent[e] # NoID
        PROVE  e \in Objects \ destroy_queue /\ Parent[e] \in Objects \ destroy_queue
    <3>1. e \in Objects /\ a.hand[e] \in Objects /\ Parent[e] = a.hand[e]
      BY <1>3, <2>1 DEF Stands
    <3>2. e \in a.alive /\ a.hand[e] \in a.alive
      BY <2>1, <3>1 DEF View
    <3> QED
      BY <1>3, <3>1, <3>2 DEF Stands
  <2> QED
    BY <2>1
<1>6. /\ objects_active' = objects_active \ destroy_queue /\ objects_sleeping' = objects_sleeping \ destroy_queue
      /\ map_NETID' = map_NETID \ destroy_queue /\ destroy_queue' = {}
      /\ memory' = [w \in Watcher |-> IF w \in destroy_queue THEN {} ELSE memory[w] \ destroy_queue]
      /\ Parent' = [o \in ID |-> IF o \in destroy_queue THEN NoID ELSE Parent[o]]
      /\ m_all' = [o \in ID |-> IF o \in destroy_queue THEN {} ELSE m_all[o]]
  BY <1>1 DEF Update, Relcase, Unregister
<1>7. Objects' = Objects \ destroy_queue
  BY <1>6 DEF Objects
<1>8. Parent' = Parent
  <2>1. \A o \in ID : (IF o \in destroy_queue THEN NoID ELSE Parent[o]) = Parent[o]
    BY <1>5
  <2>2. Parent = [o \in ID |-> Parent[o]]
    BY <1>4
  <2> QED
    BY <1>6, <2>1, <2>2
<1>9. HandsOK'
  <2>1. ASSUME NEW x \in ID, NEW y \in ID
        PROVE  y \in m_all'[x] <=> Parent'[y] = x
    <3>1. y \in m_all[x] <=> Parent[y] = x
      BY <1>2 DEF HandsOK
    <3>2. x \in destroy_queue => Parent[y] # x
      BY <1>4, <1>5
    <3> QED
      BY <1>6, <1>8, <3>1, <3>2
  <2>2. \A e \in ID : Parent'[e] # NoID => e \in Objects' /\ Parent'[e] \in Objects'
    BY <1>5, <1>7, <1>8
  <2>3. \A w \in Watcher : memory'[w] \subseteq Objects'
    BY <1>2, <1>6, <1>7 DEF HandsOK
  <2>4. ~ single' => refused' = {}
    BY <1>1, <1>2 DEF HandsOK, serverVars
  <2> QED
    BY <1>4, <1>6, <1>7, <2>1, <2>2, <2>3, <2>4 DEF HandsOK
<1>10. ObjectTypeOK'
  <2>1. Parent' \in [ID -> ID \union {NoID}] /\ m_all' \in [ID -> SUBSET ID] /\ memory' \in [Watcher -> SUBSET ID]
    BY <1>2, <1>4, <1>6, <1>8 DEF TypeOK, ObjectTypeOK
  <2> QED
    BY <1>2, <1>6, <2>1 DEF TypeOK, ObjectTypeOK
<1>11. SingleOK'
  <2>1. single' = single /\ departed' = departed /\ stage' = stage /\ toClient' = toClient /\ game_events' = <<>>
    BY <1>1 DEF serverVars
  <2>2. ASSUME single, NEW m \in 1 .. Len(toClient), NEW k \in 1 .. Len(toClient[m]), toClient[m][k].type = "take"
        PROVE  toClient[m][k].id \in Objects'
    <3>1. toClient[m][k].id \notin destroy_queue
      BY <1>1, <2>2, UpdateTakes
    <3> QED
      BY <1>2, <1>7, <2>2, <3>1 DEF SingleOK
  <2> QED
    BY <1>2, <2>1, <2>2 DEF SingleOK
<1>12. ASSUME NEW b \in View, Stands(b)
       PROVE  Stands(b)' /\ (b.alive \subseteq Objects => b.alive \subseteq Objects')
  <2>1. \A e \in Objects' : e \in destroy_queue' <=> e \notin b.alive
    BY <1>6, <1>7, <1>12 DEF Stands
  <2>2. \A e \in ID : b.hand[e] # NoID => e \in b.alive /\ b.hand[e] \in b.alive
    BY DEF View
  <2>3. \A e \in Objects : e \in b.alive => e \in Objects'
    BY <1>7, <1>12 DEF Stands
  <2>4. \A e \in ID : b.hand[e] \in Objects <=> b.hand[e] \in Objects'
    <3>1. \A e \in ID : b.hand[e] \in Objects => b.hand[e] # NoID
      BY <1>4
    <3> QED
      BY <1>7, <2>2, <2>3, <3>1
  <2>5. ASSUME NEW e \in ID
        PROVE  Parent'[e] = IF e \in Objects' \ refused' /\ b.hand[e] \in Objects' THEN b.hand[e] ELSE NoID
    <3>1. Parent[e] = IF e \in Objects \ refused /\ b.hand[e] \in Objects THEN b.hand[e] ELSE NoID
      BY <1>12 DEF Stands
    <3>2. CASE b.hand[e] \in Objects
      <4>1. b.hand[e] # NoID /\ e \in b.alive
        BY <1>4, <2>2, <3>2
      <4>2. e \in Objects => e \notin destroy_queue
        BY <1>12, <4>1 DEF Stands
      <4>3. e \in Objects' \ refused' <=> e \in Objects \ refused
        BY <1>1, <1>7, <4>2
      <4> QED
        BY <1>8, <2>4, <3>1, <4>3
    <3>3. CASE b.hand[e] \notin Objects
      BY <1>8, <2>4, <3>1, <3>3
    <3> QED
      BY <3>2, <3>3
  <2>6. ASSUME NEW e \in refused'
        PROVE  e \in Objects' /\ b.hand[e] \in Objects'
    <3>1. e \in refused /\ e \notin destroy_queue
      BY <1>1, <2>6
    <3>2. e \in Objects /\ b.hand[e] \in Objects /\ e \in ID
      BY <1>4, <1>12, <3>1 DEF Stands
    <3> QED
      BY <1>7, <2>4, <3>1, <3>2
  <2>7. Stands(b)'
    BY <2>1, <2>5, <2>6 DEF Stands
  <2> QED
    BY <2>3, <2>7
<1>13. Objects' \subseteq Objects /\ refused' \subseteq refused /\ toServer' \in Seq(Events) /\ stage # "joining"
  BY <1>1, <1>2, <1>7 DEF TypeOK
<1> QED
  BY <1>1, <1>2, <1>9, <1>10, <1>11, <1>12, <1>13, QuietKeeps

\* What objects do of their own.
LEMMA OwnKeeps ==
    ASSUME IInv, InFrames, game_events = <<>>, Objects' = Objects,
           UNCHANGED <<map_NETID, destroy_queue, handVars, serverVars, clientVars, toClient, game_events, failed>>,
           objects_active' \subseteq ID, objects_sleeping' \subseteq ID \ objects_active',
           memory' \in [Watcher -> SUBSET ID], \A w \in Watcher : memory'[w] \subseteq Objects,
           toServer' \in Seq(Events)
    PROVE  IInv'
<1>1. TypeOK /\ HandsOK /\ SingleOK /\ failed = {} /\ stage # "joining"
  BY Idle
<1>2. ObjectTypeOK' /\ HandsOK'
  BY <1>1 DEF TypeOK, ObjectTypeOK, HandsOK, handVars, clientVars, serverVars
<1>3. SingleOK'
  BY <1>1 DEF SingleOK, clientVars, serverVars
<1>4. \A a \in View : Stands(a) => Stands(a)' /\ (a.alive \subseteq Objects => a.alive \subseteq Objects')
  BY DEF Stands, handVars, clientVars
<1>5. stage' = stage /\ m_bGameConfigStarted' = m_bGameConfigStarted /\ refused' = refused
  BY DEF clientVars
<1> QED
  BY <1>1, <1>2, <1>3, <1>4, <1>5, QuietKeeps

\* One sees another.
LEMMA SeeKeeps ==
    ASSUME IInv, NEW w \in Watcher, NEW o \in ID, See(w, o)
    PROVE  IInv'
<1>1. /\ InFrames /\ game_events = <<>> /\ o \in Objects /\ memory' = [memory EXCEPT ![w] = @ \union {o}]
      /\ UNCHANGED <<listVars, map_NETID, destroy_queue, handVars, serverVars, clientVars,
                     toClient, toServer, game_events, failed>>
  BY DEF See
<1>2. TypeOK /\ HandsOK
  BY <1>1, Idle
<1>3. Objects' = Objects /\ objects_active' = objects_active /\ objects_sleeping' = objects_sleeping
  BY <1>1 DEF Objects, listVars
<1>4. memory' \in [Watcher -> SUBSET ID] /\ \A x \in Watcher : memory'[x] \subseteq Objects
  BY <1>1, <1>2 DEF TypeOK, ObjectTypeOK, HandsOK
<1> QED
  BY <1>1, <1>2, <1>3, <1>4, OwnKeeps DEF TypeOK, ObjectTypeOK

\* One dies.
LEMMA SleepKeeps ==
    ASSUME IInv, NEW w \in Watcher, FallAsleep(w)
    PROVE  IInv'
<1>1. /\ InFrames /\ game_events = <<>> /\ w \in objects_active /\ Processing(w, FALSE)
      /\ UNCHANGED <<map_NETID, destroy_queue, handVars, memory, serverVars, clientVars,
                     toClient, toServer, game_events, failed>>
  BY DEF FallAsleep
<1>2. TypeOK /\ HandsOK
  BY <1>1, Idle
<1>3. objects_active' = objects_active \ {w} /\ objects_sleeping' = objects_sleeping \union {w}
  BY <1>1 DEF Processing
<1>4. Objects' = Objects /\ objects_active' \subseteq ID /\ objects_sleeping' \subseteq ID \ objects_active'
  BY <1>1, <1>2, <1>3 DEF Objects, TypeOK, ObjectTypeOK
<1>5. /\ memory' \in [Watcher -> SUBSET ID] /\ \A x \in Watcher : memory'[x] \subseteq Objects
      /\ toServer' \in Seq(Events)
  BY <1>1, <1>2 DEF TypeOK, ObjectTypeOK, HandsOK
<1> QED
  BY <1>1, <1>4, <1>5, OwnKeeps

\* One asks the server to take something from it.
LEMMA DropKeeps ==
    ASSUME IInv, NEW p \in ID, NEW e \in ID, Drop(p, e)
    PROVE  IInv'
<1>1. /\ InFrames /\ game_events = <<>> /\ toServer' = Append(toServer, Event("reject", p, e))
      /\ UNCHANGED <<objectVars, serverVars, clientVars, toClient, game_events, failed>>
  BY DEF Drop, InFrames, Stage
<1>2. TypeOK /\ HandsOK
  BY <1>1, Idle
<1>3. Event("reject", p, e) \in Events /\ toServer \in Seq(Events)
  BY <1>2 DEF Event, Events, EventTypes, TypeOK
<1>4. toServer' \in Seq(Events)
  <2>1. Append(toServer, Event("reject", p, e)) \in Seq(Events)
    BY <1>3
  <2> QED
    BY <1>1, <2>1
<1>5. Objects' = Objects /\ objects_active' = objects_active /\ objects_sleeping' = objects_sleeping
      /\ UNCHANGED <<map_NETID, destroy_queue, handVars, memory>>
  BY <1>1 DEF Objects, objectVars, listVars
<1> QED
  BY <1>1, <1>2, <1>4, <1>5, OwnKeeps DEF TypeOK, ObjectTypeOK, HandsOK


-----------------------------------------------------------------------------
(* The client leaves.                                                      *)

\* The level's end: who is the server as well says of all that it goes.
LEMMA StopKeeps ==
    ASSUME IInv, net_Stop
    PROVE  IInv'
<1>1. /\ InFrames /\ game_events = <<>> /\ stage = "playing" /\ stage' = "stopping" /\ m_bGameConfigStarted' = FALSE
      /\ UNCHANGED <<objectVars, single, departed, bConnected, net_Accepted, toServer, game_events, refused, failed>>
  BY DEF net_Stop, BetweenFrames
<1>2. /\ TypeOK /\ HandsOK /\ MessagesOK /\ FreshOK /\ SingleOK /\ ServerOK /\ failed = {} /\ FailsByRefusal
  BY <1>1, Idle
<1>3. PICK a \in View : Stands(a) /\ LeadsAll(toClient, a, Served)
  BY <1>1, Idle DEF Following
<1>4. Objects' = Objects /\ bConnected /\ net_Accepted /\ ~ Waiting' /\ \A m : ~ Says(m, "config")
  BY <1>1, <1>2 DEF Objects, objectVars, listVars, MessagesOK, Waiting
<1>5. PICK msgs : /\ Telling(msgs) /\ Broadcast(msgs) /\ LeadsAll(msgs, Served, Served') /\ ServerOK'
  <2>1. CASE single
    <3>1. /\ entities' = {} /\ ID_Parent' = [e \in ID |-> NoID]
          /\ \E said \in ClearTold(entities) : Broadcast(OneByOne(said))
      BY <2>1 DEF net_Stop
    <3>2. PICK said \in ClearTold(entities) : Broadcast(OneByOne(said))
      BY <3>1
    <3>3. entities \in SUBSET entities /\ \A x \in entities : Children(x) \subseteq entities
      BY DEF Children
    <3>4. said \in Seq(Events) /\ Leads(said, Served, Without(entities))
      BY <1>2, <3>3, DestroyTells
    <3>5. \A k \in 1 .. Len(said) : said[k].type \in {"reject", "destroy"}
      <4>1. entities \in SUBSET ID /\ said \in SetToSeqs(Words(entities))
        BY <1>2 DEF ServerOK, ClearTold
      <4>2. said \in Seq(Words(entities))
        BY <4>1, WordsFinite, Listing
      <4>3. \A k \in 1 .. Len(said) : said[k] \in Words(entities)
        BY <4>2
      <4> QED
        BY <1>2, <4>1, <4>3, WordsType
    <3>6. departed = {}
      BY <1>2, <2>1 DEF SingleOK
    <3>7. Served' = Without(entities)
      <4>1. \A x \in ID : (IF x \in entities THEN NoID ELSE ID_Parent[x]) = NoID
        BY <1>2 DEF ServerOK
      <4>2. (entities \ departed) \ entities = {} /\ entities' \ departed' = {}
        BY <3>1
      <4> QED
        BY <3>1, <4>1, <4>2 DEF Served, Without
    <3>8. ServerOK'
      <4>1. departed' = {}
        BY <1>1, <3>6
      <4> QED
        BY <3>1, <4>1 DEF ServerOK
    <3>9. Telling(OneByOne(said)) /\ LeadsAll(OneByOne(said), Served, Served')
      BY <3>4, <3>5, <3>7, OneByOneTells, LeadsOneByOne
    <3> QED
      BY <3>2, <3>8, <3>9
  <2>2. CASE ~ single
    <3>1. UNCHANGED <<entities, ID_Parent, toClient>>
      BY <2>2 DEF net_Stop
    <3>2. ServerOK' /\ Served' = Served
      BY <1>1, <1>2, <3>1 DEF ServerOK, Served
    <3>3. Telling(<<>>)
      <4>1. <<>> \in Seq(Seq(Events)) /\ \A k \in 1 .. Len(<<>>) : FALSE
        OBVIOUS
      <4> QED
        BY <4>1 DEF Telling
    <3>4. LeadsAll(<<>>, Served, Served')
      BY <1>2, <3>2, ServedView, LeadsAllFacts
    <3>5. Broadcast(<<>>)
      <4>1. toClient \o <<>> = toClient
        BY <1>2 DEF TypeOK
      <4> QED
        BY <3>1, <4>1 DEF Broadcast
    <3> QED
      BY <3>2, <3>3, <3>4, <3>5
  <2> QED
    BY <2>1, <2>2
<1>6. /\ toClient' \in Seq(Seq(Events)) /\ FreshOK' /\ SingleOK'
      /\ \A m \in 1 .. Len(toClient') : Shape(toClient'[m])
      /\ \A m : (Says(m, "config")' <=> Says(m, "config")) /\ (Says(m, "finished")' <=> Says(m, "finished"))
  <2>1. UNCHANGED <<single, game_events>> /\ departed' = departed /\ stage' \in {stage, "stopping"}
    BY <1>1
  <2> QED
    BY <1>2, <1>4, <1>5, <2>1, SaysMore
<1>7. MessagesOK'
  <2>1. stage' = "stopping" /\ bConnected' /\ net_Accepted' /\ \A m : ~ Says(m, "config")'
    BY <1>1, <1>4, <1>6
  <2> QED
    BY <1>6, <2>1 DEF MessagesOK
<1>8. TypeOK' /\ HandsOK' /\ FailsByRefusal'
  <2>1. ObjectTypeOK' /\ HandsOK' /\ FailsByRefusal'
    BY <1>1, <1>2, <1>4 DEF TypeOK, ObjectTypeOK, HandsOK, FailsByRefusal, objectVars, listVars, handVars
  <2>2. entities' \subseteq ID /\ ID_Parent' \in [ID -> ID \union {NoID}]
    BY <1>5 DEF ServerOK
  <2> QED
    BY <1>1, <1>2, <1>6, <2>1, <2>2 DEF TypeOK, Stage
<1>9. LeadsAll(toClient', a, Served')
  <2>1. toClient' = toClient \o msgs
    BY <1>4, <1>5 DEF Broadcast
  <2>2. toClient \in Seq(Seq(Events)) /\ msgs \in Seq(Seq(Events))
    BY <1>2, <1>5 DEF TypeOK, Telling
  <2> QED
    BY <1>3, <1>5, <2>1, <2>2, LeadsAllFacts
<1>10. FollowsFrom(a, a, <<>>, <<>>)'
  <2>1. game_events' = <<>> \o <<>> /\ \A k \in 1 .. Len(<<>>) : FALSE
    BY <1>1
  <2>2. Stands(a)' /\ Leads(<<>>, a, a)
    BY <1>1, <1>3, <1>4, LeadsFacts DEF Stands, objectVars, handVars
  <2>3. \E c \in View : LeadsAll(toClient', c, Served') /\ c = a
    BY <1>9
  <2>4. stage' \notin {"joining", "playing"}
    BY <1>1
  <2> QED
    BY <1>4, <2>1, <2>2, <2>3, <2>4 DEF FollowsFrom
<1>11. Follows'
  <2>1. <<>> \in Seq(Events)
    OBVIOUS
  <2> QED
    BY <1>10, <2>1 DEF Follows
<1> QED
  BY <1>5, <1>6, <1>7, <1>8, <1>11 DEF IInv

\* A set made a sequence has each element once.
LEMMA Listed ==
    ASSUME NEW S, IsFiniteSet(S)
    PROVE  /\ SetToSeq(S) \in Seq(S)
           /\ \A j, k \in 1 .. Len(SetToSeq(S)) : SetToSeq(S)[j] = SetToSeq(S)[k] => j = k
           /\ \A x \in S : \E k \in 1 .. Len(SetToSeq(S)) : SetToSeq(S)[k] = x
<1> DEFINE n == Cardinality(S)
<1>1. n \in Nat
  BY FS_CardinalityType
<1>2. \E f \in [1 .. n -> S] : IsInjective(f)
  <2>1. ExistsBijection(1 .. n, S)
    BY FS_CardinalityType
  <2>2. PICK f \in [1 .. n -> S] : \A j, k \in 1 .. n : f[j] = f[k] => j = k
    BY <2>1 DEF ExistsBijection, Bijection, Injection, IsInjective
  <2>3. DOMAIN f = 1 .. n
    OBVIOUS
  <2> HIDE DEF n
  <2> QED
    BY <2>2, <2>3 DEF IsInjective
<1>3. SetToSeq(S) \in [1 .. n -> S] /\ IsInjective(SetToSeq(S))
  <2>1. SetToSeq(S) = CHOOSE f \in [1 .. n -> S] : IsInjective(f)
    BY DEF SetToSeq
  <2> HIDE DEF n
  <2> QED
    BY <1>2, <2>1
<1>4. SetToSeq(S) \in SetToSeqs(S)
  BY <1>3 DEF SetToSeqs, IsInjective
<1> QED
  BY <1>4, Listing

\* A round of the clearing of a level: the client's own events undo what it has.
LEMMA ClearKeeps ==
    ASSUME IInv, ClearAllObjects
    PROVE  IInv'
<1>1. /\ InFrames /\ game_events = <<>> /\ destroy_queue = {} /\ ~ single
      /\ stage' \in {"rejecting", "destroying"}
      /\ game_events' = IF Held # {}
                        THEN SetToSeq({Event("reject", Parent[e], e) : e \in Held})
                        ELSE SetToSeq({Event("destroy", NoID, e) : e \in Objects})
      /\ UNCHANGED <<objectVars, serverVars, m_bGameConfigStarted, refused, toClient, toServer, failed>>
  BY DEF ClearAllObjects, BetweenFrames
<1>2. /\ TypeOK /\ HandsOK /\ MessagesOK /\ FreshOK /\ SingleOK /\ ServerOK /\ failed = {} /\ FailsByRefusal
      /\ stage \in {"stopping", "rejecting"}
  BY <1>1, Idle DEF ClearAllObjects
<1>3. /\ Objects \subseteq ID /\ Parent \in [ID -> ID \union {NoID}] /\ refused = {} /\ NoID \notin ID
      /\ \A e \in ID : Parent[e] # NoID => e \in Objects /\ Parent[e] \in Objects
      /\ IsFiniteSet(Objects)
  <2>1. Objects \subseteq ID
    BY <1>2 DEF TypeOK, ObjectTypeOK, Objects
  <2>2. IsFiniteSet(Objects)
    BY <2>1, ReplicaAssumption, FS_Subset
  <2> QED
    BY <1>1, <1>2, <2>1, <2>2, ObjectAssumption DEF TypeOK, ObjectTypeOK, HandsOK
<1>4. PICK a \in View : a.alive = Objects /\ a.hand = Parent
  <2>1. [alive |-> Objects, hand |-> Parent] \in View
    BY <1>3 DEF View
  <2> QED
    BY <2>1
<1>5. PICK q \in Seq(Events) :
        /\ q = game_events' /\ Undoes(q, a) /\ \A k \in 1 .. Len(q) : q[k].type \in {"reject", "destroy"}
  <2>1. CASE Held # {}
    <3> DEFINE S == {Event("reject", Parent[e], e) : e \in Held}
    <3>1. Held \subseteq Objects /\ \A e \in Held : e \in ID /\ Parent[e] \in ID /\ Parent[e] # NoID
      BY <1>3 DEF Held
    <3>2. IsFiniteSet(S)
      <4>1. IsFiniteSet(Held)
        BY <1>3, <3>1, FS_Subset
      <4> DEFINE f == [e \in Held |-> Event("reject", Parent[e], e)]
      <4>2. f \in [Held -> S] /\ \A s \in S : \E e \in Held : f[e] = s
        OBVIOUS
      <4> HIDE DEF f, S
      <4>3. f \in Surjection(Held, S)
        BY <4>2 DEF Surjection
      <4> QED
        BY <4>1, <4>3, FS_Surjection
    <3>3. S \subseteq Events
      BY <3>1 DEF Event, Events, EventTypes
    <3>4. \A x \in S : x.type \in {"reject", "destroy"} /\ \E e \in ID : x = Event("reject", Parent[e], e) /\ Parent[e] # NoID
      BY <3>1, EventSame
    <3> HIDE DEF S
    <3>5. PICK q \in Seq(S) : q = SetToSeq(S) /\ \A j, k \in 1 .. Len(q) : q[j] = q[k] => j = k
      BY <3>2, Listed
    <3>6. q \in Seq(Events) /\ \A k \in 1 .. Len(q) : q[k] \in S
      BY <3>3, <3>5
    <3>7. Undoes(q, a)
      BY <1>4, <3>4, <3>5, <3>6 DEF Undoes
    <3>8. q = game_events'
      BY <1>1, <2>1, <3>5 DEF S
    <3> QED
      BY <3>4, <3>6, <3>7, <3>8
  <2>2. CASE Held = {}
    <3> DEFINE S == {Event("destroy", NoID, e) : e \in Objects}
    <3>1. \A e \in ID : Parent[e] = NoID
      <4>1. \A e \in Objects : Parent[e] = NoID
        BY <2>2 DEF Held
      <4> HIDE DEF S
      <4> QED
        BY <1>3, <4>1, Zenon
    <3>2. IsFiniteSet(S)
      <4> DEFINE f == [e \in Objects |-> Event("destroy", NoID, e)]
      <4>1. f \in [Objects -> S] /\ \A s \in S : \E e \in Objects : f[e] = s
        OBVIOUS
      <4> HIDE DEF f, S
      <4>2. f \in Surjection(Objects, S)
        BY <4>1 DEF Surjection
      <4> QED
        BY <1>3, <4>2, FS_Surjection
    <3>3. S \subseteq Events
      BY <1>3 DEF Event, Events, EventTypes
    <3>4. \A x \in S : x.type \in {"reject", "destroy"} /\ \E e \in ID : x = Event("destroy", NoID, e)
      BY <1>3, EventSame
    <3> HIDE DEF S
    <3>5. PICK q \in Seq(S) : q = SetToSeq(S) /\ \A j, k \in 1 .. Len(q) : q[j] = q[k] => j = k
      BY <3>2, Listed
    <3>6. q \in Seq(Events) /\ \A k \in 1 .. Len(q) : q[k] \in S
      BY <3>3, <3>5
    <3>7. \A x \in ID : a.hand[x] = NoID /\ \A c \in ID : a.hand[c] # x
      BY <1>3, <1>4, <3>1
    <3>8. Undoes(q, a)
      BY <3>4, <3>5, <3>6, <3>7 DEF Undoes
    <3>9. q = game_events'
      BY <1>1, <2>2, <3>5 DEF S
    <3> QED
      BY <3>4, <3>6, <3>8, <3>9
  <2> QED
    BY <2>1, <2>2
<1>6. PICK b \in View : Leads(q, a, b)
  <2>1. Leads(q, a, After(q, a, Len(q)))
    BY <1>5, Undoing
  <2>2. After(q, a, Len(q)) \in View
    BY <2>1, LeadsFacts
  <2> QED
    BY <2>1, <2>2
<1>7. Objects' = Objects /\ Parent' = Parent /\ destroy_queue' = {} /\ refused' = {} /\ toClient' = toClient
  BY <1>1, <1>3 DEF Objects, objectVars, listVars, handVars
<1>8. TypeOK' /\ ServerOK' /\ HandsOK' /\ FailsByRefusal'
  <2>1. ObjectTypeOK' /\ HandsOK' /\ FailsByRefusal'
    BY <1>1, <1>2, <1>7
    DEF TypeOK, ObjectTypeOK, HandsOK, FailsByRefusal, objectVars, listVars, handVars, serverVars
  <2>2. stage' \in Stage /\ game_events' \in Seq(Events)
    BY <1>1, <1>5 DEF Stage
  <2> QED
    BY <1>1, <1>2, <2>1, <2>2 DEF TypeOK, ServerOK, serverVars
<1>9. MessagesOK'
  <2>1. \A m, t : Says(m, t)' <=> Says(m, t)
    BY <1>7 DEF Says
  <2>2. net_Accepted' /\ bConnected' /\ stage' \notin {"joining", "playing"} /\ \A m : ~ Says(m, "config")
    BY <1>1, <1>2 DEF MessagesOK, serverVars
  <2> QED
    BY <1>2, <1>7, <2>1, <2>2 DEF MessagesOK
<1>10. FreshOK'
  <2>1. \A m, e : Announces(m, e)' <=> Announces(m, e)
    BY <1>7 DEF Announces, Says, Live
  <2>2. \A k, e : ~ Brings(k, e)'
    BY <1>5 DEF Brings
  <2> QED
    BY <1>2, <1>7, <2>1, <2>2 DEF FreshOK
<1>11. SingleOK'
  BY <1>1 DEF SingleOK, serverVars
<1>12. FollowsFrom(a, b, <<>>, q)'
  <2>1. game_events' = <<>> \o q /\ \A k \in 1 .. Len(<<>>) : FALSE
    BY <1>5
  <2>2. Stands(a)'
    <3>1. Parent' = a.hand /\ Objects' = a.alive /\ \A e \in ID : a.hand[e] # NoID => e \in a.alive /\ a.hand[e] \in a.alive
      BY <1>4, <1>7 DEF View
    <3>2. \A e \in ID : Parent'[e] = IF e \in Objects' \ {} /\ a.hand[e] \in Objects' THEN a.hand[e] ELSE NoID
      BY <3>1
    <3> QED
      BY <1>7, <3>1, <3>2 DEF Stands
  <2>3. ~ Waiting' /\ ~ Following' /\ stage' \notin {"joining", "playing"}
    BY <1>1 DEF Waiting, Following
  <2> QED
    BY <1>6, <2>1, <2>2, <2>3 DEF FollowsFrom
<1>13. Follows'
  <2>1. <<>> \in Seq(Events)
    OBVIOUS
  <2> QED
    BY <1>5, <1>12, <2>1 DEF Follows
<1> QED
  BY <1>8, <1>9, <1>10, <1>11, <1>13 DEF IInv

\* The end: nothing is on its way any more.
LEMMA DisconnectKeeps ==
    ASSUME IInv, Disconnect
    PROVE  IInv'
<1>1. /\ InFrames /\ game_events = <<>> /\ game_events' = <<>>
      /\ stage' = "stopped" /\ bConnected' = FALSE /\ toClient' = <<>> /\ toServer' = <<>>
      /\ UNCHANGED <<objectVars, single, entities, ID_Parent, departed, net_Accepted,
                     m_bGameConfigStarted, refused, failed>>
      /\ stage # "playing"
  BY DEF Disconnect, BetweenFrames
<1>2. /\ TypeOK /\ HandsOK /\ MessagesOK /\ FreshOK /\ SingleOK /\ ServerOK /\ failed = {} /\ FailsByRefusal
      /\ stage \in {"stopping", "rejecting", "destroying"}
  BY <1>1, Idle
<1>3. PICK a \in View : Stands(a)
  BY <1>1, Idle
<1>4. Objects' = Objects /\ Parent' = Parent /\ destroy_queue' = destroy_queue
  BY <1>1 DEF Objects, objectVars, listVars, handVars
<1>5. \A k \in 1 .. Len(<<>>) : FALSE
  OBVIOUS
<1>6. TypeOK' /\ ServerOK' /\ HandsOK' /\ FailsByRefusal'
  <2>1. ObjectTypeOK' /\ HandsOK' /\ FailsByRefusal'
    BY <1>1, <1>2, <1>4
    DEF TypeOK, ObjectTypeOK, HandsOK, FailsByRefusal, objectVars, listVars, handVars
  <2>2. <<>> \in Seq(Seq(Events)) /\ <<>> \in Seq(Events)
    OBVIOUS
  <2> QED
    BY <1>1, <1>2, <2>1, <2>2 DEF TypeOK, ServerOK, Stage
<1>7. MessagesOK' /\ FreshOK' /\ SingleOK'
  <2>1. net_Accepted'
    BY <1>1, <1>2 DEF MessagesOK
  <2>2. \A m, t : ~ Says(m, t)'
    BY <1>1, <1>5 DEF Says
  <2>3. \A m, e : ~ Announces(m, e)' /\ ~ Brings(m, e)'
    BY <1>1, <1>5, <2>2 DEF Announces, Brings
  <2>4. MessagesOK'
    BY <1>1, <1>5, <2>1, <2>2 DEF MessagesOK
  <2>5. SingleOK'
    BY <1>1, <1>2, <1>5 DEF SingleOK
  <2> QED
    BY <2>3, <2>4, <2>5 DEF FreshOK
<1>8. FollowsFrom(a, a, <<>>, <<>>)'
  <2>1. game_events' = <<>> \o <<>>
    BY <1>1
  <2>2. Stands(a)' /\ Leads(<<>>, a, a)
    BY <1>1, <1>3, <1>4, LeadsFacts DEF Stands
  <2>3. ~ Waiting' /\ ~ Following' /\ stage' \notin {"joining", "playing"}
    BY <1>1 DEF Waiting, Following
  <2> QED
    BY <1>5, <2>1, <2>2, <2>3 DEF FollowsFrom
<1>9. Follows'
  <2>1. <<>> \in Seq(Events)
    OBVIOUS
  <2> QED
    BY <1>8, <2>1 DEF Follows
<1> QED
  BY <1>6, <1>7, <1>9 DEF IInv



-----------------------------------------------------------------------------
(* The theorems.                                                           *)

\* Every step keeps the invariant.
LEMMA InvNext == IInv /\ [Next]_vars => IInv'
<1> SUFFICES ASSUME IInv, [Next]_vars
             PROVE  IInv'
  OBVIOUS
<1>1. CASE \E e \in ID, p \in ID \union {NoID} : Process_spawn(e, p)
  BY <1>1, SpawnKeeps
<1>2. CASE \E p, e \in ID : Process_event_ownership(p, e)
  BY <1>2, OwnershipKeeps
<1>3. CASE \E p, e \in ID : Process_event_reject(p, e)
  BY <1>3, RejectKeeps
<1>4. CASE \E e, from, to \in ID : Perform_transfer(e, from, to)
  BY <1>4, TransferKeeps
<1>5. CASE \E e \in ID : Process_event_destroy(e)
  BY <1>5, EventDestroyKeeps
<1>6. CASE \E e \in ID : Perform_destroy(e)
  BY <1>6, DestroyKeeps
<1>7. CASE \E e \in ID : client_Destroy(e)
  BY <1>7, ClientDestroyKeeps
<1>8. CASE CreateClient \/ OnCL_Connected \/ OnRequest
  BY <1>8, CreateKeeps, ConnectedKeeps, RequestKeeps
<1>9. CASE ClientReceive \/ ObjectsUpdate
  BY <1>9, ReceiveKeeps, UpdateKeeps
<1>10. CASE ProcessGameEvents
  BY <1>10, OnSpawnKeeps, OnTakeKeeps, OnRejectKeeps, OnDestroyKeeps DEF ProcessGameEvents
<1>11. CASE \E w \in Watcher, o \in ID : See(w, o)
  BY <1>11, SeeKeeps
<1>12. CASE \E w \in Watcher : FallAsleep(w)
  BY <1>12, SleepKeeps
<1>13. CASE \E p, e \in ID : Drop(p, e)
  BY <1>13, DropKeeps
<1>14. CASE net_Stop \/ ClearAllObjects \/ Disconnect
  BY <1>14, StopKeeps, ClearKeeps, DisconnectKeeps
<1>15. CASE UNCHANGED vars
  <2>1. UNCHANGED <<objectVars, serverVars, clientVars, toClient, toServer, game_events, failed>>
    BY <1>15 DEF vars
  <2>2. Objects' = Objects /\ Served' = Served
    BY <2>1 DEF Objects, Served, objectVars, listVars, serverVars
  <2>3. TypeOK' /\ ServerOK' /\ HandsOK' /\ SingleOK' /\ FailsByRefusal'
    BY <2>1, <2>2
    DEF IInv, TypeOK, ObjectTypeOK, ServerOK, HandsOK, SingleOK, FailsByRefusal,
        objectVars, listVars, handVars, serverVars, clientVars
  <2>4. MessagesOK' /\ FreshOK'
    BY <2>1, <2>2 DEF IInv, MessagesOK, FreshOK, Says, Live, Announces, Brings, serverVars, clientVars
  <2>5. failed' = {} => Follows'
    <3>1. SUFFICES ASSUME failed' = {}
                   PROVE  Follows'
      OBVIOUS
    <3>2. PICK a \in View, b \in View, J \in Seq(Events), q \in Seq(Events) : FollowsFrom(a, b, J, q)
      BY <2>1, <3>1 DEF IInv, Follows
    <3>3. FollowsFrom(a, b, J, q)'
      BY <2>1, <2>2, <3>2
      DEF FollowsFrom, Stands, Waiting, Following, objectVars, handVars, serverVars, clientVars
    <3> QED
      BY <3>3 DEF Follows
  <2> QED
    BY <2>3, <2>4, <2>5 DEF IInv
<1> QED
  BY <1>1, <1>2, <1>3, <1>4, <1>5, <1>6, <1>7, <1>8, <1>9, <1>10, <1>11, <1>12, <1>13, <1>14, <1>15
  DEF Next, ServerNext, ClientNext

(* As long as nobody has stopped at a failed assertion, what is on its way *)
(* and what is to be run lead the client from where it stands to the       *)
(* server's entities, and what is announced is neither there nor announced *)
(* again.                                                                  *)
THEOREM Invariance == Spec => []IInv
BY InitIInv, InvNext, PTL DEF Spec

(* A client that plays and has taken everything has the entities of the    *)
(* server in the hands they are in there, whatever was broadcast while it  *)
(* joined and in whatever order entities were destroyed: for any number of *)
(* entities, and any forest of them.                                       *)
THEOREM ClientFollows == Spec => []ReplicaAgrees
<1>1. IInv => ReplicaAgrees
  <2> SUFFICES ASSUME IInv, stage = "playing", failed = {}, toClient = <<>>, game_events = <<>>
               PROVE  /\ Objects \ destroy_queue = entities \ departed
                      /\ \A e \in entities \ (departed \union refused) : Parent[e] = ID_Parent[e]
    BY DEF ReplicaAgrees
  <2>1. InFrames
    BY DEF InFrames, ClientRuns, Stage
  <2>2. PICK a \in View : Stands(a) /\ a.alive \subseteq Objects /\ LeadsAll(toClient, a, Served)
    BY <2>1, Idle DEF Following
  <2>3. a = Served
    BY <2>2, LeadsAllFacts
  <2>4. a.alive = entities \ departed /\ a.hand = ID_Parent
    BY <2>3 DEF Served
  <2>5. Objects \ destroy_queue = a.alive
    BY <2>2 DEF Stands
  <2>6. ASSUME NEW e \in entities \ (departed \union refused)
        PROVE  Parent[e] = ID_Parent[e]
    <3>1. e \in Objects \ refused /\ e \in ID
      BY <2>2, <2>4, StandsFacts
    <3>2. a.hand[e] # NoID => a.hand[e] \in Objects
      BY <2>2, <3>1, StandsFacts
    <3>3. Parent[e] = IF a.hand[e] \in Objects THEN a.hand[e] ELSE NoID
      BY <2>2, <3>1 DEF Stands
    <3>4. Parent[e] = a.hand[e]
      BY <3>2, <3>3
    <3> QED
      BY <2>4, <3>4
  <2> QED
    BY <2>4, <2>5, <2>6
<1> QED
  BY Invariance, <1>1, PTL

(* Whatever is created, put in hands, rejected and destroyed, and however  *)
(* the level ends: no map of identifiers, queue, child, inventory or       *)
(* memory of a client keeps an object that is deleted.                     *)
THEOREM NothingDangles == Spec => []NobodyDangles
<1>1. IInv => NobodyDangles
  <2> SUFFICES ASSUME IInv
               PROVE  NobodyDangles
    OBVIOUS
  <2>1. TypeOK /\ HandsOK /\ Objects \subseteq ID
    BY DEF IInv, TypeOK, ObjectTypeOK, Objects
  <2>2. ASSUME NEW o \in Objects
        PROVE  Parent[o] \in Objects \union {NoID} /\ m_all[o] \subseteq Objects
    <3>1. m_all[o] \subseteq ID /\ o \in ID /\ NoID \notin ID
      BY <2>1, ObjectAssumption DEF TypeOK, ObjectTypeOK
    <3>2. \A e \in ID : e \in m_all[o] <=> Parent[e] = o
      <4>1. \A p, e \in ID : e \in m_all[p] <=> Parent[e] = p
        BY <2>1 DEF HandsOK
      <4> QED
        BY <3>1, <4>1, Zenon
    <3>3. \A e \in ID : Parent[e] # NoID => e \in Objects /\ Parent[e] \in Objects
      BY <2>1 DEF HandsOK
    <3>4. ASSUME NEW e \in m_all[o]
          PROVE  e \in Objects
      <4>1. e \in ID
        BY <3>1
      <4>2. Parent[e] = o
        BY <3>2, <4>1
      <4>3. Parent[e] # NoID
        BY <3>1, <4>2
      <4> QED
        BY <3>3, <4>1, <4>3
    <3> QED
      BY <3>1, <3>3, <3>4
  <2> QED
    BY <2>1, <2>2 DEF NobodyDangles, HandsOK
<1> QED
  BY Invariance, <1>1, PTL

(* CObject::H_SetParent never finds the object it gives away in somebody   *)
(* else's hands: a rejection is always run before the next taking, also of *)
(* what was in somebody's hands when the client joined.                    *)
THEOREM HandsAreFree == Spec => []HandsFree
<1>1. IInv => HandsFree
  <2> SUFFICES ASSUME IInv, NEW p \in ID, NEW e \in ID, Running("take"),
                      Head(game_events) = Event("take", p, e), {p, e} \subseteq map_NETID
               PROVE  Parent[e] = NoID
    BY DEF HandsFree
  <2>1. game_events # <<>> /\ failed = {} /\ map_NETID = Objects
    BY DEF IInv, Running, InFrames, ClientRuns, HandsOK
  <2>2. PICK a \in View, b \in View, J \in Seq(Events), q \in Seq(Events) : FollowsFrom(a, b, J, q)
    BY <2>1 DEF IInv, Follows
  <2>3. J = <<>>
    BY <2>1, <2>2 DEF FollowsFrom
  <2>4. game_events = q /\ Leads(q, a, b) /\ Stands(a)
    BY <2>2, <2>3 DEF FollowsFrom
  <2>5. PICK c \in View : Turn(Head(q), a, c)
    BY <2>1, <2>4, LeadsHead
  <2>6. Head(q).type = "take" /\ Head(q).id = e
    BY <2>4, EventSame
  <2>7. a.hand[e] = NoID
    BY <2>5, <2>6 DEF Turn
  <2> QED
    BY <2>4, <2>7 DEF Stands
<1> QED
  BY Invariance, <1>1, PTL

(* CInventory::DropItem and the taking of an item that is not there never  *)
(* fail, unless a creature has refused to take an item.                    *)
THEOREM OnlyRefusalsFail == Spec => []FailsByRefusal
<1>1. IInv => FailsByRefusal
  BY DEF IInv
<1> QED
  BY Invariance, <1>1, PTL

-----------------------------------------------------------------------------
(* Nothing is left of a level.                                             *)

LevelCleared == stage = "stopped" => Objects = {}

\* The server of a single player game has nothing left when its level stops; what a
\* client destroys at the end is everything, and is only destroyed.
Clearing ==
    /\ single /\ stage \in {"stopping", "stopped"} => entities = {}
    /\ stage = "destroying" =>
          /\ \A k \in 1 .. Len(game_events) : game_events[k].type = "destroy"
          /\ \A e \in Objects \ destroy_queue : \E k \in 1 .. Len(game_events) : game_events[k].id = e
    /\ LevelCleared

\* The server does not touch the client, nor, once it has stopped, a single player's level.
LEMMA ServerClearing ==
    ASSUME Clearing, ServerNext
    PROVE  Clearing'
<1>1. ServerRuns /\ UNCHANGED <<objectVars, stage, single, game_events>>
  BY DEF ServerNext, Process_spawn, Process_event_ownership, Process_event_reject, Perform_transfer,
         Process_event_destroy, Perform_destroy, client_Destroy, CreateClient, OnCL_Connected, OnRequest,
         Speaks, clientVars
<1>2. single => stage \in {"joining", "playing"}
  BY <1>1 DEF ServerRuns
<1>3. Objects' = Objects /\ destroy_queue' = destroy_queue
  BY <1>1 DEF Objects, objectVars, listVars
<1> QED
  BY <1>1, <1>2, <1>3 DEF Clearing, LevelCleared

\* An object whose destruction is run waits for the end of the frame.
LEMMA RunClearing ==
    ASSUME IInv, Clearing, ProcessGameEvents
    PROVE  Clearing'
<1>1. PICK t \in {"spawn", "take", "reject", "destroy"} :
        /\ Running(t) /\ Done /\ (t = "spawn" => OnSpawn) /\ (t = "take" => OnTake)
        /\ (t = "reject" => OnReject) /\ (t = "destroy" => OnDestroy)
  BY DEF ProcessGameEvents, OnSpawn, OnTake, OnReject, OnDestroy
<1>2. TypeOK /\ HandsOK
  BY DEF IInv
<1>3. /\ game_events \in Seq(Events) /\ game_events # <<>> /\ Head(game_events).type = t
      /\ game_events' = Tail(game_events) /\ UNCHANGED <<stage, single, entities>> /\ stage # "stopped"
  BY <1>1, <1>2 DEF TypeOK, Running, Done, InFrames, serverVars
<1>4. /\ Head(game_events) = game_events[1] /\ 1 \in 1 .. Len(game_events) /\ Len(game_events') = Len(game_events) - 1
      /\ Len(game_events) \in Nat
      /\ \A k \in 1 .. Len(game_events') : k + 1 \in 1 .. Len(game_events) /\ game_events'[k] = game_events[k + 1]
  BY <1>3
<1>5. CASE stage # "destroying"
  BY <1>3, <1>5 DEF Clearing, LevelCleared
<1>6. CASE stage = "destroying"
  <2> DEFINE e == Head(game_events).id
  <2>1. \A k \in 1 .. Len(game_events) : game_events[k].type = "destroy"
    BY <1>6 DEF Clearing
  <2>2. t = "destroy" /\ OnDestroy
    BY <1>1, <1>3, <1>4, <2>1
  <2>3. /\ IF e \in map_NETID THEN setDestroy(e) ELSE UNCHANGED destroy_queue
        /\ UNCHANGED listVars
    BY <2>2 DEF OnDestroy
  <2> HIDE DEF e
  <2>4. Objects' = Objects /\ map_NETID = Objects /\ Objects \subseteq ID
    BY <1>2, <2>3 DEF Objects, listVars, HandsOK, TypeOK, ObjectTypeOK
  <2>5. destroy_queue \subseteq destroy_queue' /\ (e \in Objects => e \in destroy_queue')
    <3>1. CASE e \in Objects
      <4>1. e \in WithChildren(e)
        BY <2>4, <3>1 DEF WithChildren
      <4> QED
        BY <2>3, <2>4, <3>1, <4>1 DEF setDestroy
    <3>2. CASE e \notin Objects
      BY <2>3, <2>4, <3>2
    <3> QED
      BY <3>1, <3>2
  <2>6. ASSUME NEW x \in Objects' \ destroy_queue'
        PROVE  \E k \in 1 .. Len(game_events') : game_events'[k].id = x
    <3>1. x \in Objects \ destroy_queue /\ x # e
      BY <2>4, <2>5
    <3>2. PICK k \in 1 .. Len(game_events) : game_events[k].id = x
      BY <1>6, <3>1 DEF Clearing
    <3>3. k # 1
      BY <1>4, <3>1, <3>2 DEF e
    <3>4. k - 1 \in 1 .. Len(game_events') /\ (k - 1) + 1 = k
      BY <1>4, <3>3
    <3> QED
      BY <1>4, <3>2, <3>4
  <2>7. \A k \in 1 .. Len(game_events') : game_events'[k].type = "destroy"
    BY <1>4, <2>1
  <2> QED
    BY <1>3, <1>6, <2>6, <2>7 DEF Clearing, LevelCleared
<1> QED
  BY <1>5, <1>6

\* When the last round is over there is nothing.
LEMMA LeaveClearing ==
    ASSUME IInv, Clearing, net_Stop \/ ClearAllObjects \/ Disconnect
    PROVE  Clearing'
<1>1. CASE net_Stop
  <2>1. single' = single /\ stage' = "stopping" /\ (single => entities' = {})
    BY <1>1 DEF net_Stop
  <2> QED
    BY <2>1 DEF Clearing, LevelCleared
<1>2. CASE ClearAllObjects
  <2>1. /\ ~ single' /\ stage' # "stopped" /\ (stage' = "destroying" => Held = {})
        /\ UNCHANGED <<objectVars, serverVars>>
        /\ Held = {} => game_events' = SetToSeq({Event("destroy", NoID, e) : e \in Objects})
    BY <1>2 DEF ClearAllObjects, serverVars
  <2>2. CASE Held # {}
    BY <2>1, <2>2 DEF Clearing, LevelCleared
  <2>3. CASE Held = {}
    <3> DEFINE S == {Event("destroy", NoID, e) : e \in Objects}
    <3>1. Objects \subseteq ID /\ IsFiniteSet(Objects)
      <4>1. Objects \subseteq ID
        BY DEF IInv, TypeOK, ObjectTypeOK, Objects
      <4> QED
        BY <4>1, ReplicaAssumption, FS_Subset
    <3>2. IsFiniteSet(S)
      <4> DEFINE f == [e \in Objects |-> Event("destroy", NoID, e)]
      <4>1. f \in [Objects -> S] /\ \A s \in S : \E e \in Objects : f[e] = s
        OBVIOUS
      <4> HIDE DEF f, S
      <4>2. f \in Surjection(Objects, S)
        BY <4>1 DEF Surjection
      <4> QED
        BY <3>1, <4>2, FS_Surjection
    <3>3. \A x \in S : x.type = "destroy"
      BY EventSame
    <3>4. \A e \in Objects : Event("destroy", NoID, e) \in S /\ Event("destroy", NoID, e).id = e
      BY EventSame
    <3> HIDE DEF S
    <3>5. PICK q \in Seq(S) : q = SetToSeq(S) /\ \A x \in S : \E k \in 1 .. Len(q) : q[k] = x
      BY <3>2, Listed
    <3>6. q = game_events'
      BY <2>1, <2>3, <3>5 DEF S
    <3>7. Objects' = Objects
      BY <2>1 DEF Objects, objectVars, listVars
    <3>8. \A e \in Objects : \E k \in 1 .. Len(q) : q[k].id = e
      BY <3>4, <3>5
    <3>9. \A k \in 1 .. Len(q) : q[k].type = "destroy"
      BY <3>3, <3>5
    <3> QED
      BY <2>1, <3>6, <3>7, <3>8, <3>9 DEF Clearing, LevelCleared
  <2> QED
    BY <2>2, <2>3
<1>3. CASE Disconnect
  <2>1. /\ InFrames /\ game_events = <<>> /\ destroy_queue = {} /\ stage' = "stopped"
        /\ IF single THEN stage = "stopping" /\ toClient = <<>> ELSE stage = "destroying"
        /\ UNCHANGED <<objectVars, single, entities>>
    BY <1>3 DEF Disconnect, BetweenFrames
  <2>2. Objects' = Objects
    BY <2>1 DEF Objects, objectVars, listVars
  <2>3. Objects = {}
    <3>1. CASE single
      <4>1. PICK a \in View : Stands(a) /\ LeadsAll(toClient, a, Served)
        BY <2>1, <3>1, Idle DEF Following
      <4>2. a = Served
        BY <2>1, <3>1, <4>1, LeadsAllFacts
      <4>3. a.alive = {}
        BY <2>1, <3>1, <4>2 DEF Clearing, Served
      <4> QED
        BY <2>1, <4>1, <4>3 DEF Stands
    <3>2. CASE ~ single
      <4>1. \A k \in 1 .. Len(<<>>) : FALSE
        OBVIOUS
      <4> QED
        BY <2>1, <3>2, <4>1 DEF Clearing
    <3> QED
      BY <3>1, <3>2
  <2> QED
    BY <2>1, <2>2, <2>3 DEF Clearing, LevelCleared
<1> QED
  BY <1>1, <1>2, <1>3

\* Every step keeps it.
LEMMA ClearingNext == IInv /\ Clearing /\ [Next]_vars => Clearing'
<1> SUFFICES ASSUME IInv, Clearing, [Next]_vars
             PROVE  Clearing'
  OBVIOUS
<1>1. CASE ClientReceive
  <2>1. /\ stage \in {"joining", "playing", "stopping"} /\ stage' \in {stage, "playing"}
        /\ UNCHANGED <<single, entities>>
    BY <1>1 DEF ClientReceive, serverVars
  <2> QED
    BY <2>1 DEF Clearing, LevelCleared
<1>2. CASE ObjectsUpdate
  <2>1. /\ Objects' = Objects \ destroy_queue /\ destroy_queue' = {}
        /\ UNCHANGED <<single, entities, stage, game_events>>
    BY <1>2 DEF ObjectsUpdate, Update, Objects, serverVars
  <2> QED
    BY <2>1 DEF Clearing, LevelCleared
<1>3. CASE \/ \E w \in Watcher, o \in ID : See(w, o)
           \/ \E w \in Watcher : FallAsleep(w)
           \/ \E p, e \in ID : Drop(p, e)
           \/ UNCHANGED vars
  <2>1. Objects' = Objects /\ UNCHANGED <<destroy_queue, single, entities, stage, game_events>>
    BY <1>3
    DEF See, FallAsleep, Drop, Processing, Objects, vars, objectVars, listVars, serverVars, clientVars
  <2> QED
    BY <2>1 DEF Clearing, LevelCleared
<1> QED
  BY <1>1, <1>2, <1>3, ServerClearing, RunClearing, LeaveClearing DEF Next, ClientNext

(* A client that has left its level, whichever way CLevel::remove_objects  *)
(* takes, has deleted every object of it, in whosever hands it was.        *)
THEOREM NothingLeft == Spec => []LevelCleared
<1>1. Init => Clearing
  BY DEF Init, Clearing, LevelCleared
<1>2. Clearing => LevelCleared
  BY DEF Clearing
<1> QED
  BY Invariance, ClearingNext, <1>1, <1>2, PTL DEF Spec
=============================================================================
