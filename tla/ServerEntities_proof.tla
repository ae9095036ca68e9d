------------------------ MODULE ServerEntities_proof ------------------------
(***************************************************************************)
(* The inductive invariant of ServerEntities and what follows from it, for *)
(* any number of identifiers and clients and both kinds of game.           *)
(*                                                                         *)
(* The theorems are about the behaviours in which bodies wait for their    *)
(* bags ([][BodiesWait]_vars): one step that destroys a body with its bag, *)
(* which the code does not rule out, is all that is excluded.              *)
(***************************************************************************)
EXTENDS ServerEntities, SequenceTheorems, FiniteSetTheorems, TLAPS

-----------------------------------------------------------------------------
(* Lists of children.                                                      *)

Elems(C) == {C[i] : i \in DOMAIN C}
Distinct(C) == \A i, j \in DOMAIN C : C[i] = C[j] => i = j

\* The empty list has no elements, and no other list has none.
LEMMA NoElems ==
    ASSUME NEW S, NEW C \in Seq(S)
    PROVE  /\ Elems(C) = {} <=> C = <<>>
           /\ Elems(<<>>) = {} /\ Distinct(<<>>) /\ <<>> \in Seq(S)
<1>1. Elems(<<>>) = {}
  BY DEF Elems
<1>2. Distinct(<<>>)
  BY DEF Distinct
<1>3. Elems(C) = {} => DOMAIN C = {}
  BY DEF Elems
<1>4. DOMAIN C = 1..Len(C) /\ Len(C) \in Nat
  OBVIOUS
<1>5. DOMAIN C = {} => Len(C) = 0
  BY <1>4
<1> QED
  BY <1>1, <1>2, <1>3, <1>5

\* children.begin() and children.back() are children.
LEMMA EndsOfList ==
    ASSUME NEW S, NEW C \in Seq(S), C # <<>>
    PROVE  Head(C) \in Elems(C) /\ Last(C) \in Elems(C) /\ Elems(C) \subseteq S
<1>1. Len(C) \in Nat /\ Len(C) > 0 /\ DOMAIN C = 1..Len(C) /\ Head(C) = C[1]
  OBVIOUS
<1>2. 1 \in DOMAIN C /\ Len(C) \in DOMAIN C
  BY <1>1
<1> QED
  BY <1>1, <1>2 DEF Elems, Last

\* push_back of what is not listed.
LEMMA AddOne ==
    ASSUME NEW S, NEW C \in Seq(S), NEW e \in S
    PROVE  /\ Append(C, e) \in Seq(S)
           /\ Elems(Append(C, e)) = Elems(C) \cup {e}
           /\ Distinct(C) /\ e \notin Elems(C) => Distinct(Append(C, e))
<1> DEFINE D == Append(C, e)
<1>1. /\ D \in Seq(S) /\ Len(C) \in Nat /\ Len(D) = Len(C) + 1
      /\ DOMAIN C = 1..Len(C) /\ DOMAIN D = 1..Len(D)
      /\ \A i \in 1..Len(C) : D[i] = C[i]
      /\ D[Len(D)] = e
  OBVIOUS
<1> HIDE DEF D
<1>2. Elems(D) = Elems(C) \cup {e}
  BY <1>1 DEF Elems
<1>3. Distinct(C) /\ e \notin Elems(C) => Distinct(D)
  BY <1>1 DEF Elems, Distinct
<1> QED
  BY <1>1, <1>2, <1>3 DEF D

\* What comes before and what comes after a position of a list.
LEMMA Around ==
    ASSUME NEW S, NEW C \in Seq(S), NEW k \in 1..Len(C)
    PROVE  /\ SubSeq(C, 1, k - 1) \in Seq(S)
           /\ Len(SubSeq(C, 1, k - 1)) = k - 1
           /\ \A i \in 1..(k - 1) : SubSeq(C, 1, k - 1)[i] = C[i]
           /\ SubSeq(C, k + 1, Len(C)) \in Seq(S)
           /\ Len(SubSeq(C, k + 1, Len(C))) = Len(C) - k
           /\ \A i \in 1..(Len(C) - k) : SubSeq(C, k + 1, Len(C))[i] = C[k + i]
<1>1. SubSeq(C, 1, k - 1) \in Seq(S) /\ Len(SubSeq(C, 1, k - 1)) = k - 1
  OBVIOUS
<1>2. \A i \in 1..(k - 1) : SubSeq(C, 1, k - 1)[i] = C[i]
  OBVIOUS
<1>3. SubSeq(C, k + 1, Len(C)) \in Seq(S) /\ Len(SubSeq(C, k + 1, Len(C))) = Len(C) - k
  OBVIOUS
<1>4. \A i \in 1..(Len(C) - k) : SubSeq(C, k + 1, Len(C))[i] = C[k + i]
  OBVIOUS
<1> QED
  BY <1>1, <1>2, <1>3, <1>4

\* erase(find(C, e)): what is left of a list without repetitions is the rest
\* of it, again without repetitions.
LEMMA EraseOne ==
    ASSUME NEW S, NEW C \in Seq(S), NEW e \in Elems(C), Distinct(C)
    PROVE  /\ RemoveFirst(C, e) \in Seq(S)
           /\ Elems(RemoveFirst(C, e)) = Elems(C) \ {e}
           /\ Distinct(RemoveFirst(C, e))
<1>1. PICK k \in 1..Len(C) : C[k] = e
  BY DEF Elems
<1>2. SelectInSeq(C, LAMBDA v : v = e) = k
  BY <1>1 DEF SelectInSeq, Min, Distinct
<1> DEFINE B == SubSeq(C, 1, k - 1)
           A == SubSeq(C, k + 1, Len(C))
           D == B \o A
<1>3. RemoveFirst(C, e) = D
  BY <1>1, <1>2 DEF RemoveFirst, RemoveAt
<1>4. Len(C) \in Nat /\ k \in Int /\ 1 <= k /\ k <= Len(C) /\ DOMAIN C = 1..Len(C)
  BY <1>1
<1>5. B \in Seq(S) /\ Len(B) = k - 1 /\ \A i \in 1..(k - 1) : B[i] = C[i]
  BY Around
<1>6. A \in Seq(S) /\ Len(A) = Len(C) - k /\ \A i \in 1..(Len(C) - k) : A[i] = C[k + i]
  BY Around
<1> HIDE DEF A, B
<1>7. D \in Seq(S) /\ Len(D) = Len(C) - 1
  <2>1. B \in Seq(S) /\ A \in Seq(S)
    BY <1>5, <1>6
  <2>2. D \in Seq(S) /\ Len(D) = Len(B) + Len(A)
    BY <2>1
  <2> QED
    BY <2>2, <1>4, <1>5, <1>6
<1>8. \A i \in 1..(Len(C) - 1) : D[i] = IF i < k THEN C[i] ELSE C[i + 1]
  <2> TAKE i \in 1..(Len(C) - 1)
  <2>1. D[i] = IF i <= Len(B) THEN B[i] ELSE A[i - Len(B)]
    BY <1>4, <1>5, <1>6, ConcatProperties
  <2>2. CASE i < k
    BY <2>1, <2>2, <1>4, <1>5
  <2>3. CASE ~(i < k)
    <3>1. i - Len(B) \in 1..(Len(C) - k) /\ k + (i - Len(B)) = i + 1
      BY <2>3, <1>4, <1>5
    <3> QED
      BY <2>1, <2>3, <3>1, <1>4, <1>5, <1>6
  <2> QED
    BY <2>2, <2>3
<1> HIDE DEF D
<1>9. DOMAIN D = 1..(Len(C) - 1)
  BY <1>7
<1>10. Elems(D) \subseteq Elems(C) \ {e}
  BY <1>1, <1>4, <1>8, <1>9 DEF Elems, Distinct
<1>11. Elems(C) \ {e} \subseteq Elems(D)
  <2> SUFFICES ASSUME NEW j \in 1..Len(C), j # k
               PROVE  \E i \in 1..(Len(C) - 1) : D[i] = C[j]
    BY <1>1, <1>4, <1>9 DEF Elems
  <2>1. CASE j < k
    BY <2>1, <1>4, <1>8
  <2>2. CASE j > k
    <3>1. j - 1 \in 1..(Len(C) - 1) /\ ~(j - 1 < k) /\ (j - 1) + 1 = j
      BY <2>2, <1>4
    <3> QED
      BY <3>1, <1>8
  <2> QED
    BY <2>1, <2>2, <1>4
<1>12. Distinct(D)
  BY <1>4, <1>8, <1>9 DEF Distinct
<1> QED
  BY <1>3, <1>7, <1>10, <1>11, <1>12

\* A set of naturals that is not empty has a least element.
LEMMA LeastOf ==
    ASSUME NEW I \in SUBSET Nat, I # {}
    PROVE  \E m \in I : \A n \in I : m =< n
<1>1. PICK m \in I : \A n \in I : ~ (<<n, m>> \in OpToRel(<, Nat))
  BY NatLessThanWellFounded, WFMin
<1>2. ASSUME NEW n \in I
      PROVE  m =< n
  <2>1. ~ (<<n, m>> \in {ss \in Nat \X Nat : ss[1] < ss[2]})
    BY <1>1 DEF OpToRel
  <2>2. <<n, m>> \in Nat \X Nat /\ <<n, m>>[1] = n /\ <<n, m>>[2] = m
    OBVIOUS
  <2> QED
    BY <2>1, <2>2
<1> QED
  BY <1>2

\* The first child found in T is in T.
LEMMA FirstFound ==
    ASSUME NEW p \in ID, children[p] \in Seq(ID), NEW T, T # {}, T \subseteq Listed(p)
    PROVE  FirstOf(p, T) \in T
<1> DEFINE C == children[p]
           I == {i \in 1..Len(C) : C[i] \in T}
<1>1. I # {} /\ I \subseteq Nat
  BY DEF Listed
<1>2. \E m \in I : \A n \in I : m =< n
  BY <1>1, LeastOf
<1>3. SelectInSeq(C, LAMBDA t : t \in T) \in I
  BY <1>1, <1>2 DEF SelectInSeq, Min
<1> QED
  BY <1>3 DEF FirstOf

-----------------------------------------------------------------------------
(* The tree.                                                               *)

\* The invariant's conjuncts about the map, with the two links in one.
TreeType ==
    /\ live \subseteq ID
    /\ kind \in [ID -> Kind \cup {NoKind}]
    /\ parent \in [ID -> ID \cup {NoID}]
    /\ children \in [ID -> Seq(ID)]

Linked ==
    /\ \A c \in live : parent[c] \in live \cup {NoID}
    /\ \A p \in live : Distinct(children[p])
    /\ \A p \in live : \A c \in ID : c \in Elems(children[p]) <=> c \in live /\ parent[c] = p

Tree == TreeType /\ Linked /\ CarriedAllowed

\* The two forms say the same.
LEMMA TreeForm ==
    ASSUME TreeType
    PROVE  Linked <=> VerifyEntities
<1>1. \A p \in ID : Listed(p) = Elems(children[p]) /\ Elems(children[p]) \subseteq ID
  BY DEF TreeType, Listed, Elems
<1>2. Linked => ParentsKnow
  BY <1>1 DEF Linked, ParentsKnow, TreeType
<1>3. Linked => ChildrenKnow
  BY <1>1 DEF Linked, ChildrenKnow, Distinct, TreeType
<1>4. ASSUME VerifyEntities
      PROVE  Linked
  <2>1. \A c \in live : parent[c] \in live \cup {NoID}
    BY <1>4 DEF VerifyEntities, ParentsKnow, TreeType
  <2>2. \A p \in live : Distinct(children[p])
    BY <1>4 DEF VerifyEntities, ChildrenKnow, Distinct
  <2>3. \A p \in live : p \in ID /\ p # NoID
    BY IDAssumption DEF TreeType
  <2>4. \A p \in live : \A c \in ID : c \in Elems(children[p]) => c \in live /\ parent[c] = p
    BY <1>1, <1>4, <2>3 DEF VerifyEntities, ChildrenKnow
  <2>5. \A p \in live : \A c \in ID : c \in live /\ parent[c] = p => c \in Elems(children[p])
    BY <1>1, <1>4, <2>3 DEF VerifyEntities, ParentsKnow
  <2> QED
    BY <2>1, <2>2, <2>4, <2>5 DEF Linked
<1> QED
  BY <1>2, <1>3, <1>4 DEF VerifyEntities

\* What Holds implies: it goes down the ranks, and only actors carry bags.
LEMMA HoldsFacts ==
    ASSUME NEW a, NEW b, <<a, b>> \in Holds
    PROVE  /\ a \in Kind /\ b \in Kind /\ a # b
           /\ b \notin {"actor", "spectator"} /\ a \notin {"spectator", "ammo"}
           /\ b = "bag" => a = "actor"
           /\ a = "bag" => b \in {"weapon", "ammo"}
           /\ Rank(a) \in Nat /\ Rank(b) \in Nat /\ Rank(a) < Rank(b)
BY DEF Holds, Kind, Rank, Weapons

LEMMA NoKindIsNone == NoKind \notin Kind
BY DEF NoKind, Kind

\* An entity spawned, on its own or in hand.
LEMMA InsertTree ==
    ASSUME Tree, NEW id \in ID \ live, NEW k \in Kind, NEW p \in live \cup {NoID}, NEW c,
           p # NoID => <<kind[p], k>> \in Holds,
           Insert(id, k, p, c)
    PROVE  Tree'
<1>1. p # id /\ NoID \notin live /\ live \subseteq ID
  BY IDAssumption DEF Tree, TreeType
<1>2. children' \in [ID -> Seq(ID)]
  BY AddOne, NoElems DEF Insert, Tree, TreeType
<1>3. \A x \in live : /\ Elems(children'[x]) = Elems(children[x]) \cup (IF x = p THEN {id} ELSE {})
                     /\ Distinct(children'[x])
  BY AddOne DEF Linked, Insert, Tree, TreeType
<1>4. Elems(children'[id]) = {} /\ Distinct(children'[id])
  BY NoElems DEF Insert, Tree, TreeType
<1>5. TreeType'
  <2>1. live' \subseteq ID /\ parent' \in [ID -> ID \cup {NoID}]
    BY <1>1 DEF Insert, Tree, TreeType
  <2>2. kind' \in [ID -> Kind \cup {NoKind}]
    BY DEF Insert, Tree, TreeType
  <2> QED
    BY <1>2, <2>1, <2>2 DEF TreeType
<1>6. /\ live' = live \cup {id}
      /\ parent'[id] = p /\ kind'[id] = k
      /\ \A x \in ID \ {id} : parent'[x] = parent[x] /\ kind'[x] = kind[x]
  <2>1. /\ live' = live \cup {id}
        /\ parent' = [parent EXCEPT ![id] = p] /\ kind' = [kind EXCEPT ![id] = k]
    BY DEF Insert
  <2> QED
    BY <2>1 DEF Tree, TreeType
<1>7. \A x \in live : parent[x] # id
  <2>1. id # NoID
    BY IDAssumption
  <2> QED
    BY <2>1 DEF Linked, Tree
<1>8. Linked'
  <2>1. \A x \in live' : parent'[x] \in live' \cup {NoID}
    BY <1>1, <1>6 DEF Linked, Tree
  <2>2. \A x \in live' : Distinct(children'[x])
    BY <1>3, <1>4, <1>6
  <2>3. ASSUME NEW x \in live', NEW y \in ID
        PROVE  y \in Elems(children'[x]) <=> y \in live' /\ parent'[y] = x
    <3>1. CASE x = id
      BY <3>1, <1>1, <1>4, <1>6, <1>7
    <3>2. CASE x # id
      <4>1. x \in live /\ (y \in Elems(children[x]) <=> y \in live /\ parent[y] = x)
        BY <3>2, <1>6 DEF Linked, Tree
      <4> QED
        BY <4>1, <1>1, <1>3, <1>6
    <3> QED
      BY <3>1, <3>2
  <2> QED
    BY <2>1, <2>2, <2>3 DEF Linked
<1>9. CarriedAllowed'
  <2>1. \A x \in ID : x \in live' <=> kind'[x] # NoKind
    BY <1>6, NoKindIsNone DEF CarriedAllowed, Tree
  <2>2. ASSUME NEW x \in live', parent'[x] \in live'
        PROVE  <<kind'[parent'[x]], kind'[x]>> \in Holds
    BY <2>2, <1>1, <1>6, <1>7 DEF CarriedAllowed, Tree
  <2> QED
    BY <2>1, <2>2 DEF CarriedAllowed
<1> QED
  BY <1>5, <1>8, <1>9 DEF Tree

\* What is on its own is taken.
LEMMA AttachTree ==
    ASSUME Tree, NEW p \in live, NEW e \in live, parent[e] = NoID,
           <<kind[p], kind[e]>> \in Holds,
           Attach(p, e), UNCHANGED <<live, kind>>
    PROVE  Tree'
<1>1. p # e /\ NoID \notin live /\ live \subseteq ID
  BY HoldsFacts, IDAssumption DEF Tree, TreeType
<1>2. e \notin Elems(children[p])
  BY <1>1 DEF Linked, Tree
<1>3. children' \in [ID -> Seq(ID)]
  BY AddOne DEF Attach, Tree, TreeType
<1>4. \A x \in live : /\ Elems(children'[x]) = Elems(children[x]) \cup (IF x = p THEN {e} ELSE {})
                     /\ Distinct(children'[x])
  BY <1>2, AddOne DEF Linked, Attach, Tree, TreeType
<1>5. \A x \in ID : parent'[x] = IF x = e THEN p ELSE parent[x]
  BY DEF Attach, Tree, TreeType
<1>6. Linked'
  <2>1. ASSUME NEW x \in live, NEW y \in ID
        PROVE  y \in Elems(children'[x]) <=> y \in live /\ parent'[y] = x
    <3>1. y \in Elems(children[x]) <=> y \in live /\ parent[y] = x
      BY DEF Linked, Tree
    <3> QED
      BY <3>1, <1>1, <1>4, <1>5
  <2> QED
    BY <2>1, <1>1, <1>4, <1>5 DEF Linked, Tree
<1>7. CarriedAllowed'
  BY <1>1, <1>5 DEF CarriedAllowed, Linked, Tree
<1>8. TreeType'
  BY <1>1, <1>3 DEF Attach, Tree, TreeType
<1> QED
  BY <1>6, <1>7, <1>8 DEF Tree

\* What is carried is let go.
LEMMA DetachTree ==
    ASSUME Tree, NEW p \in live, NEW e \in live, parent[e] = p,
           Detach(p, e), UNCHANGED <<live, kind>>
    PROVE  /\ Tree'
           /\ \A x \in live : Elems(children'[x]) \subseteq Elems(children[x])
<1>1. NoID \notin live /\ e \in Elems(children[p]) /\ live \subseteq ID
  BY IDAssumption DEF Linked, Tree, TreeType
<1>2. children' \in [ID -> Seq(ID)]
  BY <1>1, EraseOne DEF Linked, Detach, Tree, TreeType
<1>3. \A x \in live : /\ Elems(children'[x]) = Elems(children[x]) \ (IF x = p THEN {e} ELSE {})
                     /\ Distinct(children'[x])
  BY <1>1, EraseOne DEF Linked, Detach, Tree, TreeType
<1>4. \A x \in ID : parent'[x] = IF x = e THEN NoID ELSE parent[x]
  BY DEF Detach, Tree, TreeType
<1>5. Linked'
  <2>1. ASSUME NEW x \in live, NEW y \in ID
        PROVE  y \in Elems(children'[x]) <=> y \in live /\ parent'[y] = x
    <3>1. y \in Elems(children[x]) <=> y \in live /\ parent[y] = x
      BY DEF Linked, Tree
    <3> QED
      BY <3>1, <1>1, <1>3, <1>4
  <2> QED
    BY <2>1, <1>1, <1>3, <1>4 DEF Linked, Tree
<1>6. CarriedAllowed'
  BY <1>1, <1>4 DEF CarriedAllowed, Linked, Tree
<1>7. TreeType'
  BY <1>2 DEF Detach, Tree, TreeType
<1> QED
  BY <1>3, <1>5, <1>6, <1>7 DEF Tree

\* What is carried changes hands.
LEMMA TransferTree ==
    ASSUME Tree, NEW e \in live, NEW from \in live, NEW to \in live,
           <<kind[to], kind[e]>> \in Holds,
           Perform_transfer(e, from, to)
    PROVE  /\ Tree'
           /\ \A x \in live : Elems(children'[x]) \subseteq Elems(children[x]) \cup {e}
           /\ \A x \in live \ {from, to} : children'[x] = children[x]
           /\ \A x \in ID \ {e} : parent'[x] = parent[x]
           /\ Elems(children'[from]) \subseteq Elems(children[from])
<1>1. /\ NoID \notin live /\ live \subseteq ID /\ from # to /\ parent[e] = from
      /\ e \in Elems(children[from]) /\ e \notin Elems(children[to])
  BY IDAssumption DEF Linked, Perform_transfer, Tree, TreeType
<1>2. /\ children'[from] = RemoveFirst(children[from], e)
      /\ children'[to] = Append(children[to], e)
      /\ \A x \in ID \ {from, to} : children'[x] = children[x]
      /\ \A x \in ID : parent'[x] = IF x = e THEN to ELSE parent[x]
      /\ live' = live /\ kind' = kind
  BY <1>1 DEF Perform_transfer, Tree, TreeType
<1>3. /\ children'[from] \in Seq(ID) /\ children'[to] \in Seq(ID)
      /\ Distinct(children'[from]) /\ Distinct(children'[to])
      /\ Elems(children'[from]) = Elems(children[from]) \ {e}
      /\ Elems(children'[to]) = Elems(children[to]) \cup {e}
  <2>1. children[from] \in Seq(ID) /\ children[to] \in Seq(ID)
    BY <1>1 DEF Tree, TreeType
  <2>2. Distinct(children[from]) /\ Distinct(children[to])
    BY DEF Linked, Tree
  <2> QED
    BY <2>1, <2>2, <1>1, <1>2, EraseOne, AddOne
<1>4. TreeType'
  BY <1>1, <1>2, <1>3 DEF Perform_transfer, Tree, TreeType
<1>5. Linked'
  <2>1. \A x \in live : Distinct(children'[x])
    BY <1>1, <1>2, <1>3 DEF Linked, Tree
  <2>2. ASSUME NEW x \in live, NEW y \in ID
        PROVE  y \in Elems(children'[x]) <=> y \in live /\ parent'[y] = x
    <3>1. y \in Elems(children[x]) <=> y \in live /\ parent[y] = x
      BY DEF Linked, Tree
    <3>2. x \in ID
      BY <1>1
    <3>3. CASE x = from
      BY <3>1, <3>3, <1>1, <1>2, <1>3
    <3>4. CASE x = to
      BY <3>1, <3>4, <1>1, <1>2, <1>3
    <3>5. CASE x \notin {from, to}
      BY <3>1, <3>2, <3>5, <1>1, <1>2
    <3> QED
      BY <3>3, <3>4, <3>5
  <2>3. \A x \in live : parent'[x] \in live \cup {NoID}
    BY <1>1, <1>2 DEF Linked, Tree
  <2> QED
    BY <2>1, <2>2, <2>3, <1>2 DEF Linked
<1>6. CarriedAllowed'
  BY <1>1, <1>2 DEF CarriedAllowed, Linked, Tree
<1>7. \A x \in live : Elems(children'[x]) \subseteq Elems(children[x]) \cup {e}
  BY <1>1, <1>2, <1>3
<1> QED
  BY <1>1, <1>2, <1>3, <1>4, <1>5, <1>6, <1>7 DEF Tree

\* What carries nothing and is carried by nobody is deleted.
LEMMA DestroyTree ==
    ASSUME Tree, NEW e \in live, children[e] = <<>>, parent[e] = NoID,
           entity_Destroy(e)
    PROVE  Tree'
<1>1. NoID \notin live /\ live \subseteq ID /\ Elems(children[e]) = {}
  BY NoElems, IDAssumption DEF Tree, TreeType
<1>2. /\ live' = live \ {e} /\ kind'[e] = NoKind
      /\ \A x \in ID \ {e} : children'[x] = children[x] /\ parent'[x] = parent[x] /\ kind'[x] = kind[x]
  BY DEF entity_Destroy, Tree, TreeType
<1>3. \A x \in live : parent[x] # e
  BY <1>1 DEF Linked, Tree
<1>4. TreeType'
  BY NoElems DEF entity_Destroy, Tree, TreeType
<1>5. Linked'
  BY <1>1, <1>2, <1>3 DEF Linked, Tree
<1>6. CarriedAllowed'
  <2>1. \A x \in ID : x \in live' <=> kind'[x] # NoKind
    BY <1>2 DEF CarriedAllowed, Tree
  <2>2. \A x \in live' : parent'[x] \in live' => <<kind'[parent'[x]], kind'[x]>> \in Holds
    BY <1>1, <1>2, <1>3 DEF CarriedAllowed, Tree
  <2> QED
    BY <2>1, <2>2 DEF CarriedAllowed
<1> QED
  BY <1>4, <1>5, <1>6 DEF Tree

-----------------------------------------------------------------------------
(* The call stack.                                                         *)

\* The top of the stack and what is below it.
LEMMA TopAndCallers ==
    ASSUME stack \in Seq(Frame), stack # <<>>
    PROVE  /\ Len(stack) \in Nat \ {0} /\ DOMAIN stack = 1..Len(stack)
           /\ Top \in Frame /\ Len(stack) \in DOMAIN stack
           /\ Callers \in Seq(Frame) /\ Len(Callers) = Len(stack) - 1
           /\ DOMAIN Callers = 1..(Len(stack) - 1)
           /\ \A i \in 1..(Len(stack) - 1) : Callers[i] = stack[i]
<1>1. Len(stack) \in 1..Len(stack) /\ Len(stack) \in Nat \ {0} /\ DOMAIN stack = 1..Len(stack)
  OBVIOUS
<1>2. /\ Callers \in Seq(Frame) /\ Len(Callers) = Len(stack) - 1
      /\ \A i \in 1..(Len(stack) - 1) : Callers[i] = stack[i]
  BY <1>1, Around DEF Callers
<1> QED
  BY <1>1, <1>2 DEF Top

\* A frame pushed on others.
LEMMA Pushed ==
    ASSUME NEW s \in Seq(Frame), NEW f \in Frame
    PROVE  /\ Append(s, f) \in Seq(Frame)
           /\ Len(s) \in Nat /\ Len(Append(s, f)) = Len(s) + 1
           /\ DOMAIN s = 1..Len(s) /\ DOMAIN Append(s, f) = 1..(Len(s) + 1)
           /\ \A i \in 1..Len(s) : Append(s, f)[i] = s[i]
           /\ Append(s, f)[Len(s) + 1] = f
OBVIOUS

\* A handler calls another that works further down the tree.
LEMMA PushOK ==
    ASSUME NEW s \in Seq(Frame), StackOK(s), NEW f \in Frame, FrameOK(f),
           f.op # "erase",
           \A i \in DOMAIN s : /\ s[i].op \notin {"reject", "erase"}
                               /\ s[i].op = "unpack" => f.op = "reject"
                               /\ f.op \in {"clear", "unpack"} => s[i].op \notin OnTree
                               /\ f.op \in OnTree /\ s[i].op \in OnTree =>
                                      Rank(kind[s[i].e]) < Rank(kind[f.e])
    PROVE  StackOK(Append(s, f))
<1> DEFINE t == Append(s, f)
<1>1. /\ t \in Seq(Frame) /\ Len(s) \in Nat /\ Len(t) = Len(s) + 1
      /\ DOMAIN s = 1..Len(s) /\ DOMAIN t = 1..(Len(s) + 1)
      /\ \A i \in 1..Len(s) : t[i] = s[i]
      /\ t[Len(s) + 1] = f
  BY Pushed
<1> HIDE DEF t
<1>2. FramesOK(t)
  BY <1>1 DEF StackOK, FramesOK
<1>3. RanksOK(t)
  BY <1>1 DEF StackOK, RanksOK
<1>4. EraseOK(t)
  BY <1>1 DEF EraseOK
<1>5. CallsOK(t)
  BY <1>1 DEF StackOK, CallsOK
<1> QED
  BY <1>2, <1>3, <1>4, <1>5 DEF StackOK, t

\* A handler returns to one that is not about to erase anything, or calls
\* another in its place.
LEMMA PopOK ==
    ASSUME stack \in Seq(Frame), StackOK(stack), stack # <<>>, Top.op # "reject"
    PROVE  /\ StackOK(Callers)
           /\ \A i \in 1..(Len(stack) - 1) : stack[i].op \notin {"reject", "erase", "unpack"}
<1> DEFINE n == Len(stack)
<1>1. /\ n \in Nat \ {0} /\ n = Len(stack) /\ DOMAIN stack = 1..n /\ Top = stack[n]
      /\ Callers \in Seq(Frame) /\ Len(Callers) = n - 1
      /\ DOMAIN Callers = 1..(n - 1)
      /\ \A i \in 1..(n - 1) : Callers[i] = stack[i] /\ Callers[i] \in Frame
  <2>1. \A i \in 1..(n - 1) : stack[i] \in Frame
    BY TopAndCallers
  <2> QED
    BY <2>1, TopAndCallers DEF Top
<1> HIDE DEF n
<1>2. \A i \in 1..(n - 1) : stack[i].op # "erase"
  <2> SUFFICES ASSUME NEW i \in 1..(n - 1), stack[i].op = "erase"
               PROVE  FALSE
    OBVIOUS
  <2>1. i \in DOMAIN stack /\ i # Len(stack)
    BY <1>1
  <2>2. i + 1 = n /\ stack[n] = OnPair("reject", parent[stack[i].e], stack[i].e)
    BY <1>1, <2>1 DEF StackOK, EraseOK
  <2>3. stack[n].op = "reject"
    BY <2>2 DEF OnPair
  <2> QED
    BY <2>3, <1>1
<1>3. \A i \in 1..(n - 1) : stack[i].op # "reject" /\ (stack[i].op = "unpack" => Top.op = "reject")
  <2>1. \A i \in 1..(n - 1) : i \in DOMAIN stack /\ n \in DOMAIN stack /\ i < n
    BY <1>1
  <2> QED
    BY <2>1, <1>1 DEF StackOK, CallsOK
<1>4. FramesOK(Callers)
  BY <1>1 DEF StackOK, FramesOK
<1>5. RanksOK(Callers)
  BY <1>1 DEF StackOK, RanksOK
<1>6. EraseOK(Callers)
  BY <1>1, <1>2 DEF EraseOK
<1>7. CallsOK(Callers)
  BY <1>1 DEF StackOK, CallsOK
<1> QED
  BY <1>1, <1>2, <1>3, <1>4, <1>5, <1>6, <1>7 DEF StackOK

\* A handler that changed the tree returns.
LEMMA ReturnOK ==
    ASSUME stack \in Seq(Frame), StackOK(stack), stack # <<>>, stack' = Callers,
           \A f \in Frame : \A i \in 1..(Len(stack) - 1) : f = stack[i] =>
              /\ FrameOK(f)'
              /\ f.op \in OnTree => kind'[f.e] = kind[f.e]
              /\ f.op = "erase" => children'[f.e] = <<>> /\ parent'[f.e] = NoID
    PROVE  StackOK(stack)'
<1> DEFINE n == Len(stack)
<1>1. /\ n \in Nat \ {0} /\ n = Len(stack) /\ DOMAIN stack = 1..n
      /\ stack' \in Seq(Frame) /\ Len(stack') = n - 1
      /\ DOMAIN stack' = 1..(n - 1)
      /\ \A i \in 1..(n - 1) : stack'[i] = stack[i] /\ stack[i] \in Frame
  <2>1. \A i \in 1..(n - 1) : stack[i] \in Frame
    BY TopAndCallers
  <2> QED
    BY <2>1, TopAndCallers
<1> HIDE DEF n
<1>2. \A i \in 1..(n - 1) : stack[i].op = "erase" => i = n - 1
  BY <1>1 DEF StackOK, EraseOK
<1>3. FramesOK(stack)'
  <2> SUFFICES ASSUME NEW i \in 1..(n - 1)
               PROVE  FrameOK(stack[i])'
    BY <1>1 DEF FramesOK
  <2>1. PICK f \in Frame : f = stack[i] /\ f = stack'[i]
    BY <1>1
  <2>2. FrameOK(f)'
    BY <2>1, <1>1
  <2> QED
    BY <2>1, <2>2 DEF FrameOK, CarriesBag, Listed
<1>4. \A i \in 1..(n - 1) : stack[i].op \in OnTree => kind'[stack[i].e] = kind[stack[i].e]
  BY <1>1
<1>5. RanksOK(stack)'
  BY <1>1, <1>4 DEF StackOK, RanksOK
<1>6. \A i \in 1..(n - 1) : stack[i].op = "erase" =>
                              children'[stack[i].e] = <<>> /\ parent'[stack[i].e] = NoID
  BY <1>1
<1>7. EraseOK(stack)'
  BY <1>1, <1>2, <1>6 DEF EraseOK
<1>8. CallsOK(stack)'
  BY <1>1 DEF StackOK, CallsOK
<1> QED
  BY <1>3, <1>5, <1>7, <1>8 DEF StackOK

\* While the tree does not change it does not matter when the stack is read.
LEMMA StackRead ==
    ASSUME UNCHANGED treeVars, StackOK(stack')
    PROVE  StackOK(stack)'
<1> USE DEF treeVars
<1>1. FramesOK(stack)'
  BY DEF StackOK, FramesOK, FrameOK, CarriesBag, Listed
<1>2. RanksOK(stack)'
  BY DEF StackOK, RanksOK
<1>3. EraseOK(stack)'
  BY DEF StackOK, EraseOK
<1>4. CallsOK(stack)'
  BY DEF StackOK, CallsOK
<1> QED
  BY <1>1, <1>2, <1>3, <1>4 DEF StackOK

LEMMA TreeRead ==
    ASSUME Tree, UNCHANGED treeVars
    PROVE  Tree'
<1> USE DEF treeVars
<1>1. TreeType'
  BY DEF Tree, TreeType
<1>2. Linked'
  BY DEF Tree, Linked
<1>3. CarriedAllowed'
  BY DEF Tree, CarriedAllowed
<1> QED
  BY <1>1, <1>2, <1>3 DEF Tree

\* No handler runs.
LEMMA IdleOK ==
    /\ StackOK(<<>>)
    /\ stack' = <<>> => StackOK(stack)'
BY DEF StackOK, FramesOK, RanksOK, EraseOK, CallsOK

\* Only the handlers of players run.
LEMMA PlayersOK ==
    ASSUME NEW s \in Seq(Frame), \A i \in DOMAIN s : s[i].op \in {"spectate", "play"}
    PROVE  StackOK(s)
<1>1. FramesOK(s)
  BY DEF FramesOK, FrameOK
<1>2. RanksOK(s) /\ EraseOK(s) /\ CallsOK(s)
  BY DEF RanksOK, EraseOK, CallsOK, OnTree
<1> QED
  BY <1>1, <1>2 DEF StackOK

LEMMA FrameTypes ==
    /\ \A op \in Op, e \in ID : OnEntity(op, e) \in Frame
    /\ \A op \in Op, p, e \in ID : OnPair(op, p, e) \in Frame
    /\ \A op \in Op, c \in Client : OnClient(op, c) \in Frame
    /\ ClearAll \in Frame
BY DEF OnEntity, OnPair, OnClient, ClearAll, Frame, Op

\* A handler starts.
LEMMA StartOK ==
    ASSUME NEW f \in Frame, FrameOK(f), f.op # "erase"
    PROVE  <<f>> \in Seq(Frame) /\ StackOK(<<f>>)
<1>1. <<>> \in Seq(Frame) /\ <<f>> = Append(<<>>, f) /\ <<f>> \in Seq(Frame)
  OBVIOUS
<1> DEFINE s == <<>>
<1>2. s \in Seq(Frame) /\ StackOK(s) /\ DOMAIN s = {}
  BY <1>1, IdleOK
<1> HIDE DEF s
<1>3. StackOK(Append(s, f))
  BY <1>2, PushOK
<1> USE DEF s
<1> QED
  BY <1>1, <1>3

-----------------------------------------------------------------------------
(* Requests keep the invariant.                                            *)

RestType ==
    /\ owner \in [ID -> Client \cup {NoClient}]
    /\ avatar \in [Client -> ID \cup {NoID}]
    /\ gameID \in [Client -> ID \cup {NoID}]
    /\ ready \subseteq Client
    /\ served \in BOOLEAN
    /\ inProgress \in BOOLEAN
    /\ stack \in Seq(Frame)

\* IInv, with the links put together.
Ind == RestType /\ Tree /\ StackOK(stack)

LEMMA InitInd ==
    ASSUME Init
    PROVE  Ind
<1>1. RestType
  <2>1. <<>> \in Seq(Frame)
    OBVIOUS
  <2> QED
    BY <2>1 DEF Init, RestType
<1>2. Tree
  <2>1. TreeType
    <3>1. <<>> \in Seq(ID)
      OBVIOUS
    <3> QED
      BY <3>1 DEF Init, TreeType
  <2>2. Linked /\ CarriedAllowed
    BY DEF Init, Linked, CarriedAllowed
  <2> QED
    BY <2>1, <2>2 DEF Tree
<1>3. StackOK(stack)
  BY IdleOK DEF Init
<1> QED
  BY <1>1, <1>2, <1>3 DEF Ind

LEMMA SpawnLevelInd ==
    ASSUME Ind, NEW id \in ID \ live, NEW k \in Kinds, SpawnLevel(id, k)
    PROVE  Ind'
<1>1. Tree'
  <2>1. k \in Kind /\ Insert(id, k, NoID, NoClient) /\ Tree
    BY KindAssumption DEF SpawnLevel, Ind
  <2> QED
    BY <2>1, InsertTree
<1>2. RestType'
  <2>1. owner' = [owner EXCEPT ![id] = NoClient]
    BY DEF SpawnLevel, Insert
  <2> QED
    BY <2>1 DEF SpawnLevel, Ind, RestType, gameVars
<1>3. StackOK(stack)'
  BY IdleOK DEF SpawnLevel, Idle
<1> QED
  BY <1>1, <1>2, <1>3 DEF Ind

LEMMA ServerConnectInd ==
    ASSUME Ind, ServerConnect
    PROVE  Ind'
<1>1. UNCHANGED treeVars /\ stack' = <<>>
  BY DEF ServerConnect, Idle
<1>2. RestType'
  <2>1. owner' \in [ID -> Client \cup {NoClient}]
    BY ClientAssumption DEF ServerConnect, Ind, RestType
  <2>2. avatar' \in [Client -> ID \cup {NoID}]
    <3>1. \A e \in live : e \in ID
      BY DEF Ind, Tree, TreeType
    <3> QED
      BY <3>1 DEF ServerConnect, Ind, RestType
  <2> QED
    BY <2>1, <2>2 DEF ServerConnect, Ind, RestType
<1> QED
  BY <1>1, <1>2, TreeRead, IdleOK DEF Ind

LEMMA SpawnItemInd ==
    ASSUME Ind, NEW id \in ID \ live, NEW k \in Kinds, NEW p \in live \cup {NoID},
           SpawnItem(id, k, p)
    PROVE  Ind'
<1>1. Tree'
  <2>1. k \in Kind /\ (p # NoID => <<kind[p], k>> \in Holds) /\ Insert(id, k, p, Server) /\ Tree
    BY KindAssumption DEF SpawnItem, Ind
  <2> QED
    BY <2>1, InsertTree
<1>2. RestType'
  <2>1. owner' = [owner EXCEPT ![id] = Server]
    BY DEF SpawnItem, Insert
  <2> QED
    BY <2>1, ClientAssumption DEF SpawnItem, Ind, RestType, gameVars
<1>3. StackOK(stack)'
  BY IdleOK DEF SpawnItem, Idle
<1> QED
  BY <1>1, <1>2, <1>3 DEF Ind

LEMMA PlayerReadyInd ==
    ASSUME Ind, NEW c \in Client, PlayerReady(c)
    PROVE  Ind'
<1>1. UNCHANGED treeVars /\ stack' = <<OnClient("spectate", c)>>
  BY DEF PlayerReady
<1>2. OnClient("spectate", c) \in Frame /\ OnClient("spectate", c).op = "spectate"
  BY FrameTypes DEF Op, OnClient
<1>3. stack' \in Seq(Frame) /\ StackOK(stack')
  BY <1>1, <1>2, StartOK DEF FrameOK
<1>4. RestType'
  BY <1>3 DEF PlayerReady, Ind, RestType, gameVars
<1> QED
  BY <1>1, <1>3, <1>4, TreeRead, StackRead DEF Ind

LEMMA RespawnPlayerInd ==
    ASSUME Ind, NEW c \in Client, NEW NoSpectator \in BOOLEAN, RespawnPlayer(c, NoSpectator)
    PROVE  Ind'
<1> DEFINE e == avatar[c]
           d == OnEntity("destroy", e)
<1>1. UNCHANGED treeVars
  BY DEF RespawnPlayer
<1>2. e \in ID
  BY DEF RespawnPlayer, Ind, RestType
<1>3. PICK f \in {OnClient("spectate", c), OnClient("play", c)} :
        stack' = IF kind[e] = "spectator" THEN Append(<<f>>, d) ELSE <<f>>
  BY DEF RespawnPlayer
<1>4. f \in Frame /\ f.op \in {"spectate", "play"}
  BY <1>3, FrameTypes DEF Op, OnClient
<1>5. <<f>> \in Seq(Frame) /\ StackOK(<<f>>)
  BY <1>4, StartOK DEF FrameOK
<1>6. d \in Frame /\ d.op = "destroy" /\ d.e = e
  BY <1>2, FrameTypes DEF Op, OnEntity
<1>7. kind[e] = "spectator" => StackOK(Append(<<f>>, d)) /\ Append(<<f>>, d) \in Seq(Frame)
  <2> SUFFICES ASSUME kind[e] = "spectator"
               PROVE  StackOK(Append(<<f>>, d)) /\ Append(<<f>>, d) \in Seq(Frame)
    OBVIOUS
  <2>1. e \in live
    BY <1>2 DEF Ind, Tree, CarriedAllowed, NoKind
  <2>2. ~CarriesBag(e)
    <3> SUFFICES ASSUME NEW t \in Listed(e)
                 PROVE  FALSE
      BY DEF CarriesBag
    <3>1. t \in ID /\ t \in Elems(children[e])
      BY <1>2, EndsOfList DEF Listed, Elems, Ind, Tree, TreeType
    <3>2. t \in live /\ parent[t] = e
      BY <2>1, <3>1 DEF Ind, Tree, Linked
    <3> QED
      BY <2>1, <3>2, HoldsFacts DEF Ind, Tree, CarriedAllowed
  <2>3. FrameOK(d)
    BY <1>6, <2>1, <2>2 DEF FrameOK
  <2> DEFINE s == <<f>>
  <2>4. s \in Seq(Frame) /\ StackOK(s) /\ \A i \in DOMAIN s : s[i].op \in {"spectate", "play"}
    BY <1>4, <1>5
  <2> HIDE DEF s
  <2>5. StackOK(Append(s, d))
    BY <1>6, <2>3, <2>4, PushOK DEF OnTree
  <2> QED
    BY <1>6, <2>4, <2>5, Pushed DEF s
<1>8. stack' \in Seq(Frame) /\ StackOK(stack')
  BY <1>3, <1>5, <1>7
<1>9. RestType'
  <2>1. owner' \in [ID -> Client \cup {NoClient}]
    BY ClientAssumption DEF RespawnPlayer, Ind, RestType
  <2>2. UNCHANGED <<avatar, gameID, ready, served, inProgress>>
    BY DEF RespawnPlayer, gameVars
  <2> QED
    BY <1>8, <2>1, <2>2 DEF Ind, RestType
<1> QED
  BY <1>1, <1>8, <1>9, TreeRead, StackRead DEF Ind

LEMMA TakeInd ==
    ASSUME Ind, NEW p \in live, NEW e \in live, NEW c \in Client, Take(p, e, c)
    PROVE  Ind'
<1>1. Tree'
  BY AttachTree DEF Take, MayTake, Ind
<1>2. RestType' /\ stack' = <<>>
  BY DEF Take, MayTake, Ind, RestType, gameVars, Idle
<1> QED
  BY <1>1, <1>2, IdleOK DEF Ind

LEMMA TakeForcedInd ==
    ASSUME Ind, NEW p \in live, NEW e \in live, NEW c \in Client, TakeForced(p, e, c)
    PROVE  Ind'
<1> DEFINE t == FirstOf(p, SameSlot(p, e))
           left == RemoveFirst(children[p], t)
           free == SameSlot(p, e) = {t}
<1>1. /\ parent[e] = NoID /\ <<kind[p], kind[e]>> \in Holds
      /\ SameSlot(p, e) # {} /\ stack' = <<>>
      /\ children' = [children EXCEPT ![p] = IF free THEN Append(left, e) ELSE left]
      /\ parent' = [parent EXCEPT ![t] = NoID, ![e] = IF free THEN p ELSE NoID]
      /\ UNCHANGED <<live, kind, owner, avatar, gameID, ready, served, inProgress>>
  BY DEF TakeForced, MayTake, Idle, gameVars
<1> HIDE DEF free
<1>2. /\ Tree /\ p \in ID /\ e \in ID /\ NoID \notin live /\ children[p] \in Seq(ID)
      /\ live \subseteq ID /\ parent \in [ID -> ID \cup {NoID}]
  BY IDAssumption DEF Ind, Tree, TreeType
<1>3. t \in SameSlot(p, e)
  BY <1>1, <1>2, FirstFound DEF SameSlot
<1>4. t \in Elems(children[p]) /\ t \in live /\ parent[t] = p /\ t # e
  <2>1. t \in Elems(children[p]) /\ t \in ID
    BY <1>2, <1>3 DEF SameSlot, Listed, Elems
  <2> QED
    BY <1>1, <1>2, <2>1 DEF Tree, Linked
<1> HIDE DEF t
<1>5. /\ Distinct(children[p]) /\ e \notin Elems(children[p])
      /\ left \in Seq(ID) /\ Distinct(left) /\ Elems(left) = Elems(children[p]) \ {t}
  BY <1>1, <1>2, <1>4, EraseOne DEF Tree, Linked
<1> HIDE DEF left
<1>6. /\ children'[p] \in Seq(ID) /\ Distinct(children'[p])
      /\ Elems(children'[p]) = (Elems(children[p]) \ {t}) \cup (IF free THEN {e} ELSE {})
  <2>1. children'[p] = IF free THEN Append(left, e) ELSE left
    BY <1>1, <1>2 DEF Tree, TreeType
  <2> QED
    BY <1>2, <1>5, <2>1, AddOne
<1>7. \A x \in ID \ {p} : children'[x] = children[x]
  BY <1>1 DEF Ind, Tree, TreeType
<1>8. \A x \in ID : parent'[x] = IF x = e THEN (IF free THEN p ELSE NoID)
                                 ELSE IF x = t THEN NoID ELSE parent[x]
  BY <1>1, <1>2, <1>4
<1>9. TreeType'
  <2>1. children' \in [ID -> Seq(ID)]
    BY <1>1, <1>2, <1>5, AddOne DEF Tree, TreeType
  <2>2. parent' \in [ID -> ID \cup {NoID}]
    BY <1>1, <1>2
  <2> QED
    BY <1>1, <2>1, <2>2 DEF Ind, Tree, TreeType
<1>10. Linked'
  <2>1. ASSUME NEW x \in live, NEW y \in ID
        PROVE  y \in Elems(children'[x]) <=> y \in live /\ parent'[y] = x
    <3>1. (y \in Elems(children[x]) <=> y \in live /\ parent[y] = x) /\ x \in ID /\ x # NoID
      BY <1>2 DEF Tree, Linked
    <3>2. CASE x = p
      BY <3>1, <3>2, <1>1, <1>2, <1>4, <1>6, <1>8
    <3>3. CASE x # p
      BY <3>1, <3>3, <1>1, <1>2, <1>4, <1>7, <1>8
    <3> QED
      BY <3>2, <3>3
  <2>2. \A x \in live : parent'[x] \in live \cup {NoID}
    BY <1>2, <1>8 DEF Tree, Linked
  <2>3. \A x \in live : Distinct(children'[x])
    BY <1>2, <1>6, <1>7 DEF Tree, Linked
  <2> QED
    BY <2>1, <2>2, <2>3, <1>1 DEF Linked
<1>11. CarriedAllowed'
  BY <1>1, <1>2, <1>8 DEF Tree, CarriedAllowed
<1>12. RestType'
  BY <1>1 DEF Ind, RestType
<1> QED
  BY <1>1, <1>9, <1>10, <1>11, <1>12, IdleOK DEF Ind, Tree

\* A request that starts one handler and changes nothing else.
LEMMA StartInd ==
    ASSUME Ind, NEW f \in Frame, FrameOK(f), f.op # "erase", stack' = <<f>>,
           UNCHANGED <<treeVars, owner, avatar, gameID, gameVars>>
    PROVE  Ind'
<1>1. stack' \in Seq(Frame) /\ StackOK(stack')
  BY StartOK
<1>2. RestType'
  BY <1>1 DEF Ind, RestType, gameVars
<1> QED
  BY <1>1, <1>2, TreeRead, StackRead DEF Ind

LEMMA TakeBagInd ==
    ASSUME Ind, NEW p \in live, NEW e \in live, NEW c \in Client, TakeBag(p, e, c)
    PROVE  Ind'
<1> DEFINE f == OnPair("unpack", p, e)
<1>1. p \in ID /\ e \in ID
  BY DEF Ind, Tree, TreeType
<1>2. f \in Frame /\ f.op = "unpack" /\ f.p = p /\ f.e = e
  BY <1>1, FrameTypes DEF Op, OnPair
<1>3. FrameOK(f)
  BY <1>2 DEF FrameOK, TakeBag, MayTake
<1> QED
  BY <1>2, <1>3, StartInd DEF TakeBag

\* Whatever a client asks to be rejected, the handler that does it runs alone.
LEMMA RejectInd ==
    ASSUME Ind, NEW p \in ID, NEW e \in ID, Reject(p, e)
    PROVE  Ind'
<1> DEFINE f == OnPair("reject", p, e)
<1>1. f \in Frame /\ f.op = "reject" /\ f.p = p /\ f.e = e
  BY FrameTypes DEF Op, OnPair
<1>2. stack' = <<f>> /\ UNCHANGED <<treeVars, owner, avatar, gameID, gameVars>>
  BY DEF Reject
<1> HIDE DEF f
<1>3. stack' \in Seq(Frame) /\ DOMAIN stack' = {1} /\ stack'[1] = f /\ Asked(f)
  BY <1>1, <1>2 DEF Asked
<1>4. StackOK(stack')
  <2>1. FramesOK(stack') /\ EraseOK(stack')
    BY <1>1, <1>3 DEF FramesOK, EraseOK
  <2>2. RanksOK(stack') /\ CallsOK(stack')
    BY <1>1, <1>3 DEF RanksOK, CallsOK
  <2> QED
    BY <2>1, <2>2 DEF StackOK
<1>5. RestType'
  BY <1>2, <1>3 DEF Ind, RestType, gameVars
<1> QED
  BY <1>2, <1>4, <1>5, TreeRead, StackRead DEF Ind

LEMMA DestroyInd ==
    ASSUME Ind, BodiesWait, NEW e \in live, Destroy(e)
    PROVE  Ind'
<1> DEFINE f == OnEntity("destroy", e)
<1>1. e \in ID
  BY DEF Ind, Tree, TreeType
<1>2. f \in Frame /\ f.op = "destroy" /\ f.e = e
  BY <1>1, FrameTypes DEF Op, OnEntity
<1>3. FrameOK(f)
  <2>1. ~CarriesBag(e)
    BY DEF BodiesWait, Destroy
  <2> QED
    BY <1>2, <2>1 DEF FrameOK, Destroy
<1> QED
  BY <1>2, <1>3, StartInd DEF Destroy

LEMMA TransferAmmoInd ==
    ASSUME Ind, NEW p \in live, NEW e \in live, TransferAmmo(p, e)
    PROVE  Ind'
<1>1. e \in ID /\ kind[e] = "ammo" /\ parent[e] = NoID /\ entity_Destroy(e) /\ stack' = <<>>
  BY DEF TransferAmmo, Idle, Ind, Tree, TreeType
<1>2. children[e] = <<>>
  <2>1. children[e] \in Seq(ID) /\ Elems(children[e]) \subseteq ID
    BY <1>1 DEF Ind, Tree, TreeType, Elems
  <2>2. ASSUME NEW t \in Elems(children[e])
        PROVE  FALSE
    <3>1. t \in live /\ parent[t] = e
      BY <2>1, <2>2 DEF Ind, Tree, Linked
    <3> QED
      BY <1>1, <3>1, HoldsFacts DEF Ind, Tree, CarriedAllowed
  <2> QED
    BY <2>1, <2>2, NoElems
<1>3. Tree'
  BY <1>1, <1>2, DestroyTree DEF Ind
<1>4. RestType'
  BY <1>1 DEF TransferAmmo, entity_Destroy, Ind, RestType, gameVars
<1> QED
  BY <1>1, <1>3, <1>4, IdleOK DEF Ind

LEMMA SwitchOfflineInd ==
    ASSUME Ind, NEW e \in live, SwitchOffline(e)
    PROVE  Ind'
<1> DEFINE f == OnEntity("perform", e)
<1>1. e \in ID
  BY DEF Ind, Tree, TreeType
<1>2. f \in Frame /\ f.op = "perform" /\ f.e = e
  BY <1>1, FrameTypes DEF Op, OnEntity
<1>3. FrameOK(f)
  BY <1>2 DEF FrameOK
<1> QED
  BY <1>2, <1>3, StartInd DEF SwitchOffline

\* A frame for every player who becomes a spectator.
LEMMA SpectatorsOK ==
    ASSUME NEW S \in SUBSET Client
    PROVE  Spectators(S) \in Seq(Frame) /\ \A i \in DOMAIN Spectators(S) : Spectators(S)[i].op = "spectate"
<1> DEFINE cs == SetToSeq(S)
           n == Cardinality(S)
<1>1. IsFiniteSet(S)
  BY ClientAssumption, FS_Subset
<1>2. n \in Nat /\ ExistsBijection(1..n, S)
  BY <1>1, FS_CardinalityType
<1>3. \E f \in [1..n -> S] : IsInjective(f)
  BY <1>2 DEF ExistsBijection, Bijection, Injection, IsInjective
<1>4. cs \in [1..n -> S]
  BY <1>3 DEF SetToSeq
<1> HIDE DEF n, cs
<1>5. Spectators(S) = [i \in 1..n |-> OnClient("spectate", cs[i])]
  BY <1>4 DEF Spectators, cs
<1>6. \A i \in 1..n : OnClient("spectate", cs[i]) \in Frame
  BY <1>4, FrameTypes DEF Op
<1>7. Spectators(S) \in [1..n -> Frame]
  BY <1>5, <1>6
<1>8. Spectators(S) \in Seq(Frame)
  BY <1>2, <1>7, SeqDef DEF n
<1>9. \A i \in DOMAIN Spectators(S) : Spectators(S)[i].op = "spectate"
  BY <1>5 DEF OnClient
<1> QED
  BY <1>8, <1>9

LEMMA SLS_ClearInd ==
    ASSUME Ind, SLS_Clear
    PROVE  Ind'
<1> DEFINE s == Spectators(ready)
<1>1. s \in Seq(Frame) /\ \A i \in DOMAIN s : s[i].op = "spectate"
  BY SpectatorsOK DEF Ind, RestType
<1> HIDE DEF s
<1>2. ClearAll \in Frame /\ ClearAll.op = "clear"
  BY FrameTypes DEF ClearAll
<1>3. StackOK(s)
  BY <1>1, PlayersOK
<1>4. FrameOK(ClearAll)
  BY <1>2 DEF FrameOK
<1>5. StackOK(Append(s, ClearAll)) /\ Append(s, ClearAll) \in Seq(Frame)
  BY <1>1, <1>2, <1>3, <1>4, PushOK, Pushed DEF OnTree
<1>6. stack' = Append(s, ClearAll)
  BY DEF SLS_Clear, s
<1>7. RestType'
  BY <1>5, <1>6 DEF SLS_Clear, Ind, RestType
<1>8. UNCHANGED treeVars
  BY DEF SLS_Clear
<1> QED
  BY <1>5, <1>6, <1>7, <1>8, TreeRead, StackRead DEF Ind

LEMMA OnRoundEndInd ==
    ASSUME Ind, NEW cs \in SUBSET Client, OnRoundEnd(cs)
    PROVE  Ind'
<1>1. stack' \in Seq(Frame) /\ StackOK(stack')
  BY SpectatorsOK, PlayersOK DEF OnRoundEnd
<1>2. RestType'
  BY <1>1 DEF OnRoundEnd, Ind, RestType
<1>3. UNCHANGED treeVars
  BY DEF OnRoundEnd
<1> QED
  BY <1>1, <1>2, <1>3, TreeRead, StackRead DEF Ind

-----------------------------------------------------------------------------
(* Steps keep the invariant.                                               *)

\* What is known of the frame on top, when it is no client's reject.
LEMMA TopOK ==
    ASSUME Ind, stack # <<>>
    PROVE  /\ Top \in Frame
           /\ Top.op # "reject" \/ Len(stack) > 1 => FrameOK(Top)
           /\ Top.op \in OnTree \cup {"unpack"} => Top.e \in live
           /\ Top.op = "reject" => Top.e \in ID /\ Top.p \in ID
           /\ Top.op = "reject" /\ Len(stack) > 1 => Top.e \in live /\ Top.p \in live
           /\ live \subseteq ID /\ NoID \notin live
<1>1. Top \in Frame /\ Len(stack) \in DOMAIN stack
  BY TopAndCallers DEF Ind, RestType
<1>2. Top.op # "reject" \/ Len(stack) > 1 => FrameOK(Top)
  BY <1>1 DEF Ind, StackOK, FramesOK, Top, Asked
<1>3. live \subseteq ID /\ NoID \notin live
  BY IDAssumption DEF Ind, Tree, TreeType
<1>4. Top.op = "reject" => Top.e \in ID /\ Top.p \in ID
  <2>1. FrameOK(Top) \/ Asked(Top)
    BY <1>1 DEF Ind, StackOK, FramesOK, Top
  <2> QED
    BY <1>3, <2>1 DEF FrameOK, Asked
<1> QED
  BY <1>1, <1>2, <1>3, <1>4 DEF FrameOK, OnTree

\* An entity lists only what is live, names it, and may be carried by it.
LEMMA ChildOK ==
    ASSUME Tree, NEW p \in live, NEW t \in Elems(children[p])
    PROVE  /\ t \in live /\ t \in ID /\ parent[t] = p
           /\ <<kind[p], kind[t]>> \in Holds
           /\ ~CarriesBag(t)
<1>1. t \in ID /\ live \subseteq ID
  BY EndsOfList DEF Elems, Tree, TreeType
<1>2. t \in live /\ parent[t] = p /\ <<kind[p], kind[t]>> \in Holds
  BY <1>1 DEF Tree, Linked, CarriedAllowed
<1>3. ASSUME CarriesBag(t)
      PROVE  FALSE
  <2>1. PICK u \in Elems(children[t]) : kind[u] = "bag"
    BY <1>3 DEF CarriesBag, Listed, Elems
  <2>2. u \in ID
    BY <1>1 DEF Elems, Tree, TreeType
  <2>3. <<kind[t], kind[u]>> \in Holds
    BY <1>2, <2>2 DEF Tree, Linked, CarriedAllowed
  <2> QED
    BY <1>2, <2>1, <2>3, HoldsFacts
<1> QED
  BY <1>1, <1>2, <1>3

LEMMA RankIsNat == \A k : Rank(k) \in Nat
BY DEF Rank

\* The handler on top calls another.
LEMMA CallOK ==
    ASSUME Ind, stack # <<>>, Top.op \in {"destroy", "perform", "clear", "unpack"},
           NEW f \in Frame, FrameOK(f), f.op \in {"destroy", "perform", "reject"},
           Top.op = "unpack" => f.op = "reject",
           Top.op \in OnTree /\ f.op \in OnTree => Rank(kind[Top.e]) < Rank(kind[f.e])
    PROVE  /\ Append(stack, f) \in Seq(Frame) /\ StackOK(Append(stack, f))
           /\ f.op # "reject" =>
                \A i \in DOMAIN Append(stack, f) :
                    Append(stack, f)[i].op \notin {"reject", "erase", "unpack"}
<1> DEFINE n == Len(stack)
<1>1. /\ n \in Nat \ {0} /\ DOMAIN stack = 1..n /\ n \in DOMAIN stack /\ Top = stack[n]
      /\ stack \in Seq(Frame) /\ StackOK(stack)
      /\ DOMAIN Callers = 1..(n - 1)
      /\ \A i \in 1..(n - 1) : Callers[i] = stack[i] /\ stack[i] \in Frame
  BY TopAndCallers DEF Ind, RestType, Top
<1>2. \A i \in 1..(n - 1) : stack[i].op \notin {"reject", "erase", "unpack"}
  BY <1>1, PopOK
<1> HIDE DEF n
<1>3. \A i \in 1..n : i = n \/ i \in 1..(n - 1)
  BY <1>1
<1>4. \A i \in 1..(n - 1) : stack[i].op \in OnTree /\ Top.op \in OnTree =>
                               Rank(kind[stack[i].e]) < Rank(kind[Top.e])
  <2>1. \A i \in 1..(n - 1) : i \in DOMAIN stack /\ i < n
    BY <1>1
  <2> QED
    BY <1>1, <2>1 DEF StackOK, RanksOK
<1>5. \A i \in 1..(n - 1) : Top.op \in {"clear", "unpack"} => stack[i].op \notin OnTree
  <2>1. \A i \in 1..(n - 1) : i \in DOMAIN stack /\ i < n
    BY <1>1
  <2> QED
    BY <1>1, <2>1 DEF StackOK, CallsOK
<1>6. \A i \in DOMAIN stack :
        /\ stack[i].op \notin {"reject", "erase"}
        /\ stack[i].op = "unpack" => f.op = "reject"
        /\ f.op \in OnTree /\ stack[i].op \in OnTree => Rank(kind[stack[i].e]) < Rank(kind[f.e])
  <2> SUFFICES ASSUME NEW i \in 1..n
               PROVE  /\ stack[i].op \notin {"reject", "erase"}
                      /\ stack[i].op = "unpack" => f.op = "reject"
                      /\ f.op \in OnTree /\ stack[i].op \in OnTree =>
                           Rank(kind[stack[i].e]) < Rank(kind[f.e])
    BY <1>1
  <2>1. CASE i = n
    BY <2>1, <1>1
  <2>2. CASE i \in 1..(n - 1)
    <3>1. f.op \in OnTree /\ stack[i].op \in OnTree => Rank(kind[stack[i].e]) < Rank(kind[f.e])
      BY <2>2, <1>4, <1>5, RankIsNat DEF OnTree
    <3> QED
      BY <2>2, <3>1, <1>2
  <2> QED
    BY <2>1, <2>2, <1>3
<1>7. StackOK(Append(stack, f))
  BY <1>1, <1>6, PushOK
<1>8. /\ Append(stack, f) \in Seq(Frame)
      /\ \A i \in DOMAIN Append(stack, f) : Append(stack, f)[i] = f \/
            (i \in DOMAIN stack /\ Append(stack, f)[i] = stack[i])
  BY <1>1, Pushed
<1> QED
  BY <1>6, <1>7, <1>8

LEMMA DestroyChildInd ==
    ASSUME Ind, DestroyChild
    PROVE  Ind'
<1> DEFINE x == Top.e
           child == Head(children[x])
           f == OnEntity("destroy", child)
<1>1. /\ stack # <<>> /\ Top.op = "destroy" /\ children[x] # <<>>
      /\ stack' = Append(stack, f)
      /\ UNCHANGED <<treeVars, owner, avatar, gameID, gameVars>>
  BY DEF DestroyChild, Running
<1>2. x \in live /\ x \in ID /\ ~CarriesBag(x)
  BY <1>1, TopOK DEF OnTree, FrameOK
<1>3. child \in Elems(children[x])
  BY <1>1, <1>2, EndsOfList DEF Ind, Tree, TreeType
<1>4. /\ child \in live /\ child \in ID /\ <<kind[x], kind[child]>> \in Holds
      /\ ~CarriesBag(child)
  BY <1>2, <1>3, ChildOK DEF Ind
<1>5. kind[child] # "bag"
  BY <1>2, <1>3 DEF CarriesBag, Listed, Elems
<1>6. f \in Frame /\ f.op = "destroy" /\ f.e = child
  BY <1>4, FrameTypes DEF Op, OnEntity
<1> HIDE DEF f, child
<1>7. FrameOK(f)
  BY <1>4, <1>5, <1>6 DEF FrameOK
<1>8. stack' \in Seq(Frame) /\ StackOK(stack')
  <2>1. Rank(kind[Top.e]) < Rank(kind[f.e])
    BY <1>4, <1>6, HoldsFacts
  <2> QED
    BY <1>1, <1>6, <1>7, <2>1, CallOK
<1>9. RestType'
  BY <1>1, <1>8 DEF Ind, RestType, gameVars
<1> QED
  BY <1>1, <1>8, <1>9, TreeRead, StackRead DEF Ind

\* A step that only changes the stack.
LEMMA StackStep ==
    ASSUME Ind, stack' \in Seq(Frame), StackOK(stack'),
           UNCHANGED <<treeVars, owner, avatar, gameID, gameVars>>
    PROVE  Ind'
<1>1. RestType'
  BY DEF Ind, RestType, gameVars
<1> QED
  BY <1>1, TreeRead, StackRead DEF Ind

LEMMA DestroySelfInd ==
    ASSUME Ind, DestroySelf
    PROVE  Ind'
<1> DEFINE e == Top.e
           n == Len(stack)
           f == OnEntity("erase", e)
           g == OnPair("reject", parent[e], e)
           t == Append(Callers, f)
           u == Append(t, g)
<1>1. /\ stack # <<>> /\ Top.op = "destroy" /\ children[e] = <<>>
      /\ stack' = IF parent[e] = NoID THEN t ELSE u
      /\ UNCHANGED <<treeVars, owner, avatar, gameID, gameVars>>
  BY DEF DestroySelf, Running
<1>2. e \in live /\ e \in ID /\ (kind[e] = "bag" => parent[e] = NoID)
  BY <1>1, TopOK DEF OnTree, FrameOK
<1>3. parent[e] # NoID => /\ parent[e] \in live /\ parent[e] \in ID
                          /\ <<kind[parent[e]], kind[e]>> \in Holds
  BY <1>2 DEF Ind, Tree, TreeType, Linked, CarriedAllowed
<1>4. /\ n \in Nat \ {0} /\ n = Len(stack) /\ DOMAIN stack = 1..n /\ n \in DOMAIN stack /\ Top = stack[n]
      /\ stack \in Seq(Frame) /\ StackOK(stack)
      /\ Callers \in Seq(Frame) /\ Len(Callers) = n - 1 /\ DOMAIN Callers = 1..(n - 1)
      /\ \A i \in 1..(n - 1) : Callers[i] = stack[i]
  BY <1>1, TopAndCallers DEF Ind, RestType, Top
<1>5. StackOK(Callers) /\ \A i \in 1..(n - 1) : stack[i].op \notin {"reject", "erase", "unpack"}
  BY <1>1, <1>4, PopOK
<1> HIDE DEF n
<1>6. \A i \in 1..(n - 1) : stack[i].op \in OnTree => Rank(kind[stack[i].e]) < Rank(kind[e])
  <2>1. \A i \in 1..(n - 1) : i \in DOMAIN stack /\ i < n
    BY <1>4
  <2> QED
    BY <1>1, <1>4, <2>1 DEF StackOK, RanksOK, OnTree
<1>7. f \in Frame /\ f.op = "erase" /\ f.e = e
  BY <1>2, FrameTypes DEF Op, OnEntity
<1>8. parent[e] # NoID => g \in Frame /\ g.op = "reject" /\ g.p = parent[e] /\ g.e = e
  BY <1>2, <1>3, FrameTypes DEF Op, OnPair
<1>9. FrameOK(f)
  BY <1>2, <1>7 DEF FrameOK
<1>10. parent[e] # NoID => FrameOK(g)
  BY <1>2, <1>3, <1>8 DEF FrameOK
<1>11. /\ t \in Seq(Frame) /\ Len(t) = n /\ DOMAIN t = 1..n
       /\ \A i \in 1..(n - 1) : t[i] = stack[i]
       /\ t[n] = f
  <2>1. /\ t \in Seq(Frame) /\ Len(t) = Len(Callers) + 1 /\ DOMAIN t = 1..(Len(Callers) + 1)
        /\ \A i \in 1..Len(Callers) : t[i] = Callers[i]
        /\ t[Len(Callers) + 1] = f
    BY <1>4, <1>7, Pushed
  <2> QED
    BY <1>4, <2>1
<1>12. parent[e] # NoID =>
         /\ u \in Seq(Frame) /\ Len(u) = n + 1 /\ DOMAIN u = 1..(n + 1)
         /\ \A i \in 1..n : u[i] = t[i]
         /\ u[n + 1] = g
  <2> HIDE DEF t, g
  <2>1. parent[e] # NoID =>
          /\ u \in Seq(Frame) /\ Len(u) = Len(t) + 1 /\ DOMAIN u = 1..(Len(t) + 1)
          /\ \A i \in 1..Len(t) : u[i] = t[i]
          /\ u[Len(t) + 1] = g
    BY <1>8, <1>11, Pushed
  <2> QED
    BY <1>11, <2>1
<1>13. \A i \in 1..n : i = n \/ i \in 1..(n - 1)
  BY <1>4
<1>14. g = OnPair("reject", parent[e], e)
  OBVIOUS
<1> HIDE DEF e, f, g, t, u
<1>15. FramesOK(t) /\ RanksOK(t) /\ CallsOK(t)
  <2>1. FramesOK(t)
    BY <1>4, <1>5, <1>9, <1>11, <1>13 DEF StackOK, FramesOK
  <2>2. RanksOK(t)
    BY <1>4, <1>5, <1>6, <1>7, <1>11, <1>13 DEF StackOK, RanksOK
  <2>3. CallsOK(t)
    BY <1>4, <1>5, <1>7, <1>11, <1>13 DEF StackOK, CallsOK
  <2> QED
    BY <2>1, <2>2, <2>3
<1>16. CASE parent[e] = NoID
  <2>1. EraseOK(t)
    BY <1>1, <1>5, <1>7, <1>11, <1>13, <1>16 DEF EraseOK
  <2> QED
    BY <1>1, <1>11, <1>15, <1>16, <2>1, StackStep DEF StackOK
<1>17. CASE parent[e] # NoID
  <2>1. \A i \in 1..(n + 1) : i = n + 1 \/ i \in 1..n
    BY <1>4
  <2>2. FramesOK(u)
    BY <1>10, <1>11, <1>12, <1>15, <1>17, <2>1 DEF FramesOK
  <2>3. RanksOK(u)
    BY <1>4, <1>8, <1>11, <1>12, <1>15, <1>17, <2>1 DEF RanksOK, OnTree
  <2>4. CallsOK(u)
    <3> SUFFICES ASSUME NEW i \in 1..(n + 1), NEW j \in 1..(n + 1), i < j
                 PROVE  /\ u[i].op # "reject"
                        /\ u[i].op = "unpack" => u[j].op = "reject"
                        /\ u[j].op \in {"clear", "unpack"} => u[i].op \notin OnTree
      BY <1>12, <1>17 DEF CallsOK
    <3>1. i \in 1..n /\ u[i] = t[i]
      BY <1>4, <1>12, <1>17
    <3>2. t[i].op # "reject"
      BY <3>1, <1>5, <1>7, <1>11, <1>13
    <3>3. CASE j = n + 1
      BY <3>1, <3>2, <3>3, <1>8, <1>12, <1>17
    <3>4. CASE j \in 1..n
      BY <3>1, <3>4, <1>11, <1>12, <1>15, <1>17 DEF CallsOK
    <3> QED
      BY <3>3, <3>4, <2>1
  <2>5. EraseOK(u)
    <3> SUFFICES ASSUME NEW i \in 1..(n + 1), u[i].op = "erase"
                 PROVE  /\ children[u[i].e] = <<>>
                        /\ i + 1 = n + 1 /\ i # n + 1
                        /\ kind[u[i].e] # "bag"
                        /\ u[i + 1] = OnPair("reject", parent[u[i].e], u[i].e)
      BY <1>12, <1>17 DEF EraseOK
    <3>1. i = n
      BY <1>5, <1>8, <1>11, <1>12, <1>13, <1>17, <2>1
    <3>2. u[i] = f /\ u[i + 1] = g
      BY <3>1, <1>4, <1>11, <1>12, <1>17
    <3> QED
      BY <3>1, <3>2, <1>1, <1>2, <1>4, <1>7, <1>14, <1>17
  <2> QED
    BY <1>1, <1>12, <1>17, <2>2, <2>3, <2>4, <2>5, StackStep DEF StackOK
<1> QED
  BY <1>16, <1>17

LEMMA PerformChildInd ==
    ASSUME Ind, PerformChild
    PROVE  Ind'
<1> DEFINE x == Top.e
           child == Last(children[x])
           f == OnEntity("perform", child)
           g == OnPair("reject", x, child)
           t == Append(stack, f)
<1>1. /\ stack # <<>> /\ Top.op = "perform" /\ children[x] # <<>>
      /\ stack' = Append(t, g)
      /\ UNCHANGED <<treeVars, owner, avatar, gameID, gameVars>>
  BY DEF PerformChild, Running
<1>2. x \in live /\ x \in ID
  BY <1>1, TopOK DEF OnTree
<1>3. child \in Elems(children[x])
  BY <1>1, <1>2, EndsOfList DEF Ind, Tree, TreeType
<1>4. child \in live /\ child \in ID /\ parent[child] = x /\ <<kind[x], kind[child]>> \in Holds
  BY <1>2, <1>3, ChildOK DEF Ind
<1>5. f \in Frame /\ f.op = "perform" /\ f.e = child
  BY <1>4, FrameTypes DEF Op, OnEntity
<1>6. g \in Frame /\ g.op = "reject" /\ g.p = x /\ g.e = child
  BY <1>2, <1>4, FrameTypes DEF Op, OnPair
<1> HIDE DEF f, g, child
<1>7. FrameOK(f) /\ FrameOK(g)
  BY <1>2, <1>4, <1>5, <1>6 DEF FrameOK
<1>8. /\ t \in Seq(Frame) /\ StackOK(t)
      /\ \A i \in DOMAIN t : t[i].op \notin {"reject", "erase", "unpack"}
  <2>1. Rank(kind[Top.e]) < Rank(kind[f.e])
    BY <1>4, <1>5, HoldsFacts
  <2> QED
    BY <1>1, <1>5, <1>7, <2>1, CallOK
<1> HIDE DEF t
<1>9. Append(t, g) \in Seq(Frame) /\ StackOK(Append(t, g))
  BY <1>6, <1>7, <1>8, PushOK, Pushed DEF OnTree
<1> QED
  BY <1>1, <1>9, StackStep

LEMMA ClearNextInd ==
    ASSUME Ind, ClearNext
    PROVE  Ind'
<1>1. PICK e \in live : stack' = Append(stack, OnEntity("perform", e))
  BY DEF ClearNext
<1> DEFINE f == OnEntity("perform", e)
<1>2. /\ stack # <<>> /\ Top.op = "clear"
      /\ UNCHANGED <<treeVars, owner, avatar, gameID, gameVars>>
  BY DEF ClearNext, Running
<1>3. f \in Frame /\ f.op = "perform" /\ f.e = e /\ Top.op \notin OnTree
  BY <1>2, FrameTypes DEF Op, OnEntity, OnTree, Ind, Tree, TreeType
<1>4. FrameOK(f)
  BY <1>3 DEF FrameOK
<1>5. Append(stack, f) \in Seq(Frame) /\ StackOK(Append(stack, f))
  BY <1>2, <1>3, <1>4, CallOK
<1> QED
  BY <1>1, <1>2, <1>5, StackStep

LEMMA ClearDoneInd ==
    ASSUME Ind, ClearDone
    PROVE  Ind'
<1>1. stack # <<>> /\ Top.op = "clear" /\ stack \in Seq(Frame) /\ StackOK(stack)
  BY DEF ClearDone, Running, Ind, RestType
<1>2. Callers \in Seq(Frame) /\ StackOK(Callers)
  BY <1>1, PopOK, TopAndCallers
<1> QED
  BY <1>2, StackStep DEF ClearDone

LEMMA UnpackDoneInd ==
    ASSUME Ind, UnpackDone
    PROVE  Ind'
<1> DEFINE e == Top.e
           n == Len(stack)
           f == OnEntity("destroy", e)
<1>1. /\ stack # <<>> /\ Top.op = "unpack" /\ children[e] = <<>>
      /\ stack' = Append(Callers, f)
      /\ UNCHANGED <<treeVars, owner, avatar, gameID, gameVars>>
      /\ stack \in Seq(Frame) /\ StackOK(stack)
  BY DEF UnpackDone, Running, Ind, RestType
<1>2. e \in live /\ e \in ID /\ parent[e] = NoID
  BY <1>1, TopOK DEF FrameOK
<1>3. f \in Frame /\ f.op = "destroy" /\ f.e = e
  BY <1>2, FrameTypes DEF Op, OnEntity
<1>4. FrameOK(f)
  BY <1>1, <1>2, <1>3 DEF FrameOK, CarriesBag, Listed
<1>5. /\ n \in Nat \ {0} /\ DOMAIN stack = 1..n /\ Top = stack[n]
      /\ Callers \in Seq(Frame) /\ DOMAIN Callers = 1..(n - 1)
      /\ \A i \in 1..(n - 1) : Callers[i] = stack[i]
  BY <1>1, TopAndCallers DEF Top
<1>6. StackOK(Callers) /\ \A i \in 1..(n - 1) : stack[i].op \notin {"reject", "erase", "unpack"}
  BY <1>1, <1>5, PopOK
<1>7. \A i \in 1..(n - 1) : stack[i].op \notin OnTree
  <2>1. \A i \in 1..(n - 1) : i \in DOMAIN stack /\ n \in DOMAIN stack /\ i < n
    BY <1>5
  <2> QED
    BY <1>1, <1>5, <2>1 DEF StackOK, CallsOK
<1>8. \A i \in DOMAIN Callers : Callers[i].op \notin OnTree \cup {"reject", "erase", "unpack"}
  BY <1>5, <1>6, <1>7
<1> HIDE DEF f
<1>9. StackOK(Append(Callers, f)) /\ Append(Callers, f) \in Seq(Frame)
  BY <1>3, <1>4, <1>5, <1>6, <1>8, PushOK, Pushed
<1> QED
  BY <1>1, <1>9, StackStep

\* A frame further down survives what a step does to the tree.
LEMMA FrameKept ==
    ASSUME NEW f \in Frame, FrameOK(f), f.op \notin {"reject", "unpack", "erase"},
           f.op \in {"destroy", "perform"} =>
              /\ f.e \in live' /\ kind'[f.e] = kind[f.e]
              /\ parent'[f.e] \in {parent[f.e], NoID}
              /\ \A t \in Elems(children'[f.e]) :
                    kind'[t] = "bag" => t \in Elems(children[f.e]) /\ kind[t] = "bag"
    PROVE  FrameOK(f)'
<1>1. CASE f.op \notin {"destroy", "perform"}
  BY <1>1 DEF FrameOK
<1>2. CASE f.op = "perform"
  BY <1>2 DEF FrameOK
<1>3. CASE f.op = "destroy"
  <2>1. ~CarriesBag(f.e) /\ (kind[f.e] = "bag" => parent[f.e] = NoID)
    BY <1>3 DEF FrameOK
  <2>2. ~CarriesBag(f.e)'
    BY <1>3, <2>1 DEF CarriesBag, Listed, Elems
  <2> QED
    BY <1>3, <2>1, <2>2 DEF FrameOK
<1> QED
  BY <1>1, <1>2, <1>3

\* The frames under one that runs.
LEMMA BelowOK ==
    ASSUME Ind, stack # <<>>, Top.op # "reject",
           NEW i \in 1..(Len(stack) - 1), NEW f \in Frame, f = stack[i]
    PROVE  /\ FrameOK(f) /\ f.op \notin {"reject", "erase", "unpack"}
           /\ f.op \in OnTree => f.e \in live
           /\ f.op \in OnTree /\ Top.op \in OnTree => f.e # Top.e
<1> DEFINE n == Len(stack)
<1>1. /\ n \in Nat \ {0} /\ n = Len(stack) /\ DOMAIN stack = 1..n /\ n \in DOMAIN stack
      /\ Top = stack[n] /\ stack \in Seq(Frame) /\ StackOK(stack)
  BY TopAndCallers DEF Ind, RestType, Top
<1> HIDE DEF n
<1>2. stack[i].op \notin {"reject", "erase", "unpack"}
  BY <1>1, PopOK
<1>3. i \in DOMAIN stack /\ i < n
  BY <1>1
<1>4. FrameOK(stack[i])
  BY <1>1, <1>2, <1>3 DEF StackOK, FramesOK, Asked
<1>5. f.op \in OnTree /\ Top.op \in OnTree => Rank(kind[f.e]) < Rank(kind[Top.e])
  BY <1>1, <1>3 DEF StackOK, RanksOK
<1>6. Rank(kind[f.e]) \in Nat
  BY RankIsNat
<1>7. f.op \in OnTree /\ Top.op \in OnTree => f.e # Top.e
  BY <1>5, <1>6
<1> QED
  BY <1>2, <1>4, <1>7 DEF FrameOK, OnTree

\* The deletion of an entity that a handler on top of the stack has finished
\* with: nothing below works on it.
LEMMA DeleteInd ==
    ASSUME Ind, stack # <<>>, Top.op \in {"erase", "perform"},
           children[Top.e] = <<>>, parent[Top.e] = NoID,
           entity_Destroy(Top.e), stack' = Callers, UNCHANGED <<gameID, gameVars>>
    PROVE  Ind'
<1> DEFINE e == Top.e
<1>1. e \in live /\ live \subseteq ID
  BY TopOK DEF OnTree
<1>2. Tree /\ stack \in Seq(Frame) /\ StackOK(stack) /\ Callers \in Seq(Frame)
  BY TopAndCallers DEF Ind, RestType
<1>3. Tree'
  BY <1>1, <1>2, DestroyTree
<1>4. /\ live' = live \ {e} /\ kind'[e] = NoKind
      /\ \A x \in ID \ {e} : children'[x] = children[x] /\ parent'[x] = parent[x] /\ kind'[x] = kind[x]
  BY <1>1, <1>2 DEF entity_Destroy, Tree, TreeType
<1>5. ASSUME NEW f \in Frame, NEW i \in 1..(Len(stack) - 1), f = stack[i]
      PROVE  /\ FrameOK(f)'
             /\ f.op \in OnTree => kind'[f.e] = kind[f.e]
             /\ f.op # "erase"
  <2>1. /\ FrameOK(f) /\ f.op \notin {"reject", "erase", "unpack"}
        /\ f.op \in OnTree => f.e \in live /\ f.e # e
    BY <1>5, BelowOK DEF OnTree
  <2>2. \A t \in Elems(children[f.e]) : f.op \in OnTree => t \in ID
    BY <1>1, <1>2, <2>1, EndsOfList DEF Elems, Tree, TreeType
  <2>3. \A t \in ID : kind'[t] = "bag" => kind[t] = "bag"
    BY <1>4 DEF NoKind
  <2>4. f.op \in OnTree => /\ f.e \in live' /\ kind'[f.e] = kind[f.e]
                           /\ parent'[f.e] = parent[f.e] /\ children'[f.e] = children[f.e]
    BY <1>1, <1>4, <2>1
  <2> QED
    BY <2>1, <2>2, <2>3, <2>4, FrameKept DEF OnTree
<1>6. StackOK(stack)'
  BY <1>2, <1>5, ReturnOK
<1>7. RestType'
  BY <1>2 DEF entity_Destroy, Ind, RestType, gameVars
<1> QED
  BY <1>3, <1>6, <1>7 DEF Ind

\* What is about to be erased carries nothing and is carried by nobody.
LEMMA EraseTop ==
    ASSUME Ind, stack # <<>>, Top.op = "erase"
    PROVE  children[Top.e] = <<>> /\ parent[Top.e] = NoID
<1>1. stack \in Seq(Frame) /\ StackOK(stack)
  BY DEF Ind, RestType
<1>2. Len(stack) \in DOMAIN stack
  BY <1>1, TopAndCallers
<1> QED
  BY <1>1, <1>2 DEF Top, StackOK, EraseOK

LEMMA EraseEntityInd ==
    ASSUME Ind, EraseEntity
    PROVE  Ind'
BY EraseTop, DeleteInd DEF EraseEntity, Running

LEMMA PerformSelfInd ==
    ASSUME Ind, PerformSelf
    PROVE  Ind'
BY DeleteInd DEF PerformSelf, Running

\* A handler on top returns, having left what was in the map as it was, but
\* for what it deleted: nothing below works on that.
LEMMA BelowKept ==
    ASSUME Ind, stack # <<>>, Top.op # "reject", stack' = Callers,
           \A x \in live : Top.op \notin OnTree \/ x # Top.e =>
              /\ x \in live' /\ children'[x] = children[x]
              /\ parent'[x] = parent[x] /\ kind'[x] = kind[x],
           \A x \in live : kind'[x] = "bag" => kind[x] = "bag"
    PROVE  StackOK(stack)'
<1>1. Tree /\ stack \in Seq(Frame) /\ StackOK(stack)
  BY DEF Ind, RestType
<1>2. ASSUME NEW f \in Frame, NEW i \in 1..(Len(stack) - 1), f = stack[i]
      PROVE  /\ FrameOK(f)'
             /\ f.op \in OnTree => kind'[f.e] = kind[f.e]
             /\ f.op # "erase"
  <2>1. /\ FrameOK(f) /\ f.op \notin {"reject", "erase", "unpack"}
        /\ f.op \in OnTree => f.e \in live
        /\ f.op \in OnTree /\ Top.op \in OnTree => f.e # Top.e
    BY <1>2, BelowOK
  <2>2. \A t \in Elems(children[f.e]) : f.op \in OnTree => t \in live
    BY <1>1, <2>1, ChildOK
  <2>3. f.op \in OnTree => /\ f.e \in live' /\ kind'[f.e] = kind[f.e]
                           /\ parent'[f.e] = parent[f.e] /\ children'[f.e] = children[f.e]
    BY <2>1
  <2> QED
    BY <2>1, <2>2, <2>3, FrameKept DEF OnTree
<1> QED
  BY <1>1, <1>2, ReturnOK

LEMMA EraseActorInd ==
    ASSUME Ind, NEW id \in ID \ live, EraseActor(id)
    PROVE  Ind'
<1> DEFINE e == Top.e
           c == owner[e]
<1>1. /\ stack # <<>> /\ Top.op = "erase" /\ kind[e] = "actor" /\ gameID[c] = e
      /\ live' = (live \cup {id}) \ {e}
      /\ kind' = [kind EXCEPT ![id] = "spectator", ![e] = NoKind]
      /\ parent' = [parent EXCEPT ![id] = NoID, ![e] = NoID]
      /\ children' = [children EXCEPT ![id] = <<>>, ![e] = <<>>]
      /\ owner' = [owner EXCEPT ![id] = c, ![e] = NoClient]
      /\ avatar' = [avatar EXCEPT ![c] = id]
      /\ gameID' = [gameID EXCEPT ![c] = id]
      /\ stack' = Callers
      /\ UNCHANGED gameVars
  BY DEF EraseActor, SpawnsSpectator, Running
<1>2. /\ e \in live /\ e \in ID /\ e # id /\ live \subseteq ID /\ NoID \notin live /\ id # NoID
      /\ children[e] = <<>> /\ parent[e] = NoID
  BY <1>1, TopOK, EraseTop, IDAssumption DEF OnTree
<1>3. Tree /\ stack \in Seq(Frame) /\ Callers \in Seq(Frame)
  BY <1>1, TopAndCallers DEF Ind, RestType
<1> HIDE DEF e, c
<1>4. /\ kind'[id] = "spectator" /\ kind'[e] = NoKind /\ parent'[id] = NoID
      /\ children'[id] = <<>>
      /\ \A x \in ID \ {e, id} : /\ children'[x] = children[x] /\ parent'[x] = parent[x]
                                 /\ kind'[x] = kind[x]
  BY <1>1, <1>2, <1>3 DEF Tree, TreeType
<1>5. \A x \in live : parent[x] \notin {e, id}
  <2>1. children[e] \in Seq(ID)
    BY <1>2, <1>3 DEF Tree, TreeType
  <2>2. Elems(children[e]) = {}
    BY <1>2, <2>1, NoElems
  <2>3. \A x \in live : x \in ID /\ parent[x] # e
    BY <1>2, <1>3, <2>2 DEF Tree, Linked
  <2>4. \A x \in live : parent[x] # id
    BY <1>2, <1>3 DEF Tree, Linked
  <2> QED
    BY <2>3, <2>4
<1>6. live' = (live \cup {id}) \ {e} /\ e # id /\ \A x \in live : x \in ID
  BY <1>1, <1>2
<1>7. id \notin live
  OBVIOUS
<1>8. \A x \in live' : x = id \/ (x \in live /\ x \in ID /\ x \notin {e, id})
  BY <1>6, <1>7
<1>9. \A x \in live : x \in live' \/ x = e
  BY <1>6
<1>10. id \in live' /\ e \notin live'
  BY <1>6
<1>11. TreeType'
  <2>1. children' \in [ID -> Seq(ID)]
    BY <1>1, <1>3, NoElems DEF Tree, TreeType
  <2>2. kind' \in [ID -> Kind \cup {NoKind}]
    BY <1>1, <1>3 DEF Tree, TreeType, Kind
  <2>3. parent' \in [ID -> ID \cup {NoID}] /\ live' \subseteq ID
    BY <1>1, <1>2, <1>3 DEF Tree, TreeType
  <2> QED
    BY <2>1, <2>2, <2>3 DEF TreeType
<1>12. Linked'
  <2>1. ASSUME NEW x \in live'
        PROVE  parent'[x] \in live' \cup {NoID}
    <3>1. CASE x = id
      BY <3>1, <1>4
    <3>2. CASE x # id
      <4>1. x \in live /\ parent'[x] = parent[x]
        BY <3>2, <1>4, <1>8
      <4>2. parent[x] \in live \cup {NoID} /\ parent[x] # e
        BY <4>1, <1>3, <1>5 DEF Tree, Linked
      <4> QED
        BY <4>1, <4>2, <1>9
    <3> QED
      BY <3>1, <3>2
  <2>2. Elems(children'[id]) = {} /\ Distinct(children'[id])
    <3>1. <<>> \in Seq(ID)
      OBVIOUS
    <3> QED
      BY <1>4, <3>1, NoElems
  <2>3. ASSUME NEW x \in live'
        PROVE  Distinct(children'[x])
    <3>1. CASE x # id
      <4>1. x \in live /\ children'[x] = children[x]
        BY <3>1, <1>4, <1>8
      <4> QED
        BY <4>1, <1>3 DEF Tree, Linked
    <3> QED
      BY <2>2, <3>1
  <2>4. ASSUME NEW x \in live', NEW y \in ID
        PROVE  y \in Elems(children'[x]) <=> y \in live' /\ parent'[y] = x
    <3>1. CASE x = id
      <4>1. y \in live' => parent'[y] # id
        BY <1>2, <1>4, <1>5, <1>8
      <4> QED
        BY <3>1, <2>2, <4>1
    <3>2. CASE x # id
      <4>1. x \in live /\ children'[x] = children[x] /\ x # NoID /\ x # e
        BY <3>2, <1>2, <1>4, <1>8
      <4>2. y \in Elems(children[x]) <=> y \in live /\ parent[y] = x
        BY <4>1, <1>3 DEF Tree, Linked
      <4>3. CASE y \in {e, id}
        BY <4>1, <4>2, <4>3, <1>2, <1>4, <1>10
      <4>4. CASE y \notin {e, id}
        BY <4>1, <4>2, <4>4, <1>4, <1>8, <1>9
      <4> QED
        BY <4>3, <4>4
    <3> QED
      BY <3>1, <3>2
  <2> QED
    BY <2>1, <2>3, <2>4 DEF Linked
<1>13. CarriedAllowed'
  <2>1. \A x \in ID : x \in live' <=> kind'[x] # NoKind
    BY <1>1, <1>2, <1>3, <1>4 DEF Tree, CarriedAllowed, NoKind
  <2>2. ASSUME NEW x \in live', parent'[x] \in live'
        PROVE  <<kind'[parent'[x]], kind'[x]>> \in Holds
    <3>1. x # id
      <4>1. NoID \notin live'
        BY <1>2, <1>6
      <4> QED
        BY <2>2, <4>1, <1>4
    <3>2. x \in live /\ x \in ID /\ parent'[x] = parent[x] /\ kind'[x] = kind[x]
      BY <3>1, <1>4, <1>8
    <3>3. parent[x] # e /\ parent[x] # id
      BY <3>2, <1>5
    <3>4. parent[x] \in live /\ parent[x] \in ID /\ kind'[parent[x]] = kind[parent[x]]
      BY <2>2, <3>2, <3>3, <1>4, <1>8
    <3> QED
      BY <3>2, <3>4, <1>3 DEF Tree, CarriedAllowed
  <2> QED
    BY <2>1, <2>2 DEF CarriedAllowed
<1>14. StackOK(stack)'
  <2>1. \A x \in live : x # Top.e => /\ x \in live' /\ children'[x] = children[x]
                                     /\ parent'[x] = parent[x] /\ kind'[x] = kind[x]
    BY <1>1, <1>2, <1>4 DEF e
  <2>2. \A x \in live : kind'[x] = "bag" => kind[x] = "bag"
    BY <1>1, <1>2, <1>4 DEF NoKind
  <2>3. Top.op \in OnTree /\ Top.op # "reject"
    BY <1>1 DEF OnTree
  <2> QED
    BY <1>1, <2>1, <2>2, <2>3, BelowKept
<1>15. RestType'
  <2>1. owner' \in [ID -> Client \cup {NoClient}]
    BY <1>1, <1>2 DEF Ind, RestType, c
  <2>2. avatar' \in [Client -> ID \cup {NoID}] /\ gameID' \in [Client -> ID \cup {NoID}]
    BY <1>1 DEF Ind, RestType
  <2> QED
    BY <1>1, <1>3, <2>1, <2>2 DEF Ind, RestType, gameVars
<1> QED
  BY <1>11, <1>12, <1>13, <1>14, <1>15 DEF Ind, Tree

LEMMA SpawnSpectatorInd ==
    ASSUME Ind, NEW id \in ID \ live, SpawnSpectator(id)
    PROVE  Ind'
<1> DEFINE c == Top.c
<1>1. /\ stack # <<>> /\ Top.op = "spectate" /\ Insert(id, "spectator", NoID, c)
      /\ avatar' = [avatar EXCEPT ![c] = id] /\ gameID' = [gameID EXCEPT ![c] = id]
      /\ stack' = Callers /\ UNCHANGED gameVars
  BY DEF SpawnSpectator, Running
<1>2. Tree /\ Callers \in Seq(Frame) /\ c \in Client \cup {NoClient} /\ live \subseteq ID /\ NoID \notin live
  BY <1>1, TopOK, TopAndCallers DEF Ind, RestType, Frame
<1> HIDE DEF c
<1>3. Tree'
  BY <1>1, <1>2, InsertTree DEF Kind
<1>4. /\ live' = live \cup {id} /\ owner' = [owner EXCEPT ![id] = c]
      /\ \A x \in live : children'[x] = children[x]
      /\ \A x \in live : parent'[x] = parent[x] /\ kind'[x] = kind[x]
  <2>1. /\ live' = live \cup {id} /\ owner' = [owner EXCEPT ![id] = c]
        /\ parent' = [parent EXCEPT ![id] = NoID] /\ kind' = [kind EXCEPT ![id] = "spectator"]
        /\ children' = [e \in ID |-> IF e = id THEN <<>>
                                     ELSE IF e = NoID THEN Append(children[e], id) ELSE children[e]]
    BY <1>1 DEF Insert
  <2>2. \A x \in live : x \in ID /\ x # id /\ x # NoID
    BY <1>2
  <2> QED
    BY <1>2, <2>1, <2>2 DEF Tree, TreeType
<1>5. StackOK(stack)'
  BY <1>1, <1>4, BelowKept DEF OnTree
<1>6. RestType'
  BY <1>1, <1>2, <1>4 DEF Ind, RestType, gameVars
<1> QED
  BY <1>3, <1>5, <1>6 DEF Ind

\* The frames under a rejection: at most the one below it is about to erase,
\* and what it erases is what is rejected.
LEMMA UnderReject ==
    ASSUME Ind, stack # <<>>, Top.op = "reject",
           NEW i \in 1..(Len(stack) - 1), NEW f \in Frame, f = stack[i]
    PROVE  /\ FrameOK(f) /\ f.op # "reject"
           /\ f.op = "erase" => /\ children[f.e] = <<>> /\ kind[f.e] # "bag"
                                /\ Top.e = f.e /\ Top.p = parent[f.e]
<1> DEFINE n == Len(stack)
<1>1. /\ n \in Nat \ {0} /\ n = Len(stack) /\ DOMAIN stack = 1..n /\ n \in DOMAIN stack
      /\ Top = stack[n] /\ stack \in Seq(Frame) /\ StackOK(stack)
  BY TopAndCallers DEF Ind, RestType, Top
<1> HIDE DEF n
<1>2. i \in DOMAIN stack /\ i < n /\ i # Len(stack)
  BY <1>1
<1>3. stack[i].op # "reject"
  BY <1>1, <1>2 DEF StackOK, CallsOK
<1>4. FrameOK(stack[i])
  BY <1>1, <1>2, <1>3 DEF StackOK, FramesOK, Asked
<1>5. ASSUME stack[i].op = "erase"
      PROVE  /\ children[f.e] = <<>> /\ kind[f.e] # "bag"
             /\ Top.e = f.e /\ Top.p = parent[f.e]
  <2>1. /\ children[f.e] = <<>> /\ i + 1 = Len(stack) /\ kind[f.e] # "bag"
        /\ stack[i + 1] = OnPair("reject", parent[f.e], f.e)
    BY <1>1, <1>2, <1>5 DEF StackOK, EraseOK
  <2>2. Top = OnPair("reject", parent[f.e], f.e)
    BY <1>1, <2>1
  <2> QED
    BY <2>1, <2>2 DEF OnPair
<1> QED
  BY <1>3, <1>4, <1>5

LEMMA RejectDetachesInd ==
    ASSUME Ind, RejectDetaches
    PROVE  Ind'
<1> DEFINE p == Top.p
           e == Top.e
<1>1. /\ stack # <<>> /\ Top.op = "reject" /\ RejectAsserts(p, e)
      /\ IF parent[e] = NoID THEN UNCHANGED <<parent, children>> ELSE Detach(p, e)
      /\ stack' = Callers
      /\ UNCHANGED <<live, kind, owner, avatar, gameID, gameVars>>
  BY DEF RejectDetaches, Running
<1>2. /\ p \in live /\ e \in live /\ live \subseteq ID /\ NoID \notin live
      /\ parent[e] \in {p, NoID}
  BY <1>1, TopOK DEF RejectAsserts
<1>3. p # NoID /\ (parent[e] = p => p # e)
  <2>1. parent[e] = p => <<kind[p], kind[e]>> \in Holds
    BY <1>2 DEF Ind, Tree, CarriedAllowed
  <2> QED
    BY <1>2, <2>1, HoldsFacts
<1>4. Tree /\ stack \in Seq(Frame) /\ StackOK(stack) /\ Callers \in Seq(Frame)
  BY <1>1, TopAndCallers DEF Ind, RestType
<1> HIDE DEF p, e
<1>5. /\ Tree'
      /\ \A x \in live : Elems(children'[x]) \subseteq Elems(children[x])
  <2>1. CASE parent[e] = NoID
    BY <2>1, <1>1, <1>4, TreeRead DEF treeVars
  <2>2. CASE parent[e] = p
    BY <2>2, <1>1, <1>2, <1>3, <1>4, DetachTree
  <2> QED
    BY <2>1, <2>2, <1>2
<1>6. parent'[e] = NoID /\ children'[e] = children[e]
  <2>1. CASE parent[e] = NoID
    BY <2>1, <1>1
  <2>2. CASE parent[e] = p
    BY <2>2, <1>1, <1>2, <1>3, <1>4 DEF Detach, Tree, TreeType
  <2> QED
    BY <2>1, <2>2, <1>2
<1>7. \A x \in ID : parent'[x] \in {parent[x], NoID}
  <2>1. CASE parent[e] = NoID
    BY <2>1, <1>1
  <2>2. CASE parent[e] = p
    BY <2>2, <1>1, <1>2, <1>3, <1>4 DEF Detach, Tree, TreeType
  <2> QED
    BY <2>1, <2>2, <1>2
<1>8. live' = live /\ kind' = kind
  BY <1>1
<1>9. ASSUME NEW f \in Frame, NEW i \in 1..(Len(stack) - 1), f = stack[i]
      PROVE  /\ FrameOK(f)'
             /\ f.op = "erase" => children'[f.e] = <<>> /\ parent'[f.e] = NoID
  <2>1. /\ FrameOK(f) /\ f.op # "reject"
        /\ f.op = "erase" => children[f.e] = <<>> /\ f.e = e
    BY <1>1, <1>9, UnderReject DEF e
  <2>2. f.op = "erase" => children'[f.e] = <<>> /\ parent'[f.e] = NoID
    BY <2>1, <1>6
  <2>3. f.op \in {"destroy", "perform", "erase", "unpack"} => f.e \in live
    BY <2>1 DEF FrameOK
  <2>4. CASE f.op = "erase"
    BY <2>2, <2>3, <2>4, <1>8 DEF FrameOK
  <2>5. CASE f.op = "unpack"
    <3>1. /\ f.e \in live /\ f.e \in ID /\ f.p \in live /\ kind[f.p] = "actor"
          /\ kind[f.e] = "bag" /\ parent[f.e] = NoID
      BY <2>1, <2>3, <2>5, <1>2 DEF FrameOK
    <3>2. parent'[f.e] = NoID
      BY <3>1, <1>7
    <3> QED
      BY <3>1, <3>2, <2>5, <1>8 DEF FrameOK
  <2>6. CASE f.op \notin {"erase", "unpack"}
    BY <2>1, <2>3, <2>6, <1>2, <1>5, <1>7, <1>8, FrameKept
  <2> QED
    BY <2>2, <2>4, <2>5, <2>6
<1>10. StackOK(stack)'
  BY <1>1, <1>4, <1>8, <1>9, ReturnOK
<1>11. RestType'
  BY <1>1, <1>4 DEF Ind, RestType, gameVars
<1> QED
  BY <1>5, <1>10, <1>11 DEF Ind

\* An item changes hands under handlers that do not work on it.
LEMMA TransferInd ==
    ASSUME Ind, stack' = stack, UNCHANGED <<owner, avatar, gameID, gameVars>>,
           NEW t \in live, NEW from \in live, NEW to \in live,
           <<kind[to], kind[t]>> \in Holds, kind[t] # "bag",
           Perform_transfer(t, from, to),
           \A i \in DOMAIN stack : /\ stack[i].op # "erase"
                                   /\ stack[i].op \in {"reject", "unpack"} => stack[i].e # t
    PROVE  Ind'
<1>1. /\ Tree /\ stack \in Seq(Frame) /\ StackOK(stack) /\ live \subseteq ID
      /\ live' = live /\ kind' = kind /\ DOMAIN stack = 1..Len(stack)
  BY DEF Ind, RestType, Perform_transfer, Tree, TreeType
<1>2. /\ Tree'
      /\ \A x \in live : Elems(children'[x]) \subseteq Elems(children[x]) \cup {t}
      /\ \A x \in ID \ {t} : parent'[x] = parent[x]
  BY <1>1, TransferTree
<1>3. ASSUME NEW i \in DOMAIN stack, NEW f \in Frame, f = stack[i], i # 1 \/ ~Asked(f)
      PROVE  FrameOK(f)'
  <2>1. FrameOK(f) /\ f.op # "erase" /\ (f.op \in {"reject", "unpack"} => f.e # t)
    BY <1>1, <1>3 DEF StackOK, FramesOK
  <2>2. f.op \in {"destroy", "perform", "reject", "unpack"} => f.e \in live /\ f.e \in ID
    BY <2>1, <1>1 DEF FrameOK
  <2>3. CASE f.op \in {"reject", "unpack"}
    <3>1. parent'[f.e] = parent[f.e]
      BY <2>1, <2>2, <2>3, <1>2
    <3> QED
      BY <2>1, <2>3, <3>1, <1>1 DEF FrameOK
  <2>4. CASE f.op = "destroy"
    <3>1. ~CarriesBag(f.e)'
      <4>1. \A u \in Elems(children[f.e]) : kind[u] # "bag"
        BY <2>1, <2>4 DEF FrameOK, CarriesBag, Listed, Elems
      <4>2. \A u \in Elems(children'[f.e]) : kind[u] # "bag"
        BY <4>1, <2>2, <2>4, <1>2
      <4> QED
        BY <4>2, <1>1 DEF CarriesBag, Listed, Elems
    <3>2. kind[f.e] = "bag" => parent'[f.e] = NoID
      <4>1. kind[f.e] = "bag" => parent[f.e] = NoID /\ f.e # t
        BY <2>1, <2>4 DEF FrameOK
      <4> QED
        BY <4>1, <2>2, <2>4, <1>2
    <3> QED
      BY <2>2, <2>4, <3>1, <3>2, <1>1 DEF FrameOK
  <2>5. CASE f.op \notin {"destroy", "reject", "unpack"}
    BY <2>1, <2>2, <2>5, <1>1 DEF FrameOK
  <2> QED
    BY <2>3, <2>4, <2>5
<1>4. StackOK(stack)'
  <2>1. FramesOK(stack)'
    <3> SUFFICES ASSUME NEW i \in DOMAIN stack, i # 1 \/ ~Asked(stack[i])
                 PROVE  FrameOK(stack[i])'
      BY <1>1 DEF FramesOK
    <3>1. PICK f \in Frame : f = stack[i] /\ f = stack'[i]
      BY <1>1
    <3>2. FrameOK(f)'
      BY <3>1, <1>3
    <3> QED
      BY <3>1, <3>2 DEF FrameOK, CarriesBag, Listed
  <2>2. RanksOK(stack)'
    BY <1>1 DEF StackOK, RanksOK
  <2>3. EraseOK(stack)'
    BY <1>1 DEF EraseOK
  <2>4. CallsOK(stack)'
    BY <1>1 DEF StackOK, CallsOK
  <2> QED
    BY <2>1, <2>2, <2>3, <2>4 DEF StackOK
<1>5. RestType'
  BY DEF Ind, RestType, gameVars
<1> QED
  BY <1>2, <1>4, <1>5 DEF Ind

LEMMA RejectFillsBagInd ==
    ASSUME Ind, RejectFillsBag
    PROVE  Ind'
<1> DEFINE p == Top.p
           e == Top.e
           t == FirstOf(p, MovedToBag(p, e))
           n == Len(stack)
<1>1. /\ stack # <<>> /\ Top.op = "reject" /\ MovedToBag(p, e) # {}
      /\ Perform_transfer(t, p, e) /\ stack' = stack
      /\ UNCHANGED <<owner, avatar, gameID, gameVars>>
  BY DEF RejectFillsBag, Running
<1>2. p \in live /\ e \in live /\ p \in ID /\ children[p] \in Seq(ID)
  <2>1. kind[p] = "actor" /\ kind[e] = "bag"
    BY <1>1 DEF MovedToBag
  <2>2. p \in ID /\ e \in ID
    BY <1>1, TopOK
  <2> QED
    BY <2>1, <2>2 DEF Ind, Tree, TreeType, CarriedAllowed, NoKind
<1>3. t \in MovedToBag(p, e)
  BY <1>1, <1>2, FirstFound DEF MovedToBag
<1>4. /\ t \in Elems(children[p]) /\ kind[e] = "bag"
      /\ kind[t] \in {"weapon", "ammo"}
  BY <1>3 DEF MovedToBag, Listed, Elems, Transferable
<1>5. t \in live
  BY <1>2, <1>4, ChildOK DEF Ind
<1>6. /\ n \in Nat \ {0} /\ n = Len(stack) /\ DOMAIN stack = 1..n /\ Top = stack[n]
      /\ \A i \in 1..n : stack[i] \in Frame
  BY <1>1, TopAndCallers DEF Ind, RestType, Top
<1> HIDE DEF n, t
<1>7. ASSUME NEW i \in 1..n
      PROVE  /\ stack[i].op # "erase"
             /\ stack[i].op \in {"reject", "unpack"} => stack[i].e # t
  <2>1. CASE i = n
    BY <2>1, <1>1, <1>4, <1>6
  <2>2. CASE i # n
    <3>1. PICK f \in Frame : f = stack[i] /\ i \in 1..(Len(stack) - 1)
      BY <2>2, <1>6
    <3>2. /\ FrameOK(f) /\ f.op # "reject"
          /\ f.op = "erase" => kind[f.e] # "bag" /\ f.e = e
      BY <3>1, <1>1, UnderReject
    <3>3. f.op = "unpack" => f.e # t
      BY <3>2, <1>4 DEF FrameOK
    <3> QED
      BY <3>1, <3>2, <3>3, <1>4
  <2> QED
    BY <2>1, <2>2
<1> QED
  <2>1. <<kind[e], kind[t]>> \in Holds /\ kind[t] # "bag"
    BY <1>4 DEF Holds
  <2> QED
    BY <2>1, <1>1, <1>2, <1>5, <1>6, <1>7, TransferInd

LEMMA UnpackItemInd ==
    ASSUME Ind, UnpackItem
    PROVE  Ind'
<1> DEFINE p == Top.p
           e == Top.e
           item == Last(children[e])
           f == OnPair("reject", e, item)
           n == Len(stack)
<1>1. /\ stack # <<>> /\ Top.op = "unpack" /\ children[e] # <<>>
      /\ IF OnTouch(p, item)
         THEN Perform_transfer(item, e, p) /\ UNCHANGED stack
         ELSE UNCHANGED treeVars /\ stack' = Append(stack, f)
      /\ UNCHANGED <<owner, avatar, gameID, gameVars>>
  BY DEF UnpackItem, Running
<1>2. /\ p \in live /\ e \in live /\ e \in ID
      /\ kind[p] = "actor" /\ kind[e] = "bag" /\ children[e] \in Seq(ID)
  BY <1>1, TopOK DEF FrameOK, Ind, Tree, TreeType
<1>3. item \in Elems(children[e])
  BY <1>1, <1>2, EndsOfList
<1>4. item \in live /\ item \in ID /\ parent[item] = e /\ <<kind[e], kind[item]>> \in Holds
  BY <1>2, <1>3, ChildOK DEF Ind
<1>5. kind[item] \in {"weapon", "ammo"}
  BY <1>2, <1>4, HoldsFacts
<1> HIDE DEF item
<1>6. CASE OnTouch(p, item)
  <2>1. /\ n \in Nat \ {0} /\ n = Len(stack) /\ DOMAIN stack = 1..n /\ Top = stack[n]
        /\ stack \in Seq(Frame) /\ StackOK(stack)
    BY <1>1, TopAndCallers DEF Ind, RestType, Top
  <2>2. \A i \in 1..(n - 1) : stack[i].op \notin {"reject", "erase", "unpack"}
    BY <1>1, <2>1, PopOK
  <2> HIDE DEF n
  <2>3. \A i \in 1..n : i = n \/ i \in 1..(n - 1)
    BY <2>1
  <2>4. \A i \in DOMAIN stack : /\ stack[i].op # "erase"
                                /\ stack[i].op \in {"reject", "unpack"} => stack[i].e # item
    BY <1>1, <1>2, <1>5, <2>1, <2>2, <2>3
  <2>5. <<kind[p], kind[item]>> \in Holds /\ kind[item] # "bag"
    BY <1>2, <1>5 DEF Holds
  <2>6. Perform_transfer(item, e, p) /\ stack' = stack
    BY <1>1, <1>6
  <2> QED
    BY <1>1, <1>2, <1>4, <2>4, <2>5, <2>6, TransferInd
<1>7. CASE ~OnTouch(p, item)
  <2>1. f \in Frame /\ f.op = "reject" /\ f.p = e /\ f.e = item
    BY <1>2, <1>4, FrameTypes DEF Op, OnPair
  <2>2. FrameOK(f)
    BY <1>2, <1>4, <2>1 DEF FrameOK
  <2> HIDE DEF f
  <2>3. stack' \in Seq(Frame) /\ StackOK(stack')
    BY <1>1, <1>7, <2>1, <2>2, CallOK DEF OnTree
  <2> QED
    BY <1>1, <1>7, <2>3, StackStep
<1> QED
  BY <1>6, <1>7

LEMMA SpawnActorInd ==
    ASSUME Ind, NEW id \in ID \ live, NEW bag \in ID \ live, SpawnActor(id, bag)
    PROVE  Ind'
<1> DEFINE c == Top.c
<1>1. /\ stack # <<>> /\ Top.op = "play" /\ id # bag
      /\ live' = live \cup {id, bag}
      /\ kind' = [kind EXCEPT ![id] = "actor", ![bag] = "bag"]
      /\ parent' = [parent EXCEPT ![id] = NoID, ![bag] = id]
      /\ children' = [children EXCEPT ![id] = <<bag>>, ![bag] = <<>>]
      /\ owner' = [owner EXCEPT ![id] = c, ![bag] = Server]
      /\ avatar' = [avatar EXCEPT ![c] = id]
      /\ gameID' = [gameID EXCEPT ![c] = id]
      /\ stack' = Callers
      /\ UNCHANGED gameVars
  BY DEF SpawnActor, Running
<1>2. /\ Tree /\ Callers \in Seq(Frame) /\ c \in Client \cup {NoClient}
      /\ live \subseteq ID /\ NoID \notin live /\ id # NoID /\ bag # NoID
  BY <1>1, TopOK, TopAndCallers, IDAssumption DEF Ind, RestType, Frame
<1> HIDE DEF c
<1>3. /\ kind'[id] = "actor" /\ kind'[bag] = "bag" /\ parent'[id] = NoID /\ parent'[bag] = id
      /\ children'[id] = <<bag>> /\ children'[bag] = <<>>
      /\ \A x \in ID \ {id, bag} : /\ children'[x] = children[x] /\ parent'[x] = parent[x]
                                   /\ kind'[x] = kind[x]
  BY <1>1, <1>2 DEF Tree, TreeType
<1>4. live' = live \cup {id, bag} /\ id # bag
  BY <1>1
<1>5. \A x \in live' : x \in {id, bag} \/ (x \in live /\ x \in ID /\ x \notin {id, bag})
  BY <1>2, <1>4
<1>6. \A x \in live : parent[x] \notin {id, bag}
  BY <1>2 DEF Tree, Linked
<1>7. /\ <<bag>> \in Seq(ID) /\ <<>> \in Seq(ID)
      /\ Elems(children'[id]) = {bag} /\ Distinct(children'[id])
      /\ Elems(children'[bag]) = {} /\ Distinct(children'[bag])
  <2>1. <<bag>> \in Seq(ID) /\ <<>> \in Seq(ID)
    OBVIOUS
  <2>2. Elems(<<bag>>) = {bag} /\ Distinct(<<bag>>)
    BY DEF Elems, Distinct
  <2>3. Elems(<<>>) = {} /\ Distinct(<<>>)
    BY <2>1, NoElems
  <2> QED
    BY <1>3, <2>1, <2>2, <2>3
<1>8. TreeType'
  <2>1. children' \in [ID -> Seq(ID)]
    BY <1>1, <1>2, <1>7 DEF Tree, TreeType
  <2>2. kind' \in [ID -> Kind \cup {NoKind}]
    BY <1>1, <1>2 DEF Tree, TreeType, Kind
  <2>3. parent' \in [ID -> ID \cup {NoID}] /\ live' \subseteq ID
    BY <1>1, <1>2 DEF Tree, TreeType
  <2> QED
    BY <2>1, <2>2, <2>3 DEF TreeType
<1>9. Linked'
  <2>1. ASSUME NEW x \in live'
        PROVE  parent'[x] \in live' \cup {NoID}
    <3>1. CASE x \in {id, bag}
      BY <3>1, <1>3, <1>4
    <3>2. CASE x \notin {id, bag}
      <4>1. x \in live /\ parent'[x] = parent[x] /\ parent[x] \in live \cup {NoID}
        BY <3>2, <1>2, <1>3, <1>5 DEF Tree, Linked
      <4> QED
        BY <4>1, <1>4
    <3> QED
      BY <3>1, <3>2
  <2>2. ASSUME NEW x \in live'
        PROVE  Distinct(children'[x])
    <3>1. CASE x \notin {id, bag}
      <4>1. x \in live /\ children'[x] = children[x]
        BY <3>1, <1>3, <1>5
      <4> QED
        BY <4>1, <1>2 DEF Tree, Linked
    <3> QED
      BY <3>1, <1>7
  <2>3. ASSUME NEW x \in live', NEW y \in ID
        PROVE  y \in Elems(children'[x]) <=> y \in live' /\ parent'[y] = x
    <3>1. y \in live' /\ y \notin {id, bag} => parent'[y] \notin {id, bag}
      BY <1>3, <1>5, <1>6
    <3>2. CASE x \in {id, bag}
      BY <3>1, <3>2, <1>2, <1>3, <1>4, <1>7
    <3>3. CASE x \notin {id, bag}
      <4>1. x \in live /\ children'[x] = children[x] /\ x # NoID
        BY <3>3, <1>2, <1>3, <1>5
      <4>2. y \in Elems(children[x]) <=> y \in live /\ parent[y] = x
        BY <4>1, <1>2 DEF Tree, Linked
      <4>3. CASE y \in {id, bag}
        BY <3>3, <4>1, <4>2, <4>3, <1>3
      <4>4. CASE y \notin {id, bag}
        BY <4>1, <4>2, <4>4, <1>3, <1>4, <1>5
      <4> QED
        BY <4>3, <4>4
    <3> QED
      BY <3>2, <3>3
  <2> QED
    BY <2>1, <2>2, <2>3 DEF Linked
<1>10. CarriedAllowed'
  <2>1. ASSUME NEW x \in ID
        PROVE  x \in live' <=> kind'[x] # NoKind
    <3>1. CASE x \in {id, bag}
      BY <3>1, <1>3, <1>4 DEF NoKind
    <3>2. CASE x \notin {id, bag}
      BY <3>2, <1>2, <1>3, <1>4 DEF Tree, CarriedAllowed
    <3> QED
      BY <3>1, <3>2
  <2>2. ASSUME NEW x \in live', parent'[x] \in live'
        PROVE  <<kind'[parent'[x]], kind'[x]>> \in Holds
    <3>1. x # id
      <4>1. NoID \notin live'
        BY <1>2, <1>4
      <4> QED
        BY <2>2, <4>1, <1>3
    <3>2. CASE x = bag
      BY <3>2, <1>3 DEF Holds
    <3>3. CASE x # bag
      <4>1. x \in live /\ x \in ID /\ parent'[x] = parent[x] /\ kind'[x] = kind[x]
        BY <3>1, <3>3, <1>3, <1>5
      <4>2. parent[x] \in live /\ parent[x] \in ID /\ kind'[parent[x]] = kind[parent[x]]
        BY <2>2, <4>1, <1>3, <1>5, <1>6
      <4> QED
        BY <4>1, <4>2, <1>2 DEF Tree, CarriedAllowed
    <3> QED
      BY <3>2, <3>3
  <2> QED
    BY <2>1, <2>2 DEF CarriedAllowed
<1>11. StackOK(stack)'
  <2>1. \A x \in live : x \in ID /\ x \notin {id, bag}
    BY <1>2
  <2>2. \A x \in live : /\ x \in live' /\ children'[x] = children[x]
                        /\ parent'[x] = parent[x] /\ kind'[x] = kind[x]
    BY <2>1, <1>3, <1>4
  <2> QED
    BY <1>1, <2>2, BelowKept
<1>12. RestType'
  <2>1. owner' \in [ID -> Client \cup {NoClient}]
    BY <1>1, <1>2, ClientAssumption DEF Ind, RestType
  <2>2. avatar' \in [Client -> ID \cup {NoID}] /\ gameID' \in [Client -> ID \cup {NoID}]
    BY <1>1 DEF Ind, RestType
  <2> QED
    BY <1>1, <1>2, <2>1, <2>2 DEF Ind, RestType, gameVars
<1> QED
  BY <1>8, <1>9, <1>10, <1>11, <1>12 DEF Ind, Tree

-----------------------------------------------------------------------------
(* The theorems.                                                           *)

\* Every request and every step keeps the invariant.
LEMMA NextInd ==
    ASSUME Ind, [BodiesWait]_vars, [Next]_vars
    PROVE  Ind'
<1>1. CASE Request
  <2>1. CASE \E id \in ID \ live, k \in Kinds : SpawnLevel(id, k)
    BY <2>1, SpawnLevelInd
  <2>2. CASE ServerConnect
    BY <2>2, ServerConnectInd
  <2>3. CASE \E id \in ID \ live, k \in Kinds, p \in live \cup {NoID} : SpawnItem(id, k, p)
    BY <2>3, SpawnItemInd
  <2>4. CASE \E c \in Client : PlayerReady(c)
    BY <2>4, PlayerReadyInd
  <2>5. CASE \E c \in Client, NoSpectator \in BOOLEAN : RespawnPlayer(c, NoSpectator)
    BY <2>5, RespawnPlayerInd
  <2>6. CASE \E p, e \in live, c \in Client : Take(p, e, c)
    BY <2>6, TakeInd
  <2>7. CASE \E p, e \in live, c \in Client : TakeForced(p, e, c)
    BY <2>7, TakeForcedInd
  <2>8. CASE \E p, e \in live, c \in Client : TakeBag(p, e, c)
    BY <2>8, TakeBagInd
  <2>9. CASE \E p, e \in ID : Reject(p, e)
    BY <2>9, RejectInd
  <2>10. CASE \E e \in live : Destroy(e)
    <3> SUFFICES ASSUME NEW e \in live, Destroy(e)
                 PROVE  Ind'
      BY <2>10
    <3>1. stack' # stack
      BY DEF Destroy, Idle
    <3>2. BodiesWait
      BY <3>1 DEF vars
    <3> QED
      BY <3>2, DestroyInd
  <2>11. CASE \E p, e \in live : TransferAmmo(p, e)
    BY <2>11, TransferAmmoInd
  <2>12. CASE \E e \in live : SwitchOffline(e)
    BY <2>12, SwitchOfflineInd
  <2>13. CASE SLS_Clear
    BY <2>13, SLS_ClearInd
  <2>14. CASE \E cs \in SUBSET Client : OnRoundEnd(cs)
    BY <2>14, OnRoundEndInd
  <2> QED
    BY <1>1, <2>1, <2>2, <2>3, <2>4, <2>5, <2>6, <2>7, <2>8, <2>9, <2>10, <2>11, <2>12,
       <2>13, <2>14 DEF Request
<1>2. CASE Step
  <2>1. CASE DestroyChild
    BY <2>1, DestroyChildInd
  <2>2. CASE DestroySelf
    BY <2>2, DestroySelfInd
  <2>3. CASE EraseEntity
    BY <2>3, EraseEntityInd
  <2>4. CASE \E id \in ID \ live : EraseActor(id)
    BY <2>4, EraseActorInd
  <2>5. CASE RejectFillsBag
    BY <2>5, RejectFillsBagInd
  <2>6. CASE RejectDetaches
    BY <2>6, RejectDetachesInd
  <2>7. CASE PerformChild
    BY <2>7, PerformChildInd
  <2>8. CASE PerformSelf
    BY <2>8, PerformSelfInd
  <2>9. CASE ClearNext
    BY <2>9, ClearNextInd
  <2>10. CASE ClearDone
    BY <2>10, ClearDoneInd
  <2>11. CASE UnpackItem
    BY <2>11, UnpackItemInd
  <2>12. CASE UnpackDone
    BY <2>12, UnpackDoneInd
  <2>13. CASE \E id \in ID \ live : SpawnSpectator(id)
    BY <2>13, SpawnSpectatorInd
  <2>14. CASE \E id, bag \in ID \ live : SpawnActor(id, bag)
    BY <2>14, SpawnActorInd
  <2> QED
    BY <1>2, <2>1, <2>2, <2>3, <2>4, <2>5, <2>6, <2>7, <2>8, <2>9, <2>10, <2>11, <2>12,
       <2>13, <2>14 DEF Step
<1>3. CASE UNCHANGED vars
  <2>1. UNCHANGED <<treeVars, owner, avatar, gameID, gameVars>> /\ stack' = stack
    BY <1>3 DEF vars, treeVars, gameVars
  <2> QED
    BY <2>1, StackStep DEF Ind, RestType
<1> QED
  BY <1>1, <1>2, <1>3 DEF Next

\* What is proved inductive is the invariant, and the assertions of
\* Process_event_reject follow from it.
LEMMA IndImplies ==
    ASSUME Ind
    PROVE  IInv /\ RejectSafe
<1>1. TypeOK
  BY DEF Ind, RestType, Tree, TreeType, TypeOK
<1>2. IInv
  BY <1>1, TreeForm DEF Ind, Tree, IInv
<1>3. RejectSafe
  <2> SUFFICES ASSUME Running("reject"), Len(stack) > 1
               PROVE  /\ RejectAsserts(Top.p, Top.e)
                      /\ parent[Top.e] = Top.p => Top.e \in Listed(Top.p)
    BY DEF RejectSafe
  <2>1. Top.e \in live /\ Top.p \in live /\ parent[Top.e] \in {Top.p, NoID}
    BY TopOK DEF Running, FrameOK
  <2>2. parent[Top.e] = Top.p => Top.e \in Listed(Top.p)
    BY <1>2, <2>1, IDAssumption DEF IInv, VerifyEntities, ParentsKnow, TypeOK
  <2> QED
    BY <2>1, <2>2 DEF RejectAsserts
<1> QED
  BY <1>2, <1>3

LEMMA Invariance == Spec /\ [][BodiesWait]_vars => []Ind
<1>1. Init => Ind
  BY InitInd
<1>2. Ind /\ [Next]_vars /\ [BodiesWait]_vars => Ind'
  BY NextInd
<1> QED
  BY <1>1, <1>2, PTL DEF Spec

\* With BagsDropped no request destroys a body that carries its bag, and what
\* a handler that runs destroys is not asked for.
LEMMA WaitsInd ==
    ASSUME Ind, BagsDropped, [Next]_vars
    PROVE  [BodiesWait]_vars
<1> SUFFICES ASSUME Next, NEW e \in live, Idle, CarriesBag(e), stack' = <<OnEntity("destroy", e)>>
             PROVE  FALSE
  BY DEF BodiesWait
<1>1. Len(stack') = 1 /\ stack'[1].op = "destroy" /\ stack'[1].e = e /\ stack' # <<>> /\ stack = <<>>
  BY DEF OnEntity, Idle
<1>2. ~Step
  BY <1>1 DEF Step, DestroyChild, DestroySelf, EraseEntity, EraseActor, RejectFillsBag, RejectDetaches,
     PerformChild, PerformSelf, ClearNext, ClearDone, UnpackItem, UnpackDone, SpawnSpectator, SpawnActor, Running
<1>3. \A cs \in SUBSET Client : stack' # Spectators(cs) /\ stack' # Append(Spectators(cs), ClearAll)
  <2> SUFFICES ASSUME NEW cs \in SUBSET Client
               PROVE  stack' # Spectators(cs) /\ stack' # Append(Spectators(cs), ClearAll)
    OBVIOUS
  <2> DEFINE s == Spectators(cs)
  <2>1. s \in Seq(Frame) /\ \A i \in DOMAIN s : s[i].op = "spectate"
    BY SpectatorsOK
  <2> HIDE DEF s
  <2>2. Len(s) \in Nat /\ DOMAIN s = 1..Len(s) /\ Append(s, ClearAll)[Len(s) + 1].op = "clear"
        /\ Len(Append(s, ClearAll)) = Len(s) + 1
    BY <2>1, FrameTypes, Pushed DEF ClearAll
  <2> QED
    BY <1>1, <2>1, <2>2 DEF s
<1>4. \A c \in Client, NoSpectator \in BOOLEAN : ~RespawnPlayer(c, NoSpectator)
  <2> SUFFICES ASSUME NEW c \in Client, NEW NoSpectator \in BOOLEAN, RespawnPlayer(c, NoSpectator)
               PROVE  FALSE
    OBVIOUS
  <2>1. PICK f \in {OnClient("spectate", c), OnClient("play", c)} :
          stack' = <<f>> \/ stack' = Append(<<f>>, OnEntity("destroy", avatar[c]))
    BY DEF RespawnPlayer
  <2>2. f.op \in {"spectate", "play"} /\ <<f>>[1] = f /\ Append(<<f>>, OnEntity("destroy", avatar[c]))[1] = f
    BY DEF OnClient
  <2> QED
    BY <1>1, <2>1, <2>2
<1>5. \A x \in live : ~Destroy(x)
  <2> SUFFICES ASSUME NEW x \in live, Destroy(x)
               PROVE  FALSE
    OBVIOUS
  <2>1. stack'[1].e = x /\ ~CarriesBag(x)
    BY DEF Destroy, OnEntity
  <2> QED
    BY <1>1, <2>1
<1>6. /\ \A p, x \in ID : ~Reject(p, x)
      /\ \A p, x \in live, c \in Client : ~Take(p, x, c) /\ ~TakeForced(p, x, c) /\ ~TakeBag(p, x, c)
      /\ \A p, x \in live : ~TransferAmmo(p, x) /\ ~SwitchOffline(x)
      /\ \A c \in Client : ~PlayerReady(c)
  BY <1>1 DEF Reject, Take, TakeForced, TakeBag, TransferAmmo, SwitchOffline, PlayerReady, OnPair, OnEntity, OnClient
<1>7. /\ ~ServerConnect
      /\ \A id \in ID \ live, k \in Kinds : ~SpawnLevel(id, k)
      /\ \A id \in ID \ live, k \in Kinds, p \in live \cup {NoID} : ~SpawnItem(id, k, p)
  BY <1>1 DEF ServerConnect, SpawnLevel, SpawnItem
<1>8. ready \in SUBSET Client
  BY DEF Ind, RestType
<1> QED
  BY <1>2, <1>3, <1>4, <1>5, <1>6, <1>7, <1>8 DEF Next, Request, SLS_Clear, OnRoundEnd

\* What the theorems below ask of a behaviour is what BagsDropped gives: the
\* runs of the module that set it are about behaviours of this kind.
THEOREM WaitingHolds ==
    ASSUME BagsDropped
    PROVE  Spec => [][BodiesWait]_vars
<1>1. Init => Ind
  BY InitInd
<1>2. Ind /\ [Next]_vars => [BodiesWait]_vars
  BY WaitsInd
<1>3. Ind /\ [Next]_vars /\ [BodiesWait]_vars => Ind'
  BY NextInd
<1> QED
  BY <1>1, <1>2, <1>3, PTL DEF Spec

\* As long as bodies are only destroyed when their bag was dropped, the map
\* and the call stack of its handlers satisfy the invariant in every state.
THEOREM InvariantHolds == Spec /\ [][BodiesWait]_vars => []IInv
<1>1. Ind => IInv
  BY IndImplies
<1> QED
  BY <1>1, Invariance, PTL

\* As long as bodies wait for their bags the map only ever holds what it is
\* declared to hold.
THEOREM TypeCorrect == Spec /\ [][BodiesWait]_vars => []TypeOK
<1>1. IInv => TypeOK
  BY DEF IInv
<1> QED
  BY <1>1, InvariantHolds, PTL

\* The destruction of a body with its bag is the only way in which a handler
\* can break what verify_entities() asserts: without it every link between
\* entities has two ends, between the handlers and in the middle of them.
THEOREM EntitiesVerified == Spec /\ [][BodiesWait]_vars => []VerifyEntities
<1>1. IInv => VerifyEntities
  BY DEF IInv
<1> QED
  BY <1>1, InvariantHolds, PTL

\* As long as bodies wait for their bags, the assertions of
\* Process_event_reject hold whenever a handler of the server calls it: what
\* fails them is a client's request that came too late, and nothing else.
THEOREM RejectsAreSafe == Spec /\ [][BodiesWait]_vars => []RejectSafe
<1>1. Ind => RejectSafe
  BY IndImplies
<1> QED
  BY <1>1, Invariance, PTL

-----------------------------------------------------------------------------
(* Players and what they play.                                             *)

\* While the part of the call stack that holds the spawns to come stays, the
\* same clients wait, and their spawns still come last.
LEMMA SpawnsStay ==
    ASSUME stack \in Seq(Frame), stack' \in Seq(Frame), NEW n \in Nat,
           n <= Len(stack), n <= Len(stack'),
           \A i \in 1..n : stack'[i] = stack[i],
           \A i \in DOMAIN stack : i > n => stack[i].op \notin OfClient,
           \A i \in DOMAIN stack' : i > n => stack'[i].op \notin OfClient
    PROVE  /\ \A c \in Client : Awaits(c)' <=> Awaits(c)
           /\ SpawnsWait /\ served' = served => SpawnsWait'
           /\ \A i \in 1..n : i \in DOMAIN stack /\ i \in DOMAIN stack'
           /\ \A i \in DOMAIN stack' : i \in 1..n \/ i \in (n + 1)..Len(stack')
<1>1. /\ Len(stack) \in Nat /\ DOMAIN stack = 1..Len(stack)
      /\ Len(stack') \in Nat /\ DOMAIN stack' = 1..Len(stack')
  OBVIOUS
<1>2. \A i \in 1..n : i \in DOMAIN stack /\ i \in DOMAIN stack'
  BY <1>1
<1>3. /\ \A i \in DOMAIN stack : i \in 1..n \/ i > n
      /\ \A i \in DOMAIN stack' : i \in 1..n \/ (i > n /\ i \in (n + 1)..Len(stack'))
  BY <1>1
<1>4. \A c \in Client : Awaits(c)' <=> Awaits(c)
  BY <1>2, <1>3 DEF Awaits
<1>5. SpawnsWait /\ served' = served => SpawnsWait'
  <2> SUFFICES ASSUME SpawnsWait, served' = served, NEW i \in DOMAIN stack', stack'[i].op \in OfClient
               PROVE  stack'[i].c \in Client /\ served /\ \A j \in 1..i : stack'[j].op \in OfClient
    BY DEF SpawnsWait
  <2>1. i \in 1..n /\ i \in DOMAIN stack /\ stack'[i] = stack[i]
    BY <1>2, <1>3
  <2>2. \A j \in 1..i : j \in 1..n
    BY <2>1
  <2> QED
    BY <2>1, <2>2 DEF SpawnsWait
<1> QED
  BY <1>2, <1>3, <1>4, <1>5

\* What is not about players changes nothing for them: a handler calls, returns
\* or moves what is carried, and what it is about to destroy is no one's
\* spectator, or was about to be destroyed before.
LEMMA HandlerKeeps ==
    ASSUME Ind, PlayersRight, UNCHANGED <<live, kind, owner, avatar, gameID, gameVars>>,
           stack' \in Seq(Frame), NEW n \in Nat, n <= Len(stack), n <= Len(stack'),
           \A i \in 1..n : stack'[i] = stack[i],
           \A i \in DOMAIN stack : i > n => stack[i].op \notin OfClient,
           \A i \in (n + 1)..Len(stack') :
               /\ stack'[i].op \notin OfClient
               /\ stack'[i].op \in {"destroy", "erase"} =>
                     \/ kind[stack'[i].e] # "spectator"
                     \/ \E k \in DOMAIN stack : stack[k].op \in {"destroy", "erase"} /\ stack[k].e = stack'[i].e
               /\ stack'[i].op \in {"perform", "clear"} =>
                     \/ GameType = "single"
                     \/ \E k \in DOMAIN stack : stack[k].op \in {"perform", "clear"}
    PROVE  PlayersRight'
<1>1. /\ stack \in Seq(Frame)
      /\ Len(stack') \in Nat /\ DOMAIN stack' = 1..Len(stack')
  BY DEF Ind, RestType
<1>2. \A i \in DOMAIN stack' : i > n => stack'[i].op \notin OfClient
  <2>1. \A i \in DOMAIN stack' : i > n => i \in (n + 1)..Len(stack')
    BY <1>1
  <2> QED
    BY <2>1
<1>3. /\ \A c \in Client : Awaits(c)' <=> Awaits(c)
      /\ SpawnsWait /\ served' = served => SpawnsWait'
      /\ \A i \in 1..n : i \in DOMAIN stack /\ i \in DOMAIN stack'
      /\ \A i \in DOMAIN stack' : i \in 1..n \/ i \in (n + 1)..Len(stack')
  BY <1>1, <1>2, SpawnsStay
<1>4. OwnedOnceServed' /\ NobodyBefore' /\ SpawnsWait'
  BY <1>3 DEF PlayersRight, OwnedOnceServed, NobodyBefore, gameVars
<1>5. AvatarsRight' /\ RoundRight'
  <2>1. AvatarsRight'
    BY <1>3 DEF PlayersRight, AvatarsRight, gameVars
  <2>2. ready \subseteq Client
    BY DEF Ind, RestType
  <2> QED
    BY <1>3, <2>1, <2>2 DEF PlayersRight, RoundRight, gameVars
<1>6. EndsRight'
  <2>1. EndsRight /\ ready \subseteq Client /\ UNCHANGED <<kind, avatar, ready>>
    BY DEF PlayersRight, gameVars, Ind, RestType
  <2> SUFFICES ASSUME NEW i \in DOMAIN stack'
               PROVE  /\ stack'[i].op \in {"destroy", "erase"} /\ kind[stack'[i].e] = "spectator" =>
                            \A c \in Client : avatar[c] = stack'[i].e => Awaits(c)
                      /\ stack'[i].op \in {"perform", "clear"} /\ GameType = "deathmatch" =>
                            \A c \in ready : Awaits(c)
    BY <1>3, <2>1 DEF EndsRight
  <2>2. CASE i \in 1..n
    BY <1>3, <2>1, <2>2 DEF EndsRight
  <2>3. CASE i \in (n + 1)..Len(stack')
    BY <2>1, <2>3 DEF EndsRight
  <2> QED
    BY <1>3, <2>2, <2>3
<1> QED
  BY <1>4, <1>5, <1>6 DEF PlayersRight

\* The call stack is empty, or has something on top that is no spawn.
LEMMA StackEnds ==
    ASSUME Ind
    PROVE  /\ Len(stack) \in Nat /\ DOMAIN stack = 1..Len(stack)
           /\ Idle => Len(stack) = 0
           /\ stack # <<>> => /\ Len(stack) \in DOMAIN stack /\ Top = stack[Len(stack)]
                              /\ Len(stack) - 1 \in Nat
                              /\ \A i \in DOMAIN stack : i > Len(stack) - 1 => i = Len(stack)
<1>1. stack \in Seq(Frame)
  BY DEF Ind, RestType
<1>2. Len(stack) \in Nat /\ DOMAIN stack = 1..Len(stack)
  BY <1>1
<1>3. Idle => Len(stack) = 0
  BY DEF Idle
<1>4. stack # <<>> => Len(stack) # 0
  BY <1>1
<1> QED
  BY <1>2, <1>3, <1>4 DEF Top

\* Things are taken, or a handler starts that is not about players.
LEMMA RequestsKeep ==
    ASSUME Ind, PlayersRight, Idle,
           UNCHANGED <<live, kind, owner, avatar, gameID, gameVars>>,
           \/ stack' = stack
           \/ \E f \in Frame : /\ stack' = <<f>>
                               /\ f.op \notin OfClient
                               /\ f.op \in {"destroy", "erase"} => kind[f.e] # "spectator"
                               /\ f.op \in {"perform", "clear"} => GameType = "single"
    PROVE  PlayersRight'
<1>1. stack \in Seq(Frame) /\ Len(stack) = 0 /\ DOMAIN stack = 1..0 /\ 0 <= Len(stack)
  BY StackEnds DEF Ind, RestType
<1>2. CASE stack' = stack
  <2>1. stack' \in Seq(Frame) /\ Len(stack') = 0 /\ 0 <= Len(stack')
    BY <1>1, <1>2
  <2> QED
    BY <1>1, <2>1, HandlerKeeps
<1>3. ASSUME NEW f \in Frame, stack' = <<f>>, f.op \notin OfClient,
             f.op \in {"destroy", "erase"} => kind[f.e] # "spectator",
             f.op \in {"perform", "clear"} => GameType = "single"
      PROVE  PlayersRight'
  <2>1. stack' \in Seq(Frame) /\ Len(stack') = 1 /\ 0 <= Len(stack') /\ stack'[1] = f
    BY <1>3
  <2>2. \A i \in (0 + 1)..Len(stack') : stack'[i] = f
    BY <2>1
  <2> QED
    BY <1>1, <1>3, <2>1, <2>2, HandlerKeeps
<1> QED
  BY <1>2, <1>3

\* An entity leaves the map: nobody else's, and a player's during a round only
\* when he is about to get another.
LEMMA DestroyKeeps ==
    ASSUME Ind, PlayersRight, NEW e \in live, entity_Destroy(e), UNCHANGED <<gameID, gameVars>>,
           stack' \in Seq(Frame), Len(stack') <= Len(stack),
           \A i \in 1..Len(stack') : stack'[i] = stack[i],
           \A i \in DOMAIN stack : i > Len(stack') => stack[i].op \notin OfClient,
           \A c \in ready : inProgress /\ owner[e] = c /\ avatar[c] = e => Awaits(c)
    PROVE  PlayersRight'
<1> DEFINE n == Len(stack')
<1>1. /\ stack \in Seq(Frame) /\ n \in Nat /\ DOMAIN stack' = 1..n /\ n <= Len(stack')
      /\ e \in ID /\ NoID \notin live /\ live \subseteq ID /\ e # NoID
      /\ owner \in [ID -> Client \cup {NoClient}] /\ kind \in [ID -> Kind \cup {NoKind}]
      /\ avatar \in [Client -> ID \cup {NoID}] /\ ready \subseteq Client
  <2>1. stack \in Seq(Frame) /\ n \in Nat /\ DOMAIN stack' = 1..n
    BY DEF Ind, RestType
  <2>2. n <= Len(stack')
    BY <2>1
  <2> QED
    BY <2>1, <2>2, IDAssumption DEF Ind, RestType, Tree, TreeType
<1>2. /\ live' = live \ {e} /\ owner' = [owner EXCEPT ![e] = NoClient] /\ kind' = [kind EXCEPT ![e] = NoKind]
      /\ avatar' = [c \in Client |-> IF c = owner[e] /\ avatar[c] = e THEN NoID ELSE avatar[c]]
      /\ UNCHANGED <<gameID, ready, served, inProgress>>
  BY DEF entity_Destroy, gameVars
<1>3. /\ \A c \in Client : Awaits(c)' <=> Awaits(c)
      /\ SpawnsWait /\ served' = served => SpawnsWait'
      /\ \A i \in 1..n : i \in DOMAIN stack
  <2>1. \A i \in DOMAIN stack' : i > n => stack'[i].op \notin OfClient
    BY <1>1
  <2> HIDE DEF n
  <2>2. n <= Len(stack) /\ (\A i \in 1..n : stack'[i] = stack[i])
        /\ \A i \in DOMAIN stack : i > n => stack[i].op \notin OfClient
    BY DEF n
  <2> QED
    BY <1>1, <2>1, <2>2, SpawnsStay
<1> HIDE DEF n
<1>4. /\ \A x \in live' : x \in live /\ x # e /\ owner'[x] = owner[x] /\ kind'[x] = kind[x]
      /\ owner'[e] = NoClient /\ \A x \in ID : x # e => owner'[x] = owner[x]
  BY <1>1, <1>2
<1>5. \A c \in Client : avatar'[c] # NoID =>
         avatar'[c] = avatar[c] /\ ~(c = owner[e] /\ avatar[c] = e)
  BY <1>1, <1>2
<1>6. OwnedOnceServed' /\ SpawnsWait'
  BY <1>2, <1>3, <1>4 DEF PlayersRight, OwnedOnceServed
<1>7. NobodyBefore'
  BY <1>2, <1>4, <1>5 DEF PlayersRight, NobodyBefore
<1>8. AvatarsRight'
  <2> SUFFICES ASSUME NEW c \in Client, avatar'[c] # NoID
               PROVE  /\ GameType = "deathmatch" => gameID'[c] = avatar'[c]
                      /\ \/ /\ avatar'[c] \in live' /\ owner'[avatar'[c]] = c
                            /\ kind'[avatar'[c]] \in {"actor", "spectator"}
                         \/ Awaits(c)'
    BY DEF AvatarsRight
  <2>1. avatar'[c] = avatar[c] /\ ~(c = owner[e] /\ avatar[c] = e)
    BY <1>5
  <2>2. GameType = "deathmatch" => gameID[c] = avatar[c]
    BY <2>1 DEF PlayersRight, AvatarsRight
  <2>3. CASE Awaits(c)
    BY <1>2, <1>3, <2>1, <2>2, <2>3
  <2>4. CASE ~Awaits(c)
    <3>1. avatar[c] \in live /\ owner[avatar[c]] = c /\ kind[avatar[c]] \in {"actor", "spectator"}
      BY <2>1, <2>4 DEF PlayersRight, AvatarsRight
    <3>2. avatar[c] \in live'
      BY <1>2, <2>1, <3>1
    <3> QED
      BY <1>2, <1>4, <2>1, <2>2, <3>1, <3>2
  <2> QED
    BY <2>3, <2>4
<1>9. RoundRight'
  <2> SUFFICES ASSUME inProgress
               PROVE  served /\ GameType = "deathmatch" /\ \A c \in ready : avatar'[c] # NoID \/ Awaits(c)'
    BY <1>2 DEF RoundRight
  <2>1. served /\ GameType = "deathmatch" /\ \A c \in ready : avatar[c] # NoID \/ Awaits(c)
    BY DEF PlayersRight, RoundRight
  <2> QED
    BY <1>1, <1>2, <1>3, <2>1
<1>10. EndsRight'
  <2> SUFFICES ASSUME NEW i \in 1..n
               PROVE  /\ stack'[i].op \in {"destroy", "erase"} /\ kind'[stack'[i].e] = "spectator" =>
                            \A c \in Client : avatar'[c] = stack'[i].e => Awaits(c)'
                      /\ stack'[i].op \in {"perform", "clear"} /\ GameType = "deathmatch" =>
                            \A c \in ready : Awaits(c)'
    BY <1>1, <1>2 DEF EndsRight
  <2>1. i \in DOMAIN stack /\ stack'[i] = stack[i] /\ (stack[i].op # "reject" => FrameOK(stack[i]))
    BY <1>3 DEF n, Ind, StackOK, FramesOK, Asked
  <2>2. stack[i].op \in {"destroy", "erase"} => stack[i].e \in live
    BY <2>1 DEF FrameOK
  <2>3. NoKind # "spectator"
    BY DEF NoKind
  <2>4. stack[i].op \in {"destroy", "erase"} /\ kind'[stack[i].e] = "spectator" => kind[stack[i].e] = "spectator"
    BY <1>1, <1>2, <2>2, <2>3
  <2> QED
    BY <1>1, <1>3, <1>5, <2>1, <2>2, <2>4 DEF PlayersRight, EndsRight
<1> QED
  BY <1>6, <1>7, <1>8, <1>9, <1>10 DEF PlayersRight

-----------------------------------------------------------------------------
(* Requests keep the players.                                              *)

\* Between handlers nobody waits, and whoever plays has what he plays.
LEMMA IdlePlayers ==
    ASSUME Ind, PlayersRight, Idle
    PROVE  /\ DOMAIN stack = {} /\ \A c \in Client : ~Awaits(c)
           /\ \A c \in Client : avatar[c] # NoID =>
                 /\ GameType = "deathmatch" => gameID[c] = avatar[c]
                 /\ avatar[c] \in live /\ owner[avatar[c]] = c /\ kind[avatar[c]] \in {"actor", "spectator"}
           /\ inProgress => served /\ GameType = "deathmatch" /\ \A c \in ready : avatar[c] # NoID
           /\ stack' = <<>> => SpawnsWait' /\ EndsRight'
<1>1. DOMAIN stack = {}
  BY DEF Idle
<1>2. \A c \in Client : ~Awaits(c)
  BY <1>1 DEF Awaits
<1>3. stack' = <<>> => SpawnsWait' /\ EndsRight'
  <2>1. stack' = <<>> => DOMAIN stack' = {}
    OBVIOUS
  <2> QED
    BY <2>1 DEF SpawnsWait, EndsRight
<1>4. ready \subseteq Client
  BY DEF Ind, RestType
<1> QED
  BY <1>1, <1>2, <1>3, <1>4 DEF PlayersRight, AvatarsRight, RoundRight

\* What an insertion leaves alone.
LEMMA InsertKeeps ==
    ASSUME Ind, NEW id \in ID \ live, NEW k, NEW p, NEW c, Insert(id, k, p, c)
    PROVE  /\ live' = live \cup {id} /\ kind'[id] = k /\ owner'[id] = c
           /\ \A x \in live : x # id /\ kind'[x] = kind[x] /\ owner'[x] = owner[x]
           /\ owner' = [owner EXCEPT ![id] = c]
BY DEF Insert, Ind, RestType, Tree, TreeType

\* SLS_Default: nobody plays yet.
LEMMA SpawnLevelKeeps ==
    ASSUME Ind, PlayersRight, NEW id \in ID \ live, NEW k \in Kinds, SpawnLevel(id, k)
    PROVE  PlayersRight'
<1>1. /\ Idle /\ ~served /\ Insert(id, k, NoID, NoClient)
      /\ k = "actor" => GameType = "single"
      /\ UNCHANGED <<avatar, gameID, ready, served, inProgress, stack>>
  BY DEF SpawnLevel, gameVars
<1>2. /\ live' = live \cup {id} /\ kind'[id] = k
      /\ \A x \in live : x # id /\ kind'[x] = kind[x]
      /\ owner' = [owner EXCEPT ![id] = NoClient]
  BY <1>1, InsertKeeps
<1>3. /\ \A e \in ID : owner[e] = NoClient
      /\ \A c \in Client : avatar[c] = NoID
      /\ ready = {} /\ ~inProgress
      /\ GameType = "deathmatch" => \A e \in live : kind[e] # "actor"
      /\ owner \in [ID -> Client \cup {NoClient}]
  BY <1>1 DEF PlayersRight, NobodyBefore, Ind, RestType
<1>4. NobodyBefore'
  <2>1. GameType = "deathmatch" => GameType # "single"
    OBVIOUS
  <2> QED
    BY <1>1, <1>2, <1>3, <2>1 DEF NobodyBefore
<1>5. OwnedOnceServed' /\ AvatarsRight' /\ RoundRight'
  BY <1>1, <1>3 DEF OwnedOnceServed, AvatarsRight, RoundRight
<1>6. SpawnsWait' /\ EndsRight'
  BY <1>1, IdlePlayers DEF Idle
<1> QED
  BY <1>4, <1>5, <1>6 DEF PlayersRight

\* The server's client comes: what the level has is his, and its actor he plays.
LEMMA ServerConnectKeeps ==
    ASSUME Ind, PlayersRight, ServerConnect
    PROVE  PlayersRight'
<1> DEFINE Actor == CHOOSE e \in live : kind[e] = "actor"
<1>1. /\ Idle /\ ~served /\ served'
      /\ owner' = [e \in ID |-> IF e \in live /\ owner[e] = NoClient THEN Server ELSE owner[e]]
      /\ avatar' = [avatar EXCEPT ![Server] = IF \E e \in live : kind[e] = "actor" THEN Actor ELSE @]
      /\ UNCHANGED <<live, kind, gameID, ready, inProgress, stack>>
  BY DEF ServerConnect, treeVars
<1>2. /\ \A e \in ID : owner[e] = NoClient
      /\ \A c \in Client : avatar[c] = NoID
      /\ ready = {} /\ ~inProgress
      /\ GameType = "deathmatch" => \A e \in live : kind[e] # "actor"
      /\ live \subseteq ID /\ avatar \in [Client -> ID \cup {NoID}]
  BY <1>1 DEF PlayersRight, NobodyBefore, Ind, RestType, Tree, TreeType
<1>3. \A e \in live : owner'[e] = Server
  BY <1>1, <1>2
<1>4. OwnedOnceServed' /\ NobodyBefore' /\ RoundRight'
  BY <1>1, <1>2, <1>3, ClientAssumption DEF OwnedOnceServed, NobodyBefore, RoundRight
<1>5. AvatarsRight'
  <2>1. (\E e \in live : kind[e] = "actor") => Actor \in live /\ kind[Actor] = "actor" /\ GameType # "deathmatch"
    BY <1>2
  <2> HIDE DEF Actor
  <2>2. \A c \in Client : avatar'[c] # NoID =>
           c = Server /\ avatar'[c] = Actor /\ \E e \in live : kind[e] = "actor"
    BY <1>1, <1>2
  <2> QED
    BY <1>1, <1>3, <2>1, <2>2 DEF AvatarsRight
<1>6. SpawnsWait' /\ EndsRight'
  BY <1>1, IdlePlayers DEF Idle
<1> QED
  BY <1>4, <1>5, <1>6 DEF PlayersRight

\* An item comes into the world.
LEMMA SpawnItemKeeps ==
    ASSUME Ind, PlayersRight, NEW id \in ID \ live, NEW k \in Kinds, NEW p \in live \cup {NoID},
           SpawnItem(id, k, p)
    PROVE  PlayersRight'
<1>1. /\ Idle /\ served /\ Insert(id, k, p, Server)
      /\ UNCHANGED <<avatar, gameID, ready, served, inProgress, stack>>
  BY DEF SpawnItem, gameVars
<1>2. /\ live' = live \cup {id} /\ owner'[id] = Server
      /\ \A x \in live : x # id /\ kind'[x] = kind[x] /\ owner'[x] = owner[x]
  BY <1>1, InsertKeeps
<1>3. OwnedOnceServed' /\ NobodyBefore'
  BY <1>1, <1>2, ClientAssumption DEF PlayersRight, OwnedOnceServed, NobodyBefore
<1>4. AvatarsRight' /\ RoundRight'
  BY <1>1, <1>2, IdlePlayers DEF AvatarsRight, RoundRight
<1>5. SpawnsWait' /\ EndsRight'
  BY <1>1, IdlePlayers DEF Idle
<1> QED
  BY <1>3, <1>4, <1>5 DEF PlayersRight

\* Only spawns are to come.
LEMMA SpawnsOnly ==
    ASSUME stack' \in Seq(Frame), served',
           \A i \in DOMAIN stack' : stack'[i].op \in OfClient /\ stack'[i].c \in Client
    PROVE  SpawnsWait' /\ EndsRight'
<1>1. DOMAIN stack' = 1..Len(stack') /\ Len(stack') \in Nat
  OBVIOUS
<1>2. \A i \in DOMAIN stack' : \A j \in 1..i : j \in DOMAIN stack'
  BY <1>1
<1>3. SpawnsWait'
  BY <1>2 DEF SpawnsWait
<1>4. EndsRight'
  BY DEF EndsRight, OfClient
<1> QED
  BY <1>3, <1>4

\* A client is ready: a spectator is spawned for him.
LEMMA PlayerReadyKeeps ==
    ASSUME Ind, PlayersRight, NEW c \in Client, PlayerReady(c)
    PROVE  PlayersRight'
<1> DEFINE f == OnClient("spectate", c)
<1>1. /\ Idle /\ served /\ ready' = ready \cup {c} /\ stack' = <<f>>
      /\ UNCHANGED <<live, kind, owner, avatar, gameID, served, inProgress>>
  BY DEF PlayerReady, treeVars
<1>2. f \in Frame /\ f.op = "spectate" /\ f.c = c
  BY FrameTypes DEF OnClient, Op
<1> HIDE DEF f
<1>3. stack' \in Seq(Frame) /\ DOMAIN stack' = {1} /\ stack'[1] = f
  BY <1>1, <1>2
<1>4. SpawnsWait' /\ EndsRight'
  BY <1>1, <1>2, <1>3, SpawnsOnly DEF OfClient
<1>5. Awaits(c)'
  BY <1>2, <1>3 DEF Awaits, OfClient
<1>6. OwnedOnceServed' /\ NobodyBefore'
  BY <1>1 DEF PlayersRight, OwnedOnceServed, NobodyBefore
<1>7. AvatarsRight' /\ RoundRight'
  BY <1>1, <1>5, IdlePlayers DEF AvatarsRight, RoundRight
<1> QED
  BY <1>4, <1>6, <1>7 DEF PlayersRight

\* A player asks for another entity: what he played is the server's, nobody else
\* loses his, and he waits for the new one.
LEMMA RespawnPlayerKeeps ==
    ASSUME Ind, PlayersRight, NEW c \in Client, NEW NoSpectator \in BOOLEAN, RespawnPlayer(c, NoSpectator)
    PROVE  PlayersRight'
<1> DEFINE e == avatar[c]
           d == OnEntity("destroy", e)
           body == IF kind[e] = "actor" THEN {gameID[c]} \cap live ELSE {}
           heir == IF kind[e] = "actor" /\ ~NoSpectator THEN body ELSE body \cup {e}
<1>1. /\ Idle /\ GameType = "deathmatch" /\ e # NoID
      /\ owner' = [x \in ID |-> IF x \in heir THEN Server ELSE owner[x]]
      /\ UNCHANGED <<live, kind, avatar, gameID, ready, served, inProgress>>
  BY DEF RespawnPlayer, treeVars, gameVars
<1>2. PICK f \in {OnClient("spectate", c), OnClient("play", c)} :
        stack' = IF kind[e] = "spectator" THEN Append(<<f>>, d) ELSE <<f>>
  BY DEF RespawnPlayer
<1>3. /\ f \in Frame /\ f.op \in OfClient /\ f.c = c
      /\ d.op = "destroy" /\ d.e = e
  BY <1>2, FrameTypes DEF Op, OnClient, OnEntity, OfClient
<1>4. /\ DOMAIN stack' \subseteq {1, 2} /\ 1 \in DOMAIN stack' /\ stack'[1] = f
      /\ 2 \in DOMAIN stack' => stack'[2] = d
  <2> HIDE DEF d
  <2> QED
    BY <1>2
<1>5. Awaits(c)'
  BY <1>3, <1>4 DEF Awaits
<1>6. served /\ e \in live /\ owner[e] = c /\ \A x \in heir : x = e
  <2>1. served
    BY <1>1 DEF PlayersRight, NobodyBefore
  <2>2. e \in live /\ owner[e] = c /\ gameID[c] = e
    BY <1>1, IdlePlayers
  <2> QED
    BY <2>1, <2>2
<1> HIDE DEF heir, body
<1>7. live \subseteq ID
  BY DEF Ind, Tree, TreeType
<1>8. OwnedOnceServed' /\ NobodyBefore'
  BY <1>1, <1>6, <1>7, ClientAssumption DEF PlayersRight, OwnedOnceServed, NobodyBefore
<1>9. AvatarsRight'
  <2> SUFFICES ASSUME NEW b \in Client, b # c, avatar[b] # NoID
               PROVE  owner'[avatar[b]] = b /\ avatar[b] \in live /\ kind[avatar[b]] \in {"actor", "spectator"}
                      /\ gameID[b] = avatar[b]
    BY <1>1, <1>5, IdlePlayers DEF AvatarsRight
  <2>1. avatar[b] \in live /\ owner[avatar[b]] = b /\ kind[avatar[b]] \in {"actor", "spectator"}
        /\ gameID[b] = avatar[b]
    BY <1>1, IdlePlayers
  <2>2. avatar[b] \notin heir
    BY <1>6, <2>1
  <2> QED
    BY <1>1, <1>7, <2>1, <2>2
<1>10. RoundRight'
  BY <1>1, IdlePlayers DEF RoundRight
<1>11. SpawnsWait'
  <2>1. \A i \in DOMAIN stack' : stack'[i].op \in OfClient => i = 1
    BY <1>3, <1>4 DEF OfClient
  <2> QED
    BY <1>1, <1>3, <1>4, <1>6, <2>1 DEF SpawnsWait
<1>12. EndsRight'
  <2>1. \A b \in Client : avatar[b] = e => b = c
    BY <1>1, <1>6, IdlePlayers
  <2>2. \A i \in DOMAIN stack' : stack'[i].op \in {"destroy", "erase", "perform", "clear"} => stack'[i] = d
    BY <1>3, <1>4 DEF OfClient
  <2> HIDE DEF d
  <2> QED
    BY <1>1, <1>3, <1>5, <2>1, <2>2 DEF EndsRight
<1> QED
  BY <1>8, <1>9, <1>10, <1>11, <1>12 DEF PlayersRight

\* The spawns that wait for a set of clients: one for each.
LEMMA SpectatorsWait ==
    ASSUME NEW S \in SUBSET Client
    PROVE  /\ Spectators(S) \in Seq(Frame)
           /\ \A i \in DOMAIN Spectators(S) : Spectators(S)[i].op \in OfClient /\ Spectators(S)[i].c \in S
           /\ \A c \in S : \E i \in DOMAIN Spectators(S) : Spectators(S)[i].op \in OfClient /\ Spectators(S)[i].c = c
<1> DEFINE cs == SetToSeq(S)
           n == Cardinality(S)
<1>1. IsFiniteSet(S)
  BY ClientAssumption, FS_Subset
<1>2. n \in Nat /\ ExistsBijection(1..n, S)
  BY <1>1, FS_CardinalityType
<1>3. \E f \in [1..n -> S] : IsInjective(f)
  BY <1>2 DEF ExistsBijection, Bijection, Injection, IsInjective
<1>4. cs \in [1..n -> S] /\ IsInjective(cs)
  BY <1>3 DEF SetToSeq
<1> HIDE DEF cs
<1>5. \A c \in S : \E i \in 1..n : cs[i] = c
  <2>1. cs \in Injection(1..n, S)
    BY <1>4 DEF Injection, IsInjective
  <2>2. Cardinality(1..n) = n
    BY <1>2, FS_Interval
  <2>3. cs \in Surjection(1..n, S)
    BY <1>1, <2>1, <2>2, FS_Injection
  <2> QED
    BY <2>3 DEF Surjection
<1> HIDE DEF n
<1>6. Spectators(S) = [i \in 1..n |-> OnClient("spectate", cs[i])]
  BY <1>4 DEF Spectators, cs
<1>7. Spectators(S) \in Seq(Frame)
  BY SpectatorsOK
<1>8. \A c : OnClient("spectate", c).op \in OfClient /\ OnClient("spectate", c).c = c
  BY DEF OnClient, OfClient
<1> QED
  BY <1>4, <1>5, <1>6, <1>7, <1>8

\* The level is cleared: everybody who is ready gets a spectator afterwards.
LEMMA SLS_ClearKeeps ==
    ASSUME Ind, PlayersRight, SLS_Clear
    PROVE  PlayersRight'
<1> DEFINE s == Spectators(ready)
<1>1. /\ Idle /\ served /\ stack' = Append(s, ClearAll) /\ inProgress' = (GameType = "deathmatch")
      /\ UNCHANGED <<live, kind, owner, avatar, gameID, ready, served>>
  BY DEF SLS_Clear, treeVars
<1>2. ready \subseteq Client
  BY DEF Ind, RestType
<1>3. /\ s \in Seq(Frame)
      /\ \A i \in DOMAIN s : s[i].op \in OfClient /\ s[i].c \in ready
      /\ \A c \in ready : \E i \in DOMAIN s : s[i].op \in OfClient /\ s[i].c = c
  BY <1>2, SpectatorsWait
<1> HIDE DEF s
<1>4. /\ Len(s) \in Nat /\ DOMAIN s = 1..Len(s) /\ DOMAIN stack' = 1..(Len(s) + 1)
      /\ \A i \in 1..Len(s) : stack'[i] = s[i]
      /\ stack'[Len(s) + 1] = ClearAll
  BY <1>1, <1>3, FrameTypes, Pushed
<1>5. ClearAll.op = "clear"
  BY DEF ClearAll
<1>6. \A c \in ready : Awaits(c)'
  BY <1>3, <1>4 DEF Awaits
<1>7. SpawnsWait'
  <2>1. \A i \in DOMAIN stack' : stack'[i].op \in OfClient => i \in 1..Len(s) /\ \A j \in 1..i : j \in 1..Len(s)
    BY <1>4, <1>5 DEF OfClient
  <2> QED
    BY <1>1, <1>2, <1>3, <1>4, <2>1 DEF SpawnsWait
<1>8. EndsRight'
  <2>1. \A i \in DOMAIN stack' : stack'[i].op \notin {"destroy", "erase"}
    BY <1>3, <1>4, <1>5 DEF OfClient
  <2> QED
    BY <1>1, <1>6, <2>1 DEF EndsRight
<1>9. OwnedOnceServed' /\ NobodyBefore' /\ RoundRight'
  BY <1>1, <1>6 DEF PlayersRight, OwnedOnceServed, NobodyBefore, RoundRight
<1>10. AvatarsRight'
  BY <1>1, IdlePlayers DEF AvatarsRight
<1> QED
  BY <1>7, <1>8, <1>9, <1>10 DEF PlayersRight

\* The round is over.
LEMMA OnRoundEndKeeps ==
    ASSUME Ind, PlayersRight, NEW cs \in SUBSET Client, OnRoundEnd(cs)
    PROVE  PlayersRight'
<1>1. /\ Idle /\ inProgress /\ ~inProgress' /\ stack' = Spectators(cs)
      /\ UNCHANGED <<live, kind, owner, avatar, gameID, ready, served>>
  BY DEF OnRoundEnd, treeVars
<1>2. served
  BY <1>1, IdlePlayers
<1>3. SpawnsWait' /\ EndsRight'
  BY <1>1, <1>2, SpectatorsWait, SpawnsOnly
<1>4. OwnedOnceServed' /\ NobodyBefore' /\ RoundRight'
  BY <1>1, <1>2 DEF PlayersRight, OwnedOnceServed, NobodyBefore, RoundRight
<1>5. AvatarsRight'
  BY <1>1, IdlePlayers DEF AvatarsRight
<1> QED
  BY <1>3, <1>4, <1>5 DEF PlayersRight

\* The requests that start a handler, or only move what is carried.
LEMMA OtherRequestsKeep ==
    ASSUME Ind, PlayersRight,
           \/ \E p, e \in live, c \in Client : Take(p, e, c) \/ TakeForced(p, e, c) \/ TakeBag(p, e, c)
           \/ \E p, e \in ID : Reject(p, e)
           \/ \E e \in live : Destroy(e) \/ SwitchOffline(e)
    PROVE  PlayersRight'
<1>1. live \subseteq ID
  BY DEF Ind, Tree, TreeType
<1>2. ASSUME NEW p \in live, NEW e \in live, NEW c \in Client, Take(p, e, c) \/ TakeForced(p, e, c)
      PROVE  PlayersRight'
  <2>1. Idle /\ UNCHANGED <<live, kind, owner, avatar, gameID, gameVars, stack>>
    BY <1>2 DEF Take, TakeForced, MayTake, Attach
  <2> QED
    BY <2>1, RequestsKeep
<1>3. ASSUME NEW p \in live, NEW e \in live, NEW c \in Client, TakeBag(p, e, c)
      PROVE  PlayersRight'
  <2>1. Idle /\ UNCHANGED <<live, kind, owner, avatar, gameID, gameVars>> /\ stack' = <<OnPair("unpack", p, e)>>
    BY <1>3 DEF TakeBag, MayTake, treeVars
  <2>2. OnPair("unpack", p, e) \in Frame /\ OnPair("unpack", p, e).op = "unpack"
    BY <1>1, FrameTypes DEF OnPair, Op
  <2> QED
    BY <2>1, <2>2, RequestsKeep DEF OfClient
<1>4. ASSUME NEW p \in ID, NEW e \in ID, Reject(p, e)
      PROVE  PlayersRight'
  <2>1. Idle /\ UNCHANGED <<live, kind, owner, avatar, gameID, gameVars>> /\ stack' = <<OnPair("reject", p, e)>>
    BY <1>4 DEF Reject, treeVars
  <2>2. OnPair("reject", p, e) \in Frame /\ OnPair("reject", p, e).op = "reject"
    BY FrameTypes DEF OnPair, Op
  <2> QED
    BY <2>1, <2>2, RequestsKeep DEF OfClient
<1>5. ASSUME NEW e \in live, Destroy(e)
      PROVE  PlayersRight'
  <2>1. Idle /\ UNCHANGED <<live, kind, owner, avatar, gameID, gameVars>> /\ stack' = <<OnEntity("destroy", e)>>
        /\ kind[e] # "spectator"
    BY <1>5 DEF Destroy, treeVars
  <2>2. OnEntity("destroy", e) \in Frame /\ OnEntity("destroy", e).op = "destroy" /\ OnEntity("destroy", e).e = e
    BY <1>1, FrameTypes DEF OnEntity, Op
  <2> QED
    BY <2>1, <2>2, RequestsKeep DEF OfClient
<1>6. ASSUME NEW e \in live, SwitchOffline(e)
      PROVE  PlayersRight'
  <2>1. Idle /\ UNCHANGED <<live, kind, owner, avatar, gameID, gameVars>> /\ stack' = <<OnEntity("perform", e)>>
        /\ GameType = "single"
    BY <1>6 DEF SwitchOffline, treeVars
  <2>2. OnEntity("perform", e) \in Frame /\ OnEntity("perform", e).op = "perform"
    BY <1>1, FrameTypes DEF OnEntity, Op
  <2> QED
    BY <2>1, <2>2, RequestsKeep DEF OfClient
<1> QED
  BY <1>2, <1>3, <1>4, <1>5, <1>6

\* A box of ammunition is used up: nobody plays one.
LEMMA TransferAmmoKeeps ==
    ASSUME Ind, PlayersRight, NEW p \in live, NEW e \in live, TransferAmmo(p, e)
    PROVE  PlayersRight'
<1>1. Idle /\ entity_Destroy(e) /\ UNCHANGED <<gameID, gameVars, stack>> /\ kind[e] = "ammo"
  BY DEF TransferAmmo
<1>2. stack \in Seq(Frame) /\ stack' \in Seq(Frame) /\ Len(stack) = 0 /\ Len(stack') = 0 /\ DOMAIN stack = {}
  BY <1>1, StackEnds, IdlePlayers DEF Ind, RestType
<1>3. \A c \in ready : avatar[c] # e
  <2>1. e # NoID /\ ready \subseteq Client
    BY IDAssumption DEF Ind, RestType, Tree, TreeType
  <2> QED
    BY <1>1, <2>1, IdlePlayers
<1>4. Len(stack') <= Len(stack) /\ \A i \in 1..Len(stack') : FALSE
  BY <1>2
<1> QED
  BY <1>1, <1>2, <1>3, <1>4, DestroyKeeps

-----------------------------------------------------------------------------
(* Steps keep the players.                                                 *)

\* A handler returns, or another takes its place.
LEMMA ReturnKeeps ==
    ASSUME Ind, PlayersRight, UNCHANGED <<live, kind, owner, avatar, gameID, gameVars>>,
           stack # <<>>, Top.op \notin OfClient,
           \/ stack' = Callers
           \/ \E f \in Frame : /\ stack' = Append(Callers, f)
                               /\ f.op \notin OfClient \cup {"perform", "clear"}
                               /\ f.op \in {"destroy", "erase"} =>
                                     kind[f.e] # "spectator" \/ (Top.op \in {"destroy", "erase"} /\ Top.e = f.e)
    PROVE  PlayersRight'
<1>1. /\ stack \in Seq(Frame) /\ Len(stack) \in Nat \ {0} /\ DOMAIN stack = 1..Len(stack)
      /\ Len(stack) \in DOMAIN stack /\ Top = stack[Len(stack)]
      /\ Callers \in Seq(Frame) /\ Len(Callers) = Len(stack) - 1
      /\ \A i \in 1..(Len(stack) - 1) : Callers[i] = stack[i]
  BY TopAndCallers DEF Ind, RestType, Top
<1> DEFINE n == Len(stack) - 1
<1>2. n \in Nat /\ n <= Len(stack) /\ \A i \in DOMAIN stack : i > n => i = Len(stack)
  BY <1>1
<1>3. CASE stack' = Callers
  <2>1. stack' \in Seq(Frame) /\ Len(stack') = n /\ \A i \in 1..n : stack'[i] = stack[i]
    BY <1>1, <1>3
  <2> HIDE DEF n
  <2>2. n <= Len(stack') /\ \A i \in (n + 1)..Len(stack') : FALSE
    BY <1>2, <2>1
  <2> QED
    BY <1>1, <1>2, <2>1, <2>2, HandlerKeeps
<1>4. ASSUME NEW f \in Frame, stack' = Append(Callers, f),
             f.op \notin OfClient \cup {"perform", "clear"},
             f.op \in {"destroy", "erase"} =>
                kind[f.e] # "spectator" \/ (Top.op \in {"destroy", "erase"} /\ Top.e = f.e)
      PROVE  PlayersRight'
  <2> DEFINE s == Callers
  <2>0. s \in Seq(Frame) /\ Len(s) = n /\ stack' = Append(s, f) /\ \A i \in 1..n : s[i] = stack[i]
    BY <1>1, <1>4
  <2> HIDE DEF n, s
  <2>1. /\ stack' \in Seq(Frame) /\ Len(stack') = n + 1
        /\ \A i \in 1..n : stack'[i] = stack[i]
        /\ stack'[n + 1] = f
    BY <1>2, <1>4, <2>0, Pushed
  <2>2. n <= Len(stack') /\ \A i \in (n + 1)..Len(stack') : stack'[i] = f
    BY <1>2, <2>1
  <2> QED
    BY <1>1, <1>2, <1>4, <2>1, <2>2, HandlerKeeps
<1> QED
  BY <1>3, <1>4

\* A handler calls another.
LEMMA CallKeeps ==
    ASSUME Ind, PlayersRight, UNCHANGED <<live, kind, owner, avatar, gameID, gameVars>>,
           NEW f \in Frame, stack' = Append(stack, f), f.op \notin OfClient,
           f.op \in {"destroy", "erase"} => kind[f.e] # "spectator",
           f.op \in {"perform", "clear"} => stack # <<>> /\ Top.op \in {"perform", "clear"}
    PROVE  PlayersRight'
<1> DEFINE n == Len(stack)
<1>1. /\ stack \in Seq(Frame) /\ n \in Nat /\ n <= Len(stack) /\ \A i \in DOMAIN stack : ~(i > n)
      /\ stack # <<>> => n \in DOMAIN stack /\ Top = stack[n]
  <2>1. stack \in Seq(Frame)
    BY DEF Ind, RestType
  <2> QED
    BY <2>1, StackEnds
<1>2. /\ stack' \in Seq(Frame) /\ Len(stack') = n + 1 /\ n <= Len(stack')
      /\ \A i \in 1..n : stack'[i] = stack[i]
      /\ stack'[n + 1] = f
  BY <1>1, Pushed
<1>3. \A i \in (n + 1)..Len(stack') : stack'[i] = f
  BY <1>1, <1>2
<1> HIDE DEF n
<1> QED
  BY <1>1, <1>2, <1>3, HandlerKeeps

\* An entity's child is destroyed first: nobody carries a spectator.
LEMMA DestroyChildKeeps ==
    ASSUME Ind, PlayersRight, DestroyChild
    PROVE  PlayersRight'
<1> DEFINE t == Head(children[Top.e])
<1>1. /\ stack # <<>> /\ Top.op = "destroy" /\ children[Top.e] # <<>>
      /\ stack' = Append(stack, OnEntity("destroy", t))
      /\ UNCHANGED <<live, kind, owner, avatar, gameID, gameVars>>
  BY DEF DestroyChild, Running, treeVars
<1>2. Top.e \in live /\ Top.e \in ID
  BY <1>1, TopOK DEF OnTree
<1>3. t \in ID /\ kind[t] # "spectator"
  <2>1. children[Top.e] \in Seq(ID)
    BY <1>2 DEF Ind, Tree, TreeType
  <2>2. t \in Elems(children[Top.e])
    BY <1>1, <2>1, EndsOfList
  <2>3. t \in ID /\ <<kind[Top.e], kind[t]>> \in Holds
    BY <1>2, <2>2, ChildOK DEF Ind
  <2> QED
    BY <2>3, HoldsFacts
<1>4. OnEntity("destroy", t) \in Frame /\ OnEntity("destroy", t).op = "destroy" /\ OnEntity("destroy", t).e = t
  BY <1>3, FrameTypes DEF OnEntity, Op
<1> HIDE DEF t
<1> QED
  BY <1>1, <1>3, <1>4, CallKeeps DEF OfClient

\* The end of a destruction: the rejection and the erasure.
LEMMA DestroySelfKeeps ==
    ASSUME Ind, PlayersRight, DestroySelf
    PROVE  PlayersRight'
<1> DEFINE e == Top.e
           f == OnEntity("erase", e)
           g == OnPair("reject", parent[e], e)
           n == Len(stack) - 1
<1>1. /\ stack # <<>> /\ Top.op = "destroy"
      /\ stack' = IF parent[e] = NoID THEN Append(Callers, f) ELSE Append(Append(Callers, f), g)
      /\ UNCHANGED <<live, kind, owner, avatar, gameID, gameVars>>
  BY DEF DestroySelf, Running, treeVars
<1>2. e \in live /\ e \in ID
  BY <1>1, TopOK DEF OnTree
<1>3. f \in Frame /\ f.op = "erase" /\ f.e = e
  BY <1>2, FrameTypes DEF OnEntity, Op
<1>4. CASE parent[e] = NoID
  <2> HIDE DEF f
  <2> QED
    BY <1>1, <1>3, <1>4, ReturnKeeps DEF OfClient
<1>5. CASE parent[e] # NoID
  <2>1. parent[e] \in ID
    BY <1>2, <1>5 DEF Ind, Tree, TreeType
  <2>2. g \in Frame /\ g.op = "reject"
    BY <1>2, <2>1, FrameTypes DEF OnPair, Op
  <2> HIDE DEF f, g
  <2>3. /\ stack \in Seq(Frame) /\ Len(stack) \in Nat \ {0} /\ DOMAIN stack = 1..Len(stack)
        /\ Len(stack) \in DOMAIN stack /\ Top = stack[Len(stack)]
        /\ Callers \in Seq(Frame) /\ Len(Callers) = Len(stack) - 1
        /\ \A i \in 1..(Len(stack) - 1) : Callers[i] = stack[i]
    BY <1>1, TopAndCallers DEF Ind, RestType, Top
  <2>4. n \in Nat /\ n <= Len(stack) /\ \A i \in DOMAIN stack : i > n => i = Len(stack)
    BY <2>3
  <2> DEFINE r == Callers
             s == Append(r, f)
  <2>0. r \in Seq(Frame) /\ Len(r) = n /\ \A i \in 1..n : r[i] = stack[i]
    BY <2>3
  <2> HIDE DEF n, r
  <2>5. /\ s \in Seq(Frame) /\ Len(s) = n + 1
        /\ \A i \in 1..n : s[i] = stack[i]
        /\ s[n + 1] = f
    BY <1>3, <2>0, <2>4, Pushed
  <2>6. stack' = Append(s, g)
    BY <1>1, <1>5 DEF r
  <2> HIDE DEF s
  <2>7. /\ stack' \in Seq(Frame) /\ Len(stack') = (n + 1) + 1
        /\ \A i \in 1..(n + 1) : stack'[i] = s[i]
        /\ stack'[(n + 1) + 1] = g
    BY <2>2, <2>4, <2>5, <2>6, Pushed
  <2>8. /\ n <= Len(stack') /\ \A i \in 1..n : stack'[i] = stack[i]
        /\ \A i \in (n + 1)..Len(stack') : stack'[i] = f \/ stack'[i] = g
    BY <2>4, <2>5, <2>7
  <2>9. \A i \in DOMAIN stack : i > n => stack[i].op \notin OfClient
    BY <1>1, <2>3, <2>4 DEF OfClient
  <2>10. \E k \in DOMAIN stack : stack[k].op \in {"destroy", "erase"} /\ stack[k].e = f.e
    BY <1>1, <1>3, <2>3
  <2>11. /\ f.op = "erase" /\ f.op \notin OfClient /\ g.op \notin OfClient
         /\ g.op \notin {"destroy", "erase", "perform", "clear"}
    BY <1>3, <2>2 DEF OfClient
  <2>12. \A i \in (n + 1)..Len(stack') :
            /\ stack'[i].op \notin OfClient
            /\ stack'[i].op \in {"destroy", "erase"} =>
                  \E k \in DOMAIN stack : stack[k].op \in {"destroy", "erase"} /\ stack[k].e = stack'[i].e
            /\ stack'[i].op \notin {"perform", "clear"}
    BY <2>8, <2>10, <2>11
  <2>13. n \in Nat /\ n <= Len(stack) /\ n <= Len(stack') /\ stack' \in Seq(Frame)
         /\ \A i \in 1..n : stack'[i] = stack[i]
    BY <2>4, <2>7, <2>8
  <2> QED
    BY <1>1, <2>9, <2>12, <2>13, HandlerKeeps
<1> QED
  BY <1>4, <1>5

\* The entity on top of the stack is deleted and its handler returns.
LEMMA EraseKeeps ==
    ASSUME Ind, PlayersRight, stack # <<>>, Top.op \in {"erase", "perform"},
           entity_Destroy(Top.e), stack' = Callers, UNCHANGED <<gameID, gameVars>>,
           \A c \in ready : inProgress /\ owner[Top.e] = c /\ avatar[c] = Top.e => Awaits(c)
    PROVE  PlayersRight'
<1>1. /\ Len(stack) \in Nat \ {0} /\ DOMAIN stack = 1..Len(stack) /\ Top = stack[Len(stack)]
      /\ Callers \in Seq(Frame) /\ Len(Callers) = Len(stack) - 1
      /\ \A i \in 1..(Len(stack) - 1) : Callers[i] = stack[i]
  BY TopAndCallers DEF Ind, RestType, Top
<1>2. Top.e \in live
  BY TopOK DEF OnTree
<1>3. /\ Len(stack') = Len(stack) - 1 /\ Len(stack') <= Len(stack)
      /\ \A i \in 1..Len(stack') : stack'[i] = stack[i]
      /\ \A i \in DOMAIN stack : i > Len(stack') => i = Len(stack)
  BY <1>1
<1> QED
  BY <1>1, <1>2, <1>3, DestroyKeeps DEF OfClient

\* The tail of Process_event_destroy.  A player of a round whose actor it is gets
\* a spectator instead (EraseActor), and his spectator is only destroyed when
\* he waits for something else.
LEMMA EraseEntityKeeps ==
    ASSUME Ind, PlayersRight, EraseEntity
    PROVE  PlayersRight'
<1> DEFINE e == Top.e
<1>1. /\ stack # <<>> /\ Top.op = "erase" /\ ~SpawnsSpectator(e) /\ entity_Destroy(e) /\ stack' = Callers
      /\ UNCHANGED <<gameID, gameVars>>
  BY DEF EraseEntity, Running
<1>2. Len(stack) \in DOMAIN stack /\ Top = stack[Len(stack)] /\ e \in live /\ e # NoID /\ ready \subseteq Client
  BY <1>1, StackEnds, TopOK DEF OnTree, Ind, RestType
<1>3. ASSUME NEW c \in ready, inProgress, owner[e] = c, avatar[c] = e, ~Awaits(c)
      PROVE  FALSE
  <2>1. GameType = "deathmatch"
    BY <1>3 DEF PlayersRight, RoundRight
  <2>2. kind[e] \in {"actor", "spectator"} /\ gameID[c] = e
    BY <1>2, <1>3, <2>1 DEF PlayersRight, AvatarsRight
  <2>3. kind[e] # "actor"
    BY <1>1, <1>3, <2>1, <2>2 DEF SpawnsSpectator
  <2>4. kind[e] # "spectator"
    BY <1>1, <1>2, <1>3 DEF PlayersRight, EndsRight
  <2> QED
    BY <2>2, <2>3, <2>4
<1> QED
  BY <1>1, <1>3, EraseKeeps

\* Perform_destroy, at the end of a level: everybody waits for a spectator.
LEMMA PerformSelfKeeps ==
    ASSUME Ind, PlayersRight, PerformSelf
    PROVE  PlayersRight'
<1>1. /\ stack # <<>> /\ Top.op = "perform" /\ entity_Destroy(Top.e) /\ stack' = Callers
      /\ UNCHANGED <<gameID, gameVars>>
  BY DEF PerformSelf, Running
<1>2. Len(stack) \in DOMAIN stack /\ Top = stack[Len(stack)]
  BY <1>1, StackEnds
<1>3. \A c \in ready : inProgress => Awaits(c)
  BY <1>1, <1>2 DEF PlayersRight, EndsRight, RoundRight
<1> QED
  BY <1>1, <1>3, EraseKeeps

\* A player's actor is destroyed under him, and a spectator takes its place.
LEMMA EraseActorKeeps ==
    ASSUME Ind, PlayersRight, NEW id \in ID \ live, EraseActor(id)
    PROVE  PlayersRight'
<1> DEFINE e == Top.e
           b == owner[e]
           n == Len(stack) - 1
<1>1. /\ stack # <<>> /\ Top.op = "erase" /\ SpawnsSpectator(e) /\ stack' = Callers
      /\ live' = (live \cup {id}) \ {e}
      /\ kind' = [kind EXCEPT ![id] = "spectator", ![e] = NoKind]
      /\ owner' = [owner EXCEPT ![id] = b, ![e] = NoClient]
      /\ avatar' = [avatar EXCEPT ![b] = id]
      /\ gameID' = [gameID EXCEPT ![b] = id]
      /\ UNCHANGED <<ready, served, inProgress>>
  BY DEF EraseActor, Running, gameVars
<1>2. /\ e \in live /\ e \in ID /\ e # id /\ id # NoID /\ live \subseteq ID
      /\ owner \in [ID -> Client \cup {NoClient}] /\ kind \in [ID -> Kind \cup {NoKind}]
      /\ avatar \in [Client -> ID \cup {NoID}] /\ gameID \in [Client -> ID \cup {NoID}] /\ ready \subseteq Client
      /\ stack \in Seq(Frame)
  BY <1>1, TopOK, IDAssumption DEF OnTree, Ind, RestType, Tree, TreeType
<1>3. served /\ inProgress /\ GameType = "deathmatch" /\ b \in Client /\ b # NoClient
  BY <1>1, <1>2, ClientAssumption DEF SpawnsSpectator, PlayersRight, RoundRight, OwnedOnceServed
<1>4. /\ \A x \in live' : \/ x = id /\ owner'[x] = b /\ kind'[x] = "spectator"
                          \/ x \in live /\ x # e /\ x # id /\ owner'[x] = owner[x] /\ kind'[x] = kind[x]
      /\ id \in live' /\ owner'[id] = b /\ kind'[id] = "spectator"
      /\ \A x \in live : x # e => x \in live' /\ x # id /\ owner'[x] = owner[x] /\ kind'[x] = kind[x]
      /\ kind'[e] = NoKind
  <2> HIDE DEF e, b
  <2>1. \A x \in ID : /\ owner'[x] = IF x = e THEN NoClient ELSE IF x = id THEN b ELSE owner[x]
                     /\ kind'[x] = IF x = e THEN NoKind ELSE IF x = id THEN "spectator" ELSE kind[x]
    BY <1>1, <1>2
  <2>2. live' = (live \cup {id}) \ {e}
    BY <1>1
  <2>3. id \notin live /\ e # id /\ id \in ID /\ live \subseteq ID /\ e \in ID
    BY <1>2
  <2>4. \A x : x \in live' <=> x # e /\ (x \in live \/ x = id)
    BY <2>2
  <2>5. \A x \in live' : x \in ID /\ x # e /\ ((x \in live /\ x # id) \/ x = id)
    BY <2>3, <2>4
  <2>6. \A x \in live' : \/ x = id /\ owner'[x] = b /\ kind'[x] = "spectator"
                         \/ x \in live /\ x # e /\ x # id /\ owner'[x] = owner[x] /\ kind'[x] = kind[x]
    BY <2>1, <2>5
  <2>7. id \in live' /\ \A x \in live : x # e => x \in live' /\ x # id
    BY <2>3, <2>4
  <2>8. \A x \in live : x # e => owner'[x] = owner[x] /\ kind'[x] = kind[x]
    BY <2>1, <2>3
  <2>9. owner'[id] = b /\ kind'[id] = "spectator" /\ kind'[e] = NoKind
    BY <2>1, <2>3
  <2> QED
    BY <2>6, <2>7, <2>8, <2>9
<1>5. /\ avatar'[b] = id /\ gameID'[b] = id
      /\ \A c \in Client : c # b => avatar'[c] = avatar[c] /\ gameID'[c] = gameID[c]
  BY <1>1, <1>2, <1>3
<1>6. /\ n \in Nat /\ n <= Len(stack) /\ n <= Len(stack') /\ Len(stack') = n /\ stack' \in Seq(Frame)
      /\ \A i \in 1..n : stack'[i] = stack[i]
      /\ \A i \in DOMAIN stack : i > n => stack[i] = Top
      /\ DOMAIN stack' = 1..n /\ \A i \in DOMAIN stack' : ~(i > n)
  <2>1. /\ Len(stack) \in Nat \ {0} /\ DOMAIN stack = 1..Len(stack) /\ Top = stack[Len(stack)]
        /\ Callers \in Seq(Frame) /\ Len(Callers) = Len(stack) - 1
        /\ DOMAIN Callers = 1..(Len(stack) - 1)
        /\ \A i \in 1..(Len(stack) - 1) : Callers[i] = stack[i]
    BY <1>1, <1>2, TopAndCallers DEF Top
  <2> QED
    BY <1>1, <2>1
<1> HIDE DEF n
<1>7. /\ \A c \in Client : Awaits(c)' <=> Awaits(c)
      /\ SpawnsWait /\ served' = served => SpawnsWait'
      /\ \A i \in 1..n : i \in DOMAIN stack
  BY <1>1, <1>2, <1>6, SpawnsStay DEF OfClient
<1>8. OwnedOnceServed' /\ NobodyBefore' /\ SpawnsWait'
  BY <1>1, <1>3, <1>4, <1>7 DEF PlayersRight, OwnedOnceServed, NobodyBefore
<1>9. AvatarsRight'
  <2> SUFFICES ASSUME NEW c \in Client, c # b, avatar[c] # NoID, ~Awaits(c)
               PROVE  /\ gameID'[c] = avatar'[c] /\ avatar'[c] \in live' /\ owner'[avatar'[c]] = c
                      /\ kind'[avatar'[c]] \in {"actor", "spectator"}
    BY <1>3, <1>4, <1>5, <1>7 DEF PlayersRight, AvatarsRight
  <2>1. /\ avatar[c] \in live /\ owner[avatar[c]] = c /\ kind[avatar[c]] \in {"actor", "spectator"}
        /\ gameID[c] = avatar[c]
    BY <1>3 DEF PlayersRight, AvatarsRight
  <2>2. avatar[c] # e
    BY <2>1
  <2> QED
    BY <1>4, <1>5, <2>1, <2>2
<1>10. RoundRight'
  BY <1>1, <1>2, <1>3, <1>5, <1>7 DEF PlayersRight, RoundRight
<1>11. EndsRight'
  <2> SUFFICES ASSUME NEW i \in 1..n
               PROVE  /\ stack'[i].op \in {"destroy", "erase"} /\ kind'[stack'[i].e] = "spectator" =>
                            \A c \in Client : avatar'[c] = stack'[i].e => Awaits(c)'
                      /\ stack'[i].op \in {"perform", "clear"} /\ GameType = "deathmatch" =>
                            \A c \in ready : Awaits(c)'
    BY <1>1, <1>6 DEF EndsRight
  <2>1. i \in DOMAIN stack /\ stack'[i] = stack[i] /\ (stack[i].op # "reject" => FrameOK(stack[i]))
    BY <1>6, <1>7 DEF Ind, StackOK, FramesOK, Asked
  <2>2. stack[i].op \in {"destroy", "erase"} => stack[i].e \in live /\ stack[i].e # id
    BY <2>1 DEF FrameOK
  <2>3. stack[i].op \in {"destroy", "erase"} /\ kind'[stack[i].e] = "spectator" => kind[stack[i].e] = "spectator"
    BY <1>2, <1>4, <2>2 DEF NoKind
  <2> QED
    BY <1>2, <1>5, <1>7, <2>1, <2>2, <2>3 DEF PlayersRight, EndsRight
<1> QED
  BY <1>8, <1>9, <1>10, <1>11 DEF PlayersRight

\* What is carried is moved, dropped or rejected on the way.
LEMMA MovesKeep ==
    ASSUME Ind, PlayersRight, RejectFillsBag \/ RejectDetaches \/ UnpackItem \/ UnpackDone
    PROVE  PlayersRight'
<1>1. /\ stack # <<>> /\ Top.op \in {"reject", "unpack"} /\ Top.op \notin OfClient /\ Top.e \in ID
      /\ UNCHANGED <<live, kind, owner, avatar, gameID, gameVars>>
  <2>1. /\ stack # <<>> /\ Top.op \in {"reject", "unpack"}
        /\ UNCHANGED <<live, kind, owner, avatar, gameID, gameVars>>
    BY DEF RejectFillsBag, RejectDetaches, UnpackItem, UnpackDone, Running, Perform_transfer, treeVars
  <2> QED
    BY <2>1, TopOK DEF OfClient
<1>2. CASE RejectDetaches
  <2>1. stack' = Callers
    BY <1>2 DEF RejectDetaches
  <2> QED
    BY <1>1, <2>1, ReturnKeeps
<1>3. CASE UnpackDone
  <2>1. stack' = Append(Callers, OnEntity("destroy", Top.e)) /\ Top.op = "unpack"
    BY <1>3 DEF UnpackDone, Running
  <2>2. kind[Top.e] = "bag"
    BY <1>1, <2>1, TopOK DEF FrameOK
  <2>3. /\ OnEntity("destroy", Top.e) \in Frame /\ OnEntity("destroy", Top.e).op = "destroy"
        /\ OnEntity("destroy", Top.e).e = Top.e
    BY <1>1, FrameTypes DEF OnEntity, Op
  <2> QED
    BY <1>1, <2>1, <2>2, <2>3, ReturnKeeps DEF OfClient
<1>4. CASE stack' = stack
  <2>1. /\ stack' \in Seq(Frame) /\ Len(stack) \in Nat /\ Len(stack) <= Len(stack) /\ Len(stack) <= Len(stack')
        /\ \A i \in DOMAIN stack : ~(i > Len(stack))
        /\ \A i \in (Len(stack) + 1)..Len(stack') : FALSE
    BY <1>4, StackEnds DEF Ind, RestType
  <2> QED
    BY <1>1, <1>4, <2>1, HandlerKeeps
<1>5. ASSUME UnpackItem, stack' # stack
      PROVE  PlayersRight'
  <2> DEFINE t == Last(children[Top.e])
             f == OnPair("reject", Top.e, t)
  <2>1. stack' = Append(stack, f) /\ children[Top.e] # <<>>
    BY <1>5 DEF UnpackItem
  <2>2. t \in ID
    <3>1. children[Top.e] \in Seq(ID)
      BY <1>1 DEF Ind, Tree, TreeType
    <3> QED
      BY <2>1, <3>1, EndsOfList
  <2>3. f \in Frame /\ f.op = "reject"
    BY <1>1, <2>2, FrameTypes DEF OnPair, Op
  <2> HIDE DEF f
  <2> QED
    BY <1>1, <2>1, <2>3, CallKeeps DEF OfClient
<1>6. RejectFillsBag => stack' = stack
  BY DEF RejectFillsBag
<1> QED
  BY <1>2, <1>3, <1>4, <1>5, <1>6

\* SLS_Clear's loop.
LEMMA ClearsKeep ==
    ASSUME Ind, PlayersRight, PerformChild \/ ClearNext \/ ClearDone
    PROVE  PlayersRight'
<1>1. /\ stack # <<>> /\ Top.op \in {"perform", "clear"} /\ Top.op \notin OfClient
      /\ UNCHANGED <<live, kind, owner, avatar, gameID, gameVars>>
      /\ live \subseteq ID
  BY DEF PerformChild, ClearNext, ClearDone, Running, treeVars, OfClient, Ind, Tree, TreeType
<1>2. CASE ClearDone
  BY <1>1, <1>2, ReturnKeeps DEF ClearDone
<1>3. CASE ClearNext
  <2>1. PICK e \in live : stack' = Append(stack, OnEntity("perform", e))
    BY <1>3 DEF ClearNext
  <2>2. OnEntity("perform", e) \in Frame /\ OnEntity("perform", e).op = "perform"
    BY <1>1, FrameTypes DEF OnEntity, Op
  <2> QED
    BY <1>1, <2>1, <2>2, CallKeeps DEF OfClient
<1>4. CASE PerformChild
  <2> DEFINE t == Last(children[Top.e])
             f == OnEntity("perform", t)
             g == OnPair("reject", Top.e, t)
             n == Len(stack)
  <2>1. stack' = Append(Append(stack, f), g) /\ Top.op = "perform" /\ children[Top.e] # <<>>
    BY <1>4 DEF PerformChild, Running
  <2>2. Top.e \in ID /\ t \in ID
    <3>1. Top.e \in ID
      BY <1>1, <2>1, TopOK DEF OnTree
    <3>2. children[Top.e] \in Seq(ID)
      BY <3>1 DEF Ind, Tree, TreeType
    <3> QED
      BY <2>1, <3>1, <3>2, EndsOfList
  <2>3. f \in Frame /\ f.op = "perform" /\ g \in Frame /\ g.op = "reject"
    BY <2>2, FrameTypes DEF OnEntity, OnPair, Op
  <2> HIDE DEF f, g
  <2>4. stack \in Seq(Frame) /\ n \in Nat /\ n <= Len(stack) /\ (\A i \in DOMAIN stack : ~(i > n))
        /\ n \in DOMAIN stack /\ Top = stack[n]
    <3>1. stack \in Seq(Frame)
      BY DEF Ind, RestType
    <3> QED
      BY <1>1, <3>1, StackEnds
  <2> DEFINE s == Append(stack, f)
  <2>5. /\ s \in Seq(Frame) /\ Len(s) = n + 1
        /\ \A i \in 1..n : s[i] = stack[i]
        /\ s[n + 1] = f
    BY <2>3, <2>4, Pushed
  <2>6. stack' = Append(s, g)
    BY <2>1
  <2> HIDE DEF s
  <2>7. /\ stack' \in Seq(Frame) /\ Len(stack') = (n + 1) + 1
        /\ \A i \in 1..(n + 1) : stack'[i] = s[i]
        /\ stack'[(n + 1) + 1] = g
    BY <2>3, <2>4, <2>5, <2>6, Pushed
  <2>8. /\ n <= Len(stack') /\ \A i \in 1..n : stack'[i] = stack[i]
        /\ \A i \in (n + 1)..Len(stack') : stack'[i] = f \/ stack'[i] = g
    BY <2>4, <2>5, <2>7
  <2> HIDE DEF n
  <2> QED
    BY <1>1, <2>3, <2>4, <2>7, <2>8, HandlerKeeps DEF OfClient
<1> QED
  BY <1>2, <1>3, <1>4

\* Spawns that are to come are served from the top of the stack down.  Below the
\* one that is served are only others, and when it is done its client has what he
\* waited for.
LEMMA SpawnReturns ==
    ASSUME Ind, PlayersRight, stack # <<>>, Top.op \in OfClient, stack' = Callers, served' = served
    PROVE  /\ Top.c \in Client /\ served
           /\ \A d \in Client : d # Top.c => (Awaits(d)' <=> Awaits(d))
           /\ SpawnsWait' /\ EndsRight'
<1> DEFINE n == Len(stack)
<1>1. /\ n \in Nat \ {0} /\ n - 1 \in Nat /\ DOMAIN stack = 1..n /\ Top = stack[n]
      /\ stack' \in Seq(Frame) /\ Len(stack') = n - 1 /\ DOMAIN stack' = 1..(n - 1)
      /\ \A i \in 1..(n - 1) : stack'[i] = stack[i]
  <2>1. /\ Len(stack) \in Nat \ {0} /\ DOMAIN stack = 1..Len(stack) /\ Top = stack[Len(stack)]
        /\ Callers \in Seq(Frame) /\ Len(Callers) = Len(stack) - 1
        /\ DOMAIN Callers = 1..(Len(stack) - 1)
        /\ \A i \in 1..(Len(stack) - 1) : Callers[i] = stack[i]
    BY TopAndCallers DEF Ind, RestType, Top
  <2> QED
    BY <2>1
<1> HIDE DEF n
<1>2. /\ n \in DOMAIN stack
      /\ \A i \in 1..n : i \in 1..(n - 1) \/ i = n
      /\ \A i \in 1..(n - 1) : i \in 1..n
  BY <1>1
<1>3. SpawnsWait
  BY DEF PlayersRight
<1>4. Top.c \in Client /\ served /\ \A i \in 1..n : stack[i].op \in OfClient
  BY <1>1, <1>2, <1>3 DEF SpawnsWait
<1>5. \A i \in DOMAIN stack' : stack'[i].op \in OfClient /\ stack'[i].c \in Client
  BY <1>1, <1>2, <1>3, <1>4 DEF SpawnsWait
<1>6. SpawnsWait' /\ EndsRight'
  BY <1>1, <1>4, <1>5, SpawnsOnly
<1>7. \A d \in Client : d # Top.c => (Awaits(d)' <=> Awaits(d))
  BY <1>1, <1>2 DEF Awaits
<1> QED
  BY <1>4, <1>6, <1>7

\* A client gets the entity he waited for: his is live and his own, and what is
\* spawned with it is the server's and nobody's to play.
LEMMA SpawnKeeps ==
    ASSUME Ind, PlayersRight, stack # <<>>, Top.op \in OfClient, stack' = Callers,
           UNCHANGED gameVars, NEW id \in ID \ live, NEW k \in {"actor", "spectator"},
           avatar' = [avatar EXCEPT ![Top.c] = id], gameID' = [gameID EXCEPT ![Top.c] = id],
           live \subseteq live', id \in live', owner'[id] = Top.c, kind'[id] = k,
           \A x \in live : owner'[x] = owner[x] /\ kind'[x] = kind[x],
           \A x \in live' \ live : x # id => owner'[x] = Server
    PROVE  PlayersRight'
<1> DEFINE c == Top.c
<1>1. /\ c \in Client /\ served
      /\ \A d \in Client : d # c => (Awaits(d)' <=> Awaits(d))
      /\ SpawnsWait' /\ EndsRight'
  BY SpawnReturns DEF gameVars
<1>2. UNCHANGED <<ready, served, inProgress>>
  BY DEF gameVars
<1>3. /\ avatar \in [Client -> ID \cup {NoID}] /\ gameID \in [Client -> ID \cup {NoID}]
      /\ ready \subseteq Client /\ id # NoID
  BY IDAssumption DEF Ind, RestType
<1>4. /\ avatar'[c] = id /\ gameID'[c] = id
      /\ \A d \in Client : d # c => avatar'[d] = avatar[d] /\ gameID'[d] = gameID[d]
  BY <1>1, <1>3
<1> HIDE DEF c
<1>5. OwnedOnceServed' /\ NobodyBefore'
  <2>1. \A x \in live : owner[x] # NoClient
    BY <1>1 DEF PlayersRight, OwnedOnceServed
  <2>2. owner'[id] \in Client
    BY <1>1 DEF c
  <2>3. \A x \in live' : owner'[x] # NoClient
    BY <2>1, <2>2, ClientAssumption
  <2> QED
    BY <1>1, <1>2, <2>3 DEF OwnedOnceServed, NobodyBefore
<1>6. AvatarsRight'
  <2> SUFFICES ASSUME NEW d \in Client, avatar'[d] # NoID
               PROVE  /\ GameType = "deathmatch" => gameID'[d] = avatar'[d]
                      /\ \/ avatar'[d] \in live' /\ owner'[avatar'[d]] = d /\ kind'[avatar'[d]] \in {"actor", "spectator"}
                         \/ Awaits(d)'
    BY DEF AvatarsRight
  <2>1. CASE d = c
    BY <1>4, <2>1 DEF c
  <2>2. CASE d # c
    <3>1. avatar'[d] = avatar[d] /\ gameID'[d] = gameID[d] /\ (Awaits(d)' <=> Awaits(d))
      BY <1>1, <1>4, <2>2
    <3>2. /\ GameType = "deathmatch" => gameID[d] = avatar[d]
          /\ \/ avatar[d] \in live /\ owner[avatar[d]] = d /\ kind[avatar[d]] \in {"actor", "spectator"}
             \/ Awaits(d)
      BY <3>1 DEF PlayersRight, AvatarsRight
    <3> QED
      BY <3>1, <3>2
  <2> QED
    BY <2>1, <2>2
<1>7. RoundRight'
  BY <1>1, <1>2, <1>3, <1>4 DEF PlayersRight, RoundRight
<1> QED
  BY <1>1, <1>5, <1>6, <1>7 DEF PlayersRight

\* A spectator for a client.
LEMMA SpawnSpectatorKeeps ==
    ASSUME Ind, PlayersRight, NEW id \in ID \ live, SpawnSpectator(id)
    PROVE  PlayersRight'
<1>1. /\ stack # <<>> /\ Top.op \in OfClient /\ stack' = Callers /\ UNCHANGED gameVars
      /\ Insert(id, "spectator", NoID, Top.c)
      /\ avatar' = [avatar EXCEPT ![Top.c] = id] /\ gameID' = [gameID EXCEPT ![Top.c] = id]
  BY DEF SpawnSpectator, Running, OfClient
<1>2. /\ live' = live \cup {id} /\ kind'[id] = "spectator" /\ owner'[id] = Top.c
      /\ \A x \in live : owner'[x] = owner[x] /\ kind'[x] = kind[x]
  BY <1>1, InsertKeeps
<1>3. /\ live \subseteq live' /\ id \in live'
      /\ \A x \in live' \ live : x # id => owner'[x] = Server
  BY <1>2
<1> QED
  BY <1>1, <1>2, <1>3, SpawnKeeps

\* An actor for a client, with his bag.
LEMMA SpawnActorKeeps ==
    ASSUME Ind, PlayersRight, NEW id \in ID \ live, NEW bag \in ID \ live, SpawnActor(id, bag)
    PROVE  PlayersRight'
<1> DEFINE c == Top.c
<1>1. /\ stack # <<>> /\ Top.op \in OfClient /\ stack' = Callers /\ UNCHANGED gameVars /\ id # bag
      /\ live' = live \cup {id, bag}
      /\ kind' = [kind EXCEPT ![id] = "actor", ![bag] = "bag"]
      /\ owner' = [owner EXCEPT ![id] = c, ![bag] = Server]
      /\ avatar' = [avatar EXCEPT ![c] = id] /\ gameID' = [gameID EXCEPT ![c] = id]
  BY DEF SpawnActor, Running, OfClient
<1>2. /\ owner \in [ID -> Client \cup {NoClient}] /\ kind \in [ID -> Kind \cup {NoKind}] /\ live \subseteq ID
  BY DEF Ind, RestType, Tree, TreeType
<1> HIDE DEF c
<1>3. /\ owner'[id] = c /\ owner'[bag] = Server /\ kind'[id] = "actor"
      /\ \A x \in live : owner'[x] = owner[x] /\ kind'[x] = kind[x]
  BY <1>1, <1>2
<1>4. /\ live \subseteq live' /\ id \in live'
      /\ \A x \in live' \ live : x # id => owner'[x] = Server
  BY <1>1, <1>3
<1> QED
  BY <1>1, <1>3, <1>4, SpawnKeeps DEF c

-----------------------------------------------------------------------------
(* The players' invariant.                                                 *)

LEMMA PlayersInit ==
    ASSUME Init
    PROVE  PlayersRight
<1>1. stack = <<>> /\ DOMAIN stack = {}
  BY DEF Init
<1>2. SpawnsWait /\ EndsRight
  BY <1>1 DEF SpawnsWait, EndsRight
<1>3. OwnedOnceServed /\ NobodyBefore /\ AvatarsRight /\ RoundRight
  BY DEF Init, OwnedOnceServed, NobodyBefore, AvatarsRight, RoundRight
<1> QED
  BY <1>2, <1>3 DEF PlayersRight

\* Every step keeps it.
LEMMA PlayersNext ==
    ASSUME Ind, PlayersRight, [Next]_vars
    PROVE  PlayersRight'
<1>1. CASE Request
  <2>1. CASE \E id \in ID \ live, k \in Kinds : SpawnLevel(id, k)
    BY <2>1, SpawnLevelKeeps
  <2>2. CASE ServerConnect
    BY <2>2, ServerConnectKeeps
  <2>3. CASE \E id \in ID \ live, k \in Kinds, p \in live \cup {NoID} : SpawnItem(id, k, p)
    BY <2>3, SpawnItemKeeps
  <2>4. CASE \E c \in Client : PlayerReady(c)
    BY <2>4, PlayerReadyKeeps
  <2>5. CASE \E c \in Client, NoSpectator \in BOOLEAN : RespawnPlayer(c, NoSpectator)
    BY <2>5, RespawnPlayerKeeps
  <2>6. CASE \E p, e \in live, c \in Client : Take(p, e, c) \/ TakeForced(p, e, c) \/ TakeBag(p, e, c)
    BY <2>6, OtherRequestsKeep
  <2>7. CASE \E p, e \in ID : Reject(p, e)
    BY <2>7, OtherRequestsKeep
  <2>8. CASE \E e \in live : Destroy(e) \/ SwitchOffline(e)
    BY <2>8, OtherRequestsKeep
  <2>9. CASE \E p, e \in live : TransferAmmo(p, e)
    BY <2>9, TransferAmmoKeeps
  <2>10. CASE SLS_Clear
    BY <2>10, SLS_ClearKeeps
  <2>11. CASE \E cs \in SUBSET Client : OnRoundEnd(cs)
    BY <2>11, OnRoundEndKeeps
  <2> QED
    BY <1>1, <2>1, <2>2, <2>3, <2>4, <2>5, <2>6, <2>7, <2>8, <2>9, <2>10, <2>11 DEF Request
<1>2. CASE Step
  <2>1. CASE DestroyChild
    BY <2>1, DestroyChildKeeps
  <2>2. CASE DestroySelf
    BY <2>2, DestroySelfKeeps
  <2>3. CASE EraseEntity
    BY <2>3, EraseEntityKeeps
  <2>4. CASE \E id \in ID \ live : EraseActor(id)
    BY <2>4, EraseActorKeeps
  <2>5. CASE RejectFillsBag \/ RejectDetaches \/ UnpackItem \/ UnpackDone
    BY <2>5, MovesKeep
  <2>6. CASE PerformChild \/ ClearNext \/ ClearDone
    BY <2>6, ClearsKeep
  <2>7. CASE PerformSelf
    BY <2>7, PerformSelfKeeps
  <2>8. CASE \E id \in ID \ live : SpawnSpectator(id)
    BY <2>8, SpawnSpectatorKeeps
  <2>9. CASE \E id, bag \in ID \ live : SpawnActor(id, bag)
    BY <2>9, SpawnActorKeeps
  <2> QED
    BY <1>2, <2>1, <2>2, <2>3, <2>4, <2>5, <2>6, <2>7, <2>8, <2>9 DEF Step
<1>3. CASE UNCHANGED vars
  <2>1. UNCHANGED <<live, kind, owner, avatar, gameID, gameVars>> /\ stack' = stack
    BY <1>3 DEF vars, gameVars
  <2>2. /\ stack' \in Seq(Frame) /\ Len(stack) \in Nat /\ Len(stack) <= Len(stack) /\ Len(stack) <= Len(stack')
        /\ \A i \in DOMAIN stack : ~(i > Len(stack))
        /\ \A i \in (Len(stack) + 1)..Len(stack') : FALSE
    BY <2>1, StackEnds DEF Ind, RestType
  <2> QED
    BY <2>1, <2>2, HandlerKeeps
<1> QED
  BY <1>1, <1>2, <1>3 DEF Next

\* As long as bodies wait for their bags: what belongs to whom, and who plays
\* what, in every state, within the handlers too.
THEOREM PlayersKept == Spec /\ [][BodiesWait]_vars => []PlayersRight
<1>1. Init => PlayersRight
  BY PlayersInit
<1>2. Ind /\ PlayersRight /\ [Next]_vars => PlayersRight'
  BY PlayersNext
<1> QED
  BY <1>1, <1>2, Invariance, PTL DEF Spec

\* As long as bodies wait for their bags, R_ASSERT(receiver->owner) of
\* Process_event cannot fail: once the server's client is in, whatever is in
\* the map has an owner.
THEOREM EntitiesOwned == Spec /\ [][BodiesWait]_vars => []OwnedOnceServed
<1>1. PlayersRight => OwnedOnceServed
  BY DEF PlayersRight
<1> QED
  BY <1>1, PlayersKept, PTL

\* As long as bodies wait for their bags, a player's entity is live and his
\* own between handlers, whatever was destroyed, respawned or cleared before.
THEOREM AvatarsOwned == Spec /\ [][BodiesWait]_vars => []AvatarOwned
<1>1. Ind /\ PlayersRight => AvatarOwned
  BY IdlePlayers DEF AvatarOwned
<1> QED
  BY <1>1, Invariance, PlayersKept, PTL

\* As long as bodies wait for their bags, whoever is ready during a round
\* plays the entity his game state names.
THEOREM RoundsKeepPlayers == Spec /\ [][BodiesWait]_vars => []RoundKeepsPlayers
<1>1. Ind /\ PlayersRight => RoundKeepsPlayers
  <2>1. Ind => ready \subseteq Client
    BY DEF Ind, RestType
  <2> QED
    BY <2>1, IdlePlayers DEF RoundKeepsPlayers
<1> QED
  BY <1>1, Invariance, PlayersKept, PTL
=============================================================================
