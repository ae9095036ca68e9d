------------------------ MODULE AlifeSimulator_proof ------------------------
(***************************************************************************)
(* For any number of objects and points of the graph: what is true of      *)
(* every object after every step of AlifeSimulator, and what follows from  *)
(* it for the registries, the hands and the assertions, and for the order  *)
(* of the turns.  A step changes one object (About), or a holder with what *)
(* it holds (RightAgain); the loops over what is held go by induction over *)
(* finite sets.                                                            *)
(***************************************************************************)
EXTENDS AlifeSimulator, FiniteSetTheorems, WellFoundedInduction, TLAPS
-----------------------------------------------------------------------------
(* Loops over the children.                                                *)

\* A set of naturals that is not empty has a least element.
LEMMA LeastOf ==
    ASSUME NEW I \in SUBSET Nat, I # {}
    PROVE  \E m \in I : \A n \in I : m =< n
<1>1. PICK m \in I : \A n \in I : ~ (<<n, m>> \in OpToRel(<, Nat))
  BY NatLessThanWellFounded, WFMin
<1>2. ASSUME NEW n \in I
      PROVE  m =< n
  <2>1. ~ (<<n, m>> \in {ss \in Nat \X Nat : ss[1] < ss[2]})
    BY <1>1 DEF OpToRel
  <2>2. <<n, m>> \in Nat \X Nat /\ <<n, m>>[1] = n /\ <<n, m>>[2] = m
    OBVIOUS
  <2> QED
    BY <2>1, <2>2
<1> QED
  BY <1>2

\* What holds of no elements, and of some as soon as it holds of all but any
\* one of them, holds of all.
LEMMA OneByOne ==
    ASSUME NEW S, IsFiniteSet(S), NEW A, {} \in A,
           \A T \in SUBSET S : T # {} /\ (\A x \in T : T \ {x} \in A) => T \in A
    PROVE  S \in A
<1> DEFINE B == {T \in SUBSET S : T \notin A}
           I == {Cardinality(T) : T \in B}
<1>1. \A T \in SUBSET S : IsFiniteSet(T) /\ Cardinality(T) \in Nat
  BY FS_Subset, FS_CardinalityType
<1>2. SUFFICES ASSUME S \notin A
               PROVE  FALSE
  OBVIOUS
<1>3. I \in SUBSET Nat /\ I # {}
  BY <1>1, <1>2
<1>4. PICK m \in I : \A n \in I : m =< n
  BY <1>3, LeastOf
<1>5. PICK T \in B : Cardinality(T) = m
  BY <1>4
<1>6. PICK x \in T : T \ {x} \notin A
  BY <1>5
<1>7. T \ {x} \in B
  BY <1>5, <1>6
<1>8. Cardinality(T \ {x}) = m - 1 /\ m \in Nat
  BY <1>1, <1>5, FS_RemoveElement
<1>9. Cardinality(T \ {x}) \in I
  BY <1>7
<1> HIDE DEF I, B
<1> QED
  BY <1>4, <1>8, <1>9

\* The four loops over what somebody holds, the body of each as one of the other.
Body(loop, r, c, i) ==
    CASE loop = "release" -> release_one(r, i, TRUE)
      [] loop = "drop"    -> entity_Destroy(Process_event_reject(r, c, i), i)
      [] loop = "destroy" -> destroy_one(r, i)
      [] loop = "return"  -> put_back(r, c, i)

First(T) == CHOOSE x \in T : TRUE

\* g is what the loop computes for every subset of S, beginning with base.
Computes(g, loop, base, c, S) ==
    g = [T \in SUBSET S |-> IF T = {} THEN base ELSE Body(loop, g[T \ {First(T)}], c, First(T))]

\* What a loop computes is defined.
LEMMA LoopDefined ==
    ASSUME NEW S, IsFiniteSet(S), NEW base, NEW loop, NEW c
    PROVE  \E g : Computes(g, loop, base, c, S)
<1> DEFINE Right(g, T) == g[T] = IF T = {} THEN base ELSE Body(loop, g[T \ {First(T)}], c, First(T))
           Upto(n) == \E g : /\ g = [T \in SUBSET S |-> g[T]]
                             /\ \A T \in SUBSET S : Cardinality(T) =< n => Right(g, T)
           Wrong == {n \in Nat : ~Upto(n)}
<1>1. \A T \in SUBSET S : IsFiniteSet(T) /\ Cardinality(T) \in Nat
  BY FS_Subset, FS_CardinalityType
<1>2. \A T \in SUBSET S : T # {} => /\ First(T) \in T /\ T \ {First(T)} \in SUBSET S
                                    /\ Cardinality(T \ {First(T)}) = Cardinality(T) - 1
  BY <1>1, FS_RemoveElement DEF First
<1>3. \A T \in SUBSET S : Cardinality(T) = 0 => T = {}
  BY <1>1, FS_EmptySet
<1>4. Upto(0)
  <2> DEFINE g == [T \in SUBSET S |-> base]
  <2>1. g = [T \in SUBSET S |-> g[T]]
    OBVIOUS
  <2>2. \A T \in SUBSET S : Cardinality(T) =< 0 => T = {} /\ g[T] = base
    BY <1>1, <1>3
  <2> QED
    BY <2>1, <2>2
<1>5. ASSUME NEW n \in Nat, Upto(n)
      PROVE  Upto(n + 1)
  <2>1. PICK g : /\ g = [T \in SUBSET S |-> g[T]]
                 /\ \A T \in SUBSET S : Cardinality(T) =< n => Right(g, T)
    BY <1>5
  <2> DEFINE h == [T \in SUBSET S |-> IF Cardinality(T) =< n THEN g[T]
                                      ELSE Body(loop, g[T \ {First(T)}], c, First(T))]
  <2>2. \A T \in SUBSET S : h[T] = IF Cardinality(T) =< n THEN g[T]
                                   ELSE Body(loop, g[T \ {First(T)}], c, First(T))
    OBVIOUS
  <2>3. h = [T \in SUBSET S |-> h[T]]
    OBVIOUS
  <2> HIDE DEF h
  <2>4. ASSUME NEW T \in SUBSET S, Cardinality(T) =< n + 1
        PROVE  Right(h, T)
    <3>1. CASE T = {}
      <4>1. Cardinality(T) = 0 /\ 0 =< n
        BY <3>1, FS_EmptySet
      <4>2. h[T] = g[T] /\ Right(g, T)
        BY <2>1, <2>2, <4>1
      <4> QED
        BY <3>1, <4>2
    <3>2. CASE T # {}
      <4> DEFINE U == T \ {First(T)}
      <4>1. Cardinality(U) =< n /\ U \in SUBSET S
        BY <1>1, <1>2, <2>4, <3>2
      <4>2. h[U] = g[U]
        BY <2>2, <4>1
      <4>3. h[T] = Body(loop, g[U], c, First(T))
        BY <2>1, <2>2, <3>2
      <4> QED
        BY <3>2, <4>2, <4>3
    <3> QED
      BY <3>1, <3>2
  <2> QED
    BY <2>3, <2>4
<1>6. \A n \in Nat : Upto(n)
  <2> SUFFICES ASSUME Wrong # {}
               PROVE  FALSE
    OBVIOUS
  <2> HIDE DEF Upto
  <2>1. PICK m \in Wrong : \A n \in Wrong : m =< n
    BY LeastOf
  <2>2. m \in Nat /\ ~Upto(m) /\ m # 0
    BY <1>4
  <2>3. m - 1 \in Nat /\ (m - 1) + 1 = m /\ ~(m =< m - 1)
    BY <2>2
  <2>4. Upto(m - 1)
    BY <2>1, <2>3
  <2> QED
    BY <1>5, <2>2, <2>3, <2>4
<1>7. PICK g : /\ g = [T \in SUBSET S |-> g[T]]
               /\ \A T \in SUBSET S : Cardinality(T) =< Cardinality(S) => Right(g, T)
  BY <1>1, <1>6
<1>8. \A T \in SUBSET S : Cardinality(T) =< Cardinality(S)
  BY FS_Subset
<1>9. \A T \in SUBSET S : Right(g, T)
  BY <1>7, <1>8
<1>10. Computes(g, loop, base, c, S)
  BY <1>7, <1>9 DEF Computes
<1> QED
  BY <1>10

\* Such a loop, run with s over the elements of S.
Loop(loop, s, c, S) ==
    LET g == CHOOSE g : Computes(g, loop, s, c, S)
    IN g[S]

\* The model's loops are these.
LEMMA Loops ==
    ASSUME NEW s, NEW c, NEW S
    PROVE  /\ FoldSet(LAMBDA i, r : release_one(r, i, TRUE), s, S) = Loop("release", s, c, S)
           /\ FoldSet(LAMBDA i, r : destroy_one(r, i), s, S) = Loop("destroy", s, c, S)
           /\ FoldSet(LAMBDA i, r : put_back(r, c, i), s, S) = Loop("return", s, c, S)
           /\ FoldSet(LAMBDA i, r : entity_Destroy(Process_event_reject(r, c, i), i), s, S) = Loop("drop", s, c, S)
<1>1. FoldSet(LAMBDA i, r : release_one(r, i, TRUE), s, S) = Loop("release", s, c, S)
  BY DEF FoldSet, MapThenFoldSet, Loop, Computes, Body, First
<1>2. FoldSet(LAMBDA i, r : destroy_one(r, i), s, S) = Loop("destroy", s, c, S)
  BY DEF FoldSet, MapThenFoldSet, Loop, Computes, Body, First
<1>3. FoldSet(LAMBDA i, r : put_back(r, c, i), s, S) = Loop("return", s, c, S)
  BY DEF FoldSet, MapThenFoldSet, Loop, Computes, Body, First
<1>4. FoldSet(LAMBDA i, r : entity_Destroy(Process_event_reject(r, c, i), i), s, S) = Loop("drop", s, c, S)
  BY DEF FoldSet, MapThenFoldSet, Loop, Computes, Body, First
<1> QED
  BY <1>1, <1>2, <1>3, <1>4

\* What the loop starts with and its body keeps holds when the loop is done.
LEMMA LoopHolds ==
    ASSUME NEW S, IsFiniteSet(S), NEW s, NEW loop, NEW c, NEW A, <<{}, s>> \in A,
           \A T \in SUBSET S : \A r : \A x \in S \ T :
               <<T, r>> \in A => <<T \cup {x}, Body(loop, r, c, x)>> \in A
    PROVE  <<S, Loop(loop, s, c, S)>> \in A
<1> DEFINE g == CHOOSE g : Computes(g, loop, s, c, S)
           B == {T \in SUBSET S : <<T, g[T]>> \in A}
<1>1. \E h : Computes(h, loop, s, c, S)
  BY LoopDefined
<1>2. Computes(g, loop, s, c, S)
  BY <1>1
<1>3. \A T \in SUBSET S : g[T] = IF T = {} THEN s ELSE Body(loop, g[T \ {First(T)}], c, First(T))
  <2> HIDE DEF g
  <2> QED
    BY <1>2 DEF Computes
<1>4. Loop(loop, s, c, S) = g[S]
  BY DEF Loop
<1> HIDE DEF g
<1>5. {} \in B
  BY <1>3
<1>6. ASSUME NEW T \in SUBSET S, T # {}, \A x \in T : T \ {x} \in B
      PROVE  T \in B
  <2> DEFINE x == First(T)
             U == T \ {x}
  <2>1. x \in T
    BY <1>6 DEF First
  <2>2. U \in SUBSET S /\ x \in S \ U /\ T = U \cup {x} /\ <<U, g[U]>> \in A
    BY <1>6, <2>1
  <2>3. g[T] = Body(loop, g[U], c, x)
    BY <1>3, <1>6
  <2> HIDE DEF x, U
  <2> QED
    BY <2>2, <2>3
<1>7. S \in B
  <2> HIDE DEF B
  <2> QED
    BY <1>5, <1>6, OneByOne
<1> QED
  BY <1>4, <1>7

-----------------------------------------------------------------------------
(* The registries and the fields of the simulator.                         *)

Maps == {r \in [m_objects : SUBSET ID, next : ID \cup {End}, first : BOOLEAN] : IsMap(r, ID)}

Sim == [objects : SUBSET ID, entities : SUBSET ID, m_bOnline : [ID -> BOOLEAN],
        dead : [ID -> BOOLEAN], ID_Parent : [ID -> ID \cup {None}],
        children : [ID -> SUBSET ID], m_tGraphID : [ID -> Vertex],
        points : [Vertex -> SUBSET ID], level : Maps, scheduled : Maps, ok : BOOLEAN]

Field == {"objects", "entities", "m_bOnline", "dead", "ID_Parent", "children",
          "m_tGraphID", "points", "level", "scheduled", "ok"}

\* r is s but for the fields F.
OnlyIn(F, s, r) == r \in Sim /\ \A f \in Field \ F : r[f] = s[f]

LEMMA IdsAreNaturals ==
    /\ ID \subseteq Nat /\ None \notin ID /\ End \notin ID
    /\ Holder \subseteq ID /\ Item \subseteq ID /\ Creature \subseteq Holder /\ Actor \in Trader
    /\ \A c \in Item : c \notin Holder
    /\ Near \subseteq Vertex /\ Place \in Near
<1>1. Place \in Near
  BY AlifeAssumption DEF Place
<1> QED
  BY <1>1, AlifeAssumption DEF ID, Holder, Trader, None, End

LEMMA MinOf ==
    ASSUME NEW K \in SUBSET ID, K # {}
    PROVE  Min(K) \in K
<1>1. PICK m \in K : \A n \in K : m =< n
  BY LeastOf, IdsAreNaturals
<1> QED
  BY <1>1 DEF Min

LEMMA BeginOf ==
    ASSUME NEW K \in SUBSET ID
    PROVE  IF K = {} THEN begin(K) = End ELSE begin(K) \in K
BY MinOf DEF begin

\* The place after k is another element, if there is one.
LEMMA AfterOf ==
    ASSUME NEW K \in SUBSET ID, NEW k \in K
    PROVE  /\ After(K, k) \in K
           /\ K \ {k} # {} => After(K, k) \in K \ {k}
<1> DEFINE behind == {j \in K : j > k}
<1>1. CASE behind # {}
  <2>1. behind \in SUBSET ID /\ behind \subseteq K
    OBVIOUS
  <2>2. After(K, k) = begin(behind)
    BY <1>1 DEF After
  <2>3. After(K, k) \in behind
    BY <1>1, <2>1, <2>2, BeginOf
  <2>4. ~(k > k)
    BY IdsAreNaturals
  <2> QED
    BY <2>3, <2>4
<1>2. CASE behind = {}
  <2>1. After(K, k) = Min(K)
    BY <1>2 DEF After, begin
  <2>2. Min(K) \in K
    BY MinOf
  <2>3. PICK m \in K : \A n \in K : m =< n
    BY LeastOf, IdsAreNaturals
  <2>4. \A n \in K : Min(K) =< n
    BY <2>3 DEF Min
  <2>5. ASSUME Min(K) = k, K \ {k} # {}
        PROVE  FALSE
    <3>1. PICK j \in K \ {k} : TRUE
      BY <2>5
    <3>2. k =< j /\ ~(j > k) /\ j # k
      BY <1>2, <2>4, <2>5, <3>1
    <3>3. j \in Nat /\ k \in Nat
      BY IdsAreNaturals
    <3> QED
      BY <3>2, <3>3
  <2> QED
    BY <2>1, <2>2, <2>5
<1> QED
  BY <1>1, <1>2

\* Those who have their turn from n on until x has his, x included: the walk
\* goes up and begins again at the least.
Between(n, x) == {y \in ID : IF n =< x THEN n =< y /\ y =< x ELSE n =< y \/ y =< x}

\* Whose turn it was is not between the next one and somebody else of the map.
LEMMA BetweenAfter ==
    ASSUME NEW K \in SUBSET ID, NEW n \in K, NEW x \in K, n # x
    PROVE  Between(After(K, n), x) \subseteq Between(n, x) \ {n}
<1> DEFINE behind == {j \in K : j > n}
           m == After(K, n)
<1>0. K \subseteq Nat /\ ID \subseteq Nat
  BY IdsAreNaturals
<1>1. CASE behind # {}
  <2>1. behind \in SUBSET ID /\ behind # {}
    BY <1>1
  <2>2. m = Min(behind)
    BY <1>1 DEF After, begin
  <2>3. Min(behind) \in behind
    BY <2>1, MinOf
  <2>4. PICK k \in behind : \A j \in behind : k =< j
    BY <1>1, <1>0, LeastOf
  <2>5. \A j \in behind : Min(behind) =< j
    BY <2>4 DEF Min
  <2>6. m \in K /\ m > n /\ \A j \in K : j > n => m =< j
    BY <2>2, <2>3, <2>5
  <2> HIDE DEF m, behind
  <2>7. ASSUME NEW y \in Between(m, x)
        PROVE  y \in Between(n, x) \ {n}
    BY <1>0, <2>6 DEF Between
  <2> QED
    BY <2>7 DEF m
<1>2. CASE behind = {}
  <2>1. m = Min(K)
    BY <1>2 DEF After, begin
  <2>2. Min(K) \in K
    BY MinOf
  <2>3. PICK k \in K : \A j \in K : k =< j
    BY <1>0, LeastOf
  <2>4. \A j \in K : Min(K) =< j
    BY <2>3 DEF Min
  <2>5. m \in K /\ (\A j \in K : m =< j) /\ \A j \in K : ~(j > n)
    BY <1>2, <2>1, <2>2, <2>4
  <2> HIDE DEF m, behind
  <2>6. ASSUME NEW y \in Between(m, x)
        PROVE  y \in Between(n, x) \ {n}
    BY <1>0, <2>5 DEF Between
  <2> QED
    BY <2>6 DEF m
<1> QED
  BY <1>1, <1>2

LEMMA MapIs ==
    ASSUME NEW r \in Maps
    PROVE  /\ r \in [m_objects : SUBSET ID, next : ID \cup {End}, first : BOOLEAN]
           /\ IF r.m_objects = {} THEN r.next = End ELSE r.next \in r.m_objects
BY DEF Maps, IsMap

LEMMA MapAdds ==
    ASSUME NEW r \in Maps, NEW k \in ID
    PROVE  /\ add(r, k) \in Maps /\ add(r, k).m_objects = r.m_objects \cup {k}
           /\ r.m_objects # {} => add(r, k).next = r.next
<1>1. r \in [m_objects : SUBSET ID, next : ID \cup {End}, first : BOOLEAN]
  BY MapIs
<1>2. CASE r.m_objects = {}
  BY <1>1, <1>2, MapIs DEF Maps, IsMap, add
<1>3. CASE r.m_objects # {}
  <2>1. r.next \in r.m_objects
    BY <1>3, MapIs
  <2> QED
    BY <1>1, <1>3, <2>1 DEF Maps, IsMap, add
<1> QED
  BY <1>2, <1>3

LEMMA MapGoesOn ==
    ASSUME NEW r \in Maps
    PROVE  /\ update_next(r) \in Maps
           /\ update_next(r).m_objects = r.m_objects
           /\ r.m_objects \ {r.next} # {} => update_next(r).next \in r.m_objects \ {r.next}
           /\ \A x \in r.m_objects \ {r.next} :
                Between(update_next(r).next, x) \subseteq Between(r.next, x) \ {r.next}
<1>1. r \in [m_objects : SUBSET ID, next : ID \cup {End}, first : BOOLEAN]
  BY MapIs
<1> DEFINE n == After(r.m_objects, r.next)
<1>2. IF r.m_objects = {} THEN n = End ELSE n \in r.m_objects
  <2>1. CASE r.m_objects = {}
    BY <2>1 DEF After, begin
  <2>2. CASE r.m_objects # {}
    BY <1>1, <2>2, MapIs, AfterOf
  <2> QED
    BY <2>1, <2>2
<1>3. r.m_objects \ {r.next} # {} => n \in r.m_objects \ {r.next}
  BY <1>1, MapIs, AfterOf
<1>4. update_next(r) = [r EXCEPT !.next = n]
  BY DEF update_next
<1>5. \A x \in r.m_objects \ {r.next} : Between(n, x) \subseteq Between(r.next, x) \ {r.next}
  BY <1>1, MapIs, BetweenAfter
<1> HIDE DEF n
<1>6. update_next(r).next = n
  BY <1>1, <1>4
<1> QED
  BY <1>1, <1>2, <1>3, <1>4, <1>5, <1>6 DEF Maps, IsMap

LEMMA MapRemoves ==
    ASSUME NEW r \in Maps, NEW k \in ID
    PROVE  /\ remove(r, k) \in Maps /\ remove(r, k).m_objects = r.m_objects \ {k}
           /\ \A x \in r.m_objects \ {k} : Between(remove(r, k).next, x) \subseteq Between(r.next, x)
<1> DEFINE moved == IF k = r.next THEN update_next(r) ELSE r
           erased == [moved EXCEPT !.m_objects = @ \ {k}]
<1>1. CASE k \notin r.m_objects
  BY <1>1, MapIs DEF remove
<1>2. CASE k \in r.m_objects
  <2>1. /\ moved \in [m_objects : SUBSET ID, next : ID \cup {End}, first : BOOLEAN]
        /\ moved.m_objects = r.m_objects
        /\ r.m_objects \ {k} # {} => moved.next \in r.m_objects \ {k}
        /\ \A x \in r.m_objects \ {k} : Between(moved.next, x) \subseteq Between(r.next, x)
    BY <1>2, MapIs, MapGoesOn
  <2> HIDE DEF moved
  <2>2. /\ erased \in [m_objects : SUBSET ID, next : ID \cup {End}, first : BOOLEAN]
        /\ erased.m_objects = r.m_objects \ {k}
        /\ r.m_objects \ {k} # {} => erased.next \in r.m_objects \ {k}
        /\ \A x \in r.m_objects \ {k} : Between(erased.next, x) \subseteq Between(r.next, x)
    BY <2>1
  <2>3. remove(r, k) = IF erased.m_objects = {} THEN update_next(erased) ELSE erased
    BY <1>2 DEF remove, moved
  <2> HIDE DEF erased
  <2>4. CASE erased.m_objects = {}
    <3>1. update_next(erased) = [erased EXCEPT !.next = After({}, erased.next)]
      BY <2>4 DEF update_next
    <3>2. After({}, erased.next) = End
      BY DEF After, begin
    <3> QED
      BY <2>2, <2>3, <2>4, <3>1, <3>2 DEF Maps, IsMap
  <2>5. CASE erased.m_objects # {}
    BY <2>2, <2>3, <2>5 DEF Maps, IsMap
  <2> QED
    BY <2>4, <2>5
<1> QED
  BY <1>1, <1>2

-----------------------------------------------------------------------------
(* What each operation on a registry does.                                 *)

LEMMA CheckDoes ==
    ASSUME NEW s \in Sim, NEW condition \in BOOLEAN
    PROVE  /\ OnlyIn({"ok"}, s, Check(s, condition))
           /\ Check(s, condition).ok = (s.ok /\ condition)
BY DEF Check, OnlyIn, Sim, Field

LEMMA LevelAddDoes ==
    ASSUME NEW s \in Sim, NEW c \in ID
    PROVE  LET r == LevelAdd(s, c) IN
           /\ OnlyIn({"ok", "level"}, s, r)
           /\ s.m_tGraphID[c] \notin Near => r = s
           /\ s.m_tGraphID[c] \in Near =>
                /\ r.ok = (s.ok /\ c \notin s.level.m_objects)
                /\ r.level.m_objects = s.level.m_objects \cup {c}
           /\ s.level.m_objects # {} => r.level.next = s.level.next
<1> DEFINE q == Check(s, c \notin s.level.m_objects)
           m == add(q.level, c)
<1>1. CASE s.m_tGraphID[c] \notin Near
  BY <1>1 DEF LevelAdd, OnlyIn
<1>2. CASE s.m_tGraphID[c] \in Near
  <2>1. q \in Sim /\ (\A f \in Field \ {"ok"} : q[f] = s[f]) /\ q.ok = (s.ok /\ c \notin s.level.m_objects)
    BY CheckDoes DEF OnlyIn
  <2>2. q.level = s.level /\ s.level \in Maps
    BY <2>1 DEF Field, Sim
  <2>3. LevelAdd(s, c) = [q EXCEPT !.level = m]
    BY <1>2 DEF LevelAdd
  <2> HIDE DEF q
  <2>4. /\ m \in Maps /\ m.m_objects = s.level.m_objects \cup {c}
        /\ s.level.m_objects # {} => m.next = s.level.next
    BY <2>2, MapAdds
  <2> HIDE DEF m
  <2> QED
    BY <1>2, <2>1, <2>3, <2>4 DEF OnlyIn, Field, Sim
<1> QED
  BY <1>1, <1>2

LEMMA LevelRemoveDoes ==
    ASSUME NEW s \in Sim, NEW c \in ID, NEW no_assert \in BOOLEAN
    PROVE  LET r == LevelRemove(s, c, no_assert) IN
           /\ OnlyIn({"ok", "level"}, s, r)
           /\ r.ok = (s.ok /\ (no_assert \/ c \in s.level.m_objects))
           /\ r.level.m_objects = s.level.m_objects \ {c}
           /\ \A x \in s.level.m_objects \ {c} : Between(r.level.next, x) \subseteq Between(s.level.next, x)
<1> DEFINE q == Check(s, no_assert \/ c \in s.level.m_objects)
           m == remove(q.level, c)
<1>1. /\ q \in Sim /\ (\A f \in Field \ {"ok"} : q[f] = s[f])
      /\ q.ok = (s.ok /\ (no_assert \/ c \in s.level.m_objects))
  BY CheckDoes DEF OnlyIn
<1>2. q.level = s.level /\ s.level \in Maps
  BY <1>1 DEF Field, Sim
<1>3. LevelRemove(s, c, no_assert) = [q EXCEPT !.level = m]
  BY DEF LevelRemove
<1> HIDE DEF q
<1>4. /\ m \in Maps /\ m.m_objects = s.level.m_objects \ {c}
      /\ \A x \in s.level.m_objects \ {c} : Between(m.next, x) \subseteq Between(s.level.next, x)
  BY <1>2, MapRemoves
<1> HIDE DEF m
<1> QED
  BY <1>1, <1>3, <1>4 DEF OnlyIn, Field, Sim

LEMMA ScheduledAddDoes ==
    ASSUME NEW s \in Sim, NEW c \in ID
    PROVE  LET r == ScheduledAdd(s, c) IN
           /\ OnlyIn({"ok", "scheduled"}, s, r)
           /\ ~need_update(s, c) => r = s
           /\ need_update(s, c) =>
                /\ r.ok = (s.ok /\ c \notin s.scheduled.m_objects)
                /\ r.scheduled.m_objects = s.scheduled.m_objects \cup {c}
<1> DEFINE q == Check(s, c \notin s.scheduled.m_objects)
           m == add(q.scheduled, c)
<1>1. CASE ~need_update(s, c)
  BY <1>1 DEF ScheduledAdd, OnlyIn
<1>2. CASE need_update(s, c)
  <2>1. q \in Sim /\ (\A f \in Field \ {"ok"} : q[f] = s[f]) /\ q.ok = (s.ok /\ c \notin s.scheduled.m_objects)
    BY CheckDoes DEF OnlyIn
  <2>2. q.scheduled = s.scheduled /\ s.scheduled \in Maps
    BY <2>1 DEF Field, Sim
  <2>3. ScheduledAdd(s, c) = [q EXCEPT !.scheduled = m]
    BY <1>2 DEF ScheduledAdd
  <2> HIDE DEF q
  <2>4. m \in Maps /\ m.m_objects = s.scheduled.m_objects \cup {c}
    BY <2>2, MapAdds
  <2> HIDE DEF m
  <2> QED
    BY <1>2, <2>1, <2>3, <2>4 DEF OnlyIn, Field, Sim
<1> QED
  BY <1>1, <1>2

LEMMA ScheduledRemoveDoes ==
    ASSUME NEW s \in Sim, NEW c \in ID
    PROVE  LET r == ScheduledRemove(s, c) IN
           /\ OnlyIn({"ok", "scheduled"}, s, r)
           /\ c \notin Creature => r = s
           /\ c \in Creature =>
                /\ r.ok = (s.ok /\ (c \in s.scheduled.m_objects \/ ~need_update(s, c)))
                /\ r.scheduled.m_objects = s.scheduled.m_objects \ {c}
<1> DEFINE q == Check(s, c \in s.scheduled.m_objects \/ ~need_update(s, c))
           m == remove(q.scheduled, c)
<1>1. CASE c \notin Creature
  BY <1>1 DEF ScheduledRemove, OnlyIn
<1>2. CASE c \in Creature
  <2>1. /\ q \in Sim /\ (\A f \in Field \ {"ok"} : q[f] = s[f])
        /\ q.ok = (s.ok /\ (c \in s.scheduled.m_objects \/ ~need_update(s, c)))
    BY CheckDoes DEF OnlyIn
  <2>2. q.scheduled = s.scheduled /\ s.scheduled \in Maps
    BY <2>1 DEF Field, Sim
  <2>3. ScheduledRemove(s, c) = [q EXCEPT !.scheduled = m]
    BY <1>2 DEF ScheduledRemove
  <2> HIDE DEF q
  <2>4. m \in Maps /\ m.m_objects = s.scheduled.m_objects \ {c}
    BY <2>2, MapRemoves
  <2> HIDE DEF m
  <2> QED
    BY <1>2, <2>1, <2>3, <2>4 DEF OnlyIn, Field, Sim
<1> QED
  BY <1>1, <1>2

LEMMA GraphAddOnline ==
    ASSUME NEW s, NEW c, NEW v, s.m_bOnline[c]
    PROVE  GraphAdd(s, c, v, FALSE) = s /\ GraphAdd(s, c, v, TRUE) = LevelAdd(s, c)
BY DEF GraphAdd

\* r is s with c added to the graph at v, or taken from it.
Placed(s, r, c, v) ==
    /\ OnlyIn({"ok", "points", "m_tGraphID"}, s, r)
    /\ r.ok = (s.ok /\ c \notin s.points[v])
    /\ \A w \in Vertex : r.points[w] = IF w = v THEN s.points[v] \cup {c} ELSE s.points[w]
    /\ \A x \in ID : r.m_tGraphID[x] = IF x = c THEN v ELSE s.m_tGraphID[x]

Taken(s, r, c, v) ==
    /\ OnlyIn({"ok", "points"}, s, r)
    /\ r.ok = (s.ok /\ c \in s.points[v])
    /\ \A w \in Vertex : r.points[w] = IF w = v THEN s.points[v] \ {c} ELSE s.points[w]

LEMMA GraphAddDoes ==
    ASSUME NEW s \in Sim, NEW c \in ID, NEW v \in Vertex, ~s.m_bOnline[c]
    PROVE  /\ Placed(s, GraphAdd(s, c, v, FALSE), c, v)
           /\ GraphAdd(s, c, v, TRUE) = LevelAdd(GraphAdd(s, c, v, FALSE), c)
<1> DEFINE q == Check(s, c \notin s.points[v])
           pts == [q.points EXCEPT ![v] = @ \cup {c}]
           gr == [q.m_tGraphID EXCEPT ![c] = v]
<1>0. GraphAdd(s, c, v, TRUE) = LevelAdd(GraphAdd(s, c, v, FALSE), c)
  BY DEF GraphAdd
<1>1. q \in Sim /\ (\A f \in Field \ {"ok"} : q[f] = s[f]) /\ q.ok = (s.ok /\ c \notin s.points[v])
  BY CheckDoes DEF OnlyIn
<1>2. GraphAdd(s, c, v, FALSE) = [q EXCEPT !.points = pts, !.m_tGraphID = gr]
  BY DEF GraphAdd
<1> HIDE DEF q
<1>3. q.points = s.points /\ q.m_tGraphID = s.m_tGraphID
  BY <1>1 DEF Field
<1>4. pts \in [Vertex -> SUBSET ID] /\ gr \in [ID -> Vertex]
  BY <1>3 DEF Sim
<1>5. /\ \A w \in Vertex : pts[w] = IF w = v THEN s.points[v] \cup {c} ELSE s.points[w]
      /\ \A x \in ID : gr[x] = IF x = c THEN v ELSE s.m_tGraphID[x]
  BY <1>3 DEF Sim
<1> HIDE DEF pts, gr
<1> QED
  BY <1>0, <1>1, <1>2, <1>4, <1>5 DEF Placed, OnlyIn, Field, Sim

LEMMA GraphRemoveDoes ==
    ASSUME NEW s \in Sim, NEW c \in ID, NEW v \in Vertex
    PROVE  /\ Taken(s, GraphRemove(s, c, v, FALSE), c, v)
           /\ GraphRemove(s, c, v, TRUE) = LevelRemove(GraphRemove(s, c, v, FALSE), c, v \notin Near)
<1> DEFINE listed == c \in s.points[v]
           q == Check(s, listed)
<1>0. GraphRemove(s, c, v, TRUE) = LevelRemove(GraphRemove(s, c, v, FALSE), c, v \notin Near)
  BY DEF GraphRemove
<1>1. q \in Sim /\ (\A f \in Field \ {"ok"} : q[f] = s[f]) /\ q.ok = (s.ok /\ listed)
  <2>1. listed \in BOOLEAN
    OBVIOUS
  <2> HIDE DEF listed
  <2> QED
    BY <2>1, CheckDoes DEF OnlyIn
<1> DEFINE pts == [q.points EXCEPT ![v] = @ \ {c}]
<1>2. GraphRemove(s, c, v, FALSE) = [q EXCEPT !.points = pts]
  BY DEF GraphRemove
<1> HIDE DEF q
<1>3. q.points = s.points
  BY <1>1 DEF Field
<1>4. /\ pts \in [Vertex -> SUBSET ID]
      /\ \A w \in Vertex : pts[w] = IF w = v THEN s.points[v] \ {c} ELSE s.points[w]
  BY <1>3 DEF Sim
<1> HIDE DEF pts
<1> QED
  BY <1>0, <1>1, <1>2, <1>4 DEF Taken, OnlyIn, Field, Sim

\* r is s without the entity c, of which nothing is left if nobody registered it.
Erased(s, r, c) ==
    /\ r \in Sim /\ r.ok = s.ok /\ r.objects = s.objects /\ r.points = s.points
    /\ r.level = s.level /\ r.scheduled = s.scheduled
    /\ r.entities = s.entities \ {c}
    /\ c \in s.objects => OnlyIn({"entities"}, s, r)
    /\ c \notin s.objects => \A x \in ID :
         /\ r.m_bOnline[x] = IF x = c THEN FALSE ELSE s.m_bOnline[x]
         /\ r.dead[x] = IF x = c THEN FALSE ELSE s.dead[x]
         /\ r.ID_Parent[x] = IF x = c THEN None ELSE s.ID_Parent[x]
         /\ r.children[x] = IF x = c THEN {} ELSE s.children[x]
         /\ r.m_tGraphID[x] = IF x = c THEN Place ELSE s.m_tGraphID[x]

LEMMA EntityDestroyDoes ==
    ASSUME NEW s \in Sim, NEW c \in ID
    PROVE  Erased(s, entity_Destroy(s, c), c)
<1> DEFINE q == [s EXCEPT !.entities = @ \ {c}]
<1>1. q \in Sim /\ (\A f \in Field \ {"entities"} : q[f] = s[f]) /\ q.entities = s.entities \ {c}
  BY DEF Sim, Field
<1>2. entity_Destroy(s, c) = IF c \in s.objects THEN q ELSE F_entity_Destroy(q, c)
  BY DEF entity_Destroy
<1> HIDE DEF q
<1>3. CASE c \in s.objects
  BY <1>1, <1>2, <1>3 DEF Erased, OnlyIn, Field, Sim
<1>4. CASE c \notin s.objects
  <2>1. q.m_bOnline = s.m_bOnline /\ q.dead = s.dead /\ q.ID_Parent = s.ID_Parent
        /\ q.children = s.children /\ q.m_tGraphID = s.m_tGraphID
        /\ q.ok = s.ok /\ q.objects = s.objects /\ q.points = s.points /\ q.level = s.level /\ q.scheduled = s.scheduled
    BY <1>1 DEF Field
  <2> DEFINE on == [s.m_bOnline EXCEPT ![c] = FALSE]
             de == [s.dead EXCEPT ![c] = FALSE]
             pa == [s.ID_Parent EXCEPT ![c] = None]
             ch == [s.children EXCEPT ![c] = {}]
             gr == [s.m_tGraphID EXCEPT ![c] = Place]
  <2>2. entity_Destroy(s, c) = [q EXCEPT !.m_bOnline = on, !.dead = de, !.ID_Parent = pa,
                                         !.children = ch, !.m_tGraphID = gr]
    BY <1>2, <1>4, <2>1 DEF F_entity_Destroy
  <2>3. /\ on \in [ID -> BOOLEAN] /\ de \in [ID -> BOOLEAN] /\ pa \in [ID -> ID \cup {None}]
        /\ ch \in [ID -> SUBSET ID] /\ gr \in [ID -> Vertex]
    BY IdsAreNaturals DEF Sim
  <2>4. \A x \in ID :
        /\ on[x] = IF x = c THEN FALSE ELSE s.m_bOnline[x]
        /\ de[x] = IF x = c THEN FALSE ELSE s.dead[x]
        /\ pa[x] = IF x = c THEN None ELSE s.ID_Parent[x]
        /\ ch[x] = IF x = c THEN {} ELSE s.children[x]
        /\ gr[x] = IF x = c THEN Place ELSE s.m_tGraphID[x]
    BY DEF Sim
  <2> HIDE DEF on, de, pa, ch, gr
  <2>5. LET r == entity_Destroy(s, c) IN
        /\ r \in Sim /\ r.ok = q.ok /\ r.objects = q.objects /\ r.points = q.points
        /\ r.level = q.level /\ r.scheduled = q.scheduled /\ r.entities = q.entities
        /\ r.m_bOnline = on /\ r.dead = de /\ r.ID_Parent = pa /\ r.children = ch /\ r.m_tGraphID = gr
    BY <1>1, <2>2, <2>3 DEF Sim
  <2> QED
    BY <1>1, <1>4, <2>1, <2>4, <2>5 DEF Erased
<1> QED
  BY <1>3, <1>4

-----------------------------------------------------------------------------
(* One object and the others.                                              *)

\* x is in r as in s; in the level's registry nobody has got between the next
\* turn and his.
SameFor(s, r, x) ==
    /\ x \in r.objects <=> x \in s.objects
    /\ x \in r.entities <=> x \in s.entities
    /\ r.m_bOnline[x] = s.m_bOnline[x] /\ r.dead[x] = s.dead[x]
    /\ r.ID_Parent[x] = s.ID_Parent[x] /\ r.m_tGraphID[x] = s.m_tGraphID[x]
    /\ \A q \in ID : x \in r.children[q] <=> x \in s.children[q]
    /\ \A v \in Vertex : x \in r.points[v] <=> x \in s.points[v]
    /\ x \in r.level.m_objects <=> x \in s.level.m_objects
    /\ x \in r.scheduled.m_objects <=> x \in s.scheduled.m_objects
    /\ x \in s.level.m_objects => Between(r.level.next, x) \subseteq Between(s.level.next, x)

\* The step from s to r is about c alone.
About(c, s, r) == r \in Sim /\ \A x \in ID \ {c} : SameFor(s, r, x)

LEMMA AboutJoins ==
    ASSUME NEW c, NEW s, NEW r, NEW q, About(c, s, r), About(c, r, q)
    PROVE  About(c, s, q)
BY DEF About, SameFor

\* The lists depend on what SameFor compares.
LEMMA ListedSame ==
    ASSUME NEW s, NEW r, NEW x, SameFor(s, r, x), Listed(s, x)
    PROVE  Listed(r, x)
BY DEF SameFor, Listed, need_update

LEMMA SettledSame ==
    ASSUME NEW s, NEW r, NEW x, SameFor(s, r, x), Settled(s, x)
    PROVE  Settled(r, x)
BY DEF SameFor, Settled

LEMMA HeldSame ==
    ASSUME NEW s, NEW r, NEW x, SameFor(s, r, x), Held(s, x),
           s.ID_Parent[x] # None => /\ s.ID_Parent[x] \in r.objects
                                    /\ r.m_bOnline[s.ID_Parent[x]] = s.m_bOnline[s.ID_Parent[x]]
    PROVE  Held(r, x)
BY DEF SameFor, Held

\* A step within the registries of one object.
LEMMA OnlyInIsAbout ==
    ASSUME NEW s \in Sim, NEW r, NEW c \in ID,
           OnlyIn({"ok", "objects", "entities", "level", "scheduled"}, s, r),
           r.objects \ {c} = s.objects \ {c}, r.entities \ {c} = s.entities \ {c},
           r.level.m_objects \ {c} = s.level.m_objects \ {c},
           r.scheduled.m_objects \ {c} = s.scheduled.m_objects \ {c},
           \A x \in s.level.m_objects \ {c} : Between(r.level.next, x) \subseteq Between(s.level.next, x)
    PROVE  About(c, s, r)
<1>1. /\ r.m_bOnline = s.m_bOnline /\ r.dead = s.dead /\ r.ID_Parent = s.ID_Parent
      /\ r.m_tGraphID = s.m_tGraphID /\ r.children = s.children /\ r.points = s.points /\ r \in Sim
  BY DEF OnlyIn, Field
<1> QED
  BY <1>1 DEF About, SameFor

LEMMA LevelAddAbout ==
    ASSUME NEW s \in Sim, NEW c \in ID
    PROVE  About(c, s, LevelAdd(s, c))
<1> DEFINE r == LevelAdd(s, c)
<1>1. /\ OnlyIn({"ok", "level"}, s, r)
      /\ r.level.m_objects \ {c} = s.level.m_objects \ {c}
      /\ \A x \in s.level.m_objects \ {c} : Between(r.level.next, x) \subseteq Between(s.level.next, x)
  BY LevelAddDoes
<1> HIDE DEF r
<1>2. r.objects = s.objects /\ r.entities = s.entities /\ r.scheduled = s.scheduled
  BY <1>1 DEF OnlyIn, Field
<1>3. OnlyIn({"ok", "objects", "entities", "level", "scheduled"}, s, r)
  BY <1>1 DEF OnlyIn
<1>4. About(c, s, r)
  BY <1>1, <1>2, <1>3, OnlyInIsAbout
<1> QED
  BY <1>4 DEF r

LEMMA LevelRemoveAbout ==
    ASSUME NEW s \in Sim, NEW c \in ID, NEW no_assert \in BOOLEAN
    PROVE  About(c, s, LevelRemove(s, c, no_assert))
<1> DEFINE r == LevelRemove(s, c, no_assert)
<1>1. /\ OnlyIn({"ok", "level"}, s, r)
      /\ r.level.m_objects \ {c} = s.level.m_objects \ {c}
      /\ \A x \in s.level.m_objects \ {c} : Between(r.level.next, x) \subseteq Between(s.level.next, x)
  BY LevelRemoveDoes
<1> HIDE DEF r
<1>2. r.objects = s.objects /\ r.entities = s.entities /\ r.scheduled = s.scheduled
  BY <1>1 DEF OnlyIn, Field
<1>3. OnlyIn({"ok", "objects", "entities", "level", "scheduled"}, s, r)
  BY <1>1 DEF OnlyIn
<1>4. About(c, s, r)
  BY <1>1, <1>2, <1>3, OnlyInIsAbout
<1> QED
  BY <1>4 DEF r

LEMMA ScheduledAbout ==
    ASSUME NEW s \in Sim, NEW c \in ID
    PROVE  About(c, s, ScheduledAdd(s, c)) /\ About(c, s, ScheduledRemove(s, c))
<1>1. ASSUME NEW r, OnlyIn({"ok", "scheduled"}, s, r),
             r.scheduled.m_objects \ {c} = s.scheduled.m_objects \ {c}
      PROVE  About(c, s, r)
  <2>1. r.objects = s.objects /\ r.entities = s.entities /\ r.level = s.level
    BY <1>1 DEF OnlyIn, Field
  <2>2. OnlyIn({"ok", "objects", "entities", "level", "scheduled"}, s, r)
    BY <1>1 DEF OnlyIn
  <2> QED
    BY <1>1, <2>1, <2>2, OnlyInIsAbout
<1>2. /\ OnlyIn({"ok", "scheduled"}, s, ScheduledAdd(s, c))
      /\ ScheduledAdd(s, c).scheduled.m_objects \ {c} = s.scheduled.m_objects \ {c}
  BY ScheduledAddDoes
<1>3. /\ OnlyIn({"ok", "scheduled"}, s, ScheduledRemove(s, c))
      /\ ScheduledRemove(s, c).scheduled.m_objects \ {c} = s.scheduled.m_objects \ {c}
  BY ScheduledRemoveDoes
<1> QED
  BY <1>1, <1>2, <1>3

LEMMA GraphAbout ==
    ASSUME NEW s \in Sim, NEW c \in ID, NEW v \in Vertex
    PROVE  About(c, s, GraphAdd(s, c, v, FALSE)) /\ About(c, s, GraphRemove(s, c, v, FALSE))
<1>1. About(c, s, GraphAdd(s, c, v, FALSE))
  <2> DEFINE r == GraphAdd(s, c, v, FALSE)
  <2>1. CASE s.m_bOnline[c]
    <3>1. GraphAdd(s, c, v, FALSE) = s
      BY <2>1, GraphAddOnline
    <3> QED
      BY <3>1 DEF About, SameFor
  <2>2. CASE ~s.m_bOnline[c]
    <3>1. Placed(s, r, c, v)
      BY <2>2, GraphAddDoes
    <3> HIDE DEF r
    <3>2. /\ r.m_bOnline = s.m_bOnline /\ r.dead = s.dead /\ r.ID_Parent = s.ID_Parent
          /\ r.objects = s.objects /\ r.entities = s.entities
          /\ r.children = s.children /\ r.level = s.level /\ r.scheduled = s.scheduled /\ r \in Sim
      BY <3>1 DEF Placed, OnlyIn, Field
    <3>3. s.points \in [Vertex -> SUBSET ID] /\ s.m_tGraphID \in [ID -> Vertex]
      BY DEF Sim
    <3>4. About(c, s, r)
      BY <3>1, <3>2, <3>3 DEF Placed, About, SameFor
    <3> QED
      BY <3>4 DEF r
  <2> QED
    BY <2>1, <2>2
<1>2. About(c, s, GraphRemove(s, c, v, FALSE))
  <2> DEFINE r == GraphRemove(s, c, v, FALSE)
  <2>1. Taken(s, r, c, v)
    BY GraphRemoveDoes
  <2> HIDE DEF r
  <2>2. /\ r.m_bOnline = s.m_bOnline /\ r.dead = s.dead /\ r.ID_Parent = s.ID_Parent
        /\ r.objects = s.objects /\ r.entities = s.entities /\ r.m_tGraphID = s.m_tGraphID
        /\ r.children = s.children /\ r.level = s.level /\ r.scheduled = s.scheduled /\ r \in Sim
    BY <2>1 DEF Taken, OnlyIn, Field
  <2>3. s.points \in [Vertex -> SUBSET ID]
    BY DEF Sim
  <2>4. About(c, s, r)
    BY <2>1, <2>2, <2>3 DEF Taken, About, SameFor
  <2> QED
    BY <2>4 DEF r
<1> QED
  BY <1>1, <1>2

LEMMA EntityDestroyAbout ==
    ASSUME NEW s \in Sim, NEW c \in ID, c \notin s.objects => s.children[c] = {}
    PROVE  About(c, s, entity_Destroy(s, c))
<1> SUFFICES ASSUME NEW r, Erased(s, r, c)
             PROVE  About(c, s, r)
  BY EntityDestroyDoes
<1>1. CASE c \in s.objects
  <2>1. /\ r.m_bOnline = s.m_bOnline /\ r.dead = s.dead /\ r.ID_Parent = s.ID_Parent
        /\ r.m_tGraphID = s.m_tGraphID /\ r.children = s.children
    BY <1>1 DEF Erased, OnlyIn, Field
  <2> QED
    BY <2>1 DEF Erased, About, SameFor
<1>2. CASE c \notin s.objects
  <2>1. \A x \in ID : s.children[x] = r.children[x]
    BY <1>2 DEF Erased
  <2> QED
    BY <1>2, <2>1 DEF Erased, About, SameFor
<1> QED
  BY <1>1, <1>2

-----------------------------------------------------------------------------
(* Registration and release of one object.                                 *)

\* But for the registries, c is in r as in s.
Alike(s, r, c) ==
    /\ c \in r.entities <=> c \in s.entities
    /\ r.m_bOnline[c] = s.m_bOnline[c] /\ r.dead[c] = s.dead[c]
    /\ r.ID_Parent[c] = s.ID_Parent[c] /\ r.m_tGraphID[c] = s.m_tGraphID[c]
    /\ \A q \in ID : c \in r.children[q] <=> c \in s.children[q]

LEMMA AboutItself ==
    ASSUME NEW s \in Sim, NEW c
    PROVE  About(c, s, s)
BY DEF About, SameFor

\* s with other registered objects.
WithObjects(s, now) == [s EXCEPT !.objects = now]

LEMMA ObjectsChange ==
    ASSUME NEW s \in Sim, NEW c \in ID, NEW now \in SUBSET ID, now \ {c} = s.objects \ {c}
    PROVE  LET r == WithObjects(s, now) IN
           /\ OnlyIn({"ok", "objects"}, s, r) /\ About(c, s, r)
           /\ r.ok = s.ok /\ r.objects = now
<1> DEFINE r == WithObjects(s, now)
<1>1. OnlyIn({"ok", "objects"}, s, r) /\ r.ok = s.ok /\ r.objects = now
  BY DEF OnlyIn, Field, Sim, WithObjects
<1>2. About(c, s, r)
  <2> HIDE DEF r
  <2>1. r.entities = s.entities /\ r.level = s.level /\ r.scheduled = s.scheduled
    BY <1>1 DEF OnlyIn, Field
  <2>2. OnlyIn({"ok", "objects", "entities", "level", "scheduled"}, s, r)
    BY <1>1 DEF OnlyIn
  <2> QED
    BY <1>1, <2>1, <2>2, OnlyInIsAbout
<1> QED
  BY <1>1, <1>2

\* The lists of an object that is registered and in nobody's hands.
LEMMA RegisterFree ==
    ASSUME NEW s \in Sim, NEW c \in ID, c \notin s.objects, s.ID_Parent[c] = None, Listed(s, c)
    PROVE  LET r == register_object(s, c) IN
           About(c, s, r) /\ Alike(s, r, c) /\ r.ok = s.ok /\ c \in r.objects /\ Listed(r, c)
<1> DEFINE known == WithObjects(s, s.objects \cup {c})
           v == s.m_tGraphID[c]
           g == GraphAdd(known, c, v, FALSE)
           l == LevelAdd(g, c)
           r == ScheduledAdd(l, c)
<1>1. OnlyIn({"ok", "objects"}, s, known) /\ About(c, s, known) /\ known.ok = s.ok /\ known.objects = s.objects \cup {c}
  BY ObjectsChange DEF Sim
<1>2. register_object(s, c) = ScheduledAdd(GraphAdd(known, c, v, TRUE), c)
  <2>1. [Check(s, c \notin s.objects) EXCEPT !.objects = @ \cup {c}] = known
    BY DEF WithObjects, Check, Sim
  <2> QED
    BY <2>1 DEF register_object
<1>3. v \in Vertex
  BY DEF Sim
<1> HIDE DEF known, v
<1>4. known \in Sim /\ known.m_bOnline = s.m_bOnline /\ known.m_tGraphID = s.m_tGraphID
      /\ known.points = s.points /\ known.level = s.level /\ known.ID_Parent = s.ID_Parent
      /\ known.scheduled = s.scheduled /\ known.dead = s.dead /\ Alike(s, known, c)
  BY <1>1 DEF OnlyIn, Field, Alike
<1>5. /\ g \in Sim /\ g.ok = s.ok /\ g.objects = known.objects /\ g.level = s.level
      /\ g.scheduled = s.scheduled /\ Alike(s, g, c)
      /\ \A w \in Vertex : c \in g.points[w] <=> ~s.m_bOnline[c] /\ w = v
      /\ GraphAdd(known, c, v, TRUE) = l /\ About(c, known, g)
  <2>1. CASE s.m_bOnline[c]
    <3>1. known.m_bOnline[c]
      BY <1>4, <2>1
    <3>2. g = known /\ GraphAdd(known, c, v, TRUE) = l
      BY <3>1, GraphAddOnline
    <3>3. About(c, known, known)
      BY <1>4, AboutItself
    <3> HIDE DEF g, l
    <3> QED
      BY <1>1, <1>4, <2>1, <3>2, <3>3 DEF Listed
  <2>2. CASE ~s.m_bOnline[c]
    <3>1. ~known.m_bOnline[c]
      BY <1>4, <2>2
    <3>2. Placed(known, g, c, v) /\ GraphAdd(known, c, v, TRUE) = l
      BY <1>3, <1>4, <3>1, GraphAddDoes
    <3>3. About(c, known, g)
      BY <1>3, <1>4, GraphAbout
    <3> HIDE DEF g, l
    <3>4. g \in Sim /\ g.objects = known.objects /\ g.entities = known.entities /\ g.m_bOnline = known.m_bOnline
          /\ g.dead = known.dead /\ g.ID_Parent = known.ID_Parent /\ g.children = known.children
          /\ g.level = known.level /\ g.scheduled = known.scheduled
      BY <3>2 DEF Placed, OnlyIn, Field
    <3>5. g.m_tGraphID[c] = v /\ v = s.m_tGraphID[c]
      BY <3>2 DEF Placed, v
    <3>6. \A w \in Vertex : c \notin known.points[w]
      BY <1>4 DEF Listed
    <3>7. \A w \in Vertex : c \in g.points[w] <=> w = v
      BY <3>2, <3>6 DEF Placed
    <3>8. g.ok = s.ok
      BY <1>1, <1>3, <3>2, <3>6 DEF Placed, Sim
    <3> QED
      BY <1>4, <2>2, <3>2, <3>3, <3>4, <3>5, <3>7, <3>8 DEF Alike
  <2> QED
    BY <2>1, <2>2
<1> HIDE DEF g
<1>6. /\ l \in Sim /\ l.ok = s.ok /\ l.objects = known.objects /\ l.points = g.points
      /\ l.scheduled = s.scheduled /\ Alike(s, l, c) /\ About(c, g, l)
      /\ c \in l.level.m_objects <=> s.m_tGraphID[c] \in Near
  <2>1. About(c, g, l)
    BY <1>5, LevelAddAbout
  <2>2. OnlyIn({"ok", "level"}, g, l)
    BY <1>5, LevelAddDoes
  <2>3. g.m_tGraphID[c] = s.m_tGraphID[c] /\ c \notin g.level.m_objects
    BY <1>5 DEF Alike, Listed
  <2>4. l.ok = g.ok /\ (c \in l.level.m_objects <=> s.m_tGraphID[c] \in Near)
    <3>1. CASE s.m_tGraphID[c] \notin Near
      <4>1. l = g
        BY <1>5, <2>3, <3>1, LevelAddDoes
      <4> HIDE DEF l
      <4> QED
        BY <2>3, <3>1, <4>1
    <3>2. CASE s.m_tGraphID[c] \in Near
      <4>1. l.ok = (g.ok /\ c \notin g.level.m_objects) /\ l.level.m_objects = g.level.m_objects \cup {c}
        BY <1>5, <2>3, <3>2, LevelAddDoes
      <4>2. g.ok \in BOOLEAN
        BY <1>5 DEF Sim
      <4> HIDE DEF l
      <4> QED
        BY <2>3, <3>2, <4>1, <4>2
    <3> QED
      BY <3>1, <3>2
  <2> HIDE DEF l
  <2>5. /\ l \in Sim /\ l.objects = g.objects /\ l.points = g.points /\ l.scheduled = g.scheduled
        /\ l.entities = g.entities /\ l.m_bOnline = g.m_bOnline /\ l.dead = g.dead
        /\ l.ID_Parent = g.ID_Parent /\ l.children = g.children /\ l.m_tGraphID = g.m_tGraphID
    BY <2>2 DEF OnlyIn, Field
  <2>6. Alike(s, l, c)
    BY <1>5, <2>5 DEF Alike
  <2> QED
    BY <1>5, <2>1, <2>4, <2>5, <2>6
<1> HIDE DEF l
<1>7. /\ r \in Sim /\ r.ok = s.ok /\ r.objects = known.objects /\ r.points = g.points
      /\ r.level = l.level /\ Alike(s, r, c) /\ About(c, l, r)
      /\ c \in r.scheduled.m_objects <=> need_update(s, c)
  <2>1. About(c, l, r)
    BY <1>6, ScheduledAbout
  <2>2. OnlyIn({"ok", "scheduled"}, l, r)
    BY <1>6, ScheduledAddDoes
  <2>3. (need_update(l, c) <=> need_update(s, c)) /\ c \notin l.scheduled.m_objects
    BY <1>6 DEF Alike, Listed, need_update
  <2>4. r.ok = l.ok /\ (c \in r.scheduled.m_objects <=> need_update(s, c))
    BY <1>6, <2>3, ScheduledAddDoes DEF Sim
  <2> HIDE DEF r
  <2> QED
    BY <1>6, <2>1, <2>2, <2>4 DEF OnlyIn, Field, Alike
<1>8. register_object(s, c) = r
  BY <1>2, <1>5
<1> HIDE DEF r
<1>9. About(c, s, r)
  BY <1>1, <1>5, <1>6, <1>7, AboutJoins
<1>10. Listed(r, c)
  BY <1>1, <1>5, <1>6, <1>7 DEF Listed, Alike, need_update, v
<1> QED
  BY <1>1, <1>7, <1>8, <1>9, <1>10

\* s with other facts about c, and with another child of p or one less.
WithFacts(s, c, online, dead, parent, graph) ==
    [s EXCEPT !.m_bOnline = [s.m_bOnline EXCEPT ![c] = online], !.dead = [s.dead EXCEPT ![c] = dead],
              !.ID_Parent = [s.ID_Parent EXCEPT ![c] = parent],
              !.m_tGraphID = [s.m_tGraphID EXCEPT ![c] = graph]]

WithChildren(s, p, now) == [s EXCEPT !.children = [s.children EXCEPT ![p] = now]]

WithEntities(s, now) == [s EXCEPT !.entities = now]

FactsChange(s, r, c, online, dead, parent, graph) ==
    /\ About(c, s, r)
    /\ r.ok = s.ok /\ r.objects = s.objects /\ r.entities = s.entities /\ r.children = s.children
    /\ r.points = s.points /\ r.level = s.level /\ r.scheduled = s.scheduled
    /\ r.m_bOnline[c] = online /\ r.dead[c] = dead /\ r.ID_Parent[c] = parent /\ r.m_tGraphID[c] = graph

LEMMA WithFactsDoes ==
    ASSUME NEW s \in Sim, NEW c \in ID, NEW online \in BOOLEAN, NEW dead \in BOOLEAN,
           NEW parent \in ID \cup {None}, NEW graph \in Vertex
    PROVE  FactsChange(s, WithFacts(s, c, online, dead, parent, graph), c, online, dead, parent, graph)
<1> DEFINE on == [s.m_bOnline EXCEPT ![c] = online]
           de == [s.dead EXCEPT ![c] = dead]
           pa == [s.ID_Parent EXCEPT ![c] = parent]
           gr == [s.m_tGraphID EXCEPT ![c] = graph]
           r == WithFacts(s, c, online, dead, parent, graph)
<1>1. r = [s EXCEPT !.m_bOnline = on, !.dead = de, !.ID_Parent = pa, !.m_tGraphID = gr]
  BY DEF WithFacts
<1>2. /\ on \in [ID -> BOOLEAN] /\ de \in [ID -> BOOLEAN]
      /\ pa \in [ID -> ID \cup {None}] /\ gr \in [ID -> Vertex]
      /\ on[c] = online /\ de[c] = dead /\ pa[c] = parent /\ gr[c] = graph
      /\ \A x \in ID \ {c} : /\ on[x] = s.m_bOnline[x] /\ de[x] = s.dead[x]
                             /\ pa[x] = s.ID_Parent[x] /\ gr[x] = s.m_tGraphID[x]
  BY DEF Sim
<1> HIDE DEF on, de, pa, gr, r
<1>3. /\ r \in Sim /\ r.ok = s.ok /\ r.objects = s.objects /\ r.entities = s.entities
      /\ r.children = s.children /\ r.points = s.points /\ r.level = s.level /\ r.scheduled = s.scheduled
      /\ r.m_bOnline = on /\ r.dead = de /\ r.ID_Parent = pa /\ r.m_tGraphID = gr
  BY <1>1, <1>2 DEF Sim
<1>4. FactsChange(s, r, c, online, dead, parent, graph)
  BY <1>2, <1>3 DEF FactsChange, About, SameFor
<1> QED
  BY <1>4 DEF r

ChildrenChange(s, r, p, c, now) ==
    /\ About(c, s, r) /\ OnlyIn({"children"}, s, r)
    /\ r.ok = s.ok /\ r.objects = s.objects /\ r.entities = s.entities /\ r.m_bOnline = s.m_bOnline
    /\ r.dead = s.dead /\ r.ID_Parent = s.ID_Parent /\ r.m_tGraphID = s.m_tGraphID
    /\ r.points = s.points /\ r.level = s.level /\ r.scheduled = s.scheduled
    /\ r.children[p] = now /\ \A q \in ID \ {p} : r.children[q] = s.children[q]

LEMMA WithChildrenDoes ==
    ASSUME NEW s \in Sim, NEW p \in ID, NEW c \in ID, NEW now \in SUBSET ID, now \ {c} = s.children[p] \ {c}
    PROVE  ChildrenChange(s, WithChildren(s, p, now), p, c, now)
<1> DEFINE ch == [s.children EXCEPT ![p] = now]
           r == WithChildren(s, p, now)
<1>1. r = [s EXCEPT !.children = ch]
  BY DEF WithChildren
<1>2. ch \in [ID -> SUBSET ID] /\ ch[p] = now /\ \A q \in ID \ {p} : ch[q] = s.children[q]
  BY DEF Sim
<1> HIDE DEF ch, r
<1>3. OnlyIn({"children"}, s, r) /\ r.children = ch
  BY <1>1, <1>2 DEF OnlyIn, Field, Sim
<1>4. /\ r.ok = s.ok /\ r.objects = s.objects /\ r.entities = s.entities /\ r.m_bOnline = s.m_bOnline
      /\ r.dead = s.dead /\ r.ID_Parent = s.ID_Parent /\ r.m_tGraphID = s.m_tGraphID
      /\ r.points = s.points /\ r.level = s.level /\ r.scheduled = s.scheduled /\ r \in Sim
  BY <1>3 DEF OnlyIn, Field
<1>5. \A x \in ID \ {c}, q \in ID : x \in r.children[q] <=> x \in s.children[q]
  BY <1>2, <1>3
<1>6. About(c, s, r)
  BY <1>4, <1>5 DEF About, SameFor
<1>7. ChildrenChange(s, r, p, c, now)
  BY <1>2, <1>3, <1>4, <1>6 DEF ChildrenChange
<1> QED
  BY <1>7 DEF r

\* p gets the child c, or loses it.
WithChild(s, p, c) == WithChildren(s, p, s.children[p] \cup {c})
WithoutChild(s, p, c) == WithChildren(s, p, s.children[p] \ {c})

LEMMA ChildMoves ==
    ASSUME NEW s \in Sim, NEW p \in ID, NEW c \in ID
    PROVE  /\ ChildrenChange(s, WithChild(s, p, c), p, c, s.children[p] \cup {c})
           /\ ChildrenChange(s, WithoutChild(s, p, c), p, c, s.children[p] \ {c})
<1>1. s.children[p] \in SUBSET ID
  BY DEF Sim
<1>2. /\ s.children[p] \cup {c} \in SUBSET ID /\ (s.children[p] \cup {c}) \ {c} = s.children[p] \ {c}
      /\ s.children[p] \ {c} \in SUBSET ID /\ (s.children[p] \ {c}) \ {c} = s.children[p] \ {c}
  BY <1>1
<1> QED
  BY <1>2, WithChildrenDoes DEF WithChild, WithoutChild

\* A simulator is what its fields are.
LEMMA SimEqual ==
    ASSUME NEW s \in Sim, NEW r \in Sim,
           s.objects = r.objects, s.entities = r.entities, s.m_bOnline = r.m_bOnline, s.dead = r.dead,
           s.ID_Parent = r.ID_Parent, s.children = r.children, s.m_tGraphID = r.m_tGraphID,
           s.points = r.points, s.level = r.level, s.scheduled = r.scheduled, s.ok = r.ok
    PROVE  s = r
BY DEF Sim

LEMMA WithEntitiesDoes ==
    ASSUME NEW s \in Sim, NEW c \in ID, NEW now \in SUBSET ID, now \ {c} = s.entities \ {c}
    PROVE  LET r == WithEntities(s, now) IN
           About(c, s, r) /\ OnlyIn({"entities"}, s, r) /\ r.entities = now
<1> DEFINE r == WithEntities(s, now)
<1>1. OnlyIn({"entities"}, s, r) /\ r.entities = now
  BY DEF OnlyIn, Field, Sim, WithEntities
<1> HIDE DEF r
<1>2. r.objects = s.objects /\ r.level = s.level /\ r.scheduled = s.scheduled
  BY <1>1 DEF OnlyIn, Field
<1>3. OnlyIn({"ok", "objects", "entities", "level", "scheduled"}, s, r)
  BY <1>1 DEF OnlyIn
<1>4. About(c, s, r)
  BY <1>1, <1>2, <1>3, OnlyInIsAbout
<1> QED
  BY <1>1, <1>4 DEF r

\* An object that is spawned in the hands of p.
LEMMA RegisterHeld ==
    ASSUME NEW s \in Sim, NEW c \in Item, c \notin s.objects, s.ID_Parent[c] \in ID, Listed(s, c)
    PROVE  LET r == register_object(s, c)
               p == s.ID_Parent[c]
           IN /\ About(c, s, r) /\ r.ok = s.ok /\ r.objects = s.objects \cup {c} /\ Listed(r, c)
              /\ r.entities = s.entities /\ r.m_bOnline = s.m_bOnline /\ r.dead = s.dead
              /\ r.ID_Parent = s.ID_Parent /\ r.m_tGraphID = s.m_tGraphID
              /\ \A q \in ID : c \in r.children[q] <=> q = p \/ c \in s.children[q]
<1> DEFINE p == s.ID_Parent[c]
           known == WithObjects(s, s.objects \cup {c})
           r == WithChild(known, p, c)
<1>0. c \in ID /\ c \notin Creature /\ p # None
  BY IdsAreNaturals
<1>1. OnlyIn({"ok", "objects"}, s, known) /\ About(c, s, known) /\ known.ok = s.ok /\ known.objects = s.objects \cup {c}
  BY <1>0, ObjectsChange DEF Sim
<1>2. register_object(s, c) = r
  <2>1. [Check(s, c \notin s.objects) EXCEPT !.objects = @ \cup {c}] = known
    BY DEF WithObjects, Check, Sim
  <2>2. register_object(s, c) = [ScheduledAdd(known, c) EXCEPT !.children[p] = @ \cup {c}]
    BY <1>0, <2>1 DEF register_object
  <2> HIDE DEF known
  <2>3. ScheduledAdd(known, c) = known
    BY <1>0 DEF ScheduledAdd, need_update
  <2> QED
    BY <2>2, <2>3 DEF WithChild, WithChildren
<1> HIDE DEF known, p
<1>3. /\ known \in Sim /\ known.entities = s.entities /\ known.m_bOnline = s.m_bOnline /\ known.dead = s.dead
      /\ known.ID_Parent = s.ID_Parent /\ known.m_tGraphID = s.m_tGraphID /\ known.children = s.children
      /\ known.points = s.points /\ known.level = s.level /\ known.scheduled = s.scheduled
  BY <1>1 DEF OnlyIn, Field
<1>4. ChildrenChange(known, r, p, c, known.children[p] \cup {c})
  BY <1>0, <1>3, ChildMoves DEF p
<1> HIDE DEF r
<1>5. About(c, s, r)
  BY <1>1, <1>4, AboutJoins DEF ChildrenChange
<1>6. Listed(r, c)
  BY <1>0, <1>1, <1>3, <1>4 DEF ChildrenChange, Listed, need_update, p
<1>7. \A q \in ID : c \in r.children[q] <=> q = p \/ c \in s.children[q]
  BY <1>3, <1>4 DEF ChildrenChange
<1> QED
  BY <1>1, <1>2, <1>3, <1>4, <1>5, <1>6, <1>7 DEF ChildrenChange, p

\* c is in no registry.
Unlisted(s, c) ==
    /\ c \notin s.objects /\ c \notin s.level.m_objects /\ c \notin s.scheduled.m_objects
    /\ \A v \in Vertex : c \notin s.points[v]

\* Nothing of c is left.
Absent(s, c) ==
    /\ Unlisted(s, c) /\ c \notin s.entities
    /\ ~s.m_bOnline[c] /\ ~s.dead[c] /\ s.ID_Parent[c] = None /\ s.m_tGraphID[c] \in Near
    /\ \A q \in ID : c \notin s.children[q]

LEMMA AbsentIsRight ==
    ASSUME NEW s, NEW c, Absent(s, c)
    PROVE  Listed(s, c) /\ Settled(s, c) /\ (None \notin ID => Held(s, c))
BY DEF Absent, Unlisted, Listed, Settled, Held, need_update

LEMMA Vanishes ==
    ASSUME NEW s \in Sim, NEW c \in ID, Unlisted(s, c), s.children[c] = {},
           \A q \in ID : c \notin s.children[q]
    PROVE  LET r == entity_Destroy(s, c) IN About(c, s, r) /\ r.ok = s.ok /\ Absent(r, c)
<1> SUFFICES ASSUME NEW r, Erased(s, r, c), About(c, s, r)
             PROVE  r.ok = s.ok /\ Absent(r, c)
  BY EntityDestroyDoes, EntityDestroyAbout
<1> QED
  BY IdsAreNaturals DEF Erased, Absent, Unlisted

\* Who is in nobody's hands leaves the registries.
LEMMA UnregisterFree ==
    ASSUME NEW s \in Sim, NEW c \in ID, NEW alife_query, c \in s.objects, s.ID_Parent[c] = None,
           Listed(s, c), s.m_bOnline[c] => s.m_tGraphID[c] \in Near
    PROVE  LET r == unregister_object(s, c, alife_query) IN
           About(c, s, r) /\ Alike(s, r, c) /\ r.ok = s.ok /\ Unlisted(r, c)
<1> DEFINE unknown == WithObjects(s, s.objects \ {c})
           v == s.m_tGraphID[c]
           g == GraphRemove(unknown, c, v, FALSE)
<1>1. OnlyIn({"ok", "objects"}, s, unknown) /\ About(c, s, unknown) /\ unknown.ok = s.ok /\ unknown.objects = s.objects \ {c}
  BY ObjectsChange DEF Sim
<1>2. unregister_object(s, c, alife_query) =
        IF ~unknown.m_bOnline[c]
        THEN ScheduledRemove(GraphRemove(unknown, c, unknown.m_tGraphID[c], TRUE), c)
        ELSE IF unknown.ID_Parent[c] = None THEN LevelRemove(unknown, c, FALSE) ELSE unknown
  <2> DEFINE loose == IF c \in Item /\ s.ID_Parent[c] # None THEN detach(s, s.ID_Parent[c], c, alife_query) ELSE s
             Left(q) == [Check(q, c \in s.objects) EXCEPT !.objects = @ \ {c}]
             Rest(q) == IF ~q.m_bOnline[c]
                        THEN ScheduledRemove(GraphRemove(q, c, q.m_tGraphID[c], TRUE), c)
                        ELSE IF q.ID_Parent[c] = None THEN LevelRemove(q, c, FALSE) ELSE q
  <2>1. Left(s) = unknown
    BY DEF WithObjects, Check, Sim
  <2>2. loose = s
    OBVIOUS
  <2>3. unregister_object(s, c, alife_query) = Rest(Left(IF c \in Item /\ s.ID_Parent[c] # None
          THEN detach(s, s.ID_Parent[c], c, alife_query) ELSE s))
    BY DEF unregister_object
  <2> HIDE DEF Left, Rest, unknown
  <2>4. unregister_object(s, c, alife_query) = Rest(unknown)
    BY <2>1, <2>2, <2>3
  <2> QED
    BY <2>4 DEF Rest
<1>3. v \in Vertex
  BY DEF Sim
<1> HIDE DEF unknown, v
<1>4. unknown \in Sim /\ unknown.m_bOnline = s.m_bOnline /\ unknown.m_tGraphID = s.m_tGraphID
      /\ unknown.points = s.points /\ unknown.level = s.level /\ unknown.ID_Parent = s.ID_Parent
      /\ unknown.scheduled = s.scheduled /\ unknown.dead = s.dead /\ Alike(s, unknown, c)
  BY <1>1 DEF OnlyIn, Field, Alike
<1>5. CASE s.m_bOnline[c]
  <2> DEFINE r == LevelRemove(unknown, c, FALSE)
  <2>1. unregister_object(s, c, alife_query) = r
    BY <1>2, <1>4, <1>5
  <2>2. About(c, unknown, r)
    BY <1>4, LevelRemoveAbout
  <2>3. OnlyIn({"ok", "level"}, unknown, r) /\ r.level.m_objects = unknown.level.m_objects \ {c}
    BY <1>4, LevelRemoveDoes
  <2>4. r.ok = (unknown.ok /\ (FALSE \/ c \in unknown.level.m_objects))
    BY <1>4, LevelRemoveDoes
  <2> HIDE DEF r
  <2>5. r.ok = s.ok
    BY <1>1, <1>4, <1>5, <2>4 DEF Listed, Sim
  <2>6. Alike(s, r, c) /\ Unlisted(r, c)
    <3>1. /\ r.objects = unknown.objects /\ r.points = unknown.points /\ r.scheduled = unknown.scheduled
          /\ r.entities = unknown.entities /\ r.m_bOnline = unknown.m_bOnline /\ r.dead = unknown.dead
          /\ r.ID_Parent = unknown.ID_Parent /\ r.children = unknown.children /\ r.m_tGraphID = unknown.m_tGraphID
      BY <2>3 DEF OnlyIn, Field
    <3>2. /\ \A w \in Vertex : c \notin unknown.points[w]
          /\ c \notin unknown.scheduled.m_objects
      BY <1>4, <1>5 DEF Listed, need_update
    <3> QED
      BY <1>1, <1>4, <2>3, <3>1, <3>2 DEF Alike, Unlisted
  <2>7. About(c, s, r)
    BY <1>1, <2>2, AboutJoins
  <2> QED
    BY <2>1, <2>5, <2>6, <2>7
<1>6. CASE ~s.m_bOnline[c]
  <2> DEFINE far == v \notin Near
             l == LevelRemove(g, c, far)
             r == ScheduledRemove(l, c)
  <2>1. Taken(unknown, g, c, v) /\ GraphRemove(unknown, c, v, TRUE) = l /\ About(c, unknown, g)
    BY <1>3, <1>4, GraphRemoveDoes, GraphAbout
  <2>2. unregister_object(s, c, alife_query) = r
    BY <1>2, <1>4, <1>6, <2>1 DEF v
  <2> HIDE DEF g
  <2>3. /\ g \in Sim /\ g.objects = unknown.objects /\ g.level = s.level /\ g.scheduled = s.scheduled
        /\ g.m_bOnline = s.m_bOnline /\ g.dead = s.dead /\ Alike(s, g, c)
        /\ \A w \in Vertex : c \notin g.points[w]
    <3>1. /\ g \in Sim /\ g.objects = unknown.objects /\ g.level = unknown.level
          /\ g.scheduled = unknown.scheduled /\ g.entities = unknown.entities
          /\ g.m_bOnline = unknown.m_bOnline /\ g.dead = unknown.dead /\ g.ID_Parent = unknown.ID_Parent
          /\ g.children = unknown.children /\ g.m_tGraphID = unknown.m_tGraphID
      BY <2>1 DEF Taken, OnlyIn, Field
    <3>2. \A w \in Vertex : c \notin g.points[w]
      BY <1>4, <2>1 DEF Taken, Listed, v
    <3> QED
      BY <1>4, <3>1, <3>2 DEF Alike
  <2>4. g.ok = s.ok
    BY <1>1, <1>3, <1>4, <1>6, <2>1 DEF Taken, Listed, v, Sim
  <2>5. far \in BOOLEAN
    OBVIOUS
  <2> HIDE DEF far
  <2>6. /\ About(c, g, l) /\ OnlyIn({"ok", "level"}, g, l) /\ l.level.m_objects = g.level.m_objects \ {c}
        /\ l.ok = (g.ok /\ (far \/ c \in g.level.m_objects))
    BY <2>3, <2>5, LevelRemoveAbout, LevelRemoveDoes
  <2> HIDE DEF l
  <2>7. /\ l \in Sim /\ l.objects = unknown.objects /\ l.points = g.points /\ l.scheduled = s.scheduled
        /\ l.m_bOnline = s.m_bOnline /\ l.dead = s.dead /\ Alike(s, l, c) /\ l.ok = s.ok
        /\ c \notin l.level.m_objects
    BY <2>3, <2>4, <2>6 DEF OnlyIn, Field, Alike, Listed, v, far, Sim
  <2>8. About(c, l, r) /\ OnlyIn({"ok", "scheduled"}, l, r)
    BY <2>7, ScheduledAbout, ScheduledRemoveDoes
  <2>9. r.ok = s.ok /\ c \notin r.scheduled.m_objects
    <3>1. CASE c \notin Creature
      <4>1. c \notin l.scheduled.m_objects /\ r = l
        BY <2>7, <3>1, ScheduledRemoveDoes DEF Listed, need_update
      <4> QED
        BY <2>7, <4>1
    <3>2. CASE c \in Creature
      <4>1. /\ r.ok = (l.ok /\ (c \in l.scheduled.m_objects \/ ~need_update(l, c)))
            /\ r.scheduled.m_objects = l.scheduled.m_objects \ {c}
        BY <2>7, <3>2, ScheduledRemoveDoes
      <4>2. c \in l.scheduled.m_objects \/ ~need_update(l, c)
        BY <2>7 DEF Listed, need_update
      <4> QED
        BY <2>7, <4>1, <4>2 DEF Sim
    <3> QED
      BY <3>1, <3>2
  <2> HIDE DEF r
  <2>10. Alike(s, r, c) /\ Unlisted(r, c)
    BY <1>1, <2>3, <2>7, <2>8, <2>9 DEF OnlyIn, Field, Alike, Unlisted
  <2>11. About(c, s, r)
    BY <1>1, <2>1, <2>6, <2>8, AboutJoins
  <2> QED
    BY <2>2, <2>9, <2>10, <2>11
<1> QED
  BY <1>5, <1>6

\* Who is offline leaves the hands of p for its place.
PutDown(s, r, p, c) ==
    /\ About(c, s, r) /\ r.ok = s.ok /\ Listed(r, c) /\ c \in r.objects
    /\ r.entities = s.entities /\ r.ID_Parent[c] = None
    /\ r.m_bOnline[c] = s.m_bOnline[c] /\ r.dead[c] = s.dead[c]
    /\ \A q \in ID : c \in r.children[q] <=> q # p /\ c \in s.children[q]

LEMMA DetachOffline ==
    ASSUME NEW s \in Sim, NEW c \in Item, NEW p \in ID, s.ID_Parent[c] = p, c \in s.children[p],
           Listed(s, c), ~s.m_bOnline[c], c \in s.objects
    PROVE  PutDown(s, detach(s, p, c, TRUE), p, c)
<1> DEFINE v == s.m_tGraphID[p]
           g == GraphAdd(s, c, v, FALSE)
           l == LevelAdd(g, c)
           f == WithFacts(l, c, l.m_bOnline[c], l.dead[c], None, v)
           r == WithoutChild(f, p, c)
<1>0. c \in ID /\ c \notin Creature /\ p # None
  BY IdsAreNaturals
<1>1. v \in Vertex
  BY DEF Sim
<1> HIDE DEF v
<1>2. Placed(s, g, c, v) /\ GraphAdd(s, c, v, TRUE) = l /\ About(c, s, g)
  BY <1>0, <1>1, GraphAddDoes, GraphAbout
<1> HIDE DEF g
<1>3. /\ g \in Sim /\ g.objects = s.objects /\ g.level = s.level /\ g.scheduled = s.scheduled
      /\ g.entities = s.entities /\ g.m_bOnline = s.m_bOnline /\ g.dead = s.dead
      /\ g.children = s.children
  BY <1>2 DEF Placed, OnlyIn, Field
<1>4. /\ g.ok = s.ok /\ g.m_tGraphID[c] = v
      /\ \A w \in Vertex : c \in g.points[w] <=> w = v
  BY <1>0, <1>1, <1>2 DEF Placed, Listed, Sim
<1>5. About(c, g, l) /\ OnlyIn({"ok", "level"}, g, l)
  BY <1>0, <1>3, LevelAddAbout, LevelAddDoes
<1>6. l.ok = s.ok /\ (c \in l.level.m_objects <=> v \in Near)
  <2>1. c \notin g.level.m_objects
    BY <1>0, <1>3 DEF Listed
  <2> QED
    BY <1>0, <1>3, <1>4, <2>1, LevelAddDoes DEF Sim
<1> HIDE DEF l
<1>7. /\ l \in Sim /\ l.objects = s.objects /\ l.scheduled = s.scheduled /\ l.entities = s.entities
      /\ l.m_bOnline = s.m_bOnline /\ l.dead = s.dead /\ l.children = s.children /\ l.points = g.points
      /\ l.m_bOnline[c] \in BOOLEAN /\ l.dead[c] \in BOOLEAN
  BY <1>0, <1>3, <1>5 DEF OnlyIn, Field, Sim
<1>9. FactsChange(l, f, c, l.m_bOnline[c], l.dead[c], None, v)
  BY <1>0, <1>1, <1>7, WithFactsDoes
<1> HIDE DEF f
<1>10. f \in Sim
  BY <1>9 DEF FactsChange, About
<1>11. ChildrenChange(f, r, p, c, f.children[p] \ {c})
  BY <1>0, <1>10, ChildMoves
<1>12. detach(s, p, c, TRUE) = r
  <2> DEFINE pa == [l.ID_Parent EXCEPT ![c] = None]
             gr == [l.m_tGraphID EXCEPT ![c] = v]
             ch == [l.children EXCEPT ![p] = @ \ {c}]
             d == [l EXCEPT !.ID_Parent = pa, !.children = ch, !.m_tGraphID = gr]
  <2>1. detach(s, p, c, TRUE) = d
    <3>1. detach(s, p, c, TRUE) = [Check(l, c \in s.children[p])
                                     EXCEPT !.ID_Parent[c] = None, !.children[p] = @ \ {c}, !.m_tGraphID[c] = v]
      BY <1>2 DEF detach, v
    <3>2. Check(l, c \in s.children[p]) = l
      BY <1>7 DEF Check, Sim
    <3> QED
      BY <3>1, <3>2
  <2>2. pa \in [ID -> ID \cup {None}] /\ gr \in [ID -> Vertex] /\ ch \in [ID -> SUBSET ID]
    BY <1>0, <1>1, <1>7 DEF Sim
  <2>3. /\ r.children = ch /\ r.ID_Parent = pa /\ r.m_tGraphID = gr
        /\ r.m_bOnline = l.m_bOnline /\ r.dead = l.dead
    <3>1. f.ID_Parent = pa /\ f.m_tGraphID = gr /\ f.children = l.children
      BY <1>7 DEF f, WithFacts, Sim
    <3>2. f.m_bOnline = l.m_bOnline /\ f.dead = l.dead
      BY <1>7 DEF f, WithFacts, Sim
    <3>3. r.children = ch
      BY <1>10, <3>1 DEF r, WithoutChild, WithChildren, Sim
    <3> QED
      BY <1>11, <3>1, <3>2, <3>3 DEF ChildrenChange
  <2>4. /\ r.objects = l.objects /\ r.entities = l.entities /\ r.points = l.points /\ r.level = l.level
        /\ r.scheduled = l.scheduled /\ r.ok = l.ok /\ r \in Sim
    BY <1>9, <1>11 DEF FactsChange, ChildrenChange, About
  <2> HIDE DEF pa, gr, ch
  <2>5. /\ d \in Sim /\ d.objects = l.objects /\ d.entities = l.entities /\ d.m_bOnline = l.m_bOnline
        /\ d.dead = l.dead /\ d.ID_Parent = pa /\ d.children = ch /\ d.m_tGraphID = gr
        /\ d.points = l.points /\ d.level = l.level /\ d.scheduled = l.scheduled /\ d.ok = l.ok
    BY <1>7, <2>2 DEF Sim
  <2> HIDE DEF d, r
  <2>6. d = r
    BY <2>3, <2>4, <2>5, SimEqual
  <2> QED
    BY <2>1, <2>6
<1> HIDE DEF r
<1>8. /\ r.objects = s.objects /\ r.entities = s.entities /\ r.scheduled = s.scheduled
       /\ r.points = g.points /\ r.level = l.level /\ r.ok = s.ok /\ r.m_tGraphID[c] = v
       /\ r.ID_Parent[c] = None /\ r.m_bOnline[c] = s.m_bOnline[c] /\ r.dead[c] = s.dead[c]
       /\ \A q \in ID : c \in r.children[q] <=> q # p /\ c \in s.children[q]
  BY <1>6, <1>7, <1>9, <1>11 DEF FactsChange, ChildrenChange
<1>13. Listed(r, c)
  BY <1>0, <1>4, <1>6, <1>8 DEF Listed, need_update
<1>14. About(c, s, r)
  BY <1>2, <1>5, <1>9, <1>11, AboutJoins DEF FactsChange, ChildrenChange
<1> QED
  BY <1>8, <1>12, <1>13, <1>14 DEF PutDown

\* One fact about c at a time.
WithOnline(s, c, online) == [s EXCEPT !.m_bOnline[c] = online]
WithDead(s, c, dead) == [s EXCEPT !.dead[c] = dead]
WithParent(s, c, p) == [s EXCEPT !.ID_Parent[c] = p]
WithGraph(s, c, v) == [s EXCEPT !.m_tGraphID[c] = v]

LEMMA OnlineChanges ==
    ASSUME NEW s \in Sim, NEW c \in ID, NEW b \in BOOLEAN
    PROVE  /\ WithOnline(s, c, b) \in Sim
           /\ FactsChange(s, WithOnline(s, c, b), c, b, s.dead[c], s.ID_Parent[c], s.m_tGraphID[c])
<1> DEFINE on == [s.m_bOnline EXCEPT ![c] = b]
           r == [s EXCEPT !.m_bOnline = on]
<1>1. on \in [ID -> BOOLEAN] /\ on[c] = b /\ \A x \in ID \ {c} : on[x] = s.m_bOnline[x]
  BY DEF Sim
<1>2. WithOnline(s, c, b) = r
  BY DEF WithOnline
<1> HIDE DEF on
<1>3. OnlyIn({"m_bOnline"}, s, r) /\ r.m_bOnline = on
  BY <1>1 DEF OnlyIn, Field, Sim
<1> HIDE DEF r
<1> QED
  BY <1>1, <1>2, <1>3 DEF OnlyIn, Field, FactsChange, About, SameFor

LEMMA DeadChanges ==
    ASSUME NEW s \in Sim, NEW c \in ID, NEW b \in BOOLEAN
    PROVE  /\ WithDead(s, c, b) \in Sim
           /\ FactsChange(s, WithDead(s, c, b), c, s.m_bOnline[c], b, s.ID_Parent[c], s.m_tGraphID[c])
<1> DEFINE de == [s.dead EXCEPT ![c] = b]
           r == [s EXCEPT !.dead = de]
<1>1. de \in [ID -> BOOLEAN] /\ de[c] = b /\ \A x \in ID \ {c} : de[x] = s.dead[x]
  BY DEF Sim
<1>2. WithDead(s, c, b) = r
  BY DEF WithDead
<1> HIDE DEF de
<1>3. OnlyIn({"dead"}, s, r) /\ r.dead = de
  BY <1>1 DEF OnlyIn, Field, Sim
<1> HIDE DEF r
<1> QED
  BY <1>1, <1>2, <1>3 DEF OnlyIn, Field, FactsChange, About, SameFor

LEMMA ParentChanges ==
    ASSUME NEW s \in Sim, NEW c \in ID, NEW p \in ID \cup {None}
    PROVE  /\ WithParent(s, c, p) \in Sim
           /\ FactsChange(s, WithParent(s, c, p), c, s.m_bOnline[c], s.dead[c], p, s.m_tGraphID[c])
<1> DEFINE pa == [s.ID_Parent EXCEPT ![c] = p]
           r == [s EXCEPT !.ID_Parent = pa]
<1>1. pa \in [ID -> ID \cup {None}] /\ pa[c] = p /\ \A x \in ID \ {c} : pa[x] = s.ID_Parent[x]
  BY DEF Sim
<1>2. WithParent(s, c, p) = r
  BY DEF WithParent
<1> HIDE DEF pa
<1>3. OnlyIn({"ID_Parent"}, s, r) /\ r.ID_Parent = pa
  BY <1>1 DEF OnlyIn, Field, Sim
<1> HIDE DEF r
<1> QED
  BY <1>1, <1>2, <1>3 DEF OnlyIn, Field, FactsChange, About, SameFor

LEMMA GraphChanges ==
    ASSUME NEW s \in Sim, NEW c \in ID, NEW v \in Vertex
    PROVE  /\ WithGraph(s, c, v) \in Sim
           /\ FactsChange(s, WithGraph(s, c, v), c, s.m_bOnline[c], s.dead[c], s.ID_Parent[c], v)
<1> DEFINE gr == [s.m_tGraphID EXCEPT ![c] = v]
           r == [s EXCEPT !.m_tGraphID = gr]
<1>1. gr \in [ID -> Vertex] /\ gr[c] = v /\ \A x \in ID \ {c} : gr[x] = s.m_tGraphID[x]
  BY DEF Sim
<1>2. WithGraph(s, c, v) = r
  BY DEF WithGraph
<1> HIDE DEF gr
<1>3. OnlyIn({"m_tGraphID"}, s, r) /\ r.m_tGraphID = gr
  BY <1>1 DEF OnlyIn, Field, Sim
<1> HIDE DEF r
<1> QED
  BY <1>1, <1>2, <1>3 DEF OnlyIn, Field, FactsChange, About, SameFor

-----------------------------------------------------------------------------
(* The server takes an object from the hands of p, destroys or releases it. *)

\* c lies, online, at the point v; it is registered if it can be.
Loose(s, c, v) ==
    /\ c \in s.objects <=> c \notin Unsavable
    /\ s.m_bOnline[c] /\ s.ID_Parent[c] = None /\ s.m_tGraphID[c] = v
    /\ \A q \in ID : c \notin s.children[q]
    /\ Listed(s, c)

\* OnDetach leaves c, which p held, at p's place; only its parent is still p.
Detached(s, r, p, c) ==
    /\ About(c, s, r) /\ r.ok = s.ok /\ (c \in r.entities <=> c \in s.entities)
    /\ c \in r.objects <=> c \notin Unsavable
    /\ r.m_bOnline[c] /\ r.m_tGraphID[c] = s.m_tGraphID[p]
    /\ \A h \in ID : c \in r.children[h] <=> h = p
    /\ \A w \in Vertex : c \notin r.points[w]
    /\ c \in r.level.m_objects <=> c \notin Unsavable
    /\ c \notin r.scheduled.m_objects

LEMMA OnDetachDoes ==
    ASSUME NEW s \in Sim, NEW c \in Item, NEW p \in ID, p \in s.objects, s.m_tGraphID[p] \in Near,
           s.ID_Parent[c] = p, \A q \in ID : c \in s.children[q] <=> q = p,
           Listed(s, c), s.m_bOnline[c], c \in s.objects => c \notin Unsavable
    PROVE  Detached(s, OnDetach(s, p, c), p, c)
<1> DEFINE v == s.m_tGraphID[p]
           d == OnDetach(s, p, c)
<1>0. c \in ID /\ c \notin Creature /\ p # None /\ v \in Vertex /\ v \in Near /\ None \in ID \cup {None}
  BY IdsAreNaturals DEF Sim
<1>9. v = s.m_tGraphID[p]
  OBVIOUS
<1> HIDE DEF v
<1>1. c \notin s.level.m_objects
  BY <1>0 DEF Listed
<1>2. CASE c \in s.objects
  <2> DEFINE g == WithGraph(s, c, v)
             l == LevelAdd(g, c)
  <2>1. d = l
    <3>1. d = LevelAdd([Check(s, v \in Near) EXCEPT !.m_tGraphID[c] = v], c)
      BY <1>1, <1>2, <1>9 DEF OnDetach, detach
    <3>2. Check(s, v \in Near) = s
      BY <1>0 DEF Check, Sim
    <3> QED
      BY <3>1, <3>2 DEF WithGraph
  <2>2. FactsChange(s, g, c, s.m_bOnline[c], s.dead[c], s.ID_Parent[c], v)
    BY <1>0, GraphChanges
  <2> HIDE DEF g
  <2>3. g \in Sim /\ About(c, s, g)
    BY <2>2 DEF FactsChange, About
  <2>4. About(c, g, l) /\ OnlyIn({"ok", "level"}, g, l)
    BY <1>0, <2>3, LevelAddAbout, LevelAddDoes
  <2>5. g.m_tGraphID[c] \in Near /\ c \notin g.level.m_objects /\ g.ok = s.ok
    BY <1>0, <1>1, <2>2 DEF FactsChange
  <2>6. l.ok = s.ok /\ c \in l.level.m_objects
    BY <1>0, <2>3, <2>5, LevelAddDoes DEF Sim
  <2>7. About(c, s, l)
    BY <2>3, <2>4, AboutJoins
  <2> HIDE DEF l
  <2>8. /\ l.objects = g.objects /\ l.entities = g.entities /\ l.m_bOnline = g.m_bOnline
        /\ l.m_tGraphID = g.m_tGraphID /\ l.children = g.children
        /\ l.points = g.points /\ l.scheduled = g.scheduled
    BY <2>4 DEF OnlyIn, Field
  <2>9. Detached(s, l, p, c)
    <3>1. c \notin s.scheduled.m_objects /\ \A w \in Vertex : c \notin s.points[w]
      BY <1>0, <1>2 DEF Listed, need_update
    <3>2. l.m_bOnline[c] /\ l.m_tGraphID[c] = v /\ l.entities = s.entities /\ l.objects = s.objects
          /\ l.children = s.children /\ l.points = s.points /\ l.scheduled = s.scheduled
      BY <2>2, <2>8 DEF FactsChange
    <3> QED
      BY <1>2, <1>9, <2>6, <2>7, <3>1, <3>2 DEF Detached
  <2> QED
    BY <2>1, <2>9
<1>3. CASE c \notin s.objects
  <2> DEFINE a1 == WithParent(s, c, None)
             a2 == WithGraph(a1, c, v)
             a == WithOnline(a2, c, TRUE)
             n == create(a, c)
             w == WithParent(n, c, p)
  <2>1. d = w
    <3> DEFINE b == [s EXCEPT !.ID_Parent[c] = None, !.m_tGraphID[c] = v, !.m_bOnline[c] = TRUE]
    <3>1. d = [create(b, c) EXCEPT !.ID_Parent[c] = s.ID_Parent[c]]
      BY <1>3, <1>9 DEF OnDetach
    <3>2. b = a
      BY DEF WithOnline, WithGraph, WithParent, Sim
    <3> HIDE DEF a, b
    <3> QED
      BY <3>1, <3>2 DEF WithParent
  <2> HIDE DEF n, w
  <2>2. FactsChange(s, a1, c, s.m_bOnline[c], s.dead[c], None, s.m_tGraphID[c]) /\ a1 \in Sim
    BY <1>0, ParentChanges
  <2> HIDE DEF a1
  <2>3. FactsChange(a1, a2, c, a1.m_bOnline[c], a1.dead[c], a1.ID_Parent[c], v) /\ a2 \in Sim
    BY <1>0, <2>2, GraphChanges
  <2> HIDE DEF a2
  <2>4. FactsChange(a2, a, c, TRUE, a2.dead[c], a2.ID_Parent[c], a2.m_tGraphID[c])
    BY <1>0, <2>3, OnlineChanges
  <2> HIDE DEF a
  <2>5. a \in Sim /\ About(c, s, a)
    BY <2>2, <2>3, <2>4, AboutJoins DEF FactsChange, About
  <2>6. /\ a.objects = s.objects /\ a.entities = s.entities /\ a.children = s.children
        /\ a.points = s.points /\ a.level = s.level /\ a.scheduled = s.scheduled /\ a.ok = s.ok
        /\ a.m_bOnline[c] = TRUE /\ a.ID_Parent[c] = None /\ a.m_tGraphID[c] = v
    BY <2>2, <2>3, <2>4 DEF FactsChange
  <2>7. Listed(a, c)
    BY <1>0, <1>3, <2>6 DEF Listed, need_update
  <2>8. /\ About(c, a, n) /\ Alike(a, n, c) /\ n.ok = a.ok /\ (c \in n.objects <=> c \notin Unsavable) /\ Listed(n, c)
    <3>1. CASE c \in Unsavable
      <4>1. n = a
        BY <3>1 DEF create, n
      <4> QED
        BY <1>3, <2>5, <2>6, <2>7, <3>1, <4>1, AboutItself DEF Alike
    <3>2. CASE c \notin Unsavable
      <4>1. n = register_object(a, c)
        BY <2>6, <3>2 DEF create, n
      <4>2. LET r == register_object(a, c) IN
            About(c, a, r) /\ Alike(a, r, c) /\ r.ok = a.ok /\ c \in r.objects /\ Listed(r, c)
        BY <1>0, <1>3, <2>5, <2>6, <2>7, RegisterFree
      <4> QED
        BY <3>2, <4>1, <4>2
    <3> QED
      BY <3>1, <3>2
  <2>9. FactsChange(n, w, c, n.m_bOnline[c], n.dead[c], p, n.m_tGraphID[c])
    BY <1>0, <2>8, ParentChanges DEF About, w
  <2>10. About(c, s, w)
    BY <2>5, <2>8, <2>9, AboutJoins DEF FactsChange
  <2>11. Detached(s, w, p, c)
    <3>1. /\ w.ok = s.ok /\ (c \in w.entities <=> c \in s.entities)
          /\ c \in w.objects <=> c \notin Unsavable
          /\ w.m_bOnline[c] /\ w.m_tGraphID[c] = v
          /\ \A h \in ID : c \in w.children[h] <=> h = p
      BY <2>6, <2>8, <2>9 DEF FactsChange, Alike
    <3>2. /\ \A x \in Vertex : c \notin w.points[x]
          /\ c \in w.level.m_objects <=> c \notin Unsavable
          /\ c \notin w.scheduled.m_objects
      BY <1>0, <2>6, <2>8, <2>9 DEF FactsChange, Alike, Listed, need_update
    <3> QED
      BY <1>9, <2>10, <3>1, <3>2 DEF Detached
  <2> QED
    BY <2>1, <2>11
<1> QED
  BY <1>2, <1>3

\* Process_event_reject of an item in the hands of p.
LEMMA RejectDoes ==
    ASSUME NEW s \in Sim, NEW c \in Item, NEW p \in ID, p \in s.objects, s.m_tGraphID[p] \in Near,
           s.ID_Parent[c] = p, \A q \in ID : c \in s.children[q] <=> q = p,
           Listed(s, c), s.m_bOnline[c], c \in s.objects => c \notin Unsavable
    PROVE  LET r == Process_event_reject(s, p, c) IN
           /\ About(c, s, r) /\ r.ok = s.ok /\ (c \in r.entities <=> c \in s.entities)
           /\ Loose(r, c, s.m_tGraphID[p])
<1> DEFINE d == OnDetach(s, p, c)
           f == WithParent(d, c, None)
           r == WithoutChild(f, p, c)
<1>0. c \in ID /\ c \notin Creature /\ None \in ID \cup {None}
  BY IdsAreNaturals
<1>1. Detached(s, d, p, c)
  BY OnDetachDoes
<1> HIDE DEF d
<1>2. d \in Sim
  BY <1>1 DEF Detached, About
<1>3. Process_event_reject(s, p, c) = r
  <2>1. Process_event_reject(s, p, c) = [d EXCEPT !.ID_Parent[c] = None, !.children[p] = @ \ {c}]
    BY DEF Process_event_reject, d
  <2>2. [d EXCEPT !.ID_Parent[c] = None, !.children[p] = @ \ {c}] = r
    BY <1>2 DEF WithoutChild, WithChildren, WithParent, Sim
  <2> QED
    BY <2>1, <2>2
<1>4. FactsChange(d, f, c, d.m_bOnline[c], d.dead[c], None, d.m_tGraphID[c])
  BY <1>0, <1>2, ParentChanges
<1> HIDE DEF f
<1>5. ChildrenChange(f, r, p, c, f.children[p] \ {c})
  BY <1>0, <1>4, ChildMoves DEF FactsChange, About
<1> HIDE DEF r
<1>6. About(c, s, r)
  BY <1>1, <1>4, <1>5, AboutJoins DEF Detached, FactsChange, ChildrenChange
<1>7. /\ r.ok = d.ok /\ r.entities = d.entities /\ r.m_bOnline[c] = d.m_bOnline[c] /\ r.ID_Parent[c] = None
      /\ r.m_tGraphID[c] = d.m_tGraphID[c] /\ r.objects = d.objects /\ r.points = d.points
      /\ r.level = d.level /\ r.scheduled = d.scheduled
      /\ \A q \in ID \ {p} : r.children[q] = d.children[q]
      /\ r.children[p] = d.children[p] \ {c}
  BY <1>0, <1>4, <1>5 DEF FactsChange, ChildrenChange
<1>8. /\ r.ok = s.ok /\ (c \in r.entities <=> c \in s.entities) /\ r.m_bOnline[c]
      /\ r.m_tGraphID[c] = s.m_tGraphID[p]
      /\ \A q \in ID : c \notin r.children[q]
  BY <1>1, <1>7 DEF Detached
<1>9. Loose(r, c, s.m_tGraphID[p])
  BY <1>0, <1>1, <1>7, <1>8 DEF Detached, Loose, Listed, need_update
<1> QED
  BY <1>3, <1>6, <1>8, <1>9

\* Who has no children still has none after a step about him.
LEMMA NoChildren ==
    ASSUME NEW s \in Sim, NEW r, NEW c \in ID, About(c, s, r), s.children[c] = {}, c \notin r.children[c]
    PROVE  r.children[c] = {}
BY DEF About, SameFor, Sim

\* release_one of somebody offline leaves nothing of him.
LEMMA ReleaseOneDoes ==
    ASSUME NEW s \in Sim, NEW c \in ID, c \in s.objects, ~s.m_bOnline[c],
           Listed(s, c), Held(s, c), s.children[c] = {}
    PROVE  LET r == release_one(s, c, TRUE) IN About(c, s, r) /\ r.ok = s.ok /\ Absent(r, c)
<1> DEFINE u == unregister_object(s, c, TRUE)
<1>0. None \notin ID /\ Item \subseteq ID
  BY IdsAreNaturals
<1>1. /\ About(c, s, u) /\ u.ok = s.ok /\ Unlisted(u, c)
      /\ \A q \in ID : c \notin u.children[q]
  <2>1. CASE s.ID_Parent[c] = None
    <3>1. About(c, s, u) /\ Alike(s, u, c) /\ u.ok = s.ok /\ Unlisted(u, c)
      BY <2>1, UnregisterFree
    <3> HIDE DEF u
    <3> QED
      BY <1>0, <2>1, <3>1 DEF Alike, Held
  <2>2. CASE s.ID_Parent[c] # None
    <3> DEFINE p == s.ID_Parent[c]
               d == detach(s, p, c, TRUE)
    <3>1. /\ c \in Item /\ p \in ID /\ c \in s.children[p] /\ p = s.ID_Parent[c]
          /\ \A q \in ID : c \in s.children[q] <=> q = p
      BY <2>2 DEF Held, Sim
    <3> HIDE DEF p
    <3>2. /\ About(c, s, d) /\ d.ok = s.ok /\ Listed(d, c) /\ c \in d.objects
          /\ d.ID_Parent[c] = None /\ d.m_bOnline[c] = s.m_bOnline[c]
          /\ \A q \in ID : c \in d.children[q] <=> q # p /\ c \in s.children[q]
      <4>1. PutDown(s, d, p, c)
        BY <3>1, DetachOffline
      <4> HIDE DEF d
      <4> QED
        BY <4>1 DEF PutDown
    <3>3. d \in Sim /\ ~d.m_bOnline[c]
      BY <3>2 DEF About
    <3>4. u = unregister_object(d, c, TRUE)
      <4> DEFINE From(q) == IF c \in Item /\ q.ID_Parent[c] # None THEN detach(q, q.ID_Parent[c], c, TRUE) ELSE q
                 Left(q, b) == [Check(q, b) EXCEPT !.objects = @ \ {c}]
                 Rest(q) == IF ~q.m_bOnline[c]
                            THEN ScheduledRemove(GraphRemove(q, c, q.m_tGraphID[c], TRUE), c)
                            ELSE IF q.ID_Parent[c] = None THEN LevelRemove(q, c, FALSE) ELSE q
      <4>1. u = Rest(Left(From(s), c \in s.objects))
        BY DEF unregister_object
      <4>2. unregister_object(d, c, TRUE) = Rest(Left(From(d), c \in d.objects))
        BY DEF unregister_object
      <4>3. From(s) = d /\ From(d) = d
        BY <2>2, <3>1, <3>2
      <4>4. (c \in s.objects) = (c \in d.objects)
        <5> HIDE DEF d
        <5> QED
          BY <3>2
      <4> HIDE DEF u, d, Left, Rest, From
      <4> QED
        BY <4>1, <4>2, <4>3, <4>4
    <3> HIDE DEF d, u
    <3>5. About(c, d, u) /\ Alike(d, u, c) /\ u.ok = d.ok /\ Unlisted(u, c)
      BY <3>2, <3>3, <3>4, UnregisterFree
    <3>6. About(c, s, u)
      BY <3>2, <3>5, AboutJoins
    <3>7. \A q \in ID : c \notin u.children[q]
      BY <3>1, <3>2, <3>5 DEF Alike
    <3> QED
      BY <3>2, <3>5, <3>6, <3>7
  <2> QED
    BY <2>1, <2>2
<1> HIDE DEF u
<1>2. u \in Sim /\ u.children[c] = {}
  BY <1>1, NoChildren DEF About
<1>3. LET r == entity_Destroy(u, c) IN About(c, u, r) /\ r.ok = u.ok /\ Absent(r, c)
  BY <1>1, <1>2, Vanishes
<1>4. release_one(s, c, TRUE) = entity_Destroy(u, c)
  BY DEF release_one, u
<1> QED
  BY <1>1, <1>3, <1>4, AboutJoins

\* Who is online in nobody's hands is unregistered and destroyed.
LEMMA DestroyFree ==
    ASSUME NEW s \in Sim, NEW c \in ID, s.m_bOnline[c], Listed(s, c), s.ID_Parent[c] = None,
           s.children[c] = {}, \A q \in ID : c \notin s.children[q],
           c \in s.objects => s.m_tGraphID[c] \in Near
    PROVE  LET r == entity_Destroy(IF c \in s.objects THEN release_one(s, c, FALSE) ELSE s, c)
           IN About(c, s, r) /\ r.ok = s.ok /\ Absent(r, c)
<1> DEFINE u == IF c \in s.objects THEN release_one(s, c, FALSE) ELSE s
<1>1. /\ About(c, s, u) /\ u.ok = s.ok /\ Unlisted(u, c)
      /\ \A q \in ID : c \notin u.children[q]
  <2>1. CASE c \in s.objects
    <3>1. u = unregister_object(s, c, FALSE)
      BY <2>1 DEF release_one
    <3> HIDE DEF u
    <3>2. About(c, s, u) /\ Alike(s, u, c) /\ u.ok = s.ok /\ Unlisted(u, c)
      BY <2>1, <3>1, UnregisterFree
    <3> QED
      BY <3>2 DEF Alike
  <2>2. CASE c \notin s.objects
    BY <2>2, AboutItself DEF Listed, Unlisted
  <2> QED
    BY <2>1, <2>2
<1> HIDE DEF u
<1>2. u \in Sim /\ u.children[c] = {}
  BY <1>1, NoChildren DEF About
<1>3. LET r == entity_Destroy(u, c) IN About(c, u, r) /\ r.ok = u.ok /\ Absent(r, c)
  BY <1>1, <1>2, Vanishes
<1>4. LET r == entity_Destroy(u, c) IN About(c, s, r) /\ r.ok = s.ok /\ Absent(r, c)
  BY <1>1, <1>3, AboutJoins
<1> QED
  BY <1>4 DEF u

LEMMA DestroyOneDoes ==
    ASSUME NEW s \in Sim, NEW c \in ID, s.m_bOnline[c], Listed(s, c), Settled(s, c), Held(s, c),
           s.children[c] = {}, s.ID_Parent[c] # None => s.m_tGraphID[s.ID_Parent[c]] \in Near
    PROVE  LET r == destroy_one(s, c) IN About(c, s, r) /\ r.ok = s.ok /\ Absent(r, c)
<1>0. None \notin ID /\ Item \subseteq ID /\ Holder \subseteq ID
  BY IdsAreNaturals
<1>1. CASE s.ID_Parent[c] = None
  <2>1. /\ \A q \in ID : c \notin s.children[q]
        /\ c \in s.objects => s.m_tGraphID[c] \in Near
    BY <1>0, <1>1 DEF Held, Settled
  <2>2. destroy_one(s, c) = entity_Destroy(IF c \in s.objects THEN release_one(s, c, FALSE) ELSE s, c)
    BY <1>1 DEF destroy_one
  <2> QED
    BY <1>1, <2>1, <2>2, DestroyFree
<1>2. CASE s.ID_Parent[c] # None
  <2> DEFINE p == s.ID_Parent[c]
             l == Process_event_reject(s, p, c)
  <2>1. /\ c \in Item /\ p \in ID /\ p \in s.objects /\ s.m_tGraphID[p] \in Near
        /\ (\A q \in ID : c \in s.children[q] <=> q = p) /\ (c \in s.objects => c \notin Unsavable)
    BY <1>0, <1>2 DEF Held, Settled
  <2>2. About(c, s, l) /\ l.ok = s.ok /\ Loose(l, c, s.m_tGraphID[p])
    BY <2>1, RejectDoes
  <2>3. destroy_one(s, c) = entity_Destroy(IF c \in l.objects THEN release_one(l, c, FALSE) ELSE l, c)
    BY <1>2 DEF destroy_one
  <2> HIDE DEF l
  <2>4. l \in Sim /\ l.children[c] = {}
    BY <2>2, NoChildren DEF About, Loose
  <2>5. LET r == entity_Destroy(IF c \in l.objects THEN release_one(l, c, FALSE) ELSE l, c)
        IN About(c, l, r) /\ r.ok = l.ok /\ Absent(r, c)
    BY <2>1, <2>2, <2>4, DestroyFree DEF Loose
  <2> QED
    BY <2>2, <2>3, <2>5, AboutJoins
<1> QED
  BY <1>1, <1>2

\* The body of Perform_destroy's loop: who is savable stays, registered, online, no entity.
LEMMA DropDoes ==
    ASSUME NEW s \in Sim, NEW c \in Item, NEW p \in ID, p \in s.objects, s.m_tGraphID[p] \in Near,
           s.ID_Parent[c] = p, \A q \in ID : c \in s.children[q] <=> q = p,
           Listed(s, c), s.m_bOnline[c], c \in s.objects => c \notin Unsavable, s.children[c] = {}
    PROVE  LET r == entity_Destroy(Process_event_reject(s, p, c), c) IN
           /\ About(c, s, r) /\ r.ok = s.ok
           /\ IF c \in Unsavable THEN Absent(r, c)
              ELSE c \notin r.entities /\ Loose(r, c, s.m_tGraphID[p])
<1> DEFINE l == Process_event_reject(s, p, c)
           r == entity_Destroy(l, c)
<1>0. c \in ID
  BY IdsAreNaturals
<1>1. About(c, s, l) /\ l.ok = s.ok /\ Loose(l, c, s.m_tGraphID[p])
  BY RejectDoes
<1> HIDE DEF l
<1>2. l \in Sim /\ l.children[c] = {}
  BY <1>0, <1>1, NoChildren DEF About, Loose
<1>3. CASE c \in Unsavable
  <2>1. Unlisted(l, c) /\ \A q \in ID : c \notin l.children[q]
    BY <1>1, <1>3 DEF Loose, Listed, Unlisted
  <2>2. About(c, l, r) /\ r.ok = l.ok /\ Absent(r, c)
    BY <1>0, <1>2, <2>1, Vanishes
  <2> HIDE DEF r
  <2>3. About(c, s, r)
    BY <1>1, <2>2, AboutJoins
  <2> QED
    BY <1>1, <1>3, <2>2, <2>3 DEF l, r
<1>4. CASE c \notin Unsavable
  <2>1. About(c, l, r)
    BY <1>0, <1>2, EntityDestroyAbout
  <2>2. Erased(l, r, c) /\ c \in l.objects
    BY <1>0, <1>1, <1>2, <1>4, EntityDestroyDoes DEF Loose
  <2> HIDE DEF r
  <2>3. About(c, s, r)
    BY <1>1, <2>1, AboutJoins
  <2>4. /\ r.m_bOnline = l.m_bOnline /\ r.dead = l.dead /\ r.ID_Parent = l.ID_Parent
        /\ r.m_tGraphID = l.m_tGraphID /\ r.children = l.children
    BY <2>2 DEF Erased, OnlyIn, Field
  <2>5. c \notin r.entities /\ Loose(r, c, s.m_tGraphID[p]) /\ r.ok = s.ok
    BY <1>1, <1>4, <2>2, <2>4 DEF Erased, Loose, Listed, need_update
  <2> QED
    BY <1>4, <2>3, <2>5 DEF l, r
<1> QED
  BY <1>3, <1>4

\* c is offline in the hands of p.
InHands(s, p, c) ==
    /\ c \in s.objects /\ c \notin s.entities /\ ~s.m_bOnline[c] /\ s.ID_Parent[c] = p
    /\ \A q \in ID : c \in s.children[q] <=> q = p
    /\ Listed(s, c)

\* The body of add_offline's loop.
LEMMA PutBackDoes ==
    ASSUME NEW s \in Sim, NEW p \in ID, NEW c \in Item, NEW v \in Vertex, Loose(s, c, v),
           c \notin Unsavable, c \notin s.entities
    PROVE  LET r == put_back(s, p, c) IN About(c, s, r) /\ r.ok = s.ok /\ InHands(r, p, c)
<1> DEFINE o == WithOnline(s, c, FALSE)
           g == GraphAdd(o, c, v, FALSE)
           t == GraphRemove(g, c, v, FALSE)
           far == v \notin Near
           l == LevelRemove(t, c, far)
           f == WithParent(l, c, p)
           r == WithChild(f, p, c)
<1>0. c \in ID /\ c \notin Creature /\ p # None /\ FALSE \in BOOLEAN /\ p \in ID \cup {None}
  BY IdsAreNaturals
<1>1. /\ c \in s.objects /\ s.m_tGraphID[c] = v /\ s.ID_Parent[c] = None
      /\ (\A q \in ID : c \notin s.children[q]) /\ (c \in s.level.m_objects <=> v \in Near)
      /\ (\A w \in Vertex : c \notin s.points[w]) /\ c \notin s.scheduled.m_objects
  BY <1>0 DEF Loose, Listed, need_update
<1>2. o \in Sim /\ FactsChange(s, o, c, FALSE, s.dead[c], s.ID_Parent[c], s.m_tGraphID[c])
  BY <1>0, OnlineChanges
<1>3. put_back(s, p, c) = attach(GraphAdd(o, c, v, FALSE), p, c, v, TRUE)
  <2>1. Check(s, c \in s.objects) = s
    BY <1>1 DEF Check, Sim
  <2> QED
    BY <1>1, <2>1 DEF put_back, WithOnline
<1> HIDE DEF o
<1>4. Placed(o, g, c, v) /\ About(c, o, g)
  BY <1>0, <1>2, GraphAddDoes, GraphAbout DEF FactsChange
<1> HIDE DEF g
<1>5. /\ g \in Sim /\ g.objects = s.objects /\ g.level = s.level /\ g.scheduled = s.scheduled
      /\ g.entities = s.entities /\ g.children = s.children /\ g.m_bOnline[c] = FALSE
  BY <1>2, <1>4 DEF FactsChange, Placed, OnlyIn, Field
<1>6. /\ g.ok = s.ok /\ \A w \in Vertex : c \in g.points[w] <=> w = v
  BY <1>1, <1>2, <1>4 DEF FactsChange, Placed, Sim
<1>7. /\ Taken(g, t, c, v) /\ GraphRemove(g, c, v, TRUE) = l /\ About(c, g, t)
  BY <1>0, <1>5, GraphRemoveDoes, GraphAbout
<1> HIDE DEF t
<1>8. /\ t \in Sim /\ t.objects = s.objects /\ t.level = s.level /\ t.scheduled = s.scheduled
      /\ t.entities = s.entities /\ t.children = s.children /\ t.m_bOnline[c] = FALSE
  BY <1>5, <1>7 DEF Taken, OnlyIn, Field
<1>9. /\ t.ok = s.ok /\ \A w \in Vertex : c \notin t.points[w]
  BY <1>5, <1>6, <1>7 DEF Taken, Sim
<1>10. far \in BOOLEAN
  OBVIOUS
<1> HIDE DEF far
<1>11. /\ About(c, t, l) /\ OnlyIn({"ok", "level"}, t, l) /\ l.level.m_objects = t.level.m_objects \ {c}
       /\ l.ok = (t.ok /\ (far \/ c \in t.level.m_objects))
  BY <1>0, <1>8, <1>10, LevelRemoveAbout, LevelRemoveDoes
<1> HIDE DEF l
<1>12. /\ l \in Sim /\ l.objects = s.objects /\ l.scheduled = s.scheduled /\ l.points = t.points
       /\ l.entities = s.entities /\ l.children = s.children /\ l.m_bOnline[c] = FALSE
       /\ l.ok = s.ok /\ c \notin l.level.m_objects
  BY <1>1, <1>8, <1>9, <1>11 DEF OnlyIn, Field, far, Sim
<1>13. put_back(s, p, c) = r
  <2>1. put_back(s, p, c) = [Check(l, c \notin g.children[p]) EXCEPT !.ID_Parent[c] = p, !.children[p] = @ \cup {c}]
    BY <1>3, <1>7 DEF attach, g
  <2>2. Check(l, c \notin g.children[p]) = l
    BY <1>1, <1>5, <1>12 DEF Check, Sim
  <2>3. [l EXCEPT !.ID_Parent[c] = p, !.children[p] = @ \cup {c}] = r
    BY <1>12 DEF WithChild, WithChildren, WithParent, Sim
  <2> QED
    BY <2>1, <2>2, <2>3
<1>14. f \in Sim /\ FactsChange(l, f, c, l.m_bOnline[c], l.dead[c], p, l.m_tGraphID[c])
  BY <1>0, <1>12, ParentChanges
<1> HIDE DEF f
<1>15. ChildrenChange(f, r, p, c, f.children[p] \cup {c})
  BY <1>0, <1>14, ChildMoves
<1> HIDE DEF r
<1>16. /\ r.objects = l.objects /\ r.entities = l.entities /\ r.m_bOnline[c] = l.m_bOnline[c]
       /\ r.ID_Parent[c] = p /\ r.points = l.points /\ r.level = l.level /\ r.scheduled = l.scheduled /\ r.ok = l.ok
       /\ r.children[p] = l.children[p] \cup {c} /\ \A q \in ID \ {p} : r.children[q] = l.children[q]
  BY <1>14, <1>15 DEF FactsChange, ChildrenChange
<1>17. InHands(r, p, c)
  BY <1>0, <1>1, <1>9, <1>12, <1>16 DEF InHands, Listed, need_update
<1>18. About(c, s, o) /\ About(c, l, f) /\ About(c, f, r)
  BY <1>2, <1>14, <1>15 DEF FactsChange, ChildrenChange
<1>19. About(c, s, r)
  BY <1>4, <1>7, <1>11, <1>18, AboutJoins
<1> QED
  BY <1>12, <1>13, <1>16, <1>17, <1>19

-----------------------------------------------------------------------------
(* The loops over what p holds.                                            *)

LoopNames == {"release", "drop", "destroy", "return"}

\* The body of the loop may be run for x.
Ready(loop, s, p, v, x) ==
    /\ s.children[x] = {}
    /\ loop # "return" => s.ID_Parent[x] = p /\ Listed(s, x) /\ \A q \in ID : x \in s.children[q] <=> q = p
    /\ loop \in {"release", "destroy"} => Held(s, x)
    /\ loop = "release" => x \in s.objects /\ ~s.m_bOnline[x]
    /\ loop = "destroy" => s.m_bOnline[x] /\ Settled(s, x) /\ s.m_tGraphID[p] \in Near
    /\ loop = "drop" => /\ s.m_bOnline[x] /\ s.m_tGraphID[p] \in Near /\ s.m_tGraphID[p] = v
                        /\ p \in s.objects /\ (x \in s.objects => x \notin Unsavable)
    /\ loop = "return" => Loose(s, x, v) /\ x \notin Unsavable /\ x \notin s.entities

\* It was run for x.
Done(loop, s, p, v, x) ==
    /\ loop \in {"release", "destroy"} => Absent(s, x)
    /\ loop = "drop" => IF x \in Unsavable THEN Absent(s, x) ELSE x \notin s.entities /\ Loose(s, x, v)
    /\ loop = "return" => InHands(s, p, x)

LEMMA BodyDoes ==
    ASSUME NEW loop \in LoopNames, NEW s \in Sim, NEW p \in Holder, NEW v \in Vertex, NEW x \in Item,
           Ready(loop, s, p, v, x)
    PROVE  LET r == Body(loop, s, p, x) IN About(x, s, r) /\ r.ok = s.ok /\ Done(loop, r, p, v, x)
<1>0. x \in ID /\ p \in ID /\ p # None /\ None \notin ID
  BY IdsAreNaturals
<1>1. CASE loop = "release"
  <2>1. Body(loop, s, p, x) = release_one(s, x, TRUE)
    BY <1>1 DEF Body
  <2>2. x \in s.objects /\ ~s.m_bOnline[x] /\ Listed(s, x) /\ Held(s, x) /\ s.children[x] = {}
    BY <1>1 DEF Ready
  <2>3. LET r == release_one(s, x, TRUE) IN About(x, s, r) /\ r.ok = s.ok /\ Absent(r, x)
    BY <1>0, <2>2, ReleaseOneDoes
  <2> QED
    BY <1>1, <2>1, <2>3 DEF Done
<1>2. CASE loop = "destroy"
  <2>1. Body(loop, s, p, x) = destroy_one(s, x)
    BY <1>2 DEF Body
  <2>2. /\ s.m_bOnline[x] /\ Listed(s, x) /\ Settled(s, x) /\ Held(s, x) /\ s.children[x] = {}
        /\ s.m_tGraphID[s.ID_Parent[x]] \in Near
    BY <1>2 DEF Ready
  <2>3. LET r == destroy_one(s, x) IN About(x, s, r) /\ r.ok = s.ok /\ Absent(r, x)
    BY <1>0, <2>2, DestroyOneDoes
  <2> QED
    BY <1>2, <2>1, <2>3 DEF Done
<1>3. CASE loop = "drop"
  <2>1. Body(loop, s, p, x) = entity_Destroy(Process_event_reject(s, p, x), x)
    BY <1>3 DEF Body
  <2>2. /\ p \in s.objects /\ s.m_tGraphID[p] \in Near /\ s.m_tGraphID[p] = v /\ s.ID_Parent[x] = p
        /\ (\A q \in ID : x \in s.children[q] <=> q = p) /\ Listed(s, x) /\ s.m_bOnline[x]
        /\ (x \in s.objects => x \notin Unsavable) /\ s.children[x] = {}
    BY <1>3 DEF Ready
  <2>3. LET r == entity_Destroy(Process_event_reject(s, p, x), x) IN
        /\ About(x, s, r) /\ r.ok = s.ok
        /\ IF x \in Unsavable THEN Absent(r, x)
           ELSE x \notin r.entities /\ Loose(r, x, s.m_tGraphID[p])
    BY <1>0, <2>2, DropDoes
  <2> QED
    BY <1>3, <2>1, <2>2, <2>3 DEF Done
<1>4. CASE loop = "return"
  <2>1. Body(loop, s, p, x) = put_back(s, p, x)
    BY <1>4 DEF Body
  <2>2. Loose(s, x, v) /\ x \notin Unsavable /\ x \notin s.entities
    BY <1>4 DEF Ready
  <2>3. LET r == put_back(s, p, x) IN About(x, s, r) /\ r.ok = s.ok /\ InHands(r, p, x)
    BY <1>0, <2>2, PutBackDoes
  <2> QED
    BY <1>4, <2>1, <2>3 DEF Done
<1> QED
  BY <1>1, <1>2, <1>3, <1>4 DEF LoopNames

LEMMA DoneSame ==
    ASSUME NEW loop, NEW s, NEW r, NEW p, NEW v, NEW x, SameFor(s, r, x), Done(loop, s, p, v, x)
    PROVE  Done(loop, r, p, v, x)
<1>1. Absent(s, x) => Absent(r, x)
  BY DEF SameFor, Absent, Unlisted
<1>2. Listed(s, x) => Listed(r, x)
  BY ListedSame
<1>3. Loose(s, x, v) => Loose(r, x, v)
  BY <1>2 DEF SameFor, Loose
<1>4. InHands(s, p, x) => InHands(r, p, x)
  BY <1>2 DEF SameFor, InHands
<1>5. x \notin s.entities => x \notin r.entities
  BY DEF SameFor
<1> QED
  BY <1>1, <1>3, <1>4, <1>5 DEF Done

LEMMA ReadySame ==
    ASSUME NEW loop \in LoopNames, NEW s, NEW r, NEW p \in ID, NEW v, NEW x, SameFor(s, r, x), SameFor(s, r, p),
           Ready(loop, s, p, v, x), r.children[x] = {}
    PROVE  Ready(loop, r, p, v, x)
<1>1. Listed(s, x) => Listed(r, x)
  BY ListedSame
<1>2. Settled(s, x) => Settled(r, x)
  BY SettledSame
<1>3. Held(s, x) /\ s.ID_Parent[x] = p => Held(r, x)
  <2>1. p \in s.objects => p \in r.objects /\ r.m_bOnline[p] = s.m_bOnline[p]
    BY DEF SameFor
  <2> QED
    BY <2>1, HeldSame DEF Held
<1>4. Loose(s, x, v) => Loose(r, x, v)
  BY <1>1 DEF SameFor, Loose
<1>5. /\ r.ID_Parent[x] = s.ID_Parent[x] /\ r.m_bOnline[x] = s.m_bOnline[x] /\ r.m_tGraphID[p] = s.m_tGraphID[p]
      /\ (\A q \in ID : x \in r.children[q] <=> x \in s.children[q])
      /\ (x \in r.objects <=> x \in s.objects) /\ (x \in r.entities <=> x \in s.entities)
      /\ (p \in r.objects <=> p \in s.objects)
  BY DEF SameFor
<1> QED
  BY <1>1, <1>2, <1>3, <1>4, <1>5 DEF Ready

\* The loop does to all elements of S what its body does to one.
LEMMA LoopDoes ==
    ASSUME NEW loop \in LoopNames, NEW s \in Sim, NEW p \in ID, NEW v \in Vertex, NEW S \in SUBSET Item,
           p \in Holder \/ S = {}, \A x \in S : Ready(loop, s, p, v, x)
    PROVE  LET r == Loop(loop, s, p, S) IN
           /\ r \in Sim /\ r.ok = s.ok
           /\ \A x \in ID \ S : SameFor(s, r, x)
           /\ \A x \in S : Done(loop, r, p, v, x)
<1> DEFINE Holds(T, r) == /\ r \in Sim /\ r.ok = s.ok
                          /\ \A x \in ID \ T : SameFor(s, r, x)
                          /\ \A x \in T : Done(loop, r, p, v, x)
           A == {h \in (SUBSET S) \X Sim : Holds(h[1], h[2])}
<1>0. S \subseteq ID /\ IsFiniteSet(S) /\ p \notin S
  BY IdsAreNaturals, AlifeAssumption, FS_Subset
<1>1. Holds({}, s)
  BY DEF SameFor
<1>2. ASSUME NEW T \in SUBSET S, NEW r, NEW x \in S \ T, Holds(T, r)
      PROVE  Holds(T \cup {x}, Body(loop, r, p, x))
  <2> DEFINE b == Body(loop, r, p, x)
  <2>1. SameFor(s, r, x) /\ SameFor(s, r, p)
    BY <1>0, <1>2
  <2>2. r.children[x] = {}
    <3>1. SUFFICES ASSUME NEW y \in ID, y \in r.children[x]
                   PROVE  FALSE
      BY <1>0, <1>2 DEF Sim
    <3>2. s.children[x] = {} /\ x # p /\ x \in ID
      BY <1>0 DEF Ready
    <3>3. CASE y \in T
      BY <1>2, <3>1, <3>2, <3>3 DEF Done, Absent, Loose, InHands, LoopNames
    <3>4. CASE y \notin T
      BY <1>2, <3>1, <3>2, <3>4 DEF SameFor
    <3> QED
      BY <3>3, <3>4
  <2>3. Ready(loop, r, p, v, x)
    BY <1>0, <2>1, <2>2, ReadySame
  <2>4. About(x, r, b) /\ b.ok = r.ok /\ Done(loop, b, p, v, x)
    BY <1>2, <2>3, BodyDoes
  <2> HIDE DEF b
  <2>5. ASSUME NEW y \in ID \ (T \cup {x})
        PROVE  SameFor(s, b, y)
    <3>1. SameFor(s, r, y) /\ SameFor(r, b, y)
      BY <1>2, <2>4 DEF About
    <3> QED
      BY <3>1 DEF SameFor
  <2>6. ASSUME NEW y \in T
        PROVE  Done(loop, b, p, v, y)
    <3>1. Done(loop, r, p, v, y) /\ SameFor(r, b, y)
      BY <1>0, <1>2, <2>4 DEF About
    <3> QED
      BY <3>1, DoneSame
  <2> QED
    BY <1>2, <2>4, <2>5, <2>6 DEF About, b
<1> HIDE DEF Holds
<1>3. <<{}, s>> \in A
  BY <1>1
<1>4. ASSUME NEW T \in SUBSET S, NEW r, NEW x \in S \ T, <<T, r>> \in A
      PROVE  <<T \cup {x}, Body(loop, r, p, x)>> \in A
  <2>1. Holds(T, r)
    BY <1>4
  <2>2. Holds(T \cup {x}, Body(loop, r, p, x))
    BY <1>2, <2>1
  <2>3. Body(loop, r, p, x) \in Sim
    BY <2>2 DEF Holds
  <2> QED
    BY <2>2, <2>3
<1>5. <<S, Loop(loop, s, p, S)>> \in A
  <2> HIDE DEF A
  <2> QED
    BY <1>0, <1>3, <1>4, LoopHolds
<1>6. Holds(S, Loop(loop, s, p, S))
  BY <1>5
<1> QED
  BY <1>6 DEF Holds

-----------------------------------------------------------------------------
(* What a step has to show: its own objects are right again, the others    *)
(* are the same, and who holds one of them is still there.                 *)

LEMMA RightAgain ==
    ASSUME NEW s \in Sim, NEW r \in Sim, WorldRight(s), r.ok, NEW C \in SUBSET ID,
           \A x \in ID \ C : SameFor(s, r, x),
           \A x \in C : Listed(r, x) /\ Settled(r, x) /\ Held(r, x),
           \A x \in ID \ C : s.ID_Parent[x] \in C => /\ s.ID_Parent[x] \in r.objects
                                                    /\ r.m_bOnline[s.ID_Parent[x]] = s.m_bOnline[s.ID_Parent[x]],
           Actor \in C => Actor \in r.objects /\ r.m_tGraphID[Actor] \in Near
    PROVE  WorldRight(r)
<1>1. ASSUME NEW x \in ID
      PROVE  Listed(r, x) /\ Settled(r, x) /\ Held(r, x)
  <2>1. CASE x \in C
    BY <2>1
  <2>2. CASE x \notin C
    <3> DEFINE p == s.ID_Parent[x]
    <3>1. SameFor(s, r, x) /\ Listed(s, x) /\ Settled(s, x) /\ Held(s, x)
      BY <2>2 DEF WorldRight
    <3>2. Listed(r, x) /\ Settled(r, x)
      BY <3>1, ListedSame, SettledSame
    <3>3. p # None => p \in ID /\ p \in s.objects
      BY <3>1, IdsAreNaturals DEF Held
    <3>4. p # None => p \in r.objects /\ r.m_bOnline[p] = s.m_bOnline[p]
      <4>1. CASE p \in C
        BY <2>2, <4>1
      <4>2. CASE p \notin C
        BY <3>3, <4>2 DEF SameFor
      <4> QED
        BY <4>1, <4>2
    <3>5. Held(r, x)
      BY <3>1, <3>4, HeldSame
    <3> QED
      BY <3>2, <3>5
  <2> QED
    BY <2>1, <2>2
<1>2. Actor \in r.objects /\ r.m_tGraphID[Actor] \in Near
  <2>1. Actor \in ID
    BY IdsAreNaturals DEF Trader, Holder
  <2>2. CASE Actor \notin C
    BY <2>1, <2>2 DEF SameFor, WorldRight
  <2> QED
    BY <2>2
<1> QED
  BY <1>1, <1>2 DEF WorldRight

\* The same for one object.
LEMMA RightAlone ==
    ASSUME NEW s \in Sim, NEW r, NEW c \in ID, WorldRight(s), About(c, s, r), r.ok,
           Listed(r, c), Settled(r, c), Held(r, c),
           s.children[c] = {} \/ (c \in r.objects /\ r.m_bOnline[c] = s.m_bOnline[c]),
           c = Actor => Actor \in r.objects /\ r.m_tGraphID[Actor] \in Near
    PROVE  r \in Sim /\ WorldRight(r)
<1>1. r \in Sim /\ \A x \in ID \ {c} : SameFor(s, r, x)
  BY DEF About
<1>2. ASSUME NEW x \in ID, s.ID_Parent[x] \in {c}
      PROVE  s.ID_Parent[x] \in r.objects /\ r.m_bOnline[s.ID_Parent[x]] = s.m_bOnline[s.ID_Parent[x]]
  <2>1. x \in s.children[c]
    BY <1>2 DEF WorldRight, Held
  <2> QED
    BY <1>2, <2>1
<1> DEFINE C == {c}
<1>3. /\ C \in SUBSET ID /\ \A x \in ID \ C : SameFor(s, r, x)
      /\ \A x \in C : Listed(r, x) /\ Settled(r, x) /\ Held(r, x)
      /\ \A x \in ID \ C : s.ID_Parent[x] \in C => /\ s.ID_Parent[x] \in r.objects
                                                    /\ r.m_bOnline[s.ID_Parent[x]] = s.m_bOnline[s.ID_Parent[x]]
      /\ Actor \in C => Actor \in r.objects /\ r.m_tGraphID[Actor] \in Near
  BY <1>1, <1>2
<1> HIDE DEF C
<1> QED
  BY <1>1, <1>3, RightAgain

\* What somebody holds.
LEMMA ChildrenAre ==
    ASSUME NEW s \in Sim, WorldRight(s), NEW c \in ID
    PROVE  /\ s.children[c] \in SUBSET Item
           /\ c \in Holder \/ s.children[c] = {}
           /\ s.children[c] # {} => c \in s.objects /\ s.ID_Parent[c] = None
           /\ \A x \in s.children[c] : s.children[x] = {}
           /\ \A x \in ID : s.ID_Parent[x] = c <=> x \in s.children[c]
<1>0. None \notin ID /\ Item \subseteq ID /\ (\A i \in Item : i \notin Holder)
  BY IdsAreNaturals
<1>1. s.children \in [ID -> SUBSET ID]
  BY DEF Sim
<1>2. \A x, q \in ID : x \in s.children[q] => /\ s.ID_Parent[x] = q /\ x \in Item /\ q \in Holder /\ q \in s.objects
  BY <1>0 DEF WorldRight, Held
<1>3. \A x \in Item : s.children[x] = {}
  BY <1>0, <1>1, <1>2
<1>4. s.children[c] \in SUBSET Item /\ (c \in Holder \/ s.children[c] = {})
  BY <1>1, <1>2
<1>5. s.children[c] # {} => c \in s.objects /\ s.ID_Parent[c] = None
  <2>1. s.children[c] # {} => c \in s.objects /\ c \notin Item
    BY <1>0, <1>1, <1>2
  <2> QED
    BY <2>1 DEF WorldRight, Held
<1>6. \A x \in s.children[c] : s.children[x] = {}
  BY <1>3, <1>4
<1>7. \A x \in ID : s.ID_Parent[x] = c <=> x \in s.children[c]
  BY DEF WorldRight, Held
<1> QED
  BY <1>4, <1>5, <1>6, <1>7

LEMMA ChildIs ==
    ASSUME NEW s \in Sim, WorldRight(s), NEW c \in ID, NEW x \in s.children[c]
    PROVE  /\ x \in ID /\ x \in Item /\ s.ID_Parent[x] = c /\ s.m_bOnline[x] = s.m_bOnline[c] /\ s.children[x] = {}
           /\ x \in s.objects \cup s.entities /\ (x \in Unsavable => c \in Trader)
           /\ c \in s.objects /\ s.ID_Parent[c] = None /\ c \in Holder
           /\ Listed(s, x) /\ Settled(s, x) /\ Held(s, x)
           /\ \A q \in ID : x \in s.children[q] <=> q = c
<1>1. x \in Item /\ x \in ID /\ None \notin ID
  BY ChildrenAre, IdsAreNaturals
<1>2. s.children[x] = {} /\ c \in s.objects /\ s.ID_Parent[c] = None /\ c \in Holder
  BY ChildrenAre
<1>3. Listed(s, x) /\ Settled(s, x) /\ Held(s, x)
  BY <1>1 DEF WorldRight
<1>4. s.ID_Parent[x] = c
  BY <1>3 DEF Held
<1>5. /\ s.m_bOnline[x] = s.m_bOnline[c] /\ x \in s.objects \cup s.entities /\ (x \in Unsavable => c \in Trader)
      /\ \A q \in ID : x \in s.children[q] <=> q = c
  BY <1>1, <1>3, <1>4 DEF Held
<1> QED
  BY <1>1, <1>2, <1>3, <1>4, <1>5

\* The holder when what he held is gone.
LEMMA HolderStays ==
    ASSUME NEW s \in Sim, WorldRight(s), NEW c \in ID, NEW loop \in {"release", "destroy"},
           \A x \in s.children[c] : Ready(loop, s, c, Place, x)
    PROVE  LET r == Loop(loop, s, c, s.children[c]) IN
           /\ r \in Sim /\ r.ok = s.ok /\ r.children[c] = {}
           /\ \A x \in ID \ s.children[c] : SameFor(s, r, x)
           /\ \A x \in s.children[c] : Absent(r, x)
           /\ SameFor(s, r, c) /\ Listed(r, c) /\ Settled(r, c) /\ Held(r, c)
           /\ s.ID_Parent[c] # None => SameFor(s, r, s.ID_Parent[c])
<1> DEFINE S == s.children[c]
           r == Loop(loop, s, c, S)
<1>0. loop \in LoopNames /\ Place \in Vertex /\ S \in SUBSET Item /\ (c \in Holder \/ S = {})
      /\ None \notin ID /\ Item \subseteq ID /\ (\A i \in Item : i \notin Holder) /\ c \notin S
  BY IdsAreNaturals, ChildrenAre DEF LoopNames
<1>1. /\ r \in Sim /\ r.ok = s.ok
      /\ \A x \in ID \ S : SameFor(s, r, x)
      /\ \A x \in S : Done(loop, r, c, Place, x)
  <2> HIDE DEF S
  <2>1. \A x \in S : Ready(loop, s, c, Place, x)
    BY DEF S
  <2> QED
    BY <1>0, <2>1, LoopDoes
<1> HIDE DEF r
<1>2. \A x \in S : Absent(r, x)
  BY <1>1 DEF Done
<1>3. SameFor(s, r, c)
  BY <1>0, <1>1
<1>4. r.children[c] = {}
  BY <1>0, <1>1, <1>2 DEF SameFor, Absent, Sim
<1>5. s.ID_Parent[c] # None => SameFor(s, r, s.ID_Parent[c]) /\ s.ID_Parent[c] \in s.objects
  <2>1. s.ID_Parent[c] # None => s.ID_Parent[c] \in Holder /\ s.ID_Parent[c] \in ID /\ s.ID_Parent[c] \in s.objects
    BY IdsAreNaturals DEF WorldRight, Held
  <2> QED
    BY <1>0, <1>1, <2>1
<1>6. Listed(r, c) /\ Settled(r, c) /\ Held(r, c)
  <2>1. Listed(s, c) /\ Settled(s, c) /\ Held(s, c)
    BY DEF WorldRight
  <2>2. s.ID_Parent[c] # None => s.ID_Parent[c] \in r.objects /\ r.m_bOnline[s.ID_Parent[c]] = s.m_bOnline[s.ID_Parent[c]]
    BY <1>5 DEF SameFor
  <2> QED
    BY <1>3, <2>1, <2>2, ListedSame, SettledSame, HeldSame
<1> QED
  BY <1>1, <1>2, <1>3, <1>4, <1>5, <1>6 DEF r

\* What he held and he himself are gone: the rest is as it was.
LEMMA BothGone ==
    ASSUME NEW s \in Sim, WorldRight(s), NEW c \in ID, c # Actor, NEW l \in Sim, NEW r, About(c, l, r),
           r.ok = s.ok, Absent(r, c), \A x \in ID \ s.children[c] : SameFor(s, l, x),
           \A x \in s.children[c] : Absent(l, x)
    PROVE  /\ r \in Sim /\ WorldRight(r)
           /\ \A x \in ID \ (s.children[c] \cup {c}) : SameFor(s, r, x)
<1> DEFINE C == s.children[c] \cup {c}
<1>0. s.children[c] \in SUBSET Item /\ None \notin ID /\ C \in SUBSET ID /\ Actor \notin C /\ Actor \in Holder
      /\ Item \subseteq ID /\ (\A i \in Item : i \notin Holder) /\ r.ok /\ r \in Sim
  <2>1. s.children[c] \in SUBSET Item
    BY ChildrenAre
  <2>2. r.ok /\ r \in Sim
    BY DEF WorldRight, About
  <2> QED
    BY <2>1, <2>2, IdsAreNaturals DEF Holder
<1>1. ASSUME NEW x \in ID \ C
      PROVE  SameFor(s, r, x) /\ s.ID_Parent[x] \notin C
  <2>1. SameFor(s, l, x) /\ SameFor(l, r, x)
    BY <1>1 DEF About
  <2>2. s.ID_Parent[x] # c
    BY <1>1, ChildrenAre
  <2>3. s.ID_Parent[x] \notin Item
    BY <1>0 DEF WorldRight, Held
  <2> QED
    BY <1>0, <2>1, <2>2, <2>3 DEF SameFor
<1>2. ASSUME NEW x \in C
      PROVE  Listed(r, x) /\ Settled(r, x) /\ Held(r, x)
  <2>1. Absent(r, x)
    <3>1. CASE x = c
      BY <3>1
    <3>2. CASE x # c
      <4>1. Absent(l, x) /\ SameFor(l, r, x)
        BY <1>0, <1>2, <3>2 DEF About
      <4> QED
        BY <4>1 DEF SameFor, Absent, Unlisted
    <3> QED
      BY <3>1, <3>2
  <2> QED
    BY <1>0, <2>1, AbsentIsRight
<1>3. \A x \in ID \ (s.children[c] \cup {c}) : SameFor(s, r, x)
  BY <1>1
<1> HIDE DEF C
<1> QED
  BY <1>0, <1>1, <1>2, <1>3, RightAgain

\* Releasing who is offline.
LEMMA ReleaseRight ==
    ASSUME NEW s \in Sim, WorldRight(s), NEW c \in s.objects, c # Actor, ~s.m_bOnline[c]
    PROVE  /\ release(s, c, TRUE) \in Sim /\ WorldRight(release(s, c, TRUE))
           /\ \A x \in ID \ (s.children[c] \cup {c}) : SameFor(s, release(s, c, TRUE), x)
           /\ c \notin release(s, c, TRUE).level.m_objects
<1> DEFINE S == s.children[c]
           l == Loop("release", s, c, S)
           r == release_one(l, c, TRUE)
<1>0. c \in ID
  BY DEF Sim
<1>1. ASSUME NEW x \in S
      PROVE  Ready("release", s, c, Place, x) /\ x \in s.objects
  <2>1. /\ x \in ID /\ s.ID_Parent[x] = c /\ s.m_bOnline[x] = s.m_bOnline[c] /\ s.children[x] = {}
        /\ x \in s.objects \cup s.entities /\ \A q \in ID : x \in s.children[q] <=> q = c
    BY <1>0, ChildIs
  <2>2. Listed(s, x) /\ Settled(s, x) /\ Held(s, x)
    BY <1>0, ChildIs
  <2>3. x \in s.objects
    BY <2>1, <2>2 DEF Settled
  <2> QED
    BY <2>1, <2>2, <2>3 DEF Ready
<1>2. release(s, c, TRUE) = r
  <2>1. s.children[c] \cap s.objects = S
    BY <1>1
  <2>2. release(s, c, TRUE) = release_one(FoldSet(LAMBDA i, q : release_one(q, i, TRUE), s, s.children[c] \cap s.objects), c, TRUE)
    BY DEF release
  <2> HIDE DEF S
  <2>3. FoldSet(LAMBDA i, q : release_one(q, i, TRUE), s, S) = l
    BY Loops
  <2> QED
    BY <2>1, <2>2, <2>3
<1>3. /\ l \in Sim /\ l.ok = s.ok /\ l.children[c] = {} /\ (\A x \in ID \ S : SameFor(s, l, x))
      /\ (\A x \in S : Absent(l, x)) /\ SameFor(s, l, c) /\ Listed(l, c) /\ Held(l, c)
  BY <1>0, <1>1, HolderStays
<1> HIDE DEF l
<1>4. c \in l.objects /\ ~l.m_bOnline[c]
  BY <1>3 DEF SameFor
<1>5. About(c, l, r) /\ r.ok = l.ok /\ Absent(r, c)
  BY <1>0, <1>3, <1>4, ReleaseOneDoes
<1> HIDE DEF r
<1>6. c \notin r.level.m_objects
  BY <1>5 DEF Absent, Unlisted
<1> QED
  BY <1>0, <1>2, <1>3, <1>5, <1>6, BothGone

\* Destroying an entity of the server.
LEMMA DestroyRight ==
    ASSUME NEW s \in Sim, WorldRight(s), NEW c \in s.entities, c # Actor
    PROVE  /\ Process_event_destroy(s, c) \in Sim /\ WorldRight(Process_event_destroy(s, c))
           /\ \A x \in ID \ (s.children[c] \cup {c}) : SameFor(s, Process_event_destroy(s, c), x)
           /\ c \notin Process_event_destroy(s, c).level.m_objects
<1> DEFINE S == s.children[c]
           l == Loop("destroy", s, c, S)
           r == destroy_one(l, c)
<1>0. c \in ID
  BY DEF Sim
<1>1. s.m_bOnline[c] /\ Listed(s, c) /\ Settled(s, c) /\ Held(s, c)
  BY <1>0 DEF WorldRight, Settled
<1>2. ASSUME NEW x \in S
      PROVE  Ready("destroy", s, c, Place, x)
  <2>1. /\ x \in ID /\ s.ID_Parent[x] = c /\ s.m_bOnline[x] /\ s.children[x] = {}
        /\ (\A q \in ID : x \in s.children[q] <=> q = c) /\ c \in s.objects /\ s.ID_Parent[c] = None
    BY <1>0, <1>1, ChildIs
  <2>2. Listed(s, x) /\ Settled(s, x) /\ Held(s, x)
    BY <1>0, ChildIs
  <2>3. s.m_tGraphID[c] \in Near
    BY <1>1, <2>1 DEF Settled
  <2> QED
    BY <2>1, <2>2, <2>3 DEF Ready
<1>3. Process_event_destroy(s, c) = r
  <2>1. Process_event_destroy(s, c) = destroy_one(FoldSet(LAMBDA i, q : destroy_one(q, i), s, S), c)
    BY DEF Process_event_destroy
  <2> HIDE DEF S
  <2>2. FoldSet(LAMBDA i, q : destroy_one(q, i), s, S) = l
    BY Loops
  <2> QED
    BY <2>1, <2>2
<1>4. /\ l \in Sim /\ l.ok = s.ok /\ l.children[c] = {} /\ (\A x \in ID \ S : SameFor(s, l, x))
      /\ (\A x \in S : Absent(l, x)) /\ SameFor(s, l, c) /\ Listed(l, c) /\ Settled(l, c) /\ Held(l, c)
      /\ s.ID_Parent[c] # None => SameFor(s, l, s.ID_Parent[c])
  BY <1>0, <1>2, HolderStays
<1> HIDE DEF l
<1>5. l.m_bOnline[c] /\ l.ID_Parent[c] = s.ID_Parent[c]
  BY <1>1, <1>4 DEF SameFor
<1>6. l.ID_Parent[c] # None => l.m_tGraphID[l.ID_Parent[c]] \in Near
  <2> DEFINE p == s.ID_Parent[c]
  <2>1. SUFFICES ASSUME p # None
                 PROVE  s.m_tGraphID[p] \in Near
    BY <1>4, <1>5 DEF SameFor
  <2>2. p \in Holder /\ p \in s.objects /\ s.m_bOnline[p]
    BY <1>1, <2>1 DEF Held
  <2>3. p \in ID /\ p \notin Item
    BY <2>2, IdsAreNaturals
  <2>4. Settled(s, p) /\ Held(s, p)
    BY <2>3 DEF WorldRight
  <2> QED
    BY <2>2, <2>3, <2>4 DEF Settled, Held
<1>7. About(c, l, r) /\ r.ok = l.ok /\ Absent(r, c)
  BY <1>0, <1>4, <1>5, <1>6, DestroyOneDoes
<1> HIDE DEF r
<1>8. c \notin r.level.m_objects
  BY <1>7 DEF Absent, Unlisted
<1> QED
  BY <1>0, <1>3, <1>4, <1>7, <1>8, BothGone

-----------------------------------------------------------------------------
(* Switching.                                                              *)

\* Who is offline is taken from its point and added to the point v.
Moved(s, r, c, v) ==
    /\ About(c, s, r) /\ r.ok = s.ok /\ r.objects = s.objects /\ r.entities = s.entities
    /\ r.m_bOnline = s.m_bOnline /\ r.dead = s.dead /\ r.ID_Parent = s.ID_Parent /\ r.children = s.children
    /\ r.scheduled = s.scheduled /\ r.m_tGraphID[c] = v
    /\ \A w \in Vertex : c \in r.points[w] <=> w = v
    /\ c \in r.level.m_objects <=> v \in Near

LEMMA Moves ==
    ASSUME NEW s \in Sim, NEW c \in ID, NEW from \in Vertex, NEW v \in Vertex, ~s.m_bOnline[c],
           \A w \in Vertex : c \in s.points[w] <=> w = from, c \in s.level.m_objects <=> from \in Near
    PROVE  Moved(s, GraphAdd(GraphRemove(s, c, from, TRUE), c, v, TRUE), c, v)
<1> DEFINE t == GraphRemove(s, c, from, FALSE)
           far == from \notin Near
           l == LevelRemove(t, c, far)
           g == GraphAdd(l, c, v, FALSE)
           r == LevelAdd(g, c)
<1>1. Taken(s, t, c, from) /\ GraphRemove(s, c, from, TRUE) = l /\ About(c, s, t)
  BY GraphRemoveDoes, GraphAbout
<1> HIDE DEF t
<1>2. /\ t \in Sim /\ t.ok = s.ok /\ t.objects = s.objects /\ t.entities = s.entities
      /\ t.m_bOnline = s.m_bOnline /\ t.dead = s.dead /\ t.ID_Parent = s.ID_Parent /\ t.children = s.children
      /\ t.level = s.level /\ t.scheduled = s.scheduled
      /\ \A w \in Vertex : c \notin t.points[w]
  <2>1. t.ok = s.ok
    BY <1>1 DEF Taken, Sim
  <2>2. /\ t \in Sim /\ t.objects = s.objects /\ t.entities = s.entities
        /\ t.m_bOnline = s.m_bOnline /\ t.dead = s.dead /\ t.ID_Parent = s.ID_Parent /\ t.children = s.children
        /\ t.level = s.level /\ t.scheduled = s.scheduled
    BY <1>1 DEF Taken, OnlyIn, Field
  <2> QED
    BY <1>1, <2>1, <2>2 DEF Taken
<1>3. far \in BOOLEAN
  OBVIOUS
<1> HIDE DEF far
<1>4. /\ About(c, t, l) /\ OnlyIn({"ok", "level"}, t, l) /\ l.level.m_objects = t.level.m_objects \ {c}
      /\ l.ok = (t.ok /\ (far \/ c \in t.level.m_objects))
  BY <1>2, <1>3, LevelRemoveAbout, LevelRemoveDoes
<1> HIDE DEF l
<1>5. /\ l \in Sim /\ l.ok = s.ok /\ l.objects = s.objects /\ l.entities = s.entities
      /\ l.m_bOnline = s.m_bOnline /\ l.dead = s.dead /\ l.ID_Parent = s.ID_Parent /\ l.children = s.children
      /\ l.scheduled = s.scheduled /\ l.points = t.points /\ c \notin l.level.m_objects
  <2>1. l.ok = s.ok
    BY <1>2, <1>4 DEF far, Sim
  <2>2. /\ l \in Sim /\ l.objects = s.objects /\ l.entities = s.entities
        /\ l.m_bOnline = s.m_bOnline /\ l.dead = s.dead /\ l.ID_Parent = s.ID_Parent /\ l.children = s.children
        /\ l.scheduled = s.scheduled /\ l.points = t.points
    BY <1>2, <1>4 DEF OnlyIn, Field
  <2> QED
    BY <1>4, <2>1, <2>2
<1>6. Placed(l, g, c, v) /\ GraphAdd(l, c, v, TRUE) = r /\ About(c, l, g)
  BY <1>5, GraphAddDoes, GraphAbout
<1> HIDE DEF g
<1>7. /\ g \in Sim /\ g.objects = s.objects /\ g.entities = s.entities
      /\ g.m_bOnline = s.m_bOnline /\ g.dead = s.dead /\ g.ID_Parent = s.ID_Parent /\ g.children = s.children
      /\ g.scheduled = s.scheduled /\ c \notin g.level.m_objects
  BY <1>5, <1>6 DEF Placed, OnlyIn, Field
<1>8. g.ok = s.ok /\ g.m_tGraphID[c] = v /\ \A w \in Vertex : c \in g.points[w] <=> w = v
  BY <1>2, <1>5, <1>6 DEF Placed, Sim
<1>9. About(c, g, r) /\ OnlyIn({"ok", "level"}, g, r)
  BY <1>7, LevelAddAbout, LevelAddDoes
<1>10. r.ok = s.ok /\ (c \in r.level.m_objects <=> v \in Near)
  BY <1>7, <1>8, LevelAddDoes DEF Sim
<1>11. GraphAdd(GraphRemove(s, c, from, TRUE), c, v, TRUE) = r
  BY <1>1, <1>6
<1> HIDE DEF r
<1>12. About(c, s, r)
  BY <1>1, <1>4, <1>6, <1>9, AboutJoins
<1>13. /\ r.objects = s.objects /\ r.entities = s.entities
       /\ r.m_bOnline = s.m_bOnline /\ r.dead = s.dead /\ r.ID_Parent = s.ID_Parent /\ r.children = s.children
       /\ r.scheduled = s.scheduled /\ r.m_tGraphID = g.m_tGraphID /\ r.points = g.points
  BY <1>7, <1>9 DEF OnlyIn, Field
<1> QED
  BY <1>8, <1>10, <1>11, <1>12, <1>13 DEF Moved

\* A registered object who is offline in nobody's hands goes to another point.
LEMMA ChangeRight ==
    ASSUME NEW s \in Sim, WorldRight(s), NEW c \in s.objects, NEW v \in Vertex, ~s.m_bOnline[c],
           s.ID_Parent[c] = None, c # Actor \/ v \in Near
    PROVE  LET r == change(s, c, v) IN
           /\ r \in Sim /\ WorldRight(r) /\ r.objects = s.objects /\ r.m_bOnline = s.m_bOnline
           /\ r.ID_Parent = s.ID_Parent /\ r.m_tGraphID[c] = v /\ About(c, s, r)
<1> DEFINE from == s.m_tGraphID[c]
           g == GraphAdd(GraphRemove(s, c, from, TRUE), c, v, TRUE)
           r == change(s, c, v)
<1>0. c \in ID /\ from \in Vertex /\ None \notin ID
  BY IdsAreNaturals DEF Sim
<1>1. Listed(s, c) /\ Settled(s, c) /\ Held(s, c) /\ s.ok
  BY <1>0 DEF WorldRight
<1>2. (\A w \in Vertex : c \in s.points[w] <=> w = from) /\ (c \in s.level.m_objects <=> from \in Near)
  BY <1>1 DEF Listed
<1>3. Moved(s, g, c, v)
  <2> HIDE DEF from
  <2> QED
    BY <1>0, <1>2, Moves
<1>4. r = g
  <2>1. r = [g EXCEPT !.m_tGraphID[c] = v]
    BY DEF change
  <2> HIDE DEF g, r
  <2>2. g \in Sim /\ g.m_tGraphID[c] = v
    BY <1>3 DEF Moved, About
  <2>3. [g.m_tGraphID EXCEPT ![c] = v] = g.m_tGraphID
    BY <2>2 DEF Sim
  <2>4. r = [g EXCEPT !.m_tGraphID = g.m_tGraphID]
    BY <2>1, <2>3
  <2> QED
    BY <2>2, <2>4 DEF Sim
<1> HIDE DEF g, r
<1>5. Listed(g, c) /\ Settled(g, c) /\ Held(g, c)
  BY <1>0, <1>1, <1>3 DEF Moved, Listed, Settled, Held, need_update
<1>6. g \in Sim /\ WorldRight(g)
  BY <1>0, <1>1, <1>3, <1>5, RightAlone DEF Moved
<1> QED
  BY <1>3, <1>4, <1>6 DEF r, Moved

LEMMA SwitchOnlineRight ==
    ASSUME NEW s \in Sim, WorldRight(s), NEW c \in s.objects, ~s.m_bOnline[c],
           s.ID_Parent[c] = None, s.m_tGraphID[c] \in Near
    PROVE  /\ switch_online(s, c) \in Sim /\ WorldRight(switch_online(s, c))
           /\ \A x \in ID \ (s.children[c] \cup {c}) : SameFor(s, switch_online(s, c), x)
<1> DEFINE S == s.children[c]
           v == s.m_tGraphID[c]
           on == [i \in ID |-> i = c \/ s.m_bOnline[i] \/ i \in S]
           now == s.entities \cup {c} \cup S
           p == [s EXCEPT !.m_bOnline = on, !.entities = now]
           d == ScheduledRemove(p, c)
           r == GraphRemove(d, c, v, FALSE)
           C == S \cup {c}
<1>0. /\ c \in ID /\ v \in Vertex /\ v \in Near /\ None \notin ID /\ S \in SUBSET Item /\ Item \subseteq ID /\ c \notin S
      /\ c \in Holder \/ S = {}
      /\ \A i \in Item : i \notin Holder /\ i \notin Creature
  <2>1. c \in ID
    BY DEF Sim
  <2>2. S \in SUBSET Item /\ (c \in Holder \/ S = {})
    BY <2>1, ChildrenAre
  <2> QED
    BY <2>1, <2>2, IdsAreNaturals DEF Sim
<1>1. Listed(s, c) /\ Settled(s, c) /\ Held(s, c) /\ s.ok = TRUE
  BY <1>0 DEF WorldRight, Sim
<1>2. /\ p \in Sim /\ p.ok = s.ok /\ p.objects = s.objects /\ p.entities = now /\ p.m_bOnline = on
      /\ p.dead = s.dead /\ p.ID_Parent = s.ID_Parent /\ p.children = s.children /\ p.m_tGraphID = s.m_tGraphID
      /\ p.points = s.points /\ p.level = s.level /\ p.scheduled = s.scheduled
  <2>1. on \in [ID -> BOOLEAN] /\ now \in SUBSET ID
    BY <1>0 DEF Sim
  <2> HIDE DEF on, now
  <2> QED
    BY <2>1 DEF Sim
<1>3. switch_online(s, c) = r
  <2> DEFINE q == [s EXCEPT !.m_bOnline[c] = TRUE, !.entities = @ \cup {c}]
             u == [q EXCEPT !.entities = @ \cup q.children[c],
                            !.m_bOnline = [i \in ID |-> @[i] \/ i \in q.children[c]]]
  <2>1. Check(s, ~s.m_bOnline[c] /\ s.m_tGraphID[c] \in Near) = s
    BY <1>1 DEF Check, Sim
  <2>2. switch_online(s, c) = add_online(q, c)
    BY <2>1 DEF switch_online
  <2>3. /\ q \in Sim /\ q.children = s.children /\ q.entities = s.entities \cup {c} /\ q.ok = s.ok
        /\ q.m_tGraphID = s.m_tGraphID
        /\ \A i \in ID : q.m_bOnline[i] = IF i = c THEN TRUE ELSE s.m_bOnline[i]
    <3> DEFINE o == [s.m_bOnline EXCEPT ![c] = TRUE]
    <3>1. q = [s EXCEPT !.m_bOnline = o, !.entities = @ \cup {c}]
      OBVIOUS
    <3>2. o \in [ID -> BOOLEAN] /\ \A i \in ID : o[i] = IF i = c THEN TRUE ELSE s.m_bOnline[i]
      BY DEF Sim
    <3> HIDE DEF o, q
    <3> QED
      BY <1>0, <3>1, <3>2 DEF Sim
  <2>4. add_online(q, c) = GraphRemove(ScheduledRemove([Check(q, q.children[c] \subseteq Item)
                             EXCEPT !.entities = @ \cup q.children[c],
                                    !.m_bOnline = [i \in ID |-> @[i] \/ i \in q.children[c]]], c),
                             c, q.m_tGraphID[c], FALSE)
    BY DEF add_online
  <2>5. Check(q, q.children[c] \subseteq Item) = q
    <3> HIDE DEF q
    <3> QED
      BY <1>0, <1>1, <2>3 DEF Check, Sim
  <2>6. add_online(q, c) = GraphRemove(ScheduledRemove(u, c), c, q.m_tGraphID[c], FALSE)
    BY <2>4, <2>5
  <2>7. u = p
    <3> DEFINE f == [i \in ID |-> q.m_bOnline[i] \/ i \in q.children[c]]
    <3>1. u = [q EXCEPT !.entities = now, !.m_bOnline = f]
      <4> HIDE DEF q
      <4> QED
        BY <2>3
    <3>2. f = on
      <4> HIDE DEF q
      <4> QED
        BY <2>3
    <3> HIDE DEF f, on, now
    <3> QED
      BY <3>1, <3>2 DEF Sim
  <2> HIDE DEF q, u, p
  <2> QED
    BY <2>2, <2>3, <2>6, <2>7
<1>4. /\ \A i \in ID : on[i] <=> (i \in C \/ s.m_bOnline[i])
      /\ \A i \in ID : on[i] \in BOOLEAN
      /\ now = s.entities \cup C
  BY <1>0 DEF Sim
<1> HIDE DEF on, now, p
<1>5. /\ OnlyIn({"ok", "scheduled"}, p, d) /\ d.ok = TRUE /\ d.scheduled.m_objects = p.scheduled.m_objects \ {c}
  <2>1. c \in Creature => c \in p.scheduled.m_objects \/ ~need_update(p, c)
    BY <1>0, <1>2, <1>4 DEF need_update
  <2>2. c \notin Creature => c \notin p.scheduled.m_objects
    BY <1>1, <1>2 DEF Listed, need_update
  <2>3. OnlyIn({"ok", "scheduled"}, p, d)
    BY <1>0, <1>2, ScheduledRemoveDoes
  <2>4. CASE c \in Creature
    <3>1. /\ d.ok = (p.ok /\ (c \in p.scheduled.m_objects \/ ~need_update(p, c)))
          /\ d.scheduled.m_objects = p.scheduled.m_objects \ {c}
      BY <1>0, <1>2, <2>4, ScheduledRemoveDoes
    <3> QED
      BY <1>1, <1>2, <2>1, <2>3, <2>4, <3>1
  <2>5. CASE c \notin Creature
    <3>1. d = p
      BY <1>0, <1>2, <2>5, ScheduledRemoveDoes
    <3> QED
      BY <1>1, <1>2, <2>2, <2>3, <2>5, <3>1
  <2> QED
    BY <2>4, <2>5
<1> HIDE DEF d
<1>6. /\ d \in Sim /\ d.objects = s.objects /\ d.entities = now /\ d.m_bOnline = on
      /\ d.dead = s.dead /\ d.ID_Parent = s.ID_Parent /\ d.children = s.children /\ d.m_tGraphID = s.m_tGraphID
      /\ d.points = s.points /\ d.level = s.level
  BY <1>2, <1>5 DEF OnlyIn, Field
<1>7. Taken(d, r, c, v)
  BY <1>0, <1>6, GraphRemoveDoes
<1> HIDE DEF r
<1>8. /\ r \in Sim /\ r.objects = s.objects /\ r.entities = now /\ r.m_bOnline = on
      /\ r.dead = s.dead /\ r.ID_Parent = s.ID_Parent /\ r.children = s.children /\ r.m_tGraphID = s.m_tGraphID
      /\ r.level = s.level /\ r.scheduled = d.scheduled
  BY <1>6, <1>7 DEF Taken, OnlyIn, Field
<1>9. r.ok
  BY <1>0, <1>1, <1>5, <1>6, <1>7 DEF Taken, Listed
<1>10. \A x \in ID, w \in Vertex : x \in r.points[w] <=> x \in s.points[w] /\ x # c
  BY <1>1, <1>6, <1>7 DEF Taken, Listed
<1>11. ASSUME NEW x \in ID \ C
       PROVE  SameFor(s, r, x)
  BY <1>2, <1>4, <1>5, <1>8, <1>10, <1>11 DEF SameFor, Sim
<1>12. Listed(r, c) /\ Settled(r, c) /\ Held(r, c)
  BY <1>0, <1>1, <1>2, <1>4, <1>5, <1>8, <1>10 DEF Listed, Settled, Held, need_update
<1>13. ASSUME NEW x \in S
       PROVE  Listed(r, x) /\ Settled(r, x) /\ Held(r, x)
  <2>1. /\ s.ID_Parent[x] = c /\ ~s.m_bOnline[x] /\ x \in s.objects \cup s.entities
        /\ Listed(s, x) /\ Settled(s, x) /\ Held(s, x)
    BY <1>0, ChildIs
  <2>2. Listed(r, x)
    BY <1>0, <1>2, <1>4, <1>5, <1>8, <1>10, <2>1 DEF Listed, need_update
  <2>3. Settled(r, x)
    BY <1>0, <1>4, <1>8, <2>1 DEF Settled
  <2>4. Held(r, x)
    BY <1>0, <1>4, <1>8, <2>1 DEF Held
  <2> QED
    BY <2>2, <2>3, <2>4
<1>14. ASSUME NEW x \in ID \ C
       PROVE  s.ID_Parent[x] \notin C
  <2>1. s.ID_Parent[x] # c
    BY <1>0, <1>14, ChildrenAre
  <2>2. s.ID_Parent[x] \notin Item
    BY <1>0 DEF WorldRight, Held
  <2> QED
    BY <1>0, <2>1, <2>2
<1>15. Actor \in r.objects /\ r.m_tGraphID[Actor] \in Near
  BY <1>8 DEF WorldRight
<1>16. C \in SUBSET ID /\ \A x \in C : Listed(r, x) /\ Settled(r, x) /\ Held(r, x)
  BY <1>0, <1>12, <1>13
<1>17. \A x \in ID \ (s.children[c] \cup {c}) : SameFor(s, r, x)
  BY <1>11
<1> HIDE DEF C
<1>18. WorldRight(r)
  BY <1>8, <1>9, <1>11, <1>14, <1>15, <1>16, RightAgain
<1> QED
  BY <1>3, <1>8, <1>17, <1>18

\* The server has destroyed who goes offline, and what he held lies about.
Emptied(s, r, c, v) ==
    /\ r \in Sim /\ r.ok = s.ok /\ r.children[c] = {}
    /\ \A x \in ID \ (s.children[c] \cup {c}) : SameFor(s, r, x)
    /\ \A x \in s.children[c] :
         IF x \in Unsavable THEN Absent(r, x) ELSE x \notin r.entities /\ Loose(r, x, v) /\ r.children[x] = {}
    /\ c \in r.objects /\ c \notin r.entities /\ ~r.m_bOnline[c]
    /\ r.dead[c] = s.dead[c] /\ r.ID_Parent[c] = s.ID_Parent[c] /\ r.m_tGraphID[c] = v
    /\ \A q \in ID : c \in r.children[q] <=> c \in s.children[q]
    /\ \A w \in Vertex : c \in r.points[w] <=> c \in s.points[w]
    /\ c \in r.level.m_objects <=> c \in s.level.m_objects
    /\ c \in r.scheduled.m_objects <=> c \in s.scheduled.m_objects

LEMMA PerformDestroyDoes ==
    ASSUME NEW s \in Sim, WorldRight(s), NEW c \in s.objects, NEW v \in Near, s.m_bOnline[c],
           s.ID_Parent[c] = None, v = s.m_tGraphID[c]
    PROVE  Emptied(s, Perform_destroy(WithOnline(s, c, FALSE), c), c, v)
<1> DEFINE S == s.children[c]
           off == WithOnline(s, c, FALSE)
           l == Loop("drop", off, c, S)
           b == entity_Destroy(l, c)
<1>0. /\ c \in ID /\ v \in Vertex /\ None \notin ID /\ S \in SUBSET Item /\ Item \subseteq ID /\ c \notin S
      /\ c \in Holder \/ S = {}
      /\ "drop" \in LoopNames /\ FALSE \in BOOLEAN
  <2>1. c \in ID
    BY DEF Sim
  <2>2. S \in SUBSET Item /\ (c \in Holder \/ S = {})
    BY <2>1, ChildrenAre
  <2> QED
    BY <2>1, <2>2, IdsAreNaturals DEF LoopNames
<1>1. off \in Sim /\ FactsChange(s, off, c, FALSE, s.dead[c], s.ID_Parent[c], s.m_tGraphID[c])
  BY <1>0, OnlineChanges
<1>2. Perform_destroy(off, c) = b
  <2> DEFINE base == Check(off, off.ID_Parent[c] = None)
  <2> HIDE DEF off
  <2>1. base = off
    BY <1>1 DEF FactsChange, Check, Sim
  <2>2. off.children[c] = S
    BY <1>1 DEF FactsChange
  <2>3. Perform_destroy(off, c) =
          entity_Destroy(FoldSet(LAMBDA i, r : entity_Destroy(Process_event_reject(r, c, i), i), base, off.children[c]), c)
    BY DEF Perform_destroy
  <2> HIDE DEF S, base
  <2>4. FoldSet(LAMBDA i, r : entity_Destroy(Process_event_reject(r, c, i), i), off, S) = l
    BY Loops
  <2> QED
    BY <2>1, <2>2, <2>3, <2>4
<1>3. off.ok = s.ok /\ off.objects = s.objects /\ off.entities = s.entities /\ off.children = s.children
      /\ off.points = s.points /\ off.level = s.level /\ off.scheduled = s.scheduled /\ About(c, s, off)
      /\ off.m_bOnline[c] = FALSE /\ off.dead[c] = s.dead[c] /\ off.ID_Parent[c] = None /\ off.m_tGraphID[c] = v
  BY <1>1 DEF FactsChange
<1> HIDE DEF off
<1>4. ASSUME NEW x \in S
      PROVE  Ready("drop", off, c, v, x)
  <2>1. /\ x \in ID /\ s.ID_Parent[x] = c /\ s.m_bOnline[x] /\ s.children[x] = {}
        /\ (\A q \in ID : x \in s.children[q] <=> q = c)
    BY <1>0, ChildIs
  <2>2. Listed(s, x) /\ (x \in s.objects => x \notin Unsavable)
    BY <1>0, ChildIs DEF Settled
  <2>3. SameFor(s, off, x)
    BY <1>0, <1>3, <2>1 DEF About
  <2>4. Listed(off, x)
    BY <2>2, <2>3, ListedSame
  <2> QED
    BY <1>3, <2>1, <2>2, <2>3, <2>4 DEF Ready, SameFor
<1>5. /\ l \in Sim /\ l.ok = off.ok
      /\ \A x \in ID \ S : SameFor(off, l, x)
      /\ \A x \in S : Done("drop", l, c, v, x)
  <2> HIDE DEF S
  <2> QED
    BY <1>0, <1>1, <1>4, LoopDoes
<1> HIDE DEF l
<1>6. SameFor(off, l, c) /\ c \in l.objects
  BY <1>0, <1>3, <1>5 DEF SameFor
<1>7. Erased(l, b, c)
  BY <1>0, <1>5, EntityDestroyDoes
<1> HIDE DEF b
<1>8. /\ b \in Sim /\ b.ok = l.ok /\ b.objects = l.objects /\ b.points = l.points /\ b.level = l.level
      /\ b.scheduled = l.scheduled /\ b.entities = l.entities \ {c} /\ b.m_bOnline = l.m_bOnline /\ b.dead = l.dead
      /\ b.ID_Parent = l.ID_Parent /\ b.m_tGraphID = l.m_tGraphID /\ b.children = l.children
  BY <1>6, <1>7 DEF Erased, OnlyIn, Field
<1>9. ASSUME NEW x \in ID \ {c}
      PROVE  SameFor(l, b, x)
  BY <1>8 DEF SameFor
<1>10. ASSUME NEW y \in ID, NEW q \in ID
       PROVE  y \in l.children[q] <=> y \in s.children[q] /\ y \notin S
  <2>1. CASE y \in S
    <3>1. Done("drop", l, c, v, y)
      BY <1>5, <2>1
    <3> QED
      BY <2>1, <3>1 DEF Done, Absent, Loose
  <2>2. CASE y \notin S
    BY <1>3, <1>5, <2>2 DEF SameFor
  <2> QED
    BY <2>1, <2>2
<1>11. \A q \in ID : l.children[q] \subseteq s.children[q] \ S
  BY <1>5, <1>10 DEF Sim
<1>12. ASSUME NEW x \in S
       PROVE  IF x \in Unsavable THEN Absent(b, x) ELSE x \notin b.entities /\ Loose(b, x, v) /\ b.children[x] = {}
  <2>1. Done("drop", l, c, v, x) /\ SameFor(l, b, x) /\ x \in ID
    BY <1>0, <1>5, <1>9
  <2>2. Done("drop", b, c, v, x)
    BY <2>1, DoneSame
  <2>3. s.children[x] = {}
    BY <1>0, ChildIs
  <2>4. b.children[x] = {}
    BY <1>8, <1>11, <2>1, <2>3
  <2> QED
    BY <2>2, <2>4 DEF Done
<1>13. ASSUME NEW x \in ID \ (S \cup {c})
       PROVE  SameFor(s, b, x)
  <2>1. SameFor(s, off, x) /\ SameFor(off, l, x) /\ SameFor(l, b, x)
    BY <1>3, <1>5, <1>9 DEF About
  <2> QED
    BY <2>1 DEF SameFor
<1>14. b.children[c] = {}
  BY <1>0, <1>8, <1>11
<1>15. /\ c \in b.objects /\ c \notin b.entities /\ ~b.m_bOnline[c]
       /\ b.dead[c] = s.dead[c] /\ b.ID_Parent[c] = s.ID_Parent[c] /\ b.m_tGraphID[c] = v
       /\ \A q \in ID : c \in b.children[q] <=> c \in s.children[q]
       /\ \A w \in Vertex : c \in b.points[w] <=> c \in s.points[w]
       /\ c \in b.level.m_objects <=> c \in s.level.m_objects
       /\ c \in b.scheduled.m_objects <=> c \in s.scheduled.m_objects
  BY <1>0, <1>3, <1>6, <1>8 DEF SameFor
<1>16. Emptied(s, b, c, v)
  <2>1. b \in Sim /\ b.ok = s.ok
    BY <1>3, <1>5, <1>8
  <2>2. \A x \in ID \ (s.children[c] \cup {c}) : SameFor(s, b, x)
    BY <1>13
  <2>3. \A x \in s.children[c] :
          IF x \in Unsavable THEN Absent(b, x) ELSE x \notin b.entities /\ Loose(b, x, v) /\ b.children[x] = {}
    BY <1>12
  <2> QED
    BY <1>14, <1>15, <2>1, <2>2, <2>3 DEF Emptied
<1> QED
  BY <1>2, <1>16 DEF off

LEMMA SwitchOfflineRight ==
    ASSUME NEW s \in Sim, WorldRight(s), NEW c \in s.objects, s.m_bOnline[c], s.ID_Parent[c] = None
    PROVE  LET r == switch_offline(s, c) IN
           /\ r \in Sim /\ WorldRight(r) /\ c \in r.objects /\ ~r.m_bOnline[c] /\ r.ID_Parent[c] = None
           /\ \A x \in ID \ (s.children[c] \cup {c}) : SameFor(s, r, x)
<1> DEFINE S == s.children[c]
           v == s.m_tGraphID[c]
           saved == S \ Unsavable
           b == Perform_destroy(WithOnline(s, c, FALSE), c)
           f == Loop("return", b, c, saved)
           d == ScheduledAdd(f, c)
           r == GraphAdd(d, c, v, FALSE)
           C == S \cup {c}
<1>0. /\ c \in ID /\ v \in Vertex /\ None \notin ID /\ S \in SUBSET Item /\ Item \subseteq ID /\ c \notin S
      /\ c \in Holder \/ S = {}
      /\ "return" \in LoopNames /\ saved \in SUBSET Item /\ C \in SUBSET ID
      /\ \A i \in Item : i \notin Holder /\ i \notin Creature
  <2>1. c \in ID
    BY DEF Sim
  <2>2. S \in SUBSET Item /\ (c \in Holder \/ S = {})
    BY <2>1, ChildrenAre
  <2> QED
    BY <2>1, <2>2, IdsAreNaturals DEF Sim, LoopNames
<1>1. Listed(s, c) /\ Settled(s, c) /\ Held(s, c) /\ s.ok = TRUE
  BY <1>0 DEF WorldRight, Sim
<1>2. v \in Near
  BY <1>1 DEF Settled
<1>3. Emptied(s, b, c, v)
  BY <1>2, PerformDestroyDoes
<1>4. b \in Sim /\ b.ok = TRUE /\ b.children[c] = {} /\ b.m_tGraphID[c] = v
  BY <1>1, <1>3 DEF Emptied
<1>5. switch_offline(s, c) = r
  <2> DEFINE off == [Check(s, s.m_bOnline[c]) EXCEPT !.m_bOnline[c] = FALSE]
             kept == s.children[c] \ (IF c \in Trader THEN Unsavable ELSE {})
  <2>1. off = WithOnline(s, c, FALSE)
    BY <1>1 DEF WithOnline, Check, Sim
  <2>2. kept = saved
    <3>1. \A x \in S : x \in Unsavable => c \in Trader
      BY <1>0, ChildIs
    <3> QED
      BY <3>1
  <2>3. switch_offline(s, c) = add_offline(Check(Perform_destroy(off, c), Perform_destroy(off, c).children[c] = {}), c, kept)
    BY DEF switch_offline
  <2> HIDE DEF off, kept, saved, b
  <2>4. switch_offline(s, c) = add_offline(Check(b, b.children[c] = {}), c, saved)
    BY <2>1, <2>2, <2>3 DEF b
  <2>5. Check(b, b.children[c] = {}) = b
    BY <1>4 DEF Check, Sim
  <2>6. add_offline(b, c, saved) =
          GraphAdd(ScheduledAdd(FoldSet(LAMBDA i, q : put_back(q, c, i), b, saved), c), c, b.m_tGraphID[c], FALSE)
    BY DEF add_offline
  <2>7. FoldSet(LAMBDA i, q : put_back(q, c, i), b, saved) = f
    BY Loops
  <2> QED
    BY <1>4, <2>4, <2>5, <2>6, <2>7
<1> HIDE DEF b
<1>6. ASSUME NEW x \in saved
      PROVE  Ready("return", b, c, v, x)
  BY <1>3, <1>6 DEF Ready, Emptied
<1>7. /\ f \in Sim /\ f.ok = b.ok
      /\ \A x \in ID \ saved : SameFor(b, f, x)
      /\ \A x \in saved : InHands(f, c, x)
  <2> HIDE DEF saved, v
  <2>1. c \in Holder \/ saved = {}
    BY <1>0 DEF saved
  <2>2. LET q == Loop("return", b, c, saved) IN
        /\ q \in Sim /\ q.ok = b.ok
        /\ \A x \in ID \ saved : SameFor(b, q, x)
        /\ \A x \in saved : Done("return", q, c, v, x)
    BY <1>0, <1>4, <1>6, <2>1, LoopDoes
  <2> QED
    BY <2>2 DEF Done
<1> HIDE DEF f
<1>8. SameFor(b, f, c)
  BY <1>0, <1>7
<1>9. /\ c \in f.objects /\ c \notin f.entities /\ ~f.m_bOnline[c] /\ f.ID_Parent[c] = None /\ f.m_tGraphID[c] = v
      /\ (\A q \in ID : c \notin f.children[q]) /\ (\A w \in Vertex : c \notin f.points[w])
      /\ c \in f.level.m_objects /\ c \notin f.scheduled.m_objects
  <2>1. /\ (\A q \in ID : c \notin s.children[q]) /\ (\A w \in Vertex : c \notin s.points[w])
        /\ c \in s.level.m_objects /\ c \notin s.scheduled.m_objects
    BY <1>0, <1>1, <1>2 DEF Listed, Held, need_update
  <2> QED
    BY <1>3, <1>8, <2>1 DEF SameFor, Emptied
<1>10. /\ About(c, f, d) /\ OnlyIn({"ok", "scheduled"}, f, d) /\ d.ok = TRUE
       /\ c \in d.scheduled.m_objects <=> need_update(f, c)
  <2>1. About(c, f, d) /\ OnlyIn({"ok", "scheduled"}, f, d)
    BY <1>0, <1>7, ScheduledAbout, ScheduledAddDoes
  <2>2. CASE need_update(f, c)
    <3>1. d.ok = (f.ok /\ c \notin f.scheduled.m_objects) /\ d.scheduled.m_objects = f.scheduled.m_objects \cup {c}
      BY <1>0, <1>7, <2>2, ScheduledAddDoes
    <3> QED
      BY <1>4, <1>7, <1>9, <2>1, <2>2, <3>1
  <2>3. CASE ~need_update(f, c)
    <3>1. d = f
      BY <1>0, <1>7, <2>3, ScheduledAddDoes
    <3> QED
      BY <1>4, <1>7, <1>9, <2>1, <2>3, <3>1
  <2> QED
    BY <2>2, <2>3
<1> HIDE DEF d
<1>11. /\ d \in Sim /\ d.objects = f.objects /\ d.entities = f.entities /\ d.m_bOnline = f.m_bOnline /\ d.dead = f.dead
       /\ d.ID_Parent = f.ID_Parent /\ d.children = f.children /\ d.m_tGraphID = f.m_tGraphID
       /\ d.points = f.points /\ d.level = f.level
  BY <1>10 DEF OnlyIn, Field
<1>12. Placed(d, r, c, v) /\ About(c, d, r)
  <2> HIDE DEF v
  <2> QED
    BY <1>0, <1>9, <1>11, GraphAddDoes, GraphAbout
<1> HIDE DEF r
<1>13. /\ r \in Sim /\ r.objects = d.objects /\ r.entities = d.entities /\ r.m_bOnline = d.m_bOnline /\ r.dead = d.dead
       /\ r.ID_Parent = d.ID_Parent /\ r.children = d.children /\ r.level = d.level /\ r.scheduled = d.scheduled
  BY <1>12 DEF Placed, OnlyIn, Field
<1>14. r.ok /\ r.m_tGraphID[c] = v /\ \A w \in Vertex : c \in r.points[w] <=> w = v
  <2>1. \A w \in Vertex : c \notin d.points[w]
    BY <1>9, <1>11
  <2> QED
    BY <1>0, <1>10, <1>12, <2>1 DEF Placed
<1>15. Listed(r, c) /\ Settled(r, c) /\ Held(r, c)
  <2>1. /\ c \in r.objects /\ c \notin r.entities /\ ~r.m_bOnline[c] /\ r.ID_Parent[c] = None
        /\ (\A q \in ID : c \notin r.children[q]) /\ c \in r.level.m_objects
        /\ (c \in r.scheduled.m_objects <=> need_update(r, c))
    BY <1>9, <1>10, <1>11, <1>13 DEF need_update
  <2>2. Listed(r, c)
    BY <1>2, <1>14, <2>1 DEF Listed
  <2>3. Settled(r, c)
    BY <1>1, <1>2, <1>14, <2>1 DEF Settled
  <2>4. Held(r, c)
    BY <1>0, <2>1 DEF Held
  <2> QED
    BY <2>2, <2>3, <2>4
<1>16. ASSUME NEW x \in ID \ {c}
       PROVE  SameFor(f, r, x)
  <2>1. SameFor(f, d, x) /\ SameFor(d, r, x)
    BY <1>10, <1>12 DEF About
  <2> QED
    BY <2>1 DEF SameFor
<1>17. ASSUME NEW x \in ID \ C
       PROVE  SameFor(s, r, x) /\ s.ID_Parent[x] \notin C
  <2>1. SameFor(s, b, x) /\ SameFor(b, f, x) /\ SameFor(f, r, x)
    BY <1>3, <1>7, <1>16 DEF Emptied
  <2>2. s.ID_Parent[x] # c
    BY <1>0, <1>17, ChildrenAre
  <2>3. s.ID_Parent[x] \notin Item
    BY <1>0 DEF WorldRight, Held
  <2> QED
    BY <1>0, <2>1, <2>2, <2>3 DEF SameFor
<1>18. ASSUME NEW x \in S
       PROVE  Listed(r, x) /\ Settled(r, x) /\ Held(r, x)
  <2>0. x \in ID /\ x # c /\ x \in Item /\ c \in Holder
    BY <1>0
  <2>1. CASE x \in Unsavable
    <3>1. Absent(b, x) /\ SameFor(b, f, x) /\ SameFor(f, r, x)
      BY <1>3, <1>7, <1>16, <2>0, <2>1 DEF Emptied
    <3>2. Absent(r, x)
      BY <3>1 DEF SameFor, Absent, Unlisted
    <3> QED
      BY <1>0, <3>2, AbsentIsRight
  <2>2. CASE x \notin Unsavable
    <3>1. InHands(f, c, x) /\ SameFor(f, r, x)
      BY <1>7, <1>16, <2>0, <2>2
    <3>2. Listed(r, x)
      BY <3>1, ListedSame DEF InHands
    <3>3. /\ x \in r.objects /\ x \notin r.entities /\ ~r.m_bOnline[x] /\ r.ID_Parent[x] = c
          /\ \A q \in ID : x \in r.children[q] <=> q = c
      BY <3>1 DEF SameFor, InHands
    <3>4. Settled(r, x)
      BY <1>0, <2>2, <3>3 DEF Settled
    <3>5. c \in r.objects /\ r.m_bOnline[c] = FALSE /\ r.m_bOnline[x] = FALSE
      BY <1>0, <1>9, <1>11, <1>13, <2>0, <3>3 DEF Sim
    <3>6. Held(r, x)
      BY <1>0, <2>0, <2>2, <3>3, <3>5 DEF Held
    <3> QED
      BY <3>2, <3>4, <3>6
  <2> QED
    BY <2>1, <2>2
<1>19. Actor \in C => Actor \in r.objects /\ r.m_tGraphID[Actor] \in Near
  <2>1. Actor \in Holder
    BY DEF Holder, Trader
  <2> QED
    BY <1>0, <1>2, <1>9, <1>11, <1>13, <1>14, <2>1
<1>20. \A x \in C : Listed(r, x) /\ Settled(r, x) /\ Held(r, x)
  BY <1>15, <1>18
<1>22. \A x \in ID \ (s.children[c] \cup {c}) : SameFor(s, r, x)
  BY <1>17
<1> HIDE DEF C
<1>21. WorldRight(r)
  BY <1>0, <1>13, <1>14, <1>17, <1>19, <1>20, RightAgain
<1> QED
  BY <1>5, <1>9, <1>11, <1>13, <1>21, <1>22

\* The schedule registry is right before an object is switched on.
LEMMA RescheduleIsIdle ==
    ASSUME NEW s, NEW c \in s.objects, Listed(s, c)
    PROVE  reschedule(s, c) = s
BY DEF reschedule, Listed, need_update

\* The object is where it turns out to be.
LEMMA LocationRight ==
    ASSUME NEW s \in Sim, WorldRight(s), NEW c \in s.objects, NEW v \in Near,
           s.ID_Parent[c] = None, s.m_tGraphID[c] \in Near
    PROVE  LET r == synchronize_location(s, c, v) IN
           /\ r \in Sim /\ WorldRight(r) /\ c \in r.objects /\ r.m_bOnline[c] = s.m_bOnline[c]
           /\ r.ID_Parent[c] = None /\ r.m_tGraphID[c] = v /\ About(c, s, r)
<1> DEFINE r == synchronize_location(s, c, v)
<1>0. c \in ID /\ v \in Vertex /\ None \notin ID
  BY IdsAreNaturals DEF Sim
<1>1. Listed(s, c) /\ Settled(s, c) /\ Held(s, c) /\ s.ok
  BY <1>0 DEF WorldRight
<1>2. CASE v = s.m_tGraphID[c]
  <2>1. r = s
    BY <1>2 DEF synchronize_location
  <2> QED
    BY <1>2, <2>1, AboutItself
<1>3. CASE v # s.m_tGraphID[c] /\ s.m_bOnline[c]
  <2>1. r = WithGraph(s, c, v)
    BY <1>3 DEF synchronize_location, WithGraph
  <2>2. r \in Sim /\ FactsChange(s, r, c, s.m_bOnline[c], s.dead[c], s.ID_Parent[c], v)
    BY <1>0, <2>1, GraphChanges
  <2> HIDE DEF r
  <2>3. /\ About(c, s, r) /\ r.ok = s.ok /\ r.objects = s.objects /\ r.entities = s.entities
        /\ r.children = s.children /\ r.points = s.points /\ r.level = s.level /\ r.scheduled = s.scheduled
        /\ r.m_bOnline[c] = s.m_bOnline[c] /\ r.dead[c] = s.dead[c] /\ r.ID_Parent[c] = None /\ r.m_tGraphID[c] = v
    BY <2>2 DEF FactsChange
  <2>4. Listed(r, c)
    BY <1>1, <1>3, <2>3 DEF Listed, need_update
  <2>5. Settled(r, c) /\ Held(r, c)
    BY <1>0, <1>1, <2>3 DEF Settled, Held
  <2>6. WorldRight(r)
    BY <1>0, <1>1, <2>3, <2>4, <2>5, RightAlone
  <2> QED
    BY <2>2, <2>3, <2>6 DEF r
<1>4. CASE v # s.m_tGraphID[c] /\ ~s.m_bOnline[c]
  <2>1. r = change(s, c, v)
    BY <1>4 DEF synchronize_location
  <2> HIDE DEF r
  <2>2. /\ r \in Sim /\ WorldRight(r) /\ r.objects = s.objects /\ r.m_bOnline = s.m_bOnline
        /\ r.ID_Parent = s.ID_Parent /\ r.m_tGraphID[c] = v /\ About(c, s, r)
    BY <1>0, <1>4, <2>1, ChangeRight
  <2> QED
    BY <2>2 DEF r
<1> QED
  BY <1>2, <1>3, <1>4

\* Of those who are in the level before and after, but for c, nobody gets
\* turns before him that he would not have got.
InTurn(s, r, c) ==
    \A x \in ID \ {c} : x \in s.level.m_objects /\ x \in r.level.m_objects
                          => Between(r.level.next, x) \subseteq Between(s.level.next, x)

LEMMA InTurnAbout ==
    ASSUME NEW s, NEW r, NEW c, About(c, s, r)
    PROVE  InTurn(s, r, c)
BY DEF About, SameFor, InTurn

\* Who is in somebody's hands is not in the level.
LEMMA InTurnApart ==
    ASSUME NEW s \in Sim, WorldRight(s), NEW h \in Sim, WorldRight(h), NEW r, NEW c \in ID, About(c, s, h),
           \A x \in ID \ (h.children[c] \cup {c}) : SameFor(h, r, x)
    PROVE  InTurn(s, r, c)
<1> SUFFICES ASSUME NEW x \in ID \ {c}, x \in s.level.m_objects
             PROVE  Between(r.level.next, x) \subseteq Between(s.level.next, x)
  BY DEF InTurn
<1>1. SameFor(s, h, x) /\ Listed(h, x) /\ Held(h, x) /\ None \notin ID
  BY IdsAreNaturals DEF About, WorldRight
<1>2. x \in h.level.m_objects
  BY <1>1 DEF SameFor
<1>3. x \notin h.children[c]
  BY <1>1, <1>2 DEF Listed, Held
<1>4. SameFor(h, r, x)
  BY <1>3
<1> QED
  BY <1>1, <1>2, <1>4 DEF SameFor

LEMMA SwitchObjectRight ==
    ASSUME NEW s \in Sim, WorldRight(s), NEW c \in s.objects, s.ID_Parent[c] = None, s.m_tGraphID[c] \in Near,
           NEW r \in switch_object(s, c)
    PROVE  r \in Sim /\ WorldRight(r) /\ InTurn(s, r, c)
<1>0. c \in ID
  BY DEF Sim
<1>1. PICK v \in Near :
        LET here == synchronize_location(s, c, v)
        IN r \in IF s.m_bOnline[c] THEN try_switch_offline(here, c) ELSE try_switch_online(here, c)
  BY DEF switch_object
<1> DEFINE here == synchronize_location(s, c, v)
<1>2. /\ here \in Sim /\ WorldRight(here) /\ c \in here.objects /\ here.m_bOnline[c] = s.m_bOnline[c]
      /\ here.ID_Parent[c] = None /\ here.m_tGraphID[c] \in Near /\ About(c, s, here)
  BY LocationRight
<1>3. r \in IF s.m_bOnline[c] THEN try_switch_offline(here, c) ELSE try_switch_online(here, c)
  BY <1>1
<1> HIDE DEF here
<1>4. CASE s.m_bOnline[c]
  <2>1. r = here \/ r = switch_offline(here, c)
    BY <1>3, <1>4 DEF try_switch_offline
  <2>3. CASE r = here
    BY <1>2, <2>3, InTurnAbout
  <2>4. CASE r = switch_offline(here, c)
    <3>1. /\ r \in Sim /\ WorldRight(r)
          /\ \A x \in ID \ (here.children[c] \cup {c}) : SameFor(here, r, x)
      BY <1>2, <1>4, <2>4, SwitchOfflineRight
    <3> QED
      BY <1>0, <1>2, <3>1, InTurnApart
  <2> QED
    BY <2>1, <2>3, <2>4
<1>5. CASE ~s.m_bOnline[c]
  <2>1. reschedule(here, c) = here
    <3>1. Listed(here, c)
      BY <1>2 DEF WorldRight, Sim
    <3> QED
      BY <1>2, <3>1, RescheduleIsIdle
  <2>2. r = here \/ r = switch_online(here, c)
    BY <1>3, <1>5, <2>1 DEF try_switch_online
  <2>3. CASE r = here
    BY <1>2, <2>3, InTurnAbout
  <2>4. CASE r = switch_online(here, c)
    <3>1. /\ r \in Sim /\ WorldRight(r)
          /\ \A x \in ID \ (here.children[c] \cup {c}) : SameFor(here, r, x)
      BY <1>2, <1>5, <2>4, SwitchOnlineRight
    <3> QED
      BY <1>0, <1>2, <3>1, InTurnApart
  <2> QED
    BY <2>2, <2>3, <2>4
<1> QED
  BY <1>4, <1>5

\* Another place in the level's or the schedule's registry, or not its first update.
WithLevel(s, m) == [s EXCEPT !.level = m]
WithScheduled(s, m) == [s EXCEPT !.scheduled = m]

LEMMA TurnRight ==
    ASSUME NEW s \in Sim, WorldRight(s), NEW m \in Maps
    PROVE  /\ m.m_objects = s.level.m_objects => WithLevel(s, m) \in Sim /\ WorldRight(WithLevel(s, m))
           /\ m.m_objects = s.scheduled.m_objects => WithScheduled(s, m) \in Sim /\ WorldRight(WithScheduled(s, m))
<1>1. ASSUME NEW r \in Sim, \A f \in Field \ {"level", "scheduled"} : r[f] = s[f],
             r.level.m_objects = s.level.m_objects, r.scheduled.m_objects = s.scheduled.m_objects
      PROVE  WorldRight(r)
  <2>1. /\ r.objects = s.objects /\ r.entities = s.entities /\ r.m_bOnline = s.m_bOnline /\ r.dead = s.dead
        /\ r.ID_Parent = s.ID_Parent /\ r.children = s.children /\ r.m_tGraphID = s.m_tGraphID
        /\ r.points = s.points /\ r.ok = s.ok
    BY <1>1 DEF Field
  <2>2. ASSUME NEW x \in ID
        PROVE  Listed(r, x) /\ Settled(r, x) /\ Held(r, x)
    <3>1. Listed(s, x) /\ Settled(s, x) /\ Held(s, x)
      BY DEF WorldRight
    <3> QED
      BY <1>1, <2>1, <3>1 DEF Listed, Settled, Held, need_update
  <2> QED
    BY <2>1, <2>2 DEF WorldRight
<1>2. /\ WithLevel(s, m) \in Sim /\ WithLevel(s, m).level = m
      /\ \A f \in Field \ {"level"} : WithLevel(s, m)[f] = s[f]
  BY DEF WithLevel, Sim, Field
<1>3. /\ WithScheduled(s, m) \in Sim /\ WithScheduled(s, m).scheduled = m
      /\ \A f \in Field \ {"scheduled"} : WithScheduled(s, m)[f] = s[f]
  BY DEF WithScheduled, Sim, Field
<1>4. WithLevel(s, m).scheduled = s.scheduled /\ WithScheduled(s, m).level = s.level
  BY <1>2, <1>3 DEF Field
<1> QED
  BY <1>1, <1>2, <1>3, <1>4

-----------------------------------------------------------------------------
(* Objects that are created and die.                                       *)

\* Nothing is known of who is neither registered nor an entity.
LEMMA FreshIs ==
    ASSUME NEW s \in Sim, WorldRight(s), NEW c \in ID, c \notin s.objects \cup s.entities
    PROVE  /\ Unlisted(s, c) /\ s.m_bOnline[c] = FALSE /\ s.ID_Parent[c] = None /\ s.m_tGraphID[c] \in Near
           /\ (\A q \in ID : c \notin s.children[q]) /\ s.children[c] = {} /\ c # Actor
<1>0. None \notin ID
  BY IdsAreNaturals
<1>1. Listed(s, c) /\ Settled(s, c) /\ Held(s, c) /\ Actor \in s.objects
  BY DEF WorldRight
<1>2. s.children[c] = {}
  BY ChildrenAre
<1>3. s.m_bOnline[c] = FALSE
  BY <1>1 DEF Settled, Sim
<1> QED
  BY <1>0, <1>1, <1>2, <1>3 DEF Listed, Settled, Held, Unlisted, need_update

LEMMA CreateRight ==
    ASSUME NEW s \in Sim, WorldRight(s), NEW c \in ID, c \notin s.objects \cup s.entities, c \notin Unsavable,
           NEW v \in Vertex
    PROVE  LET r == register_object(WithGraph(s, c, v), c) IN r \in Sim /\ WorldRight(r) /\ About(c, s, r)
<1> DEFINE g == WithGraph(s, c, v)
           r == register_object(g, c)
<1>0. None \notin ID /\ s.ok
  BY IdsAreNaturals DEF WorldRight
<1>1. /\ Unlisted(s, c) /\ s.m_bOnline[c] = FALSE /\ s.ID_Parent[c] = None
      /\ (\A q \in ID : c \notin s.children[q]) /\ s.children[c] = {} /\ c # Actor
  BY FreshIs
<1>2. g \in Sim /\ FactsChange(s, g, c, s.m_bOnline[c], s.dead[c], s.ID_Parent[c], v)
  BY GraphChanges
<1> HIDE DEF g
<1>3. About(c, s, g) /\ g.ok = s.ok /\ Listed(g, c) /\ c \notin g.objects /\ g.ID_Parent[c] = None
      /\ g.m_bOnline[c] = FALSE /\ g.entities = s.entities /\ g.children = s.children
  BY <1>1, <1>2 DEF FactsChange, Unlisted, Listed, need_update
<1>4. About(c, g, r) /\ Alike(g, r, c) /\ r.ok = g.ok /\ c \in r.objects /\ Listed(r, c)
  BY <1>2, <1>3, RegisterFree
<1> HIDE DEF r
<1>5. Settled(r, c) /\ Held(r, c)
  BY <1>0, <1>1, <1>3, <1>4 DEF Alike, Settled, Held
<1>6. About(c, s, r)
  BY <1>3, <1>4, AboutJoins
<1>7. r \in Sim /\ WorldRight(r)
  <2>1. r.ok
    BY <1>0, <1>3, <1>4
  <2>2. Listed(r, c) /\ s.children[c] = {} /\ c # Actor
    BY <1>1, <1>4
  <2> QED
    BY <1>5, <1>6, <2>1, <2>2, RightAlone
<1> QED
  BY <1>6, <1>7 DEF r, g

\* spawn_item2 puts an item in the hands of who is offline.
LEMMA SpawnInsideRight ==
    ASSUME NEW s \in Sim, WorldRight(s), NEW c \in Item, c \notin s.objects \cup s.entities, c \notin Unsavable,
           NEW p \in Holder, p \in s.objects, ~s.m_bOnline[p]
    PROVE  LET r == register_object(WithGraph(WithParent(s, c, p), c, s.m_tGraphID[p]), c)
           IN r \in Sim /\ WorldRight(r) /\ About(c, s, r)
<1> DEFINE h == WithParent(s, c, p)
           g == WithGraph(h, c, s.m_tGraphID[p])
           r == register_object(g, c)
<1>0. None \notin ID /\ s.ok /\ c \in ID /\ p \in ID /\ p # c /\ s.m_tGraphID[p] \in Vertex
  BY IdsAreNaturals DEF WorldRight, Sim
<1>1. /\ Unlisted(s, c) /\ s.m_bOnline[c] = FALSE /\ s.ID_Parent[c] = None
      /\ (\A q \in ID : c \notin s.children[q]) /\ s.children[c] = {} /\ c # Actor
  BY <1>0, FreshIs
<1>2. h \in Sim /\ FactsChange(s, h, c, s.m_bOnline[c], s.dead[c], p, s.m_tGraphID[c])
  BY <1>0, ParentChanges
<1> HIDE DEF h
<1>3. g \in Sim /\ FactsChange(h, g, c, h.m_bOnline[c], h.dead[c], h.ID_Parent[c], s.m_tGraphID[p])
  BY <1>0, <1>2, GraphChanges
<1> HIDE DEF g
<1>4. About(c, s, g) /\ g.ok = s.ok /\ Listed(g, c) /\ c \notin g.objects /\ g.ID_Parent[c] = p
      /\ g.m_bOnline[c] = FALSE /\ g.entities = s.entities /\ g.children = s.children
  <2>1. About(c, s, g)
    BY <1>2, <1>3, AboutJoins DEF FactsChange
  <2> QED
    BY <1>1, <1>2, <1>3, <2>1 DEF FactsChange, Unlisted, Listed, need_update
<1>5. /\ About(c, g, r) /\ r.ok = g.ok /\ r.objects = g.objects \cup {c} /\ Listed(r, c)
      /\ r.entities = g.entities /\ r.m_bOnline = g.m_bOnline /\ r.ID_Parent = g.ID_Parent
      /\ \A q \in ID : c \in r.children[q] <=> q = p \/ c \in g.children[q]
  BY <1>0, <1>3, <1>4, RegisterHeld
<1> HIDE DEF r
<1>6. About(c, s, r)
  BY <1>4, <1>5, AboutJoins
<1>7. r.m_bOnline[p] = FALSE /\ p \in r.objects
  BY <1>0, <1>6 DEF About, SameFor, Sim
<1>8. Settled(r, c) /\ Held(r, c)
  BY <1>0, <1>1, <1>4, <1>5, <1>7 DEF Settled, Held
<1>9. r \in Sim /\ WorldRight(r)
  BY <1>0, <1>1, <1>4, <1>5, <1>6, <1>8, RightAlone
<1> QED
  BY <1>6, <1>9 DEF r, g, h

\* kill_entity of a creature who is offline, at the point v.
Killed(s, c, v) ==
    LET from == s.m_tGraphID[c]
        dying == ScheduledRemove(WithGraph(WithDead(s, c, TRUE), c, v), c)
    IN IF v = from THEN dying ELSE GraphAdd(GraphRemove(dying, c, from, TRUE), c, v, TRUE)

LEMMA KillRight ==
    ASSUME NEW s \in Sim, WorldRight(s), NEW c \in Creature, c \in s.objects, NEW v \in Vertex,
           ~s.m_bOnline[c], ~s.dead[c]
    PROVE  LET r == Killed(s, c, v)
           IN /\ r \in Sim /\ WorldRight(r) /\ r.objects = s.objects /\ r.m_bOnline = s.m_bOnline
              /\ About(c, s, r) /\ r.m_tGraphID[c] = v /\ (v = s.m_tGraphID[c] => r.level = s.level)
<1> DEFINE from == s.m_tGraphID[c]
           e == WithDead(s, c, TRUE)
           g == WithGraph(e, c, v)
           d == ScheduledRemove(g, c)
           m == GraphAdd(GraphRemove(d, c, from, TRUE), c, v, TRUE)
           r == IF v = from THEN d ELSE m
<1>0. None \notin ID /\ s.ok = TRUE /\ c \in ID /\ from \in Vertex /\ c # Actor /\ c \notin Item
  BY AlifeAssumption, IdsAreNaturals DEF WorldRight, Sim, Holder, Trader
<1>1. Listed(s, c) /\ Settled(s, c) /\ Held(s, c) /\ s.m_bOnline[c] = FALSE
  BY <1>0 DEF WorldRight, Sim
<1>2. s.ID_Parent[c] = None /\ c \notin s.entities /\ (\A q \in ID : c \notin s.children[q])
  BY <1>0, <1>1 DEF Held, Settled
<1>3. (\A w \in Vertex : c \in s.points[w] <=> w = from) /\ (c \in s.level.m_objects <=> from \in Near)
      /\ c \in s.scheduled.m_objects
  BY <1>0, <1>1, <1>2 DEF Listed, need_update
<1> HIDE DEF from
<1>4. e \in Sim /\ FactsChange(s, e, c, s.m_bOnline[c], TRUE, s.ID_Parent[c], s.m_tGraphID[c])
  BY <1>0, DeadChanges
<1>a. e.m_bOnline = s.m_bOnline
  BY DEF WithDead, Sim
<1> HIDE DEF e
<1>5. g \in Sim /\ FactsChange(e, g, c, e.m_bOnline[c], e.dead[c], e.ID_Parent[c], v)
  BY <1>0, <1>4, GraphChanges
<1>b. g.m_bOnline = s.m_bOnline
  BY <1>4, <1>a DEF WithGraph, Sim
<1> HIDE DEF g
<1>6. /\ About(c, s, g) /\ g.ok = s.ok /\ g.objects = s.objects /\ g.entities = s.entities /\ g.children = s.children
      /\ g.points = s.points /\ g.level = s.level /\ g.scheduled = s.scheduled
      /\ g.m_bOnline[c] = FALSE /\ g.dead[c] = TRUE /\ g.ID_Parent[c] = None /\ g.m_tGraphID[c] = v
  <2>1. About(c, s, g)
    BY <1>4, <1>5, AboutJoins DEF FactsChange
  <2> QED
    BY <1>1, <1>2, <1>4, <1>5, <2>1 DEF FactsChange
<1>7. /\ About(c, g, d) /\ OnlyIn({"ok", "scheduled"}, g, d) /\ d.ok = TRUE /\ c \notin d.scheduled.m_objects
  <2>1. About(c, g, d) /\ OnlyIn({"ok", "scheduled"}, g, d)
    BY <1>0, <1>5, ScheduledAbout, ScheduledRemoveDoes
  <2>2. /\ d.ok = (g.ok /\ (c \in g.scheduled.m_objects \/ ~need_update(g, c)))
        /\ d.scheduled.m_objects = g.scheduled.m_objects \ {c}
    BY <1>0, <1>5, ScheduledRemoveDoes
  <2> QED
    BY <1>0, <1>3, <1>6, <2>1, <2>2
<1> HIDE DEF d
<1>8. /\ d \in Sim /\ d.objects = s.objects /\ d.entities = s.entities /\ d.children = s.children
      /\ d.points = s.points /\ d.level = s.level /\ d.m_bOnline = s.m_bOnline
      /\ d.m_bOnline[c] = FALSE /\ d.dead[c] = TRUE /\ d.ID_Parent[c] = None /\ d.m_tGraphID[c] = v
  BY <1>6, <1>7, <1>b DEF OnlyIn, Field
<1>9. About(c, s, d)
  BY <1>6, <1>7, AboutJoins
<1>10. /\ About(c, s, r) /\ r.ok /\ r.objects = s.objects /\ r.entities = s.entities /\ r.m_bOnline = s.m_bOnline
       /\ r.children = s.children /\ r.dead[c] = TRUE /\ r.ID_Parent[c] = None /\ r.m_tGraphID[c] = v
       /\ c \notin r.scheduled.m_objects /\ (c \in r.level.m_objects <=> v \in Near)
       /\ (v = from => r.level = s.level) /\ \A w \in Vertex : c \in r.points[w] <=> w = v
  <2>1. CASE v = from
    BY <1>3, <1>7, <1>8, <1>9, <2>1
  <2>2. CASE v # from
    <3>1. Moved(d, m, c, v)
      BY <1>0, <1>3, <1>8, Moves
    <3> HIDE DEF m
    <3>2. About(c, s, m)
      BY <1>9, <3>1, AboutJoins DEF Moved
    <3>3. r = m
      BY <2>2
    <3> HIDE DEF r
    <3> QED
      BY <1>7, <1>8, <2>2, <3>1, <3>2, <3>3 DEF Moved
  <2> QED
    BY <2>1, <2>2
<1>11. r = Killed(s, c, v)
  BY DEF from, e, g, d, Killed
<1> HIDE DEF r
<1>12. Listed(r, c) /\ Settled(r, c) /\ Held(r, c)
  BY <1>0, <1>1, <1>2, <1>10 DEF Listed, Settled, Held, need_update
<1>13. r \in Sim /\ WorldRight(r)
  BY <1>0, <1>1, <1>10, <1>12, RightAlone
<1> QED
  BY <1>10, <1>11, <1>13 DEF from

-----------------------------------------------------------------------------
(* What the server and its clients do to single objects.                   *)

\* OnTouch takes who is registered from the level's registry.
LEMMA TouchDoes ==
    ASSUME NEW s \in Sim, NEW c \in ID, NEW p \in s.objects, c \in s.level.m_objects => c \in s.objects
    PROVE  LET r == OnTouch(s, p, c) IN
           /\ About(c, s, r) /\ OnlyIn({"ok", "level"}, s, r) /\ r.ok = s.ok /\ c \notin r.level.m_objects
<1>0. FALSE \in BOOLEAN
  OBVIOUS
<1>1. CASE c \in s.level.m_objects
  <2> DEFINE r == LevelRemove(s, c, FALSE)
  <2>1. OnTouch(s, p, c) = r
    BY <1>1 DEF OnTouch, attach
  <2>2. /\ About(c, s, r) /\ OnlyIn({"ok", "level"}, s, r)
        /\ r.ok = (s.ok /\ (FALSE \/ c \in s.level.m_objects))
        /\ r.level.m_objects = s.level.m_objects \ {c}
    BY <1>0, LevelRemoveAbout, LevelRemoveDoes
  <2> HIDE DEF r
  <2>3. r.ok = s.ok /\ c \notin r.level.m_objects
    BY <1>1, <2>2 DEF Sim
  <2> QED
    BY <2>1, <2>2, <2>3
<1>2. CASE c \notin s.level.m_objects
  <2>1. OnTouch(s, p, c) = s
    BY <1>2 DEF OnTouch
  <2> QED
    BY <1>2, <2>1, AboutItself DEF OnlyIn
<1> QED
  BY <1>1, <1>2

\* Who is online in nobody's hands gets into those of p.
TakenUp(s, p, c) == WithChild(WithParent(OnTouch(s, p, c), c, p), p, c)

\* r is s, but p has taken c up.
TakesUp(s, r, p, c) ==
    /\ About(c, s, r) /\ r.ok = s.ok /\ r.objects = s.objects /\ r.entities = s.entities
    /\ r.m_bOnline = s.m_bOnline /\ r.m_tGraphID = s.m_tGraphID /\ r.points = s.points
    /\ r.scheduled = s.scheduled /\ c \notin r.level.m_objects /\ r.ID_Parent[c] = p
    /\ \A q \in ID : c \in r.children[q] <=> q = p

\* Who waits to be taken up: where TakenUp does what it should.
InNoHands(s, c) == (c \in s.level.m_objects => c \in s.objects) /\ \A q \in ID : c \notin s.children[q]

LEMMA TakeUpDoes ==
    ASSUME NEW s \in Sim, NEW c \in ID, NEW p \in ID, p \in s.objects, InNoHands(s, c)
    PROVE  TakesUp(s, TakenUp(s, p, c), p, c)
<1> USE DEF InNoHands
<1> DEFINE t == OnTouch(s, p, c)
           h == WithParent(t, c, p)
           r == WithChild(h, p, c)
<1>1. About(c, s, t) /\ OnlyIn({"ok", "level"}, s, t) /\ t.ok = s.ok /\ c \notin t.level.m_objects
  BY TouchDoes
<1> HIDE DEF t
<1>2. /\ t \in Sim /\ t.objects = s.objects /\ t.entities = s.entities /\ t.children = s.children
      /\ t.m_bOnline = s.m_bOnline /\ t.m_tGraphID = s.m_tGraphID /\ t.points = s.points /\ t.scheduled = s.scheduled
  BY <1>1 DEF OnlyIn, Field
<1>3. h \in Sim /\ FactsChange(t, h, c, t.m_bOnline[c], t.dead[c], p, t.m_tGraphID[c])
  BY <1>2, ParentChanges
<1>4. h.m_bOnline = t.m_bOnline /\ h.m_tGraphID = t.m_tGraphID
  BY <1>2 DEF WithParent, Sim
<1> HIDE DEF h
<1>5. ChildrenChange(h, r, p, c, h.children[p] \cup {c})
  BY <1>3, ChildMoves
<1> HIDE DEF r
<1>6. About(c, s, r)
  BY <1>1, <1>3, <1>5, AboutJoins DEF FactsChange, ChildrenChange
<1>7. /\ r.ok = s.ok /\ r.objects = s.objects /\ r.entities = s.entities
      /\ r.m_bOnline = s.m_bOnline /\ r.m_tGraphID = s.m_tGraphID /\ r.points = s.points
      /\ r.scheduled = s.scheduled /\ c \notin r.level.m_objects /\ r.ID_Parent[c] = p
  BY <1>1, <1>2, <1>3, <1>4, <1>5 DEF FactsChange, ChildrenChange
<1>8. \A q \in ID : c \in r.children[q] <=> q = p
  BY <1>2, <1>3, <1>5 DEF FactsChange, ChildrenChange
<1> QED
  BY <1>6, <1>7, <1>8 DEF TakesUp, TakenUp, t, h, r

\* An item that lies about, online, is taken up.
LEMMA TakeUpRight ==
    ASSUME NEW s \in Sim, WorldRight(s), NEW c \in Item, NEW p \in Holder, c \in s.entities, p \in s.entities,
           s.ID_Parent[c] = None, c \in Unsavable => p \in Trader
    PROVE  /\ TakenUp(s, p, c) \in Sim /\ WorldRight(TakenUp(s, p, c))
           /\ About(c, s, TakenUp(s, p, c)) /\ c \notin TakenUp(s, p, c).level.m_objects
<1> DEFINE r == TakenUp(s, p, c)
<1>0. /\ None \notin ID /\ s.ok = TRUE /\ c \in ID /\ p \in ID /\ p # c /\ p \notin Item /\ c \notin Creature /\ c # Actor
      /\ p # None
  BY IdsAreNaturals DEF WorldRight, Sim, Holder, Trader
<1>1. Listed(s, c) /\ Settled(s, c) /\ Held(s, c) /\ Settled(s, p)
  BY <1>0 DEF WorldRight
<1>2. s.m_bOnline[c] = TRUE /\ s.m_bOnline[p] = TRUE /\ p \in s.objects
  BY <1>0, <1>1 DEF Settled, Sim
<1>3. s.children[c] = {} /\ \A q \in ID : c \notin s.children[q]
  <2>1. c \notin Holder
    BY IdsAreNaturals
  <2> QED
    BY <1>0, <1>1, <2>1, ChildrenAre DEF Held
<1>4. /\ (c \in s.level.m_objects => c \in s.objects) /\ (\A w \in Vertex : c \notin s.points[w])
      /\ c \notin s.scheduled.m_objects
  BY <1>0, <1>1, <1>2 DEF Listed, need_update
<1>5. /\ About(c, s, r) /\ r.ok = s.ok /\ r.objects = s.objects /\ r.entities = s.entities
      /\ r.m_bOnline = s.m_bOnline /\ r.m_tGraphID = s.m_tGraphID /\ r.points = s.points
      /\ r.scheduled = s.scheduled /\ c \notin r.level.m_objects /\ r.ID_Parent[c] = p
      /\ \A q \in ID : c \in r.children[q] <=> q = p
  <2>1. InNoHands(s, c)
    BY <1>3, <1>4 DEF InNoHands
  <2>2. TakesUp(s, r, p, c)
    BY <1>0, <1>2, <2>1, TakeUpDoes
  <2> HIDE DEF r
  <2> QED
    BY <2>2 DEF TakesUp
<1> HIDE DEF r
<1>6. Listed(r, c)
  BY <1>0, <1>4, <1>5 DEF Listed, need_update
<1>7. Settled(r, c)
  BY <1>0, <1>1, <1>5 DEF Settled
<1>8. Held(r, c)
  BY <1>0, <1>2, <1>5 DEF Held
<1>9. r.ok
  BY <1>0, <1>5
<1>10. r \in Sim /\ WorldRight(r)
  BY <1>0, <1>3, <1>5, <1>6, <1>7, <1>8, <1>9, RightAlone
<1> QED
  BY <1>5, <1>10 DEF r

\* An item is taken from the hands it is in.
LEMMA RejectRight ==
    ASSUME NEW s \in Sim, WorldRight(s), NEW c \in Item, c \in s.entities, NEW p \in ID, s.ID_Parent[c] = p
    PROVE  LET r == Process_event_reject(s, p, c) IN r \in Sim /\ WorldRight(r) /\ About(c, s, r)
<1> DEFINE r == Process_event_reject(s, p, c)
<1>0. None \notin ID /\ s.ok = TRUE /\ c \in ID /\ p # None /\ c # Actor /\ c \notin Holder
  BY IdsAreNaturals DEF WorldRight, Sim, Holder, Trader
<1>1. Listed(s, c) /\ Settled(s, c) /\ Held(s, c) /\ Listed(s, p) /\ Settled(s, p) /\ Held(s, p)
  BY <1>0 DEF WorldRight
<1>2. s.children[c] = {} /\ c \in s.children[p] /\ p \in s.objects /\ s.ID_Parent[p] = None
  BY <1>0, ChildrenAre
<1>3. s.m_bOnline[c] = TRUE /\ s.m_bOnline[p] = TRUE
  BY <1>0, <1>1 DEF Settled, Held, Sim
<1>4. s.m_tGraphID[p] \in Near
  BY <1>1, <1>2, <1>3 DEF Settled
<1>5. \A q \in ID : c \in s.children[q] <=> q = p
  BY <1>0, <1>1 DEF Held
<1>6. c \in s.objects => c \notin Unsavable
  BY <1>1 DEF Settled
<1>7. About(c, s, r) /\ r.ok = s.ok /\ (c \in r.entities <=> c \in s.entities) /\ Loose(r, c, s.m_tGraphID[p])
  BY <1>1, <1>2, <1>3, <1>4, <1>5, <1>6, RejectDoes
<1> HIDE DEF r
<1>8. Listed(r, c) /\ Settled(r, c) /\ Held(r, c)
  BY <1>0, <1>4, <1>7 DEF Loose, Settled, Held
<1>9. r.ok
  BY <1>0, <1>7
<1>10. r \in Sim /\ WorldRight(r)
  BY <1>0, <1>2, <1>7, <1>8, <1>9, RightAlone
<1> QED
  BY <1>7, <1>10 DEF r

\* A creature dies online.
LEMMA DeathRight ==
    ASSUME NEW s \in Sim, WorldRight(s), NEW c \in Creature, c \in s.entities
    PROVE  LET r == WithDead(s, c, TRUE) IN r \in Sim /\ WorldRight(r) /\ r.level = s.level
<1> DEFINE r == WithDead(s, c, TRUE)
<1>0. None \notin ID /\ s.ok = TRUE /\ c \in ID /\ c # Actor /\ c \notin Item
  BY AlifeAssumption, IdsAreNaturals DEF WorldRight, Sim, Holder, Trader
<1>1. Listed(s, c) /\ Settled(s, c) /\ Held(s, c)
  BY <1>0 DEF WorldRight
<1>2. s.m_bOnline[c] = TRUE /\ c \in s.objects
  BY <1>0, <1>1 DEF Settled, Sim
<1>3. r \in Sim /\ FactsChange(s, r, c, s.m_bOnline[c], TRUE, s.ID_Parent[c], s.m_tGraphID[c])
  BY <1>0, DeadChanges
<1> HIDE DEF r
<1>4. Listed(r, c) /\ Settled(r, c) /\ Held(r, c)
  BY <1>0, <1>1, <1>2, <1>3 DEF FactsChange, Listed, Settled, Held, need_update
<1>5. r \in Sim /\ WorldRight(r)
  BY <1>0, <1>2, <1>3, <1>4, RightAlone DEF FactsChange
<1> QED
  BY <1>3, <1>5 DEF r, FactsChange

\* A creature is put at another point, having gone offline.
LEMMA TeleportRight ==
    ASSUME NEW s \in Sim, WorldRight(s), NEW c \in Creature, c \in s.objects, s.ID_Parent[c] = None, NEW v \in Vertex
    PROVE  LET r == change(IF s.m_bOnline[c] THEN switch_offline(s, c) ELSE s, c, v)
           IN r \in Sim /\ WorldRight(r) /\ InTurn(s, r, c) /\ r.m_tGraphID[c] = v
<1> DEFINE off == IF s.m_bOnline[c] THEN switch_offline(s, c) ELSE s
<1>0. c # Actor
  BY AlifeAssumption
<1>1. /\ off \in Sim /\ WorldRight(off) /\ c \in off.objects /\ ~off.m_bOnline[c] /\ off.ID_Parent[c] = None
      /\ InTurn(s, off, c)
  <2>1. c \in ID /\ About(c, s, s)
    BY AboutItself DEF Sim
  <2> QED
    BY <2>1, SwitchOfflineRight, InTurnAbout, InTurnApart
<1> HIDE DEF off
<1> DEFINE r == change(off, c, v)
<1>2. r \in Sim /\ WorldRight(r) /\ About(c, off, r) /\ r.m_tGraphID[c] = v
  BY <1>0, <1>1, ChangeRight
<1> HIDE DEF r
<1>3. InTurn(s, r, c)
  BY <1>1, <1>2 DEF InTurn, About, SameFor
<1> QED
  BY <1>2, <1>3 DEF off, r

\* What the server has created is online; if p is to hold it, nobody lists it but the level.
Spawned(s, r, p, c) ==
    /\ About(c, s, r) /\ r.ok = s.ok /\ c \in r.entities /\ r.m_bOnline[c] = TRUE /\ r.ID_Parent[c] = p
    /\ \A q \in ID : c \notin r.children[q]
    /\ c \in r.objects => c \notin Unsavable
    /\ p # None => /\ \A w \in Vertex : c \notin r.points[w]
                   /\ c \notin r.scheduled.m_objects
                   /\ c \in r.level.m_objects => c \in r.objects
    /\ p = None => c \in r.objects /\ r.m_tGraphID[c] \in Near /\ Listed(r, c)

\* An item whose parent is registered and may hold everything is created.
LEMMA CreateInHands ==
    ASSUME NEW s \in Sim, NEW c \in Item, NEW p \in s.objects, Unlisted(s, c),
           s.m_bOnline[c] = TRUE, s.ID_Parent[c] = p, c \in s.entities, \A q \in ID : c \notin s.children[q]
    PROVE  Spawned(s, create(s, c), p, c)
<1> DEFINE g == WithGraph(s, c, s.m_tGraphID[p])
           h == WithParent(g, c, None)
           n == register_object(h, c)
           w == WithParent(n, c, p)
<1>0. c \in ID /\ c \notin Creature /\ p \in ID /\ p # None /\ None \in ID \cup {None} /\ s.m_tGraphID[p] \in Vertex
  BY IdsAreNaturals DEF Sim
<1>1. CASE c \in Unsavable
  <2>1. create(s, c) = s
    BY <1>1 DEF create
  <2> QED
    BY <1>0, <2>1, AboutItself DEF Spawned, Unlisted
<1>2. CASE c \notin Unsavable
  <2>1. create(s, c) = w
    <3> DEFINE inside == [Check(s, p \in s.objects) EXCEPT !.m_tGraphID[c] = s.m_tGraphID[p], !.ID_Parent[c] = None]
    <3>1. create(s, c) = [register_object(inside, c) EXCEPT !.ID_Parent[c] = p]
      BY <1>0, <1>2 DEF create
    <3>2. Check(s, p \in s.objects) = s
      BY DEF Check, Sim
    <3>3. inside = h
      BY <3>2 DEF WithGraph, WithParent, Sim
    <3> HIDE DEF inside, h
    <3> QED
      BY <3>1, <3>3 DEF WithParent
  <2>2. g \in Sim /\ FactsChange(s, g, c, s.m_bOnline[c], s.dead[c], s.ID_Parent[c], s.m_tGraphID[p])
    BY <1>0, GraphChanges
  <2> HIDE DEF g
  <2>3. h \in Sim /\ FactsChange(g, h, c, g.m_bOnline[c], g.dead[c], None, g.m_tGraphID[c])
    BY <1>0, <2>2, ParentChanges
  <2> HIDE DEF h
  <2>4. /\ About(c, s, h) /\ h.ok = s.ok /\ h.objects = s.objects /\ h.entities = s.entities /\ h.children = s.children
        /\ h.points = s.points /\ h.level = s.level /\ h.scheduled = s.scheduled
        /\ h.m_bOnline[c] = TRUE /\ h.ID_Parent[c] = None
    <3>1. About(c, s, h)
      BY <2>2, <2>3, AboutJoins DEF FactsChange
    <3> QED
      BY <2>2, <2>3, <3>1 DEF FactsChange
  <2>5. Listed(h, c) /\ c \notin h.objects
    BY <1>0, <2>4 DEF Unlisted, Listed, need_update
  <2>6. About(c, h, n) /\ Alike(h, n, c) /\ n.ok = h.ok /\ c \in n.objects /\ Listed(n, c)
    BY <1>0, <2>3, <2>4, <2>5, RegisterFree
  <2> HIDE DEF n
  <2>7. w \in Sim /\ FactsChange(n, w, c, n.m_bOnline[c], n.dead[c], p, n.m_tGraphID[c])
    BY <1>0, <2>6, ParentChanges DEF About
  <2> HIDE DEF w
  <2>8. About(c, s, w)
    BY <2>4, <2>6, <2>7, AboutJoins DEF FactsChange
  <2>9. /\ w.ok = s.ok /\ c \in w.entities /\ w.m_bOnline[c] = TRUE /\ w.ID_Parent[c] = p
        /\ (\A q \in ID : c \notin w.children[q]) /\ c \in w.objects
    BY <2>4, <2>6, <2>7 DEF FactsChange, Alike
  <2>10. (\A x \in Vertex : c \notin w.points[x]) /\ c \notin w.scheduled.m_objects
    BY <1>0, <2>4, <2>6, <2>7 DEF FactsChange, Alike, Listed, need_update
  <2>11. Spawned(s, w, p, c)
    BY <1>0, <1>2, <2>8, <2>9, <2>10 DEF Spawned
  <2> QED
    BY <2>1, <2>11
<1> QED
  BY <1>1, <1>2

LEMMA OnCreateDoes ==
    ASSUME NEW s \in Sim, WorldRight(s), NEW c \in Item, c \notin s.objects \cup s.entities,
           NEW p \in (Holder \cap s.entities) \cup {None}, c \in Unsavable => p \in Trader
    PROVE  Spawned(s, OnCreate(WithParent(WithEntities(s, s.entities \cup {c}), c, p), c), p, c)
<1> DEFINE now == s.entities \cup {c}
           e == WithEntities(s, now)
           h == WithParent(e, c, p)
           on == WithOnline(h, c, TRUE)
           r == OnCreate(h, c)
<1>0. c \in ID /\ c \notin Creature /\ p \in ID \cup {None} /\ None \notin ID /\ TRUE \in BOOLEAN
      /\ now \in SUBSET ID /\ now \ {c} = s.entities \ {c} /\ None \notin Trader
  BY IdsAreNaturals DEF Sim, Holder
<1>1. /\ Unlisted(s, c) /\ s.m_bOnline[c] = FALSE /\ s.ID_Parent[c] = None /\ s.m_tGraphID[c] \in Near
      /\ \A q \in ID : c \notin s.children[q]
  BY <1>0, FreshIs
<1>2. About(c, s, e) /\ OnlyIn({"entities"}, s, e) /\ e.entities = now
  <2> HIDE DEF now
  <2> QED
    BY <1>0, WithEntitiesDoes
<1>3. c \in now
  OBVIOUS
<1> HIDE DEF now, e
<1>4. h \in Sim /\ FactsChange(e, h, c, e.m_bOnline[c], e.dead[c], p, e.m_tGraphID[c])
  BY <1>0, <1>2, ParentChanges DEF About
<1>5. r = IF p = None \/ p \in h.objects \cap Trader THEN create(on, c) ELSE on
  <2>1. h.ID_Parent[c] = p
    BY <1>4 DEF FactsChange
  <2> HIDE DEF h
  <2> QED
    BY <2>1 DEF OnCreate, WithOnline
<1> HIDE DEF h
<1>6. on \in Sim /\ FactsChange(h, on, c, TRUE, h.dead[c], h.ID_Parent[c], h.m_tGraphID[c])
  BY <1>0, <1>4, OnlineChanges
<1> HIDE DEF on
<1>7. /\ on \in Sim /\ on.ok = s.ok /\ on.objects = s.objects /\ on.entities = now /\ on.children = s.children
      /\ on.points = s.points /\ on.level = s.level /\ on.scheduled = s.scheduled /\ h.objects = s.objects
      /\ on.m_bOnline[c] = TRUE /\ on.ID_Parent[c] = p /\ on.m_tGraphID[c] = s.m_tGraphID[c]
  <2>1. /\ e.ok = s.ok /\ e.objects = s.objects /\ e.children = s.children /\ e.m_tGraphID = s.m_tGraphID
        /\ e.points = s.points /\ e.level = s.level /\ e.scheduled = s.scheduled
    BY <1>2 DEF OnlyIn, Field
  <2> QED
    BY <1>2, <1>4, <1>6, <2>1 DEF FactsChange
<1>8. About(c, s, on)
  BY <1>2, <1>4, <1>6, AboutJoins DEF FactsChange
<1>9. Unlisted(on, c) /\ (\A q \in ID : c \notin on.children[q]) /\ c \in on.entities
  BY <1>1, <1>3, <1>7 DEF Unlisted
<1>10. ASSUME p = None
      PROVE  Spawned(s, r, p, c)
  <2> DEFINE n == register_object(on, c)
  <2>1. c \notin Unsavable
    BY <1>0, <1>10
  <2>2. r = n
    BY <1>5, <1>7, <1>10, <2>1 DEF create
  <2>3. Listed(on, c) /\ c \notin on.objects
    BY <1>0, <1>7, <1>9 DEF Unlisted, Listed, need_update
  <2>4. About(c, on, n) /\ Alike(on, n, c) /\ n.ok = on.ok /\ c \in n.objects /\ Listed(n, c)
    BY <1>0, <1>7, <1>10, <2>3, RegisterFree
  <2> HIDE DEF n
  <2>5. About(c, s, n)
    BY <1>8, <2>4, AboutJoins
  <2>6. /\ n.ok = s.ok /\ c \in n.entities /\ n.m_bOnline[c] = TRUE /\ n.ID_Parent[c] = p
        /\ (\A q \in ID : c \notin n.children[q]) /\ n.m_tGraphID[c] \in Near
    BY <1>1, <1>7, <1>9, <2>4 DEF Alike
  <2>7. Spawned(s, n, p, c)
    BY <1>10, <2>1, <2>4, <2>5, <2>6 DEF Spawned
  <2> QED
    BY <2>2, <2>7
<1>11. ASSUME p # None /\ p \in h.objects \cap Trader
      PROVE  Spawned(s, r, p, c)
  <2> DEFINE n == create(on, c)
  <2>1. r = n
    BY <1>5, <1>11
  <2>2. p \in on.objects
    BY <1>7, <1>11
  <2>3. Spawned(on, n, p, c)
    BY <1>7, <1>9, <2>2, CreateInHands
  <2> HIDE DEF n
  <2>4. About(c, s, n)
    BY <1>8, <2>3, AboutJoins DEF Spawned
  <2>5. Spawned(s, n, p, c)
    BY <1>7, <1>11, <2>3, <2>4 DEF Spawned
  <2> QED
    BY <2>1, <2>5
<1>12. ASSUME p # None /\ p \notin h.objects \cap Trader
      PROVE  Spawned(s, r, p, c)
  <2>1. r = on
    BY <1>5, <1>12
  <2>2. c \notin on.objects
    BY <1>9 DEF Unlisted
  <2>3. on.ok = s.ok /\ c \in on.entities /\ on.m_bOnline[c] = TRUE /\ on.ID_Parent[c] = p
    BY <1>7, <1>9
  <2>4. Spawned(s, on, p, c)
    BY <1>8, <1>9, <1>12, <2>2, <2>3 DEF Spawned, Unlisted
  <2> QED
    BY <2>1, <2>4
<1>13. Spawned(s, r, p, c)
  BY <1>10, <1>11, <1>12
<1> QED
  BY <1>13 DEF r, h, e, now

\* The server's spawn of an item, alone or in somebody's hands.
LEMMA SpawnRight ==
    ASSUME NEW s \in Sim, WorldRight(s), NEW c \in Item, c \notin s.objects \cup s.entities,
           NEW p \in (Holder \cap s.entities) \cup {None}, c \in Unsavable => p \in Trader
    PROVE  LET n == OnCreate(WithParent(WithEntities(s, s.entities \cup {c}), c, p), c)
               r == IF p = None THEN n ELSE [OnTouch(n, p, c) EXCEPT !.children[p] = @ \cup {c}]
           IN r \in Sim /\ WorldRight(r) /\ About(c, s, r)
<1> DEFINE n == OnCreate(WithParent(WithEntities(s, s.entities \cup {c}), c, p), c)
           r == IF p = None THEN n ELSE [OnTouch(n, p, c) EXCEPT !.children[p] = @ \cup {c}]
<1>0. c \in ID /\ c \notin Creature /\ None \notin ID /\ c # Actor /\ s.ok = TRUE /\ c \notin Holder
  BY IdsAreNaturals DEF WorldRight, Sim, Holder, Trader
<1>1. Spawned(s, n, p, c)
  BY OnCreateDoes
<1>2. s.children[c] = {}
  BY <1>0, FreshIs
<1> HIDE DEF n
<1>3. n \in Sim /\ About(c, s, n) /\ n.ok
  BY <1>0, <1>1 DEF Spawned, About
<1>4. CASE p = None
  <2>1. Listed(n, c) /\ Settled(n, c) /\ Held(n, c)
    BY <1>0, <1>1, <1>4 DEF Spawned, Settled, Held
  <2>2. n \in Sim /\ WorldRight(n)
    BY <1>0, <1>2, <1>3, <2>1, RightAlone
  <2> QED
    BY <1>3, <1>4, <2>2 DEF n
<1>5. CASE p # None
  <2> DEFINE u == TakenUp(n, p, c)
  <2>0. p \in ID /\ p \in Holder /\ p \in s.entities /\ p # c
    BY <1>0, <1>5, IdsAreNaturals
  <2>1. p \in s.objects /\ s.m_bOnline[p] = TRUE
    <3>1. Settled(s, p) /\ p \notin Item
      BY <2>0, IdsAreNaturals DEF WorldRight
    <3> QED
      BY <2>0, <3>1 DEF Settled, Sim
  <2>2. p \in n.objects /\ n.m_bOnline[p] = TRUE
    BY <1>3, <2>0, <2>1 DEF About, SameFor
  <2>3. r = u
    <3> DEFINE t == OnTouch(n, p, c)
    <3>1. t \in Sim /\ t.ID_Parent = n.ID_Parent
      <4>1. OnlyIn({"ok", "level"}, n, t)
        BY <1>0, <1>1, <1>3, <1>5, <2>2, TouchDoes DEF Spawned
      <4> HIDE DEF t
      <4> QED
        BY <4>1 DEF OnlyIn, Field
    <3> HIDE DEF t
    <3>2. t.ID_Parent[c] = p
      BY <1>1, <3>1 DEF Spawned
    <3>3. WithParent(t, c, p) = t
      <4>1. [t.ID_Parent EXCEPT ![c] = p] = t.ID_Parent
        BY <3>1, <3>2 DEF Sim
      <4>2. WithParent(t, c, p) = [t EXCEPT !.ID_Parent = t.ID_Parent]
        BY <4>1 DEF WithParent
      <4> QED
        BY <3>1, <4>2 DEF Sim
    <3>4. r = WithChild(t, p, c)
      BY <1>5 DEF WithChild, WithChildren, t
    <3>5. u = WithChild(WithParent(t, c, p), p, c)
      BY DEF TakenUp, t
    <3> QED
      BY <3>3, <3>4, <3>5
  <2>4. /\ About(c, n, u) /\ u.ok = n.ok /\ u.objects = n.objects /\ u.entities = n.entities
        /\ u.m_bOnline = n.m_bOnline /\ u.m_tGraphID = n.m_tGraphID /\ u.points = n.points
        /\ u.scheduled = n.scheduled /\ c \notin u.level.m_objects /\ u.ID_Parent[c] = p
        /\ \A q \in ID : c \in u.children[q] <=> q = p
    <3>1. InNoHands(n, c)
      BY <1>1, <1>5 DEF Spawned, InNoHands
    <3>2. TakesUp(n, u, p, c)
      BY <1>0, <1>3, <2>0, <2>2, <3>1, TakeUpDoes
    <3> HIDE DEF u
    <3> QED
      BY <3>2 DEF TakesUp
  <2> HIDE DEF u, r
  <2>5. About(c, s, u)
    BY <1>3, <2>4, AboutJoins
  <2>6. Listed(u, c) /\ Settled(u, c) /\ Held(u, c)
    <3>1. /\ u.ID_Parent[c] # None /\ c \in u.entities /\ u.m_bOnline[c] = TRUE /\ (c \in u.objects => c \notin Unsavable)
          /\ (\A w \in Vertex : c \notin u.points[w]) /\ c \notin u.scheduled.m_objects
      BY <1>1, <1>5, <2>4 DEF Spawned
    <3>2. Listed(u, c)
      BY <1>0, <2>4, <3>1 DEF Listed, need_update
    <3>3. Settled(u, c)
      BY <3>1 DEF Settled
    <3>4. Held(u, c)
      BY <1>0, <2>0, <2>2, <2>4, <3>1 DEF Held
    <3> QED
      BY <3>2, <3>3, <3>4
  <2>7. u.ok
    BY <1>3, <2>4
  <2>8. u \in Sim /\ WorldRight(u)
    BY <1>0, <1>2, <2>5, <2>6, <2>7, RightAlone
  <2> QED
    BY <2>3, <2>5, <2>8 DEF r, n
<1> QED
  BY <1>4, <1>5

-----------------------------------------------------------------------------
(* Loading.                                                                *)

\* What a game that is saved must be like.
Savable(s) ==
    /\ s.objects \in SUBSET ID /\ s.ID_Parent \in [ID -> ID \cup {None}] /\ s.children \in [ID -> SUBSET ID]
    /\ s.dead \in [ID -> BOOLEAN] /\ s.m_tGraphID \in [ID -> Vertex] /\ s.ok = TRUE
    /\ Actor \in s.objects /\ s.m_tGraphID[Actor] \in Near
    /\ \A c \in ID : /\ \A q \in ID : c \in s.children[q] <=> s.ID_Parent[c] = q
                     /\ s.ID_Parent[c] # None => c \in Item /\ s.ID_Parent[c] \in Holder \cap s.objects

LEMMA LoadedRight ==
    ASSUME NEW s, Savable(s)
    PROVE  Loaded(s) \in Sim /\ WorldRight(Loaded(s))
<1> DEFINE roots == {c \in s.objects \ Unsavable : s.ID_Parent[c] = None}
           kept == roots \cup UNION {(s.children[c] \cap s.objects) \ Unsavable : c \in roots}
           here == {c \in roots : s.m_tGraphID[c] \in Near}
           acting == {c \in kept : c \in Creature /\ ~s.dead[c]}
           de == [c \in ID |-> c \in kept /\ s.dead[c]]
           pa == [c \in ID |-> IF c \in kept THEN s.ID_Parent[c] ELSE None]
           ch == [c \in ID |-> {i \in kept : s.ID_Parent[i] = c}]
           gr == [c \in ID |-> IF c \in kept THEN s.m_tGraphID[c] ELSE Place]
           pts == [v \in Vertex |-> {c \in roots : s.m_tGraphID[c] = v}]
           on == [c \in ID |-> FALSE]
           lev == [m_objects |-> here, next |-> begin(here), first |-> TRUE]
           sch == [m_objects |-> acting, next |-> begin(acting), first |-> TRUE]
           r == Loaded(s)
<1>0. /\ None \notin ID /\ Actor \in ID /\ Actor \notin Item /\ Unsavable \subseteq Item /\ Item \subseteq ID
      /\ (\A i \in Holder : i \notin Item /\ i \in ID) /\ Place \in Near /\ Near \subseteq Vertex
      /\ \A c \in Creature : c \in ID /\ c \notin Item
  BY AlifeAssumption, IdsAreNaturals DEF Holder, Trader
<1>1. roots \in SUBSET ID /\ kept \in SUBSET ID /\ roots \subseteq kept
  BY DEF Savable
<1>2. \A c \in ID : c \in kept <=> c \in s.objects /\ c \notin Unsavable
  <2> SUFFICES ASSUME NEW c \in ID, c \in s.objects, c \notin Unsavable, c \notin roots
               PROVE  c \in kept
    BY <1>1
  <2> DEFINE p == s.ID_Parent[c]
  <2>1. p # None
    OBVIOUS
  <2>2. p \in Holder \cap s.objects
    BY <2>1 DEF Savable
  <2>3. p \in roots
    BY <1>0, <2>2 DEF Savable
  <2>4. c \in s.children[p]
    BY <1>0, <2>2 DEF Savable
  <2> QED
    BY <2>3, <2>4
<1>3. \A c \in ID : c \in roots <=> c \in kept /\ s.ID_Parent[c] = None
  BY <1>2
<1>4. here \in SUBSET ID /\ acting \in SUBSET ID
  BY <1>1
<1>5. /\ \A c \in ID : c \in here <=> c \in roots /\ s.m_tGraphID[c] \in Near
      /\ \A c \in ID : c \in acting <=> c \in kept /\ c \in Creature /\ ~s.dead[c]
  BY <1>1
<1>6. r = [objects |-> kept, entities |-> {}, m_bOnline |-> on, dead |-> de, ID_Parent |-> pa, children |-> ch,
           m_tGraphID |-> gr, points |-> pts, level |-> lev, scheduled |-> sch, ok |-> s.ok]
  BY DEF Loaded
<1> HIDE DEF roots, kept, here, acting
<1>7. lev \in Maps /\ sch \in Maps
  BY <1>4, BeginOf DEF Maps, IsMap
<1>8. /\ on \in [ID -> BOOLEAN] /\ de \in [ID -> BOOLEAN] /\ pa \in [ID -> ID \cup {None}]
      /\ ch \in [ID -> SUBSET ID] /\ gr \in [ID -> Vertex] /\ pts \in [Vertex -> SUBSET ID]
  BY <1>0, <1>1 DEF Savable
<1>9. /\ \A c \in ID : /\ on[c] = FALSE /\ de[c] = (c \in kept /\ s.dead[c])
                       /\ pa[c] = IF c \in kept THEN s.ID_Parent[c] ELSE None
                       /\ ch[c] = {i \in kept : s.ID_Parent[i] = c}
                       /\ gr[c] = IF c \in kept THEN s.m_tGraphID[c] ELSE Place
      /\ \A v \in Vertex : pts[v] = {c \in roots : s.m_tGraphID[c] = v}
      /\ lev.m_objects = here /\ sch.m_objects = acting
  OBVIOUS
<1> HIDE DEF on, de, pa, ch, gr, pts, lev, sch, r
<1>10. /\ r \in Sim /\ r.objects = kept /\ r.entities = {} /\ r.m_bOnline = on /\ r.dead = de /\ r.ID_Parent = pa
       /\ r.children = ch /\ r.m_tGraphID = gr /\ r.points = pts /\ r.level = lev /\ r.scheduled = sch /\ r.ok = TRUE
  BY <1>1, <1>6, <1>7, <1>8 DEF Sim, Savable
<1>11. ASSUME NEW c \in ID
       PROVE  Listed(r, c) /\ Settled(r, c) /\ Held(r, c)
  <2>1. (c \in r.objects /\ r.ID_Parent[c] = None) <=> c \in roots
    BY <1>3, <1>9, <1>10
  <2>2. c \in roots => r.m_tGraphID[c] = s.m_tGraphID[c]
    BY <1>3, <1>9, <1>10
  <2>3. Listed(r, c)
    <3>1. \A v \in Vertex : c \in r.points[v] <=> c \in roots /\ s.m_tGraphID[c] = v
      BY <1>9, <1>10
    <3>2. c \in r.level.m_objects <=> c \in roots /\ r.m_tGraphID[c] \in Near
      BY <1>5, <1>9, <1>10, <2>2
    <3>3. c \in r.scheduled.m_objects <=> c \in r.objects /\ need_update(r, c)
      BY <1>5, <1>9, <1>10 DEF need_update
    <3>4. ~r.m_bOnline[c]
      BY <1>9, <1>10
    <3> QED
      BY <2>1, <2>2, <3>1, <3>2, <3>3, <3>4 DEF Listed
  <2>4. Settled(r, c)
    BY <1>0, <1>2, <1>9, <1>10 DEF Settled
  <2>5. Held(r, c)
    <3>1. \A q \in ID : c \in r.children[q] <=> c \in kept /\ s.ID_Parent[c] = q
      BY <1>9, <1>10
    <3>2. r.ID_Parent[c] = IF c \in kept THEN s.ID_Parent[c] ELSE None
      BY <1>9, <1>10
    <3>3. ASSUME r.ID_Parent[c] # None
          PROVE  /\ c \in Item /\ c \in kept /\ c \notin Unsavable
                 /\ r.ID_Parent[c] \in ID /\ r.ID_Parent[c] \in Holder /\ r.ID_Parent[c] \in kept
      BY <1>0, <1>2, <3>2, <3>3 DEF Savable
    <3>4. ASSUME r.ID_Parent[c] # None
          PROVE  r.m_bOnline[c] = r.m_bOnline[r.ID_Parent[c]]
      BY <1>9, <1>10, <3>3, <3>4
    <3> QED
      BY <1>0, <1>10, <3>1, <3>2, <3>3, <3>4 DEF Held
  <2> QED
    BY <2>3, <2>4, <2>5
<1>12. Actor \in r.objects /\ r.m_tGraphID[Actor] \in Near
  BY <1>0, <1>2, <1>9, <1>10 DEF Savable
<1> QED
  BY <1>10, <1>11, <1>12 DEF WorldRight, r

LEMMA RightIsSavable ==
    ASSUME NEW s \in Sim, WorldRight(s)
    PROVE  Savable(s)
<1>1. s.ok = TRUE /\ None \notin ID
  BY IdsAreNaturals DEF WorldRight, Sim
<1>2. ASSUME NEW c \in ID
      PROVE  /\ \A q \in ID : c \in s.children[q] <=> s.ID_Parent[c] = q
             /\ s.ID_Parent[c] # None => c \in Item /\ s.ID_Parent[c] \in Holder \cap s.objects
  BY DEF WorldRight, Held
<1> QED
  BY <1>1, <1>2 DEF Savable, WorldRight, Sim

LEMMA NewGameIsSavable == Savable(NewGame)
<1>1. None \notin ID /\ Actor \in ID /\ Place \in Near /\ Near \subseteq Vertex
  BY IdsAreNaturals DEF Holder, Trader
<1> QED
  BY <1>1 DEF Savable, NewGame

-----------------------------------------------------------------------------
(* The invariant.                                                          *)

Inv == sim \in Sim /\ SimulatorRight

\* A step by which nobody's update begins or ends.
LEMMA InvAgain ==
    ASSUME Inv, sim' \in Sim, WorldRight(sim'), at' = at, current' = current,
           current # None => current \in sim'.objects /\ ~sim'.m_bOnline[current]
    PROVE  Inv'
<1>1. /\ IsMap(sim'.level, ID) /\ IsMap(sim'.scheduled, ID) /\ sim'.objects \cup sim'.entities \subseteq ID
      /\ sim'.ID_Parent \in [ID -> ID \cup {None}] /\ sim'.m_tGraphID \in [ID -> Vertex]
  BY DEF Sim, Maps
<1> QED
  BY <1>1 DEF Inv, SimulatorRight, TypeOK, WorldRight, Listed, Settled, Held, need_update

\* The same when an update begins or ends.
LEMMA InvTurns ==
    ASSUME sim' \in Sim, WorldRight(sim'), at' \in {"loaded", "outside", "switching", "scheduling", "updating"},
           (at' = "updating") = (current' # None),
           current' # None => current' \in Creature \cap sim'.objects /\ ~sim'.m_bOnline[current']
    PROVE  Inv'
<1>1. /\ IsMap(sim'.level, ID) /\ IsMap(sim'.scheduled, ID) /\ sim'.objects \cup sim'.entities \subseteq ID
      /\ sim'.ID_Parent \in [ID -> ID \cup {None}] /\ sim'.m_tGraphID \in [ID -> Vertex]
  BY DEF Sim, Maps
<1> QED
  BY <1>1 DEF Inv, SimulatorRight, TypeOK, WorldRight, Listed, Settled, Held, need_update

LEMMA InvInit == Init => Inv
<1> SUFFICES ASSUME Init
             PROVE  Inv
  OBVIOUS
<1>1. sim \in Sim /\ WorldRight(sim)
  BY NewGameIsSavable, LoadedRight DEF Init
<1>2. /\ IsMap(sim.level, ID) /\ IsMap(sim.scheduled, ID) /\ sim.objects \cup sim.entities \subseteq ID
      /\ sim.ID_Parent \in [ID -> ID \cup {None}] /\ sim.m_tGraphID \in [ID -> Vertex]
  BY <1>1 DEF Sim, Maps
<1> QED
  BY <1>1, <1>2 DEF Inv, SimulatorRight, TypeOK, Init

\* What the invariant says of the level's registry: it is never empty, and
\* who is in it is registered, in nobody's hands and near.
LEMMA LevelIs ==
    ASSUME Inv
    PROVE  /\ sim \in Sim /\ WorldRight(sim) /\ sim.level \in Maps /\ sim.scheduled \in Maps
           /\ sim.level.next \in sim.objects /\ sim.ID_Parent[sim.level.next] = None
           /\ sim.m_tGraphID[sim.level.next] \in Near
           /\ sim.scheduled.next # End => /\ sim.scheduled.next \in Creature \cap sim.objects
                                          /\ ~sim.m_bOnline[sim.scheduled.next]
<1>1. sim \in Sim /\ WorldRight(sim) /\ sim.level \in Maps /\ sim.scheduled \in Maps
  BY DEF Inv, SimulatorRight, Sim
<1>2. Actor \in ID /\ Actor \notin Item
  BY IdsAreNaturals DEF Holder, Trader
<1>3. sim.ID_Parent[Actor] = None
  BY <1>1, <1>2 DEF WorldRight, Held
<1>4. Actor \in sim.level.m_objects
  BY <1>1, <1>2, <1>3 DEF WorldRight, Listed
<1>5. sim.level.next \in sim.level.m_objects /\ sim.level.m_objects \in SUBSET ID
  BY <1>1, <1>4, MapIs
<1>6. Listed(sim, sim.level.next)
  BY <1>1, <1>5 DEF WorldRight
<1>7. /\ sim.level.next \in sim.objects /\ sim.ID_Parent[sim.level.next] = None
      /\ sim.m_tGraphID[sim.level.next] \in Near
  BY <1>5, <1>6 DEF Listed
<1>8. ASSUME sim.scheduled.next # End
      PROVE  sim.scheduled.next \in Creature \cap sim.objects /\ ~sim.m_bOnline[sim.scheduled.next]
  <2>1. sim.scheduled.next \in sim.scheduled.m_objects /\ sim.scheduled.m_objects \in SUBSET ID
    BY <1>1, <1>8, MapIs
  <2>2. Listed(sim, sim.scheduled.next)
    BY <1>1, <2>1 DEF WorldRight
  <2> QED
    BY <2>1, <2>2 DEF Listed, need_update
<1> QED
  BY <1>1, <1>7, <1>8

\* The update manager's steps.
LEMMA InvManager ==
    ASSUME Inv, StartSwitch \/ SwitchNext \/ EndSwitch \/ ScheduleNext \/ UpdateCurrent \/ EndSchedule \/ Load
    PROVE  Inv'
<1>0. sim \in Sim /\ WorldRight(sim) /\ (at = "updating") = (current # None)
      /\ (current # None => current \in Creature \cap sim.objects /\ ~sim.m_bOnline[current])
      /\ at \in {"loaded", "outside", "switching", "scheduling", "updating"}
  BY DEF Inv, SimulatorRight, TypeOK
<1>1. CASE StartSwitch
  BY <1>0, <1>1, InvTurns DEF StartSwitch
<1>2. CASE SwitchNext
  <2> DEFINE m == update_next(sim.level)
             c == sim.level.next
             s == WithLevel(sim, m)
  <2>1. m \in Maps /\ m.m_objects = sim.level.m_objects
    BY LevelIs, MapGoesOn
  <2>2. [sim EXCEPT !.level = update_next(@)] = s
    BY DEF WithLevel
  <2>3. s \in Sim /\ WorldRight(s) /\ s.objects = sim.objects /\ s.ID_Parent = sim.ID_Parent /\ s.m_tGraphID = sim.m_tGraphID
    <3> HIDE DEF m
    <3>1. s \in Sim /\ WorldRight(s)
      BY <1>0, <2>1, TurnRight
    <3> QED
      BY <1>0, <3>1 DEF WithLevel, Sim
  <2>4. sim' \in switch_object(s, c)
    BY <1>2, <2>2 DEF SwitchNext
  <2> HIDE DEF s, m
  <2>5. sim' \in Sim /\ WorldRight(sim')
    BY <2>3, <2>4, LevelIs, SwitchObjectRight
  <2>6. current' = current /\ at' = at /\ at = "switching"
    BY <1>2 DEF SwitchNext
  <2> QED
    BY <1>0, <2>5, <2>6, InvTurns
<1>3. CASE EndSwitch
  <2> DEFINE m == [sim.level EXCEPT !.first = FALSE]
  <2>1. m \in Maps /\ m.m_objects = sim.level.m_objects
    BY LevelIs DEF Maps, IsMap
  <2>2. sim' = WithLevel(sim, m)
    BY <1>3 DEF EndSwitch, WithLevel
  <2> HIDE DEF m
  <2>3. sim' \in Sim /\ WorldRight(sim')
    BY <1>0, <2>1, <2>2, TurnRight
  <2>4. current' = current /\ at' \in {"outside", "scheduling"} /\ at = "switching"
    BY <1>3 DEF EndSwitch
  <2> QED
    BY <1>0, <2>3, <2>4, InvTurns
<1>4. CASE ScheduleNext
  <2> DEFINE m == update_next(sim.scheduled)
             c == sim.scheduled.next
  <2>1. m \in Maps /\ m.m_objects = sim.scheduled.m_objects
    BY LevelIs, MapGoesOn
  <2>2. sim' = WithScheduled(sim, m)
    BY <1>4 DEF ScheduleNext, WithScheduled
  <2>3. sim'.objects = sim.objects /\ sim'.m_bOnline = sim.m_bOnline
    BY <1>0, <2>2 DEF WithScheduled, Sim
  <2> HIDE DEF m
  <2>4. sim' \in Sim /\ WorldRight(sim')
    BY <1>0, <2>1, <2>2, TurnRight
  <2>5. current' = c /\ at' = "updating" /\ c # End
    BY <1>4 DEF ScheduleNext, MayUpdate
  <2>6. c \in Creature \cap sim.objects /\ ~sim.m_bOnline[c] /\ c # None
    BY <2>5, LevelIs DEF None, End
  <2> QED
    BY <2>3, <2>4, <2>5, <2>6, InvTurns
<1>5. CASE UpdateCurrent
  <2>1. at = "updating" /\ at' = "scheduling" /\ current' = None
    BY <1>5 DEF UpdateCurrent
  <2>2. current \in Creature /\ current \in sim.objects /\ ~sim.m_bOnline[current] /\ current \in ID
        /\ current # Actor /\ current \notin Item
    BY <1>0, <2>1, AlifeAssumption, IdsAreNaturals
  <2>3. sim.ID_Parent[current] = None
    BY <1>0, <2>2 DEF WorldRight, Held
  <2>4. sim' \in Sim /\ WorldRight(sim')
    <3>1. CASE sim' = sim
      BY <1>0, <3>1
    <3>2. CASE \E v \in Vertex : sim' = change(sim, current, v)
      BY <1>0, <2>2, <2>3, <3>2, ChangeRight
    <3> QED
      BY <1>5, <3>1, <3>2 DEF UpdateCurrent
  <2> QED
    BY <2>1, <2>4, InvTurns
<1>6. CASE EndSchedule
  BY <1>0, <1>6, InvTurns DEF EndSchedule
<1>7. CASE Load
  <2>1. sim' \in Sim /\ WorldRight(sim')
    BY <1>0, <1>7, RightIsSavable, LoadedRight DEF Load
  <2>2. at = "outside" /\ at' = "loaded" /\ current' = current
    BY <1>7 DEF Load
  <2> QED
    BY <1>0, <2>1, <2>2, InvTurns
<1> QED
  BY <1>1, <1>2, <1>3, <1>4, <1>5, <1>6, <1>7

\* Nobody gets turns before who stays in the level where he is.
TurnsKept ==
    \A x \in ID : /\ x \in sim.level.m_objects \cap sim'.level.m_objects
                  /\ sim.m_tGraphID[x] = sim'.m_tGraphID[x]
                  => Between(sim'.level.next, x) \subseteq Between(sim.level.next, x)

LEMMA TurnsAre ==
    ASSUME NEW c, InTurn(sim, sim', c),
           \/ c \notin sim.level.m_objects \/ c \notin sim'.level.m_objects
           \/ sim.m_tGraphID[c] # sim'.m_tGraphID[c]
    PROVE  TurnsKept
BY DEF TurnsKept, InTurn

\* What scripts do while nobody or somebody is updated.
LEMMA InvScripts ==
    ASSUME Inv, CreateObject \/ SpawnInside \/ ReleaseOffline \/ KillOffline
    PROVE  Inv' /\ TurnsKept
<1>0. sim \in Sim /\ WorldRight(sim)
      /\ (current # None => current \in Creature \cap sim.objects /\ ~sim.m_bOnline[current] /\ current \in ID)
  BY IdsAreNaturals DEF Inv, SimulatorRight
<1>1. CASE CreateObject
  <2>1. PICK c \in ID \ Unsavable, v \in Vertex :
          /\ Fresh(c) /\ sim' = register_object([sim EXCEPT !.m_tGraphID[c] = v], c)
          /\ Act({"outside", "updating"})
    BY <1>1 DEF CreateObject
  <2>2. sim' = register_object(WithGraph(sim, c, v), c) /\ c \notin sim.objects \cup sim.entities
    BY <2>1 DEF WithGraph, Fresh
  <2>3. sim' \in Sim /\ WorldRight(sim') /\ About(c, sim, sim')
    BY <1>0, <2>2, CreateRight
  <2>4. current # None => current \in sim'.objects /\ ~sim'.m_bOnline[current]
    BY <1>0, <2>2, <2>3 DEF About, SameFor
  <2>5. c \notin sim.level.m_objects
    BY <1>0, <2>2 DEF WorldRight, Listed
  <2>6. TurnsKept
    BY <2>3, <2>5, InTurnAbout, TurnsAre
  <2> QED
    BY <2>1, <2>3, <2>4, <2>6, InvAgain DEF Act
<1>2. CASE SpawnInside
  <2>1. PICK c \in Item \ Unsavable, p \in Holder :
          /\ Fresh(c) /\ p \in sim.objects /\ ~sim.m_bOnline[p]
          /\ sim' = register_object([sim EXCEPT !.ID_Parent[c] = p, !.m_tGraphID[c] = sim.m_tGraphID[p]], c)
          /\ Act({"outside", "updating"})
    BY <1>2 DEF SpawnInside
  <2>2. c \notin sim.objects \cup sim.entities
    BY <2>1 DEF Fresh
  <2>3. [sim EXCEPT !.ID_Parent[c] = p, !.m_tGraphID[c] = sim.m_tGraphID[p]]
          = WithGraph(WithParent(sim, c, p), c, sim.m_tGraphID[p])
    BY <1>0 DEF WithGraph, WithParent, Sim
  <2>4. sim' = register_object(WithGraph(WithParent(sim, c, p), c, sim.m_tGraphID[p]), c)
    BY <2>1, <2>3
  <2>5. sim' \in Sim /\ WorldRight(sim') /\ About(c, sim, sim')
    BY <1>0, <2>1, <2>2, <2>4, SpawnInsideRight
  <2>6. current # None => current \in sim'.objects /\ ~sim'.m_bOnline[current]
    BY <1>0, <2>2, <2>5 DEF About, SameFor
  <2>7. c \notin sim.level.m_objects
    BY <1>0, <2>2, IdsAreNaturals DEF WorldRight, Listed
  <2>8. TurnsKept
    BY <2>5, <2>7, InTurnAbout, TurnsAre
  <2> QED
    BY <2>1, <2>5, <2>6, <2>8, InvAgain DEF Act
<1>3. CASE ReleaseOffline
  <2>1. PICK c \in sim.objects \ {Actor, current} :
          ~sim.m_bOnline[c] /\ sim' = release(sim, c, TRUE) /\ Act({"outside", "updating"})
    BY <1>3 DEF ReleaseOffline
  <2>2. /\ sim' \in Sim /\ WorldRight(sim') /\ \A x \in ID \ (sim.children[c] \cup {c}) : SameFor(sim, sim', x)
        /\ c \notin sim'.level.m_objects
    BY <1>0, <2>1, ReleaseRight
  <2>3. sim.children[c] \in SUBSET Item /\ \A i \in Item : i \notin Creature
    BY <1>0, ChildrenAre, IdsAreNaturals DEF Sim
  <2>4. current # None => current \in sim'.objects /\ ~sim'.m_bOnline[current]
    BY <1>0, <2>1, <2>2, <2>3 DEF SameFor
  <2>5. TurnsKept
    <3>1. c \in ID /\ About(c, sim, sim)
      BY <1>0, AboutItself DEF Sim
    <3> QED
      BY <1>0, <2>2, <3>1, InTurnApart, TurnsAre
  <2> QED
    BY <2>1, <2>2, <2>4, <2>5, InvAgain DEF Act
<1>4. CASE KillOffline
  <2>1. PICK c \in sim.objects \cap Creature, v \in Vertex :
          LET from == sim.m_tGraphID[c]
              dying == ScheduledRemove([sim EXCEPT !.dead[c] = TRUE, !.m_tGraphID[c] = v], c)
          IN /\ ~sim.m_bOnline[c] /\ ~sim.dead[c] /\ sim.children[c] = {}
             /\ sim' = IF v = from THEN dying
                       ELSE GraphAdd(GraphRemove(dying, c, from, TRUE), c, v, TRUE)
             /\ Act({"outside", "updating"})
    BY <1>4 DEF KillOffline
  <2>2. [sim EXCEPT !.dead[c] = TRUE, !.m_tGraphID[c] = v] = WithGraph(WithDead(sim, c, TRUE), c, v)
    BY <1>0 DEF WithGraph, WithDead, Sim
  <2>3. sim' = Killed(sim, c, v)
    BY <2>1, <2>2 DEF Killed
  <2>4. /\ sim' \in Sim /\ WorldRight(sim') /\ sim'.objects = sim.objects /\ sim'.m_bOnline = sim.m_bOnline
        /\ About(c, sim, sim') /\ sim'.m_tGraphID[c] = v /\ (v = sim.m_tGraphID[c] => sim'.level = sim.level)
    <3>1. c \in Creature /\ c \in sim.objects /\ ~sim.m_bOnline[c] /\ ~sim.dead[c]
      BY <2>1
    <3> QED
      BY <1>0, <2>3, <3>1, KillRight
  <2>5. Act({"outside", "updating"})
    BY <2>1
  <2>6. TurnsKept
    <3>1. CASE v = sim.m_tGraphID[c]
      BY <2>4, <3>1 DEF TurnsKept
    <3>2. CASE v # sim.m_tGraphID[c]
      BY <2>4, <3>2, InTurnAbout, TurnsAre
    <3> QED
      BY <3>1, <3>2
  <2> QED
    BY <1>0, <2>4, <2>5, <2>6, InvAgain DEF Act
<1> QED
  BY <1>1, <1>2, <1>3, <1>4

\* What comes from the clients and the game outside the update.
LEMMA InvEvents ==
    ASSUME Inv, Process_spawn \/ Process_event_ownership \/ Reject \/ Destroy \/ on_death \/ teleport_object
    PROVE  Inv' /\ TurnsKept
<1>0. sim \in Sim /\ WorldRight(sim) /\ (at = "updating") = (current # None)
  BY DEF Inv, SimulatorRight, TypeOK
<1> SUFFICES ASSUME Act({"outside"})
             PROVE  sim' \in Sim /\ WorldRight(sim') /\ TurnsKept
  <2>1. Act({"outside"})
    BY DEF Process_spawn, Process_event_ownership, Reject, Destroy, on_death, teleport_object
  <2>2. at' = at /\ current' = current /\ current = None
    BY <1>0, <2>1 DEF Act
  <2> QED
    BY <2>1, <2>2, InvAgain
<1>1. CASE Process_spawn
  <2>1. PICK c \in Item, p \in (Holder \cap sim.entities) \cup {None} :
          LET spawned == [sim EXCEPT !.entities = @ \cup {c}, !.ID_Parent[c] = p]
              created == OnCreate(spawned, c)
          IN /\ Fresh(c)
             /\ c \in Unsavable => p \in Trader
             /\ sim' = IF p = None THEN created
                       ELSE [OnTouch(created, p, c) EXCEPT !.children[p] = @ \cup {c}]
    BY <1>1 DEF Process_spawn
  <2>2. [sim EXCEPT !.entities = @ \cup {c}, !.ID_Parent[c] = p]
          = WithParent(WithEntities(sim, sim.entities \cup {c}), c, p)
    BY <1>0 DEF WithParent, WithEntities, Sim
  <2>3. c \notin sim.objects \cup sim.entities
    BY <2>1 DEF Fresh
  <2> DEFINE n == OnCreate(WithParent(WithEntities(sim, sim.entities \cup {c}), c, p), c)
  <2>4. sim' = IF p = None THEN n ELSE [OnTouch(n, p, c) EXCEPT !.children[p] = @ \cup {c}]
    <3> DEFINE spawned == [sim EXCEPT !.entities = @ \cup {c}, !.ID_Parent[c] = p]
    <3>1. sim' = IF p = None THEN OnCreate(spawned, c)
                 ELSE [OnTouch(OnCreate(spawned, c), p, c) EXCEPT !.children[p] = @ \cup {c}]
      BY <2>1
    <3>2. OnCreate(spawned, c) = n
      BY <2>2
    <3> HIDE DEF spawned, n
    <3> QED
      BY <3>1, <3>2
  <2>5. c \in Unsavable => p \in Trader
    BY <2>1
  <2> HIDE DEF n
  <2>6. sim' \in Sim /\ WorldRight(sim') /\ About(c, sim, sim')
    BY <1>0, <2>3, <2>4, <2>5, SpawnRight DEF n
  <2>7. c \notin sim.level.m_objects
    BY <1>0, <2>3, IdsAreNaturals DEF WorldRight, Listed
  <2> QED
    BY <2>6, <2>7, InTurnAbout, TurnsAre
<1>2. CASE Process_event_ownership
  <2>1. PICK c \in Item \cap sim.entities, p \in Holder \cap sim.entities :
          /\ sim.ID_Parent[c] = None
          /\ c \in Unsavable => p \in Trader
          /\ sim' = [OnTouch(sim, p, c) EXCEPT !.ID_Parent[c] = p, !.children[p] = @ \cup {c}]
    BY <1>2 DEF Process_event_ownership
  <2>2. sim' = TakenUp(sim, p, c)
    <3> DEFINE t == OnTouch(sim, p, c)
    <3>1. t \in Sim
      <4>1. p \in ID /\ p \notin Item /\ c \in ID
        BY IdsAreNaturals
      <4>2. p \in sim.objects /\ (c \in sim.level.m_objects => c \in sim.objects)
        BY <1>0, <4>1 DEF WorldRight, Settled, Listed
      <4> QED
        BY <1>0, <4>1, <4>2, TouchDoes DEF About
    <3> HIDE DEF t
    <3>2. sim' = [t EXCEPT !.ID_Parent[c] = p, !.children[p] = @ \cup {c}]
      BY <2>1 DEF t
    <3>3. sim' = WithChild(WithParent(t, c, p), p, c)
      BY <3>1, <3>2 DEF WithChild, WithChildren, WithParent, Sim
    <3> QED
      BY <3>3 DEF TakenUp, t
  <2>3. sim' \in Sim /\ WorldRight(sim') /\ About(c, sim, sim') /\ c \notin sim'.level.m_objects
    <3> DEFINE r == TakenUp(sim, p, c)
    <3>1. r \in Sim /\ WorldRight(r) /\ About(c, sim, r) /\ c \notin r.level.m_objects
      BY <1>0, <2>1, TakeUpRight
    <3> HIDE DEF r
    <3>2. sim' = r
      BY <2>2 DEF r
    <3> QED
      BY <3>1, <3>2
  <2> QED
    BY <2>3, InTurnAbout, TurnsAre
<1>3. CASE Reject
  <2>1. PICK c \in Item \cap sim.entities :
          sim.ID_Parent[c] # None /\ sim' = Process_event_reject(sim, sim.ID_Parent[c], c)
    BY <1>3 DEF Reject
  <2>2. sim.ID_Parent[c] \in ID
    BY <1>0, <2>1, IdsAreNaturals DEF Sim
  <2>3. sim' \in Sim /\ WorldRight(sim') /\ About(c, sim, sim')
    BY <1>0, <2>1, <2>2, RejectRight
  <2>4. c \notin sim.level.m_objects
    BY <1>0, <2>1, IdsAreNaturals DEF WorldRight, Listed
  <2> QED
    BY <2>3, <2>4, InTurnAbout, TurnsAre
<1>4. CASE Destroy
  <2>1. PICK c \in sim.entities \ {Actor} : sim' = Process_event_destroy(sim, c)
    BY <1>4 DEF Destroy
  <2>2. /\ sim' \in Sim /\ WorldRight(sim') /\ \A x \in ID \ (sim.children[c] \cup {c}) : SameFor(sim, sim', x)
        /\ c \notin sim'.level.m_objects
    BY <1>0, <2>1, DestroyRight
  <2>3. c \in ID /\ About(c, sim, sim)
    BY <1>0, AboutItself DEF Sim
  <2> QED
    BY <1>0, <2>2, <2>3, InTurnApart, TurnsAre
<1>5. CASE on_death
  <2>1. PICK c \in Creature \cap sim.entities : sim' = WithDead(sim, c, TRUE)
    BY <1>5 DEF on_death, WithDead
  <2>2. sim' \in Sim /\ WorldRight(sim') /\ sim'.level = sim.level
    BY <1>0, <2>1, DeathRight
  <2> QED
    BY <2>2 DEF TurnsKept
<1>6. CASE teleport_object
  <2>1. PICK c \in sim.objects \cap Creature, v \in Vertex :
          /\ sim.ID_Parent[c] = None
          /\ v # sim.m_tGraphID[c]
          /\ sim' = change(IF sim.m_bOnline[c] THEN switch_offline(sim, c) ELSE sim, c, v)
    BY <1>6 DEF teleport_object
  <2>2. sim' \in Sim /\ WorldRight(sim') /\ InTurn(sim, sim', c) /\ sim'.m_tGraphID[c] = v
    BY <1>0, <2>1, TeleportRight
  <2> QED
    BY <2>1, <2>2, TurnsAre
<1> QED
  BY <1>1, <1>2, <1>3, <1>4, <1>5, <1>6

LEMMA InvNext ==
    ASSUME Inv, Next
    PROVE  Inv'
BY InvManager, InvScripts, InvEvents DEF Next

\* The invariant says more than what the runs check.
LEMMA InvImplies ==
    ASSUME Inv
    PROVE  RegistriesAgree /\ HandsTogether /\ NothingFails
<1>0. /\ sim \in Sim /\ WorldRight(sim) /\ TypeOK /\ None \notin ID
      /\ (current # None => current \in Creature \cap sim.objects /\ ~sim.m_bOnline[current])
      /\ at = "updating" => current # None
  BY IdsAreNaturals DEF Inv, SimulatorRight, TypeOK
<1>1. ASSUME NEW c \in ID
      PROVE  Listed(sim, c) /\ Settled(sim, c) /\ Held(sim, c)
  BY <1>0 DEF WorldRight
<1>2. RegistriesAgree
  <2>1. at = "updating" => current \in sim.objects /\ ~sim.m_bOnline[current]
    BY <1>0
  <2>2. ASSUME NEW c \in ID
        PROVE  LET free == c \in sim.objects /\ sim.ID_Parent[c] = None
                   here == sim.m_tGraphID[c] \in Near
               IN /\ \A v \in Vertex :
                       c \in sim.points[v] <=> /\ free /\ ~sim.m_bOnline[c]
                                               /\ sim.m_tGraphID[c] = v
                  /\ c \in sim.level.m_objects <=> free /\ here
                  /\ c \in sim.scheduled.m_objects <=> c \in sim.objects /\ need_update(sim, c)
                  /\ c \in sim.objects => (sim.m_bOnline[c] <=> c \in sim.entities)
                  /\ free /\ sim.m_bOnline[c] => here
    BY <1>1 DEF Listed, Settled
  <2> QED
    BY <1>0, <2>1, <2>2 DEF RegistriesAgree
<1>3. HandsTogether
  <2>1. ASSUME NEW c \in ID, NEW p \in ID
        PROVE  /\ (c \in sim.children[p]) = (sim.ID_Parent[c] = p)
               /\ sim.ID_Parent[c] = p => sim.m_bOnline[c] = sim.m_bOnline[p]
    BY <1>0, <1>1 DEF Held
  <2> QED
    BY <2>1 DEF HandsTogether
<1>4. NothingFails
  BY <1>0 DEF WorldRight, NothingFails
<1> QED
  BY <1>2, <1>3, <1>4

\* WorldRight is kept by every step of the simulator, the server and scripts.
THEOREM Invariance == Spec => []Inv
<1>1. Inv /\ [Next]_vars => Inv'
  <2> SUFFICES ASSUME Inv, [Next]_vars
               PROVE  Inv'
    OBVIOUS
  <2>1. CASE Next
    BY <2>1, InvNext
  <2>2. CASE UNCHANGED vars
    <3>1. sim' = sim /\ at' = at /\ current' = current
      BY <2>2 DEF vars
    <3> QED
      BY <3>1, InvTurns DEF Inv, SimulatorRight, TypeOK
  <2> QED
    BY <2>1, <2>2
<1> QED
  BY InvInit, <1>1, PTL DEF Spec

(* The simulator is right object by object, for any number of objects,     *)
(* boxes, items and points.                                                *)
THEOREM WorldKept == Spec => []SimulatorRight
<1>1. Inv => SimulatorRight
  BY DEF Inv
<1> QED
  BY Invariance, <1>1, PTL

(* Where an object is decides who lists it: the level registry, the graph  *)
(* registry at one point, the schedule registry, nobody.                   *)
THEOREM RegistriesKept == Spec => []RegistriesAgree
<1>1. Inv => RegistriesAgree
  BY InvImplies
<1> QED
  BY Invariance, <1>1, PTL

(* An object and what it holds are online together and know of each other. *)
THEOREM HandsKept == Spec => []HandsTogether
<1>1. Inv => HandsTogether
  BY InvImplies
<1> QED
  BY Invariance, <1>1, PTL

(* No assertion of the registries and of the switches fails.               *)
THEOREM AssertionsHold == Spec => []NothingFails
<1>1. Inv => NothingFails
  BY InvImplies
<1> QED
  BY Invariance, <1>1, PTL

-----------------------------------------------------------------------------
(* The turns.                                                              *)

\* Who has been switched while Watched waits is not before him again.
RoundInv ==
    /\ passed # {} => Watched \in sim.level.m_objects
    /\ \A y \in passed : y \notin Between(sim.level.next, Watched)

\* What the record of the waiting becomes when nobody was switched.
LEMMA RecordKept ==
    ASSUME RoundInv, TurnsKept, Record(None)
    PROVE  RoundInv'
<1>1. Watched \in ID
  BY AlifeAssumption
<1>2. passed' = {} \/ (/\ Watched \in sim.level.m_objects \cap sim'.level.m_objects
                       /\ sim.m_tGraphID[Watched] = sim'.m_tGraphID[Watched]
                       /\ passed' = passed)
  BY DEF Record
<1> QED
  BY <1>1, <1>2 DEF RoundInv, TurnsKept

\* The turn goes on from c, so that c is not before Watched any more.
LEMMA TurnTaken ==
    ASSUME Inv, RoundInv, SwitchNext
    PROVE  RoundInv'
<1> DEFINE m == update_next(sim.level)
           c == sim.level.next
           s == WithLevel(sim, m)
<1>0. sim \in Sim /\ WorldRight(sim) /\ Watched \in ID /\ sim.level \in Maps
  BY AlifeAssumption DEF Inv, SimulatorRight, Sim
<1>1. /\ m \in Maps /\ m.m_objects = sim.level.m_objects
      /\ \A x \in sim.level.m_objects \ {c} : Between(m.next, x) \subseteq Between(c, x) \ {c}
  BY <1>0, MapGoesOn
<1>2. [sim EXCEPT !.level = update_next(@)] = s
  BY DEF WithLevel
<1>3. /\ s \in Sim /\ WorldRight(s) /\ s.objects = sim.objects /\ s.ID_Parent = sim.ID_Parent
      /\ s.m_tGraphID = sim.m_tGraphID /\ s.level = m
  <2> HIDE DEF m
  <2>1. s \in Sim /\ WorldRight(s)
    BY <1>0, <1>1, TurnRight
  <2> QED
    BY <1>0, <2>1 DEF WithLevel, Sim
<1>4. sim' \in switch_object(s, c) /\ Record(c)
  BY <1>2 DEF SwitchNext
<1> HIDE DEF s, m
<1>5. InTurn(s, sim', c)
  BY <1>3, <1>4, LevelIs, SwitchObjectRight
<1>6. passed' = {} \/ (/\ Watched \in sim.level.m_objects \cap sim'.level.m_objects
                       /\ c # Watched
                       /\ passed' \subseteq passed \cup {c})
  BY <1>4 DEF Record
<1>7. CASE passed' = {}
  BY <1>7 DEF RoundInv
<1>8. CASE /\ Watched \in sim.level.m_objects \cap sim'.level.m_objects
           /\ c # Watched
           /\ passed' \subseteq passed \cup {c}
  <2>1. Between(sim'.level.next, Watched) \subseteq Between(m.next, Watched)
    BY <1>0, <1>1, <1>3, <1>5, <1>8 DEF InTurn
  <2>2. Between(m.next, Watched) \subseteq Between(c, Watched) \ {c}
    BY <1>1, <1>8
  <2>3. \A y \in passed : y \notin Between(c, Watched)
    BY DEF RoundInv
  <2> QED
    BY <1>8, <2>1, <2>2, <2>3 DEF RoundInv
<1> QED
  BY <1>6, <1>7, <1>8

LEMMA RoundNext ==
    ASSUME Inv, RoundInv, [Next]_vars
    PROVE  RoundInv'
<1>0. /\ sim \in Sim /\ WorldRight(sim)
      /\ (current # None => current \in Creature \cap sim.objects /\ ~sim.m_bOnline[current])
      /\ (at = "updating") = (current # None)
  BY DEF Inv, SimulatorRight, TypeOK
<1>1. ASSUME passed' = passed, sim'.level.m_objects = sim.level.m_objects, sim'.level.next = sim.level.next
      PROVE  RoundInv'
  BY <1>1 DEF RoundInv
<1>2. CASE SwitchNext
  BY <1>2, TurnTaken
<1>3. CASE EndSwitch
  <2>1. sim'.level.m_objects = sim.level.m_objects /\ sim'.level.next = sim.level.next /\ passed' = passed
    BY <1>0, <1>3 DEF EndSwitch, Sim, Maps
  <2> QED
    BY <1>1, <2>1
<1>4. CASE ScheduleNext
  <2>1. sim'.level = sim.level
    BY <1>0, <1>4 DEF ScheduleNext, Sim
  <2>2. TurnsKept
    BY <2>1 DEF TurnsKept
  <2> QED
    BY <1>4, <2>2, RecordKept DEF ScheduleNext
<1>5. CASE UpdateCurrent
  <2>1. TurnsKept
    <3>1. CASE sim' = sim
      BY <3>1 DEF TurnsKept
    <3>2. CASE \E v \in Vertex \ {sim.m_tGraphID[current]} : sim' = change(sim, current, v)
      <4>1. PICK v \in Vertex : v # sim.m_tGraphID[current] /\ sim' = change(sim, current, v)
        BY <3>2
      <4>2. /\ current \in sim.objects /\ ~sim.m_bOnline[current] /\ current \in ID /\ current \in Creature
            /\ current # Actor /\ current \notin Item
        BY <1>0, <1>5, AlifeAssumption, IdsAreNaturals DEF UpdateCurrent
      <4>3. sim.ID_Parent[current] = None
        BY <1>0, <4>2 DEF WorldRight, Held
      <4>4. About(current, sim, sim') /\ sim'.m_tGraphID[current] = v
        BY <1>0, <4>1, <4>2, <4>3, ChangeRight
      <4> QED
        BY <4>1, <4>4, InTurnAbout, TurnsAre
    <3> QED
      BY <1>5, <3>1, <3>2 DEF UpdateCurrent
  <2> QED
    BY <1>5, <2>1, RecordKept DEF UpdateCurrent
<1>6. CASE StartSwitch \/ EndSchedule \/ UNCHANGED vars
  BY <1>1, <1>6 DEF StartSwitch, EndSchedule, vars
<1>7. CASE Load
  BY <1>7 DEF Load, RoundInv
<1>8. CASE CreateObject \/ SpawnInside \/ ReleaseOffline \/ KillOffline
  BY <1>8, InvScripts, RecordKept DEF CreateObject, SpawnInside, ReleaseOffline, KillOffline, Act
<1>9. CASE Process_spawn \/ Process_event_ownership \/ Reject \/ Destroy \/ on_death \/ teleport_object
  BY <1>9, InvEvents, RecordKept
     DEF Process_spawn, Process_event_ownership, Reject, Destroy, on_death, teleport_object, Act
<1> QED
  BY <1>2, <1>3, <1>4, <1>5, <1>6, <1>7, <1>8, <1>9 DEF Next

(* Whatever is registered, released, moved or switched between the turns   *)
(* of update_switch, and however many objects there are: while an object   *)
(* of the level waits for its turn at its point, nobody has two.           *)
THEOREM RoundKept == Spec => OneRound
<1>1. Init => RoundInv
  BY DEF Init, RoundInv
<1>2. Inv /\ RoundInv /\ [Next]_vars => RoundInv'
  BY RoundNext
<1>3. Inv /\ RoundInv /\ [Next]_vars
        => [at = "switching" /\ at' = "switching" /\ passed' # {} => (switched' \ switched) \cap passed = {}]_vars
  <2> SUFFICES ASSUME Inv, RoundInv, [Next]_vars, at = "switching", at' = "switching",
                      NEW y \in switched' \ switched, y \in passed
               PROVE  FALSE
    OBVIOUS
  <2>1. SwitchNext
    BY DEF Next, vars, StartSwitch, EndSwitch, ScheduleNext, UpdateCurrent, EndSchedule, CreateObject, SpawnInside,
           ReleaseOffline, KillOffline, Process_spawn, Process_event_ownership, Reject, Destroy, on_death,
           teleport_object, Load, Act
  <2>2. y = sim.level.next
    BY <2>1 DEF SwitchNext
  <2>3. Watched \in ID /\ sim.level \in Maps /\ Watched \in sim.level.m_objects
    BY AlifeAssumption DEF Inv, Sim, RoundInv
  <2>4. y \in ID
    BY <2>2, <2>3, MapIs
  <2>5. y \in Between(y, Watched)
    BY <2>3, <2>4, IdsAreNaturals DEF Between
  <2> QED
    BY <2>2, <2>5 DEF RoundInv
<1> QED
  BY Invariance, <1>1, <1>2, <1>3, PTL DEF Spec, OneRound
=============================================================================
