------------------------- MODULE IdGenerator_proof --------------------------
(***************************************************************************)
(* The pool never gives an identifier to two entities and never loses one, *)
(* for any number of identifiers and any size of the blocks, and reuses    *)
(* them late.                                                              *)
(***************************************************************************)
EXTENDS IdGenerator, SequenceTheorems, FiniteSetTheorems, TLAPS

-----------------------------------------------------------------------------
(* Identifiers, blocks and offsets.                                        *)

LEMMA Times ==
    ASSUME NEW n \in Nat, NEW a \in Nat, NEW b \in Nat, a < b
    PROVE  a * n + n =< b * n
<1>1. b = a + 1 + (b - a - 1) /\ b - a - 1 \in Nat
  OBVIOUS
<1>2. b * n = a * n + n + (b - a - 1) * n
  BY <1>1
<1>3. (b - a - 1) * n \in Nat
  BY <1>1
<1> QED
  BY <1>2, <1>3

\* Quotient and remainder.
LEMMA DivMod ==
    ASSUME NEW n \in Nat \ {0}, NEW v \in Nat
    PROVE  /\ v \div n \in Nat /\ v % n \in 0..(n - 1)
           /\ v = (v \div n) * n + (v % n)
  OBVIOUS

LEMMA Unique ==
    ASSUME NEW n \in Nat \ {0}, NEW q \in Nat, NEW r \in 0..(n - 1)
    PROVE  (q * n + r) \div n = q /\ (q * n + r) % n = r
<1> DEFINE v == q * n + r
           p == v \div n
           s == v % n
<1>1. v \in Nat
  OBVIOUS
<1>2. p \in Nat /\ s \in 0..(n - 1) /\ v = p * n + s
  BY <1>1, DivMod
<1>3. ~(p < q)
  <2> SUFFICES ASSUME p < q
               PROVE  FALSE
    OBVIOUS
  <2>1. p * n + n =< q * n
    BY <1>2, Times
  <2>2. p * n \in Nat /\ q * n \in Nat
    BY <1>2
  <2> HIDE DEF p, s
  <2> QED
    BY <1>2, <2>1, <2>2
<1>4. ~(q < p)
  <2> SUFFICES ASSUME q < p
               PROVE  FALSE
    OBVIOUS
  <2>1. q * n + n =< p * n
    BY <1>2, Times
  <2>2. p * n \in Nat /\ q * n \in Nat
    BY <1>2
  <2> HIDE DEF p, s
  <2> QED
    BY <1>2, <2>1, <2>2
<1> HIDE DEF p, s
<1>5. p = q
  BY <1>2, <1>3, <1>4
<1> QED
  BY <1>2, <1>5 DEF p, s

\* An identifier is what its block and its offset stand for.
LEMMA Located ==
    ASSUME NEW v \in ID
    PROVE  /\ tfGetBlockByValue(v) \in Block
           /\ OffsetOf(v) \in Offset
           /\ ValueOf(tfGetBlockByValue(v), OffsetOf(v)) = v
<1> DEFINE n == tBlockSize
           p == v \div n
           q == tMaxValue \div n
<1>1. v \in Nat /\ n \in Nat \ {0} /\ tMaxValue \in Nat /\ v =< tMaxValue
  BY PoolAssumption DEF ID
<1>2. p \in Nat /\ v % n \in 0..(n - 1) /\ v = p * n + (v % n)
  BY <1>1, DivMod
<1>3. q \in Nat /\ tMaxValue % n \in 0..(n - 1) /\ tMaxValue = q * n + (tMaxValue % n)
  BY <1>1, DivMod
<1>4. p =< q
  <2> SUFFICES ASSUME q < p
               PROVE  FALSE
    BY <1>2, <1>3
  <2>1. q * n + n =< p * n
    BY <1>1, <1>2, <1>3, Times
  <2>2. q * n \in Nat /\ p * n \in Nat
    BY <1>1, <1>2, <1>3
  <2> HIDE DEF p, q, n
  <2> QED
    BY <1>1, <1>2, <1>3, <2>1, <2>2
<1> QED
  BY <1>1, <1>2, <1>3, <1>4
     DEF tfGetBlockByValue, OffsetOf, ValueOf, Block, Offset, m_tBlockCount

LEMMA Stands ==
    ASSUME NEW b \in Block, NEW o \in Offset
    PROVE  tfGetBlockByValue(ValueOf(b, o)) = b /\ OffsetOf(ValueOf(b, o)) = o
<1>1. b \in Nat /\ o \in 0..(tBlockSize - 1) /\ tBlockSize \in Nat \ {0}
  BY PoolAssumption DEF Block, Offset
<1> QED
  BY <1>1, Unique DEF tfGetBlockByValue, OffsetOf, ValueOf

\* The blocks share the identifiers out.
LEMMA Shared ==
    ASSUME NEW b \in Block
    PROVE  /\ SizeOf(b) \in 1..tBlockSize
           /\ \A o \in 0..(SizeOf(b) - 1) : ValueOf(b, o) \in ID
           /\ \A v \in ID : tfGetBlockByValue(v) = b => OffsetOf(v) < SizeOf(b)
<1> DEFINE n == tBlockSize
           q == tMaxValue \div n
<1>1. b \in Nat /\ n \in Nat \ {0} /\ tMaxValue \in Nat /\ q \in Nat /\ b =< q
  BY PoolAssumption, DivMod DEF Block, m_tBlockCount
<1>2. tMaxValue % n \in 0..(n - 1) /\ tMaxValue = q * n + (tMaxValue % n)
  BY <1>1, DivMod
<1>3. b * n \in Nat /\ q * n \in Nat
  BY <1>1
<1>4. ASSUME NEW v \in ID, tfGetBlockByValue(v) = b
      PROVE  OffsetOf(v) \in 0..(n - 1) /\ v = b * n + OffsetOf(v) /\ v =< tMaxValue
  BY <1>4, Located, PoolAssumption DEF ValueOf, Offset, ID
<1>5. CASE b = q
  <2>1. SizeOf(b) = tMaxValue + 1 - b * n
    BY <1>1, <1>5 DEF SizeOf, m_tBlockCount
  <2> DEFINE r == tMaxValue % n
             m == b * n
  <2>2. r \in 0..(n - 1) /\ m \in Nat /\ tMaxValue = m + r /\ SizeOf(b) = tMaxValue + 1 - m
    BY <2>1, <1>2, <1>3, <1>5
  <2> HIDE DEF q, n, r, m
  <2>3. \A o \in 0..(SizeOf(b) - 1) : ValueOf(b, o) \in ID
    BY <2>2, <1>1 DEF ValueOf, ID, m, n
  <2>4. \A v \in ID : tfGetBlockByValue(v) = b => OffsetOf(v) < SizeOf(b)
    BY <2>2, <1>1, <1>4 DEF ID, m
  <2>5. SizeOf(b) \in 1..n
    BY <2>2, <1>1, <1>2
  <2> QED
    BY <2>3, <2>4, <2>5 DEF n
<1>6. CASE b < q
  <2>1. SizeOf(b) = n
    BY <1>1, <1>6 DEF SizeOf, m_tBlockCount
  <2>2. b * n + n =< q * n
    BY <1>1, <1>6, Times
  <2> HIDE DEF q, n
  <2>3. \A o \in 0..(SizeOf(b) - 1) : ValueOf(b, o) \in ID
    BY <2>1, <2>2, <1>1, <1>2, <1>3 DEF ValueOf, ID, n
  <2>4. \A v \in ID : tfGetBlockByValue(v) = b => OffsetOf(v) < SizeOf(b)
    BY <2>1, <1>1, <1>4
  <2> QED
    BY <2>1, <2>3, <2>4, <1>1 DEF n
<1> QED
  BY <1>1, <1>5, <1>6

-----------------------------------------------------------------------------
(* Lists of offsets.                                                       *)

Elems(s) == {s[i] : i \in DOMAIN s}
Distinct(s) == \A i, j \in DOMAIN s : s[i] = s[j] => i = j

\* The last of a list goes: tfGetFromBlock with the invalid identifier.
LEMMA Pop ==
    ASSUME NEW S, NEW s \in Seq(S), s # <<>>
    PROVE  /\ Last(s) \in Elems(s) /\ Last(s) \in S
           /\ Front(s) \in Seq(S) /\ Len(Front(s)) = Len(s) - 1
           /\ Distinct(s) => /\ Elems(Front(s)) = Elems(s) \ {Last(s)}
                             /\ Distinct(Front(s))
<1> DEFINE f == Front(s)
           n == Len(s)
<1>1. n \in Nat /\ n > 0 /\ DOMAIN s = 1..n /\ Last(s) = s[n] /\ s[n] \in S
  BY DEF Last
<1>2. f \in Seq(S) /\ Len(f) = n - 1 /\ \A i \in 1..(n - 1) : f[i] = s[i]
  BY <1>1 DEF Front
<1>3. DOMAIN f = 1..(n - 1)
  BY <1>1, <1>2
<1> HIDE DEF f, n
<1>4. ASSUME Distinct(s)
      PROVE  Elems(f) = Elems(s) \ {Last(s)} /\ Distinct(f)
  <2>1. \A i \in 1..(n - 1) : s[i] # s[n]
    BY <1>1, <1>4 DEF Distinct
  <2>2. \A i \in 1..n : i = n \/ i \in 1..(n - 1)
    BY <1>1
  <2>3. Elems(f) = Elems(s) \ {Last(s)}
    BY <1>1, <1>2, <1>3, <2>1, <2>2 DEF Elems
  <2>4. Distinct(f)
    BY <1>1, <1>2, <1>3, <1>4 DEF Distinct
  <2> QED
    BY <2>3, <2>4
<1>5. Last(s) \in Elems(s)
  BY <1>1 DEF Elems
<1> QED
  BY <1>1, <1>2, <1>4, <1>5 DEF f, n

\* One of a list goes: tfGetFromBlock with an identifier.
LEMMA Pick ==
    ASSUME NEW S, NEW s \in Seq(S), Distinct(s), NEW o \in Elems(s)
    PROVE  /\ Without(s, o) \in Seq(S) /\ Len(Without(s, o)) = Len(s) - 1
           /\ Elems(Without(s, o)) = Elems(s) \ {o}
           /\ Distinct(Without(s, o))
<1> DEFINE n == Len(s)
           k == CHOOSE i \in DOMAIN s : s[i] = o
           t == [s EXCEPT ![k] = Last(s)]
           w == Front(t)
<1>1. n \in Nat /\ n > 0 /\ DOMAIN s = 1..n /\ Last(s) = s[n] /\ s[n] \in S
  <2>1. DOMAIN s = 1..n /\ n \in Nat
    OBVIOUS
  <2>2. 1..n # {}
    BY <2>1 DEF Elems
  <2> QED
    BY <2>1, <2>2 DEF Last
<1>2. k \in 1..n /\ s[k] = o
  BY <1>1 DEF Elems
<1>3. t \in Seq(S) /\ Len(t) = n /\ \A i \in 1..n : t[i] = IF i = k THEN s[n] ELSE s[i]
  BY <1>1, <1>2
<1>4. w \in Seq(S) /\ Len(w) = n - 1 /\ \A i \in 1..(n - 1) : w[i] = t[i]
  BY <1>1, <1>3 DEF Front
<1>5. Without(s, o) = w
  BY DEF Without
<1> HIDE DEF w, t, k, n
<1>6. DOMAIN w = 1..(n - 1) /\ 1..(n - 1) \subseteq 1..n
  BY <1>1, <1>4
<1>7. \A i \in 1..(n - 1) : w[i] = IF i = k THEN s[n] ELSE s[i]
  BY <1>3, <1>4, <1>6
<1>8. \A i, j \in 1..n : s[i] = s[j] => i = j
  BY <1>1 DEF Distinct
<1>9. Elems(w) \subseteq Elems(s) \ {o}
  <2> SUFFICES ASSUME NEW i \in 1..(n - 1)
               PROVE  w[i] \in Elems(s) /\ w[i] # o
    BY <1>6 DEF Elems
  <2>1. i \in 1..n /\ n \in 1..n /\ i # n
    BY <1>1, <1>6
  <2>2. CASE i = k
    <3>1. w[i] = s[n] /\ k # n
      BY <1>7, <2>1, <2>2
    <3> QED
      BY <3>1, <1>1, <1>2, <1>8, <2>1 DEF Elems
  <2>3. CASE i # k
    <3>1. w[i] = s[i]
      BY <1>7, <2>3
    <3> QED
      BY <3>1, <1>1, <1>2, <1>8, <2>1, <2>3 DEF Elems
  <2> QED
    BY <2>2, <2>3
<1>10. Elems(s) \ {o} \subseteq Elems(w)
  <2> SUFFICES ASSUME NEW i \in 1..n, i # k
               PROVE  \E j \in 1..(n - 1) : w[j] = s[i]
    BY <1>1, <1>2, <1>6 DEF Elems
  <2>1. CASE i = n
    <3>1. k \in 1..(n - 1)
      BY <1>1, <1>2, <2>1
    <3> QED
      BY <3>1, <1>7, <2>1
  <2>2. CASE i # n
    <3>1. i \in 1..(n - 1)
      BY <1>1, <2>2
    <3> QED
      BY <3>1, <1>7
  <2> QED
    BY <2>1, <2>2
<1>11. Distinct(w)
  <2> SUFFICES ASSUME NEW i \in 1..(n - 1), NEW j \in 1..(n - 1), w[i] = w[j]
               PROVE  i = j
    BY <1>6 DEF Distinct
  <2>1. i \in 1..n /\ j \in 1..n /\ n \in 1..n /\ i # n /\ j # n
    BY <1>1, <1>6
  <2> QED
    BY <1>7, <1>8, <2>1
<1> QED
  BY <1>4, <1>5, <1>9, <1>10, <1>11 DEF n

\* vfFreeID puts an offset at the end.
LEMMA Push ==
    ASSUME NEW S, NEW s \in Seq(S), NEW o \in S
    PROVE  /\ Append(s, o) \in Seq(S) /\ Len(Append(s, o)) = Len(s) + 1
           /\ Elems(Append(s, o)) = Elems(s) \cup {o}
           /\ Distinct(s) /\ o \notin Elems(s) => Distinct(Append(s, o))
<1> DEFINE d == Append(s, o)
<1>1. /\ d \in Seq(S) /\ Len(s) \in Nat /\ Len(d) = Len(s) + 1
      /\ DOMAIN s = 1..Len(s) /\ DOMAIN d = 1..Len(d)
      /\ \A i \in 1..Len(s) : d[i] = s[i]
      /\ d[Len(d)] = o
  OBVIOUS
<1> HIDE DEF d
<1>2. Elems(d) = Elems(s) \cup {o}
  BY <1>1 DEF Elems
<1>3. Distinct(s) /\ o \notin Elems(s) => Distinct(d)
  BY <1>1 DEF Elems, Distinct
<1> QED
  BY <1>1, <1>2, <1>3 DEF d
-----------------------------------------------------------------------------
(* The state.                                                              *)

\* FreeListed, in the words of the lemmas on lists.
Listed ==
    \A b \in Block :
        /\ Elems(m_tpIDs[b]) = {OffsetOf(v) : v \in FreeIn(b)}
        /\ Distinct(m_tpIDs[b])

LEMMA ListedIs == FreeListed <=> Listed
  BY DEF FreeListed, Listed, Elems, Distinct

LEMMA BlocksFinite == IsFiniteSet(Block) /\ m_tBlockCount \in Nat \ {0}
                      /\ Cardinality(Block) = m_tBlockCount
<1>1. m_tBlockCount \in Nat \ {0}
  BY PoolAssumption, DivMod DEF m_tBlockCount
<1>2. 0 \in Int /\ m_tBlockCount - 1 \in Int
  BY <1>1
<1>3. IsFiniteSet(Block) /\ Cardinality(Block) = m_tBlockCount
  BY <1>1, <1>2, FS_Interval DEF Block
<1> QED
  BY <1>1, <1>3

LEMMA AvailableFinite == IsFiniteSet(Available)
  BY BlocksFinite, FS_Subset DEF Available

\* What is in a list is an identifier that nobody holds.
LEMMA ListedIsFree ==
    ASSUME Listed, NEW b \in Block, NEW o \in Elems(m_tpIDs[b])
    PROVE  /\ o \in Offset
           /\ ValueOf(b, o) \in ID \ taken
           /\ tfGetBlockByValue(ValueOf(b, o)) = b /\ OffsetOf(ValueOf(b, o)) = o
<1>1. PICK v \in FreeIn(b) : o = OffsetOf(v)
  BY DEF Listed
<1>2. v \in ID \ taken /\ tfGetBlockByValue(v) = b
  BY <1>1 DEF FreeIn
<1>3. ValueOf(b, o) = v /\ o \in Offset
  BY <1>1, <1>2, Located
<1> QED
  BY <1>1, <1>2, <1>3

\* An identifier is known by its block and its offset.
LEMMA Known ==
    ASSUME NEW v \in ID, NEW w \in ID, tfGetBlockByValue(v) = tfGetBlockByValue(w),
           OffsetOf(v) = OffsetOf(w)
    PROVE  v = w
<1>1. ValueOf(tfGetBlockByValue(v), OffsetOf(v)) = v
  BY Located
<1>2. ValueOf(tfGetBlockByValue(w), OffsetOf(w)) = w
  BY Located
<1> QED
  BY <1>1, <1>2

\* A set of naturals that is not empty has a least element.
LEMMA LeastNumber ==
    ASSUME NEW I \in SUBSET Nat, I # {}
    PROVE  \E m \in I : \A n \in I : m =< n
<1>1. PICK m \in I : \A n \in I : ~ (<<n, m>> \in OpToRel(<, Nat))
  BY NatLessThanWellFounded, WFMin
<1>2. ASSUME NEW n \in I
      PROVE  m =< n
  <2>1. ~ (<<n, m>> \in {ss \in Nat \X Nat : ss[1] < ss[2]})
    BY <1>1 DEF OpToRel
  <2>2. <<n, m>> \in Nat \X Nat /\ <<n, m>>[1] = n /\ <<n, m>>[2] = m
    OBVIOUS
  <2> QED
    BY <2>1, <2>2
<1> QED
  BY <1>2

\* std::min_element finds a block with a free identifier, if there is one,
\* that has been left alone for longest.
LEMMA MinIsLeast ==
    ASSUME m_tTimeID \in [Block -> 0..MaxTime], Available # {}
    PROVE  /\ MinElement \in Available
           /\ \A c \in Available : m_tTimeID[MinElement] =< m_tTimeID[c]
<1> DEFINE T == {m_tTimeID[c] : c \in Available}
           P(b) == /\ \A c \in Block : ~Less(c, b)
                   /\ \A c \in 0..(b - 1) : Less(b, c)
<1>1. Available \subseteq Block /\ Block \subseteq Nat /\ MaxTime \in Nat
  BY BlocksFinite, PoolAssumption DEF Available, Block
<1>2. \A c \in Block : m_tTimeID[c] \in Nat
  BY <1>1
<1>3. T \subseteq Nat /\ T # {}
  BY <1>1, <1>2
<1>4. PICK t \in T : \A n \in T : t =< n
  BY <1>3, LeastNumber
<1> DEFINE B == {c \in Available : m_tTimeID[c] = t}
<1>5. B \subseteq Nat /\ B # {}
  BY <1>1, <1>4
<1>6. PICK b \in B : \A n \in B : b =< n
  BY <1>5, LeastNumber
<1>7. b \in Block /\ m_tpIDs[b] # <<>> /\ m_tTimeID[b] = t /\ t \in Nat
  BY <1>1, <1>3, <1>6 DEF Available
<1>8. \A c \in Block : ~Less(c, b)
  <2> TAKE c \in Block
  <2>1. CASE m_tpIDs[c] = <<>>
    BY <2>1 DEF Less
  <2>2. CASE m_tpIDs[c] # <<>>
    <3>1. c \in Available /\ m_tTimeID[c] \in T
      BY <2>2 DEF Available
    <3>2. t =< m_tTimeID[c] /\ m_tTimeID[c] \in Nat
      BY <3>1, <1>2, <1>4
    <3> HIDE DEF T, B
    <3> QED
      BY <3>2, <1>7 DEF Less
  <2> QED
    BY <2>1, <2>2
<1>9. ASSUME NEW c \in 0..(b - 1)
      PROVE  Less(b, c)
  <2>1. c \in Block /\ c < b
    BY <1>7, BlocksFinite DEF Block
  <2>2. CASE m_tpIDs[c] = <<>>
    BY <2>2, <1>7 DEF Less
  <2>3. CASE m_tpIDs[c] # <<>>
    <3>1. c \in Available /\ t =< m_tTimeID[c]
      BY <2>1, <2>3, <1>4 DEF Available
    <3>2. c \notin B
      BY <2>1, <1>5, <1>6
    <3> QED
      BY <3>1, <3>2, <2>1, <1>2, <1>7 DEF Less
  <2> QED
    BY <2>2, <2>3
<1>10. P(b)
  BY <1>8, <1>9
<1>11. MinElement = CHOOSE x \in Block : P(x)
  BY DEF MinElement
<1>12. MinElement \in Block /\ P(MinElement)
  BY <1>7, <1>10, <1>11
<1>13. MinElement \in Available
  BY <1>6, <1>7, <1>12 DEF Less, Available
<1> QED
  BY <1>1, <1>2, <1>12, <1>13 DEF Less, Available

\* R_ASSERT2(m_available_count) holds when there is a free identifier.
LEMMA CountTells ==
    ASSUME CountRight
    PROVE  /\ m_available_count \in Nat
           /\ m_available_count # 0 <=> Available # {}
  BY AvailableFinite, FS_EmptySet, FS_CardinalityType DEF CountRight

-----------------------------------------------------------------------------
(* The invariant.                                                          *)

\* The list of a fresh block counts its offsets down.
LEMMA Countdown ==
    ASSUME NEW S, NEW n \in Nat \ {0}, 0..(n - 1) \subseteq S,
           NEW l, l = [i \in 1..n |-> n - i]
    PROVE  l \in Seq(S) /\ l # <<>> /\ Elems(l) = 0..(n - 1) /\ Distinct(l)
<1>1. \A i \in 1..n : n - i \in 0..(n - 1) /\ n - i \in S /\ l[i] = n - i
  OBVIOUS
<1>2. l \in [1..n -> S] /\ DOMAIN l = 1..n
  BY <1>1
<1>3. l \in Seq(S)
  BY <1>2, SeqDef
<1>4. Elems(l) \subseteq 0..(n - 1)
  BY <1>1, <1>2 DEF Elems
<1>5. ASSUME NEW o \in 0..(n - 1)
      PROVE  \E i \in 1..n : l[i] = o
  <2>1. n - o \in 1..n /\ n - (n - o) = o
    OBVIOUS
  <2> QED
    BY <2>1, <1>1
<1>6. 0..(n - 1) \subseteq Elems(l)
  BY <1>2, <1>5 DEF Elems
<1>7. Distinct(l)
  BY <1>1, <1>2 DEF Distinct
<1>8. l # <<>>
  <2>1. 0 \in Elems(l)
    BY <1>6
  <2> QED
    BY <2>1 DEF Elems
<1> QED
  BY <1>3, <1>4, <1>6, <1>7, <1>8

\* The constructor.
LEMMA FreshIsRight ==
    ASSUME NEW L, L = [b \in Block |-> [i \in 1..SizeOf(b) |-> SizeOf(b) - i]]
    PROVE  /\ L \in [Block -> Seq(Offset)]
           /\ \A b \in Block :
                /\ L[b] # <<>>
                /\ Elems(L[b]) = {OffsetOf(v) : v \in {w \in ID : tfGetBlockByValue(w) = b}}
                /\ Distinct(L[b])
<1> SUFFICES ASSUME NEW b \in Block
             PROVE  /\ L[b] \in Seq(Offset) /\ L[b] # <<>>
                    /\ Elems(L[b]) = {OffsetOf(v) : v \in {w \in ID : tfGetBlockByValue(w) = b}}
                    /\ Distinct(L[b])
  OBVIOUS
<1> DEFINE n == SizeOf(b)
           W == {w \in ID : tfGetBlockByValue(w) = b}
<1>1. n \in 1..tBlockSize /\ tBlockSize \in Nat
  BY Shared, PoolAssumption
<1> HIDE DEF n
<1>3. n \in Nat \ {0} /\ 0..(n - 1) \subseteq Offset
  BY <1>1 DEF Offset
<1>7. L[b] \in Seq(Offset) /\ L[b] # <<>> /\ Elems(L[b]) = 0..(n - 1) /\ Distinct(L[b])
  <2> DEFINE l == [i \in 1..n |-> n - i]
  <2>1. L[b] = l
    BY DEF n
  <2> HIDE DEF l
  <2>2. l \in Seq(Offset) /\ l # <<>> /\ Elems(l) = 0..(n - 1) /\ Distinct(l)
    BY <1>3, Countdown DEF l
  <2> QED
    BY <2>1, <2>2
<1>8. ASSUME NEW o \in 0..(n - 1)
      PROVE  ValueOf(b, o) \in W /\ OffsetOf(ValueOf(b, o)) = o
  <2>1. o \in Offset
    BY <1>1 DEF Offset
  <2>2. ValueOf(b, o) \in ID
    BY Shared DEF n
  <2> QED
    BY <2>1, <2>2, Stands
<1>9. ASSUME NEW v \in W
      PROVE  OffsetOf(v) \in 0..(n - 1)
  <2>1. OffsetOf(v) \in Offset /\ OffsetOf(v) < n
    BY Located, Shared DEF n
  <2> QED
    BY <2>1, <1>3, PoolAssumption DEF Offset
<1>10. 0..(n - 1) = {OffsetOf(v) : v \in W}
  BY <1>8, <1>9
<1> QED
  BY <1>7, <1>10

\* A fresh block has an identifier.
LEMMA BlockHasOne ==
    ASSUME NEW b \in Block
    PROVE  \E v \in ID : tfGetBlockByValue(v) = b
<1>1. SizeOf(b) \in 1..tBlockSize /\ tBlockSize \in Nat
  BY Shared, PoolAssumption
<1>2. 0 \in 0..(SizeOf(b) - 1) /\ 0 \in Offset
  BY <1>1 DEF Offset
<1>3. ValueOf(b, 0) \in ID
  BY <1>2, Shared
<1>4. tfGetBlockByValue(ValueOf(b, 0)) = b
  BY <1>2, Stands
<1> QED
  BY <1>3, <1>4

\* An identifier is taken from a list.
LEMMA TakesOne ==
    ASSUME TypeOK, CountRight, Listed,
           NEW b \in Block, NEW o \in Elems(m_tpIDs[b]),
           NEW s \in Seq(Offset), Distinct(s), Len(s) = Len(m_tpIDs[b]) - 1,
           Elems(s) = Elems(m_tpIDs[b]) \ {o},
           m_available_count' = CountLess(b),
           m_tpIDs' = [m_tpIDs EXCEPT ![b] = s],
           taken' = taken \cup {ValueOf(b, o)}
    PROVE  /\ m_available_count' \in Nat
           /\ m_tpIDs' \in [Block -> Seq(Offset)]
           /\ taken' \subseteq ID
           /\ CountRight' /\ Listed'
<1> DEFINE x == ValueOf(b, o)
           L == m_tpIDs[b]
<1>1. x \in ID \ taken /\ tfGetBlockByValue(x) = b /\ OffsetOf(x) = o
  BY ListedIsFree
<1>2. L \in Seq(Offset) /\ L # <<>> /\ Len(L) \in Nat /\ Len(L) > 0
  BY DEF TypeOK, Elems
<1>3. m_tpIDs' \in [Block -> Seq(Offset)] /\ m_tpIDs'[b] = s
      /\ \A c \in Block \ {b} : m_tpIDs'[c] = m_tpIDs[c]
  BY DEF TypeOK
<1>4. taken' \subseteq ID
  BY <1>1 DEF TypeOK
<1>5. Listed'
  <2> SUFFICES ASSUME NEW c \in Block
               PROVE  /\ Elems(m_tpIDs'[c]) = {OffsetOf(v) : v \in FreeIn(c)'}
                      /\ Distinct(m_tpIDs'[c])
    BY DEF Listed
  <2>1. CASE c = b
    <3>1. FreeIn(c)' = FreeIn(c) \ {x}
      BY DEF FreeIn
    <3>2. {OffsetOf(v) : v \in FreeIn(c) \ {x}} = {OffsetOf(v) : v \in FreeIn(c)} \ {o}
      <4>1. \A v \in FreeIn(c) : OffsetOf(v) = o => v = x
        BY <1>1, <2>1, Known DEF FreeIn
      <4> QED
        BY <4>1, <1>1
    <3> QED
      BY <2>1, <3>1, <3>2, <1>3 DEF Listed
  <2>2. CASE c # b
    <3>1. FreeIn(c)' = FreeIn(c)
      BY <1>1, <2>2 DEF FreeIn
    <3> QED
      BY <2>2, <3>1, <1>3 DEF Listed
  <2> QED
    BY <2>1, <2>2
<1>6. b \in Available
  BY <1>2 DEF Available
<1>7. Available' = IF Len(L) = 1 THEN Available \ {b} ELSE Available
  <2>1. m_tpIDs'[b] = <<>> <=> Len(L) = 1
    <3>1. s = <<>> <=> Len(s) = 0
      BY EmptySeq
    <3> QED
      BY <3>1, <1>2, <1>3
  <2> QED
    BY <2>1, <1>2, <1>3 DEF Available
<1>8. Cardinality(Available \ {b}) = Cardinality(Available) - 1
  BY <1>6, AvailableFinite, FS_RemoveElement
<1>9. m_available_count \in Nat /\ m_available_count > 0
  BY <1>6, CountTells
<1>10. CountRight' /\ m_available_count' \in Nat
  BY <1>7, <1>8, <1>9 DEF CountRight, CountLess
<1> QED
  BY <1>3, <1>4, <1>5, <1>10

\* The last identifier of a block's list.
LEMMA PopsOne ==
    ASSUME IInv, m_available_count # 0, PopFrom(MinElement)
    PROVE  /\ MinElement \in Available
           /\ \A c \in Available : m_tTimeID[MinElement] =< m_tTimeID[c]
           /\ m_available_count' \in Nat
           /\ m_tpIDs' \in [Block -> Seq(Offset)]
           /\ taken' \subseteq ID
           /\ CountRight' /\ Listed'
           /\ ValueOf(MinElement, Last(m_tpIDs[MinElement])) \in ID \ taken
           /\ tfGetBlockByValue(ValueOf(MinElement, Last(m_tpIDs[MinElement]))) = MinElement
<1> DEFINE b == MinElement
           L == m_tpIDs[b]
           o == Last(L)
<1>1. TypeOK /\ CountRight /\ Listed
  BY ListedIs DEF IInv
<1>2. b \in Available /\ \A c \in Available : m_tTimeID[b] =< m_tTimeID[c]
  BY <1>1, CountTells, MinIsLeast DEF TypeOK
<1> HIDE DEF b
<1>3. b \in Block /\ L \in Seq(Offset) /\ L # <<>> /\ Distinct(L)
  BY <1>1, <1>2 DEF Available, TypeOK, Listed
<1>4. /\ o \in Elems(L) /\ Front(L) \in Seq(Offset) /\ Len(Front(L)) = Len(L) - 1
      /\ Elems(Front(L)) = Elems(L) \ {o} /\ Distinct(Front(L))
  BY <1>3, Pop
<1>5. /\ m_available_count' = CountLess(b)
      /\ m_tpIDs' = [m_tpIDs EXCEPT ![b] = Front(L)]
      /\ taken' = taken \cup {ValueOf(b, o)}
  BY DEF PopFrom, b
<1>6. /\ m_available_count' \in Nat /\ m_tpIDs' \in [Block -> Seq(Offset)]
      /\ taken' \subseteq ID /\ CountRight' /\ Listed'
  <2> HIDE DEF L, o
  <2> QED
    BY <1>1, <1>3, <1>4, <1>5, TakesOne DEF L
<1>7. ValueOf(b, o) \in ID \ taken /\ tfGetBlockByValue(ValueOf(b, o)) = b
  BY <1>1, <1>3, <1>4, ListedIsFree
<1> QED
  BY <1>2, <1>6, <1>7 DEF b

LEMMA Starts == Init => IInv
<1> SUFFICES ASSUME Init
             PROVE  IInv
  OBVIOUS
<1>1. /\ m_tpIDs \in [Block -> Seq(Offset)]
      /\ \A b \in Block :
            /\ m_tpIDs[b] # <<>>
            /\ Elems(m_tpIDs[b]) = {OffsetOf(v) : v \in {w \in ID : tfGetBlockByValue(w) = b}}
            /\ Distinct(m_tpIDs[b])
  BY FreshIsRight DEF Init
<1>2. TypeOK
  BY <1>1, BlocksFinite, PoolAssumption DEF Init, TypeOK
<1>3. Listed
  BY <1>1 DEF Init, Listed, FreeIn
<1>4. Available = Block
  BY <1>1 DEF Available
<1>5. CountRight
  BY <1>4, BlocksFinite DEF Init, CountRight
<1>6. TimesRight
  BY BlockHasOne DEF Init, TimesRight
<1> QED
  BY <1>2, <1>3, <1>5, <1>6, ListedIs DEF IInv

LEMMA Stays == IInv /\ [Next]_vars => IInv'
<1> SUFFICES ASSUME IInv, [Next]_vars
             PROVE  IInv'
  OBVIOUS
<1>0. /\ TypeOK /\ CountRight /\ Listed /\ (simulator \/ TimesRight)
      /\ simulator \in BOOLEAN /\ MaxTime \in Nat /\ simulator' = simulator
  BY ListedIs, PoolAssumption DEF IInv, TypeOK, Next, vars
<1>1. ASSUME GetID
      PROVE  IInv'
  <2>1. /\ m_available_count' \in Nat /\ m_tpIDs' \in [Block -> Seq(Offset)]
        /\ taken' \subseteq ID /\ CountRight' /\ Listed'
    BY <1>1, PopsOne DEF GetID
  <2>2. UNCHANGED <<m_tTimeID, now, back>>
    BY <1>1 DEF GetID
  <2>3. TypeOK'
    BY <1>0, <2>1, <2>2 DEF TypeOK
  <2>4. TimesRight' <=> TimesRight
    BY <2>2 DEF TimesRight
  <2> QED
    BY <1>0, <2>1, <2>3, <2>4, ListedIs DEF IInv, FreeListed, Listed, Elems, Distinct
<1>2. ASSUME NEW v \in ID, GetThisID(v)
      PROVE  IInv'
  <2> DEFINE b == tfGetBlockByValue(v)
             o == OffsetOf(v)
             L == m_tpIDs[b]
  <2>1. b \in Block /\ o \in Offset /\ ValueOf(b, o) = v
    BY Located
  <2>2. o \in Elems(L)
    BY <1>2 DEF GetThisID, Elems
  <2>3. L \in Seq(Offset) /\ Distinct(L)
    BY <1>0, <2>1 DEF TypeOK, Listed
  <2>4. /\ m_available_count' = CountLess(b)
        /\ m_tpIDs' = [m_tpIDs EXCEPT ![b] = Without(L, o)]
        /\ taken' = taken \cup {ValueOf(b, o)}
        /\ UNCHANGED <<m_tTimeID, now, back>>
    BY <1>2, <2>1 DEF GetThisID
  <2>5. /\ Without(L, o) \in Seq(Offset) /\ Len(Without(L, o)) = Len(L) - 1
        /\ Elems(Without(L, o)) = Elems(L) \ {o} /\ Distinct(Without(L, o))
    BY <2>2, <2>3, Pick
  <2>6. /\ m_available_count' \in Nat /\ m_tpIDs' \in [Block -> Seq(Offset)]
        /\ taken' \subseteq ID /\ CountRight' /\ Listed'
    <3> HIDE DEF b, o
    <3> QED
      BY <1>0, <2>1, <2>2, <2>4, <2>5, TakesOne
  <2>7. TypeOK'
    BY <1>0, <2>4, <2>6 DEF TypeOK
  <2>8. TimesRight' <=> TimesRight
    BY <2>4 DEF TimesRight
  <2> QED
    BY <1>0, <2>6, <2>7, <2>8 DEF IInv, FreeListed, Listed, Elems, Distinct
<1>3. ASSUME NEW v \in ID, FreeID(v)
      PROVE  IInv'
  <2> DEFINE b == tfGetBlockByValue(v)
             o == OffsetOf(v)
             L == m_tpIDs[b]
  <2>1. b \in Block /\ o \in Offset /\ ValueOf(b, o) = v
    BY Located
  <2>2. L \in Seq(Offset) /\ Distinct(L) /\ Elems(L) = {OffsetOf(w) : w \in FreeIn(b)}
    BY <1>0, <2>1 DEF TypeOK, Listed
  <2>3. /\ v \in taken
        /\ m_available_count' = m_available_count + (IF L = <<>> THEN 1 ELSE 0)
        /\ m_tpIDs' = [m_tpIDs EXCEPT ![b] = Append(L, o)]
        /\ m_tTimeID' = [m_tTimeID EXCEPT ![b] = now]
        /\ taken' = taken \ {v}
        /\ back' = [back EXCEPT ![v] = now]
        /\ now' = now
    BY <1>3 DEF FreeID
  <2> HIDE DEF b, o, L
  <2>4. o \notin Elems(L)
    <3> SUFFICES ASSUME NEW w \in FreeIn(b), OffsetOf(w) = o
                 PROVE  FALSE
      BY <2>2
    <3>1. w = v
      BY Known DEF FreeIn, b, o
    <3> QED
      BY <3>1, <2>3 DEF FreeIn
  <2>5. /\ Append(L, o) \in Seq(Offset) /\ Append(L, o) # <<>>
        /\ Elems(Append(L, o)) = Elems(L) \cup {o} /\ Distinct(Append(L, o))
    <3>1. /\ Append(L, o) \in Seq(Offset) /\ Elems(Append(L, o)) = Elems(L) \cup {o}
          /\ Distinct(Append(L, o))
      BY <2>1, <2>2, <2>4, Push
    <3>2. Append(L, o) # <<>>
      <4>1. o \in Elems(Append(L, o)) /\ Elems(<<>>) = {}
        BY <3>1 DEF Elems
      <4> QED
        BY <4>1
    <3> QED
      BY <3>1, <3>2
  <2>6. /\ m_tpIDs' \in [Block -> Seq(Offset)] /\ m_tpIDs'[b] = Append(L, o)
        /\ \A c \in Block \ {b} : m_tpIDs'[c] = m_tpIDs[c]
    BY <1>0, <2>1, <2>3, <2>5 DEF TypeOK
  <2>7. Listed'
    <3> SUFFICES ASSUME NEW c \in Block
                 PROVE  /\ Elems(m_tpIDs'[c]) = {OffsetOf(w) : w \in FreeIn(c)'}
                        /\ Distinct(m_tpIDs'[c])
      BY DEF Listed
    <3>1. CASE c = b
      <4>1. FreeIn(c)' = FreeIn(c) \cup {v}
        BY <2>3, <3>1 DEF FreeIn, b
      <4>2. {OffsetOf(w) : w \in FreeIn(c) \cup {v}} = {OffsetOf(w) : w \in FreeIn(c)} \cup {o}
        BY DEF o
      <4> QED
        BY <3>1, <4>1, <4>2, <2>2, <2>5, <2>6
    <3>2. CASE c # b
      <4>1. FreeIn(c)' = FreeIn(c)
        BY <2>3, <3>2 DEF FreeIn, b
      <4> QED
        BY <3>2, <4>1, <1>0, <2>6 DEF Listed
    <3> QED
      BY <3>1, <3>2
  <2>8. Available' = Available \cup {b}
    BY <2>1, <2>5, <2>6 DEF Available
  <2>9. Cardinality(Available \cup {b}) =
            Cardinality(Available) + (IF L = <<>> THEN 1 ELSE 0)
    <3>1. b \in Available <=> L # <<>>
      BY <2>1 DEF Available, L
    <3>2. Cardinality(Available) \in Nat
      BY AvailableFinite, FS_CardinalityType
    <3>3. Cardinality(Available \cup {b}) =
              IF b \in Available THEN Cardinality(Available) ELSE Cardinality(Available) + 1
      BY AvailableFinite, FS_AddElement
    <3>4. CASE L = <<>>
      BY <3>1, <3>3, <3>4
    <3>5. CASE L # <<>>
      BY <3>1, <3>2, <3>3, <3>5
    <3> QED
      BY <3>4, <3>5
  <2>10. CountRight' /\ m_available_count' \in Nat
    BY <1>0, <2>3, <2>8, <2>9 DEF CountRight, TypeOK
  <2>11. TypeOK'
    BY <1>0, <2>1, <2>3, <2>6, <2>10 DEF TypeOK
  <2>12. TimesRight => TimesRight'
    <3> SUFFICES ASSUME TimesRight, NEW c \in Block
                 PROVE  /\ m_tTimeID'[c] =< now'
                        /\ \A w \in ID : tfGetBlockByValue(w) = c => back'[w] =< m_tTimeID'[c]
                        /\ \E w \in ID : tfGetBlockByValue(w) = c /\ back'[w] = m_tTimeID'[c]
      BY DEF TimesRight
    <3>1. now \in Nat /\ m_tTimeID \in [Block -> Nat] /\ back \in [ID -> Nat]
      BY <1>0 DEF TypeOK
    <3>2. CASE c = b
      <4>1. m_tTimeID'[c] = now /\ back'[v] = now /\ tfGetBlockByValue(v) = c
        BY <2>1, <2>3, <3>1, <3>2 DEF b
      <4>2. ASSUME NEW w \in ID, tfGetBlockByValue(w) = c
            PROVE  back'[w] =< now
        BY <2>3, <3>1, <4>2 DEF TimesRight
      <4> QED
        BY <4>1, <4>2, <2>3, <3>1
    <3>3. CASE c # b
      <4>1. m_tTimeID'[c] = m_tTimeID[c]
        BY <2>3, <3>1, <3>3
      <4>2. \A w \in ID : tfGetBlockByValue(w) = c => back'[w] = back[w]
        BY <2>3, <3>1, <3>3 DEF b
      <4> QED
        BY <4>1, <4>2, <2>3 DEF TimesRight
    <3> QED
      BY <3>2, <3>3
  <2> QED
    BY <1>0, <2>7, <2>10, <2>11, <2>12 DEF IInv, FreeListed, Listed, Elems, Distinct
<1>4. ASSUME NEW v \in ID, RemoveOnline(v)
      PROVE  IInv'
  <2>1. UNCHANGED <<m_available_count, m_tpIDs, now, taken>> /\ simulator
    BY <1>4 DEF RemoveOnline
  <2>2. TypeOK'
    BY <1>0, <1>4, Located DEF RemoveOnline, TypeOK
  <2>3. CountRight'
    BY <1>0, <2>1 DEF CountRight, Available
  <2>4. Listed'
    BY <1>0, <2>1 DEF Listed, FreeIn
  <2> QED
    BY <1>0, <2>1, <2>2, <2>3, <2>4 DEF IInv, FreeListed, Listed, Elems, Distinct
<1>5. ASSUME SpawnItem2
      PROVE  IInv'
  <2>1. /\ m_available_count' \in Nat /\ m_tpIDs' \in [Block -> Seq(Offset)]
        /\ taken' \subseteq ID /\ CountRight' /\ Listed'
        /\ MinElement \in Available
    BY <1>5, PopsOne DEF SpawnItem2
  <2>2. m_tTimeID' \in [Block -> 0..MaxTime] /\ back' \in [ID -> 0..MaxTime] /\ now' = now
    <3> DEFINE m == MinElement
               x == ValueOf(MinElement, Last(m_tpIDs[MinElement]))
    <3>1. /\ m_tTimeID' = [m_tTimeID EXCEPT ![m] = 0] /\ back' = [back EXCEPT ![x] = 0]
          /\ now' = now
      BY <1>5 DEF SpawnItem2
    <3>2. m_tTimeID \in [Block -> 0..MaxTime] /\ back \in [ID -> 0..MaxTime]
          /\ 0 \in 0..MaxTime
      BY <1>0 DEF TypeOK
    <3> HIDE DEF m, x
    <3> QED
      BY <3>1, <3>2
  <2>3. TypeOK'
    BY <1>0, <2>1, <2>2 DEF TypeOK
  <2>4. simulator
    BY <1>5 DEF SpawnItem2
  <2> QED
    BY <1>0, <2>1, <2>3, <2>4 DEF IInv, FreeListed, Listed, Elems, Distinct
<1>6. ASSUME clear_ids
      PROVE  IInv'
  <2>1. /\ m_tpIDs' \in [Block -> Seq(Offset)]
        /\ \A b \in Block :
              /\ m_tpIDs'[b] # <<>>
              /\ Elems(m_tpIDs'[b]) = {OffsetOf(v) : v \in {w \in ID : tfGetBlockByValue(w) = b}}
              /\ Distinct(m_tpIDs'[b])
    <3> DEFINE L == [b \in Block |-> [i \in 1..SizeOf(b) |-> SizeOf(b) - i]]
    <3>1. m_tpIDs' = L
      BY <1>6 DEF clear_ids, Fresh
    <3> HIDE DEF L
    <3>2. /\ L \in [Block -> Seq(Offset)]
          /\ \A b \in Block :
                /\ L[b] # <<>>
                /\ Elems(L[b]) = {OffsetOf(v) : v \in {w \in ID : tfGetBlockByValue(w) = b}}
                /\ Distinct(L[b])
      BY FreshIsRight DEF L
    <3> QED
      BY <3>1, <3>2
  <2>2. TypeOK'
    BY <1>0, <1>6, <2>1, BlocksFinite DEF clear_ids, Fresh, TypeOK
  <2>3. Listed'
    BY <1>6, <2>1 DEF clear_ids, Listed, FreeIn
  <2>4. Available' = Block
    BY <2>1 DEF Available
  <2>5. CountRight'
    BY <1>6, <2>4, BlocksFinite DEF clear_ids, Fresh, CountRight
  <2>6. simulator
    BY <1>6 DEF clear_ids
  <2> QED
    BY <1>0, <2>2, <2>3, <2>5, <2>6 DEF IInv, FreeListed, Listed, Elems, Distinct
<1>7. ASSUME Tick
      PROVE  IInv'
  <2>1. /\ UNCHANGED <<m_available_count, m_tpIDs, m_tTimeID, taken, back>>
        /\ now' = now + 1 /\ now \in Nat /\ now' \in 0..MaxTime
    BY <1>0, <1>7 DEF Tick, TypeOK
  <2>2. TypeOK'
    BY <1>0, <2>1 DEF TypeOK
  <2>3. CountRight'
    BY <1>0, <2>1 DEF CountRight, Available
  <2>4. Listed'
    BY <1>0, <2>1 DEF Listed, FreeIn
  <2>5. TimesRight => TimesRight'
    <3>1. \A b \in Block : m_tTimeID[b] \in Nat
      BY <1>0 DEF TypeOK
    <3> QED
      BY <2>1, <3>1 DEF TimesRight
  <2> QED
    BY <1>0, <2>2, <2>3, <2>4, <2>5 DEF IInv, FreeListed, Listed, Elems, Distinct
<1>8. ASSUME UNCHANGED vars
      PROVE  IInv'
  <2>1. TypeOK'
    BY <1>0, <1>8 DEF vars, TypeOK
  <2>2. CountRight'
    BY <1>0, <1>8 DEF vars, CountRight, Available
  <2>3. Listed'
    BY <1>0, <1>8 DEF vars, Listed, FreeIn
  <2>4. TimesRight' <=> TimesRight
    BY <1>8 DEF vars, TimesRight
  <2> QED
    BY <1>0, <2>1, <2>2, <2>3, <2>4 DEF IInv, FreeListed, Listed, Elems, Distinct
<1> QED
  BY <1>1, <1>2, <1>3, <1>4, <1>5, <1>6, <1>7, <1>8 DEF Next, Step

\* The lists of the blocks have just the identifiers nobody holds, each once,
\* and m_available_count is the number of lists that are not empty: the pool
\* gives no identifier twice, loses none, and does not give up while it has one.
THEOREM PoolIsRight == Spec => []IInv
  BY Starts, Stays, PTL DEF Spec

-----------------------------------------------------------------------------
(* Late reuse.                                                             *)

LEMMA LateStep ==
    ASSUME ~simulator, IInv, GetID, NEW v \in taken' \ taken,
           NEW b \in Available \ {tfGetBlockByValue(v)}
    PROVE  \E w \in ID : tfGetBlockByValue(w) = b /\ back[w] >= back[v]
<1> DEFINE m == MinElement
<1>1. /\ m \in Available /\ m_tTimeID[m] =< m_tTimeID[b]
      /\ v = ValueOf(m, Last(m_tpIDs[m])) /\ v \in ID /\ tfGetBlockByValue(v) = m
  <2>1. taken' = taken \cup {ValueOf(m, Last(m_tpIDs[m]))}
    BY DEF GetID, PopFrom
  <2> QED
    BY <2>1, PopsOne DEF GetID
<1>2. TypeOK /\ TimesRight
  BY DEF IInv
<1>3. m \in Block /\ b \in Block
  BY <1>1 DEF Available
<1>4. back[v] =< m_tTimeID[m]
  BY <1>1, <1>2, <1>3 DEF TimesRight
<1>5. PICK w \in ID : tfGetBlockByValue(w) = b /\ back[w] = m_tTimeID[b]
  BY <1>2, <1>3 DEF TimesRight
<1>6. back[v] \in Nat /\ m_tTimeID[m] \in Nat /\ m_tTimeID[b] \in Nat
  BY <1>1, <1>2, <1>3 DEF TypeOK
<1> HIDE DEF m
<1> QED
  BY <1>1, <1>4, <1>5, <1>6

\* In a game without the simulator an identifier is given again only when in
\* each other block that has any the last one came back no earlier.
THEOREM ReusedLate == Spec => ReuseIsLate
<1>1. IInv /\ [Next]_vars =>
          [\A v \in ID : ~simulator /\ GetID /\ v \in taken' \ taken =>
               \A b \in Available \ {tfGetBlockByValue(v)} :
                   \E w \in ID : tfGetBlockByValue(w) = b /\ back[w] >= back[v]]_vars
  BY LateStep
<1> QED
  BY <1>1, PoolIsRight, PTL DEF Spec, ReuseIsLate
=============================================================================
