--------------------------- MODULE Sheduler_proof ---------------------------
(***************************************************************************)
(* The scheduler visits its objects as UpdateService promises, for any     *)
(* number of objects and whatever they do in their updates.                *)
(***************************************************************************)
EXTENDS Sheduler, FiniteSetTheorems, SequenceTheorems, WellFoundedInduction, TLAPS

-----------------------------------------------------------------------------
(* Sequences.                                                              *)

\* A set of naturals that is not empty has a least element.
LEMMA LeastIndex ==
    ASSUME NEW I \in SUBSET Nat, I # {}
    PROVE  \E m \in I : \A n \in I : m =< n
<1>1. PICK m \in I : \A n \in I : ~ (<<n, m>> \in OpToRel(<, Nat))
  BY NatLessThanWellFounded, WFMin
<1>2. ASSUME NEW n \in I
      PROVE  m =< n
  <2>1. ~ (<<n, m>> \in {p \in Nat \X Nat : p[1] < p[2]})
    BY <1>1 DEF OpToRel
  <2>2. <<n, m>> \in Nat \X Nat /\ <<n, m>>[1] = n /\ <<n, m>>[2] = m
    OBVIOUS
  <2> QED
    BY <2>1, <2>2
<1> QED
  BY <1>2

\* A set of indices that is not empty has a greatest element.
LEMMA GreatestIndex ==
    ASSUME NEW len \in Nat, NEW I \in SUBSET (1..len), I # {}
    PROVE  \E m \in I : \A n \in I : n =< m
<1> DEFINE J == {len - n : n \in I}
<1>1. J \subseteq Nat /\ J # {}
  <2>1. \A n \in I : n \in 1..len /\ len - n \in Nat
    OBVIOUS
  <2>2. PICK n \in I : TRUE
    OBVIOUS
  <2> QED
    BY <2>1, <2>2
<1>2. PICK j \in J : \A n \in J : j =< n
  BY <1>1, LeastIndex
<1>3. PICK m \in I : j = len - m
  BY <1>2
<1>4. ASSUME NEW n \in I
      PROVE  n =< m
  <2>1. len - n \in J
    OBVIOUS
  <2>2. len - m =< len - n
    BY <1>2, <1>3, <2>1
  <2> QED
    BY <2>2
<1> QED
  BY <1>4

LEMMA Without ==
    ASSUME NEW S, NEW s \in Seq(S), NEW k \in 1..Len(s)
    PROVE  /\ RemoveAt(s, k) \in Seq(S)
           /\ Len(RemoveAt(s, k)) = Len(s) - 1
           /\ \A j \in 1..(Len(s) - 1) : RemoveAt(s, k)[j] = IF j < k THEN s[j] ELSE s[j + 1]
<1> DEFINE a == SubSeq(s, 1, k - 1)
           b == SubSeq(s, k + 1, Len(s))
<1>1. a \in Seq(S) /\ Len(a) = k - 1 /\ \A j \in 1..(k - 1) : a[j] = s[j]
  OBVIOUS
<1>2. b \in Seq(S) /\ Len(b) = Len(s) - k /\ \A j \in 1..(Len(s) - k) : b[j] = s[k + j]
  OBVIOUS
<1>3. RemoveAt(s, k) = a \o b
  BY DEF RemoveAt
<1> HIDE DEF a, b
<1>4. a \o b \in Seq(S) /\ Len(a \o b) = Len(s) - 1
  <2>1. a \o b \in Seq(S) /\ Len(a \o b) = Len(a) + Len(b)
    BY <1>1, <1>2, ConcatProperties
  <2>2. Len(s) \in Nat /\ (k - 1) + (Len(s) - k) = Len(s) - 1
    OBVIOUS
  <2> QED
    BY <1>1, <1>2, <2>1, <2>2
<1>5. ASSUME NEW j \in 1..(Len(s) - 1)
      PROVE  (a \o b)[j] = IF j < k THEN s[j] ELSE s[j + 1]
  <2>1. CASE j < k
    BY <1>1, <1>2, <2>1
  <2>2. CASE ~(j < k)
    <3>1. (a \o b)[j] = b[j - (k - 1)]
      BY <1>1, <1>2, <2>2
    <3>2. j - (k - 1) \in 1..(Len(s) - k) /\ k + (j - (k - 1)) = j + 1
      BY <2>2
    <3>3. b[j - (k - 1)] = s[k + (j - (k - 1))]
      BY <1>2, <3>2
    <3> QED
      BY <2>2, <3>1, <3>2, <3>3
  <2> QED
    BY <2>1, <2>2
<1> QED
  BY <1>3, <1>4, <1>5

\* An object that is listed once is not listed when it was removed, the
\* others are, and none moves back.
LEMMA RemovedOnce ==
    ASSUME NEW s \in Seq(Object), NEW o,
           \A m, n \in DOMAIN s : s[m] = s[n] => m = n
    PROVE  /\ RemoveFirst(s, o) \in Seq(Object)
           /\ ToSet(RemoveFirst(s, o)) = ToSet(s) \ {o}
           /\ \A m, n \in DOMAIN RemoveFirst(s, o) :
                 RemoveFirst(s, o)[m] = RemoveFirst(s, o)[n] => m = n
           /\ \A j \in DOMAIN RemoveFirst(s, o) :
                 \E m \in DOMAIN s : j =< m /\ s[m] = RemoveFirst(s, o)[j]
<1>1. CASE ~ \E n \in 1..Len(s) : s[n] = o
  <2>1. RemoveFirst(s, o) = s /\ o \notin ToSet(s)
    BY <1>1 DEF RemoveFirst, ToSet
  <2>2. \A j \in DOMAIN s : j =< j
    OBVIOUS
  <2> QED
    BY <2>1, <2>2
<1>2. CASE \E n \in 1..Len(s) : s[n] = o
  <2> DEFINE I == {n \in 1..Len(s) : s[n] = o}
             k == SelectInSeq(s, LAMBDA v : v = o)
             r == RemoveAt(s, k)
  <2>1. I # {} /\ I \subseteq Nat
    BY <1>2
  <2>2. \E m \in I : \A n \in I : m =< n
    BY <2>1, LeastIndex
  <2>3. k \in 1..Len(s) /\ s[k] = o
    BY <2>1, <2>2 DEF SelectInSeq, Min
  <2>4. RemoveFirst(s, o) = r
    BY <1>2 DEF RemoveFirst
  <2> HIDE DEF k
  <2>5. /\ r \in Seq(Object) /\ Len(r) = Len(s) - 1
        /\ \A j \in 1..(Len(s) - 1) : r[j] = IF j < k THEN s[j] ELSE s[j + 1]
    BY <2>3, Without
  <2> HIDE DEF r
  <2> DEFINE f(j) == IF j < k THEN j ELSE j + 1
  <2>6. DOMAIN r = 1..(Len(s) - 1) /\ DOMAIN s = 1..Len(s)
    BY <2>5
  <2>7. ASSUME NEW j \in DOMAIN r
        PROVE  f(j) \in DOMAIN s /\ j =< f(j) /\ f(j) # k /\ r[j] = s[f(j)]
    BY <2>3, <2>5, <2>6
  <2>8. ASSUME NEW m \in DOMAIN r, NEW n \in DOMAIN r, r[m] = r[n]
        PROVE  m = n
    <3>1. f(m) = f(n)
      BY <2>7, <2>8
    <3> QED
      BY <2>3, <2>6, <3>1
  <2>9. ASSUME NEW n \in DOMAIN s, s[n] # o
        PROVE  \E j \in DOMAIN r : r[j] = s[n]
    <3>1. n # k
      BY <2>3, <2>9
    <3>2. CASE n < k
      BY <2>3, <2>5, <2>6, <3>2
    <3>3. CASE n > k
      <4>1. n - 1 \in DOMAIN r /\ ~(n - 1 < k) /\ (n - 1) + 1 = n
        BY <2>3, <2>6, <3>3
      <4> QED
        BY <2>5, <2>6, <4>1
    <3> QED
      BY <2>3, <2>6, <3>1, <3>2, <3>3
  <2>10. ToSet(r) \subseteq ToSet(s) \ {o}
    <3> SUFFICES ASSUME NEW j \in DOMAIN r
                 PROVE  r[j] \in ToSet(s) \ {o}
      BY DEF ToSet
    <3> QED
      BY <2>3, <2>6, <2>7 DEF ToSet
  <2>11. ToSet(s) \ {o} \subseteq ToSet(r)
    BY <2>9 DEF ToSet
  <2> QED
    BY <2>4, <2>5, <2>7, <2>8, <2>10, <2>11
<1> QED
  BY <1>1, <1>2

-----------------------------------------------------------------------------
(* The list of registrations.                                              *)

\* The lists, and where the update is, stay as they are.
ListsStay == UNCHANGED <<lists, at, current>>

LEMMA StayListed ==
    ASSUME ListsStay
    PROVE  \A o \in Object : /\ Listed(o)' <=> Listed(o)
                             /\ o \in ToSet(ItemsRT)' <=> o \in ToSet(ItemsRT)
  BY DEF ListsStay, lists, Listed, InItems, InProcessed, ToSet

LEMMA HasLastWord ==
    ASSUME TypeOK, NEW o \in Object, Mentioned(o)
    PROVE  \E k \in DOMAIN Registration : LastWord(o, k)
<1> DEFINE I == {k \in 1..Len(Registration) : Registration[k].Object = o}
<1>1. Len(Registration) \in Nat /\ DOMAIN Registration = 1..Len(Registration)
  BY DEF TypeOK
<1>2. I # {} /\ I \subseteq 1..Len(Registration)
  BY <1>1 DEF Mentioned
<1>3. PICK k \in I : \A n \in I : n =< k
  BY <1>1, <1>2, GreatestIndex
<1> QED
  BY <1>1, <1>3 DEF LastWord

\* The last word on an object, if there is one, decides, and there is one only.
LEMMA Decides ==
    ASSUME TypeOK, NEW o \in Object, NEW k \in DOMAIN Registration, LastWord(o, k)
    PROVE  Registered(o) <=> Registration[k].OP
<1>1. ASSUME NEW n \in DOMAIN Registration, LastWord(o, n)
      PROVE  n = k
  BY <1>1 DEF LastWord, TypeOK
<1>2. Mentioned(o)
  BY DEF Mentioned, LastWord
<1> QED
  BY <1>1, <1>2 DEF Registered

\* A word is added at the end.
LEMMA Added ==
    ASSUME TypeOK, NEW w \in ItemReg, Registration' = Append(Registration, w)
    PROVE  LET len == Len(Registration)
           IN /\ Registration' \in Seq(ItemReg)
              /\ len \in Nat /\ DOMAIN Registration = 1..len /\ DOMAIN Registration' = 1..(len + 1)
              /\ \A n \in 1..len : Registration'[n] = Registration[n]
              /\ Registration'[len + 1] = w
              /\ \A o \in Object : Mentioned(o)' <=> Mentioned(o) \/ o = w.Object
              /\ \A o \in Object, n \in 1..(len + 1) :
                    LastWord(o, n)' <=> IF o = w.Object THEN n = len + 1
                                        ELSE n \in 1..len /\ LastWord(o, n)
<1> DEFINE len == Len(Registration)
<1>1. /\ Registration' \in Seq(ItemReg)
      /\ len \in Nat /\ DOMAIN Registration = 1..len /\ DOMAIN Registration' = 1..(len + 1)
      /\ \A n \in 1..len : Registration'[n] = Registration[n]
      /\ Registration'[len + 1] = w
  BY DEF TypeOK
<1>2. \A n \in 1..(len + 1) : n \in 1..len \/ n = len + 1
  BY <1>1
<1>3. \A o \in Object : Mentioned(o)' <=> Mentioned(o) \/ o = w.Object
  BY <1>1, <1>2 DEF Mentioned
<1>4. ASSUME NEW o \in Object, NEW n \in 1..(len + 1)
      PROVE  LastWord(o, n)' <=> IF o = w.Object THEN n = len + 1
                                 ELSE n \in 1..len /\ LastWord(o, n)
  <2>1. CASE o = w.Object
    BY <1>1, <1>2, <2>1 DEF LastWord
  <2>2. CASE o # w.Object
    BY <1>1, <1>2, <2>2 DEF LastWord
  <2> QED
    BY <2>1, <2>2
<1> QED
  BY <1>1, <1>3, <1>4

\* Register and a deferred Unregister: what the invariant says of the list, and
\* who is registered then.
LEMMA Appends ==
    ASSUME TypeOK, WordsAlternate, FlagTells,
           NEW w \in ItemReg, Registration' = Append(Registration, w), ListsStay,
           b_RT' \in [Object -> BOOLEAN],
           \A o \in Object \ {w.Object} :
              b_RT'[o] = b_RT[o] /\ (o \in alive => o \in alive'),
           w.OP => ~Registered(w.Object) /\ w.Object \in alive' /\ b_RT'[w.Object] = w.RT,
           ~w.OP => b_RT[w.Object] = w.RT
    PROVE  /\ WordsAlternate' /\ FlagTells'
           /\ \A o \in Object : Registered(o)' <=> IF o = w.Object THEN w.OP ELSE Registered(o)
<1> DEFINE len == Len(Registration)
<1>1. /\ Registration' \in Seq(ItemReg)
      /\ len \in Nat /\ DOMAIN Registration = 1..len /\ DOMAIN Registration' = 1..(len + 1)
      /\ \A n \in 1..len : Registration'[n] = Registration[n]
      /\ Registration'[len + 1] = w
  BY Added
<1>2. /\ \A o \in Object : Mentioned(o)' <=> Mentioned(o) \/ o = w.Object
      /\ \A o \in Object, n \in 1..(len + 1) :
            LastWord(o, n)' <=> IF o = w.Object THEN n = len + 1
                                ELSE n \in 1..len /\ LastWord(o, n)
  BY Added
<1>3. \A o \in Object : /\ Listed(o)' <=> Listed(o)
                        /\ o \in ToSet(ItemsRT)' <=> o \in ToSet(ItemsRT)
  BY StayListed
<1>4. w.Object \in Object /\ w.OP \in BOOLEAN /\ w.RT \in BOOLEAN
  BY DEF ItemReg
<1> HIDE DEF len
<1>5. ASSUME NEW m \in DOMAIN Registration', NEW n \in DOMAIN Registration',
             m < n, Registration'[m].OP, Registration'[n].OP,
             Registration'[m].Object = Registration'[n].Object
      PROVE  \E k \in (m + 1)..(n - 1) :
                ~Registration'[k].OP /\ Registration'[k].Object = Registration'[m].Object
  <2>1. m \in 1..len
    BY <1>1, <1>5
  <2>2. CASE n \in 1..len
    <3>1. PICK k \in (m + 1)..(n - 1) :
             ~Registration[k].OP /\ Registration[k].Object = Registration[m].Object
      BY <1>1, <1>5, <2>1, <2>2 DEF WordsAlternate
    <3> QED
      BY <1>1, <2>1, <2>2, <3>1
  <2>3. CASE n = len + 1
    <3>1. Registration[m].Object = w.Object /\ Registration[m].OP
      BY <1>1, <1>5, <2>1, <2>3
    <3>2. Mentioned(w.Object)
      BY <1>1, <2>1, <3>1 DEF Mentioned
    <3>3. PICK k \in 1..len : LastWord(w.Object, k)
      BY <1>1, <1>4, <3>2, HasLastWord
    <3>4. ~Registration[k].OP
      BY <1>1, <1>4, <1>5, <2>3, <3>3, Decides
    <3>5. m =< k /\ m # k
      BY <1>1, <2>1, <3>1, <3>3, <3>4 DEF LastWord
    <3> QED
      BY <1>1, <2>1, <2>3, <3>1, <3>3, <3>4, <3>5 DEF LastWord
  <2> QED
    BY <1>1, <2>2, <2>3
<1>6. ASSUME NEW o \in Object, NEW k \in DOMAIN Registration', FirstWord(o, k)', Listed(o)'
      PROVE  ~Registration'[k].OP /\ (Registration'[k].RT <=> o \in ToSet(ItemsRT)')
  <2>1. CASE k \in 1..len
    <3>1. FirstWord(o, k)
      BY <1>1, <1>6, <2>1 DEF FirstWord
    <3> QED
      BY <1>1, <1>3, <1>6, <2>1, <3>1 DEF WordsAlternate
  <2>2. CASE k = len + 1
    <3>1. o = w.Object
      BY <1>1, <1>6, <2>2 DEF FirstWord
    <3>2. ~Mentioned(o)
      BY <1>1, <1>6, <2>2 DEF FirstWord, Mentioned
    <3>3. Registered(o) /\ (b_RT[o] <=> o \in ToSet(ItemsRT))
      BY <1>3, <1>6, <3>2 DEF Registered, FlagTells
    <3> QED
      BY <1>1, <1>3, <2>2, <3>1, <3>3
  <2> QED
    BY <1>1, <2>1, <2>2
<1>7. ASSUME NEW o \in Object, Listed(o)', ~Mentioned(o)'
      PROVE  o \in alive' /\ (b_RT'[o] <=> o \in ToSet(ItemsRT)')
  BY <1>2, <1>3, <1>7 DEF FlagTells
<1>8. ASSUME NEW o \in Object, NEW k \in DOMAIN Registration',
             LastWord(o, k)', Registration'[k].OP
      PROVE  o \in alive' /\ b_RT'[o] = Registration'[k].RT
  <2>1. CASE o = w.Object
    BY <1>1, <1>2, <1>8, <2>1
  <2>2. CASE o # w.Object
    BY <1>1, <1>2, <1>8, <2>2 DEF FlagTells
  <2> QED
    BY <2>1, <2>2
<1>9. ASSUME NEW o \in Object
      PROVE  Registered(o)' <=> IF o = w.Object THEN w.OP ELSE Registered(o)
  <2>1. CASE o = w.Object
    BY <1>1, <1>2, <2>1 DEF Registered
  <2>2. CASE o # w.Object
    BY <1>1, <1>2, <1>3, <2>2 DEF Registered
  <2> QED
    BY <2>1, <2>2
<1>10. WordsAlternate'
  BY <1>5, <1>6 DEF WordsAlternate
<1>11. FlagTells'
  BY <1>7, <1>8 DEF FlagTells
<1> QED
  BY <1>9, <1>10, <1>11

\* The list stays as it is.
LEMMA Stays ==
    ASSUME WordsAlternate, FlagTells, Registration' = Registration,
           \A o \in Object :
              Listed(o)' => Listed(o) /\ (o \in ToSet(ItemsRT)' <=> o \in ToSet(ItemsRT)),
           \A o \in alive :
              (o \in alive' /\ b_RT'[o] = b_RT[o]) \/ (~Mentioned(o) /\ ~Listed(o)')
    PROVE  /\ WordsAlternate' /\ FlagTells'
           /\ \A o \in Object :
                 Registered(o)' <=> IF Mentioned(o) THEN Registered(o) ELSE Listed(o)'
<1>1. \A o \in Object : Mentioned(o)' <=> Mentioned(o)
  BY DEF Mentioned
<1>2. \A o \in Object, k \in DOMAIN Registration :
         /\ LastWord(o, k)' <=> LastWord(o, k)
         /\ FirstWord(o, k)' <=> FirstWord(o, k)
  BY DEF LastWord, FirstWord
<1>3. WordsAlternate'
  BY <1>2 DEF WordsAlternate
<1>4. ASSUME NEW o \in Object, Listed(o)', ~Mentioned(o)'
      PROVE  o \in alive' /\ (b_RT'[o] <=> o \in ToSet(ItemsRT)')
  BY <1>1, <1>4 DEF FlagTells
<1>5. ASSUME NEW o \in Object, NEW k \in DOMAIN Registration',
             LastWord(o, k)', Registration'[k].OP
      PROVE  o \in alive' /\ b_RT'[o] = Registration'[k].RT
  <2>1. LastWord(o, k) /\ Registration[k].OP /\ Mentioned(o)
    BY <1>2, <1>5 DEF LastWord, Mentioned
  <2> QED
    BY <1>5, <2>1 DEF FlagTells
<1>6. FlagTells'
  BY <1>4, <1>5 DEF FlagTells
<1>7. \A o \in Object : Registered(o)' <=> IF Mentioned(o) THEN Registered(o) ELSE Listed(o)'
  BY <1>1, <1>2 DEF Registered
<1> QED
  BY <1>3, <1>6, <1>7

\* f tells where the words that stay were.
Kept(f) ==
    /\ f \in [DOMAIN Registration' -> DOMAIN Registration]
    /\ \A m, n \in DOMAIN Registration' : m < n => f[m] < f[n]
    /\ \A n \in DOMAIN Registration' : Registration'[n] = Registration[f[n]]

\* The words that go are on h, and before those that stay on h.
Gone(f, h) ==
    \A k \in DOMAIN Registration :
       \/ \E n \in DOMAIN Registration' : f[n] = k
       \/ /\ Registration[k].Object = h
          /\ \A n \in DOMAIN Registration' : Registration'[n].Object = h => k < f[n]

OthersStay(h) ==
    \A o \in Object \ {h} : /\ Listed(o)' <=> Listed(o)
                            /\ o \in ToSet(ItemsRT)' <=> o \in ToSet(ItemsRT)

\* If h is listed now, nothing else is said of it, and its flag is right.
Settled(h) ==
    /\ Listed(h)' => ~Mentioned(h)' /\ h \in alive /\ (b_RT[h] <=> h \in ToSet(ItemsRT)')
    /\ ~Mentioned(h)' => (Listed(h)' <=> Registered(h))

LEMMA Thins ==
    ASSUME TypeOK, TypeOK', WordsAlternate, FlagTells, b_RT' = b_RT, alive' = alive,
           NEW h \in Object, NEW f, Kept(f), Gone(f, h), OthersStay(h), Settled(h)
    PROVE  /\ WordsAlternate' /\ FlagTells'
           /\ \A o \in Object : Registered(o)' <=> Registered(o)
<1> USE DEF Kept, Gone, OthersStay, Settled
<1> DEFINE D == DOMAIN Registration
           E == DOMAIN Registration'
<1>1. D \subseteq Nat /\ E \subseteq Nat /\ \A n \in E : f[n] \in D
  BY DEF TypeOK
<1>2. \A m, n \in E : m < n <=> f[m] < f[n]
  BY <1>1
<1>3. \A m, n \in E : m =< n <=> f[m] =< f[n]
  BY <1>1, <1>2
<1>4. ASSUME NEW n \in E, NEW k \in D, f[n] < k, Registration[k].Object = Registration[f[n]].Object
      PROVE  \E j \in E : f[j] = k
  <2> SUFFICES ASSUME ~ \E j \in E : f[j] = k
               PROVE  FALSE
    OBVIOUS
  <2>1. Registration'[n].Object = h
    BY <1>4
  <2>2. k < f[n]
    BY <2>1
  <2> QED
    BY <1>1, <1>4, <2>2
<1>5. ASSUME NEW m \in E, NEW n \in E,
             m < n, Registration'[m].OP, Registration'[n].OP,
             Registration'[m].Object = Registration'[n].Object
      PROVE  \E k \in (m + 1)..(n - 1) :
                ~Registration'[k].OP /\ Registration'[k].Object = Registration'[m].Object
  <2>1. f[m] < f[n] /\ f[m] \in D /\ f[n] \in D
    BY <1>1, <1>5
  <2>2. PICK k \in (f[m] + 1)..(f[n] - 1) :
           ~Registration[k].OP /\ Registration[k].Object = Registration[f[m]].Object
    BY <1>5, <2>1 DEF WordsAlternate
  <2>3. k \in D /\ f[m] < k /\ k < f[n]
    BY <1>1, <2>1, <2>2 DEF TypeOK
  <2>4. PICK j \in E : f[j] = k
    BY <1>4, <2>2, <2>3
  <2>5. m < j /\ j < n
    BY <1>2, <2>3, <2>4
  <2> QED
    BY <1>1, <2>2, <2>4, <2>5
<1>6. ASSUME NEW o \in Object, NEW n \in E
      PROVE  LastWord(o, n)' <=> LastWord(o, f[n])
  <2>1. ASSUME LastWord(o, n)'
        PROVE  LastWord(o, f[n])
    <3> SUFFICES ASSUME NEW k \in D, Registration[k].Object = o, f[n] < k
                 PROVE  FALSE
      BY <1>1, <2>1 DEF LastWord
    <3>1. PICK j \in E : f[j] = k
      BY <1>4, <2>1 DEF LastWord
    <3>2. j =< n
      BY <2>1, <3>1 DEF LastWord
    <3> QED
      BY <1>1, <1>3, <3>1, <3>2
  <2>2. ASSUME LastWord(o, f[n])
        PROVE  LastWord(o, n)'
    BY <1>1, <1>3, <2>2 DEF LastWord
  <2> QED
    BY <2>1, <2>2
<1>7. \A o \in Object \ {h} : Mentioned(o)' <=> Mentioned(o)
  BY <1>1 DEF Mentioned
<1>8. ASSUME NEW o \in Object, Mentioned(o)'
      PROVE  Registered(o)' <=> Registered(o)
  <2>1. PICK m \in E : Registration[f[m]].Object = o
    BY <1>8 DEF Mentioned
  <2>2. Mentioned(o)
    BY <1>1, <2>1 DEF Mentioned
  <2>3. PICK k \in D : LastWord(o, k)
    BY <2>2, HasLastWord
  <2>4. f[m] =< k
    BY <1>1, <2>1, <2>3 DEF LastWord
  <2>5. PICK n \in E : f[n] = k
    BY <1>1, <1>4, <2>1, <2>3, <2>4 DEF LastWord
  <2>6. LastWord(o, n)'
    BY <1>6, <2>3, <2>5
  <2>7. Registered(o)' <=> Registration'[n].OP
    <3>1. \A j \in E : LastWord(o, j)' => j = n
      BY <1>1, <2>6 DEF LastWord
    <3> QED
      BY <1>8, <2>6, <3>1 DEF Registered
  <2>8. Registered(o) <=> Registration[k].OP
    BY <2>3, Decides
  <2> QED
    BY <2>5, <2>7, <2>8
<1>9. ASSUME NEW o \in Object, NEW n \in E, FirstWord(o, n)', Listed(o)'
      PROVE  ~Registration'[n].OP /\ (Registration'[n].RT <=> o \in ToSet(ItemsRT)')
  <2>1. o # h
    BY <1>9 DEF FirstWord, Mentioned
  <2>2. FirstWord(o, f[n])
    <3> SUFFICES ASSUME NEW k \in D, Registration[k].Object = o
                 PROVE  f[n] =< k
      BY <1>9 DEF FirstWord
    <3>1. PICK j \in E : f[j] = k
      BY <2>1
    <3> QED
      BY <1>3, <1>9, <3>1 DEF FirstWord
  <2> QED
    BY <1>1, <1>9, <2>1, <2>2 DEF WordsAlternate
<1>10. WordsAlternate'
  BY <1>5, <1>9 DEF WordsAlternate
<1>11. ASSUME NEW o \in Object, Listed(o)', ~Mentioned(o)'
       PROVE  o \in alive' /\ (b_RT'[o] <=> o \in ToSet(ItemsRT)')
  BY <1>7, <1>11 DEF FlagTells
<1>12. ASSUME NEW o \in Object, NEW n \in E, LastWord(o, n)', Registration'[n].OP
       PROVE  o \in alive' /\ b_RT'[o] = Registration'[n].RT
  BY <1>1, <1>6, <1>12 DEF FlagTells
<1>13. FlagTells'
  BY <1>11, <1>12 DEF FlagTells
<1>14. ASSUME NEW o \in Object, ~Mentioned(o)'
       PROVE  Registered(o)' <=> Registered(o)
  <2>1. CASE o = h
    BY <1>14, <2>1 DEF Registered
  <2>2. CASE o # h
    BY <1>7, <1>14, <2>2 DEF Registered
  <2> QED
    BY <2>1, <2>2
<1> QED
  BY <1>8, <1>10, <1>13, <1>14

-----------------------------------------------------------------------------
(* Registering and unregistering.                                          *)

\* An object that is removed from the list it is in is in none then.
LEMMA Unlisted ==
    ASSUME TypeOK, ListedOnce, NEW o \in Object, NEW rt \in BOOLEAN,
           Listed(o) => Within(o, rt),
           Unlist(o, rt), at' = at, current' = current
    PROVE  /\ ItemsRT' \in Seq(Object) /\ Items' \subseteq Items /\ ItemsProcessed' = ItemsProcessed
           /\ ListedOnce'
           /\ \A p \in Object : Listed(p)' <=> p # o /\ Listed(p)
           /\ \A p \in Object \ {o} : p \in ToSet(ItemsRT)' <=> p \in ToSet(ItemsRT)
           /\ \A j \in DOMAIN ItemsRT' : \E m \in DOMAIN ItemsRT : j =< m /\ ItemsRT[m] = ItemsRT'[j]
<1>1. \A m, n \in DOMAIN ItemsRT : ItemsRT[m] = ItemsRT[n] => m = n
  BY DEF ListedOnce
<1>2. ItemsRT \in Seq(Object)
  BY DEF TypeOK
<1>3. Items' \subseteq Items /\ ItemsProcessed' = ItemsProcessed
  BY DEF Unlist
<1>4. /\ ItemsRT' \in Seq(Object)
      /\ ToSet(ItemsRT)' = IF rt THEN ToSet(ItemsRT) \ {o} ELSE ToSet(ItemsRT)
      /\ \A m, n \in DOMAIN ItemsRT' : ItemsRT'[m] = ItemsRT'[n] => m = n
      /\ \A j \in DOMAIN ItemsRT' : \E m \in DOMAIN ItemsRT : j =< m /\ ItemsRT[m] = ItemsRT'[j]
  <2>1. CASE rt
    <3>1. ItemsRT' = RemoveFirst(ItemsRT, o)
      BY <2>1 DEF Unlist
    <3>2. /\ RemoveFirst(ItemsRT, o) \in Seq(Object)
          /\ ToSet(RemoveFirst(ItemsRT, o)) = ToSet(ItemsRT) \ {o}
          /\ \A m, n \in DOMAIN RemoveFirst(ItemsRT, o) :
                RemoveFirst(ItemsRT, o)[m] = RemoveFirst(ItemsRT, o)[n] => m = n
          /\ \A j \in DOMAIN RemoveFirst(ItemsRT, o) :
                \E m \in DOMAIN ItemsRT : j =< m /\ ItemsRT[m] = RemoveFirst(ItemsRT, o)[j]
      BY <1>1, <1>2, RemovedOnce
    <3>3. ToSet(ItemsRT)' = ToSet(ItemsRT')
      BY DEF ToSet
    <3> QED
      BY <2>1, <3>1, <3>2, <3>3
  <2>2. CASE ~rt
    <3>1. ItemsRT' = ItemsRT
      BY <2>2 DEF Unlist
    <3>2. \A j \in DOMAIN ItemsRT : j =< j
      BY <1>2
    <3> QED
      BY <1>1, <1>2, <2>2, <3>1, <3>2 DEF ToSet
  <2> QED
    BY <2>1, <2>2
<1>5. \A p \in Object : InItems(p)' <=> IF rt THEN InItems(p) ELSE p # o /\ InItems(p)
  BY DEF InItems, Unlist
<1>6. \A p \in Object : InProcessed(p)' <=> InProcessed(p)
  BY <1>3 DEF InProcessed
<1>7. ListedOnce'
  BY <1>3, <1>4, <1>5, <1>6 DEF ListedOnce
<1>8. ~Listed(o)'
  BY <1>4, <1>5, <1>6 DEF Listed, ListedOnce, Within
<1>9. \A p \in Object \ {o} : Listed(p)' <=> Listed(p)
  BY <1>4, <1>5, <1>6 DEF Listed
<1> QED
  BY <1>3, <1>4, <1>7, <1>8, <1>9

\* Unregister and the destructor: the object is not registered afterwards.
LEMMA TakesOut ==
    ASSUME IInv, NEW o \in Object, TakeOut(o), Called,
           UNCHANGED <<b_RT, place, visited>>,
           alive' = alive \/ alive' = alive \ {o}
    PROVE  /\ IInv'
           /\ \A p \in Object : Registered(p)' <=> p # o /\ Registered(p)
<1> USE DEF IInv
<1>1. /\ alive' \subseteq Object /\ \A p \in Object \ {o} : p \in alive => p \in alive'
      /\ b_RT' = b_RT /\ b_RT[o] \in BOOLEAN
      /\ UNCHANGED <<at, it, i, current, visited>>
  BY DEF TypeOK, place
<1>2. m_processing_now' <=> m_processing_now
  BY <1>1 DEF m_processing_now
<1>3. CASE m_processing_now /\ Within(o, b_RT[o])
  <2>1. Unlist(o, b_RT[o]) /\ Registration' = Registration
    BY <1>3 DEF TakeOut
  <2>2. /\ ItemsRT' \in Seq(Object) /\ Items' \subseteq Items /\ ItemsProcessed' = ItemsProcessed
        /\ ListedOnce'
        /\ \A p \in Object : Listed(p)' <=> p # o /\ Listed(p)
        /\ \A p \in Object \ {o} : p \in ToSet(ItemsRT)' <=> p \in ToSet(ItemsRT)
        /\ \A j \in DOMAIN ItemsRT' : \E m \in DOMAIN ItemsRT : j =< m /\ ItemsRT[m] = ItemsRT'[j]
    BY <1>1, <1>3, <2>1, Unlisted
  <2>3. ~Mentioned(o)
    BY <1>3 DEF YetToVisit, Within
  <2>4. TypeOK'
    BY <1>1, <2>1, <2>2 DEF TypeOK
  <2>5. /\ WordsAlternate' /\ FlagTells'
        /\ \A p \in Object :
              Registered(p)' <=> IF Mentioned(p) THEN Registered(p) ELSE Listed(p)'
    <3>1. \A p \in alive :
             (p \in alive' /\ b_RT'[p] = b_RT[p]) \/ (~Mentioned(p) /\ ~Listed(p)')
      BY <1>1, <2>2, <2>3 DEF TypeOK
    <3>2. \A p \in Object :
             Listed(p)' => Listed(p) /\ (p \in ToSet(ItemsRT)' <=> p \in ToSet(ItemsRT))
      BY <2>2
    <3> QED
      BY <2>1, <3>1, <3>2, Stays
  <2>6. YetToVisit'
    <3>1. \A p \in Object : p \in ToSet(ItemsRT)' \/ InItems(p)' =>
             p \in ToSet(ItemsRT) \/ InItems(p)
      BY <2>2 DEF InItems, ToSet
    <3>2. \A p \in Object : Mentioned(p)' <=> Mentioned(p)
      BY <2>1 DEF Mentioned
    <3>3. m_processing_now' =>
             \A p \in Object : p \in ToSet(ItemsRT)' \/ InItems(p)' => ~Mentioned(p)'
      BY <1>2, <3>1, <3>2 DEF YetToVisit
    <3>4. m_processing_now' => \A t \in Items' : t.Object \notin visited'
      BY <1>1, <1>2, <2>2 DEF YetToVisit
    <3>5. at' = "rt" => \A n \in DOMAIN ItemsRT' : n >= it' => ItemsRT'[n] \notin visited'
      BY <1>1 DEF Called
    <3>6. at' = "rtUpdate" => \A n \in DOMAIN ItemsRT' : n > it' => ItemsRT'[n] \notin visited'
      <4> SUFFICES ASSUME at = "rtUpdate", NEW n \in DOMAIN ItemsRT', n > it
                   PROVE  ItemsRT'[n] \notin visited
        BY <1>1
      <4>1. PICK m \in DOMAIN ItemsRT : n =< m /\ ItemsRT[m] = ItemsRT'[n]
        BY <2>2
      <4>2. m > it
        BY <2>2, <4>1 DEF TypeOK
      <4> QED
        BY <4>1, <4>2 DEF YetToVisit
    <3> QED
      BY <3>3, <3>4, <3>5, <3>6 DEF YetToVisit
  <2>7. CurrentRight'
    BY <1>1, <2>2 DEF CurrentRight
  <2>8. \A p \in Object : Registered(p)' <=> p # o /\ Registered(p)
    BY <2>2, <2>3, <2>5 DEF Registered
  <2> QED
    BY <2>2, <2>4, <2>5, <2>6, <2>7, <2>8
<1>4. CASE ~(m_processing_now /\ Within(o, b_RT[o]))
  <2> DEFINE w == Reg(FALSE, b_RT[o], o)
  <2>1. Registration' = Append(Registration, w) /\ UNCHANGED lists
    BY <1>4 DEF TakeOut, Defer
  <2>2. w \in ItemReg /\ ~w.OP /\ w.RT = b_RT[o] /\ w.Object = o
    BY <1>1 DEF Reg, ItemReg
  <2>3. ListsStay
    BY <1>1, <2>1 DEF ListsStay
  <2> HIDE DEF w
  <2>4. /\ WordsAlternate' /\ FlagTells'
        /\ \A p \in Object : Registered(p)' <=> IF p = o THEN w.OP ELSE Registered(p)
    <3>1. b_RT' \in [Object -> BOOLEAN]
      BY <1>1 DEF TypeOK
    <3>2. \A p \in Object \ {w.Object} : b_RT'[p] = b_RT[p] /\ (p \in alive => p \in alive')
      BY <1>1, <2>2
    <3> QED
      BY <2>1, <2>2, <2>3, <3>1, <3>2, Appends
  <2>5. TypeOK'
    BY <1>1, <2>1, <2>2 DEF TypeOK, lists
  <2>6. ListedOnce'
    BY <1>1, <2>1 DEF ListedOnce, lists, InItems, InProcessed, ToSet
  <2>7. YetToVisit'
    <3>1. \A p \in Object : /\ p \in ToSet(ItemsRT)' <=> p \in ToSet(ItemsRT)
                            /\ InItems(p)' <=> InItems(p)
      BY <2>1 DEF lists, InItems, ToSet
    <3>2. \A p \in Object : Mentioned(p)' <=> Mentioned(p) \/ p = o
      BY <2>1, <2>2, Added
    <3>3. ASSUME m_processing_now, o \in ToSet(ItemsRT) \/ InItems(o)
          PROVE  FALSE
      <4>1. ~Mentioned(o) /\ Listed(o)
        BY <3>3 DEF YetToVisit, Listed
      <4>2. b_RT[o] <=> o \in ToSet(ItemsRT)
        BY <4>1 DEF FlagTells
      <4> QED
        BY <1>4, <3>3, <4>2 DEF Within
    <3>4. m_processing_now' =>
             \A p \in Object : p \in ToSet(ItemsRT)' \/ InItems(p)' => ~Mentioned(p)'
      BY <1>2, <3>1, <3>2, <3>3 DEF YetToVisit
    <3>5. ItemsRT' = ItemsRT /\ Items' = Items
      BY <2>1 DEF lists
    <3> QED
      BY <1>1, <1>2, <3>4, <3>5 DEF YetToVisit
  <2>8. CurrentRight'
    BY <1>1, <2>1 DEF CurrentRight, lists
  <2> QED
    BY <2>2, <2>4, <2>5, <2>6, <2>7, <2>8
<1> QED
  BY <1>3, <1>4

LEMMA Registers ==
    ASSUME IInv, NEW o \in Object, NEW rt \in BOOLEAN, Register(o, rt)
    PROVE  /\ IInv'
           /\ \A p \in Object : Registered(p)' <=> p = o \/ Registered(p)
<1> USE DEF IInv
<1> DEFINE w == Reg(TRUE, rt, o)
<1>1. /\ o \in alive /\ ~Registered(o) /\ alive' = alive
      /\ b_RT' = [b_RT EXCEPT ![o] = rt]
      /\ Registration' = Append(Registration, w)
      /\ UNCHANGED <<ItemsRT, Items, ItemsProcessed, at, it, i, current, visited>>
  BY DEF Register, lists, place
<1>2. w \in ItemReg /\ w.OP /\ w.RT = rt /\ w.Object = o
  BY DEF Reg, ItemReg
<1> HIDE DEF w
<1>3. b_RT' \in [Object -> BOOLEAN] /\ b_RT'[o] = rt /\ \A p \in Object \ {o} : b_RT'[p] = b_RT[p]
  BY <1>1 DEF TypeOK
<1>4. /\ WordsAlternate' /\ FlagTells'
      /\ \A p \in Object : Registered(p)' <=> IF p = o THEN w.OP ELSE Registered(p)
  <2>1. ListsStay
    BY <1>1 DEF ListsStay, lists
  <2> QED
    BY <1>1, <1>2, <1>3, <2>1, Appends
<1>5. TypeOK'
  BY <1>1, <1>2, <1>3 DEF TypeOK
<1>6. ListedOnce'
  BY <1>1 DEF ListedOnce, InItems, InProcessed, ToSet
<1>7. YetToVisit'
  <2>1. \A p \in Object : /\ p \in ToSet(ItemsRT)' <=> p \in ToSet(ItemsRT)
                          /\ InItems(p)' <=> InItems(p)
    BY <1>1 DEF InItems, ToSet
  <2>2. \A p \in Object : Mentioned(p)' <=> Mentioned(p) \/ p = o
    BY <1>1, <1>2, Added
  <2>3. m_processing_now => ~(o \in ToSet(ItemsRT) \/ InItems(o))
    BY <1>1 DEF YetToVisit, Registered, Listed
  <2>4. m_processing_now' <=> m_processing_now
    BY <1>1 DEF m_processing_now
  <2>5. m_processing_now' =>
           \A p \in Object : p \in ToSet(ItemsRT)' \/ InItems(p)' => ~Mentioned(p)'
    BY <2>1, <2>2, <2>3, <2>4 DEF YetToVisit
  <2> QED
    BY <1>1, <2>4, <2>5 DEF YetToVisit
<1>8. CurrentRight'
  BY <1>1 DEF CurrentRight
<1> QED
  BY <1>2, <1>4, <1>5, <1>6, <1>7, <1>8

LEMMA Constructs ==
    ASSUME IInv, NEW o \in Object, Construct(o)
    PROVE  /\ IInv'
           /\ \A p \in Object : Registered(p)' <=> Registered(p)
<1> USE DEF IInv
<1>1. /\ o \notin alive /\ alive' = alive \cup {o} /\ Registration' = Registration
      /\ UNCHANGED <<ItemsRT, Items, ItemsProcessed, at, it, i, current, visited>>
  BY DEF Construct, lists, place
<1>2. b_RT' \in [Object -> BOOLEAN] /\ \A p \in Object \ {o} : b_RT'[p] = b_RT[p]
  BY DEF Construct, TypeOK
<1>3. \A p \in Object : /\ Listed(p)' <=> Listed(p)
                        /\ p \in ToSet(ItemsRT)' <=> p \in ToSet(ItemsRT)
                        /\ Mentioned(p)' <=> Mentioned(p)
                        /\ InItems(p)' <=> InItems(p)
                        /\ InProcessed(p)' <=> InProcessed(p)
  BY <1>1 DEF Listed, InItems, InProcessed, ToSet, Mentioned
<1>4. /\ WordsAlternate' /\ FlagTells'
      /\ \A p \in Object :
            Registered(p)' <=> IF Mentioned(p) THEN Registered(p) ELSE Listed(p)'
  <2>1. \A p \in alive : p \in alive' /\ b_RT'[p] = b_RT[p]
    BY <1>1, <1>2 DEF TypeOK
  <2> QED
    BY <1>1, <1>3, <2>1, Stays
<1>5. TypeOK'
  BY <1>1, <1>2 DEF TypeOK
<1>6. ListedOnce'
  BY <1>1, <1>3 DEF ListedOnce
<1>7. YetToVisit'
  BY <1>1, <1>3 DEF YetToVisit, m_processing_now
<1>8. CurrentRight'
  BY <1>1 DEF CurrentRight
<1> QED
  BY <1>3, <1>4, <1>5, <1>6, <1>7, <1>8 DEF Registered

-----------------------------------------------------------------------------
(* internal_Registration: nobody becomes registered, or stops to be, when  *)
(* the list is worked off.                                                 *)

LEMMA Headed ==
    ASSUME TypeOK, Registration # <<>>
    PROVE  /\ Registration \in Seq(ItemReg) /\ Len(Registration) \in Nat /\ Len(Registration) > 0
           /\ DOMAIN Registration = 1..Len(Registration)
           /\ Registration[1] \in ItemReg /\ Head(Registration) = Registration[1]
           /\ Registration[1].Object \in Object
           /\ Registration[1].OP \in BOOLEAN /\ Registration[1].RT \in BOOLEAN
<1>1. /\ Registration \in Seq(ItemReg) /\ Len(Registration) \in Nat /\ Len(Registration) > 0
      /\ DOMAIN Registration = 1..Len(Registration)
      /\ Head(Registration) = Registration[1]
  BY DEF TypeOK
<1>2. Registration[1] \in ItemReg
  BY <1>1
<1> QED
  BY <1>1, <1>2 DEF ItemReg

\* If what the head registers is registered again, it is unregistered before.
LEMMA Between ==
    ASSUME TypeOK, WordsAlternate, NEW h, NEW n \in DOMAIN Registration, n # 1,
           Registration[1].OP, Registration[1].Object = h,
           Registration[n].OP, Registration[n].Object = h
    PROVE  \E k \in 2..(n - 1) : ~Registration[k].OP /\ Registration[k].Object = h
<1>1. DOMAIN Registration = 1..Len(Registration) /\ Len(Registration) \in Nat
  BY DEF TypeOK
<1>2. 1 \in DOMAIN Registration /\ 1 < n /\ n \in Nat
  BY <1>1
<1>3. \E k \in (1 + 1)..(n - 1) :
         ~Registration[k].OP /\ Registration[k].Object = Registration[1].Object
  BY <1>2 DEF WordsAlternate
<1> QED
  BY <1>3

LEMMA SkipsPair ==
    ASSUME IInv, SkipPair
    PROVE  /\ IInv'
           /\ \A p \in Object : Registered(p)' <=> Registered(p)
<1> USE DEF IInv
<1> DEFINE len == Len(Registration)
<1>1. /\ Registration # <<>> /\ Head(Registration).OP /\ at \in {"before", "after"}
      /\ UNCHANGED <<alive, b_RT, ItemsRT, Items, ItemsProcessed, at, it, i, current, visited>>
  BY DEF SkipPair, Registering, lists, place
<1>2. PICK k \in 2..len : IsPair(k) /\ Registration' = Tail(RemoveAt(Registration, k))
  BY DEF SkipPair, Pairs
<1>3. /\ len \in Nat /\ len > 0 /\ Registration \in Seq(ItemReg) /\ DOMAIN Registration = 1..len
      /\ Head(Registration) = Registration[1] /\ Registration[1].Object \in Object
  BY <1>1, Headed
<1>4. PICK h \in Object : h = Registration[1].Object
  BY <1>3
<1>5. /\ ~Registration[k].OP /\ Registration[k].Object = h
      /\ \A n \in 2..(k - 1) : ~(~Registration[n].OP /\ Registration[n].Object = h)
  BY <1>2, <1>3, <1>4 DEF IsPair
<1> HIDE DEF len
<1> DEFINE r == RemoveAt(Registration, k)
<1>6. /\ r \in Seq(ItemReg) /\ Len(r) = len - 1
      /\ \A j \in 1..(len - 1) : r[j] = IF j < k THEN Registration[j] ELSE Registration[j + 1]
  <2>1. k \in 1..len
    BY <1>3
  <2> QED
    BY <1>3, <2>1, Without DEF len
<1> HIDE DEF r
<1>7. /\ Registration' \in Seq(ItemReg) /\ DOMAIN Registration' = 1..(len - 2)
      /\ \A n \in 1..(len - 2) : Registration'[n] = r[n + 1]
  BY <1>2, <1>3, <1>6 DEF r
<1> PICK f : f = [n \in 1..(len - 2) |-> IF n + 1 < k THEN n + 1 ELSE n + 2]
  OBVIOUS
<1>8. /\ f \in [DOMAIN Registration' -> DOMAIN Registration]
      /\ \A m, n \in DOMAIN Registration' : m < n => f[m] < f[n]
      /\ \A n \in DOMAIN Registration' : Registration'[n] = Registration[f[n]]
      /\ \A n \in DOMAIN Registration' : f[n] # 1 /\ f[n] # k
  <2>1. DOMAIN f = DOMAIN Registration' /\ DOMAIN Registration = 1..len /\ len \in Nat /\ k \in 2..len
    BY <1>3, <1>7
  <2>2. ASSUME NEW n \in 1..(len - 2)
        PROVE  /\ f[n] = IF n + 1 < k THEN n + 1 ELSE n + 2
               /\ f[n] \in 1..len /\ f[n] # 1 /\ f[n] # k
               /\ Registration'[n] = Registration[f[n]]
    <3>1. f[n] = IF n + 1 < k THEN n + 1 ELSE n + 2
      OBVIOUS
    <3>2. Registration'[n] = r[n + 1] /\ n + 1 \in 1..(len - 1)
      BY <1>7, <2>1
    <3>3. r[n + 1] = IF n + 1 < k THEN Registration[n + 1] ELSE Registration[n + 1 + 1]
      BY <1>6, <3>2
    <3>4. n + 1 + 1 = n + 2
      OBVIOUS
    <3> QED
      BY <2>1, <3>1, <3>2, <3>3, <3>4
  <2>3. \A m, n \in 1..(len - 2) : m < n => f[m] < f[n]
    BY <2>1, <2>2
  <2> QED
    BY <1>7, <2>1, <2>2, <2>3
\* Between the head and its pair there is no word on the object.
<1>9. ASSUME NEW n \in 2..(k - 1), Registration[n].Object = h
      PROVE  FALSE
  <2>1. Registration[n].OP
    BY <1>5, <1>9
  <2>2. PICK j \in 2..(n - 1) : ~Registration[j].OP /\ Registration[j].Object = h
    <3>1. n \in DOMAIN Registration /\ n # 1
      BY <1>3
    <3> QED
      BY <1>1, <1>3, <1>4, <1>9, <2>1, <3>1, Between
  <2> QED
    BY <1>3, <1>5, <2>2
<1>10. ASSUME NEW n \in DOMAIN Registration', Registration'[n].Object = h
       PROVE  k < f[n]
  <2>1. f[n] \in 1..len /\ f[n] # 1 /\ f[n] # k /\ Registration[f[n]].Object = h
    BY <1>3, <1>8, <1>10
  <2>2. f[n] \notin 2..(k - 1)
    BY <1>9, <2>1
  <2> QED
    BY <1>3, <2>1, <2>2
<1>11. ASSUME NEW n \in DOMAIN Registration, n # 1, n # k
       PROVE  \E j \in DOMAIN Registration' : f[j] = n
  <2>1. CASE n < k
    <3>1. n - 1 \in 1..(len - 2) /\ f[n - 1] = n
      BY <1>3, <1>11, <2>1
    <3> QED
      BY <1>7, <3>1
  <2>2. CASE n > k
    <3>1. n - 2 \in 1..(len - 2) /\ f[n - 2] = n
      BY <1>3, <1>11, <2>2
    <3> QED
      BY <1>7, <3>1
  <2> QED
    BY <1>3, <1>11, <2>1, <2>2
<1>12. FirstWord(h, 1)
  BY <1>3, <1>4 DEF FirstWord
<1>13. ~Listed(h)
  BY <1>1, <1>3, <1>4, <1>12 DEF WordsAlternate
<1>14. \A p \in Object : /\ Listed(p)' <=> Listed(p)
                         /\ p \in ToSet(ItemsRT)' <=> p \in ToSet(ItemsRT)
  BY <1>1 DEF Listed, InItems, InProcessed, ToSet
<1>15. TypeOK'
  BY <1>1, <1>7 DEF TypeOK
<1>16. ~Mentioned(h)' => (Listed(h)' <=> Registered(h))
  <2> SUFFICES ASSUME ~Mentioned(h)'
               PROVE  ~Registered(h)
    BY <1>4, <1>13, <1>14
  <2>1. LastWord(h, k)
    <3> SUFFICES ASSUME NEW n \in DOMAIN Registration, Registration[n].Object = h, n > k
                 PROVE  FALSE
      BY <1>3, <1>5 DEF LastWord
    <3>1. PICK j \in DOMAIN Registration' : f[j] = n
      BY <1>3, <1>11
    <3> QED
      BY <1>8, <3>1 DEF Mentioned
  <2> QED
    BY <1>3, <1>4, <1>5, <2>1, Decides
<1>17. \A n \in DOMAIN Registration :
          \/ \E j \in DOMAIN Registration' : f[j] = n
          \/ /\ Registration[n].Object = h
             /\ \A j \in DOMAIN Registration' : Registration'[j].Object = h => n < f[j]
  <2> TAKE n \in DOMAIN Registration
  <2>1. CASE n = 1
    <3>1. \A j \in DOMAIN Registration' : f[j] \in 1..len /\ f[j] # 1
      BY <1>3, <1>8
    <3> QED
      BY <1>4, <2>1, <3>1
  <2>2. CASE n = k
    BY <1>5, <1>10, <2>2
  <2> QED
    BY <1>11, <2>1, <2>2
<1>18. /\ WordsAlternate' /\ FlagTells'
       /\ \A p \in Object : Registered(p)' <=> Registered(p)
  <2>1. \A p \in Object \ {h} : /\ Listed(p)' <=> Listed(p)
                                /\ p \in ToSet(ItemsRT)' <=> p \in ToSet(ItemsRT)
    BY <1>14
  <2>2. Listed(h)' => ~Mentioned(h)' /\ h \in alive /\ (b_RT[h] <=> h \in ToSet(ItemsRT)')
    BY <1>13, <1>14
  <2>3. b_RT' = b_RT /\ alive' = alive
    BY <1>1
  <2>4. /\ f \in [DOMAIN Registration' -> DOMAIN Registration]
        /\ \A m, n \in DOMAIN Registration' : m < n => f[m] < f[n]
        /\ \A n \in DOMAIN Registration' : Registration'[n] = Registration[f[n]]
    BY <1>8
  <2>5. TypeOK /\ WordsAlternate /\ FlagTells
    OBVIOUS
  <2> HIDE DEF IInv
  <2>6. Kept(f) /\ Gone(f, h) /\ OthersStay(h) /\ Settled(h)
    BY <1>15, <1>16, <1>17, <2>1, <2>2, <2>3, <2>4 DEF Kept, Gone, OthersStay, Settled
  <2> QED
    BY <1>15, <2>1, <2>3, <2>5, <2>6, Thins
<1>19. ListedOnce'
  BY <1>1 DEF ListedOnce, InItems, InProcessed, ToSet
<1>20. YetToVisit' /\ CurrentRight'
  BY <1>1 DEF YetToVisit, CurrentRight, m_processing_now
<1> QED
  BY <1>15, <1>18, <1>19, <1>20

\* What the words that are left were before the head was taken.
LEMMA Beheaded ==
    ASSUME TypeOK, Registration # <<>>, Registration' = Tail(Registration),
           NEW f, f = [n \in 1..(Len(Registration) - 1) |-> n + 1]
    PROVE  /\ Registration[1] \in ItemReg /\ Head(Registration) = Registration[1]
           /\ 1 \in DOMAIN Registration
           /\ Registration' \in Seq(ItemReg)
           /\ f \in [DOMAIN Registration' -> DOMAIN Registration]
           /\ \A m, n \in DOMAIN Registration' : m < n => f[m] < f[n]
           /\ \A n \in DOMAIN Registration' : Registration'[n] = Registration[f[n]]
           /\ \A n \in DOMAIN Registration : n # 1 => n > 1 /\ \E j \in DOMAIN Registration' : f[j] = n
           /\ \A n \in DOMAIN Registration' : 1 < f[n]
           /\ FirstWord(Registration[1].Object, 1)
<1> DEFINE len == Len(Registration)
<1>1. /\ Registration \in Seq(ItemReg) /\ len \in Nat /\ len > 0
      /\ DOMAIN Registration = 1..len
  BY DEF TypeOK
<1>2. /\ Registration' \in Seq(ItemReg) /\ DOMAIN Registration' = 1..(len - 1)
      /\ \A n \in 1..(len - 1) : Registration'[n] = Registration[n + 1]
  BY <1>1
<1>3. Registration[1] \in ItemReg /\ Head(Registration) = Registration[1]
  BY <1>1
<1>4. ASSUME NEW n \in DOMAIN Registration, n # 1
      PROVE  n > 1 /\ \E j \in DOMAIN Registration' : f[j] = n
  <2>1. n - 1 \in 1..(len - 1) /\ f[n - 1] = n /\ n > 1
    BY <1>1, <1>4
  <2> QED
    BY <1>2, <2>1
<1>5. FirstWord(Registration[1].Object, 1)
  BY <1>1 DEF FirstWord
<1> QED
  BY <1>1, <1>2, <1>3, <1>4, <1>5

LEMMA DoesUnregister ==
    ASSUME IInv, DoUnregister
    PROVE  /\ IInv'
           /\ \A p \in Object : Registered(p)' <=> Registered(p)
<1> USE DEF IInv
<1>1. /\ Registration # <<>> /\ at \in {"before", "after"}
      /\ Registration' = Tail(Registration)
      /\ UNCHANGED <<alive, b_RT, at, it, i, current, visited>>
  BY DEF DoUnregister, Registering, place
<1> PICK h \in Object, rt \in BOOLEAN :
        h = Registration[1].Object /\ rt = Registration[1].RT
  BY <1>1, Headed
<1> PICK f : f = [n \in 1..(Len(Registration) - 1) |-> n + 1]
  OBVIOUS
<1>2. /\ Registration[1] \in ItemReg /\ Head(Registration) = Registration[1]
      /\ 1 \in DOMAIN Registration
      /\ Registration' \in Seq(ItemReg)
      /\ f \in [DOMAIN Registration' -> DOMAIN Registration]
      /\ \A m, n \in DOMAIN Registration' : m < n => f[m] < f[n]
      /\ \A n \in DOMAIN Registration' : Registration'[n] = Registration[f[n]]
      /\ \A n \in DOMAIN Registration : n # 1 => n > 1 /\ \E j \in DOMAIN Registration' : f[j] = n
      /\ \A n \in DOMAIN Registration' : 1 < f[n]
      /\ FirstWord(h, 1)
  BY <1>1, Beheaded
<1>3. ~Registration[1].OP /\ Unlist(h, rt) /\ h \in Object /\ rt \in BOOLEAN
  BY <1>2 DEF DoUnregister, ItemReg
<1>4. Listed(h) => Within(h, rt)
  <2> SUFFICES ASSUME Listed(h)
               PROVE  Within(h, rt)
    OBVIOUS
  <2>1. rt <=> h \in ToSet(ItemsRT)
    BY <1>2, <1>3 DEF WordsAlternate
  <2>2. ~InProcessed(h)
    BY <1>1 DEF CurrentRight, InProcessed
  <2> QED
    BY <1>1, <2>1, <2>2 DEF Listed, Within
<1>5. /\ ItemsRT' \in Seq(Object) /\ Items' \subseteq Items /\ ItemsProcessed' = ItemsProcessed
      /\ ListedOnce'
      /\ \A p \in Object : Listed(p)' <=> p # h /\ Listed(p)
      /\ \A p \in Object \ {h} : p \in ToSet(ItemsRT)' <=> p \in ToSet(ItemsRT)
  BY <1>1, <1>3, <1>4, Unlisted
<1>6. TypeOK'
  BY <1>1, <1>2, <1>5 DEF TypeOK
<1>7. ~Mentioned(h)' => (Listed(h)' <=> Registered(h))
  <2> SUFFICES ASSUME ~Mentioned(h)'
               PROVE  ~Registered(h)
    BY <1>3, <1>5
  <2>1. LastWord(h, 1)
    <3> SUFFICES ASSUME NEW n \in DOMAIN Registration, Registration[n].Object = h, n # 1
                 PROVE  FALSE
      BY <1>2 DEF LastWord, FirstWord
    <3>1. PICK j \in DOMAIN Registration' : f[j] = n
      BY <1>2
    <3> QED
      BY <1>2, <3>1 DEF Mentioned
  <2> QED
    BY <1>2, <1>3, <2>1, Decides
<1>8. \A n \in DOMAIN Registration :
         \/ \E j \in DOMAIN Registration' : f[j] = n
         \/ /\ Registration[n].Object = h
            /\ \A j \in DOMAIN Registration' : Registration'[j].Object = h => n < f[j]
  BY <1>2
<1>9. /\ WordsAlternate' /\ FlagTells'
      /\ \A p \in Object : Registered(p)' <=> Registered(p)
  <2>1. \A p \in Object \ {h} : /\ Listed(p)' <=> Listed(p)
                                /\ p \in ToSet(ItemsRT)' <=> p \in ToSet(ItemsRT)
    BY <1>5
  <2>2. Listed(h)' => ~Mentioned(h)' /\ h \in alive /\ (b_RT[h] <=> h \in ToSet(ItemsRT)')
    BY <1>5
  <2>3. b_RT' = b_RT /\ alive' = alive
    BY <1>1
  <2>4. /\ f \in [DOMAIN Registration' -> DOMAIN Registration]
        /\ \A m, n \in DOMAIN Registration' : m < n => f[m] < f[n]
        /\ \A n \in DOMAIN Registration' : Registration'[n] = Registration[f[n]]
    BY <1>2
  <2>5. TypeOK /\ WordsAlternate /\ FlagTells
    OBVIOUS
  <2> HIDE DEF IInv
  <2>6. Kept(f) /\ Gone(f, h) /\ OthersStay(h) /\ Settled(h)
    BY <1>6, <1>7, <1>8, <2>1, <2>2, <2>3, <2>4 DEF Kept, Gone, OthersStay, Settled
  <2> QED
    BY <1>6, <2>1, <2>3, <2>5, <2>6, Thins
<1>10. YetToVisit' /\ CurrentRight'
  BY <1>1, <1>5 DEF YetToVisit, CurrentRight, m_processing_now
<1> QED
  BY <1>5, <1>6, <1>9, <1>10

LEMMA DoesRegister ==
    ASSUME IInv, DoRegister
    PROVE  /\ IInv'
           /\ \A p \in Object : Registered(p)' <=> Registered(p)
<1> USE DEF IInv
<1>1. /\ Registration # <<>> /\ at \in {"before", "after"} /\ Pairs = {}
      /\ Registration' = Tail(Registration)
      /\ UNCHANGED <<alive, ItemsProcessed, at, it, i, current, visited>>
  BY DEF DoRegister, Registering, place
<1> PICK h \in Object, rt \in BOOLEAN :
        h = Registration[1].Object /\ rt = Registration[1].RT
  BY <1>1, Headed
<1> PICK f : f = [n \in 1..(Len(Registration) - 1) |-> n + 1]
  OBVIOUS
<1>2. /\ Registration[1] \in ItemReg /\ Head(Registration) = Registration[1]
      /\ 1 \in DOMAIN Registration
      /\ Registration' \in Seq(ItemReg)
      /\ f \in [DOMAIN Registration' -> DOMAIN Registration]
      /\ \A m, n \in DOMAIN Registration' : m < n => f[m] < f[n]
      /\ \A n \in DOMAIN Registration' : Registration'[n] = Registration[f[n]]
      /\ \A n \in DOMAIN Registration : n # 1 => n > 1 /\ \E j \in DOMAIN Registration' : f[j] = n
      /\ \A n \in DOMAIN Registration' : 1 < f[n]
      /\ FirstWord(h, 1)
  BY <1>1, Beheaded
<1> DEFINE t == [Object |-> h, due |-> 0]
<1>3. /\ Registration[1].OP /\ h \in Object /\ rt \in BOOLEAN
      /\ IF rt THEN ItemsRT' = Append(ItemsRT, h) /\ Items' = Items
         ELSE Items' = Items \cup {t} /\ ItemsRT' = ItemsRT
      /\ b_RT' = [b_RT EXCEPT ![h] = rt]
  BY <1>2 DEF DoRegister, ItemReg
\* The head is the only word on its object.
<1>4. ASSUME NEW n \in DOMAIN Registration, Registration[n].Object = h
      PROVE  n = 1
  <2> DEFINE K == {k \in 2..Len(Registration) : ~Registration[k].OP /\ Registration[k].Object = h}
  <2>1. DOMAIN Registration = 1..Len(Registration) /\ Len(Registration) \in Nat
    BY DEF TypeOK
  <2>2. K = {}
    <3> SUFFICES ASSUME K # {}
                 PROVE  FALSE
      OBVIOUS
    <3>1. PICK k \in K : \A j \in K : k =< j
      <4>1. K \subseteq Nat
        BY <2>1
      <4> QED
        BY <4>1, LeastIndex
    <3>2. k \in 2..Len(Registration) /\ IsPair(k)
      BY <1>2, <2>1, <3>1 DEF IsPair
    <3> QED
      BY <1>1, <3>2 DEF Pairs
  <2> SUFFICES ASSUME n > 1
               PROVE  FALSE
    BY <2>1
  <2>3. Registration[n].OP
    BY <1>4, <2>1, <2>2
  <2>4. PICK k \in 2..(n - 1) : ~Registration[k].OP /\ Registration[k].Object = h
    <3>1. TypeOK /\ WordsAlternate /\ n # 1 /\ Registration[1].Object = h /\ Registration[1].OP
      BY <1>3
    <3> HIDE DEF IInv
    <3> QED
      BY <1>4, <2>3, <3>1, Between
  <2> QED
    BY <2>1, <2>2, <2>4
<1>5. LastWord(h, 1)
  BY <1>2, <1>4 DEF LastWord, TypeOK
<1>6. h \in alive /\ b_RT[h] = rt /\ Registered(h)
  BY <1>2, <1>3, <1>5, Decides DEF FlagTells
<1>7. b_RT' = b_RT
  BY <1>3, <1>6 DEF TypeOK
<1>8. ~Listed(h)
  BY <1>2, <1>3 DEF WordsAlternate
<1>9. t \in Item /\ t.Object = h
  BY <1>3 DEF Item
<1> HIDE DEF t
<1>10. ItemsRT \in Seq(Object) /\ Items \subseteq Item
  BY DEF TypeOK
<1>11. /\ ItemsRT' \in Seq(Object) /\ Items' \subseteq Item
       /\ \A p \in Object : p \in ToSet(ItemsRT)' <=> p \in ToSet(ItemsRT) \/ (rt /\ p = h)
       /\ \A p \in Object : InItems(p)' <=> InItems(p) \/ (~rt /\ p = h)
       /\ \A p \in Object : InProcessed(p)' <=> InProcessed(p)
  <2>1. CASE rt
    <3>1. ItemsRT' = Append(ItemsRT, h) /\ Items' = Items
      BY <1>3, <2>1
    <3>2. /\ ItemsRT' \in Seq(Object) /\ Len(ItemsRT) \in Nat
          /\ DOMAIN ItemsRT' = 1..(Len(ItemsRT) + 1) /\ DOMAIN ItemsRT = 1..Len(ItemsRT)
          /\ \A n \in 1..Len(ItemsRT) : ItemsRT'[n] = ItemsRT[n]
          /\ ItemsRT'[Len(ItemsRT) + 1] = h
      BY <1>3, <1>10, <3>1
    <3>3. \A p \in Object : p \in ToSet(ItemsRT)' <=> p \in ToSet(ItemsRT) \/ p = h
      BY <3>2 DEF ToSet
    <3> QED
      BY <1>1, <1>10, <2>1, <3>1, <3>2, <3>3 DEF InItems, InProcessed
  <2>2. CASE ~rt
    <3>1. ItemsRT' = ItemsRT /\ Items' = Items \cup {t}
      BY <1>3, <2>2
    <3> QED
      BY <1>1, <1>9, <1>10, <2>2, <3>1 DEF InItems, InProcessed, ToSet
  <2> QED
    BY <1>3, <2>1, <2>2
<1>12. \A p \in Object : Listed(p)' <=> Listed(p) \/ p = h
  BY <1>1, <1>3, <1>11 DEF Listed
<1>13. ListedOnce'
  <2>1. \A m, n \in DOMAIN ItemsRT' : ItemsRT'[m] = ItemsRT'[n] => m = n
    <3>1. CASE rt
      <4>1. /\ Len(ItemsRT) \in Nat
            /\ DOMAIN ItemsRT' = 1..(Len(ItemsRT) + 1) /\ DOMAIN ItemsRT = 1..Len(ItemsRT)
            /\ \A n \in 1..Len(ItemsRT) : ItemsRT'[n] = ItemsRT[n]
            /\ ItemsRT'[Len(ItemsRT) + 1] = h
        BY <1>3, <1>10, <3>1
      <4>2. \A n \in 1..Len(ItemsRT) : ItemsRT[n] # h
        BY <1>8, <4>1 DEF Listed, ToSet
      <4> QED
        BY <4>1, <4>2 DEF ListedOnce
    <3>2. CASE ~rt
      BY <1>3, <3>2 DEF ListedOnce
    <3> QED
      BY <1>3, <3>1, <3>2
  <2>2. \A u, v \in Items' : u.Object = v.Object => u = v
    <3>1. \A u \in Items : u.Object # h
      BY <1>8 DEF Listed, InItems
    <3> QED
      BY <1>3, <1>9, <3>1 DEF ListedOnce
  <2>3. \A u, v \in ItemsProcessed' : u.Object = v.Object => u = v
    BY <1>1 DEF ListedOnce
  <2>4. ASSUME NEW p \in Object
        PROVE  /\ InItems(p)' => p \notin ToSet(ItemsRT)'
               /\ InProcessed(p)' => p \notin ToSet(ItemsRT)' /\ ~InItems(p)'
               /\ at' = "update" /\ current' = p =>
                     p \notin ToSet(ItemsRT)' /\ ~InItems(p)' /\ ~InProcessed(p)'
    BY <1>1, <1>3, <1>8, <1>11 DEF ListedOnce, Listed
  <2> QED
    BY <2>1, <2>2, <2>3, <2>4 DEF ListedOnce
<1>14. TypeOK'
  BY <1>1, <1>2, <1>7, <1>11 DEF TypeOK
<1>15. ~Mentioned(h)'
  <2> SUFFICES ASSUME NEW n \in DOMAIN Registration', Registration'[n].Object = h
               PROVE  FALSE
    BY DEF Mentioned
  <2>1. f[n] \in DOMAIN Registration /\ 1 < f[n] /\ Registration[f[n]].Object = h
    BY <1>2
  <2>2. f[n] = 1
    BY <1>4, <2>1
  <2> QED
    BY <2>1, <2>2
<1>16. \A n \in DOMAIN Registration :
          \/ \E j \in DOMAIN Registration' : f[j] = n
          \/ /\ Registration[n].Object = h
             /\ \A j \in DOMAIN Registration' : Registration'[j].Object = h => n < f[j]
  BY <1>2
<1>17. Listed(h)' => ~Mentioned(h)' /\ h \in alive /\ (b_RT[h] <=> h \in ToSet(ItemsRT)')
  BY <1>3, <1>6, <1>8, <1>11, <1>15 DEF Listed
<1>18. ~Mentioned(h)' => (Listed(h)' <=> Registered(h))
  BY <1>3, <1>6, <1>12
<1>19. \A p \in Object \ {h} : /\ Listed(p)' <=> Listed(p)
                               /\ p \in ToSet(ItemsRT)' <=> p \in ToSet(ItemsRT)
  BY <1>11, <1>12
<1>20. /\ WordsAlternate' /\ FlagTells'
       /\ \A p \in Object : Registered(p)' <=> Registered(p)
  <2>1. alive' = alive
    BY <1>1
  <2>4. /\ f \in [DOMAIN Registration' -> DOMAIN Registration]
        /\ \A m, n \in DOMAIN Registration' : m < n => f[m] < f[n]
        /\ \A n \in DOMAIN Registration' : Registration'[n] = Registration[f[n]]
    BY <1>2
  <2>5. TypeOK /\ WordsAlternate /\ FlagTells
    OBVIOUS
  <2> HIDE DEF IInv
  <2>6. Kept(f) /\ Gone(f, h) /\ OthersStay(h) /\ Settled(h)
    BY <1>7, <1>14, <1>16, <1>17, <1>18, <1>19, <2>1, <2>4 DEF Kept, Gone, OthersStay, Settled
  <2> QED
    BY <1>7, <1>14, <2>1, <2>5, <2>6, Thins
<1>21. YetToVisit' /\ CurrentRight'
  BY <1>1 DEF YetToVisit, CurrentRight, m_processing_now
<1> QED
  BY <1>13, <1>14, <1>20, <1>21

-----------------------------------------------------------------------------
(* The steps of an update.                                                 *)

LEMMA Walks ==
    ASSUME IInv, UNCHANGED <<alive, b_RT, lists, Registration>>, at # "update", at' # "update"
    PROVE  /\ ListedOnce' /\ WordsAlternate' /\ FlagTells'
           /\ \A p \in Object : /\ Registered(p)' <=> Registered(p)
                                /\ Mentioned(p)' <=> Mentioned(p)
                                /\ p \in ToSet(ItemsRT)' <=> p \in ToSet(ItemsRT)
                                /\ InItems(p)' <=> InItems(p)
           /\ ItemsRT' = ItemsRT /\ Items' = Items /\ ItemsProcessed' = ItemsProcessed
<1> USE DEF IInv
<1>1. /\ ItemsRT' = ItemsRT /\ Items' = Items /\ ItemsProcessed' = ItemsProcessed
      /\ Registration' = Registration /\ alive' = alive /\ b_RT' = b_RT
  BY DEF lists
<1>2. \A p \in Object : /\ Listed(p)' <=> Listed(p)
                        /\ p \in ToSet(ItemsRT)' <=> p \in ToSet(ItemsRT)
                        /\ Mentioned(p)' <=> Mentioned(p)
                        /\ InItems(p)' <=> InItems(p)
                        /\ InProcessed(p)' <=> InProcessed(p)
  BY <1>1 DEF Listed, InItems, InProcessed, ToSet, Mentioned
<1>3. /\ WordsAlternate' /\ FlagTells'
      /\ \A p \in Object :
            Registered(p)' <=> IF Mentioned(p) THEN Registered(p) ELSE Listed(p)'
  BY <1>1, <1>2, Stays
<1>4. ListedOnce'
  BY <1>1, <1>2 DEF ListedOnce
<1>5. \A p \in Object : Registered(p)' <=> Registered(p)
  BY <1>2, <1>3 DEF Registered
<1> QED
  BY <1>1, <1>2, <1>3, <1>4, <1>5

LEMMA StartsItemsRT ==
    ASSUME IInv, StartItemsRT
    PROVE  IInv' /\ \A p \in Object : Registered(p)' <=> Registered(p)
<1> USE DEF IInv
<1>1. /\ UNCHANGED <<alive, b_RT, lists, Registration, i, current>>
      /\ at = "before" /\ at' = "rt" /\ it' = 1 /\ visited' = {} /\ Registration = <<>>
  BY DEF StartItemsRT
<1>2. /\ ListedOnce' /\ WordsAlternate' /\ FlagTells'
      /\ \A p \in Object : Registered(p)' <=> Registered(p)
      /\ ItemsRT' = ItemsRT /\ Items' = Items /\ ItemsProcessed' = ItemsProcessed
  BY <1>1, Walks
<1>3. TypeOK'
  BY <1>1, <1>2 DEF TypeOK, Place
<1>4. \A p \in Object : ~Mentioned(p)'
  BY <1>1 DEF Mentioned
<1>5. YetToVisit' /\ CurrentRight'
  BY <1>1, <1>2, <1>4 DEF YetToVisit, CurrentRight
<1> QED
  BY <1>2, <1>3, <1>5

\* The object of ItemsRT whose turn it is is registered, exists and has not been
\* visited.
LEMMA TurnRT ==
    ASSUME IInv, at = "rt", it =< Len(ItemsRT)
    PROVE  /\ it \in DOMAIN ItemsRT /\ ItemsRT[it] \in Object
           /\ Registered(ItemsRT[it]) /\ ItemsRT[it] \in alive \ visited
           /\ ~InItems(ItemsRT[it])
<1> USE DEF IInv
<1> DEFINE o == ItemsRT[it]
<1>1. /\ it \in DOMAIN ItemsRT /\ o \in Object /\ DOMAIN ItemsRT = 1..Len(ItemsRT)
      /\ it >= it
  BY DEF TypeOK
<1>2. o \in ToSet(ItemsRT)
  BY <1>1 DEF ToSet
<1> HIDE DEF o
<1>3. ~Mentioned(o) /\ Listed(o) /\ ~InItems(o)
  BY <1>1, <1>2 DEF YetToVisit, m_processing_now, Listed, ListedOnce
<1>4. o \in alive
  BY <1>1, <1>3 DEF FlagTells
<1>5. o \notin visited
  BY <1>1 DEF YetToVisit, o
<1> QED
  BY <1>1, <1>3, <1>4, <1>5 DEF Registered, o

LEMMA SkipsOrUpdatesRT ==
    ASSUME IInv, SkipRT \/ UpdateRT
    PROVE  IInv' /\ \A p \in Object : Registered(p)' <=> Registered(p)
<1> USE DEF IInv
<1>1. /\ UNCHANGED <<alive, b_RT, lists, Registration, i>>
      /\ at = "rt" /\ it =< Len(ItemsRT) /\ visited' = visited \cup {ItemsRT[it]}
      /\ \/ at' = "rt" /\ it' = it + 1 /\ current' = current
         \/ at' = "rtUpdate" /\ it' = it /\ current' = ItemsRT[it]
  BY DEF SkipRT, UpdateRT
<1>2. /\ ListedOnce' /\ WordsAlternate' /\ FlagTells'
      /\ \A p \in Object : /\ Registered(p)' <=> Registered(p)
                           /\ Mentioned(p)' <=> Mentioned(p)
                           /\ p \in ToSet(ItemsRT)' <=> p \in ToSet(ItemsRT)
                           /\ InItems(p)' <=> InItems(p)
      /\ ItemsRT' = ItemsRT /\ Items' = Items /\ ItemsProcessed' = ItemsProcessed
  BY <1>1, Walks
<1>3. it \in DOMAIN ItemsRT /\ ItemsRT[it] \in Object /\ ~InItems(ItemsRT[it])
  BY <1>1, TurnRT
<1>4. TypeOK'
  BY <1>1, <1>2, <1>3 DEF TypeOK, Place
<1>5. YetToVisit'
  <2>1. m_processing_now' =>
           \A o \in Object : o \in ToSet(ItemsRT)' \/ InItems(o)' => ~Mentioned(o)'
    BY <1>1, <1>2 DEF YetToVisit, m_processing_now
  <2>2. \A t \in Items' : t.Object \notin visited'
    BY <1>1, <1>2, <1>3 DEF YetToVisit, m_processing_now, InItems
  <2>3. ASSUME NEW n \in DOMAIN ItemsRT, n > it
        PROVE  ItemsRT[n] \notin visited'
    <3>1. ItemsRT[n] # ItemsRT[it]
      BY <1>3, <2>3 DEF ListedOnce, TypeOK
    <3>2. n >= it
      BY <2>3 DEF TypeOK
    <3>3. ItemsRT[n] \notin visited
      BY <1>1, <3>2 DEF YetToVisit
    <3> QED
      BY <1>1, <3>1, <3>3
  <2>4. \A n \in DOMAIN ItemsRT : n >= it + 1 => n > it
    BY DEF TypeOK
  <2> QED
    BY <1>1, <1>2, <2>1, <2>2, <2>3, <2>4 DEF YetToVisit
<1>6. CurrentRight'
  BY <1>1, <1>2 DEF CurrentRight
<1> QED
  BY <1>2, <1>4, <1>5, <1>6

LEMMA ReturnsRT ==
    ASSUME IInv, ReturnRT
    PROVE  IInv' /\ \A p \in Object : Registered(p)' <=> Registered(p)
<1> USE DEF IInv
<1>1. /\ UNCHANGED <<alive, b_RT, lists, Registration, i, visited>>
      /\ at = "rtUpdate" /\ at' = "rt" /\ it' = it + 1 /\ current' = NoObject
  BY DEF ReturnRT
<1>2. /\ ListedOnce' /\ WordsAlternate' /\ FlagTells'
      /\ \A p \in Object : /\ Registered(p)' <=> Registered(p)
                           /\ Mentioned(p)' <=> Mentioned(p)
                           /\ p \in ToSet(ItemsRT)' <=> p \in ToSet(ItemsRT)
                           /\ InItems(p)' <=> InItems(p)
      /\ ItemsRT' = ItemsRT /\ Items' = Items /\ ItemsProcessed' = ItemsProcessed
  BY <1>1, Walks
<1>3. TypeOK'
  BY <1>1, <1>2 DEF TypeOK, Place
<1>4. \A n \in DOMAIN ItemsRT : n >= it + 1 => n > it
  BY DEF TypeOK
<1>5. YetToVisit' /\ CurrentRight'
  BY <1>1, <1>2, <1>4 DEF YetToVisit, CurrentRight, m_processing_now
<1> QED
  BY <1>2, <1>3, <1>5

LEMMA GoesOn ==
    ASSUME IInv, ProcessStep \/ GoOn \/ EndUpdate
    PROVE  IInv' /\ \A p \in Object : Registered(p)' <=> Registered(p)
<1> USE DEF IInv
<1>1. /\ UNCHANGED <<alive, b_RT, lists, Registration, it, current, visited>> /\ i' \in 0..2
      /\ \/ at \in {"rt", "limit"} /\ at' = "items"
         \/ at = "after" /\ at' = "outside"
  BY DEF ProcessStep, GoOn, EndUpdate, TypeOK
<1>2. /\ ListedOnce' /\ WordsAlternate' /\ FlagTells'
      /\ \A p \in Object : /\ Registered(p)' <=> Registered(p)
                           /\ Mentioned(p)' <=> Mentioned(p)
                           /\ p \in ToSet(ItemsRT)' <=> p \in ToSet(ItemsRT)
                           /\ InItems(p)' <=> InItems(p)
      /\ ItemsRT' = ItemsRT /\ Items' = Items /\ ItemsProcessed' = ItemsProcessed
  BY <1>1, Walks
<1>3. TypeOK'
  BY <1>1, <1>2 DEF TypeOK, Place
<1>4. YetToVisit' /\ CurrentRight'
  BY <1>1, <1>2 DEF YetToVisit, CurrentRight, m_processing_now
<1> QED
  BY <1>2, <1>3, <1>4

LEMMA StartsUpdate ==
    ASSUME IInv, NEW d \in 0..MaxElapsed, StartUpdate(d)
    PROVE  IInv' /\ \A p \in Object : Registered(p)' <=> Registered(p)
<1> USE DEF IInv
<1>1. /\ UNCHANGED <<alive, b_RT, ItemsRT, ItemsProcessed, Registration, it, i, current, visited>>
      /\ at = "outside" /\ at' = "before" /\ Items' = {Aged(t, d) : t \in Items}
  BY DEF StartUpdate
<1>2. d \in Nat /\ MaxLate \in Nat
  BY BoundAssumption
<1>3. ASSUME NEW t \in Items
      PROVE  Aged(t, d) \in Item /\ Aged(t, d).Object = t.Object
  BY <1>2 DEF TypeOK, Item, Aged
<1> HIDE DEF IInv
<1>4. TypeOK'
  BY <1>1, <1>3 DEF IInv, TypeOK, Place
<1>5. \A p \in Object : /\ InItems(p)' <=> InItems(p)
                        /\ InProcessed(p)' <=> InProcessed(p)
                        /\ p \in ToSet(ItemsRT)' <=> p \in ToSet(ItemsRT)
                        /\ Mentioned(p)' <=> Mentioned(p)
  BY <1>1, <1>3 DEF InItems, InProcessed, ToSet, Mentioned
<1>6. \A p \in Object : Listed(p)' <=> Listed(p)
  BY <1>1, <1>5 DEF Listed
<1>7. /\ WordsAlternate' /\ FlagTells'
      /\ \A p \in Object :
            Registered(p)' <=> IF Mentioned(p) THEN Registered(p) ELSE Listed(p)'
  BY <1>1, <1>5, <1>6, Stays DEF IInv
<1>8. ListedOnce'
  <2>1. \A t, u \in Items' : t.Object = u.Object => t = u
    BY <1>1, <1>3 DEF IInv, ListedOnce
  <2> QED
    BY <1>1, <1>5, <2>1 DEF IInv, ListedOnce
<1>9. YetToVisit' /\ CurrentRight'
  BY <1>1 DEF IInv, YetToVisit, CurrentRight, m_processing_now
<1> QED
  BY <1>4, <1>6, <1>7, <1>8, <1>9 DEF IInv, Registered

\* The object whose item is due is registered, exists and has not been visited.
LEMMA TurnOf ==
    ASSUME IInv, at = "items", NEW t \in Items
    PROVE  /\ t.Object \in Object /\ Registered(t.Object) /\ t.Object \in alive \ visited
           /\ ~Mentioned(t.Object) /\ InItems(t.Object)
           /\ t.Object \notin ToSet(ItemsRT) /\ ~InProcessed(t.Object)
<1> USE DEF IInv
<1> DEFINE o == t.Object
<1>1. o \in Object /\ InItems(o)
  BY DEF TypeOK, Item, InItems
<1>2. o \notin visited
  BY DEF YetToVisit, m_processing_now
<1> HIDE DEF o
<1>3. ~Mentioned(o) /\ Listed(o) /\ o \notin ToSet(ItemsRT) /\ ~InProcessed(o)
  BY <1>1 DEF YetToVisit, m_processing_now, Listed, ListedOnce
<1>4. o \in alive
  BY <1>1, <1>3 DEF FlagTells
<1> QED
  BY <1>1, <1>2, <1>3, <1>4 DEF Registered, o

LEMMA RetiresItem ==
    ASSUME IInv, NEW t \in Items, RetireItem(t)
    PROVE  /\ IInv'
           /\ \A p \in Object : Registered(p)' <=> p # t.Object /\ Registered(p)
<1> USE DEF IInv
<1>1. /\ UNCHANGED <<alive, b_RT, ItemsRT, ItemsProcessed, Registration, at, it, current>>
      /\ at = "items" /\ Items' = Items \ {t} /\ visited' = visited \cup {t.Object}
      /\ i' = (i + 1) % 3
  BY DEF RetireItem, Due, NextItem
<1>2. /\ t.Object \in Object /\ ~Mentioned(t.Object)
      /\ t.Object \notin ToSet(ItemsRT) /\ ~InProcessed(t.Object)
  BY <1>1, TurnOf
<1>3. \A u \in Items' : u \in Items /\ u.Object # t.Object
  BY <1>1 DEF ListedOnce
<1>4. \A p \in Object : /\ InItems(p)' <=> p # t.Object /\ InItems(p)
                        /\ InProcessed(p)' <=> InProcessed(p)
                        /\ p \in ToSet(ItemsRT)' <=> p \in ToSet(ItemsRT)
                        /\ Mentioned(p)' <=> Mentioned(p)
  BY <1>1, <1>3 DEF InItems, InProcessed, ToSet, Mentioned
<1>5. \A p \in Object : Listed(p)' <=> p # t.Object /\ Listed(p)
  BY <1>1, <1>2, <1>4 DEF Listed
<1>6. /\ WordsAlternate' /\ FlagTells'
      /\ \A p \in Object :
            Registered(p)' <=> IF Mentioned(p) THEN Registered(p) ELSE Listed(p)'
  <2>1. \A p \in alive : p \in alive' /\ b_RT'[p] = b_RT[p]
    BY <1>1
  <2> QED
    BY <1>1, <1>4, <1>5, <2>1, Stays
<1>7. TypeOK'
  BY <1>1, <1>2 DEF TypeOK
<1>8. ListedOnce'
  BY <1>1, <1>3, <1>4 DEF ListedOnce
<1>9. YetToVisit' /\ CurrentRight'
  BY <1>1, <1>3, <1>4 DEF YetToVisit, CurrentRight, m_processing_now
<1>10. \A p \in Object : Registered(p)' <=> p # t.Object /\ Registered(p)
  BY <1>2, <1>5, <1>6 DEF Registered
<1> QED
  BY <1>6, <1>7, <1>8, <1>9, <1>10

LEMMA UpdatesItem ==
    ASSUME IInv, NEW t \in Items, UpdateItem(t)
    PROVE  IInv' /\ \A p \in Object : Registered(p)' <=> Registered(p)
<1> USE DEF IInv
<1>1. /\ UNCHANGED <<alive, b_RT, ItemsRT, ItemsProcessed, Registration, it, i>>
      /\ at = "items" /\ at' = "update" /\ current' = t.Object
      /\ Items' = Items \ {t} /\ visited' = visited \cup {t.Object}
  BY DEF UpdateItem, Due
<1>2. /\ t.Object \in Object /\ ~Mentioned(t.Object) /\ InItems(t.Object)
      /\ t.Object \notin ToSet(ItemsRT) /\ ~InProcessed(t.Object)
  BY <1>1, TurnOf
<1>3. \A u \in Items' : u \in Items /\ u.Object # t.Object
  BY <1>1 DEF ListedOnce
<1>4. \A p \in Object : /\ InItems(p)' <=> p # t.Object /\ InItems(p)
                        /\ InProcessed(p)' <=> InProcessed(p)
                        /\ p \in ToSet(ItemsRT)' <=> p \in ToSet(ItemsRT)
                        /\ Mentioned(p)' <=> Mentioned(p)
  BY <1>1, <1>3 DEF InItems, InProcessed, ToSet, Mentioned
<1>5. \A p \in Object : Listed(p)' <=> Listed(p)
  BY <1>1, <1>2, <1>4 DEF Listed
<1>6. /\ WordsAlternate' /\ FlagTells'
      /\ \A p \in Object :
            Registered(p)' <=> IF Mentioned(p) THEN Registered(p) ELSE Listed(p)'
  <2>1. \A p \in alive : p \in alive' /\ b_RT'[p] = b_RT[p]
    BY <1>1
  <2> QED
    BY <1>1, <1>4, <1>5, <2>1, Stays
<1>7. TypeOK'
  BY <1>1, <1>2 DEF TypeOK, Place
<1>8. ListedOnce'
  BY <1>1, <1>2, <1>3, <1>4 DEF ListedOnce
<1>9. YetToVisit' /\ CurrentRight'
  BY <1>1, <1>3, <1>4 DEF YetToVisit, CurrentRight, m_processing_now
<1> QED
  BY <1>5, <1>6, <1>7, <1>8, <1>9 DEF Registered

LEMMA ReturnsItem ==
    ASSUME IInv, NEW u \in 1..MaxUpdate, ReturnItem(u)
    PROVE  IInv' /\ \A p \in Object : Registered(p)' <=> Registered(p)
<1> USE DEF IInv
<1> DEFINE t == [Object |-> current, due |-> u]
<1>1. /\ UNCHANGED <<alive, b_RT, ItemsRT, Items, Registration, it, visited>>
      /\ at = "update" /\ at' \in {"limit", "items"} /\ current' = NoObject
      /\ ItemsProcessed' = ItemsProcessed \cup {t} /\ i' = (i + 1) % 3
  BY DEF ReturnItem, Return, NextItem
<1>2. current \in Object
  BY <1>1 DEF CurrentRight, TypeOK
<1>3. t \in Item /\ t.Object = current
  BY <1>2, BoundAssumption DEF Item
<1> HIDE DEF t
<1>4. \A p \in Object : /\ InItems(p)' <=> InItems(p)
                        /\ InProcessed(p)' <=> InProcessed(p) \/ p = current
                        /\ p \in ToSet(ItemsRT)' <=> p \in ToSet(ItemsRT)
                        /\ Mentioned(p)' <=> Mentioned(p)
  BY <1>1, <1>3 DEF InItems, InProcessed, ToSet, Mentioned
<1>5. \A p \in Object : Listed(p)' <=> Listed(p)
  BY <1>1, <1>2, <1>4 DEF Listed
<1>6. /\ WordsAlternate' /\ FlagTells'
      /\ \A p \in Object :
            Registered(p)' <=> IF Mentioned(p) THEN Registered(p) ELSE Listed(p)'
  <2>1. \A p \in alive : p \in alive' /\ b_RT'[p] = b_RT[p]
    BY <1>1
  <2> QED
    BY <1>1, <1>4, <1>5, <2>1, Stays
<1>7. TypeOK'
  BY <1>1, <1>3 DEF TypeOK, Place
<1>8. ListedOnce'
  <2>1. current \notin ToSet(ItemsRT) /\ ~InItems(current) /\ ~InProcessed(current)
    BY <1>1, <1>2 DEF ListedOnce
  <2>2. \A v, w \in ItemsProcessed' : v.Object = w.Object => v = w
    BY <1>1, <1>3, <2>1 DEF ListedOnce, InProcessed
  <2>3. \A p \in Object :
           /\ InItems(p)' => p \notin ToSet(ItemsRT)'
           /\ InProcessed(p)' => p \notin ToSet(ItemsRT)' /\ ~InItems(p)'
    BY <1>4, <2>1 DEF ListedOnce
  <2> QED
    BY <1>1, <2>2, <2>3 DEF ListedOnce
<1>9. YetToVisit' /\ CurrentRight'
  BY <1>1, <1>4 DEF YetToVisit, CurrentRight, m_processing_now
<1> QED
  BY <1>5, <1>6, <1>7, <1>8, <1>9 DEF Registered

\* An object whose update raises an exception is not registered any more, unless
\* a word on it waits in the list.
LEMMA ThrowsItem ==
    ASSUME IInv, ThrowItem
    PROVE  /\ IInv' /\ current \in Object \cap visited /\ Listed(current)
           /\ \A p \in Object :
                 Registered(p)' <=> Registered(p) /\ (p = current => Mentioned(p))
<1> USE DEF IInv
<1>1. /\ UNCHANGED <<alive, b_RT, ItemsRT, Items, ItemsProcessed, Registration, it, visited>>
      /\ at = "update" /\ at' = "items" /\ current' = NoObject /\ i' = (i + 1) % 3
  BY DEF ThrowItem, NextItem, lists
<1>2. current \in Object \cap visited /\ Listed(current)
  BY <1>1 DEF CurrentRight, TypeOK, Listed
<1>3. \A p \in Object : /\ InItems(p)' <=> InItems(p)
                        /\ InProcessed(p)' <=> InProcessed(p)
                        /\ p \in ToSet(ItemsRT)' <=> p \in ToSet(ItemsRT)
                        /\ Mentioned(p)' <=> Mentioned(p)
  BY <1>1 DEF InItems, InProcessed, ToSet, Mentioned
<1>4. \A p \in Object : Listed(p)' <=> p # current /\ Listed(p)
  BY <1>1, <1>2, <1>3 DEF Listed, ListedOnce
<1>5. /\ WordsAlternate' /\ FlagTells'
      /\ \A p \in Object :
            Registered(p)' <=> IF Mentioned(p) THEN Registered(p) ELSE Listed(p)'
  <2>1. \A p \in alive : p \in alive' /\ b_RT'[p] = b_RT[p]
    BY <1>1
  <2> QED
    BY <1>1, <1>3, <1>4, <2>1, Stays
<1>6. TypeOK'
  BY <1>1 DEF TypeOK, Place
<1>7. ListedOnce'
  BY <1>1, <1>3 DEF ListedOnce
<1>8. YetToVisit' /\ CurrentRight'
  BY <1>1, <1>3 DEF YetToVisit, CurrentRight, m_processing_now
<1> QED
  BY <1>2, <1>4, <1>5, <1>6, <1>7, <1>8 DEF Registered

LEMMA PushesBack ==
    ASSUME IInv, PushBack
    PROVE  IInv' /\ \A p \in Object : Registered(p)' <=> Registered(p)
<1> USE DEF IInv
<1>1. /\ UNCHANGED <<alive, b_RT, ItemsRT, Registration, it, i, current, visited>>
      /\ at \in {"items", "limit"} /\ at' = "after"
      /\ Items' = Items \cup ItemsProcessed /\ ItemsProcessed' = {}
  BY DEF PushBack
<1>2. \A p \in Object : /\ InItems(p)' <=> InItems(p) \/ InProcessed(p)
                        /\ ~InProcessed(p)'
                        /\ p \in ToSet(ItemsRT)' <=> p \in ToSet(ItemsRT)
                        /\ Mentioned(p)' <=> Mentioned(p)
  BY <1>1 DEF InItems, InProcessed, ToSet, Mentioned
<1>3. \A p \in Object : Listed(p)' <=> Listed(p)
  BY <1>1, <1>2 DEF Listed
<1>4. /\ WordsAlternate' /\ FlagTells'
      /\ \A p \in Object :
            Registered(p)' <=> IF Mentioned(p) THEN Registered(p) ELSE Listed(p)'
  <2>1. \A p \in alive : p \in alive' /\ b_RT'[p] = b_RT[p]
    BY <1>1
  <2> QED
    BY <1>1, <1>2, <1>3, <2>1, Stays
<1>5. TypeOK'
  BY <1>1 DEF TypeOK, Place
<1>6. ListedOnce'
  <2>1. ASSUME NEW t \in Items, NEW u \in ItemsProcessed
        PROVE  t.Object # u.Object
    BY <2>1 DEF ListedOnce, TypeOK, Item, InItems, InProcessed
  <2>2. \A t, u \in Items' : t.Object = u.Object => t = u
    BY <1>1, <2>1 DEF ListedOnce
  <2> QED
    BY <1>1, <1>2, <2>2 DEF ListedOnce
<1>7. YetToVisit' /\ CurrentRight'
  BY <1>1 DEF YetToVisit, CurrentRight, m_processing_now
<1> QED
  BY <1>3, <1>4, <1>5, <1>6, <1>7 DEF Registered

-----------------------------------------------------------------------------
(* What holds always.                                                      *)

LEMMA Initially ==
    ASSUME Init
    PROVE  IInv /\ \A p \in Object : ~Registered(p)
<1>1. DOMAIN Registration = {} /\ DOMAIN ItemsRT = {} /\ ToSet(ItemsRT) = {}
  BY DEF Init, ToSet
<1>2. \A p \in Object : ~Listed(p) /\ ~Mentioned(p) /\ ~InItems(p) /\ ~InProcessed(p)
  BY <1>1 DEF Init, Listed, Mentioned, InItems, InProcessed
<1>3. TypeOK
  BY DEF Init, TypeOK, Place
<1>4. ListedOnce /\ WordsAlternate /\ FlagTells /\ YetToVisit /\ CurrentRight
  BY <1>1, <1>2 DEF Init, ListedOnce, WordsAlternate, FlagTells, YetToVisit, CurrentRight,
     m_processing_now
<1> QED
  BY <1>2, <1>3, <1>4 DEF IInv, Registered

LEMMA Stutters ==
    ASSUME IInv, UNCHANGED vars
    PROVE  IInv' /\ \A p \in Object : Registered(p)' <=> Registered(p)
  BY DEF vars, IInv, TypeOK, ListedOnce, WordsAlternate, FlagTells, YetToVisit, CurrentRight,
     m_processing_now, Registered, Listed, Mentioned, LastWord, FirstWord, InItems, InProcessed,
     ToSet

\* The lists, the list of registrations and the flags agree at every step, also
\* while updates change them (CSheduler::Update, Register, Unregister).
THEOREM ListsAgree == Spec => []IInv
<1>1. Init => IInv
  BY Initially
<1>2. IInv /\ [Next]_vars => IInv'
  <2> SUFFICES ASSUME IInv, [Next]_vars
               PROVE  IInv'
    OBVIOUS
  <2>1. ASSUME NEW o \in Object, Construct(o)
        PROVE  IInv'
    BY <2>1, Constructs
  <2>2. ASSUME NEW o \in Object, NEW rt \in Flags, Register(o, rt)
        PROVE  IInv'
    BY <2>2, Registers, ObjectAssumption
  <2>3. ASSUME NEW o \in Object, Unregister(o)
        PROVE  IInv'
    BY <2>3, TakesOut DEF Unregister
  <2>4. ASSUME NEW o \in Object, Destruct(o)
        PROVE  IInv'
    BY <2>4, TakesOut DEF Destruct
  <2>5. ASSUME NEW d \in 0..MaxElapsed, StartUpdate(d)
        PROVE  IInv'
    BY <2>5, StartsUpdate
  <2>6. CASE SkipPair
    BY <2>6, SkipsPair
  <2>7. CASE DoRegister
    BY <2>7, DoesRegister
  <2>8. CASE DoUnregister
    BY <2>8, DoesUnregister
  <2>9. CASE StartItemsRT
    BY <2>9, StartsItemsRT
  <2>10. CASE SkipRT \/ UpdateRT
    BY <2>10, SkipsOrUpdatesRT
  <2>11. CASE ReturnRT
    BY <2>11, ReturnsRT
  <2>12. CASE ProcessStep \/ GoOn \/ EndUpdate
    BY <2>12, GoesOn
  <2>13. ASSUME NEW t \in Items, RetireItem(t)
         PROVE  IInv'
    BY <2>13, RetiresItem
  <2>14. ASSUME NEW t \in Items, UpdateItem(t)
         PROVE  IInv'
    BY <2>14, UpdatesItem
  <2>15. ASSUME NEW u \in 1..MaxUpdate, ReturnItem(u)
         PROVE  IInv'
    BY <2>15, ReturnsItem
  <2>16. CASE ThrowItem
    BY <2>16, ThrowsItem
  <2>17. CASE PushBack
    BY <2>17, PushesBack
  <2>18. CASE UNCHANGED vars
    BY <2>18, Stutters
  <2> QED
    BY <2>1, <2>2, <2>3, <2>4, <2>5, <2>6, <2>7, <2>8, <2>9, <2>10, <2>11, <2>12, <2>13, <2>14,
       <2>15, <2>16, <2>17, <2>18 DEF Next, Application, Update, Step
<1> QED
  BY <1>1, <1>2, PTL DEF Spec

-----------------------------------------------------------------------------
(* What the scheduler promises.                                            *)

reg == {o \in Object : Registered(o)}
busy == at \notin {"outside", "before"}

\* A step that is none for the objects.
LEMMA Unseen ==
    ASSUME UNCHANGED <<alive, visited>>, busy' <=> busy,
           \A p \in Object : Registered(p)' <=> Registered(p)
    PROVE  UNCHANGED Promised!vars
<1>1. reg' = reg
  BY DEF reg
<1>2. (at' \notin {"outside", "before"}) = (at \notin {"outside", "before"})
  BY DEF busy
<1> QED
  BY <1>1, <1>2 DEF Promised!vars, reg

\* An object is visited.
LEMMA Seen ==
    ASSUME alive' = alive, NEW o \in Object, o \in (reg \cap alive) \ visited,
           visited' = visited \cup {o}, busy, busy',
           \A p \in Object : Registered(p)' <=> Registered(p)
    PROVE  Promised!Visit(o)
<1>1. reg' = reg
  BY DEF reg
<1> QED
  BY <1>1 DEF Promised!Visit, reg, busy

LEMMA Promises ==
    ASSUME IInv, Next
    PROVE  Promised!Next \/ UNCHANGED Promised!vars
<1> USE DEF busy
<1>1. ASSUME NEW o \in Object, Construct(o)
      PROVE  Promised!Construct(o)
  <2>1. reg' = reg
    BY <1>1, Constructs DEF reg
  <2> QED
    BY <1>1, <2>1 DEF Construct, place, Promised!Construct, reg
<1>2. ASSUME NEW o \in Object, NEW rt \in Flags, Register(o, rt)
      PROVE  Promised!Register(o)
  <2>1. reg' = reg \cup {o}
    BY <1>2, Registers, ObjectAssumption DEF reg
  <2>2. o \notin reg
    BY <1>2 DEF Register, reg
  <2> QED
    BY <1>2, <2>1, <2>2 DEF Register, place, Promised!Register, reg
<1>3. ASSUME NEW o \in Object, Unregister(o)
      PROVE  Promised!Unregister(o)
  <2>1. reg' = reg \ {o}
    BY <1>3, TakesOut DEF Unregister, reg
  <2>2. o \in reg
    BY <1>3 DEF Unregister, reg
  <2> QED
    BY <1>3, <2>1, <2>2 DEF Unregister, place, Promised!Unregister, reg
<1>4. ASSUME NEW o \in Object, Destruct(o)
      PROVE  Promised!Destruct(o)
  <2>1. reg' = reg \ {o}
    BY <1>4, TakesOut DEF Destruct, reg
  <2> QED
    BY <1>4, <2>1 DEF Destruct, place, Promised!Destruct, reg
<1>5. ASSUME NEW d \in 0..MaxElapsed, StartUpdate(d)
      PROVE  UNCHANGED Promised!vars
  BY <1>5, StartsUpdate, Unseen DEF StartUpdate
<1>6. CASE SkipPair
  BY <1>6, SkipsPair, Unseen DEF SkipPair, place
<1>7. CASE DoRegister
  BY <1>7, DoesRegister, Unseen DEF DoRegister, place
<1>8. CASE DoUnregister
  BY <1>8, DoesUnregister, Unseen DEF DoUnregister, place
<1>9. CASE StartItemsRT
  <2>1. reg' = reg
    BY <1>9, StartsItemsRT DEF reg
  <2>2. Promised!Begin
    BY <1>9, <2>1 DEF StartItemsRT, Promised!Begin, reg
  <2> QED
    BY <2>2 DEF Promised!Next
<1>10. CASE SkipRT \/ UpdateRT
  <2> DEFINE o == ItemsRT[it]
  <2>1. /\ at = "rt" /\ it =< Len(ItemsRT) /\ alive' = alive
        /\ visited' = visited \cup {o} /\ at' \in {"rt", "rtUpdate"}
    BY <1>10 DEF SkipRT, UpdateRT
  <2>2. o \in Object /\ o \in (reg \cap alive) \ visited
    BY <2>1, TurnRT DEF reg
  <2> HIDE DEF o
  <2>3. PICK p \in Object : p = o
    BY <2>2
  <2>4. Promised!Visit(p)
    BY <1>10, <2>1, <2>2, <2>3, SkipsOrUpdatesRT, Seen
  <2> QED
    BY <2>4 DEF Promised!Next
<1>11. CASE ReturnRT
  BY <1>11, ReturnsRT, Unseen DEF ReturnRT
<1>12. CASE ProcessStep \/ GoOn
  BY <1>12, GoesOn, Unseen DEF ProcessStep, GoOn
<1>13. CASE EndUpdate
  <2>1. reg' = reg
    BY <1>13, GoesOn DEF reg
  <2>2. Promised!End
    BY <1>13, <2>1 DEF EndUpdate, Promised!End, reg
  <2> QED
    BY <2>2 DEF Promised!Next
<1>14. ASSUME NEW t \in Items, RetireItem(t)
       PROVE  Promised!Next
  <2>1. /\ at = "items" /\ at' = at /\ alive' = alive /\ visited' = visited \cup {t.Object}
    BY <1>14 DEF RetireItem, Due
  <2>2. t.Object \in Object /\ t.Object \in (reg \cap alive) \ visited
    BY <2>1, TurnOf DEF reg
  <2>3. reg' = reg \ {t.Object}
    BY <1>14, RetiresItem DEF reg
  <2>4. PICK p \in Object : p = t.Object
    BY <2>2
  <2>5. Promised!Retire(p)
    BY <2>1, <2>2, <2>3, <2>4 DEF Promised!Retire, reg
  <2> QED
    BY <2>5 DEF Promised!Next
<1>15. ASSUME NEW t \in Items, UpdateItem(t)
       PROVE  Promised!Next
  <2>1. /\ at = "items" /\ at' = "update" /\ alive' = alive /\ visited' = visited \cup {t.Object}
    BY <1>15 DEF UpdateItem, Due
  <2>2. t.Object \in Object /\ t.Object \in (reg \cap alive) \ visited
    BY <2>1, TurnOf DEF reg
  <2>3. PICK p \in Object : p = t.Object
    BY <2>2
  <2>4. Promised!Visit(p)
    BY <1>15, <2>1, <2>2, <2>3, UpdatesItem, Seen
  <2> QED
    BY <2>4 DEF Promised!Next
<1>16. ASSUME NEW u \in 1..MaxUpdate, ReturnItem(u)
       PROVE  UNCHANGED Promised!vars
  BY <1>16, ReturnsItem, Unseen DEF ReturnItem, Return
<1>17. CASE ThrowItem
  <2>1. /\ at = "update" /\ at' = "items" /\ UNCHANGED <<alive, visited>>
    BY <1>17 DEF ThrowItem
  <2>2. PICK o \in Object : o = current /\ o \in visited /\ Listed(o)
    BY <1>17, ThrowsItem
  <2>3. \A p \in Object : Registered(p)' <=> Registered(p) /\ (p = o => Mentioned(p))
    BY <1>17, <2>2, ThrowsItem
  <2>4. CASE Mentioned(o)
    <3>1. \A p \in Object : Registered(p)' <=> Registered(p)
      BY <2>3, <2>4
    <3> QED
      BY <2>1, <3>1, Unseen
  <2>5. CASE ~Mentioned(o)
    <3>1. reg' = reg \ {o} /\ o \in reg
      BY <2>2, <2>3, <2>5 DEF reg, Registered
    <3>2. Promised!Drop(o)
      BY <2>1, <2>2, <3>1 DEF Promised!Drop, reg
    <3> QED
      BY <3>2 DEF Promised!Next
  <2> QED
    BY <2>4, <2>5
<1>18. CASE PushBack
  BY <1>18, PushesBack, Unseen DEF PushBack
<1> QED
  BY <1>1, <1>2, <1>3, <1>4, <1>5, <1>6, <1>7, <1>8, <1>9, <1>10, <1>11, <1>12, <1>13, <1>14,
     <1>15, <1>16, <1>17, <1>18 DEF Next, Application, Update, Step, Promised!Next

\* CSheduler implements UpdateService: an object is visited only while it exists
\* and is registered, and at most once in a frame, though registrations are
\* deferred and addresses used again.
THEOREM ServesAsPromised == Spec => KeepsToRegistered
<1>1. Init => Promised!Init
  <2> SUFFICES ASSUME Init
               PROVE  Promised!Init
    OBVIOUS
  <2>1. reg = {}
    BY Initially DEF reg
  <2> QED
    BY <2>1 DEF Init, Promised!Init, reg
<1>2. IInv /\ [Next]_vars => [Promised!Next]_(Promised!vars)
  <2>1. ASSUME IInv, UNCHANGED vars
        PROVE  UNCHANGED Promised!vars
    BY <2>1, Stutters, Unseen DEF vars, busy
  <2> QED
    BY <2>1, Promises
<1> QED
  BY <1>1, <1>2, ListsAgree, PTL DEF Spec, KeepsToRegistered, Promised!Spec

-----------------------------------------------------------------------------
(* Nobody is left out.                                                     *)

\* What the walk over ItemsRT has passed was visited.
PassedVisited ==
    StableRT =>
       /\ at = "rt" => \A n \in DOMAIN ItemsRT : n < it => ItemsRT[n] \in visited
       /\ at = "rtUpdate" => \A n \in DOMAIN ItemsRT : n =< it => ItemsRT[n] \in visited
       /\ at \in {"items", "update", "limit"} =>
             \A n \in DOMAIN ItemsRT : ItemsRT[n] \in visited

LEMMA PassesNone ==
    ASSUME IInv, PassedVisited, Next
    PROVE  PassedVisited'
<1> USE DEF IInv
<1>1. ASSUME NEW o \in Object, TakeOut(o), MayTakeOut(o), Called, UNCHANGED <<b_RT, place, visited>>
      PROVE  PassedVisited'
  <2>1. UNCHANGED <<at, it, visited>>
    BY <1>1 DEF place
  <2>2. CASE m_processing_now /\ Within(o, b_RT[o])
    <3>1. Unlist(o, b_RT[o])
      BY <1>1, <2>2 DEF TakeOut
    <3>2. b_RT[o] \in BOOLEAN /\ current' = current
      BY <1>1 DEF TypeOK, place
    <3>3. \A j \in DOMAIN ItemsRT' : \E m \in DOMAIN ItemsRT : j =< m /\ ItemsRT[m] = ItemsRT'[j]
      BY <2>1, <2>2, <3>1, <3>2, Unlisted
    <3>4. ASSUME StableRT, at = "rtUpdate"
          PROVE  ItemsRT' = ItemsRT
      <4>1. o \notin ToSet(ItemsRT)
        BY <1>1, <3>4 DEF MayTakeOut
      <4>2. ~b_RT[o]
        BY <2>2, <4>1 DEF Within
      <4> QED
        BY <3>1, <4>2 DEF Unlist
    <3> QED
      BY <1>1, <2>1, <3>3, <3>4 DEF PassedVisited, Called
  <2>3. CASE ~(m_processing_now /\ Within(o, b_RT[o]))
    BY <1>1, <2>1, <2>3 DEF TakeOut, Defer, lists, PassedVisited
  <2> QED
    BY <2>2, <2>3
<1>2. ASSUME NEW o \in Object,
             Construct(o) \/ (\E rt \in Flags : Register(o, rt)) \/ Unregister(o) \/ Destruct(o)
      PROVE  PassedVisited'
  <2>1. CASE Construct(o) \/ \E rt \in Flags : Register(o, rt)
    BY <2>1 DEF Construct, Register, lists, place, PassedVisited
  <2>2. CASE Unregister(o)
    BY <1>1, <2>2 DEF Unregister
  <2>3. CASE Destruct(o)
    BY <1>1, <2>3 DEF Destruct
  <2> QED
    BY <1>2, <2>1, <2>2, <2>3
<1>3. CASE \E d \in 0..MaxElapsed : StartUpdate(d)
  BY <1>3 DEF StartUpdate, PassedVisited
<1>4. CASE SkipPair \/ DoRegister \/ DoUnregister
  BY <1>4 DEF SkipPair, DoRegister, DoUnregister, Registering, place, PassedVisited
<1>5. CASE StartItemsRT
  <2>1. at' = "rt" /\ it' = 1 /\ ItemsRT' = ItemsRT
    BY <1>5 DEF StartItemsRT, lists
  <2>2. \A n \in DOMAIN ItemsRT : ~(n < 1)
    BY DEF TypeOK
  <2> QED
    BY <2>1, <2>2 DEF PassedVisited
<1>6. CASE SkipRT
  <2>1. /\ at = "rt" /\ at' = "rt" /\ it' = it + 1 /\ ItemsRT' = ItemsRT
        /\ visited' = visited \cup {ItemsRT[it]}
    BY <1>6 DEF SkipRT, lists
  <2>2. \A n \in DOMAIN ItemsRT : n < it + 1 => n < it \/ n = it
    BY DEF TypeOK
  <2> QED
    BY <2>1, <2>2 DEF PassedVisited
<1>7. CASE UpdateRT
  <2>1. /\ at = "rt" /\ at' = "rtUpdate" /\ it' = it /\ ItemsRT' = ItemsRT
        /\ visited' = visited \cup {ItemsRT[it]}
    BY <1>7 DEF UpdateRT, lists
  <2>2. \A n \in DOMAIN ItemsRT : n =< it => n < it \/ n = it
    BY DEF TypeOK
  <2> QED
    BY <2>1, <2>2 DEF PassedVisited
<1>8. CASE ReturnRT
  <2>1. /\ at = "rtUpdate" /\ at' = "rt" /\ it' = it + 1 /\ ItemsRT' = ItemsRT
        /\ visited' = visited
    BY <1>8 DEF ReturnRT, lists
  <2>2. \A n \in DOMAIN ItemsRT : n < it + 1 => n =< it
    BY DEF TypeOK
  <2> QED
    BY <2>1, <2>2 DEF PassedVisited
<1>9. CASE ProcessStep
  <2>1. /\ at = "rt" /\ at' = "items" /\ it > Len(ItemsRT) /\ ItemsRT' = ItemsRT
        /\ visited' = visited
    BY <1>9 DEF ProcessStep, lists
  <2>2. \A n \in DOMAIN ItemsRT : n < it
    BY <2>1 DEF TypeOK
  <2> QED
    BY <2>1, <2>2 DEF PassedVisited
<1>10. CASE \E t \in Items : RetireItem(t) \/ UpdateItem(t)
  BY <1>10 DEF RetireItem, UpdateItem, Due, PassedVisited
<1>11. CASE (\E u \in 1..MaxUpdate : ReturnItem(u)) \/ ThrowItem
  BY <1>11 DEF ReturnItem, Return, ThrowItem, lists, PassedVisited
<1>12. CASE GoOn \/ PushBack \/ EndUpdate
  BY <1>12 DEF GoOn, PushBack, EndUpdate, lists, PassedVisited
<1> QED
  BY <1>2, <1>3, <1>4, <1>5, <1>6, <1>7, <1>8, <1>9, <1>10, <1>11, <1>12
     DEF Next, Application, Update, Step

\* As long as no update of an ItemsRT object unregisters one of them, the walk by
\* index in CSheduler::Update passes none over, however many there are.
THEOREM NoneLeftOut == Spec => []EveryRT
<1>1. Init => PassedVisited
  BY DEF Init, PassedVisited
<1>2. IInv /\ PassedVisited /\ [Next]_vars => PassedVisited'
  <2>1. ASSUME PassedVisited, UNCHANGED vars
        PROVE  PassedVisited'
    BY <2>1 DEF vars, PassedVisited
  <2> QED
    BY <2>1, PassesNone
<1>3. PassedVisited => EveryRT
  BY DEF PassedVisited, EveryRT, ToSet
<1> QED
  BY <1>1, <1>2, <1>3, ListsAgree, PTL DEF Spec

-----------------------------------------------------------------------------
(* Nobody waits too long.                                                  *)

LEMMA NotBehindIs ==
    ASSUME IsFiniteSet(Object), NEW heap \in SUBSET Item, NEW t
    PROVE  /\ NotBehind(heap, t) \subseteq Object /\ IsFiniteSet(NotBehind(heap, t))
           /\ Cardinality(NotBehind(heap, t)) \in Nat /\ Cardinality(Object) \in Nat
           /\ Cardinality(NotBehind(heap, t)) <= Cardinality(Object)
<1>1. NotBehind(heap, t) \in SUBSET Object
  BY DEF NotBehind, Item
<1> QED
  BY <1>1, FS_Subset, FS_CardinalityType

\* What is to be told of a heap: whom it is made of, and who comes no later than whom.
LEMMA Rest ==
    ASSUME NEW f \in Nat, NEW y \in {0, 1}
    PROVE  /\ MaxElapsed \in Nat /\ MaxElapsed * (f + y) \in Nat
           /\ MaxElapsed * (f + 1) = MaxElapsed * (f + 0) + MaxElapsed
<1>1. MaxElapsed \in Nat
  BY BoundAssumption
<1>2. \A m \in Nat : m * (f + y) \in Nat /\ m * (f + 1) = m * (f + 0) + m
  OBVIOUS
<1> QED
  BY <1>1, <1>2

\* An item that is not late.
LEMMA Fresh ==
    ASSUME IsFiniteSet(Object), NEW heap \in SUBSET Item, NEW t \in Item, t.due >= 0, NEW y \in {0, 1}
    PROVE  Spared(heap, t, 0, y)
<1>1. /\ Cardinality(NotBehind(heap, t)) \in Nat /\ Cardinality(Object) \in Nat
      /\ Cardinality(NotBehind(heap, t)) <= Cardinality(Object)
  BY NotBehindIs
<1>2. MaxElapsed * (0 + y) \in Nat
  BY Rest
<1>3. t.due >= -(MaxElapsed * (0 + y))
  <2>1. \A m \in Nat, n \in Int : n >= 0 => n >= -m
    OBVIOUS
  <2> QED
    BY <1>2, <2>1 DEF Item
<1>4. 3 * 0 + 0 + Cardinality(NotBehind(heap, t)) <= Cardinality(Object) /\ 0 \in 0..Cardinality(Object)
  BY <1>1
<1> QED
  BY <1>3, <1>4 DEF Spared

\* Who was served is not counted twice.
LEMMA Fewer ==
    ASSUME IsFiniteSet(Object), NEW heap \in SUBSET Item, NEW rest \in SUBSET Item, NEW t,
           NEW s \in Nat, NEW r \in Nat, NEW y, Spared(heap, t, s, y),
           r + Cardinality(NotBehind(rest, t)) <= s + Cardinality(NotBehind(heap, t))
    PROVE  Spared(rest, t, r, y)
<1>1. /\ Cardinality(NotBehind(heap, t)) \in Nat /\ Cardinality(NotBehind(rest, t)) \in Nat
      /\ Cardinality(Object) \in Nat
  BY NotBehindIs
<1>2. PICK f \in 0..Cardinality(Object) :
          /\ 3 * f + s + Cardinality(NotBehind(heap, t)) <= Cardinality(Object)
          /\ t.due >= -(MaxElapsed * (f + y))
  BY DEF Spared
<1>3. 3 * f + r + Cardinality(NotBehind(rest, t)) <= Cardinality(Object)
  BY <1>1, <1>2
<1> QED
  BY <1>2, <1>3 DEF Spared

\* The heap has lost some items.
LEMMA Lost ==
    ASSUME IsFiniteSet(Object), NEW heap \in SUBSET Item, NEW rest \in SUBSET heap, NEW t,
           NEW s \in Nat, NEW r \in Nat, r <= s, NEW y, Spared(heap, t, s, y)
    PROVE  Spared(rest, t, r, y)
<1>1. NotBehind(rest, t) \in SUBSET NotBehind(heap, t) /\ rest \in SUBSET Item
  BY DEF NotBehind
<1>2. IsFiniteSet(NotBehind(heap, t)) /\ Cardinality(NotBehind(heap, t)) \in Nat
      /\ Cardinality(NotBehind(rest, t)) \in Nat
  BY <1>1, NotBehindIs
<1>3. Cardinality(NotBehind(rest, t)) <= Cardinality(NotBehind(heap, t))
  BY <1>1, <1>2, FS_Subset
<1>4. r + Cardinality(NotBehind(rest, t)) <= s + Cardinality(NotBehind(heap, t))
  BY <1>2, <1>3
<1> QED
  BY <1>1, <1>4, Fewer

\* The first of the heap has been served.
LEMMA Served1 ==
    ASSUME IsFiniteSet(Object), NEW heap \in SUBSET Item, \A u, v \in heap : u.Object = v.Object => u = v,
           NEW u \in heap, \A v \in heap : u.due <= v.due, NEW t \in heap \ {u},
           NEW s \in Nat, NEW r \in Nat, r <= s + 1, NEW y, Spared(heap, t, s, y)
    PROVE  Spared(heap \ {u}, t, r, y)
<1>1. NotBehind(heap \ {u}, t) = NotBehind(heap, t) \ {u.Object} /\ heap \ {u} \in SUBSET Item
  BY DEF NotBehind
<1>2. u.Object \in NotBehind(heap, t)
  BY DEF NotBehind
<1>3. IsFiniteSet(NotBehind(heap, t)) /\ Cardinality(NotBehind(heap, t)) \in Nat
  BY NotBehindIs
<1>4. Cardinality(NotBehind(heap \ {u}, t)) = Cardinality(NotBehind(heap, t)) - 1
  <2> DEFINE S == NotBehind(heap, t)
             o == u.Object
  <2> HIDE DEF S, o
  <2>1. o \in S /\ IsFiniteSet(S)
    BY <1>2, <1>3 DEF S, o
  <2>2. Cardinality(S \ {o}) = Cardinality(S) - 1
    BY <2>1, FS_RemoveElement
  <2> QED
    BY <1>1, <2>2 DEF S, o
<1>5. r + Cardinality(NotBehind(heap \ {u}, t)) <= s + Cardinality(NotBehind(heap, t))
  BY <1>3, <1>4
<1> QED
  BY <1>1, <1>5, Fewer

\* A frame is over, and it has served three others.
LEMMA AnotherFrame ==
    ASSUME IsFiniteSet(Object), NEW heap \in SUBSET Item, NEW rest \in SUBSET Item, NEW t \in Item,
           NotBehind(rest, t) = NotBehind(heap, t), Spared(heap, t, 3, 1)
    PROVE  Spared(rest, t, 0, 0)
<1>1. Cardinality(NotBehind(heap, t)) \in Nat /\ Cardinality(Object) \in Nat
  BY NotBehindIs
<1>2. PICK f \in 0..Cardinality(Object) :
          /\ 3 * f + 3 + Cardinality(NotBehind(heap, t)) <= Cardinality(Object)
          /\ t.due >= -(MaxElapsed * (f + 1))
  BY DEF Spared
<1>3. f + 1 \in 0..Cardinality(Object) /\ (f + 1) + 0 = f + 1
      /\ 3 * (f + 1) + 0 + Cardinality(NotBehind(rest, t)) <= Cardinality(Object)
  BY <1>1, <1>2
<1>4. t.due >= -(MaxElapsed * ((f + 1) + 0))
  BY <1>2, <1>3
<1> QED
  BY <1>3, <1>4 DEF Spared

\* The next frame begins, d later; nothing is so late that Aged loses it.
LEMMA GrowsOld ==
    ASSUME LateEnough, NEW t \in Items, Items \in SUBSET Item, NEW d \in 0..MaxElapsed,
           Spared(Items, t, 0, 0)
    PROVE  /\ Aged(t, d) \in Item /\ Aged(t, d).Object = t.Object /\ Aged(t, d).due = t.due - d
           /\ \E f \in 0..Cardinality(Object) :
                 /\ 3 * f + 0 + Cardinality(NotBehind(Items, t)) <= Cardinality(Object)
                 /\ t.due - d >= -(MaxElapsed * (f + 1))
<1>1. /\ Cardinality(NotBehind(Items, t)) \in Nat /\ Cardinality(Object) \in Nat
      /\ IsFiniteSet(NotBehind(Items, t))
  BY NotBehindIs DEF LateEnough
<1>2. PICK f \in 0..Cardinality(Object) :
          /\ 3 * f + 0 + Cardinality(NotBehind(Items, t)) <= Cardinality(Object)
          /\ t.due >= -(MaxElapsed * (f + 0))
  BY DEF Spared
<1>3. Cardinality(NotBehind(Items, t)) # 0
  <2>1. t.Object \in NotBehind(Items, t)
    BY DEF NotBehind, Item
  <2> QED
    BY <1>1, <2>1, FS_EmptySet
<1>4. 3 * f < Cardinality(Object)
  BY <1>1, <1>2, <1>3
<1>5. MaxElapsed * (f + 1) < MaxLate
  BY <1>2, <1>4 DEF LateEnough
<1>6. /\ MaxElapsed \in Nat /\ MaxElapsed * (f + 0) \in Nat /\ MaxElapsed * (f + 1) \in Nat
      /\ MaxElapsed * (f + 1) = MaxElapsed * (f + 0) + MaxElapsed
  <2>1. f \in Nat
    BY <1>1, <1>2
  <2> QED
    BY <2>1, Rest
<1>7. t.due - d >= -(MaxElapsed * (f + 1)) /\ ~(t.due - d < -MaxLate)
  <2> DEFINE m == MaxElapsed * (f + 0)
             n == MaxElapsed * (f + 1)
  <2>1. m \in Nat /\ n \in Nat /\ n = m + MaxElapsed /\ n < MaxLate /\ t.due >= -m
    BY <1>2, <1>5, <1>6
  <2>2. t.due \in Int /\ d \in Nat /\ d <= MaxElapsed /\ MaxElapsed \in Nat /\ MaxLate \in Nat
    BY <1>6, BoundAssumption DEF Item
  <2> HIDE DEF m, n
  <2>3. t.due - d >= -n /\ ~(t.due - d < -MaxLate)
    BY <2>1, <2>2
  <2> QED
    BY <2>3 DEF n
<1>8. Aged(t, d) = [t EXCEPT !.due = t.due - d]
  BY <1>7 DEF Aged
<1> QED
  BY <1>2, <1>7, <1>8 DEF Item

Began == IF at \in {"outside", "after"} THEN 0 ELSE 1

LEMMA ServedIs ==
    ASSUME TypeOK
    PROVE  /\ Served \in Nat /\ Began \in {0, 1}
           /\ at = "items" => Served = i
           /\ at = "update" => Served = i + 1
           /\ at = "limit" => Served = 3
           /\ at \notin {"items", "update", "limit"} => Served = 0
BY DEF TypeOK, Served, Began

LEMMA WaitedIs ==
    Waited <=> /\ \A t \in ItemsProcessed : t.due > 0
               /\ \A t \in Items : Spared(Items, t, Served, Began)
BY DEF Waited, Began

LEMMA WaitedInTime ==
    ASSUME LateEnough, TypeOK, Waited
    PROVE  InTime
<1>1. Items \in SUBSET Item /\ IsFiniteSet(Object) /\ Served \in Nat /\ Began \in {0, 1}
  BY ServedIs DEF TypeOK, LateEnough
<1>2. ASSUME NEW t \in Items
      PROVE  t.due > -MaxLate
  <2>1. PICK f \in 0..Cardinality(Object) :
            /\ 3 * f + Served + Cardinality(NotBehind(Items, t)) <= Cardinality(Object)
            /\ t.due >= -(MaxElapsed * (f + Began))
    BY WaitedIs DEF Spared
  <2>2. /\ Cardinality(NotBehind(Items, t)) \in Nat /\ Cardinality(Object) \in Nat
        /\ IsFiniteSet(NotBehind(Items, t))
    BY <1>1, NotBehindIs
  <2>3. Cardinality(NotBehind(Items, t)) # 0
    <3>1. t.Object \in NotBehind(Items, t)
      BY <1>1 DEF NotBehind, Item
    <3> QED
      BY <2>2, <3>1, FS_EmptySet
  <2>4. 3 * f < Cardinality(Object)
    BY <1>1, <2>1, <2>2, <2>3
  <2>5. MaxElapsed * (f + 1) < MaxLate
    BY <2>1, <2>4 DEF LateEnough
  <2>6. /\ MaxElapsed \in Nat /\ MaxElapsed * (f + 0) \in Nat /\ MaxElapsed * (f + 1) \in Nat
        /\ MaxElapsed * (f + 1) = MaxElapsed * (f + 0) + MaxElapsed
    <3>1. f \in Nat
      BY <2>1, <2>2
    <3> QED
      BY <3>1, Rest
  <2> DEFINE m == MaxElapsed * (f + 0)
             n == MaxElapsed * (f + 1)
  <2>7. m \in Nat /\ n \in Nat /\ n = m + MaxElapsed /\ n < MaxLate /\ (t.due >= -m \/ t.due >= -n)
    BY <1>1, <2>1, <2>5, <2>6
  <2>8. t.due \in Int /\ MaxElapsed \in Nat /\ MaxLate \in Nat
    BY <1>1, BoundAssumption DEF Item
  <2> HIDE DEF m, n
  <2> QED
    BY <2>7, <2>8
<1> QED
  BY <1>2 DEF InTime

\* A step that serves nobody and puts nobody into the heap.
LEMMA Idles ==
    ASSUME LateEnough, IInv, IInv', Waited, Items' \subseteq Items, \A t \in ItemsProcessed' : t.due > 0,
           Served' <= Served, Began' = Began
    PROVE  Waited'
<1>1. Items \in SUBSET Item /\ Items' \in SUBSET Items /\ Served \in Nat /\ Served' \in Nat /\ IsFiniteSet(Object)
  <2>1. i \in 0..2 /\ i' \in 0..2 /\ Items \in SUBSET Item /\ IsFiniteSet(Object)
    BY DEF IInv, TypeOK, LateEnough
  <2> QED
    BY <2>1 DEF Served
<1>2. ASSUME NEW t \in Items'
      PROVE  Spared(Items', t, Served', Began')
  <2>1. t \in Items /\ Spared(Items, t, Served, Began)
    BY <1>1, WaitedIs
  <2>2. Spared(Items', t, Served', Began)
    BY <1>1, <2>1, Lost
  <2> QED
    BY <2>2
<1> QED
  BY <1>2, WaitedIs DEF Waited, Began

\* internal_Register puts an object into the heap that is not late.
LEMMA RegistersInTime ==
    ASSUME LateEnough, IInv, IInv', Waited, DoRegister
    PROVE  Waited'
<1>1. /\ at' = at /\ i' = i /\ ItemsProcessed' = ItemsProcessed /\ Served' = 0 /\ Served = 0 /\ Began' = Began
      /\ Items' = Items \/ Items' = Items \cup {[Object |-> Head(Registration).Object, due |-> 0]}
  BY DEF DoRegister, Registering, place, Served, Began
<1>2. Items \in SUBSET Item /\ Items' \in SUBSET Item /\ IsFiniteSet(Object) /\ Began \in {0, 1}
  BY ServedIs DEF IInv, TypeOK, LateEnough
<1>3. CASE Items' = Items
  BY <1>1, <1>3, Idles, WaitedIs
<1>4. CASE Items' = Items \cup {[Object |-> Head(Registration).Object, due |-> 0]}
  <2>1. ASSUME NEW t \in Items'
        PROVE  Spared(Items', t, 0, Began)
    <3>1. CASE t.due >= 0
      BY <1>2, <3>1, Fresh
    <3>2. CASE t.due < 0
      <4>1. t \in Items /\ Spared(Items, t, 0, Began)
        BY <1>1, <1>4, <3>2, WaitedIs
      <4>2. NotBehind(Items', t) = NotBehind(Items, t)
        <5>1. ASSUME NEW v \in Items', v.due <= t.due
              PROVE  v \in Items
          <6>1. CASE v = [Object |-> Head(Registration).Object, due |-> 0]
            <7>1. v.due = 0 /\ t.due \in Int
              BY <1>2, <6>1 DEF Item
            <7> QED
              BY <3>2, <5>1, <7>1
          <6> QED
            BY <1>4, <6>1
        <5>2. {v \in Items' : v.due <= t.due} = {v \in Items : v.due <= t.due}
          BY <1>4, <5>1
        <5> QED
          BY <5>2 DEF NotBehind
      <4> QED
        BY <4>1, <4>2 DEF Spared
    <3> QED
      BY <1>2, <3>1, <3>2 DEF Item
  <2> QED
    BY <1>1, <2>1, WaitedIs DEF Waited, Began
<1> QED
  BY <1>1, <1>3, <1>4

\* The heap's first item is served.
LEMMA ServesInTime ==
    ASSUME LateEnough, IInv, IInv', Waited, NEW u \in Items, RetireItem(u) \/ UpdateItem(u)
    PROVE  Waited'
<1>1. /\ at = "items" /\ Items' = Items \ {u} /\ \A v \in Items : u.due <= v.due
      /\ ItemsProcessed' = ItemsProcessed /\ Began' = Began
      /\ \/ at' = "items" /\ i' = (i + 1) % 3
         \/ at' = "update" /\ i' = i
  BY DEF RetireItem, UpdateItem, Due, IsTop, NextItem, Began
<1>2. /\ Items \in SUBSET Item /\ i \in 0..2 /\ IsFiniteSet(Object)
      /\ \A t, v \in Items : t.Object = v.Object => t = v
  BY DEF IInv, TypeOK, LateEnough, ListedOnce
<1>3. Served \in Nat /\ Served' \in Nat /\ Served' <= Served + 1
  <2>1. Served = i
    BY <1>1 DEF Served
  <2>3. (i + 1) % 3 <= i + 1 /\ (i + 1) % 3 \in Nat
    BY <1>2
  <2>4. CASE at' = "items" /\ i' = (i + 1) % 3
    <3>1. Served' = i'
      BY <2>4 DEF Served
    <3> QED
      BY <1>2, <2>1, <2>3, <2>4, <3>1
  <2>5. CASE at' = "update" /\ i' = i
    <3>1. Served' = i + 1
      BY <2>5 DEF Served
    <3> QED
      BY <1>2, <2>1, <3>1
  <2> QED
    BY <1>1, <2>4, <2>5
<1>4. ASSUME NEW t \in Items \ {u}
      PROVE  Spared(Items \ {u}, t, Served', Began)
  <2>1. Spared(Items, t, Served, Began)
    BY WaitedIs
  <2> QED
    BY <1>1, <1>2, <1>3, <2>1, Served1
<1> QED
  BY <1>1, <1>4, WaitedIs DEF Waited, Began

\* What was served goes back into the heap when three were, or nobody else is late.
LEMMA EndsInTime ==
    ASSUME LateEnough, IInv, IInv', Waited, InTime, PushBack
    PROVE  Waited'
<1>1. /\ Items' = Items \cup ItemsProcessed /\ ItemsProcessed' = {} /\ Served' = 0 /\ Began' = 0
      /\ at \in {"items", "limit"} /\ Began = 1
      /\ at = "limit" => Served = 3
      /\ at = "items" => \A t \in Items : ~Due(t)
  BY DEF PushBack, Served, Began
<1>2. Items \in SUBSET Item /\ ItemsProcessed \in SUBSET Item /\ Items' \in SUBSET Item /\ IsFiniteSet(Object)
  BY DEF IInv, TypeOK, LateEnough
<1>3. \A t \in ItemsProcessed : t.due > 0
  BY WaitedIs
<1>4. ASSUME NEW t \in Items, t.due < 0
      PROVE  at = "limit"
  <2> SUFFICES ASSUME at = "items"
               PROVE  FALSE
    BY <1>1
  <2> DEFINE I == {u.due + MaxLate : u \in Items}
  <2>1. \A u \in Items : u.due \in Int /\ u.due + MaxLate \in Nat
    BY <1>2, BoundAssumption DEF InTime, Item
  <2>2. I \in SUBSET Nat /\ I # {}
    BY <2>1
  <2>3. PICK m \in I : \A n \in I : m =< n
    BY <2>2, LeastIndex
  <2>4. PICK u \in Items : m = u.due + MaxLate
    BY <2>3
  <2>5. \A v \in Items : u.due <= v.due
    <3>1. ASSUME NEW v \in Items
          PROVE  u.due <= v.due
      <4>1. u.due + MaxLate =< v.due + MaxLate
        BY <2>3, <2>4
      <4> QED
        BY <2>1, <4>1, BoundAssumption
    <3> QED
      BY <3>1
  <2>6. u.due < 0
    BY <1>4, <2>1, <2>5
  <2>7. Due(u)
    BY <2>5, <2>6 DEF Due, IsTop
  <2> QED
    BY <1>1, <2>7
<1>5. ASSUME NEW t \in Items'
      PROVE  Spared(Items', t, 0, 0)
  <2>1. CASE t.due >= 0
    BY <1>2, <2>1, Fresh
  <2>2. CASE t.due < 0
    <3>1. t \in Items
      BY <1>1, <1>2, <1>3, <2>2 DEF Item
    <3>2. Spared(Items, t, 3, 1)
      BY <1>1, <1>4, <2>2, <3>1, WaitedIs
    <3>3. NotBehind(Items', t) = NotBehind(Items, t)
      <4>1. ASSUME NEW v \in ItemsProcessed
            PROVE  ~(v.due <= t.due)
        BY <1>2, <1>3, <2>2, <3>1 DEF Item
      <4>2. {v \in Items' : v.due <= t.due} = {v \in Items : v.due <= t.due}
        BY <1>1, <4>1
      <4> QED
        BY <4>2 DEF NotBehind
    <3> QED
      BY <1>2, <3>1, <3>2, <3>3, AnotherFrame
  <2> QED
    BY <1>2, <2>1, <2>2 DEF Item
<1> QED
  BY <1>1, <1>5, WaitedIs DEF Waited, Began

\* A frame begins.
LEMMA AgesInTime ==
    ASSUME LateEnough, IInv, IInv', Waited, NEW d \in 0..MaxElapsed, StartUpdate(d)
    PROVE  Waited'
<1>1. /\ Items' = {Aged(t, d) : t \in Items} /\ ItemsProcessed' = ItemsProcessed
      /\ Served = 0 /\ Served' = 0 /\ Began = 0 /\ Began' = 1
  BY DEF StartUpdate, Served, Began
<1>2. Items \in SUBSET Item /\ Items' \in SUBSET Item /\ IsFiniteSet(Object) /\ d \in Int
  BY BoundAssumption DEF IInv, TypeOK, LateEnough
<1>3. \A t \in Items : /\ Spared(Items, t, 0, 0)
                       /\ Aged(t, d) \in Item /\ Aged(t, d).Object = t.Object /\ Aged(t, d).due = t.due - d
  BY <1>1, <1>2, WaitedIs, GrowsOld
<1>4. ASSUME NEW t \in Items
      PROVE  NotBehind(Items', Aged(t, d)) = NotBehind(Items, t)
  <2>1. \A u \in Items : Aged(u, d).due <= Aged(t, d).due <=> u.due <= t.due
    BY <1>2, <1>3 DEF Item
  <2>2. \A o : o \in NotBehind(Items', Aged(t, d)) <=> \E u \in Items' : u.due <= Aged(t, d).due /\ o = u.Object
    BY DEF NotBehind
  <2>3. \A o : o \in NotBehind(Items, t) <=> \E u \in Items : u.due <= t.due /\ o = u.Object
    BY DEF NotBehind
  <2>4. ASSUME NEW o
        PROVE  o \in NotBehind(Items', Aged(t, d)) <=> o \in NotBehind(Items, t)
    <3>1. (\E u \in Items' : u.due <= Aged(t, d).due /\ o = u.Object)
             <=> \E u \in Items : Aged(u, d).due <= Aged(t, d).due /\ o = Aged(u, d).Object
      BY <1>1
    <3>2. (\E u \in Items : Aged(u, d).due <= Aged(t, d).due /\ o = Aged(u, d).Object)
             <=> \E u \in Items : u.due <= t.due /\ o = u.Object
      BY <1>3, <2>1
    <3> QED
      BY <2>2, <2>3, <3>1, <3>2
  <2> QED
    BY <2>4
<1>5. ASSUME NEW t \in Items
      PROVE  Spared(Items', Aged(t, d), 0, 1)
  <2>1. PICK f \in 0..Cardinality(Object) :
            /\ 3 * f + 0 + Cardinality(NotBehind(Items, t)) <= Cardinality(Object)
            /\ t.due - d >= -(MaxElapsed * (f + 1))
    BY <1>2, <1>3, GrowsOld
  <2> QED
    BY <1>3, <1>4, <2>1 DEF Spared
<1> QED
  BY <1>1, <1>5, WaitedIs DEF Waited, Began

LEMMA StaysInTime ==
    ASSUME LateEnough, IInv, IInv', Waited, InTime, [Next]_vars
    PROVE  Waited'
<1> USE DEF IInv
<1>0. \A t \in ItemsProcessed : t.due > 0
  BY WaitedIs
<1>1. ASSUME NEW o \in Object, TakeOut(o), UNCHANGED place
      PROVE  Waited'
  <2>1. Items' \subseteq Items /\ ItemsProcessed' = ItemsProcessed
    BY <1>1 DEF TakeOut, Unlist, Defer, lists
  <2>2. Served' = Served /\ Began' = Began /\ Served \in Nat
    BY <1>1, ServedIs DEF place, Served, Began
  <2> QED
    BY <1>0, <2>1, <2>2, Idles
<1>2. ASSUME Items' = Items, ItemsProcessed' = ItemsProcessed, Began' = Began, Served' <= Served
      PROVE  Waited'
  BY <1>0, <1>2, Idles
<1>3. ASSUME UNCHANGED <<lists, at, i>>
      PROVE  Waited'
  <2>1. Served' = Served /\ Began' = Began /\ Served \in Nat
    BY <1>3, ServedIs DEF Served, Began
  <2> QED
    BY <1>2, <1>3, <2>1 DEF lists
<1>4. CASE Application
  BY <1>1, <1>3, <1>4 DEF Application, Construct, Register, Unregister, Destruct, place
<1>5. CASE \E d \in 0..MaxElapsed : StartUpdate(d)
  BY <1>5, AgesInTime
<1>6. CASE SkipPair
  BY <1>3, <1>6 DEF SkipPair, place
<1>7. CASE DoRegister
  BY <1>7, RegistersInTime
<1>8. CASE DoUnregister
  <2>1. Items' \subseteq Items /\ ItemsProcessed' = ItemsProcessed
    BY <1>8 DEF DoUnregister, Unlist
  <2>2. Served' = Served /\ Began' = Began /\ Served \in Nat
    BY <1>8, ServedIs DEF DoUnregister, place, Served, Began
  <2> QED
    BY <1>0, <2>1, <2>2, Idles
<1>9. CASE StartItemsRT \/ SkipRT \/ UpdateRT \/ ReturnRT
  <2>1. Items' = Items /\ ItemsProcessed' = ItemsProcessed /\ Began = 1 /\ Began' = 1 /\ Served = 0 /\ Served' = 0
    BY <1>9 DEF StartItemsRT, SkipRT, UpdateRT, ReturnRT, lists, Served, Began
  <2> QED
    BY <1>2, <2>1
<1>10. CASE ProcessStep
  <2>1. Items' = Items /\ ItemsProcessed' = ItemsProcessed /\ Began = 1 /\ Began' = 1 /\ Served = 0 /\ Served' = 0
    BY <1>10 DEF ProcessStep, lists, Served, Began
  <2> QED
    BY <1>2, <2>1
<1>11. CASE \E t \in Items : RetireItem(t) \/ UpdateItem(t)
  BY <1>11, ServesInTime
<1>12. ASSUME NEW u \in 1..MaxUpdate, ReturnItem(u)
       PROVE  Waited'
  <2>1. /\ Items' = Items /\ Began = 1 /\ Began' = 1 /\ Served = i + 1
        /\ Served' = IF i = 2 THEN 3 ELSE (i + 1) % 3
    BY <1>12 DEF ReturnItem, Return, NextItem, Served, Began
  <2>2. i \in 0..2
    BY DEF TypeOK
  <2>3. Served' <= Served
    BY <2>1, <2>2
  <2>4. \A t \in ItemsProcessed' : t.due > 0
    <3>1. ItemsProcessed' = ItemsProcessed \cup {[Object |-> current, due |-> u]} /\ u > 0
      BY <1>12 DEF ReturnItem
    <3> QED
      BY <1>0, <3>1
  <2> QED
    BY <2>1, <2>3, <2>4, Idles
<1>13. CASE ThrowItem
  <2>1. /\ Items' = Items /\ ItemsProcessed' = ItemsProcessed /\ Began = 1 /\ Began' = 1 /\ Served = i + 1
        /\ Served' = (i + 1) % 3
    BY <1>13 DEF ThrowItem, NextItem, lists, Served, Began
  <2>2. i \in 0..2
    BY DEF TypeOK
  <2>3. Served' <= Served
    BY <2>1, <2>2
  <2> QED
    BY <1>2, <2>1, <2>3
<1>14. CASE GoOn
  <2>1. /\ Items' = Items /\ ItemsProcessed' = ItemsProcessed /\ Began = 1 /\ Began' = 1 /\ Served = 3
        /\ Served' = i
    BY <1>14 DEF GoOn, lists, Served, Began
  <2>2. i \in 0..2
    BY DEF TypeOK
  <2> QED
    BY <1>2, <2>1, <2>2
<1>15. CASE PushBack
  BY <1>15, EndsInTime
<1>16. CASE EndUpdate
  <2>1. Items' = Items /\ ItemsProcessed' = ItemsProcessed /\ Began = 0 /\ Began' = 0 /\ Served = 0 /\ Served' = 0
    BY <1>16 DEF EndUpdate, lists, Served, Began
  <2> QED
    BY <1>2, <2>1
<1>17. CASE UNCHANGED vars
  BY <1>3, <1>17 DEF vars, lists
<1> QED
  BY <1>4, <1>5, <1>6, <1>7, <1>8, <1>9, <1>10, <1>11, <1>12, <1>13, <1>14, <1>15, <1>16, <1>17
     DEF Next, Update, Step

\* CSheduler::ProcessStep looks at the time only after every third object, and serves
\* who has been due for longest first: nobody is ever later than a frame for himself and
\* one for every three of the others, however many register, throw or come back.
THEOREM ServedInTime == ASSUME LateEnough PROVE Spec => []InTime
<1>1. Init => Waited
  BY DEF Init, Waited
<1>2. IInv /\ IInv' /\ Waited /\ [Next]_vars => Waited'
  <2> SUFFICES ASSUME IInv, IInv', Waited, [Next]_vars
               PROVE  Waited'
    OBVIOUS
  <2>1. InTime
    BY WaitedInTime DEF IInv
  <2> QED
    BY <2>1, StaysInTime
<1>3. IInv /\ Waited => InTime
  BY WaitedInTime DEF IInv
<1> QED
  BY <1>1, <1>2, <1>3, ListsAgree, PTL DEF Spec
=============================================================================
