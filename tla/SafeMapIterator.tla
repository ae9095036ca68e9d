---------------------------- MODULE SafeMapIterator ----------------------------
(***************************************************************************)
(* CSafeMapIterator: a map in the order of its keys, with a place in it    *)
(* that stays valid while keys are added and removed.  The walk takes the  *)
(* next element, moves the place on, and only then works on the element.   *)
(***************************************************************************)
EXTENDS Integers, FiniteSetsExt

\* m_objects.end(), which is next() only of an empty map.
End == -1

Empty == [m_objects |-> {}, next |-> End, first |-> TRUE]

IsMap(r, Key) ==
    /\ r.m_objects \subseteq Key
    /\ IF r.m_objects = {} THEN r.next = End ELSE r.next \in r.m_objects
    /\ r.first \in BOOLEAN

begin(K) == IF K = {} THEN End ELSE Min(K)

\* The key that follows k, or the first one.
After(K, k) ==
    LET behind == {j \in K : j > k} IN IF behind = {} THEN begin(K) ELSE begin(behind)

update_next(r) == [r EXCEPT !.next = After(r.m_objects, @)]

\* Fault: the place starts again with every addition.
add_Faulty(r, k) ==
    LET more == r.m_objects \cup {k} IN [r EXCEPT !.m_objects = more, !.next = begin(more)]

add(r, k) ==
    IF r.m_objects = {} THEN [r EXCEPT !.m_objects = {k}, !.next = k]
    ELSE [r EXCEPT !.m_objects = @ \cup {k}]

remove(r, k) ==
    LET moved == IF k = r.next THEN update_next(r) ELSE r
        erased == [moved EXCEPT !.m_objects = @ \ {k}]
    IN IF k \notin r.m_objects THEN r
       ELSE IF erased.m_objects = {} THEN update_next(erased) ELSE erased
=============================================================================
