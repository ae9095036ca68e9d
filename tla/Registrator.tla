---------------------------- MODULE Registrator ----------------------------
(***************************************************************************)
(* CRegistrator (pure.h): the list of those who are to hear of something,  *)
(* ordered by priority.  Add and Remove may be called by a listener in the *)
(* middle of Process, which walks R by index: then nothing moves, what is  *)
(* added goes to the end and what is removed is only marked, and the list  *)
(* is put in order when the walk is over.                                  *)
(***************************************************************************)
EXTENDS Integers, Sequences, SequencesExt, FiniteSets, TLC

\* REG_PRIORITY_*: of the numbers only the order is kept.
INVALID == -1

Empty == [R |-> <<>>, in_process |-> FALSE, changed |-> FALSE]

IsValid(e) == e.Prio # INVALID
Listed(reg) == {reg.R[i].Object : i \in {j \in DOMAIN reg.R : IsValid(reg.R[j])}}

\* _REG_Compare: descending.
InOrder(S) == \A i, j \in DOMAIN S : i < j => S[i].Prio >= S[j].Prio

Descending(S) == SortSeq(S, LAMBDA e, f : e.Prio > f.Prio)

\* Resort: what is invalid is then at the end, and taken off.  qsort is not
\* stable, so of what is valid those that are tied may come in any order.
Resort(reg) ==
    LET kept == {e \in ToSet(reg.R) : IsValid(e)}
        one  == Descending(SelectSeq(reg.R, IsValid))
        tied == {i \in DOMAIN one : \E j \in DOMAIN one \ {i} : one[j].Prio = one[i].Prio}
    IN  {[R |-> S, in_process |-> FALSE, changed |-> FALSE] :
            S \in {T \in {[i \in 1..Cardinality(kept) |-> IF i \in tied THEN one[swap[i]] ELSE one[i]] :
                              swap \in [tied -> tied]} :
                      ToSet(T) = kept /\ InOrder(T)}}

AddTo(reg, obj, priority) ==
    [reg EXCEPT !.R = Append(@, [Object |-> obj, Prio |-> priority]), !.changed = TRUE]

RemoveFrom(reg, obj) ==
    [reg EXCEPT !.R = [i \in DOMAIN @ |-> IF @[i].Object = obj THEN [@[i] EXCEPT !.Prio = INVALID] ELSE @[i]],
                !.changed = TRUE]

\* Fault: the list is put in order under the walk.
Settled_Faulty(reg) == {[r EXCEPT !.in_process = reg.in_process] : r \in Resort(reg)}

\* How Add and Remove end: the lists one or more of them may leave.
Settled(reg) == IF reg.in_process THEN {reg} ELSE Resort(reg)

\* Process: its beginning and its end.
Enter(reg) == [reg EXCEPT !.in_process = TRUE]

Leave(reg) == IF reg.changed THEN Resort(reg) ELSE {[reg EXCEPT !.in_process = FALSE]}
=============================================================================
