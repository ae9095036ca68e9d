-------------------------- MODULE MCServerSession --------------------------
(* Where the connections of the runs of ServerSession come from. *)
EXTENDS ServerSession

CONSTANTS Home, Abroad

\* Connections one after the other from one place, or two places in turn.
OneAddress == [c \in Id |-> Home]
TwoAddresses == [c \in Id |-> IF c \in Local THEN Home ELSE Abroad]
=============================================================================
