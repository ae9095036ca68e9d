--------------------------- MODULE MCReplication ---------------------------
(* Who may hold what, and see whom, in the run of Replication. *)
EXTENDS Replication

CONSTANTS actor, stalker, item, spectator

\* What lies about can be taken by the player and by a creature.
Hands == {<<actor, item>>, <<stalker, item>>}

\* A creature remembers the item it looks for.
Sight == {<<stalker, item>>}
=============================================================================
