-------------------------- MODULE MCServerEntities --------------------------
(* Values and symmetry for the runs of ServerEntities. *)
EXTENDS ServerEntities, TLC

SingleKinds == {"actor", "weapon", "ammo", "rocket"}
DeathmatchKinds == {"actor", "spectator", "bag", "weapon", "knife"}

Sym == Permutations(ID)
=============================================================================
