---------------------------- MODULE MCHarvester ----------------------------
(***************************************************************************)
(* An instance of Harvester for TLC: two workers and a single proxy, so    *)
(* that every cooldown stops the whole process.                            *)
(***************************************************************************)
EXTENDS Harvester

CONSTANT u1

OneProxy == {<<u1>>}
NoLists == {}
=============================================================================
