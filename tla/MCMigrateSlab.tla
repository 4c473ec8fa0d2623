---------------------------- MODULE MCMigrateSlab -----------------------------
(***************************************************************************)
(* MigrateSlab for TLC: four hosts, the first of which has two contracts.  *)
(***************************************************************************)
EXTENDS MigrateSlab

MCHostOf == <<1, 1, 2, 3, 4>>
=============================================================================
