------------------------------ MODULE MCMigrator ------------------------------
(***************************************************************************)
(* Migrator for TLC.  Two slabs share a health, so that their order is     *)
(* arbitrary.                                                              *)
(***************************************************************************)
EXTENDS Migrator

CONSTANTS a, b, c, d, w1, w2

MCHealth == [s \in Slabs |-> IF s = a THEN 0 ELSE 1]
=============================================================================
