----------------------------- MODULE MCContracts ------------------------------
(***************************************************************************)
(* Contracts for TLC.                                                      *)
(***************************************************************************)
EXTENDS Contracts
=============================================================================
