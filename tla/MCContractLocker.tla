--------------------------- MODULE MCContractLocker ---------------------------
(***************************************************************************)
(* ContractLocker for TLC: a low priority remote client and two remote     *)
(* clients of equal, higher priority, or one of them the bus itself.       *)
(***************************************************************************)
EXTENDS ContractLocker, FiniteSets

CONSTANTS a, b, d, e

MCPriority == [c \in Calls |-> IF c = a THEN 1 ELSE IF c = e THEN 3 ELSE 2]
=============================================================================
