--------------------------- MODULE MCMemoryManager ----------------------------
(***************************************************************************)
(* MemoryManager for TLC: two calls of a limit manager of two, and two of  *)
(* its parent of three, one of which asks for all there is.                *)
(***************************************************************************)
EXTENDS MemoryManager

CONSTANTS a, b, c, d

MCAmt == [x \in Acquirers |-> IF x = a THEN 2 ELSE IF x = c THEN 3 ELSE 1]
=============================================================================
