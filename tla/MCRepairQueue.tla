----------------------------- MODULE MCRepairQueue -----------------------------
(***************************************************************************)
(* RepairQueue for TLC.  Levels of loss: 1 is below the exit threshold, 2  *)
(* is between the thresholds, 3 and more is at or above the entry one.     *)
(***************************************************************************)
EXTENDS RepairQueue

CONSTANTS p, q

Ev(emergency, supported, loss, unhealthy) ==
  [emergency |-> emergency, supported |-> supported, loss |-> loss,
   unhealthy |-> unhealthy, until |-> 0]

MCEvidence ==
  {Ev(FALSE, TRUE, 1, FALSE),   \* safe
   Ev(FALSE, TRUE, 2, FALSE),   \* kept only by hysteresis
   Ev(FALSE, TRUE, 3, FALSE),   \* enters
   Ev(TRUE, TRUE, 3, TRUE),     \* emergency
   Ev(FALSE, FALSE, 1, TRUE)}   \* no estimate, at or below the health cutoff
=============================================================================
