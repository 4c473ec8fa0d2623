------------------------------ MODULE LeaseLock ------------------------------
(***************************************************************************)
(* What the bus promises the users of a contract lock: a contract has at   *)
(* most one holder, the lock is only ever granted to a call that is asking *)
(* for it, and a holder loses it only to nobody, never directly to another *)
(* call.  ContractLocker implements this specification.                    *)
(***************************************************************************)
CONSTANTS Calls, None

VARIABLES holder, phase

absVars == <<holder, phase>>

AbsInit ==
  /\ holder = None
  /\ phase = [c \in Calls |-> "idle"]

\* The call joins the callers that want the lock.
Ask(c) ==
  /\ phase[c] = "idle"
  /\ phase' = [phase EXCEPT ![c] = "asking"]
  /\ UNCHANGED holder

\* The free lock goes to a call that wants it (at once, or after it queued).
Grant(c) ==
  /\ holder = None
  /\ phase[c] \in {"idle", "asking"}
  /\ holder' = c
  /\ phase' = [phase EXCEPT ![c] = "granted"]

\* The call ends without the lock.
GiveUp(c) ==
  /\ phase[c] = "asking"
  /\ phase' = [phase EXCEPT ![c] = "over"]
  /\ UNCHANGED holder

\* The holder releases the lock, or its lease expires.
End(c) ==
  /\ holder = c
  /\ holder' = None
  /\ phase' = [phase EXCEPT ![c] = "over"]

AbsNext == \E c \in Calls : Ask(c) \/ Grant(c) \/ GiveUp(c) \/ End(c)

AbsSpec == AbsInit /\ [][AbsNext]_absVars
=============================================================================
