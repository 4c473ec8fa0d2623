---------------------------- MODULE MemoryManager -----------------------------
(***************************************************************************)
(* The memory managers (internal/memory/memory.go) that uploads, downloads *)
(* and migrations ask for memory before they use it: a manager with a      *)
(* mutex and a condition variable, and a limit manager, which asks a child *)
(* manager of its own first and then the parent it shares with others.     *)
(*                                                                         *)
(* A section under the mutex is one step.  sync.Cond wakes its waiters in  *)
(* the order in which they began to wait; a waiter that is woken contends  *)
(* for the mutex with everyone who asks meanwhile.                         *)
(***************************************************************************)
EXTENDS Integers, Sequences, FiniteSetsExt

CONSTANTS
  Acquirers,    \* calls of AcquireMemory, each followed by its releases
  Limited,  \* the calls of the limit manager
  Amt,      \* the memory each call asks for
  Total,    \* totalAvailable of the parent
  Limit     \* and of the child

Managers == {"child", "parent"}
TotalOf == [child |-> Limit, parent |-> Total]
FirstOf(c) == IF c \in Limited THEN "child" ELSE "parent"

ASSUME MemoryAssumption ==
  /\ Total \in Nat /\ Limit \in 0..Total
  /\ Limited \subseteq Acquirers
  /\ Amt \in [Acquirers -> Nat]
  /\ \A c \in Acquirers : Amt[c] \in 1..TotalOf[FirstOf(c)]

VARIABLES
  available,
  waiting,    \* the calls in Wait, the longest first
  pc,
  at,         \* the manager that the call has come to
  remaining,  \* the memory of each manager that the call holds
  owed,       \* what the call has released in the child and will in the parent
  cancelled   \* the calls whose context is done

memoryVars == <<available, waiting, pc, at, remaining, owed, cancelled>>

MemoryTypeOK ==
  /\ available \in [Managers -> Nat]
  /\ waiting \in [Managers -> Seq(Acquirers)]
  /\ pc \in [Acquirers -> {"ask", "waiting", "woken", "undo", "holds", "releasing", "failed", "done"}]
  /\ at \in [Acquirers -> Managers]
  /\ remaining \in [Managers -> [Acquirers -> Nat]]
  /\ owed \in [Acquirers -> Nat]
  /\ cancelled \subseteq Acquirers

MemoryInit ==
  /\ available = TotalOf
  /\ waiting = [m \in Managers |-> <<>>]
  /\ pc = [c \in Acquirers |-> "ask"]
  /\ at = [c \in Acquirers |-> FirstOf(c)]
  /\ remaining = [m \in Managers |-> [c \in Acquirers |-> 0]]
  /\ owed = [c \in Acquirers |-> 0]
  /\ cancelled = {}

-----------------------------------------------------------------------------
(* The condition variable of manager m; c is the call that has the mutex and *)
(* goes on at next.                                                          *)

Signal(m, c, next) ==
  IF waiting[m] = <<>>
  THEN pc' = [pc EXCEPT ![c] = next] /\ UNCHANGED waiting
  ELSE /\ pc' = [pc EXCEPT ![c] = next, ![Head(waiting[m])] = "woken"]
       /\ waiting' = [waiting EXCEPT ![m] = Tail(@)]

Broadcast(m, c, next) ==
  /\ pc' = [x \in Acquirers |->
              IF x = c THEN next
              ELSE IF \E i \in 1..Len(waiting[m]) : waiting[m][i] = x THEN "woken"
              ELSE pc[x]]
  /\ waiting' = [waiting EXCEPT ![m] = <<>>]

Wait(m, c) ==
  /\ pc' = [pc EXCEPT ![c] = "waiting"]
  /\ waiting' = [waiting EXCEPT ![m] = Append(@, c)]

-----------------------------------------------------------------------------
(* AcquireMemory *)

\* Take the memory, and ask the parent for as much.
Take(m, c) ==
  /\ available' = [available EXCEPT ![m] = @ - Amt[c]]
  /\ remaining' = [remaining EXCEPT ![m][c] = Amt[c]]
  /\ at' = [at EXCEPT ![c] = "parent"]
  /\ Signal(m, c, IF m = "child" THEN "ask" ELSE "holds")

\* One turn of the loop.
Try(m, c) ==
  IF available[m] < Amt[c]
  THEN Wait(m, c) /\ UNCHANGED <<available, remaining, at>>
  ELSE Take(m, c)

Ask(c) ==
  /\ pc[c] = "ask"
  /\ Try(at[c], c)
  /\ UNCHANGED <<owed, cancelled>>

WakeUp(c) ==
  /\ pc[c] = "woken"
  /\ c \notin cancelled
  /\ Try(at[c], c)
  /\ UNCHANGED <<owed, cancelled>>

Given(c) == IF c \in Limited /\ at[c] = "parent" THEN "undo" ELSE "failed"

\* Mutant: a cancelled call keeps the signal to itself.
WakeUpCancelledQuietly(c) ==
  /\ pc[c] = "woken"
  /\ c \in cancelled
  /\ pc' = [pc EXCEPT ![c] = Given(c)]
  /\ UNCHANGED <<available, waiting, at, remaining, owed, cancelled>>

\* The context is done: flush out the others and give up.
WakeUpCancelled(c) ==
  /\ pc[c] = "woken"
  /\ c \in cancelled
  /\ Broadcast(at[c], c, Given(c))
  /\ UNCHANGED <<available, at, remaining, owed, cancelled>>

\* Mutant: the limit manager keeps what it has of its child.
UndoForgets(c) ==
  /\ pc[c] = "undo"
  /\ pc' = [pc EXCEPT ![c] = "failed"]
  /\ UNCHANGED <<available, waiting, at, remaining, owed, cancelled>>

\* The parent has failed: the child gets its memory back.
Undo(c) ==
  /\ pc[c] = "undo"
  /\ available' = [available EXCEPT !["child"] = @ + remaining["child"][c]]
  /\ remaining' = [remaining EXCEPT !["child"][c] = 0]
  /\ Signal("child", c, "failed")
  /\ UNCHANGED <<at, owed, cancelled>>

-----------------------------------------------------------------------------
(* Release and ReleaseSome *)

After(m, c, n) == IF remaining[m][c] = n THEN "done" ELSE "holds"

GiveBack(m, c, n, next) ==
  /\ available' = [available EXCEPT ![m] = @ + n]
  /\ remaining' = [remaining EXCEPT ![m][c] = @ - n]
  /\ Signal(m, c, next)

\* Some of the memory, or all that remains, goes back to the manager, the child
\* first.
ReleaseMemory(c) ==
  /\ pc[c] = "holds"
  /\ \E n \in 1..remaining[FirstOf(c)][c] :
       IF c \in Limited
       THEN GiveBack("child", c, n, "releasing") /\ owed' = [owed EXCEPT ![c] = n]
       ELSE GiveBack("parent", c, n, After("parent", c, n)) /\ UNCHANGED owed
  /\ UNCHANGED <<at, cancelled>>

ReleaseParent(c) ==
  /\ pc[c] = "releasing"
  /\ GiveBack("parent", c, owed[c], After("parent", c, owed[c]))
  /\ owed' = [owed EXCEPT ![c] = 0]
  /\ UNCHANGED <<at, cancelled>>

\* The caller's context is done.  Who waits does not notice before it is woken.
CancelAcquire(c) ==
  /\ c \notin cancelled
  /\ pc[c] \in {"ask", "waiting", "woken"}
  /\ cancelled' = cancelled \cup {c}
  /\ UNCHANGED <<available, waiting, pc, at, remaining, owed>>

-----------------------------------------------------------------------------
AcquireMemory(c) == Ask(c) \/ WakeUp(c) \/ WakeUpCancelled(c) \/ Undo(c)
Step(c) == AcquireMemory(c) \/ ReleaseMemory(c) \/ ReleaseParent(c)

MemoryNext == \E c \in Acquirers : Step(c) \/ CancelAcquire(c)

MemorySpec == MemoryInit /\ [][MemoryNext]_memoryVars

\* The goroutines are scheduled, and whoever holds memory releases it: uploads,
\* downloads and migrations defer the release.
MemoryFairSpec == MemorySpec /\ \A c \in Acquirers : WF_memoryVars(Step(c))

-----------------------------------------------------------------------------
(* Properties *)

\* Nobody sleeps beside a manager that has all of its memory: as long as someone
\* waits, memory is in use, whose release wakes the next, or a call that was
\* woken is about to look.
NoStall ==
  \A m \in Managers :
    waiting[m] # <<>> /\ available[m] >= TotalOf[m] =>
      \E c \in Acquirers : pc[c] = "woken" /\ at[c] = m

\* Every call of AcquireMemory returns, with the memory or without.
CallsEnd ==
  \A c \in Acquirers : pc[c] = "ask" ~> pc[c] \in {"holds", "releasing", "done", "failed"}
=============================================================================
