---------------------------- MODULE ContractLocker ----------------------------
(***************************************************************************)
(* The bus' contract lock (internal/bus/contractlocker.go): one lock per   *)
(* contract, a lease timer that releases it, and a priority queue of       *)
(* callers that Release hands the lock to by a rendezvous on each caller's *)
(* wake channel.  Contracts do not share state, so one contract is         *)
(* modelled.  Lock ids are random and never reused: an element of Calls is *)
(* one call of Acquire together with the id it drew.                       *)
(*                                                                         *)
(* Every critical section of lock.mu is one action, except Release, which  *)
(* blocks on the rendezvous while it holds lock.mu: `next` is the          *)
(* candidate it is blocked on, and lock.mu is free iff next = None.        *)
(***************************************************************************)
EXTENDS Integers

CONSTANTS
  Calls,     \* calls of Acquire
  None,      \* no call: id 0, nil
  Priority,  \* Priority[c]: the priority the call passes to Acquire
  Leased     \* calls of remote clients, which take the lock for 30 seconds and
             \* refresh it; the bus itself takes it for good (math.MaxInt64)

ASSUME NoneAssumption == None \notin Calls
ASSUME PriorityAssumption == Priority \in [Calls -> Int]
ASSUME LeasedAssumption == Leased \subseteq Calls

VARIABLES
  state,        \* where each call, and then its client, is
  ctxDone,      \* the calls whose context is cancelled
  heldBy,       \* contractLock.heldByID
  wakeupTimer,  \* contractLock.wakeupTimer: whose lease timer it is, or nil
  timer,        \* the state of each call's lease timer
  queue,        \* contractLock.queue
  wakeClosed,   \* the candidates whose wake channel Release has closed
  next,         \* the candidate a blocked Release offers the lock to
  renewing      \* the clients whose keepaliveLoop runs

locker == <<heldBy, wakeupTimer, timer, queue, wakeClosed, next>>
vars == <<state, ctxDone, heldBy, wakeupTimer, timer, queue, wakeClosed, next,
          renewing>>

\* "waiting" is between the unlock of lock.mu and the select, "parked" is
\* blocked in the select, "woken" has received from wake and wants lock.mu.
\* "gone" is a client that died, or never got the reply, while it had the lock.
States == {"new", "waiting", "parked", "woken", "held", "gone",
           "released", "failed", "panicked"}
\* "fired": the timer's goroutine has started and is yet to call Release.
TimerStates == {"none", "running", "stopped", "fired", "spent"}

TypeOK ==
  /\ state \in [Calls -> States]
  /\ ctxDone \subseteq Calls
  /\ heldBy \in Calls \cup {None}
  /\ wakeupTimer \in Calls \cup {None}
  /\ timer \in [Calls -> TimerStates]
  /\ queue \subseteq Calls
  /\ wakeClosed \subseteq Calls
  /\ next \in Calls \cup {None}
  /\ renewing \subseteq Leased

Init ==
  /\ state = [c \in Calls |-> "new"]
  /\ ctxDone = {}
  /\ heldBy = None
  /\ wakeupTimer = None
  /\ timer = [c \in Calls |-> "none"]
  /\ queue = {}
  /\ wakeClosed = {}
  /\ next = None
  /\ renewing = {}

MuFree == next = None

-----------------------------------------------------------------------------
(* Acquire, and NewContractLock, which starts the client's keepaliveLoop *)

SetTimer(c) ==
  /\ timer' = [timer EXCEPT ![c] = "running"]
  /\ wakeupTimer' = c

\* Acquire returns with the lock.
Returns(c) ==
  /\ state' = [state EXCEPT ![c] = "held"]
  /\ renewing' = renewing \cup ({c} \cap Leased)

\* Acquire finds the lock free.
AcquireFree(c) ==
  /\ MuFree
  /\ state[c] = "new"
  /\ heldBy = None
  /\ heldBy' = c
  /\ SetTimer(c)
  /\ Returns(c)
  /\ UNCHANGED <<ctxDone, queue, wakeClosed, next>>

\* Acquire finds the lock held and joins the queue.
AcquireQueue(c) ==
  /\ MuFree
  /\ state[c] = "new"
  /\ heldBy # None
  /\ queue' = queue \cup {c}
  /\ state' = [state EXCEPT ![c] = "waiting"]
  /\ UNCHANGED <<ctxDone, heldBy, wakeupTimer, timer, wakeClosed, next, renewing>>

\* The select with no case ready blocks; with several ready it takes any.
SelectBlocks(c) ==
  /\ state[c] = "waiting"
  /\ c \notin ctxDone \cup wakeClosed
  /\ state' = [state EXCEPT ![c] = "parked"]
  /\ UNCHANGED <<locker, ctxDone, renewing>>

SelectDone(c) ==
  /\ state[c] = "waiting"
  /\ c \in ctxDone
  /\ state' = [state EXCEPT ![c] = "failed"]
  /\ UNCHANGED <<locker, ctxDone, renewing>>

SelectClosed(c) ==
  /\ state[c] = "waiting"
  /\ c \in wakeClosed
  /\ state' = [state EXCEPT ![c] = "woken"]
  /\ UNCHANGED <<locker, ctxDone, renewing>>

\* The context of a queued call is cancelled; a parked call returns at once.
Cancel(c) ==
  /\ state[c] \in {"waiting", "parked"}
  /\ c \notin ctxDone
  /\ ctxDone' = ctxDone \cup {c}
  /\ state' = IF state[c] = "parked" THEN [state EXCEPT ![c] = "failed"]
                                     ELSE state
  /\ UNCHANGED <<locker, renewing>>

\* The woken call re-enters lock.mu: the lock is its own, or it panics.
AcquireWoken(c) ==
  /\ MuFree
  /\ state[c] = "woken"
  /\ \/ /\ heldBy = c
        /\ SetTimer(c)
        /\ Returns(c)
     \/ /\ heldBy # c
        /\ state' = [state EXCEPT ![c] = "panicked"]
        /\ UNCHANGED <<timer, wakeupTimer, renewing>>
  /\ UNCHANGED <<ctxDone, heldBy, queue, wakeClosed, next>>

-----------------------------------------------------------------------------
(* KeepAlive and Release *)

\* A tick of keepaliveLoop: KeepAlive restarts the lease, unless the lock is
\* lost or the timer has fired.
KeepAlive(c) ==
  /\ MuFree
  /\ c \in renewing
  /\ heldBy = c
  /\ wakeupTimer # None
  /\ timer[wakeupTimer] = "running"
  /\ timer' = [timer EXCEPT ![wakeupTimer] = "stopped", ![c] = "running"]
  /\ wakeupTimer' = c
  /\ UNCHANGED <<state, ctxDone, heldBy, queue, wakeClosed, next, renewing>>

\* The loop ends at the first error, of the bus or of the network: the client
\* works on without refreshing its lease.
KeepAliveFails(c) ==
  /\ c \in renewing
  /\ renewing' = renewing \ {c}
  /\ UNCHANGED <<locker, state, ctxDone>>

\* Mutant: a min-heap (Less with the comparison turned around).
MinPriority(q) == {c \in q : \A d \in q : Priority[d] >= Priority[c]}

\* The candidates heap.Pop may return: the heap does not order equals.
MaxPriority(q) == {c \in q : \A d \in q : Priority[d] <= Priority[c]}

\* Pop the next candidate of q to rendezvous with, or leave Release's loop.
PopNext(q) ==
  \/ /\ q = {}
     /\ next' = None
     /\ queue' = q
  \/ \E c \in MaxPriority(q) :
       /\ next' = c
       /\ queue' = q \ {c}

\* timer with the lease timer in lock.wakeupTimer stopped, if it was running.
StopTimer(tm) ==
  [c \in Calls |-> IF c = wakeupTimer /\ tm[c] = "running" THEN "stopped"
                                                           ELSE tm[c]]

\* Mutant: the id is not compared with heldByID.
ReleaseAnyId(c, tm) ==
  \/ /\ heldBy # None
     /\ timer' = StopTimer(tm)
     /\ wakeupTimer' = None
     /\ heldBy' = None
     /\ PopNext(queue)
  \/ /\ heldBy = None
     /\ timer' = tm
     /\ UNCHANGED <<heldBy, wakeupTimer, queue, next>>

\* Release by id c, up to the point where it blocks on a candidate; tm is
\* the timers' state at the call.  With another id it only returns an error.
ReleaseBy(c, tm) ==
  \/ /\ heldBy = c
     /\ timer' = StopTimer(tm)
     /\ wakeupTimer' = None
     /\ heldBy' = None
     /\ PopNext(queue)
  \/ /\ heldBy # c
     /\ timer' = tm
     /\ UNCHANGED <<heldBy, wakeupTimer, queue, next>>

\* The client stops its keepaliveLoop and calls Release.
Release(c) ==
  /\ MuFree
  /\ state[c] = "held"
  /\ state' = [state EXCEPT ![c] = "released"]
  /\ renewing' = renewing \ {c}
  /\ ReleaseBy(c, timer)
  /\ UNCHANGED <<ctxDone, wakeClosed>>

\* The lease timer fires: its function starts in a goroutine of its own ...
TimerFires(c) ==
  /\ c \in Leased
  /\ timer[c] = "running"
  /\ timer' = [timer EXCEPT ![c] = "fired"]
  /\ UNCHANGED <<state, ctxDone, heldBy, wakeupTimer, queue, wakeClosed, next,
                 renewing>>

\* ... and calls Release with the id it was set for.
TimerReleases(c) ==
  /\ MuFree
  /\ timer[c] = "fired"
  /\ ReleaseBy(c, [timer EXCEPT ![c] = "spent"])
  /\ UNCHANGED <<state, ctxDone, wakeClosed, renewing>>

\* Mutant: the wake channel is buffered, so the send needs no receiver.
HandOverBuffered ==
  /\ next # None
  /\ state' = IF state[next] = "parked" THEN [state EXCEPT ![next] = "woken"]
                                        ELSE state
  /\ heldBy' = next
  /\ wakeClosed' = wakeClosed \cup {next}
  /\ next' = None
  /\ UNCHANGED <<ctxDone, wakeupTimer, timer, queue, renewing>>

\* The rendezvous succeeds: the parked candidate owns the lock.
HandOver ==
  /\ next # None
  /\ state[next] = "parked"
  /\ state' = [state EXCEPT ![next] = "woken"]
  /\ heldBy' = next
  /\ wakeClosed' = wakeClosed \cup {next}
  /\ next' = None
  /\ UNCHANGED <<ctxDone, wakeupTimer, timer, queue, renewing>>

\* Mutant: Release tries one candidate only.
SkipAndStop ==
  /\ next # None
  /\ next \in ctxDone
  /\ wakeClosed' = wakeClosed \cup {next}
  /\ next' = None
  /\ UNCHANGED <<state, ctxDone, heldBy, wakeupTimer, timer, queue, renewing>>

\* The candidate's context is done: close its wake channel, try the next one.
SkipTimedOut ==
  /\ next # None
  /\ next \in ctxDone
  /\ wakeClosed' = wakeClosed \cup {next}
  /\ PopNext(queue)
  /\ UNCHANGED <<state, ctxDone, heldBy, wakeupTimer, timer, renewing>>

\* A remote client dies, or its reply is lost, while it has the lock.
ClientDies(c) ==
  /\ c \in Leased
  /\ state[c] = "held"
  /\ state' = [state EXCEPT ![c] = "gone"]
  /\ renewing' = renewing \ {c}
  /\ UNCHANGED <<locker, ctxDone>>

-----------------------------------------------------------------------------
Select(c) == SelectBlocks(c) \/ SelectDone(c) \/ SelectClosed(c)

CallStep(c) ==
  \/ AcquireFree(c) \/ AcquireQueue(c) \/ Select(c) \/ Cancel(c)
  \/ AcquireWoken(c) \/ KeepAlive(c) \/ KeepAliveFails(c) \/ Release(c)
  \/ TimerFires(c) \/ TimerReleases(c) \/ ClientDies(c)

Next == HandOver \/ SkipTimedOut \/ \E c \in Calls : CallStep(c)

Spec == Init /\ [][Next]_vars

\* The goroutines of the bus keep running, a live client releases its lock in
\* the end, and a lease that nobody refreshes any more expires.
Fairness ==
  /\ WF_vars(HandOver)
  /\ WF_vars(SkipTimedOut)
  /\ \A c \in Calls :
       /\ WF_vars(Select(c))
       /\ WF_vars(AcquireWoken(c))
       /\ WF_vars(Release(c))
       /\ WF_vars(c \notin renewing /\ TimerFires(c))
       /\ WF_vars(TimerReleases(c))

FairSpec == Spec /\ Fairness

-----------------------------------------------------------------------------
(* Properties *)

\* A client that has the lock and whose own lease has not expired is the holder
\* the bus knows, so no two clients work on a contract under a live lease: no
\* stale Release or timer of another call takes the lock away.
MutualExclusion ==
  \A c \in Calls :
     state[c] = "held" /\ timer[c] \notin {"fired", "spent"} => heldBy = c

\* A held lock can always be got back: its holder is on its way to set the
\* lease timer, or the lease timer runs or is about to call Release.  The lock
\* is never handed to a call that has returned ErrAcquireContractTimeout.
NeverOrphaned ==
  \A c \in Calls : heldBy = c =>
     \/ state[c] = "woken"
     \/ timer[c] \in {"running", "fired"}

\* A free lock has no queue: Acquire, which takes a free lock without looking
\* at the queue, overtakes nobody, and nobody waits for a lock nobody has.
FreeLockHasNoQueue == heldBy = None /\ next = None => queue = {}

\* KeepAlive calls Stop on lock.wakeupTimer without a nil check: whoever can
\* pass its id check finds a timer there, and it is its own.
KeepAliveFindsTimer ==
  \A c \in Calls : state[c] = "held" /\ heldBy = c => wakeupTimer = c

\* The lock is handed over in priority order: when Release gives the lock to a
\* candidate, nobody left in the queue has a higher priority.
PriorityHandOver ==
  [][heldBy' # heldBy /\ heldBy' # None =>
       \A d \in queue' : Priority[d] <= Priority[heldBy']]_vars

\* The assertion in Acquire, "lock should be acquired by us after being woken up".  The
\* code does not keep it: Release, which finds the call's context done, closes its wake
\* channel, and the call, which comes to its select only then, may take either case.
WokenOwnsLock == \A c \in Calls : state[c] # "panicked"

\* A queued call ends: with the lock, also when the holder died, or, if its own context
\* is done, with the error or by the panic of WokenOwnsLock.
QueuedCallEnds ==
  \A c \in Calls :
     state[c] \in {"waiting", "parked", "woken"} ~>
        \/ state[c] = "held"
        \/ c \in ctxDone /\ state[c] \in {"failed", "panicked"}

\* The abstract phase of a call.
Phase(c) ==
  IF heldBy = c THEN "granted"
  ELSE CASE state[c] = "new" -> "idle"
         [] state[c] \in {"waiting", "parked", "woken"} -> "asking"
         [] OTHER -> "over"

phases == [c \in Calls |-> Phase(c)]

Lease == INSTANCE LeaseLock WITH holder <- heldBy, phase <- phases

\* Acquire, Release, KeepAlive and the lease timers implement the abstract lock.
ImplementsLease == Lease!AbsSpec
=============================================================================
