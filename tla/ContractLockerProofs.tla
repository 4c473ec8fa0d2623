------------------------- MODULE ContractLockerProofs -------------------------
(***************************************************************************)
(* Proofs about ContractLocker for any number of callers, any priorities   *)
(* and any mix of remote clients and callers inside the bus, and, at the   *)
(* end, about MemoryManager for any calls, amounts and limits.             *)
(***************************************************************************)
EXTENDS ContractLocker, MemoryManager, Sequences, TLAPS

\* The call Release is blocked on is no holder, its wake channel is open, and
\* it has the highest priority of those that still wait.
OfferInv ==
  next # None =>
    /\ heldBy = None
    /\ next \notin queue
    /\ \A d \in queue : Priority[d] <= Priority[next]

\* A candidate has not been served; if it left, its context is done.
CandidateInv ==
  \A c \in Calls : c \in queue \/ c = next =>
    /\ c \notin wakeClosed
    /\ state[c] \in {"waiting", "parked", "failed"}
    /\ state[c] = "failed" => c \in ctxDone

\* The holder is about to set its lease timer, or has one that can release it.
HolderInv ==
  \A c \in Calls : heldBy = c =>
    \/ state[c] = "woken"
    \/ /\ state[c] \in {"held", "gone"}
       /\ timer[c] \in {"running", "fired"}
       /\ wakeupTimer = c

TimerInv == wakeupTimer # None => wakeupTimer = heldBy

\* A wake channel is closed only after its call has queued, and a call sets
\* its timer only when it returns.
FreshInv ==
  /\ \A c \in wakeClosed : state[c] # "new"
  /\ \A c \in Calls :
       state[c] \in {"new", "waiting", "parked", "woken"} => timer[c] = "none"

RenewInv == \A c \in renewing : state[c] = "held"

IInv ==
  /\ TypeOK
  /\ OfferInv
  /\ CandidateInv
  /\ HolderInv
  /\ TimerInv
  /\ FreshInv
  /\ RenewInv
  /\ MutualExclusion
  /\ FreeLockHasNoQueue

USE NoneAssumption, PriorityAssumption, LeasedAssumption

LEMMA InitIInv == Init => IInv
BY DEF Init, IInv, TypeOK, OfferInv, CandidateInv, HolderInv, TimerInv,
       RenewInv, FreshInv, MutualExclusion, FreeLockHasNoQueue, States, TimerStates

\* Leaving or entering Release's loop picks a best candidate or none.
LEMMA PopNextFacts ==
  ASSUME NEW q, q \subseteq Calls, PopNext(q)
  PROVE  /\ queue' \subseteq q
         /\ next' \in q \cup {None}
         /\ next' \notin queue'
         /\ next' = None => queue' = {}
         /\ next' # None => \A d \in queue' : Priority[d] <= Priority[next']
BY DEF PopNext, MaxPriority

\* What a Release with id c changes: the lock becomes free and is on offer to
\* the best candidate, or nothing happens.
ReleaseEffect(c, tm) ==
  \/ /\ heldBy = c
     /\ heldBy' = None
     /\ wakeupTimer' = None
     /\ queue' \subseteq queue
     /\ next' \in queue \cup {None}
     /\ next' \notin queue'
     /\ next' = None => queue' = {}
     /\ next' # None => \A d \in queue' : Priority[d] <= Priority[next']
  \/ /\ heldBy # c
     /\ timer' = tm
     /\ UNCHANGED <<heldBy, wakeupTimer, queue, next>>

LEMMA ReleaseByFacts ==
  ASSUME IInv, MuFree, NEW c \in Calls, NEW tm \in [Calls -> TimerStates],
         ReleaseBy(c, tm)
  PROVE  /\ timer' \in [Calls -> TimerStates]
         /\ \A x \in Calls : x # c => timer'[x] = tm[x]
         /\ tm[c] # "running" => timer'[c] = tm[c]
         /\ ReleaseEffect(c, tm)
<1>1. CASE heldBy = c
  <2>1. timer' = StopTimer(tm) /\ wakeupTimer' = None /\ heldBy' = None /\ PopNext(queue)
    BY <1>1 DEF ReleaseBy
  <2>2. queue \subseteq Calls
    BY DEF IInv, TypeOK
  <2>3. wakeupTimer \in {c, None}
    BY <1>1 DEF IInv, TimerInv
  <2>4. /\ timer' \in [Calls -> TimerStates]
        /\ \A x \in Calls : x # c => timer'[x] = tm[x]
        /\ tm[c] # "running" => timer'[c] = tm[c]
    BY <2>1, <2>3 DEF StopTimer, TimerStates
  <2> QED
    BY <1>1, <2>1, <2>2, <2>4, PopNextFacts DEF ReleaseEffect
<1>2. CASE heldBy # c
  BY <1>2 DEF ReleaseBy, ReleaseEffect
<1> QED
  BY <1>1, <1>2

\* A Release by id c, of a client that ends its use or of a timer that fired,
\* preserves the invariant.
LEMMA ReleaseStep ==
  ASSUME IInv, next = None, NEW c \in Calls, NEW tm,
         timer' \in [Calls -> TimerStates],
         \A x \in Calls : x # c => timer'[x] = timer[x],
         ReleaseEffect(c, tm),
         UNCHANGED <<ctxDone, wakeClosed>>,
         \/ /\ state[c] = "held"
            /\ state' = [state EXCEPT ![c] = "released"]
            /\ renewing' = renewing \ {c}
         \/ /\ timer[c] = "fired"
            /\ timer'[c] = "spent"
            /\ UNCHANGED <<state, renewing>>
  PROVE  IInv'
<1> USE DEF IInv
<1>1. /\ state' \in [Calls -> States]
      /\ \A x \in Calls : x # c => state'[x] = state[x]
      /\ state'[c] = state[c] \/ (state[c] = "held" /\ state'[c] = "released")
      /\ state'[c] # state[c] \/ (timer[c] = "fired" /\ timer'[c] = "spent")
      /\ renewing' \subseteq renewing
      /\ \A x \in renewing' : state'[x] = "held"
  BY DEF TypeOK, States, RenewInv
<1>2. TypeOK' /\ OfferInv' /\ FreeLockHasNoQueue'
  BY <1>1 DEF TypeOK, OfferInv, FreeLockHasNoQueue, ReleaseEffect
<1>3. CandidateInv'
  BY <1>1 DEF TypeOK, CandidateInv, ReleaseEffect
<1>4. RenewInv' /\ FreshInv'
  BY <1>1 DEF TypeOK, RenewInv, FreshInv
<1>5. HolderInv' /\ TimerInv' /\ MutualExclusion'
  BY <1>1 DEF TypeOK, HolderInv, TimerInv, MutualExclusion, ReleaseEffect
<1> QED
  BY <1>2, <1>3, <1>4, <1>5

LEMMA NextIInv == IInv /\ [Next]_vars => IInv'
<1> SUFFICES ASSUME IInv, [Next]_vars PROVE IInv'
  OBVIOUS
<1> USE DEF IInv
<1>1. CASE UNCHANGED vars
  BY <1>1 DEF vars, TypeOK, OfferInv, CandidateInv, HolderInv, TimerInv,
              RenewInv, FreshInv, MutualExclusion, FreeLockHasNoQueue
<1>2. CASE HandOver
  <2>1. /\ next \in Calls /\ state[next] = "parked" /\ heldBy = None
        /\ next \notin queue
    BY <1>2 DEF HandOver, TypeOK, OfferInv
  <2>2. TypeOK'
    BY <1>2, <2>1 DEF HandOver, TypeOK, States
  <2>3. OfferInv' /\ CandidateInv' /\ FreeLockHasNoQueue'
    BY <1>2, <2>1 DEF HandOver, TypeOK, OfferInv, CandidateInv, FreeLockHasNoQueue
  <2>4. HolderInv' /\ TimerInv' /\ RenewInv' /\ FreshInv' /\ MutualExclusion'
    BY <1>2, <2>1 DEF HandOver, TypeOK, HolderInv, TimerInv, RenewInv, FreshInv, MutualExclusion
  <2> QED
    BY <2>2, <2>3, <2>4
<1>3. CASE SkipTimedOut
  <2>1. queue \subseteq Calls
    BY DEF TypeOK
  <2>2. /\ queue' \subseteq queue /\ next' \in queue \cup {None}
        /\ next' \notin queue'
        /\ next' = None => queue' = {}
        /\ next' # None => \A d \in queue' : Priority[d] <= Priority[next']
    BY <1>3, <2>1, PopNextFacts DEF SkipTimedOut
  <2>3. /\ next \in Calls /\ heldBy = None /\ next \notin queue
        /\ wakeClosed' = wakeClosed \cup {next}
        /\ UNCHANGED <<state, ctxDone, heldBy, wakeupTimer, timer, renewing>>
    BY <1>3 DEF SkipTimedOut, TypeOK, OfferInv
  <2>4. TypeOK' /\ OfferInv' /\ FreeLockHasNoQueue'
    BY <2>2, <2>3 DEF TypeOK, OfferInv, FreeLockHasNoQueue
  <2>5. CandidateInv'
    BY <2>2, <2>3 DEF TypeOK, CandidateInv
  <2>6. HolderInv' /\ TimerInv' /\ RenewInv' /\ FreshInv' /\ MutualExclusion'
    BY <2>3 DEF CandidateInv, HolderInv, TimerInv, RenewInv, FreshInv, MutualExclusion
  <2> QED
    BY <2>4, <2>5, <2>6
<1>4. ASSUME NEW c \in Calls, AcquireFree(c) PROVE IInv'
  <2>1. /\ heldBy = None /\ next = None /\ state[c] = "new" /\ queue = {}
        /\ heldBy' = c /\ wakeupTimer' = c
        /\ timer' = [timer EXCEPT ![c] = "running"]
        /\ state' = [state EXCEPT ![c] = "held"]
        /\ renewing' = renewing \cup ({c} \cap Leased)
        /\ UNCHANGED <<ctxDone, queue, wakeClosed, next>>
    BY <1>4 DEF AcquireFree, MuFree, SetTimer, Returns, FreeLockHasNoQueue
  <2>2. TypeOK'
    BY <2>1 DEF TypeOK, States, TimerStates
  <2>3. OfferInv' /\ CandidateInv' /\ FreeLockHasNoQueue'
    BY <2>1 DEF TypeOK, OfferInv, CandidateInv, FreeLockHasNoQueue
  <2>4. HolderInv' /\ TimerInv' /\ RenewInv' /\ FreshInv' /\ MutualExclusion'
    BY <2>1 DEF TypeOK, HolderInv, TimerInv, RenewInv, FreshInv, MutualExclusion
  <2> QED
    BY <2>2, <2>3, <2>4
<1>5. ASSUME NEW c \in Calls, AcquireQueue(c) PROVE IInv'
  <2> USE <1>5 DEF AcquireQueue, MuFree
  <2>1. TypeOK' /\ OfferInv' /\ FreeLockHasNoQueue'
    BY DEF TypeOK, States, OfferInv, FreeLockHasNoQueue
  <2>2. HolderInv' /\ TimerInv' /\ RenewInv' /\ FreshInv' /\ MutualExclusion'
    BY DEF TypeOK, HolderInv, TimerInv, RenewInv, FreshInv, MutualExclusion
  <2>3. CandidateInv'
    BY DEF TypeOK, CandidateInv, FreshInv
  <2> QED
    BY <2>1, <2>2, <2>3
<1>6. ASSUME NEW c \in Calls, Select(c) PROVE IInv'
  <2>1. /\ UNCHANGED <<locker, ctxDone, renewing>>
        /\ state[c] = "waiting"
        /\ \/ state' = [state EXCEPT ![c] = "parked"]
           \/ state' = [state EXCEPT ![c] = "failed"] /\ c \in ctxDone
           \/ state' = [state EXCEPT ![c] = "woken"] /\ c \in wakeClosed
    BY <1>6 DEF Select, SelectBlocks, SelectDone, SelectClosed
  <2> USE <2>1 DEF locker
  <2>2. TypeOK' /\ OfferInv' /\ FreeLockHasNoQueue'
    BY DEF TypeOK, States, OfferInv, FreeLockHasNoQueue
  <2>3. HolderInv' /\ TimerInv' /\ RenewInv' /\ FreshInv' /\ MutualExclusion'
    BY DEF TypeOK, HolderInv, TimerInv, RenewInv, FreshInv, MutualExclusion
  <2>4. CandidateInv'
    BY DEF TypeOK, CandidateInv
  <2> QED
    BY <2>2, <2>3, <2>4
<1>7. ASSUME NEW c \in Calls, Cancel(c) PROVE IInv'
  <2> USE <1>7 DEF Cancel, locker
  <2>1. TypeOK' /\ OfferInv' /\ FreeLockHasNoQueue'
    BY DEF TypeOK, States, OfferInv, FreeLockHasNoQueue
  <2>2. HolderInv' /\ TimerInv' /\ RenewInv' /\ FreshInv' /\ MutualExclusion'
    BY DEF TypeOK, HolderInv, TimerInv, RenewInv, FreshInv, MutualExclusion
  <2>3. CandidateInv'
    BY DEF TypeOK, CandidateInv
  <2> QED
    BY <2>1, <2>2, <2>3
<1>8. ASSUME NEW c \in Calls, AcquireWoken(c) PROVE IInv'
  <2> USE DEF AcquireWoken, MuFree, SetTimer, Returns
  <2>1. CASE heldBy = c
    <3>1. TypeOK' /\ OfferInv' /\ FreeLockHasNoQueue'
      BY <1>8, <2>1 DEF TypeOK, States, TimerStates, OfferInv, FreeLockHasNoQueue
    <3>2. HolderInv' /\ TimerInv' /\ RenewInv' /\ FreshInv' /\ MutualExclusion'
      BY <1>8, <2>1 DEF TypeOK, HolderInv, TimerInv, RenewInv, FreshInv, MutualExclusion
    <3>3. CandidateInv'
      BY <1>8, <2>1 DEF TypeOK, CandidateInv
    <3> QED
      BY <3>1, <3>2, <3>3
  <2>2. CASE heldBy # c
    <3>1. TypeOK' /\ OfferInv' /\ FreeLockHasNoQueue'
      BY <1>8, <2>2 DEF TypeOK, States, TimerStates, OfferInv, FreeLockHasNoQueue
    <3>2. HolderInv' /\ TimerInv' /\ RenewInv' /\ FreshInv' /\ MutualExclusion'
      BY <1>8, <2>2 DEF TypeOK, HolderInv, TimerInv, RenewInv, FreshInv, MutualExclusion
    <3>3. CandidateInv'
      BY <1>8, <2>2 DEF TypeOK, CandidateInv
    <3> QED
      BY <3>1, <3>2, <3>3
  <2> QED
    BY <2>1, <2>2
<1>9. ASSUME NEW c \in Calls, KeepAlive(c) PROVE IInv'
  <2>1. /\ heldBy = c /\ wakeupTimer = c /\ c \in renewing /\ timer[c] = "running"
        /\ timer' = [timer EXCEPT ![c] = "running"]
        /\ wakeupTimer' = c
        /\ UNCHANGED <<state, ctxDone, heldBy, queue, wakeClosed, next, renewing>>
    BY <1>9 DEF KeepAlive, TimerInv, TypeOK
  <2>2. TypeOK' /\ OfferInv' /\ FreeLockHasNoQueue' /\ CandidateInv'
    BY <2>1 DEF TypeOK, TimerStates, OfferInv, FreeLockHasNoQueue, CandidateInv
  <2>3. HolderInv' /\ TimerInv' /\ RenewInv' /\ FreshInv' /\ MutualExclusion'
    BY <2>1 DEF TypeOK, HolderInv, TimerInv, RenewInv, FreshInv, MutualExclusion
  <2> QED
    BY <2>2, <2>3
<1>10. ASSUME NEW c \in Calls, KeepAliveFails(c) PROVE IInv'
  BY <1>10 DEF KeepAliveFails, locker, TypeOK, OfferInv, CandidateInv, HolderInv,
               TimerInv, RenewInv, FreshInv, MutualExclusion, FreeLockHasNoQueue
<1>11. ASSUME NEW c \in Calls, Release(c) PROVE IInv'
  <2>1. /\ next = None /\ state[c] = "held"
        /\ state' = [state EXCEPT ![c] = "released"]
        /\ renewing' = renewing \ {c}
        /\ UNCHANGED <<ctxDone, wakeClosed>>
    BY <1>11 DEF Release, MuFree
  <2>2. /\ timer' \in [Calls -> TimerStates]
        /\ \A x \in Calls : x # c => timer'[x] = timer[x]
        /\ ReleaseEffect(c, timer)
    <3>1. MuFree /\ ReleaseBy(c, timer) /\ timer \in [Calls -> TimerStates]
      BY <1>11 DEF Release, TypeOK
    <3> QED
      BY <3>1, ReleaseByFacts
  <2> QED
    BY <2>1, <2>2, ReleaseStep
<1>12. ASSUME NEW c \in Calls, TimerReleases(c) PROVE IInv'
  <2>1. /\ next = None /\ timer[c] = "fired"
        /\ UNCHANGED <<state, ctxDone, wakeClosed, renewing>>
    BY <1>12 DEF TimerReleases, MuFree
  <2>2. /\ timer' \in [Calls -> TimerStates]
        /\ \A x \in Calls : x # c => timer'[x] = timer[x]
        /\ timer'[c] = "spent"
        /\ ReleaseEffect(c, [timer EXCEPT ![c] = "spent"])
    <3> DEFINE tm == [timer EXCEPT ![c] = "spent"]
    <3>1. /\ MuFree /\ ReleaseBy(c, tm) /\ tm \in [Calls -> TimerStates]
          /\ tm[c] = "spent" /\ \A x \in Calls : x # c => tm[x] = timer[x]
      BY <1>12 DEF TimerReleases, TypeOK, TimerStates
    <3> HIDE DEF tm
    <3>2. /\ timer' \in [Calls -> TimerStates]
          /\ \A x \in Calls : x # c => timer'[x] = tm[x]
          /\ tm[c] # "running" => timer'[c] = tm[c]
          /\ ReleaseEffect(c, tm)
      BY <3>1, ReleaseByFacts
    <3> QED
      BY <3>1, <3>2 DEF tm
  <2> QED
    BY <2>1, <2>2, ReleaseStep
<1>13. ASSUME NEW c \in Calls, TimerFires(c) PROVE IInv'
  <2> USE <1>13 DEF TimerFires
  <2>1. TypeOK' /\ OfferInv' /\ FreeLockHasNoQueue' /\ CandidateInv'
    BY DEF TypeOK, TimerStates, OfferInv, FreeLockHasNoQueue, CandidateInv
  <2>2. HolderInv' /\ TimerInv' /\ RenewInv' /\ FreshInv' /\ MutualExclusion'
    BY DEF TypeOK, HolderInv, TimerInv, RenewInv, FreshInv, MutualExclusion
  <2> QED
    BY <2>1, <2>2
<1>14. ASSUME NEW c \in Calls, ClientDies(c) PROVE IInv'
  <2> USE <1>14 DEF ClientDies, locker
  <2>1. TypeOK' /\ OfferInv' /\ FreeLockHasNoQueue' /\ CandidateInv'
    BY DEF TypeOK, States, OfferInv, FreeLockHasNoQueue, CandidateInv
  <2>2. HolderInv' /\ TimerInv' /\ RenewInv' /\ FreshInv' /\ MutualExclusion'
    BY DEF TypeOK, HolderInv, TimerInv, RenewInv, FreshInv, MutualExclusion
  <2> QED
    BY <2>1, <2>2
<1> QED
  BY <1>1, <1>2, <1>3, <1>4, <1>5, <1>6, <1>7, <1>8, <1>9, <1>10, <1>11,
     <1>12, <1>13, <1>14 DEF Next, CallStep

\* The invariant holds in every reachable state.
LEMMA Inductive == Spec => []IInv
BY InitIInv, NextIInv, PTL DEF Spec

\* The variables stay in their types.
THEOREM TypeCorrect == Spec => []TypeOK
<1>1. IInv => TypeOK
  BY DEF IInv
<1> QED
  BY <1>1, Inductive, PTL

\* No two clients work on a contract under a live lease.
THEOREM MutualExclusionHolds == Spec => []MutualExclusion
<1>1. IInv => MutualExclusion
  BY DEF IInv
<1> QED
  BY <1>1, Inductive, PTL

\* The lock never goes to a call that has given up, and can always come back.
THEOREM NeverOrphanedHolds == Spec => []NeverOrphaned
<1>1. IInv => NeverOrphaned
  BY DEF IInv, HolderInv, NeverOrphaned
<1> QED
  BY <1>1, Inductive, PTL

\* Whoever passes KeepAlive's id check finds its own timer there.
THEOREM KeepAliveFindsTimerHolds == Spec => []KeepAliveFindsTimer
<1>1. IInv => KeepAliveFindsTimer
  BY DEF IInv, HolderInv, KeepAliveFindsTimer
<1> QED
  BY <1>1, Inductive, PTL

\* Nobody waits for a lock that nobody has.
THEOREM FreeLockHasNoQueueHolds == Spec => []FreeLockHasNoQueue
<1>1. IInv => FreeLockHasNoQueue
  BY DEF IInv
<1> QED
  BY <1>1, Inductive, PTL

\* The lock is handed over in priority order.
THEOREM PriorityHandOverHolds == Spec => PriorityHandOver
<1>1. IInv /\ [Next]_vars =>
        [heldBy' # heldBy /\ heldBy' # None =>
           \A d \in queue' : Priority[d] <= Priority[heldBy']]_vars
  <2> SUFFICES ASSUME IInv, Next, heldBy' # heldBy, heldBy' # None
               PROVE  \A d \in queue' : Priority[d] <= Priority[heldBy']
    OBVIOUS
  <2>1. CASE HandOver
    BY <2>1 DEF HandOver, IInv, OfferInv
  <2>2. CASE SkipTimedOut
    BY <2>2 DEF SkipTimedOut
  <2>3. ASSUME NEW c \in Calls, CallStep(c)
        PROVE  \A d \in queue' : Priority[d] <= Priority[heldBy']
    <3>1. CASE AcquireFree(c)
      BY <3>1 DEF AcquireFree, MuFree, IInv, FreeLockHasNoQueue
    <3>2. CASE Release(c) \/ TimerReleases(c)
      BY <3>2 DEF Release, TimerReleases, ReleaseBy
    <3> QED
      BY <2>3, <3>1, <3>2 DEF CallStep, AcquireQueue, Select, SelectBlocks,
         SelectDone, SelectClosed, Cancel, AcquireWoken, KeepAlive,
         KeepAliveFails, TimerFires, ClientDies, locker
  <2> QED
    BY <2>1, <2>2, <2>3 DEF Next
<1> QED
  BY <1>1, Inductive, PTL DEF Spec, PriorityHandOver

-----------------------------------------------------------------------------
(* Refinement: every step is a step of LeaseLock, or changes nothing in it. *)

\* The abstract phases follow from the holder and the calls' states.
LEMMA SamePhases ==
  ASSUME UNCHANGED heldBy,
         \A c \in Calls : state'[c] = state[c] \/ Phase(c)' = Phase(c)
  PROVE  UNCHANGED Lease!absVars
<1>1. \A c \in Calls : Phase(c)' = Phase(c)
  BY DEF Phase
<1> QED
  BY <1>1 DEF phases, Lease!absVars

\* One call's phase changes and the others' do not.
LEMMA OnePhase ==
  ASSUME NEW c \in Calls, NEW ph, Phase(c)' = ph,
         \A x \in Calls : x # c => state'[x] = state[x],
         \A x \in Calls : x # c => (heldBy' = x <=> heldBy = x)
  PROVE  phases' = [phases EXCEPT ![c] = ph]
<1>1. \A x \in Calls : x # c => Phase(x)' = Phase(x)
  BY DEF Phase
<1> QED
  BY <1>1 DEF phases

LEMMA InitRefines == Init => Lease!AbsInit
BY DEF Init, Lease!AbsInit, phases, Phase

LEMMA NextRefines == IInv /\ [Next]_vars => [Lease!AbsNext]_(Lease!absVars)
<1> SUFFICES ASSUME IInv, [Next]_vars
             PROVE  [Lease!AbsNext]_(Lease!absVars)
  OBVIOUS
<1> USE DEF IInv, TypeOK
<1>1. CASE UNCHANGED vars
  BY <1>1, SamePhases DEF vars
<1>2. CASE HandOver
  <2>1. /\ next \in Calls /\ state[next] = "parked" /\ heldBy = None
        /\ heldBy' = next /\ state' = [state EXCEPT ![next] = "woken"]
    BY <1>2 DEF HandOver, OfferInv
  <2>2. phases' = [phases EXCEPT ![next] = "granted"]
    BY <2>1, OnePhase DEF Phase
  <2>3. phases[next] = "asking"
    BY <2>1 DEF phases, Phase
  <2> QED
    BY <2>1, <2>2, <2>3 DEF Lease!AbsNext, Lease!Grant
<1>3. CASE SkipTimedOut
  BY <1>3, SamePhases DEF SkipTimedOut
<1>4. ASSUME NEW c \in Calls, AcquireFree(c) PROVE [Lease!AbsNext]_(Lease!absVars)
  <2>1. /\ state[c] = "new" /\ heldBy = None
        /\ heldBy' = c /\ state' = [state EXCEPT ![c] = "held"]
    BY <1>4 DEF AcquireFree, Returns
  <2>2. phases' = [phases EXCEPT ![c] = "granted"]
    BY <2>1, OnePhase DEF Phase
  <2>3. phases[c] = "idle"
    BY <2>1 DEF phases, Phase
  <2> QED
    BY <2>1, <2>2, <2>3 DEF Lease!AbsNext, Lease!Grant
<1>5. ASSUME NEW c \in Calls, AcquireQueue(c) PROVE [Lease!AbsNext]_(Lease!absVars)
  <2>1. /\ state[c] = "new" /\ heldBy # c /\ UNCHANGED heldBy
        /\ state' = [state EXCEPT ![c] = "waiting"]
    BY <1>5 DEF AcquireQueue, HolderInv
  <2>2. phases' = [phases EXCEPT ![c] = "asking"]
    BY <2>1, OnePhase DEF Phase
  <2>3. phases[c] = "idle"
    BY <2>1 DEF phases, Phase
  <2> QED
    BY <2>1, <2>2, <2>3 DEF Lease!AbsNext, Lease!Ask
<1>6. ASSUME NEW c \in Calls, Select(c) \/ Cancel(c) PROVE [Lease!AbsNext]_(Lease!absVars)
  <2>1. /\ state[c] \in {"waiting", "parked"} /\ heldBy # c /\ UNCHANGED heldBy
        /\ \/ UNCHANGED state
           \/ state' = [state EXCEPT ![c] = "parked"]
           \/ state' = [state EXCEPT ![c] = "failed"]
           \/ state' = [state EXCEPT ![c] = "woken"]
    BY <1>6 DEF Select, SelectBlocks, SelectDone, SelectClosed, Cancel, HolderInv, locker
  <2>2. CASE state' = [state EXCEPT ![c] = "failed"]
    <3>1. phases' = [phases EXCEPT ![c] = "over"]
      BY <2>1, <2>2, OnePhase DEF Phase
    <3>2. phases[c] = "asking"
      BY <2>1 DEF phases, Phase
    <3> QED
      BY <2>1, <3>1, <3>2 DEF Lease!AbsNext, Lease!GiveUp
  <2>3. CASE state' # [state EXCEPT ![c] = "failed"]
    <3>1. \A x \in Calls : state'[x] = state[x] \/ Phase(x)' = Phase(x)
      BY <2>1, <2>3 DEF Phase
    <3> QED
      BY <2>1, <3>1, SamePhases
  <2> QED
    BY <2>2, <2>3
<1>7. ASSUME NEW c \in Calls, AcquireWoken(c) PROVE [Lease!AbsNext]_(Lease!absVars)
  <2>1. state[c] = "woken" /\ UNCHANGED heldBy
    BY <1>7 DEF AcquireWoken
  <2>2. CASE heldBy = c
    <3>1. \A x \in Calls : state'[x] = state[x] \/ Phase(x)' = Phase(x)
      BY <1>7, <2>1, <2>2 DEF AcquireWoken, Returns, Phase
    <3> QED
      BY <2>1, <3>1, SamePhases
  <2>3. CASE heldBy # c
    <3>1. state' = [state EXCEPT ![c] = "panicked"]
      BY <1>7, <2>3 DEF AcquireWoken
    <3>2. phases' = [phases EXCEPT ![c] = "over"]
      BY <2>1, <2>3, <3>1, OnePhase DEF Phase
    <3>3. phases[c] = "asking"
      BY <2>1, <2>3 DEF phases, Phase
    <3> QED
      BY <2>1, <3>2, <3>3 DEF Lease!AbsNext, Lease!GiveUp
  <2> QED
    BY <2>2, <2>3
<1>8. ASSUME NEW c \in Calls,
             KeepAlive(c) \/ KeepAliveFails(c) \/ TimerFires(c)
      PROVE  [Lease!AbsNext]_(Lease!absVars)
  BY <1>8, SamePhases DEF KeepAlive, KeepAliveFails, TimerFires, locker
<1>9. ASSUME NEW c \in Calls, ClientDies(c) PROVE [Lease!AbsNext]_(Lease!absVars)
  <2>1. \A x \in Calls : state'[x] = state[x] \/ Phase(x)' = Phase(x)
    BY <1>9 DEF ClientDies, locker, Phase
  <2> QED
    BY <1>9, <2>1, SamePhases DEF ClientDies, locker
<1>10. ASSUME NEW c \in Calls, Release(c) \/ TimerReleases(c)
       PROVE  [Lease!AbsNext]_(Lease!absVars)
  <2>1. /\ \A x \in Calls : x # c => state'[x] = state[x]
        /\ \/ state[c] = "held" /\ state'[c] = "released"
           \/ timer[c] = "fired" /\ state'[c] = state[c]
        /\ \/ heldBy = c /\ heldBy' = None
           \/ heldBy # c /\ heldBy' = heldBy
    BY <1>10 DEF Release, TimerReleases, ReleaseBy
  <2>2. CASE heldBy = c
    <3>1. state[c] \in {"held", "gone"}
      BY <2>1, <2>2 DEF HolderInv, FreshInv
    <3>2. phases' = [phases EXCEPT ![c] = "over"]
      BY <2>1, <2>2, <3>1, OnePhase DEF Phase
    <3> QED
      BY <2>1, <2>2, <3>2 DEF Lease!AbsNext, Lease!End
  <2>3. CASE heldBy # c
    <3>1. \A x \in Calls : state'[x] = state[x] \/ Phase(x)' = Phase(x)
      BY <2>1, <2>3 DEF Phase
    <3> QED
      BY <2>1, <2>3, <3>1, SamePhases
  <2> QED
    BY <2>2, <2>3
<1> QED
  BY <1>1, <1>2, <1>3, <1>4, <1>5, <1>6, <1>7, <1>8, <1>9, <1>10 DEF Next, CallStep

\* Acquire, KeepAlive, Release and the lease timers implement the abstract lock.
THEOREM Refinement == Spec => ImplementsLease
BY InitRefines, NextRefines, Inductive, PTL DEF Spec, ImplementsLease, Lease!AbsSpec

-----------------------------------------------------------------------------
(* The other thing that calls wait for: the memory manager and its limit   *)
(* manager (module MemoryManager, with variables of its own), for any      *)
(* calls, amounts and limits.                                              *)

USE MemoryAssumption

MStates == {"ask", "waiting", "woken", "undo", "holds", "releasing", "failed", "done"}

\* Who is in a manager's queue waits there, and is there once.
Waiters ==
  \A m \in Managers :
    /\ \A i \in 1..Len(waiting[m]) : pc[waiting[m][i]] = "waiting" /\ at[waiting[m][i]] = m
    /\ \A i, j \in 1..Len(waiting[m]) : waiting[m][i] = waiting[m][j] => i = j

\* Only the calls of the limit manager come to the child; they have its memory
\* when they ask the parent, and what they hold of both managers is the same up
\* to a release that is half done.
Level(c) ==
  /\ at[c] = "child" => c \in Limited
  /\ c \in Limited /\ at[c] = "parent" /\ pc[c] \in {"ask", "waiting", "woken"} =>
       remaining["child"][c] = Amt[c]
  /\ c \in Limited /\ pc[c] \in {"holds", "releasing"} =>
       remaining["parent"][c] = remaining["child"][c] + owed[c]
  /\ pc[c] = "releasing" => c \in Limited
  /\ pc[c] # "releasing" => owed[c] = 0

Levels == \A c \in Acquirers : Level(c)

MInv == MemoryTypeOK /\ Waiters /\ Levels /\ NoStall

\* A call never asks a manager for more than it has in total.
LEMMA Fits ==
  ASSUME Levels, NEW c \in Acquirers, at[c] \in Managers
  PROVE  Amt[c] \in Nat /\ Amt[c] <= TotalOf[at[c]]
BY DEF Levels, Level, TotalOf, FirstOf, Managers

LEMMA TotalType ==
  TotalOf \in [Managers -> Nat]
BY DEF TotalOf, Managers

\* The head and the tail of a queue that is not empty.
LEMMA Popped ==
  ASSUME NEW q \in Seq(Acquirers), q # <<>>
  PROVE  /\ Head(q) \in Acquirers /\ Head(q) = q[1] /\ 1 \in 1..Len(q)
         /\ Tail(q) \in Seq(Acquirers)
         /\ Len(Tail(q)) = Len(q) - 1
         /\ \A i \in 1..Len(Tail(q)) : Tail(q)[i] = q[i + 1]
<1>1. Len(q) \in Nat /\ Len(q) > 0
  OBVIOUS
<1>2. Head(q) \in Acquirers /\ Head(q) = q[1] /\ 1 \in 1..Len(q)
  BY <1>1
<1>3. /\ Tail(q) \in Seq(Acquirers)
      /\ Len(Tail(q)) = Len(q) - 1
      /\ \A i \in 1..Len(Tail(q)) : Tail(q)[i] = q[i + 1]
  BY <1>1
<1> QED
  BY <1>2, <1>3

\* What a signal to m leaves of the queues and the calls.
LEMMA SignalStep ==
  ASSUME MemoryTypeOK, Waiters, NEW m \in Managers, NEW c \in Acquirers, pc[c] # "waiting",
         NEW then \in MStates \ {"waiting"}, Signal(m, c, then)
  PROVE  /\ pc' \in [Acquirers -> MStates] /\ waiting' \in [Managers -> Seq(Acquirers)]
         /\ pc'[c] = then
         /\ \A k \in Managers : \A i \in 1..Len(waiting'[k]) :
              waiting'[k][i] # c /\ pc'[waiting'[k][i]] = "waiting" /\ at[waiting'[k][i]] = k
         /\ \A k \in Managers : \A i, j \in 1..Len(waiting'[k]) :
              waiting'[k][i] = waiting'[k][j] => i = j
         /\ \A k \in Managers : k # m => waiting'[k] = waiting[k]
         /\ \A x \in Acquirers : x # c => pc'[x] = pc[x] \/ (pc[x] = "waiting" /\ pc'[x] = "woken")
         /\ waiting'[m] # <<>> => \E x \in Acquirers : x # c /\ pc'[x] = "woken" /\ at[x] = m
<1>1. CASE waiting[m] = <<>>
  <2>1. pc' = [pc EXCEPT ![c] = then] /\ waiting' = waiting
    BY <1>1 DEF Signal
  <2>2. pc' \in [Acquirers -> MStates] /\ pc'[c] = then
    BY <2>1 DEF MemoryTypeOK, MStates
  <2>3. \A x \in Acquirers : x # c => pc'[x] = pc[x]
    BY <2>1 DEF MemoryTypeOK
  <2>4. ASSUME NEW k \in Managers, NEW i \in 1..Len(waiting[k])
        PROVE  waiting[k][i] # c /\ pc'[waiting[k][i]] = "waiting" /\ at[waiting[k][i]] = k
    <3>1. waiting[k][i] \in Acquirers
      BY DEF MemoryTypeOK
    <3> QED
      BY <2>3, <3>1 DEF Waiters
  <2>5. waiting' \in [Managers -> Seq(Acquirers)]
    BY <2>1 DEF MemoryTypeOK
  <2>6. \A k \in Managers :
          \A i, j \in 1..Len(waiting'[k]) : waiting'[k][i] = waiting'[k][j] => i = j
    BY <2>1 DEF Waiters
  <2> QED
    BY <1>1, <2>1, <2>2, <2>3, <2>4, <2>5, <2>6
<1>2. CASE waiting[m] # <<>>
  <2> DEFINE h == Head(waiting[m])
  <2>1. /\ waiting[m] \in Seq(Acquirers)
        /\ h \in Acquirers /\ h = waiting[m][1] /\ 1 \in 1..Len(waiting[m])
    <3>1. waiting[m] \in Seq(Acquirers)
      BY DEF MemoryTypeOK
    <3> QED
      BY <1>2, <3>1, Popped
  <2>2. pc[h] = "waiting" /\ at[h] = m /\ h # c
    BY <2>1 DEF Waiters
  <2>3. /\ pc' = [pc EXCEPT ![c] = then, ![h] = "woken"]
        /\ waiting' = [waiting EXCEPT ![m] = Tail(@)]
    BY <1>2 DEF Signal
  <2>4. pc' \in [Acquirers -> MStates] /\ pc'[c] = then /\ pc'[h] = "woken"
    BY <2>1, <2>2, <2>3 DEF MemoryTypeOK, MStates
  <2>5. \A x \in Acquirers : x # c /\ x # h => pc'[x] = pc[x]
    BY <2>3 DEF MemoryTypeOK
  <2>6. /\ Tail(waiting[m]) \in Seq(Acquirers)
        /\ Len(Tail(waiting[m])) = Len(waiting[m]) - 1
        /\ \A i \in 1..Len(Tail(waiting[m])) : Tail(waiting[m])[i] = waiting[m][i + 1]
    BY <1>2, <2>1, Popped
  <2>7. waiting' \in [Managers -> Seq(Acquirers)] /\ waiting'[m] = Tail(waiting[m])
    BY <2>3, <2>6 DEF MemoryTypeOK
  <2>8. \A k \in Managers : k # m => waiting'[k] = waiting[k]
    BY <2>3 DEF MemoryTypeOK
  <2>9. ASSUME NEW i \in 1..Len(waiting'[m])
        PROVE  /\ waiting'[m][i] = waiting[m][i + 1] /\ i + 1 \in 1..Len(waiting[m])
               /\ waiting'[m][i] \in Acquirers /\ waiting'[m][i] # h /\ waiting'[m][i] # c
               /\ pc'[waiting'[m][i]] = "waiting" /\ at[waiting'[m][i]] = m
    <3>1. waiting'[m][i] = waiting[m][i + 1] /\ i + 1 \in 1..Len(waiting[m])
      BY <2>1, <2>6, <2>7
    <3>2. waiting[m][i + 1] \in Acquirers
      BY <2>1, <3>1
    <3>3. waiting[m][i + 1] # h
      BY <2>1, <3>1, SMTT(30) DEF Waiters
    <3>4. pc[waiting[m][i + 1]] = "waiting" /\ at[waiting[m][i + 1]] = m
      BY <3>1 DEF Waiters
    <3> QED
      BY <2>5, <3>1, <3>2, <3>3, <3>4
  <2>10. ASSUME NEW k \in Managers, k # m, NEW i \in 1..Len(waiting'[k])
         PROVE  /\ waiting'[k][i] # c /\ pc'[waiting'[k][i]] = "waiting"
                /\ at[waiting'[k][i]] = k
    <3>1. waiting'[k] = waiting[k] /\ waiting[k] \in Seq(Acquirers)
      BY <2>8, <2>10 DEF MemoryTypeOK
    <3>2. waiting[k][i] \in Acquirers /\ pc[waiting[k][i]] = "waiting" /\ at[waiting[k][i]] = k
      BY <2>10, <3>1 DEF Waiters
    <3>3. waiting[k][i] # h /\ waiting[k][i] # c
      BY <2>2, <2>10, <3>2
    <3>4. pc'[waiting[k][i]] = "waiting"
      BY <2>5, <3>2, <3>3
    <3> QED
      BY <3>1, <3>2, <3>3, <3>4
  <2>11. ASSUME NEW k \in Managers, NEW i \in 1..Len(waiting'[k]), NEW j \in 1..Len(waiting'[k]),
                waiting'[k][i] = waiting'[k][j]
         PROVE  i = j
    <3>1. CASE k = m
      <4>1. waiting[m][i + 1] = waiting[m][j + 1]
        BY <2>9, <2>11, <3>1
      <4>2. i + 1 \in 1..Len(waiting[m]) /\ j + 1 \in 1..Len(waiting[m])
        BY <2>9, <3>1
      <4>3. i + 1 = j + 1
        BY <4>1, <4>2 DEF Waiters
      <4> QED
        BY <4>3
    <3>2. CASE k # m
      BY <2>8, <2>11, <3>2 DEF Waiters
    <3> QED BY <3>1, <3>2
  <2>12. \A k \in Managers : \A i \in 1..Len(waiting'[k]) :
           waiting'[k][i] # c /\ pc'[waiting'[k][i]] = "waiting" /\ at[waiting'[k][i]] = k
    BY <2>9, <2>10
  <2>13. \A x \in Acquirers : x # c => pc'[x] = pc[x] \/ (pc[x] = "waiting" /\ pc'[x] = "woken")
    BY <2>2, <2>4, <2>5
  <2>14. \E x \in Acquirers : x # c /\ pc'[x] = "woken" /\ at[x] = m
    BY <2>1, <2>2, <2>4
  <2> QED
    BY <2>4, <2>7, <2>8, <2>11, <2>12, <2>13, <2>14
<1> QED BY <1>1, <1>2

\* What it means for c to begin to wait at m.
LEMMA WaitStep ==
  ASSUME MemoryTypeOK, Waiters, NEW c \in Acquirers, pc[c] # "waiting", Wait(at[c], c)
  PROVE  /\ pc' \in [Acquirers -> MStates] /\ waiting' \in [Managers -> Seq(Acquirers)]
         /\ pc'[c] = "waiting"
         /\ \A x \in Acquirers : x # c => pc'[x] = pc[x]
         /\ \A k \in Managers : \A i \in 1..Len(waiting'[k]) :
              pc'[waiting'[k][i]] = "waiting" /\ at[waiting'[k][i]] = k
         /\ \A k \in Managers : \A i, j \in 1..Len(waiting'[k]) :
              waiting'[k][i] = waiting'[k][j] => i = j
         /\ \A k \in Managers : k # at[c] => waiting'[k] = waiting[k]
<1> DEFINE m == at[c]
<1>1. m \in Managers /\ waiting[m] \in Seq(Acquirers)
  BY DEF MemoryTypeOK
<1>2. /\ pc' = [pc EXCEPT ![c] = "waiting"]
      /\ waiting' = [waiting EXCEPT ![m] = Append(@, c)]
  BY DEF Wait
<1>3. pc' \in [Acquirers -> MStates] /\ pc'[c] = "waiting"
  BY <1>2 DEF MemoryTypeOK, MStates
<1>4. \A x \in Acquirers : x # c => pc'[x] = pc[x]
  BY <1>2 DEF MemoryTypeOK
<1>5. /\ Append(waiting[m], c) \in Seq(Acquirers)
      /\ Len(Append(waiting[m], c)) = Len(waiting[m]) + 1
      /\ Len(waiting[m]) \in Nat
      /\ \A i \in 1..Len(waiting[m]) : Append(waiting[m], c)[i] = waiting[m][i]
      /\ Append(waiting[m], c)[Len(waiting[m]) + 1] = c
  BY <1>1
<1>6. waiting' \in [Managers -> Seq(Acquirers)] /\ waiting'[m] = Append(waiting[m], c)
  BY <1>1, <1>2, <1>5 DEF MemoryTypeOK
<1>7. \A k \in Managers : k # m => waiting'[k] = waiting[k]
  BY <1>2 DEF MemoryTypeOK
<1>8. ASSUME NEW k \in Managers, NEW i \in 1..Len(waiting[k])
      PROVE  /\ waiting[k][i] \in Acquirers /\ waiting[k][i] # c
             /\ pc'[waiting[k][i]] = "waiting" /\ at[waiting[k][i]] = k
  <2>1. waiting[k][i] \in Acquirers
    BY DEF MemoryTypeOK
  <2>2. pc[waiting[k][i]] = "waiting" /\ at[waiting[k][i]] = k
    BY DEF Waiters
  <2> QED
    BY <1>4, <2>1, <2>2
<1>9. \A k \in Managers : \A i \in 1..Len(waiting'[k]) :
        pc'[waiting'[k][i]] = "waiting" /\ at[waiting'[k][i]] = k
  <2> TAKE k \in Managers
  <2> TAKE i \in 1..Len(waiting'[k])
  <2>1. CASE k # m \/ i <= Len(waiting[m])
    <3>1. i \in 1..Len(waiting[k]) /\ waiting'[k][i] = waiting[k][i]
      <4>1. CASE k # m
        BY <1>7, <4>1
      <4>2. CASE k = m
        <5>1. i \in Nat /\ 1 <= i /\ i <= Len(waiting[m])
          BY <1>5, <1>6, <2>1, <4>2
        <5>2. i \in 1..Len(waiting[m])
          BY <1>5, <5>1
        <5> QED
          BY <1>5, <1>6, <4>2, <5>2
      <4> QED
        BY <4>1, <4>2
    <3> QED
      BY <1>8, <3>1
  <2>2. CASE k = m /\ ~(i <= Len(waiting[m]))
    <3>1. i = Len(waiting[m]) + 1
      BY <1>5, <1>6, <2>2
    <3> QED
      BY <1>3, <1>5, <1>6, <2>2, <3>1
  <2> QED
    BY <2>1, <2>2
<1>10. ASSUME NEW k \in Managers, NEW i \in 1..Len(waiting'[k]), NEW j \in 1..Len(waiting'[k]),
              waiting'[k][i] = waiting'[k][j]
       PROVE  i = j
  <2>1. CASE k # m
    BY <1>7, <1>10, <2>1 DEF Waiters
  <2>2. CASE k = m /\ i <= Len(waiting[m]) /\ j <= Len(waiting[m])
    <3>1. i \in 1..Len(waiting[m]) /\ j \in 1..Len(waiting[m])
      BY <1>5, <2>2
    <3>2. waiting[m][i] = waiting[m][j]
      BY <1>5, <1>6, <1>10, <2>2, <3>1
    <3> QED
      BY <1>1, <3>1, <3>2 DEF Waiters
  <2>3. CASE k = m /\ ~(i <= Len(waiting[m]) /\ j <= Len(waiting[m]))
    <3>1. waiting'[m][i] = waiting'[m][j] /\ i \in 1..Len(waiting[m]) + 1 /\ j \in 1..Len(waiting[m]) + 1
      BY <1>5, <1>6, <1>10, <2>3
    <3> QED
      <4> DEFINE n == Len(waiting[m])
      <4>1. n \in Nat /\ \A x \in 1..n + 1 : x \in 1..n \/ x = n + 1
        BY <1>5
      <4>2. \A x \in 1..n : waiting'[m][x] = waiting[m][x] /\ waiting[m][x] # c
        BY <1>1, <1>5, <1>6, <1>8
      <4>3. waiting'[m][n + 1] = c
        BY <1>5, <1>6
      <4>4. i \in 1..n \/ i = n + 1
        BY <3>1, <4>1
      <4>5. j \in 1..n \/ j = n + 1
        BY <3>1, <4>1
      <4>6. ~(i \in 1..n /\ j \in 1..n)
        BY <2>3, <4>1
      <4> HIDE DEF n
      <4> QED
        BY <3>1, <4>2, <4>3, <4>4, <4>5, <4>6
  <2> QED
    BY <2>1, <2>2, <2>3
<1> QED
  BY <1>3, <1>4, <1>6, <1>7, <1>9, <1>10

\* A broadcast leaves nobody in the queue of m.
LEMMA BroadcastStep ==
  ASSUME MemoryTypeOK, Waiters, NEW m \in Managers, NEW c \in Acquirers, pc[c] # "waiting",
         NEW then \in MStates \ {"waiting"}, Broadcast(m, c, then)
  PROVE  /\ pc' \in [Acquirers -> MStates] /\ waiting' \in [Managers -> Seq(Acquirers)]
         /\ pc'[c] = then
         /\ waiting'[m] = <<>>
         /\ \A k \in Managers : \A i \in 1..Len(waiting'[k]) :
              pc'[waiting'[k][i]] = "waiting" /\ at[waiting'[k][i]] = k
         /\ \A k \in Managers : \A i, j \in 1..Len(waiting'[k]) :
              waiting'[k][i] = waiting'[k][j] => i = j
         /\ \A k \in Managers : k # m => waiting'[k] = waiting[k]
         /\ \A x \in Acquirers : x # c => pc'[x] = pc[x] \/ (pc[x] = "waiting" /\ pc'[x] = "woken")
<1> DEFINE queued(x) == \E i \in 1..Len(waiting[m]) : waiting[m][i] = x
<1>1. /\ pc' = [x \in Acquirers |-> IF x = c THEN then ELSE IF queued(x) THEN "woken" ELSE pc[x]]
      /\ waiting' = [waiting EXCEPT ![m] = <<>>]
  BY DEF Broadcast
<1>2. \A x \in Acquirers : queued(x) => pc[x] = "waiting" /\ at[x] = m
  BY DEF Waiters
<1>3. pc' \in [Acquirers -> MStates] /\ pc'[c] = then
  <2> HIDE DEF queued
  <2> QED
    BY <1>1 DEF MemoryTypeOK, MStates
<1>4. \A x \in Acquirers : x # c => pc'[x] = IF queued(x) THEN "woken" ELSE pc[x]
  <2> HIDE DEF queued
  <2> QED
    BY <1>1
<1>5. waiting' \in [Managers -> Seq(Acquirers)] /\ waiting'[m] = <<>>
  BY <1>1 DEF MemoryTypeOK
<1>6. \A k \in Managers : k # m => waiting'[k] = waiting[k]
  BY <1>1 DEF MemoryTypeOK
<1>7. ASSUME NEW k \in Managers, NEW i \in 1..Len(waiting'[k])
      PROVE  pc'[waiting'[k][i]] = "waiting" /\ at[waiting'[k][i]] = k
  <2>0. k # m
    <3> SUFFICES ASSUME k = m PROVE FALSE
      OBVIOUS
    <3>1. Len(waiting'[k]) = 0
      BY <1>5
    <3> QED
      BY <3>1
  <2>1. k # m /\ waiting'[k] = waiting[k] /\ waiting[k] \in Seq(Acquirers)
    BY <1>6, <2>0 DEF MemoryTypeOK
  <2>2. waiting[k][i] \in Acquirers /\ pc[waiting[k][i]] = "waiting" /\ at[waiting[k][i]] = k
    BY <2>1 DEF Waiters
  <2>3. waiting[k][i] # c /\ ~queued(waiting[k][i])
    BY <1>2, <2>1, <2>2
  <2> HIDE DEF queued
  <2> QED
    BY <1>4, <2>1, <2>2, <2>3
<1>8. \A k \in Managers : \A i, j \in 1..Len(waiting'[k]) :
        waiting'[k][i] = waiting'[k][j] => i = j
  <2> TAKE k \in Managers
  <2>1. CASE k = m
    BY <1>5, <2>1
  <2>2. CASE k # m
    BY <1>6, <2>2 DEF Waiters
  <2> QED
    BY <2>1, <2>2
<1>9. \A x \in Acquirers : x # c => pc'[x] = pc[x] \/ (pc[x] = "waiting" /\ pc'[x] = "woken")
  <2> HIDE DEF queued
  <2> QED
    BY <1>2, <1>4
<1> QED
  BY <1>3, <1>5, <1>6, <1>7, <1>8, <1>9

\* A step of c that signals to m keeps the queues in order, and nobody stalls.
LEMMA SignalKeeps ==
  ASSUME MemoryTypeOK, Waiters, NoStall, NEW m \in Managers, NEW c \in Acquirers,
         pc[c] # "waiting", pc[c] = "woken" => at[c] = m,
         NEW then \in MStates \ {"waiting"}, Signal(m, c, then),
         \A x \in Acquirers : x # c => at'[x] = at[x],
         \A k \in Managers : k # m => available'[k] = available[k]
  PROVE  Waiters' /\ NoStall'
<1>1. \A k \in Managers : \A i \in 1..Len(waiting'[k]) : waiting'[k][i] \in Acquirers
  BY SignalStep
<1>2. Waiters'
  BY <1>1, SignalStep, SMTT(30) DEF Waiters
<1>3. ASSUME NEW k \in Managers, waiting'[k] # <<>>, available'[k] >= TotalOf[k]
      PROVE  \E x \in Acquirers : pc'[x] = "woken" /\ at'[x] = k
  <2>1. CASE k = m
    BY <1>3, <2>1, SignalStep
  <2>2. CASE k # m
    <3>1. waiting[k] # <<>> /\ available[k] >= TotalOf[k]
      BY <1>3, <2>2, SignalStep
    <3>2. PICK x \in Acquirers : pc[x] = "woken" /\ at[x] = k
      BY <3>1 DEF NoStall
    <3> QED
      BY <2>2, <3>2, SignalStep, SMTT(30)
  <2> QED
    BY <2>1, <2>2
<1> QED
  BY <1>2, <1>3 DEF NoStall

\* The calls that a step of c does not change stay on their level.
LEMMA OthersKeepLevel ==
  ASSUME Levels, NEW c \in Acquirers, NEW x \in Acquirers, x # c,
         pc'[x] = pc[x] \/ (pc[x] = "waiting" /\ pc'[x] = "woken"),
         at'[x] = at[x], owed'[x] = owed[x],
         remaining'["child"][x] = remaining["child"][x],
         remaining'["parent"][x] = remaining["parent"][x]
  PROVE  Level(x)'
BY DEF Levels, Level

LEMMA TakeKeeps ==
  ASSUME MInv, NEW c \in Acquirers, pc[c] \in {"ask", "woken"},
         available[at[c]] >= Amt[c], Take(at[c], c), owed' = owed, cancelled' = cancelled
  PROVE  MInv'
<1> DEFINE m == at[c]
           then == IF m = "child" THEN "ask" ELSE "holds"
<1>1. MemoryTypeOK /\ Waiters /\ Levels /\ NoStall
  BY DEF MInv
<1>2. m \in Managers /\ Amt[c] \in Nat /\ available[m] \in Nat
  BY <1>1, Fits DEF MemoryTypeOK
<1>3. Signal(m, c, then) /\ then \in MStates \ {"waiting"} /\ pc[c] # "waiting"
  BY DEF Take, MStates
<1>4. available' \in [Managers -> Nat] /\ \A k \in Managers : k # m => available'[k] = available[k]
  BY <1>1, <1>2 DEF Take, MemoryTypeOK
<1>5. /\ remaining' \in [Managers -> [Acquirers -> Nat]]
      /\ remaining'[m][c] = Amt[c]
      /\ \A k \in Managers, x \in Acquirers : k # m \/ x # c => remaining'[k][x] = remaining[k][x]
  BY <1>1, <1>2 DEF Take, MemoryTypeOK
<1>6. /\ at' \in [Acquirers -> Managers] /\ at'[c] = "parent"
      /\ \A x \in Acquirers : x # c => at'[x] = at[x]
  BY <1>1 DEF Take, MemoryTypeOK, Managers
<1> HIDE DEF then
<1>7. Waiters' /\ NoStall'
  BY <1>1, <1>2, <1>3, <1>4, <1>6, SignalKeeps
<1>8. /\ pc' \in [Acquirers -> MStates] /\ waiting' \in [Managers -> Seq(Acquirers)] /\ pc'[c] = then
      /\ \A x \in Acquirers : x # c => pc'[x] = pc[x] \/ (pc[x] = "waiting" /\ pc'[x] = "woken")
  BY <1>1, <1>2, <1>3, SignalStep
<1>9. MemoryTypeOK'
  BY <1>1, <1>4, <1>5, <1>6, <1>8 DEF MemoryTypeOK, MStates
<1>10. Level(c)'
  <2>1. CASE m = "child"
    <3>1. remaining'["child"][c] = Amt[c] /\ pc'[c] = "ask"
      BY <1>5, <1>8, <2>1 DEF then
    <3> QED
      BY <1>1, <1>6, <2>1, <3>1 DEF Levels, Level
  <2>2. CASE m = "parent"
    <3>1. remaining'["parent"][c] = Amt[c] /\ pc'[c] = "holds"
      BY <1>5, <1>8, <2>2 DEF then
    <3>2. remaining'["child"][c] = remaining["child"][c]
      BY <1>5, <2>2 DEF Managers
    <3>3. owed[c] = 0 /\ (c \in Limited => remaining["child"][c] = Amt[c])
      BY <1>1, <2>2 DEF Levels, Level
    <3> QED
      BY <1>2, <1>6, <3>1, <3>2, <3>3 DEF Level
  <2> QED
    BY <1>2, <2>1, <2>2 DEF Managers
<1>11. ASSUME NEW x \in Acquirers, x # c PROVE Level(x)'
  BY <1>1, <1>5, <1>6, <1>8, <1>11, OthersKeepLevel DEF Managers
<1>12. Levels'
  BY <1>1, <1>10, <1>11 DEF Levels
<1> QED
  BY <1>7, <1>9, <1>12 DEF MInv

LEMMA SleepKeeps ==
  ASSUME MInv, NEW c \in Acquirers, pc[c] \in {"ask", "woken"}, available[at[c]] < Amt[c],
         Wait(at[c], c), UNCHANGED <<available, remaining, at, owed, cancelled>>
  PROVE  MInv'
<1> DEFINE m == at[c]
<1>1. MemoryTypeOK /\ Waiters /\ Levels /\ NoStall
  BY DEF MInv
<1>2. m \in Managers /\ Amt[c] \in Nat /\ Amt[c] <= TotalOf[m] /\ available[m] \in Nat
  BY <1>1, Fits DEF MemoryTypeOK
<1>3. pc[c] # "waiting"
  OBVIOUS
<1>4. MemoryTypeOK'
  BY <1>1, <1>3, WaitStep DEF MemoryTypeOK, MStates
<1>5. Waiters'
  BY <1>1, <1>3, WaitStep DEF Waiters
<1>6. ASSUME NEW x \in Acquirers PROVE Level(x)'
  <2>1. CASE x = c
    BY <1>1, <1>3, <2>1, WaitStep DEF Levels, Level
  <2>2. CASE x # c
    <3>1. pc'[x] = pc[x]
      BY <1>1, <1>3, <2>2, WaitStep
    <3> QED
      BY <1>1, <2>2, <3>1, OthersKeepLevel
  <2> QED
    BY <2>1, <2>2
<1>7. ASSUME NEW k \in Managers, waiting'[k] # <<>>, available'[k] >= TotalOf[k]
      PROVE  \E x \in Acquirers : pc'[x] = "woken" /\ at'[x] = k
  <2>1. k # m
    BY <1>2, <1>7, <1>1, TotalType DEF Levels
  <2>2. waiting[k] # <<>> /\ available[k] >= TotalOf[k]
    BY <1>1, <1>3, <1>7, <2>1, WaitStep
  <2>3. PICK x \in Acquirers : pc[x] = "woken" /\ at[x] = k
    BY <1>1, <2>2 DEF NoStall
  <2>4. pc'[x] = pc[x]
    BY <1>1, <1>3, <2>1, <2>3, WaitStep
  <2> QED
    BY <2>3, <2>4
<1>8. Levels' /\ NoStall'
  BY <1>1, <1>6, <1>7 DEF Levels, NoStall
<1> QED
  BY <1>4, <1>5, <1>8 DEF MInv

\* A turn of the loop, on the way in or after a wake-up.
LEMMA TryKeeps ==
  ASSUME MInv, NEW c \in Acquirers, pc[c] \in {"ask", "woken"}, Try(at[c], c),
         UNCHANGED <<owed, cancelled>>
  PROVE  MInv'
<1>1. CASE available[at[c]] < Amt[c]
  BY <1>1, SleepKeeps DEF Try
<1>2. CASE ~(available[at[c]] < Amt[c])
  <2>1. Take(at[c], c)
    BY <1>2 DEF Try
  <2>2. available[at[c]] >= Amt[c]
    BY <1>2, Fits DEF MInv, MemoryTypeOK
  <2> QED
    BY <2>1, <2>2, TakeKeeps
<1> QED
  BY <1>1, <1>2

LEMMA CancelledKeeps ==
  ASSUME MInv, NEW c \in Acquirers, WakeUpCancelled(c)
  PROVE  MInv'
<1> DEFINE m == at[c]
<1>1. MemoryTypeOK /\ Waiters /\ Levels /\ NoStall
  BY DEF MInv
<1>2. /\ m \in Managers /\ pc[c] = "woken" /\ Broadcast(m, c, Given(c))
      /\ Given(c) \in {"undo", "failed"} /\ Given(c) \in MStates \ {"waiting"}
      /\ UNCHANGED <<available, at, remaining, owed, cancelled>>
  BY <1>1 DEF WakeUpCancelled, MemoryTypeOK, Given, MStates
<1>3. /\ pc' \in [Acquirers -> MStates] /\ waiting' \in [Managers -> Seq(Acquirers)]
      /\ pc'[c] = Given(c) /\ waiting'[m] = <<>>
      /\ \A k \in Managers : k # m => waiting'[k] = waiting[k]
      /\ \A x \in Acquirers : x # c => pc'[x] = pc[x] \/ (pc[x] = "waiting" /\ pc'[x] = "woken")
  BY <1>1, <1>2, BroadcastStep
<1>4. MemoryTypeOK'
  BY <1>1, <1>2, <1>3 DEF MemoryTypeOK, MStates
<1>5. Waiters'
  BY <1>1, <1>2, BroadcastStep, SMTT(30) DEF Waiters
<1>6. ASSUME NEW x \in Acquirers PROVE Level(x)'
  <2>1. CASE x = c
    BY <1>1, <1>2, <1>3, <2>1 DEF Levels, Level
  <2>2. CASE x # c
    BY <1>1, <1>2, <1>3, <2>2, OthersKeepLevel
  <2> QED
    BY <2>1, <2>2
<1>7. ASSUME NEW k \in Managers, waiting'[k] # <<>>, available'[k] >= TotalOf[k]
      PROVE  \E x \in Acquirers : pc'[x] = "woken" /\ at'[x] = k
  <2>1. k # m /\ waiting[k] # <<>> /\ available[k] >= TotalOf[k]
    BY <1>2, <1>3, <1>7
  <2>2. PICK x \in Acquirers : pc[x] = "woken" /\ at[x] = k
    BY <1>1, <2>1 DEF NoStall
  <2> QED
    BY <1>2, <1>3, <2>1, <2>2
<1>8. Levels' /\ NoStall'
  BY <1>1, <1>6, <1>7 DEF Levels, NoStall
<1> QED
  BY <1>4, <1>5, <1>8 DEF MInv

\* c gives n back to m, of which it holds as much.
LEMMA GiveBackKeeps ==
  ASSUME MInv, NEW c \in Acquirers, NEW m \in Managers, pc[c] \in {"undo", "holds", "releasing"},
         NEW n \in Nat, n <= remaining[m][c],
         NEW then \in {"failed", "holds", "releasing", "done"},
         available' = [available EXCEPT ![m] = @ + n],
         remaining' = [remaining EXCEPT ![m][c] = @ - n],
         Signal(m, c, then), at' = at, cancelled' = cancelled,
         owed' \in [Acquirers -> Nat], \A x \in Acquirers : x # c => owed'[x] = owed[x],
         c \in Limited /\ then \in {"holds", "releasing"} =>
           remaining'["parent"][c] = remaining'["child"][c] + owed'[c],
         then = "releasing" => c \in Limited,
         then # "releasing" => owed'[c] = 0
  PROVE  MInv'
<1>1. MemoryTypeOK /\ Waiters /\ Levels /\ NoStall
  BY DEF MInv
<1>2. pc[c] # "waiting" /\ pc[c] # "woken" /\ then \in MStates \ {"waiting"}
  BY DEF MStates
<1>3. /\ available' \in [Managers -> Nat]
      /\ \A k \in Managers : k # m => available'[k] = available[k]
  BY <1>1, SMTT(30) DEF MemoryTypeOK
<1>4. /\ remaining' \in [Managers -> [Acquirers -> Nat]]
      /\ \A k \in Managers, x \in Acquirers : x # c => remaining'[k][x] = remaining[k][x]
  <2>1. remaining[m][c] \in Nat /\ remaining[m][c] - n \in Nat
    BY <1>1, SMTT(30) DEF MemoryTypeOK
  <2> QED
    BY <1>1, <2>1 DEF MemoryTypeOK
<1>5. Waiters' /\ NoStall'
  BY <1>1, <1>2, <1>3, SignalKeeps
<1>6. /\ pc' \in [Acquirers -> MStates] /\ waiting' \in [Managers -> Seq(Acquirers)] /\ pc'[c] = then
      /\ \A x \in Acquirers : x # c => pc'[x] = pc[x] \/ (pc[x] = "waiting" /\ pc'[x] = "woken")
  BY <1>1, <1>2, SignalStep
<1>7. MemoryTypeOK'
  BY <1>1, <1>3, <1>4, <1>6 DEF MemoryTypeOK, MStates
<1>8. Level(c)'
  BY <1>1, <1>6 DEF Levels, Level
<1>9. ASSUME NEW x \in Acquirers, x # c PROVE Level(x)'
  BY <1>1, <1>4, <1>6, <1>9, OthersKeepLevel DEF Managers
<1>10. Levels'
  BY <1>1, <1>8, <1>9 DEF Levels
<1> QED
  BY <1>5, <1>7, <1>10 DEF MInv

LEMMA UndoKeeps ==
  ASSUME MInv, NEW c \in Acquirers, Undo(c)
  PROVE  MInv'
<1> DEFINE n == remaining["child"][c]
<1>1. n \in Nat /\ n - n = 0 /\ "child" \in Managers
  BY DEF MInv, MemoryTypeOK, Managers
<1>2. remaining' = [remaining EXCEPT !["child"][c] = @ - n]
  BY <1>1 DEF Undo
<1>3. owed[c] = 0 /\ owed \in [Acquirers -> Nat]
  BY DEF MInv, MemoryTypeOK, Levels, Level, Undo
<1>4. /\ pc[c] = "undo" /\ Signal("child", c, "failed") /\ at' = at /\ owed' = owed
      /\ cancelled' = cancelled /\ available' = [available EXCEPT !["child"] = @ + n]
  BY DEF Undo
<1> HIDE DEF n
<1>5. n <= remaining["child"][c]
  BY <1>1 DEF n
<1> QED
  BY <1>1, <1>2, <1>3, <1>4, <1>5, GiveBackKeeps

LEMMA ReleaseKeeps ==
  ASSUME MInv, NEW c \in Acquirers, ReleaseMemory(c)
  PROVE  MInv'
<1>1. /\ owed[c] = 0 /\ owed \in [Acquirers -> Nat]
      /\ remaining \in [Managers -> [Acquirers -> Nat]]
      /\ c \in Limited => remaining["parent"][c] = remaining["child"][c]
      /\ pc[c] = "holds" /\ at' = at /\ cancelled' = cancelled
  BY DEF MInv, MemoryTypeOK, Levels, Level, ReleaseMemory, Managers
<1>2. PICK n \in 1..remaining[FirstOf(c)][c] :
        IF c \in Limited
        THEN GiveBack("child", c, n, "releasing") /\ owed' = [owed EXCEPT ![c] = n]
        ELSE GiveBack("parent", c, n, After("parent", c, n)) /\ UNCHANGED owed
  BY DEF ReleaseMemory
<1>3. CASE c \in Limited
  <2>1. n \in Nat /\ n <= remaining["child"][c] /\ "child" \in Managers
    BY <1>1, <1>3 DEF FirstOf, Managers
  <2>2. GiveBack("child", c, n, "releasing") /\ owed' = [owed EXCEPT ![c] = n]
    BY <1>2, <1>3
  <2>3. /\ owed' \in [Acquirers -> Nat] /\ owed'[c] = n
        /\ \A x \in Acquirers : x # c => owed'[x] = owed[x]
    BY <1>1, <2>1, <2>2
  <2>4. remaining'["parent"][c] = remaining'["child"][c] + owed'[c]
    BY <1>1, <1>3, <2>1, <2>2, <2>3 DEF GiveBack, Managers
  <2> QED
    BY <1>1, <1>3, <2>1, <2>2, <2>3, <2>4, GiveBackKeeps DEF GiveBack
<1>4. CASE c \notin Limited
  <2>1. n \in Nat /\ n <= remaining["parent"][c] /\ "parent" \in Managers
    BY <1>1, <1>4 DEF FirstOf, Managers
  <2>2. GiveBack("parent", c, n, After("parent", c, n)) /\ owed' = owed
    BY <1>2, <1>4
  <2>3. PICK then \in {"holds", "done"} : After("parent", c, n) = then
    BY DEF After
  <2>4. /\ available' = [available EXCEPT !["parent"] = @ + n]
        /\ remaining' = [remaining EXCEPT !["parent"][c] = @ - n]
        /\ Signal("parent", c, then)
    BY <2>2, <2>3 DEF GiveBack
  <2>5. then \in {"failed", "holds", "releasing", "done"} /\ then # "releasing"
    OBVIOUS
  <2>6. owed' \in [Acquirers -> Nat] /\ owed'[c] = 0 /\ \A x \in Acquirers : x # c => owed'[x] = owed[x]
    BY <1>1, <2>2
  <2>7. pc[c] \in {"undo", "holds", "releasing"} /\ at' = at /\ cancelled' = cancelled
    BY <1>1
  <2>8. c \in Limited /\ then \in {"holds", "releasing"} =>
          remaining'["parent"][c] = remaining'["child"][c] + owed'[c]
    BY <1>4
  <2>9. (then = "releasing" => c \in Limited) /\ (then # "releasing" => owed'[c] = 0)
    BY <2>5, <2>6
  <2> QED
    BY <2>1, <2>4, <2>5, <2>6, <2>7, <2>8, <2>9, GiveBackKeeps
<1> QED
  BY <1>3, <1>4

LEMMA ReleaseParentKeeps ==
  ASSUME MInv, NEW c \in Acquirers, ReleaseParent(c)
  PROVE  MInv'
<1> DEFINE then == After("parent", c, owed[c])
<1>1. /\ owed \in [Acquirers -> Nat] /\ remaining \in [Managers -> [Acquirers -> Nat]]
      /\ remaining["parent"][c] = remaining["child"][c] + owed[c]
      /\ pc[c] = "releasing" /\ at' = at /\ cancelled' = cancelled
  BY DEF MInv, MemoryTypeOK, Levels, Level, ReleaseParent
<1>2. /\ GiveBack("parent", c, owed[c], then) /\ owed' = [owed EXCEPT ![c] = 0]
      /\ then \in {"holds", "done"}
  BY DEF ReleaseParent, After
<1>3. /\ "parent" \in Managers /\ "child" \in Managers /\ owed[c] \in Nat
      /\ remaining["child"][c] \in Nat /\ owed[c] <= remaining["parent"][c]
  BY <1>1 DEF Managers
<1>4. /\ owed' \in [Acquirers -> Nat] /\ owed'[c] = 0
      /\ \A x \in Acquirers : x # c => owed'[x] = owed[x]
  BY <1>1, <1>2
<1>5. remaining'["parent"][c] = remaining'["child"][c] + owed'[c]
  BY <1>1, <1>2, <1>3, <1>4 DEF GiveBack
<1> HIDE DEF then
<1>6. /\ available' = [available EXCEPT !["parent"] = @ + owed[c]]
      /\ remaining' = [remaining EXCEPT !["parent"][c] = @ - owed[c]]
      /\ Signal("parent", c, then)
  BY <1>2 DEF GiveBack
<1>7. then \in {"failed", "holds", "releasing", "done"} /\ then # "releasing"
  BY <1>2
<1> QED
  BY <1>1, <1>3, <1>4, <1>5, <1>6, <1>7, GiveBackKeeps

LEMMA InitHolds == MemoryInit => MInv
<1> SUFFICES ASSUME MemoryInit PROVE MInv
  OBVIOUS
<1>1. MemoryTypeOK
  BY TotalType DEF MemoryInit, MemoryTypeOK, FirstOf, Managers
<1>2. Waiters /\ NoStall
  BY DEF MemoryInit, Waiters, NoStall
<1>3. Levels
  BY DEF MemoryInit, Levels, Level, FirstOf
<1> QED
  BY <1>1, <1>2, <1>3 DEF MInv

LEMMA StepKeeps == MInv /\ [MemoryNext]_memoryVars => MInv'
<1> SUFFICES ASSUME MInv, [MemoryNext]_memoryVars PROVE MInv'
  OBVIOUS
<1>1. CASE UNCHANGED memoryVars
  BY <1>1 DEF MInv, MemoryTypeOK, Waiters, Levels, Level, NoStall, memoryVars
<1>2. ASSUME NEW c \in Acquirers, Step(c) PROVE MInv'
  <2>1. CASE Ask(c)
    BY <2>1, TryKeeps DEF Ask
  <2>2. CASE WakeUp(c)
    BY <2>2, TryKeeps DEF WakeUp
  <2> QED
    BY <1>2, <2>1, <2>2, CancelledKeeps, UndoKeeps, ReleaseKeeps, ReleaseParentKeeps
       DEF Step, AcquireMemory
<1>3. ASSUME NEW c \in Acquirers, CancelAcquire(c) PROVE MInv'
  BY <1>3 DEF CancelAcquire, MInv, MemoryTypeOK, Waiters, Levels, Level, NoStall
<1> QED
  BY <1>1, <1>2, <1>3 DEF MemoryNext

LEMMA InvariantHolds == MemorySpec => []MInv
  BY InitHolds, StepKeeps, PTL DEF MemorySpec

\* The types: above all, what is available and what a call still holds never
\* wrap below zero, so ReleaseSome never panics on the parent after the child
\* has taken the memory back.
THEOREM MemoryTypeCorrect == MemorySpec => []MemoryTypeOK
  BY InvariantHolds, PTL DEF MInv

\* Nobody sleeps beside a manager that has all of its memory.
THEOREM NoStallHolds == MemorySpec => []NoStall
  BY InvariantHolds, PTL DEF MInv
=============================================================================
