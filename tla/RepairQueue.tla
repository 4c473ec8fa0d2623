------------------------------ MODULE RepairQueue ------------------------------
(***************************************************************************)
(* Which slabs the migrator repairs when the risk policy is enabled:       *)
(* SQLStore.SlabsForMigrationWithRisk (stores/repair_policy.go), which     *)
(* scans all slabs in pages, admits with hysteresis and persists the       *)
(* admitted set, and its caller Migrator.slabsForMigration                 *)
(* (autopilot/migrator/repair_policy.go), which scans again when the queue *)
(* grew and falls back to the health-only query when a scan fails.         *)
(*                                                                         *)
(* A slab's evidence is reduced to what admission looks at: emergency      *)
(* (usable hosts <= MinShards), whether the model supports the placement,  *)
(* a loss level, whether its health is at or below the cutoff, and the     *)
(* time at which the oldest host scan goes stale.  The store caches a      *)
(* slab's health; only slabs whose cached health is valid are handed out.  *)
(* Each page is its own transaction: hosts are scanned, slabs come and go, *)
(* cached health is invalidated and refreshed, and time passes between two *)
(* pages, and the process may crash.                                       *)
(***************************************************************************)
EXTENDS Integers, FiniteSets

CONSTANTS
  MaxId,           \* bound: slab ids are 1..MaxId, given out in order
  BatchSize,       \* repairRiskBatchSize
  MaxRepairQueue,  \* the limit of admitted slabs
  Policies,        \* fingerprints of the policies an operator may configure
  Entry, Exit,     \* the thresholds, as levels of loss
  Evidence,        \* the evidence hosts may produce about a slab
  TTL,             \* modelTTL
  MaxQueueDepth,   \* the queue length whose delay exceeds maxQueueDelay
  MaxClock,        \* bound: clock
  MaxChanges,      \* bound: changes of the store by others
  None

ASSUME BoundsAssumption ==
  /\ MaxId \in Nat /\ MaxClock \in Nat /\ MaxChanges \in Nat
  /\ MaxQueueDepth \in Nat /\ TTL \in Nat
  /\ BatchSize \in Nat \ {0}
  /\ MaxRepairQueue \in Nat \ {0}
ASSUME ThresholdAssumption == Exit \in Nat \ {0} /\ Entry \in Nat /\ Exit < Entry

Ids == 1..MaxId

VARIABLES
  clock,     \* time.Now
  slabs,     \* the evidence about each slab in the store, None if there is none
  cached,    \* whether its cached health is at or below the cutoff, None if not valid
  lastId,    \* the last slab id given out
  policy,    \* the configured policy's fingerprint
  setting,   \* the persisted repairQueueState, None if never written
  pc,        \* where slabsForMigration is
  depth,     \* opts.QueueDepth
  pass,      \* 1, or 2 in the feedback pass
  prev,      \* state.Queued as read from the setting
  after,     \* the id of the last candidate scanned
  selected,  \* the admitted slabs: [id, health, risk]
  result,    \* what slabsForMigration returned last
  changes,   \* number of changes made by others
  present,   \* observer: slabs listed in the store since the pass began
  judged,    \* observer: each slab the pass evaluated, as it would be admitted
  streak     \* observer: see Persist

store == <<slabs, cached, lastId, changes, present>>
scan == <<prev, after, selected, judged>>
call == <<depth, pass>>
vars == <<clock, store, policy, setting, pc, call, scan, result, streak>>

SlabRecord == [emergency : BOOLEAN, supported : BOOLEAN, loss : Nat,
               unhealthy : BOOLEAN, until : Nat]
Risk == [emergency : BOOLEAN, valid : BOOLEAN, loss : Nat, until : Nat]
Admitted == [id : Ids, unhealthy : BOOLEAN, risk : Risk]
State == [policy : Policies, queued : SUBSET Ids]

ASSUME EvidenceAssumption == Evidence \subseteq SlabRecord
ASSUME NoneAssumption == None \notin SlabRecord \cup Admitted \cup State \cup BOOLEAN

TypeOK ==
  /\ clock \in 0..MaxClock
  /\ slabs \in [Ids -> SlabRecord \cup {None}]
  /\ cached \in [Ids -> BOOLEAN \cup {None}]
  /\ lastId \in 0..MaxId
  /\ policy \in Policies
  /\ setting \in State \cup {None}
  /\ pc \in {"idle", "read", "scan", "expire", "persist", "reply"}
  /\ depth \in Nat
  /\ pass \in {1, 2}
  /\ prev \subseteq Ids
  /\ after \in 0..MaxId
  /\ selected \subseteq Admitted /\ Cardinality(selected) <= MaxRepairQueue
  /\ result.by \in {"nobody", "risk", "health"} /\ result.ids \subseteq Ids
  /\ changes \in 0..MaxChanges
  /\ present \subseteq Ids
  /\ judged \in [Ids -> Admitted \cup {None}]
  /\ streak \subseteq Ids

Stored == {s \in Ids : slabs[s] # None}

\* What the queries select: uploaded slabs (a slab in a buffer has no valid
\* health yet) whose cached health is valid.
Listed == {s \in Stored : cached[s] # None}

\* The cached health of every slab, as RefreshHealth leaves it.
AllCached == [s \in Ids |-> IF slabs[s] = None THEN None ELSE slabs[s].unhealthy]

Init ==
  /\ clock = 0
  /\ lastId \in 0..MaxId
  /\ slabs \in [Ids -> {[e EXCEPT !.until = TTL] : e \in Evidence} \cup {None}]
  /\ \A s \in Ids : slabs[s] = None <=> s > lastId
  /\ cached = AllCached
  /\ policy \in Policies
  /\ setting = None
  /\ pc = "idle"
  /\ depth = 0
  /\ pass = 1
  /\ prev = {}
  /\ after = 0
  /\ selected = {}
  /\ present = {}
  /\ judged = [s \in Ids |-> None]
  /\ result = [by |-> "nobody", ids |-> {}]
  /\ changes = 0
  /\ streak = {}

-----------------------------------------------------------------------------
(* The environment *)

Tick ==
  /\ clock < MaxClock
  /\ clock' = clock + 1
  /\ UNCHANGED <<store, policy, setting, pc, call, scan, result, streak>>

\* Host scans, repairs or expiring contracts change what is known of a slab; its
\* cached health stays as it is.
Rescan(s) ==
  /\ changes < MaxChanges
  /\ slabs[s] # None
  /\ \E e \in Evidence :
       slabs' = [slabs EXCEPT ![s] = [e EXCEPT !.until = clock + TTL]]
  /\ changes' = changes + 1
  /\ UNCHANGED <<clock, cached, lastId, present, policy, setting, pc, call, scan, result, streak>>

\* A slab's cached health expires, or is invalidated as a contract is archived,
\* a sector deleted or the slab repaired.
Lapse(s) ==
  /\ changes < MaxChanges
  /\ cached[s] # None
  /\ cached' = [cached EXCEPT ![s] = None]
  /\ present' = present \ {s}
  /\ changes' = changes + 1
  /\ UNCHANGED <<clock, slabs, lastId, policy, setting, pc, call, scan, result, streak>>

\* RefreshHealth: the slabs whose cached health is not valid, in batches of any
\* size and order.
Refresh(s) ==
  /\ slabs[s] # None
  /\ cached[s] = None
  /\ cached' = [cached EXCEPT ![s] = slabs[s].unhealthy]
  /\ UNCHANGED <<clock, slabs, lastId, changes, present, policy, setting, pc, call, scan,
                 result, streak>>

\* A new slab has no valid health before the next refresh.
Upload ==
  /\ changes < MaxChanges
  /\ lastId < MaxId
  /\ lastId' = lastId + 1
  /\ \E e \in Evidence :
       slabs' = [slabs EXCEPT ![lastId'] = [e EXCEPT !.until = clock + TTL]]
  /\ changes' = changes + 1
  /\ UNCHANGED <<clock, cached, present, policy, setting, pc, call, scan, result, streak>>

Delete(s) ==
  /\ changes < MaxChanges
  /\ slabs[s] # None
  /\ slabs' = [slabs EXCEPT ![s] = None]
  /\ cached' = [cached EXCEPT ![s] = None]
  /\ present' = present \ {s}
  /\ changes' = changes + 1
  /\ UNCHANGED <<clock, lastId, policy, setting, pc, call, scan, result, streak>>

-----------------------------------------------------------------------------
(* The scan *)

\* The call returns: its variables are gone.
Forget ==
  /\ prev' = {} /\ after' = 0 /\ selected' = {} /\ present' = {}
  /\ judged' = [s \in Ids |-> None]
  /\ depth' = 0 /\ pass' = 1

\* evaluateSlabRisk, reduced.  A longer queue lengthens the protection horizon:
\* it raises the loss and, past maxQueueDelay, invalidates the estimate.
Assess(e) ==
  [emergency |-> e.emergency,
   valid     |-> e.supported /\ clock < e.until /\ depth <= MaxQueueDepth,
   loss      |-> IF depth > 0 THEN e.loss + 1 ELSE e.loss,
   until     |-> e.until]

\* repairPriorityLess; the key breaks ties.
Less(a, b) ==
  LET ar == a.risk  br == b.risk IN
  IF ar.emergency # br.emergency THEN ar.emergency
  ELSE IF ar.valid # br.valid THEN ar.valid
  ELSE IF ar.valid /\ ar.loss # br.loss THEN ar.loss > br.loss
  ELSE IF a.unhealthy # b.unhealthy THEN a.unhealthy
  ELSE a.id < b.id

\* The first n elements of S in priority order.
First(S, n) == {x \in S : Cardinality({y \in S : Less(y, x)}) < n}

\* slabsForMigration starts with the length of the migrator's queue.
Start ==
  /\ pc = "idle"
  /\ depth' \in 0..1
  /\ pass' = 1
  /\ pc' = "read"
  /\ UNCHANGED <<clock, store, policy, setting, scan, result, streak>>

\* Mutant: hysteresis is taken over from whatever policy wrote it.
ReadAnyPolicy ==
  /\ pc = "read"
  /\ prev' = IF setting # None THEN setting.queued ELSE {}
  /\ after' = 0
  /\ selected' = {}
  /\ judged' = [s \in Ids |-> None]
  /\ present' = Listed
  /\ pc' = "scan"
  /\ UNCHANGED <<clock, slabs, cached, lastId, changes, policy, setting, call, result, streak>>

\* Read the hysteresis; another policy's is discarded.
Read ==
  /\ pc = "read"
  /\ prev' = IF setting # None /\ setting.policy = policy THEN setting.queued
                                                           ELSE {}
  /\ after' = 0
  /\ selected' = {}
  /\ judged' = [s \in Ids |-> None]
  /\ present' = Listed
  /\ pc' = "scan"
  /\ UNCHANGED <<clock, slabs, cached, lastId, changes, policy, setting, call, result, streak>>

\* Mutant: a page is a range of ids, shorter where slabs were deleted.
PageByRange == {s \in Listed : after < s /\ s <= after + BatchSize}

\* SlabRiskBatch: the next slabs by id.
Page ==
  {s \in Listed : after < s /\ Cardinality({t \in Listed : after < t /\ t < s}) < BatchSize}

Candidate(s) == [id |-> s, unhealthy |-> cached[s], risk |-> Assess(slabs[s])]

\* Whether a candidate is admitted.
Queued(x) ==
  \/ x.risk.emergency
  \/ x.risk.valid /\ (IF x.id \in prev THEN x.risk.loss > Exit ELSE x.risk.loss >= Entry)
  \/ ~x.risk.valid /\ x.unhealthy

Admissions == {x \in {Candidate(s) : s \in Page} : Queued(x)}

\* Mutant: what is admitted stays, later pages only fill up the rest.
CutFillUp(S) == selected \cup First(S \ selected, MaxRepairQueue - Cardinality(selected))

\* The admitted slabs S, cut back to the limit.
Cut(S) == First(S, MaxRepairQueue)

\* One page: evaluate it, admit, and cut the admitted back to the limit.
ScanPage ==
  /\ pc = "scan"
  /\ selected' = Cut(selected \cup Admissions)
  /\ judged' = [s \in Ids |-> IF s \in Page THEN Candidate(s) ELSE judged[s]]
  /\ after' = IF Page = {} THEN after ELSE CHOOSE s \in Page : \A t \in Page : t <= s
  /\ pc' = IF Cardinality(Page) < BatchSize THEN "expire" ELSE "scan"
  /\ UNCHANGED <<clock, store, policy, setting, call, prev, result, streak>>

\* Its evidence went stale while later pages were scanned.
Expired(x) == x.risk.valid /\ clock >= x.risk.until

\* Mutant: with the estimate, an emergency is forgotten too.
KeptIfUnhealthy(x) == Expired(x) => x.unhealthy

\* What was admitted on its estimate alone is dropped with it.
Kept(x) == Expired(x) => x.risk.emergency \/ x.unhealthy

Expire ==
  /\ pc = "expire"
  /\ selected' = {[x EXCEPT !.risk.valid = x.risk.valid /\ ~Expired(x)] :
                    x \in {y \in selected : Kept(y)}}
  /\ pc' = "persist"
  /\ UNCHANGED <<clock, store, policy, setting, call, prev, after, judged, result, streak>>

ValidIds(S) == {x.id : x \in {y \in S : y.risk.valid}}

\* The slabs admitted on their own account, without hysteresis.
OnOwnAccount == {x.id : x \in {y \in selected :
                    y.risk.valid /\ (y.risk.emergency \/ y.risk.loss >= Entry)}}

\* streak: the slabs that entered on their own account under this policy and
\* that every pass since has returned with a valid estimate.
StreakAfter ==
  OnOwnAccount \cup
    (IF setting # None /\ setting.policy = policy THEN streak \cap ValidIds(selected)
                                                   ELSE {})

\* Persist the admitted set, replacing the one before.
Persist ==
  /\ pc = "persist"
  /\ setting' = [policy |-> policy, queued |-> ValidIds(selected)]
  /\ streak' = StreakAfter
  /\ pc' = "reply"
  /\ UNCHANGED <<clock, store, policy, scan, call, result>>

\* The migrator gets the slabs, and scans once more if its queue grew.
Return ==
  /\ pc = "reply"
  /\ IF pass = 1 /\ Cardinality(selected) > depth
     THEN /\ pass' = 2
          /\ depth' = Cardinality(selected)
          /\ pc' = "read"
          /\ UNCHANGED <<result, scan, present>>
     ELSE /\ pc' = "idle"
          /\ result' = [by |-> "risk", ids |-> {x.id : x \in selected}]
          /\ Forget
  /\ UNCHANGED <<clock, slabs, cached, lastId, changes, policy, setting, streak>>

\* A transaction fails in any of the phases, or the reply is lost: the health-only query instead.
Fallback ==
  /\ pc # "idle"
  /\ pc' = "idle"
  /\ result' = [by |-> "health", ids |-> {s \in Listed : cached[s]}]
  /\ Forget
  /\ UNCHANGED <<clock, slabs, cached, lastId, changes, policy, setting, streak>>

\* The process crashes and restarts, perhaps with another policy configured.
Restart ==
  /\ changes < MaxChanges
  /\ changes' = changes + 1
  /\ pc' = "idle"
  /\ policy' \in Policies
  /\ result' = [by |-> "nobody", ids |-> {}]
  /\ Forget
  /\ UNCHANGED <<clock, slabs, cached, lastId, setting, streak>>

-----------------------------------------------------------------------------
Environment ==
  \/ Tick \/ Upload \/ Restart
  \/ \E s \in Ids : Rescan(s) \/ Lapse(s) \/ Refresh(s) \/ Delete(s)
Call == Start \/ Read \/ ScanPage \/ Expire \/ Persist \/ Return \/ Fallback

Next == Environment \/ Call

Spec == Init /\ [][Next]_vars

-----------------------------------------------------------------------------
(* Properties *)

Scanned == pc \in {"expire", "persist"}

\* A pass evaluates every slab the store listed from its first to its last page,
\* whatever is uploaded, deleted, refreshed or invalidated between two pages.
StableSlabsScanned == Scanned => \A s \in present : judged[s] # None

\* All candidates of the pass that were to be admitted, of any page.
Admissible == {x \in {judged[s] : s \in Ids} \ {None} : Queued(x)}

\* Cutting back to the limit after each page leaves exactly what one cut of all
\* the candidates after the last page would leave: an emergency of a late page
\* displaces what earlier pages admitted, a slab kept by hysteresis competes
\* like any other, and what is cut early never belonged.
PagewiseCutIsExact == pc = "expire" => selected = First(Admissible, MaxRepairQueue)

\* The pass ends with all of those it selected, but the ones that rested on an
\* estimate that is stale by now: losing the estimate never loses an emergency or
\* a slab at or below the health cutoff, however long the scan took.
ExpiryDropsOnlyTheStale ==
  pc \in {"persist", "reply"} =>
    \A x \in First(Admissible, MaxRepairQueue) :
       \/ x.risk.emergency
       \/ x.unhealthy
       \/ x.risk.valid /\ clock < x.risk.until
       => \E y \in selected : y.id = x.id

\* Hysteresis never admits by itself: a slab below the entry threshold is
\* persisted only if it once entered on its own account, under the same policy,
\* and has been in every pass persisted since, across crashes and restarts.
HysteresisHasCause == setting # None => setting.queued \subseteq streak
=============================================================================
