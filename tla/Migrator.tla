------------------------------- MODULE Migrator -------------------------------
(***************************************************************************)
(* The migrator's run (autopilot/migrator/migrator.go): performMigrations, *)
(* which refetches the list of slabs to migrate, offers them one by one to *)
(* its workers on an unbuffered channel and is interrupted by two signals, *)
(* channels with a buffer of one that outlive the run; the workers, each   *)
(* of which gives up the run when it sees that consensus is not synced;    *)
(* and Migrate, which starts a run unless one is going on.                 *)
(*                                                                         *)
(* Which slabs the store offers is RepairQueue's subject: here it is a set *)
(* that migrations shrink and others grow.  Migrating one slab             *)
(* (MigrateSlab) is a step that fails or succeeds.                         *)
(***************************************************************************)
EXTENDS Integers, Sequences, FiniteSets

CONSTANTS
  Slabs,
  Health,       \* the slabs' health, the order in which they are fetched
  Threads,      \* the workers of a run
  BatchSize,    \* migratorBatchSize
  MaxRuns,      \* bound: runs
  MaxChanges,   \* bound: changes of the environment
  NoSlab

ASSUME MigratorAssumption ==
  /\ IsFiniteSet(Slabs)
  /\ Health \in [Slabs -> Nat]
  /\ BatchSize \in Nat \ {0} /\ MaxRuns \in Nat /\ MaxChanges \in Nat

VARIABLES
  risk,          \* m.riskPolicy.Enabled
  runPc,         \* performMigrations: "idle" when no run is going on
  toMigrate,
  pos,           \* the slab of toMigrate that is offered
  worker,        \* what each worker is doing
  job,           \* and for which slab
  sigConsensus,  \* the buffer of signalConsensusNotSynced is full
  sigMaint,      \* the buffer of signalMaintenanceFinished is full
  ctxDone,       \* the run's context is cancelled
  synced,        \* consensus is synced
  needs,         \* the slabs in need of migration, according to the store
  runs,          \* number of runs so far
  changes,       \* number of changes made by the environment
  since,         \* observer: the fetch that brought a slab into toMigrate
  tried,         \* observer: the slabs handed to a worker since they came
  fetches        \* observer: number of fetches of the run

main == <<runPc, toMigrate, pos>>
signals == <<sigConsensus, sigMaint>>
env == <<risk, ctxDone, synced, needs, changes>>
seen == <<since, tried, fetches>>
migratorVars == <<main, worker, job, signals, env, runs, seen>>

Members(list) == {list[i] : i \in 1..Len(list)}

MigratorTypeOK ==
  /\ risk \in BOOLEAN
  /\ runPc \in {"idle", "refresh", "dispatch", "closing"}
  /\ toMigrate \in Seq(Slabs)
  /\ runPc = "dispatch" => pos \in 1..Len(toMigrate)
  /\ worker \in [Threads -> {"gone", "waiting", "started", "unsynced", "migrating"}]
  /\ job \in [Threads -> Slabs \cup {NoSlab}]
  /\ \A w \in Threads :
       job[w] # NoSlab <=> worker[w] \in {"started", "unsynced", "migrating"}
  /\ {sigConsensus, sigMaint, ctxDone, synced} \subseteq BOOLEAN
  /\ needs \subseteq Slabs
  /\ runs \in 0..MaxRuns /\ changes \in 0..MaxChanges

MigratorInit ==
  /\ risk \in BOOLEAN
  /\ runPc = "idle"
  /\ toMigrate = <<>>
  /\ pos = 1
  /\ worker = [w \in Threads |-> "gone"]
  /\ job = [w \in Threads |-> NoSlab]
  /\ sigConsensus = FALSE /\ sigMaint = FALSE
  /\ ctxDone = FALSE
  /\ synced \in BOOLEAN
  /\ needs \in SUBSET Slabs
  /\ runs = 0 /\ changes = 0
  /\ since = [s \in Slabs |-> 0] /\ tried = {} /\ fetches = 0

-----------------------------------------------------------------------------
(* The environment *)

Change ==
  /\ changes < MaxChanges
  /\ changes' = changes + 1
  /\ UNCHANGED <<risk, main, worker, job, sigConsensus, runs, seen>>

\* The autopilot has finished contract maintenance.
SignalMaintenanceFinished ==
  /\ Change
  /\ sigMaint' = TRUE
  /\ UNCHANGED <<ctxDone, synced, needs>>

Sync ==
  /\ Change
  /\ synced' = ~synced
  /\ UNCHANGED <<sigMaint, ctxDone, needs>>

\* A host loses a slab's shard.
Damage(s) ==
  /\ Change
  /\ s \notin needs
  /\ needs' = needs \cup {s}
  /\ UNCHANGED <<sigMaint, ctxDone, synced>>

Cancel ==
  /\ Change
  /\ ~ctxDone
  /\ ctxDone' = TRUE
  /\ UNCHANGED <<sigMaint, synced, needs>>

-----------------------------------------------------------------------------
(* The list *)

\* The sets that SlabsForMigration may return: the worst BatchSize slabs.
Fetches ==
  {F \in SUBSET needs :
     /\ Cardinality(F) <= BatchSize
     /\ \A s \in needs \ F :
          /\ Cardinality(F) = BatchSize
          /\ \A t \in F : Health[t] <= Health[s]}

SortedByHealth(S) ==
  {list \in [1..Cardinality(S) -> S] :
     /\ Members(list) = S
     /\ \A i, j \in 1..Cardinality(S) : i < j => Health[list[i]] <= Health[list[j]]}

\* Remove what is not in F from the old list: the last slab takes its place.  A
\* round of the loop moves on or makes the list shorter.
Sift(old, F) ==
  LET after[n \in 0..Len(old)] ==
        IF n = 0 THEN [list |-> old, i |-> 1]
        ELSE LET list == after[n - 1].list
                 i == after[n - 1].i
                 last == Len(list)
             IN IF list[i] \in F THEN [list |-> list, i |-> i + 1]
                ELSE [list |-> SubSeq([list EXCEPT ![i] = list[last]], 1, last - 1), i |-> i]
  IN after[Len(old)].list

\* Mutant: the fetched slabs in their order, as under the risk policy.
MergeReplace(old, F) == SortedByHealth(F)

\* updateToMigrate: the lists it may make of the old list and the fetched slabs.
Merge(old, F) ==
  IF risk
  THEN {list \in [1..Cardinality(F) -> F] : Members(list) = F}
  ELSE {Sift(old, F) \o added : added \in SortedByHealth(F \ Members(old))}

-----------------------------------------------------------------------------
(* performMigrations *)

\* Migrate starts a run, with new workers and a maintenance signal forgotten.
Migrate ==
  /\ runPc = "idle"
  /\ runs < MaxRuns
  /\ runs' = runs + 1
  /\ runPc' = "refresh"
  /\ toMigrate' = <<>>
  /\ pos' = 1
  /\ worker' = [w \in Threads |-> "waiting"]
  /\ sigMaint' = FALSE
  /\ since' = [s \in Slabs |-> 0] /\ tried' = {} /\ fetches' = 0
  /\ UNCHANGED <<job, sigConsensus, env>>

Offer(list) == runPc' = IF list = <<>> THEN "closing" ELSE "dispatch"

\* RefreshHealth and the fetch succeed.
Refresh ==
  /\ runPc = "refresh"
  /\ \E F \in Fetches : toMigrate' \in Merge(toMigrate, F)
  /\ pos' = 1
  /\ Offer(toMigrate')
  /\ fetches' = fetches + 1
  /\ LET old == Members(toMigrate)  new == Members(toMigrate') IN
     /\ since' = [s \in Slabs |-> IF s \in new \ old THEN fetches' ELSE since[s]]
     /\ tried' = tried \cap old
  /\ UNCHANGED <<worker, job, signals, env, runs>>

\* One of them fails: the list stays as it is, and is offered from the start.
RefreshFails ==
  /\ runPc = "refresh"
  /\ pos' = 1
  /\ Offer(toMigrate)
  /\ UNCHANGED <<toMigrate, worker, job, signals, env, runs, seen>>

\* jobs <- slab, received by w.
HandOver(w) ==
  /\ runPc = "dispatch"
  /\ worker[w] = "waiting"
  /\ worker' = [worker EXCEPT ![w] = "started"]
  /\ job' = [job EXCEPT ![w] = toMigrate[pos]]
  /\ pos' = pos + 1
  /\ runPc' = IF pos = Len(toMigrate) THEN "closing" ELSE "dispatch"
  /\ tried' = tried \cup {toMigrate[pos]}
  /\ UNCHANGED <<toMigrate, signals, env, runs, since, fetches>>

Cancelled ==
  /\ runPc = "dispatch"
  /\ ctxDone
  /\ runPc' = "closing"
  /\ UNCHANGED <<toMigrate, pos, worker, job, signals, env, runs, seen>>

\* Mutant: the consensus signal leads to another fetch.
InterruptedRefetches ==
  /\ runPc = "dispatch"
  /\ sigConsensus
  /\ sigConsensus' = FALSE
  /\ runPc' = "refresh"
  /\ UNCHANGED <<toMigrate, pos, worker, job, sigMaint, env, runs, seen>>

Interrupted ==
  /\ runPc = "dispatch"
  /\ sigConsensus
  /\ sigConsensus' = FALSE
  /\ runPc' = "closing"
  /\ UNCHANGED <<toMigrate, pos, worker, job, sigMaint, env, runs, seen>>

MaintenanceFinished ==
  /\ runPc = "dispatch"
  /\ sigMaint
  /\ sigMaint' = FALSE
  /\ runPc' = "refresh"
  /\ UNCHANGED <<toMigrate, pos, worker, job, sigConsensus, env, runs, seen>>

\* close(jobs): a worker's range loop ends.
WorkerExits(w) ==
  /\ runPc = "closing"
  /\ worker[w] = "waiting"
  /\ worker' = [worker EXCEPT ![w] = "gone"]
  /\ UNCHANGED <<main, job, signals, env, runs, seen>>

\* wg.Wait returns, and m.migrating is reset.
Done ==
  /\ runPc = "closing"
  /\ \A w \in Threads : worker[w] = "gone"
  /\ runPc' = "idle"
  /\ UNCHANGED <<toMigrate, pos, worker, job, signals, env, runs, seen>>

-----------------------------------------------------------------------------
(* The workers *)

\* migrateSlab has fetched the upload parameters.
UploadParams(w) ==
  /\ worker[w] = "started"
  /\ worker' = [worker EXCEPT ![w] = IF synced THEN "migrating" ELSE "unsynced"]
  /\ UNCHANGED <<main, job, signals, env, runs, seen>>

Idle(w) ==
  /\ worker' = [worker EXCEPT ![w] = "waiting"]
  /\ job' = [job EXCEPT ![w] = NoSlab]

\* Mutant: the worker returns without a signal.
GiveUpSilently(w) ==
  /\ worker[w] = "unsynced"
  /\ worker' = [worker EXCEPT ![w] = "gone"]
  /\ job' = [job EXCEPT ![w] = NoSlab]
  /\ UNCHANGED <<main, signals, env, runs, seen>>

\* ErrConsensusNotSynced: signal it, unless that is done already, and return.
GiveUp(w) ==
  /\ worker[w] = "unsynced"
  /\ sigConsensus' = TRUE
  /\ worker' = [worker EXCEPT ![w] = "gone"]
  /\ job' = [job EXCEPT ![w] = NoSlab]
  /\ UNCHANGED <<main, sigMaint, env, runs, seen>>

Repaired(w) ==
  /\ worker[w] = "migrating"
  /\ needs' = needs \ {job[w]}
  /\ Idle(w)
  /\ UNCHANGED <<main, signals, risk, ctxDone, synced, changes, runs, seen>>

\* An error, or a risk-only admission that expired while it was waiting.
Failed(w) ==
  /\ \/ worker[w] = "migrating"
     \/ worker[w] = "started"
  /\ Idle(w)
  /\ UNCHANGED <<main, signals, env, runs, seen>>

-----------------------------------------------------------------------------
Environment ==
  SignalMaintenanceFinished \/ Sync \/ Cancel \/ \E s \in Slabs : Damage(s)

Select(w) == HandOver(w) \/ WorkerExits(w)
Main == Refresh \/ RefreshFails \/ Cancelled \/ Interrupted \/ MaintenanceFinished \/ Done
Work(w) == UploadParams(w) \/ GiveUp(w) \/ Repaired(w) \/ Failed(w)

MigratorNext == Environment \/ Migrate \/ Main \/ \E w \in Threads : Select(w) \/ Work(w)

MigratorSpec == MigratorInit /\ [][MigratorNext]_migratorVars

\* The goroutines are scheduled, and every call of migrateSlab ends: it runs
\* under a timeout of five minutes.
Fairness ==
  /\ WF_migratorVars(Main)
  /\ \A w \in Threads : WF_migratorVars(Select(w)) /\ WF_migratorVars(Work(w))

MigratorFairSpec == MigratorSpec /\ Fairness

-----------------------------------------------------------------------------
(* Properties *)

\* A run never waits for workers that are gone: as soon as one of its workers
\* has returned, the signal that ends the run is there to be received.
NoStuckDispatch ==
  runPc \in {"refresh", "dispatch"} =>
    ((\E w \in Threads : worker[w] = "gone") => sigConsensus)

\* updateToMigrate: the new list has the fetched slabs, each once, and a slab
\* that was waiting before comes before every new one.
MergeOldFirst ==
  [][Refresh /\ ~risk =>
       LET list == toMigrate'  old == Members(toMigrate) IN
       /\ \A i, j \in 1..Len(list) :
            i < j => list[i] # list[j] /\ (list[j] \in old => list[i] \in old)
       /\ Members(list) \subseteq needs
       /\ Cardinality(needs) <= BatchSize => Members(list) = needs]_migratorVars

\* Every run ends, also when its workers give up or its context is cancelled.
RunEnds == (runPc # "idle") ~> (runPc = "idle")

\* "slabs that have been in toMigrate before will be repaired before any new
\* slabs. This is to prevent starvation": a slab is handed out only when every
\* slab that came with an earlier fetch has been.  The code does not keep it: see
\* the README.
OldBeforeNew ==
  [][\A w \in Threads : HandOver(w) /\ ~risk =>
       \A s \in Members(toMigrate) :
         since[s] < since[toMigrate[pos]] => s \in tried]_migratorVars
=============================================================================
