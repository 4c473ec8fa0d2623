# Verification of renterd with risk repair

This directory specifies in TLA+ the concurrent and decision-making core of the
modified `renterd` 2.9.3 under
`src/sia-build-env/src/renterd-2.9.3-modified/` (paths below are relative to
it). The modules are checked with TLC on small instances; theorems about them
are proved with TLAPS for all values of their constants. `PROJECT.json` maps
every definition to the lines it models and lists the runs, the mutants that
show that each property can fail, the hazards and the theorems.

## 1. The system

`renterd` stores objects on Sia hosts. An object is cut into slabs; a slab is
erasure-coded into shards, of which any `MinShards` restore it, and each shard
is stored in a contract with a host of its own. One process runs three parts: the
**bus** (database, chain, contract locks), the **worker** (uploads, downloads,
accounts) and the **autopilot** (contracts, scans, migrations). This fork adds
**risk repair**: the autopilot may ask for slabs to be repaired because a model
of correlated host failures calls them unsafe, not because their health fell
below a cutoff.

### Inventory

| Component | State | Operations | Hard behaviour | What makes it correct |
|---|---|---|---|---|
| Risk queue: `stores/repair_policy.go`, `autopilot/migrator/repair_policy.go` | persisted set of admitted slabs and its policy; the scan's selection | paged scan, admission with hysteresis, cut to a limit, expiry, persist, feedback pass, fallback | pages are separate transactions; time passes; crash between phases; another policy after a restart | no emergency lost to the limit; no slab skipped; hysteresis never admits by itself; nothing but the stale dropped |
| Slab evaluation: `stores/repair_policy.go`, `stores/slab_risk.go` | none (a function) | placement, loss, cutoff, validity | matching, numeric tables, overlapping scenarios, stale copies | equals its definition by enumeration |
| Migrator: `autopilot/migrator/` | list of slabs, workers, two signal channels | run, refetch and merge, dispatch, interrupt, migrate one slab | unbuffered channel, signals that outlive a run, workers that return early | no stuck run; merge order; shards on distinct, allowed hosts |
| Contract locker: `internal/bus/contractlocker.go`, `internal/locking/contractlock.go` | holder, lease timer, priority queue | acquire, keep alive, release, time out | rendezvous under a mutex, races of timers, cancellation and dead clients | one holder; never orphaned; priority; queued calls end |
| Uploader: `internal/upload/uploader/uploader.go` | queue, signal, stopped channel | enqueue, loop, retry after renewal, stop | three-step enqueue, lost wake-ups, stop races | no forgotten work; one answer each |
| Upload manager: `internal/upload/uploadmanager.go` | requests in flight, overdrives, buffer, responses | launch, receive, overdrive, finish | redundant answers in any order, hosts released and reused, bounded response channel | distinct hosts; no sector forgotten; no blocked host queue; the upload returns |
| Memory manager: `internal/memory/memory.go` | available memory, waiters | acquire, release, release some; limit managers | condition variable, cancellation, two levels | conservation; nobody sleeps beside free memory |
| Download manager: `internal/download/` | queues of hosts, responses, requests in flight, memory | download object, slab, sector; overdrive; refresh the downloaders | launcher and collector with an unbuffered channel, two goroutines that launch, downloaders that stop meanwhile | the range arrives in order; memory goes back; the counter that ends the loop is exact; every download returns |
| Slab buffers: `stores/slabbuffer.go`, `worker/upload.go` | files, rows, sizes, locks with expiry, sync errors | append, commit, fetch for upload, mark uploaded, prune slabs | concurrent appends, failing sync, expiring locks, restart | the bytes of every stored object stay where its slices say; full buffers are uploaded |
| Accounts: `internal/accounts/accounts.go` | balance, drift, sync flags | deposit, withdraw, sync, refill, save | refills in parallel, restart | balance follows the host's |
| Autopilot loop, scanner, pruner: `autopilot/` | running flags, trigger channel | run, trigger, scan, prune, shut down | shutdown while triggers and jobs run | one job of a kind; shutdown returns |
| Chain subscriber: `internal/bus/chainsubscriber.go` | chain index, contract states, elements | apply, revert, prune, reset | reorganisations, batches, a signal of one place | rows say what the chain says; the subscriber reaches the tip |
| Contractor: `autopilot/contractor/` | rows of contracts, what hosts have agreed to | form, renew, refresh, archive | host, chain and database agree at different times; lost answers | one contract per host that is not archived; renewals linked |
| Rest of the stores, bus routes, worker API, S3, hosts and RHP4, objects, node, configuration | database, settings, connections | SQL, HTTP, protocol, coding | mostly sequential, or in the database or on the network | not part of this project |

The build and test environments (`src/sia-build-env`, `src/sia-test-env`) are
scripts around the binary and `src/results` holds logs of their runs.

### Interaction

The migrator fetches its list from the risk queue and hands slabs to workers; a
worker asks the **memory manager** for memory, downloads the slab and gives the
shards to the **upload manager**, which requests each from one host's
**uploader**; an uploader, like the pruner and the contractor, holds the
**contract lock** while it revises a contract. Calls between autopilot, worker
and bus go over HTTP: replies can be lost while the call took effect, which is
why contract locks have leases and why the risk queue falls back to health.

The **download manager** takes memory for each slab of an object and asks the
hosts' **downloaders** for its sectors. The last, partial slab of an object goes
into a **slab buffer** of the bus; the worker that filled one uploads it through
the upload manager. The **contractor** forms and renews contracts through bus
and hosts, and the **chain subscriber** writes into the same rows what the chain
says of them.

The models are composed along these calls by contract: `Migrator` treats the
list as a set the store gives out and a migration as a step that succeeds or
fails, `MigrateSlab` treats `uploadShards` as storing some of the shards on
distinct hosts (`SlabUpload.DistinctHosts`), and `SlabUpload` treats an uploader
as something that accepts or refuses, answers late, or, once stopped, may never
answer what it had accepted (`Uploader.StopAnswersEarlier` says when).
`DownloadObject` treats a slab's download as a step that ends (`SlabDownload.SlabDownloadEnds`) and a memory
manager as one that wakes its only waiter (`MemoryManager.NoStall`). `SlabStore`
treats the upload of a packed slab as a step that stores its bytes or fails.
`Contracts` composes contractor, rows, subscriber and chain in one module, as
they share the rows. `ContractLocker` is composed with its abstract
specification `LeaseLock` by a refinement mapping.

## 2. Modules

**RepairQueue.** `SlabsForMigrationWithRisk` and its caller. Each transaction is
one action: `Read` the hysteresis, one `ScanPage` per page (with the admission
and the cut that follow it), `Expire`, `Persist`, `Return` (with the feedback
pass) and `Fallback` on any error. Between them `Tick`, `Rescan`, `Upload`,
`Delete`, `Lapse` and `Refresh` of a slab's cached health and `Restart` (crash,
perhaps with another policy) may happen. A page takes the slabs whose cached health
is valid (`Listed`), as the query does. A slab's evidence is abstracted to what
admission tells apart. `present`, `judged` and
`streak` are observers that no guard reads.

**SlabRisk.** `evaluateSlabRisk` as functions: placement by augmenting paths in
the code's order of hosts (`Visit` and `Assign`, a search that marks the shards it
has seen; `Placed`), the tail table (`AddHost`, `LossTail`), the scenario mixture, the
inverse (`SafeCount`) and the gates (`Covers`, `Horizon`, `Valid`). The recursion of
`assign` is a function on the states of a search, and the tables are functions of
the number of hosts, so that they can be proved about.
A host's probability of failure is a function of the horizon (`rates`), which the
oldest scan among all fresh copies of the slab and the load lengthen, used or not.
Probabilities are exact multiples of `1/Den`: floating-point rounding and the
formula for one host's rate are left out. One action evaluates
an arbitrary slab.

**Migrator.** `performMigrations`, its workers and `Migrate`. `HandOver(w)` is
the rendezvous on the unbuffered channel; `sigConsensus` and `sigMaint` are the
buffers of the two signal channels, which outlive a run, as in the code.

**MigrateSlab.** `Migrator.migrate` for one slab: the room check, the choice of
what stays (`Place`, one shard at a time; which of a shard's hosts keeps it
follows Go's map order and is arbitrary), the checks, and the upload.

**ContractLocker**, **LeaseLock.** One contract. Every section under `lock.mu`
is one action except `Release`, which blocks on the rendezvous while it holds the
mutex: `next` is the candidate it is blocked on, and nothing else enters while
`next # None`. The caller's path after unlock and before and in the `select` is
three states, so that cancellation and closing of the wake channel can fall
between them. `LeaseLock` promises one holder, granted only to who asks and lost
only to nobody.

**Uploader.** Enqueue in its three steps (look at the stopped channel, append,
signal), the loop of `Start`, the retry after a renewal, `Stop`.

**SlabUpload.** `uploadShards`: `Launch`, `Receive` with everything that follows
from a response, the overdrive timer, and the ends of the loop. `held` is
`candidate.req`, which is not the same as `wire`, what the host's uploader has.
The candidates are distinct hosts (see 6, two uploaders of one host).

**MemoryManager.** A manager and one limit manager below it; `sync.Cond` is a
FIFO of waiters, and a woken waiter contends for the mutex with everybody else.

**DownloadObject.** `slabsForDownload` cuts the range; the launcher looks at
context and shutdown, asks for memory and starts a goroutine per slice; the
collector takes a response by a rendezvous with who sends it (`Collect`,
`CollectPartial`, `CollectScarce`), keeps what comes too early, writes what comes
next to the buffered writer and gives the memory back; `Joins` is the deferred
`wg.Wait`, and `Flushes` the deferred flush after it, whose error nobody gets.
`written` is what the buffered writer was given, `received` how much of it has
reached the client, `broken` that the client's end has failed. Where a slice
lies follows from the lengths before it (`Total`, a function of their number). The memory of
one download is the number of free bytes and the launcher that may wait for more.

**SlabDownload.** `slabDownload` and the downloaders it asks. A host's request is
taken, queued, executing or failing, answered and received, or dropped unanswered
by a downloader that finds its context done (`Pops`). The download itself and the
overdrive goroutine each sort the sectors, take a request and launch it; all of this
is under the slab's mutex, but the manager's mutex, which guards the downloaders, is
locked anew for every host, so that a refresh may come between the sort and the
choice, or between the choice and the launch. (One that comes during the sort only
changes the order, which is arbitrary anyway: the sort is one step.)
`StopsDownloader` and `AddsDownloader` are the refresh by another download. The
statistics, which order hosts and set the overdrive's timer, are left out: any host
may come next and the timer may fire at any time, from before the first launch on.
`early` counts what overdrive launches before the first `MinShards` are; `twice` has
the sectors that came more than once.

**SlabStore.** Packed uploads from end to end. A buffer is a file, a row and an
entry of the buffer manager; bytes are pairs of an upload and a position.
`Lists`, `Appends`, `AppendsDone` and `CreatesBuffer` are `AddPartialSlab` up to
its reply, `CommitStarts`, `Syncs` and `Replies` the rest; then `AddObject` or
`AddMultipartPart`. `LoopFetches`, `MarkUploaded` and `RemoveBuffers` are the
worker's threads, which end with a fetch that fails (`LoopFetchFails`; likewise
`UploadsOneFails`, and `ReadFails` for a file that cannot be read, whose buffer
stays locked). Copies, renames, removals, completed and aborted multipart
uploads change the references that keep slabs alive (a completed upload has all
its parts in the order of their numbers, `AllParts`), and `PruneSlabs` deletes the
rest. `Restart` loads the buffers again, with or without a crash of the machine
that leaves of the files only what was synced (`durable`), and with the worker or
`alone`, as the bus may with a worker in another process (`Bus.RemoteAddr` in
`config/config.go`). The observer `spoiled` has the buffers that may have lost bytes
by a restart, `excused` says that a full buffer may stay where it is.

**Contracts.** The rows of the contracts with one host, the chain subscriber and
the contractor's maintenance. The chain is a sequence of blocks, a block the set
of creations (a renewal resolves the contract it renews), proofs and
expirations. `ProcessUpdates` reverts and applies a batch, in the order of the
code, block by block: what the first `n` of them make of the rows is a recursive
function of `n`; the maintenance checks a snapshot of the rows contract by contract and
forms, renews, refreshes or archives; `deal` is a contract the host has agreed
to that has no row yet. `late`, `reset` and `highest` (the highest block
applied since the last reset) are observers. `element[c]` is the contract of which
the element in `c`'s row has leaf index and proof: a renewal takes over that of the
row it takes over.

**Recursion** holds what several proofs need: induction and functions defined by
recursion, on the natural numbers and over finite sets; greatest and least
elements; ranks in an order; fixed points of a recursion that has an end; folds.

The `MC*` modules give values to constants that a configuration file cannot
express. A definition that differs from the code on purpose is commented
"Mutant": it takes the place of the one after it in the list of mutants in
`PROJECT.json`, to show that a property notices, and it is part of no run.

## 3. What the runs show

| Run | Instance and why it is enough |
|---|---|
| `repair_queue` | 3 slabs, pages of 1, limit of 2, two policies, five kinds of evidence (below exit, between the thresholds, above entry, emergency, no estimate), one change by others (of a slab, of its cached health, or a crash), clock of one step with a TTL of one. Pages of one put a transaction boundary between any two slabs, three slabs exceed the limit by one. |
| `slab_risk` | 4 hosts, up to 2 of 3 shards on each, `MinShards` 2, 3 profiles, 4 patterns of scan ages, 3 sets of scenarios (none, one, two that overlap), queues of 0, 1 and 2, which with an old copy or without lengthen the horizon past the point from which every host is likelier to fail. All 2401 placements are evaluated against enumeration. |
| `migrator` | 3 slabs, 2 workers, batch of 2, two runs, two changes by the environment, health and risk policy. The second run meets the signals the first one left. |
| `migrate_slab` | 2 shards, 5 contracts on 4 hosts (one has a renewed contract), every set of usable hosts, good contracts and up to two avoided hosts. Two shards are what a conflict between shards takes. |
| `contract_locker` | 4 calls, priorities 1, 2, 2, 3, one call without a lease. One holds, one is offered the lock, two wait with and without equal priority. |
| `uploader` | 3 requests, one renewal, stop and shutdown: one request executing, one queued, one in the middle of Enqueue. |
| `slab_upload` | 2 shards, 5 hosts, 1 overdrive, 1 uploader that stops. The hosts outnumber shards and overdrives, so that relaunching after failure is exercised. |
| `memory_manager` | 2 calls of a limit of 2 and 2 calls of its parent of 3, one of which asks for all; any split of the releases. |
| `download_object` | Memory of 2, a buffered writer of 1 byte, every range of six objects of up to three slabs: whole, cut at either end, partial, with too few hosts, longer than the memory. Two slabs wait for memory or for their turn while a third is written. |
| `slab_download` | 2 of 3 sectors, one with a copy, 4 hosts, three of which have a downloader at first, no overdrive beyond the missing sectors (the timer still fires, before the first launches and once requests fail), one downloader stopped or added, an interruption. Failures use up hosts, the copy lets a sector come twice, and four requests exceed the limit by two. |
| `slab_store` | An object of 3 bytes and a part of 2, buffers of 3, one slab in memory at a time, two operations on objects, one failure, one restart, of the bus alone or with its worker. The object fills a buffer alone, or the part's and the beginning of another. |
| `contracts` | Contracts of one block and renewal windows of none, so that a chain of three blocks sees a formation, its renewal and the end of both; batches of two; two disturbances. A reorganisation can revert formation, renewal or resolution, and a restart or a lost answer can meet it. |

Bounds and sizes that are not in the code: `MaxChanges`, `MaxClock`, `MaxId`, `MaxRuns`,
`MaxRetry` (renewals), `MaxStops`, `MaxRefresh`, `MaxOps`, `MaxFailures`,
`MaxRestarts`, `MaxContracts`, `MaxHeight`, `MaxReorg` and `MaxDisturbances`. They limit how
often the environment acts and how much there is to act on, never what the
program does with it. Deadlock is not checked where calls and runs are finite
and the system stops by design; that nothing stops too early is what the
liveness properties say.

The properties, by module:

- *RepairQueue*: `StableSlabsScanned` (no slab listed throughout is skipped),
  `PagewiseCutIsExact` (cutting after each page equals cutting all candidates once,
  emergencies and those kept by hysteresis included),
  `HysteresisHasCause` (every persisted slab once entered on its own account under
  the same policy, across crashes), `ExpiryDropsOnlyTheStale` (what one cut of all
  candidates would admit is returned, unless it rests on an estimate that went stale
  during the scan).
- *SlabRisk*: `PlacementIsBest` (largest independent placement, and the least
  risky of them), `LossIsExact` (against enumeration of all failures),
  `CopiesNeverHurt` (a copy more, with the same horizon, or a host less likely to
  fail at every horizon).
- *Migrator*: `NoStuckDispatch`, `MergeOldFirst`, `RunEnds`. *MigrateSlab*:
  `DistinctHosts`, `RiskMoveHasRoom`, `AvoidedStayDownloadable`.
- *ContractLocker*: `MutualExclusion` (a client with a live lease is the holder),
  `PriorityHandOver`, `ImplementsLease`, `QueuedCallEnds` (a call that waits gets
  the lock unless its own context is done; then it may fail, or panic, see 5).
- *Uploader*: `NoForgottenWork`, `AnsweredOnce`, `AcceptedIsAnswered`.
- *SlabUpload*: `DistinctHosts`, `NoSectorForgotten`, `UploadEnds` (unless an uploader
  that stopped never answers a request it had accepted).
- *MemoryManager*: `NoStall`, `CallsEnd`.
- *DownloadObject*: `RangeDelivered` (what reaches the client is the beginning of the
  range; what a successful download has written is all of it, and only a failure of
  the writer withholds any), `HeldWhileNeeded` (memory has somebody bound to release it, and the
  launcher does not sleep beside enough of it), `DownloadEnds` (every download
  returns but for the two cases named in it, see 5).
- *SlabDownload*: `InflightIsExact` (the counter is that of the requests that will be
  answered or were dropped, and none is dropped before the caller's context is done),
  `OverdriveBounded` (its limit holds but for one request and for what was launched
  before the first `MinShards`), `FailureExplained` (no host was left to choose and all
  that were chosen had answered, but for one that the overdrive had just chosen, or a
  sector came twice), `SlabDownloadEnds`.
- *SlabStore*: `ObjectsIntact` (but for the losses named in it, see 5),
  `FullBufferIsHandedOn`, `FullBuffersUploaded`.
- *Contracts*: `StatesFollowChain`, `Lineage` (renewed and renewing contract
  refer to each other), `OneContract`, `ElementsKept` (a contract that was formed has
  its own element as long as it needs one; for renewals see 5), `CatchesUp`.

`TypeOK` of each module that states one, and `NeverOrphaned`, `FreeLockHasNoQueue`,
`KeepAliveFindsTimer`, `SuccessPlacesAll` and `StopAnswersEarlier`, which are
proved (see 4), are in no configuration; they hold as invariants of the same
instances, as do the inductive invariants of section 4.

### Fairness

Liveness assumes that goroutines that can run do (weak fairness of their steps),
and of the outside only this: a client of the contract lock releases in the end
or stops refreshing its lease, and such a lease expires; sector uploads and
downloads, `migrateSlab` and uploads of packed slabs end because they run under
timeouts; the client of a download reads or is gone; holders of memory release it
(deferred in the code). No fairness is
assumed of cancellation, failures, signals of the autopilot, stops, refreshes,
blocks, the contractor or the overdrive timers; a shutdown ends what is assumed of a
slab's downloaders. The steps of a slab's download are strongly fair, as a mutex is
not withheld from a goroutine for ever. `UploadEnds` needs no timeout of the upload
itself but excepts one that nobody cancels and that waits for a stopped uploader
with a request it had accepted (`Forgotten`): what a stopped one refuses is
covered. `RunEnds` and `CallsEnd` hold for a finite supply of changes and
calls: an endless one may keep a run or a large request of memory waiting.
`FullBuffersUploaded` says nothing when an upload or a fetch of a full buffer failed,
the process restarted or a thread was about to leave: the next upload takes the
buffer along. `CatchesUp` needs only that
the subscriber's goroutine is scheduled, as the chain ends at `MaxHeight`.

## 4. What is proved

TLAPS proves, for all values of the constants that satisfy the assumptions named
in each module:

| Module | Theorems | Assumptions |
|---|---|---|
| RepairQueueProofs | `TypeCorrect`, `StableSlabsScannedHolds`, `PagewiseCutIsExactHolds`, `HysteresisHasCauseHolds`, `ExpiryDropsOnlyTheStaleHolds` | `BoundsAssumption`, `ThresholdAssumption`: pages and limit are not empty, exit below entry; `EvidenceAssumption`, `NoneAssumption`: the types of evidence |
| the same, of `SlabRisk` | `LossIsExactHolds`, `PlacementIsBestHolds`, `SafestPlacement`, `CopiesNeverHurtHolds` | `SlabRiskAssumption`: finitely many hosts with an order, probabilities between 0 and 1, at least one shard restores a slab |
| ContractsProofs | `TypeCorrect`, `OneContractHolds`, `LineageHolds`, `StatesFollowChainHolds`, `ElementsKeptHolds` | `ContractsAssumption`: batches are not empty, a contract runs longer than `revisionSubmissionBuffer`; `RowAssumption`: `None` is no row |
| SlabStoreProofs | `ListsConsistent`, `TypeCorrect`, `FullBufferIsHandedOnHolds`, `ObjectsIntactHolds` | `StoreAssumption`: finitely many uploads of at least a byte and at most a slab, the threshold below the size |
| ContractLockerProofs | `TypeCorrect`, `MutualExclusionHolds`, `NeverOrphanedHolds`, `FreeLockHasNoQueueHolds`, `KeepAliveFindsTimerHolds`, `PriorityHandOverHolds`, `Refinement` (implements `LeaseLock`) | `None` is no call, priorities are integers |
| the same, of `MemoryManager` | `MemoryTypeCorrect` (memory never wraps below zero), `NoStallHolds` | `MemoryAssumption` |
| MigrationProofs, of `MigrateSlab` | `TypeCorrect`, `DistinctHostsHolds`, `SuccessPlacesAllHolds`, `RiskMoveHasRoomHolds`, `AvoidedStayDownloadableHolds` | `MigrateAssumption`: finitely many contracts, at least one shard restores a slab |
| the same, of `Migrator` | `NeverStuck` (`NoStuckDispatch`), `MergeOldFirstHolds` | none for the first; `MigratorAssumption`: finitely many slabs |
| SlabUploadProofs | `TypeCorrect`, `DistinctHostsHolds`, `NoSectorForgottenHolds` | `SlabUploadAssumption`, `None` is no request and no host |
| the same, of `Uploader` | `QueueTypeCorrect`, `NoForgottenWorkHolds`, `AnsweredOnceHolds`, `StopAnswersEarlierHolds` | `UploaderAssumption` |
| SlabDownloadProofs | `TypeCorrect`, `InflightIsExactHolds`, `OverdriveBoundedHolds`, `FailureExplainedHolds` | `SlabDownloadAssumption`: a host has one sector of the slab |
| the same, of `DownloadObject` | `ObjectTypeCorrect`, `RangeDeliveredHolds`, `HeldWhileNeededHolds` | `DownloadAssumption`: slabs are not empty |

Five of the modules hold the proofs of two components that work together and
extend both, so the theorems of each stand under the assumptions that its own
module states. The bounds on the environment
(`MaxChanges` and the like) are arbitrary naturals, so a theorem holds for
behaviours of any length.

Lists, chains, batches, slices and parts are read by functions defined by recursion on
the natural numbers. What they compute is proved with two lemmas of `Recursion`:
`Induction`, over the elements of a set of numbers, which follows from the
pigeonhole principle of `FiniteSetTheorems`, and `RecursiveFunctions`, that a
function so defined exists and takes its steps. With them the proofs show that
the merge of the list keeps what is fetched again (`Migrator`), that the slices of a
range lie end to end and hold all of it (`DownloadObject`), that a
batch of reverts and applies keeps rows and elements in line with the chain and
that a reorganisation leads to a legal one (`Contracts`), and that a completed
object has the slices of all parts and no others (`SlabStore`). For `SlabRisk`,
`FixedPoint` says that a recursion has a solution where each call has a lower rank, and
`FoldAnyOrder` that a fold of a commutative operation takes the elements in any order.

The inductive invariants:

- *RepairQueue* (`RInv`): what is still listed was judged up to the last slab scanned
  (`Seen`), for a page leaves nothing out below the slab at which it ends, and a
  short page is the last. The selection is at every step of the scan the one cut of
  all admissible candidates judged so far (`CutIsExact`), as a cut of a cut keeps the
  best; what `Expire` takes from it rested on stale estimates
  (`ExpiryDropsOnlyTheStale`). What is selected below the entry threshold is owed to
  an admission read under the same policy (`Owed`, `Remembered`), so that persisting
  keeps `HysteresisHasCause`. Each slab is selected once (`Chosen`).
- *SlabRisk* (`RiskInv`): the evaluation is that of what was given; the rest is about the
  functions. *The loss*: after each host, the table holds at `f` the sum over the sets of
  `f` hosts (`Fails`), as a host more splits the sets into those with and without
  it (`ChanceAdd`); the tail sums the sets that leave fewer than `MinShards`
  (`LossTailIsLost`). *The placement*: a search ends, for it has fewer shards left at
  each call (`Unseen`), and either it found a shard for its host and moved the others
  within their own (`Found`), or the shards it has seen are all taken by hosts that
  have no others (`Stuck`). So the hosts that get none have their shards in a set that
  is full and stays so (`Tight`): of each part of the list as many hosts are placed as
  can be (`Greedy`). Whatever does not get worse when a host gives way to one before
  it in the list, or one is added, is best for such a placement (`Exchange`): the
  total score, which is `PlacementIsBest`, and, where the score is the probability of failure,
  the loss, as one host more, or one that fails less often, leaves enough hosts at
  least as often (`LostChanges`).
  `CopiesNeverHurt` follows, as the hosts placed without the copy were a choice with it,
  at the same horizon. With another horizon, or with scenarios, it does not: see 5.
- *Contracts* (`CInv`): the rows' states and elements are those of the first `n` blocks
  of a chain (`StatesAt`, `ElementsAt`), and renewal and renewed contract are linked
  and archived (`Links`). Stated of any prefix and database (`Consistent`), it is kept
  by each `Revert` and each `Apply` inside one transaction, not only by the whole.
  It needs that a chain creates and resolves each contract once and in one way
  (`Legal`), and that a contract is renewed once, by one agreed later, while the deal
  without a row is the last and forms only where no row is active (`Deals`).
- *SlabStore*: of the lists (`LInv`): an upload that may still make a buffer has one
  that nobody knows (`Fresh`); no buffer is on a list twice, and only full ones are
  complete (`ListedOnce`); an append to a buffer lies within what is reserved, and a sync
  covers the slice it is for (`Appending`); a full buffer on the incomplete list has the
  slice that filled it still to commit (`Filled`); what is stored has a slab
  (`Rooted`). Of the bytes (`BInv`): who uploads a buffer has read what the file still
  holds, as the buffer is full and locked or its row has gone on (`Read`); the slices
  that a stored object or an upload under way relies on lie within their buffer
  and can be read (`Promised`), and those that were committed are on the disk,
  unless a sync failed (`Secured`). The last part is what a crash leaves, and the reason
  why a restart may compute the size of a buffer from the stored slices. When the bus
  restarts alone, uploads of the worker survive whose reserved space it takes for free:
  `Overtaken` names their buffers, and of all others the worker's uploads in hand rely
  on places that the restart leaves them (`RestartBytes`).
- *ContractLocker*: `MutualExclusion` says nothing about how the lock reaches a
  client. `IInv` adds that the candidate on offer is not in the queue, that nobody
  holds the lock meanwhile and that it has the highest priority (`OfferInv`), that
  candidates have not been served (`CandidateInv`), that the holder has a timer or
  is about to set it (`HolderInv`), whose timer `wakeupTimer` is (`TimerInv`) and
  when timers and closed channels appear (`FreshInv`).
- *Migrator*: a worker that returned left the signal, and only receiving it, which
  ends the run, takes it away. Of the list: it has each slab once (`ListInv`), as a
  round of the loop in `Sift` keeps it so, leaves what it passed fetched, loses no
  fetched slab and leaves one slab less to look at.
- *MigrateSlab*: what keeps a shard is good, not avoided and keeps no other
  (`KeptWell`); what is stored went to the rest (`StoredWell`); what is avoided
  follows from the check at the start (`Hints`); and while hosts are avoided, those
  that keep a shard and those that may receive one are at least as many as the
  shards (`Roomy`), which `Place` keeps as it takes a host of its own for each.
- *Uploader*: `NoForgottenWork` is inductive together with the types: who appends
  is about to signal, and only the awake loop takes the signal. For the answers: a
  request is in one place, with its sender, in the queue or with the loop, and is
  not answered there (`Once`); after the drain of `Stop`, the queue holds only
  requests whose sender had looked before the channel was closed (`Kept`).
- *SlabUpload*: a request is in one place at a time, and the host that stored a
  sector still holds the request it did so for, which is nowhere any more
  (`Sound`); who is told that its context is done is told the truth (`Truthful`);
  a missing sector's first request is to be launched, under way, answered or in
  the buffer (`Remembered`).
- *MemoryManager*: who is in a manager's queue waits there, once (`Waiters`), and
  what a call of the limit manager holds of both managers is the same up to a
  release that is half done (`Levels`), so that no release wraps below zero.
- *DownloadObject*: what is written ends where the next slice begins (`Delivered`), and
  until the writer fails it has reached the client or is in the buffer (`Passed`).
  Goroutines are started in order (`Started`), and who holds memory is bound to
  release it (`Held`).
- *SlabDownload*: a host that can be asked has not been, and what a goroutine has taken
  it has for itself (`Places`). Answers that wait are of different requests, and none
  is dropped before the context is done (`Counted`, `Waiting`). The bound is on the
  requests in flight together with those about to be; during the first launches,
  what is launched is at most what is counted, and that at most what is launched
  and the early overdrive (`Bounded`). The sectors `nextRequest` has yet to look at
  are those that have hosts to ask, so that an empty order means nobody is left
  (`Covered`, `Scanned`). Sectors come, requests in flight and the replacement to be
  launched make at least `MinShards` until the hosts are exhausted or a sector came
  twice (`Supplied`).

Only model-checked:

- everything under fairness: `RunEnds`, `QueuedCallEnds`, `AcceptedIsAnswered`,
  `UploadEnds`, `CallsEnd`, `DownloadEnds`, `SlabDownloadEnds`, `FullBuffersUploaded`,
  `CatchesUp`.

Every invariant and every action property of a run is a theorem, and so is the
refinement of `LeaseLock`.

Two models were wrong, or could not be reasoned about, until a proof was tried.
`ElementsKept` measured the age of a contract by the stored index; when a batch ends
after reverts (`Batch = 1`), the index is lower than the block at which the element was
pruned, and the property failed. It now measures it by `highest`. `Lineage` spoke of the rows
of punctual contracts only and holds of all of them.

## 5. Where code and comments disagree

Six definitions state what a comment promises. The code does not keep them; each
is refuted by TLC as an invariant or property of `Spec` with the constants of the
module's configuration except for those given.

- `ContractLocker.WokenOwnsLock` (`Calls = {a, b, d}`, `Leased = {a, b}`): "lock
  should be acquired by us after being woken up", `Acquire`'s panic
  (`contractlocker.go:151`), is reached when the caller is cancelled between the
  unlock and the select while `Release` pops it, finds it timed out and closes its
  channel: both cases of the select are ready.
- `Migrator.OldBeforeNew` (`Slabs = {a, b, c, d}`, `Threads = {w1}`,
  `BatchSize = 4`, `MaxRuns = 1`, `MaxChanges = 4`): "slabs that have been in
  toMigrate before will be repaired before any new slabs" (`migrator.go:300`) does
  not hold: removing a repaired slab puts the last one, the newest, in its place
  (`migrator.go:314`).
- `SlabUpload.BufferGetsFreeHost` (`NumHosts = 3`, `MaxOverdrive = 2`,
  `MaxStops = 0`): "an overdrive upload might've been redundant, in which case we
  can re-use the host to launch this request" (`uploadmanager.go:746`) does not
  happen for the usual redundant answer, an error of its cancelled context: the
  slab fails with the request in the buffer and a host free.
- `SlabDownload.AvailableIsDownloaded` (`Sectors = {s1, s2}`,
  `Hosts = Usable = {a1, a2, b1, c1}`, `On <- MCOnCopies`, `MaxRefresh = 0`): a sector with
  an available host is considered available (`downloadmanager.go:874`), yet a
  download can fail beside such hosts: a replacement goes to the second host of a
  sector that is coming anyway, counts for nothing, and the loop ends with too few
  sectors.
- `Contracts.ElementUpToDate` (`Spec`, `MaxDisturbances = 0`): "FileContractElement
  returns the up-to-date file contract element for a given contract id"
  (`stores/sql/database.go:149`). A renewal takes over the element of the contract it
  renews, and the upsert of its own leaves leaf and proof as they are
  (`sqlite/chain.go:251`, `mysql/chain.go:250`).
- `Contracts.RenewedTo` (`Spec`, `MaxDisturbances = 0`): "The ID of the contract this one
  was renewed to, if applicable" (`openapi.yml:4129`). When the subscriber marks the
  renewed contract before `AddRenewal` runs, the new row takes over that mark with the
  rest (`stores/sql/main.go:1994`), refers to itself and is archived as renewed
  (`contractor.go:399`).

Other behaviour that the models show and that a reader of the code may not expect:

- `Enqueue` (`uploader.go:300`) can accept a request after `Stop` has drained the
  queue, and the retry after a renewal ignores that it was refused: such requests
  are never answered. `StopAnswersEarlier` shows that there are no others.
- A slab whose cached health lapses, or is invalidated, after the scan has begun is
  skipped by that pass (`slab_risk.go:43`), which "traverses all uploaded slabs"
  (`slab_risk.go:38`). The room of an admission that expires before the pass returns
  is not filled again. With the legacy policy nothing is cut: the query's limit is
  the largest integer (`repair_policy.go:36`).
- A consensus signal that no run received ends the next run at its first offer,
  although consensus is synced by then (`migrator.go:385`).
- An upload that is cancelled returns none of the sectors it stored, while the
  comment above the loop (`uploadmanager.go:683`) says that some are returned.
- The horizon of an evaluation (`repair_policy.go:271`) includes the scans of
  copies that the placement does not use: an older, not yet stale, copy lengthens it
  and with it raises every host's probability of failure, so that a copy can make a
  slab look worse; it can invalidate the evaluation when the configured delays come
  near the bound on the horizon. `CopiesNeverHurt` compares at one horizon.
- With scenarios, the placement with the lowest total score (`repair_policy.go:120`)
  need not be the one with the lowest loss: a score counts a scenario for each host
  that is in it, also where losing one of them loses the slab already. TLC finds
  such a slab in the instance of `slab_risk`.
- A cancelled waiter of the memory manager notices only when it is woken, and one
  that asks for much may be overtaken by ever new small requests.
- A slab's download fails beside a host that was not asked when the overdrive has
  chosen it and not yet launched (`downloadmanager.go:588`, loop's end at 687), and
  says "no host available" when the overdrive has already launched the replacement that
  was looked for. A request whose cancelled caller makes the downloader drop it
  unanswered (`downloader.go:157`) stays counted: only the context ends such a loop.
- `DownloadObject` reports success when the last flush of its buffer fails, which is
  only logged (`downloadmanager.go:191`). In `GetObject` the sink is a pipe that fails
  only once its reader has closed it.
- `DownloadObject` does not return in two cases: the launcher sends the response
  of a partial slab, or of one with too few hosts, without watching the context
  after the collector has left (`downloadmanager.go:233`, `AbandonedLauncher`); and
  a slab longer than all of the memory is refused with the same `nil` as an
  interruption, which the launcher takes it for (`downloadmanager.go:251`,
  `RefusedSilently`).
- A partial slab can lose its bytes in two ways, which `ObjectsIntact` excepts: the
  buffer is uploaded and its slab, still unreferenced, pruned between the append
  and `AddObject`, which then makes an empty slab of the same key
  (`metadata.go:407`); or a sync fails, which the upload does not learn, and the
  machine crashes (`slabbuffer.go:426`). When the bus runs in a process of its own
  (`config.go:67`) and restarts alone there is a third: the space of an upload that
  has slices but no object yet is given to another, or a full buffer that is being
  uploaded is taken for one with room. TLC and the proof cover both deployments.
- `CopyObject` and `AddMultipartPart` delete what they replace without triggering
  the pruning; completing a multipart upload takes all parts, whatever the client
  listed; and a thread of `threadedUploadPackedSlabs` that is about to leave can
  leave a buffer, just filled, to the next upload. So does one whose fetch of the full
  buffers fails (`worker/upload.go:111`).
- A contract that was on the chain before it had a row stays pending and is archived as never
  confirmed. `shouldArchive` (`contractor.go:397`) subtracts unsigned heights: a
  contract that starts above the height it sees is archived at once. Reverting a
  block does not undo an archival, nor the mark of a failed contract. A sync that
  fails ends the process (`chainsubscriber.go:272`).

## 6. Not modelled

Of the modelled components: the reading of slabs, the memory and the refresh of
the upload manager (after two renewals between uploads an old and a new uploader
of one host are both candidates, `uploadmanager.go:561`); `DownloadSlab`, which
is a slab's download without launcher; the report of lost sectors; reading a
buffer while its file is removed (`FetchPartialSlab` reads outside the lock);
buffers of more than one redundancy; and of the contractor what decides with whom
to have contracts: scores, funds, gouging, usability, churn.

Components left out, with what reading them showed:

- **Autopilot loop.** Calls its parts one after the other. `Shutdown` waits for its
  group under the mutex that the goroutine waiting for a deposit needs in `Trigger`
  (`autopilot.go:208`); a `Trigger` after `Shutdown` sends on a closed channel, and
  a second `Shutdown` closes it again.
- **Scanner and pruner.** One background job at a time behind a mutex; what they
  find is an input of the other models (scans, in `RepairQueue`).
- **Accounts.** A number per host behind a mutex. Whether it follows the host's
  balance depends on the host's side of the protocol, which is not in the
  repository. The saved accounts are collected in a map that is not used
  (`accounts.go:278`).
- **SQL and its migrations, HTTP routes, S3, RHP4 and dialing, erasure coding and
  encryption, caches, metrics, configuration and start-up**: sequential code,
  third-party protocols, or arithmetic on data that no property here tells apart.
  They make up most of the lines of the repository.

Alerts, logging and statistics are left out of every model, the estimates that
order hosts included: their order is arbitrary, or fixed where only its fixedness
matters.
