---------------------------- MODULE MigrationProofs ----------------------------
(***************************************************************************)
(* Theorems about the migration of one slab, for any number of shards,     *)
(* contracts and hosts, and about the run that migrates them one by one,   *)
(* for any slabs, workers and number of runs.                              *)
(***************************************************************************)
EXTENDS MigrateSlab, Migrator, Recursion, Sequences, FiniteSetTheorems, TLAPS

\* The good contracts' hosts are usable, and what the model asks to avoid is
\* avoided as soon as the migration has started, unless there is no room.
Hints ==
  /\ shards \in [Shards -> SUBSET Contracts]
  /\ ulContracts \subseteq Contracts /\ HostsOf(ulContracts) \subseteq dlHosts
  /\ pc # "start" => avoiding = IF insufficient THEN {} ELSE avoid

\* What keeps a shard is good, not avoided, and keeps no other.
KeptWell ==
  /\ pc = "start" => kept = [i \in Shards |-> None]
  /\ \A i \in Shards : kept[i] # None => kept[i] \in HostsOf(ulContracts) \ avoiding
  /\ \A i, j \in Shards : i # j /\ kept[i] # None => kept[i] # kept[j]

\* What the upload stored is what had to move, on hosts of their own.
StoredWell ==
  /\ pc # "done" => stored = [i \in Shards |-> None] /\ result = "none"
  /\ \A i \in Shards : stored[i] # None => kept[i] = None /\ stored[i] \in Allowed
  /\ \A i, j \in Shards : i # j /\ stored[i] # None => stored[i] # stored[j]
  /\ result = "ok" => \A i \in Shards : kept[i] # None \/ stored[i] # None

IInv == TypeOK /\ Hints /\ KeptWell /\ StoredWell

LEMMA InitHolds == Init => IInv
<1> SUFFICES ASSUME Init PROVE IInv
  OBVIOUS
<1>1. TypeOK
  <2>1. next \in 1..NumShards + 1
    BY MigrateAssumption DEF Init
  <2>2. avoiding \subseteq avoid /\ insufficient \in BOOLEAN /\ pc = "start" /\ result = "none"
    BY DEF Init
  <2>3. /\ kept \in [Shards -> Hosts \cup {None}]
        /\ stored \in [Shards -> Hosts \cup {None}]
    BY DEF Init
  <2> QED
    BY <2>1, <2>2, <2>3 DEF TypeOK
<1>2. shards \in [Shards -> SUBSET Contracts]
  <2>1. UNION {kSubset(k, Contracts) : k \in 0..2} \subseteq SUBSET Contracts
    BY DEF kSubset
  <2> QED
    BY <2>1 DEF Init
<1>3. ulContracts \subseteq Contracts /\ HostsOf(ulContracts) \subseteq dlHosts
  BY DEF Init, HostsOf
<1>4. KeptWell /\ StoredWell
  BY DEF Init, KeptWell, StoredWell
<1> QED
  BY <1>1, <1>2, <1>3, <1>4 DEF Init, IInv, Hints

LEMMA StartKeeps == IInv /\ Start => IInv'
<1> SUFFICES ASSUME IInv, Start PROVE IInv'
  OBVIOUS
<1>1. TypeOK'
  BY DEF IInv, TypeOK, Start, input
<1>2. Hints'
  BY DEF IInv, Hints, Start, input, HostsOf
<1>3. KeptWell'
  BY DEF IInv, KeptWell, Start, input, HostsOf
<1>4. StoredWell'
  BY DEF IInv, StoredWell, Start, input
<1> QED
  BY <1>1, <1>2, <1>3, <1>4 DEF IInv

LEMMA PlaceKeeps == IInv /\ Place => IInv'
<1> SUFFICES ASSUME IInv, Place PROVE IInv'
  OBVIOUS
<1>0. next \in 1..NumShards + 1 /\ NumShards \in Nat /\ next <= NumShards
  BY MigrateAssumption DEF IInv, TypeOK, Place
<1>1. /\ pc = "place" /\ next \in Shards /\ next' = next + 1
      /\ next' \in 1..NumShards + 1
      /\ UNCHANGED <<input, avoiding, insufficient, pc, stored, result>>
  <2>1. next \in Shards
    BY <1>0 DEF Shards
  <2>2. next + 1 \in 1..NumShards + 1
    BY <1>0
  <2> QED
    BY <2>1, <2>2 DEF Place
<1>2. CASE UNCHANGED kept
  BY <1>1, <1>2
     DEF IInv, TypeOK, Hints, KeptWell, StoredWell, Allowed, Seen, HostsOf, input
<1>3. CASE \E h \in Keepers(next) : kept' = [kept EXCEPT ![next] = h]
  <2>1. PICK h \in Keepers(next) : kept' = [kept EXCEPT ![next] = h]
    BY <1>3
  <2>2. h \in HostsOf(ulContracts) \ avoiding /\ h \in Hosts /\ h \notin Seen
    <3>1. ulContracts \subseteq Contracts
      BY DEF IInv, Hints
    <3>2. /\ h \in {HostOf[c] : c \in shards[next] \cap ulContracts}
          /\ h \notin avoiding /\ h \notin Seen
      BY DEF Keepers, HostsOf
    <3> QED
      BY <3>1, <3>2 DEF HostsOf, Hosts
  <2>3. h # None /\ \A i \in Shards : kept[i] # h
    BY <2>2, MigrateAssumption DEF Seen
  <2>4. kept \in [Shards -> Hosts \cup {None}] /\ kept'[next] = h
        /\ \A i \in Shards : i # next => kept'[i] = kept[i]
    BY <1>1, <2>1 DEF IInv, TypeOK
  <2>5. TypeOK'
    BY <1>1, <2>1, <2>2 DEF IInv, TypeOK, input
  <2>6. Hints'
    BY <1>1 DEF IInv, Hints, HostsOf, input
  <2>7. KeptWell'
    <3>1. HostsOf(ulContracts)' = HostsOf(ulContracts) /\ avoiding' = avoiding
      BY <1>1 DEF HostsOf, input
    <3>2. \A i \in Shards : kept'[i] # None => kept'[i] \in HostsOf(ulContracts) \ avoiding
      BY <2>2, <2>4 DEF IInv, KeptWell
    <3>3. ASSUME NEW i \in Shards, NEW j \in Shards, i # j, kept'[i] # None
          PROVE  kept'[i] # kept'[j]
      BY <2>3, <2>4, <3>3 DEF IInv, KeptWell
    <3> QED
      BY <1>1, <3>1, <3>2, <3>3 DEF KeptWell
  <2>8. StoredWell'
    BY <1>1 DEF IInv, StoredWell
  <2> QED
    BY <2>5, <2>6, <2>7, <2>8 DEF IInv
<1> QED
  BY <1>2, <1>3 DEF Place

LEMMA CheckKeeps == IInv /\ Check => IInv'
<1> SUFFICES ASSUME IInv, Check PROVE IInv'
  OBVIOUS
<1>1. /\ UNCHANGED <<input, avoiding, insufficient, next, kept, stored>> /\ pc = "place"
      /\ \/ pc' = "upload" /\ result' = result
         \/ /\ pc' = "done"
            /\ result' \in {"no destinations", "ok", "no hosts", "no download"}
            /\ result' = "ok" => Moving = {}
  BY DEF Check, End
<1>2. TypeOK'
  BY <1>1 DEF IInv, TypeOK, input
<1>3. Hints' /\ KeptWell'
  BY <1>1 DEF IInv, Hints, KeptWell, HostsOf, input
<1>4. StoredWell'
  BY <1>1 DEF IInv, StoredWell, Allowed, Seen, HostsOf, Moving, input
<1> QED
  BY <1>2, <1>3, <1>4 DEF IInv

LEMMA UploadKeeps == IInv /\ Upload => IInv'
<1> SUFFICES ASSUME IInv, Upload PROVE IInv'
  OBVIOUS
<1>1. /\ UNCHANGED <<input, avoiding, insufficient, next, kept>>
      /\ pc = "upload" /\ pc' = "done" /\ stored = [i \in Shards |-> None]
  BY DEF Upload, End, IInv, StoredWell
<1>2. Allowed' = Allowed /\ Allowed \subseteq Hosts
  BY <1>1 DEF Allowed, Seen, HostsOf, Hosts, input, IInv, Hints
<1>3. Hints' /\ KeptWell'
  BY <1>1 DEF IInv, Hints, KeptWell, HostsOf, input
<1>4. CASE result' = "failed" /\ stored' = stored
  <2>1. TypeOK'
    BY <1>1, <1>4 DEF IInv, TypeOK, input
  <2>2. StoredWell'
    BY <1>1, <1>4 DEF StoredWell
  <2> QED
    BY <1>3, <2>1, <2>2 DEF IInv
<1>5. ASSUME NEW done \in SUBSET Moving, NEW to \in [done -> Allowed],
             \A i, j \in done : i # j => to[i] # to[j],
             stored' = [i \in Shards |-> IF i \in done THEN to[i] ELSE None],
             result' = IF done = Moving THEN "ok" ELSE "failed"
      PROVE  IInv'
  <2>1. \A i \in done : to[i] \in Allowed /\ to[i] # None /\ i \in Shards /\ kept[i] = None
    BY <1>2, <1>5, MigrateAssumption DEF Moving
  <2>2. \A i \in Shards : /\ i \in done => stored'[i] = to[i]
                          /\ i \notin done => stored'[i] = None
    BY <1>5
  <2>3. TypeOK'
    BY <1>1, <1>2, <1>5, <2>1 DEF IInv, TypeOK, input
  <2>4. \A i \in Shards : stored'[i] # None => kept'[i] = None /\ stored'[i] \in Allowed'
    BY <1>1, <1>2, <2>1, <2>2
  <2>5. \A i, j \in Shards : i # j /\ stored'[i] # None => stored'[i] # stored'[j]
    BY <1>5, <2>1, <2>2
  <2>6. result' = "ok" => \A i \in Shards : kept'[i] # None \/ stored'[i] # None
    BY <1>1, <1>5, <2>1, <2>2 DEF Moving
  <2>7. StoredWell'
    BY <1>1, <2>4, <2>5, <2>6 DEF StoredWell
  <2> QED
    BY <1>3, <2>3, <2>7 DEF IInv
<1> QED
  BY <1>4, <1>5 DEF Upload, End

LEMMA InvariantHolds == Spec => []IInv
<1>1. IInv /\ [Next]_vars => IInv'
  <2>1. IInv /\ UNCHANGED vars => IInv'
    <3> SUFFICES ASSUME IInv, UNCHANGED vars PROVE IInv'
      OBVIOUS
    <3>1. TypeOK' /\ Hints' /\ KeptWell'
      BY DEF IInv, TypeOK, Hints, KeptWell, HostsOf, vars, input
    <3>2. StoredWell'
      BY DEF IInv, StoredWell, Allowed, Seen, HostsOf, vars, input
    <3> QED
      BY <3>1, <3>2 DEF IInv
  <2> QED
    BY <2>1, StartKeeps, PlaceKeeps, CheckKeeps, UploadKeeps DEF Next
<1> QED
  BY <1>1, InitHolds, PTL DEF Spec

THEOREM TypeCorrect == Spec => []TypeOK
  BY InvariantHolds, PTL DEF IInv

\* Shards that stay and shards that move never share a host, whatever the map
\* order and however many shards the upload stores.
THEOREM DistinctHostsHolds == Spec => []DistinctHosts
<1>1. IInv => DistinctHosts
  <2> SUFFICES ASSUME IInv, NEW i \in Shards, NEW j \in Shards, i # j, Holder(i) # None
               PROVE  Holder(i) # Holder(j)
    BY DEF DistinctHosts
  <2>1. CASE kept[i] # None /\ kept[j] # None
    BY <2>1 DEF IInv, KeptWell, Holder
  <2>2. CASE kept[i] = None /\ kept[j] = None
    BY <2>2 DEF IInv, StoredWell, Holder
  <2>3. CASE kept[i] # None /\ kept[j] = None
    BY <2>3 DEF IInv, StoredWell, Holder, Allowed, Seen
  <2>4. CASE kept[i] = None /\ kept[j] # None
    BY <2>4 DEF IInv, StoredWell, Holder, Allowed, Seen
  <2> QED
    BY <2>1, <2>2, <2>3, <2>4
<1> QED
  BY <1>1, InvariantHolds, PTL

\* A migration that succeeds leaves every shard on a usable host that is not to
\* be avoided, unless there was no room to avoid it.
THEOREM SuccessPlacesAllHolds == Spec => []SuccessPlacesAll
<1>1. IInv => SuccessPlacesAll
  <2> SUFFICES ASSUME IInv, result = "ok", NEW i \in Shards
               PROVE  Holder(i) \in dlHosts /\ (insufficient \/ Holder(i) \notin avoid)
    BY DEF SuccessPlacesAll
  <2>1. Holder(i) \in HostsOf(ulContracts) \ avoiding
    BY DEF IInv, KeptWell, StoredWell, Holder, Allowed
  <2>2. pc = "done"
    BY DEF IInv, StoredWell
  <2> QED
    BY <2>1, <2>2 DEF IInv, Hints
<1> QED
  BY <1>1, InvariantHolds, PTL

-----------------------------------------------------------------------------
\* The room the start has seen is still there, and so is the reason of a refusal.
Roomy ==
  /\ pc # "start" /\ avoid # {} /\ ~insufficient => Cardinality(Destinations) >= NumShards
  /\ result = "no download" => pc = "done" /\ Cardinality(Downloadable) < MinShards

LEMMA ShardNumbers == NumShards \in Nat /\ MinShards \in Nat
<1>1. NumShards \in Nat /\ MinShards \in 1..NumShards
  BY MigrateAssumption
<1>. QED  BY <1>1

LEMMA FiniteHosts ==
  /\ IsFiniteSet(Hosts) /\ IsFiniteSet(Shards) /\ Cardinality(Shards) = NumShards
<1>1. IsFiniteSet(Hosts)
  <2>. DEFINE at == [c \in Contracts |-> HostOf[c]]
  <2>1. at \in Surjection(Contracts, Hosts)
    <3>1. at \in [Contracts -> Hosts] /\ \A h \in Hosts : \E c \in Contracts : at[c] = h
      BY DEF Hosts
    <3>. QED  BY <3>1 DEF Surjection
  <2>. QED  BY <2>1, MigrateAssumption, FS_Surjection
<1>2. IsFiniteSet(1..NumShards) /\ Cardinality(1..NumShards) = NumShards
  BY MigrateAssumption, FS_Interval
<1>. QED  BY <1>1, <1>2 DEF Shards

LEMMA StillTooFew ==
  ASSUME NEW Y \in SUBSET Shards, NEW X \in SUBSET Y, Cardinality(Y) < MinShards
  PROVE  Cardinality(X) < MinShards
<1>1. /\ Cardinality(X) <= Cardinality(Y)
      /\ Cardinality(X) \in Nat /\ Cardinality(Y) \in Nat
  BY FiniteHosts, FS_Subset, FS_CardinalityType
<1>. QED  BY <1>1, ShardNumbers

LEMMA RoomyKept == IInv /\ Roomy /\ [Next]_vars => Roomy'
<1>. SUFFICES ASSUME IInv, Roomy, [Next]_vars PROVE Roomy'
  OBVIOUS
<1>1. CASE Start
  <2>1. Cardinality(Destinations) \in Nat
    <3>1. Destinations \subseteq Hosts
      <4>1. ulContracts \subseteq Contracts
        BY DEF IInv, Hints
      <4>. QED  BY <4>1 DEF Destinations, HostsOf, Hosts
    <3>. QED  BY <3>1, FiniteHosts, FS_Subset, FS_CardinalityType
  <2>2. UNCHANGED <<input, result>> /\ pc = "start"
        /\ insufficient' = (avoid # {} /\ Cardinality(Destinations) < NumShards)
    BY <1>1 DEF Start
  <2>3. Destinations' = Destinations /\ avoid' = avoid /\ result' = "none"
    BY <2>2 DEF Destinations, HostsOf, input, IInv, StoredWell
  <2>4. avoid # {} /\ ~insufficient' => ~(Cardinality(Destinations) < NumShards)
    BY <2>2
  <2>5. ~(Cardinality(Destinations) < NumShards) => Cardinality(Destinations) >= NumShards
    BY <2>1, MigrateAssumption
  <2>6. avoid # {} /\ ~insufficient' => Cardinality(Destinations) >= NumShards
    BY <2>4, <2>5
  <2>. QED  BY <2>3, <2>6 DEF Roomy
<1>2. CASE Place \/ Check \/ Upload
  <2>1. /\ UNCHANGED <<input, insufficient>> /\ pc \notin {"start", "done"}
        /\ result # "no download"
    BY <1>2 DEF Place, Check, Upload, IInv, StoredWell
  <2>2. Destinations' = Destinations /\ avoid' = avoid
    BY <2>1 DEF Destinations, HostsOf, input
  <2>3. result' = "no download" => pc' = "done" /\ Cardinality(Downloadable') < MinShards
    <3>. SUFFICES ASSUME result' = "no download"
                  PROVE  pc' = "done" /\ Cardinality(Downloadable') < MinShards
      OBVIOUS
    <3>1. ~Place /\ ~Upload
      BY <2>1 DEF Place, Upload, End
    <3>2. Check
      BY <1>2, <3>1
    <3>3. pc' = "done" /\ Cardinality(Downloadable) < MinShards
      BY <2>1, <3>2 DEF Check, End
    <3>4. Downloadable' = Downloadable
      BY <3>2 DEF Check, Downloadable, Moving, HostsOf, input
    <3>. QED  BY <3>3, <3>4
  <2>. QED  BY <2>1, <2>2, <2>3 DEF Roomy
<1>3. CASE UNCHANGED vars
  BY <1>3 DEF Roomy, Destinations, Downloadable, Moving, HostsOf, vars, input
<1>. QED  BY <1>1, <1>2, <1>3 DEF Next

LEMMA RoomyHolds == Spec => []Roomy
<1>1. Init => Roomy
  BY DEF Init, Roomy
<1>. QED  BY <1>1, RoomyKept, InvariantHolds, PTL DEF Spec

\* While hosts are avoided there is room for every shard that moves: every host that
\* keeps a shard takes the place of one shard only.
THEOREM RiskMoveHasRoomHolds == Spec => []RiskMoveHasRoom
<1>1. IInv /\ Roomy => RiskMoveHasRoom
  <2>. SUFFICES ASSUME IInv, Roomy, pc = "upload", avoiding # {}
                PROVE  Cardinality(Allowed) >= Cardinality(Moving)
    BY DEF RiskMoveHasRoom
  <2>1. avoiding = avoid /\ Cardinality(Destinations) >= NumShards
    BY DEF IInv, Hints, Roomy
  <2>2. Destinations \subseteq Hosts /\ Seen \subseteq Destinations
    <3>1. ulContracts \subseteq Contracts
      BY DEF IInv, Hints
    <3>2. Destinations \subseteq Hosts
      BY <3>1 DEF Destinations, HostsOf, Hosts
    <3>3. \A i \in Shards : kept[i] # None => kept[i] \in HostsOf(ulContracts) \ avoid
      BY <2>1 DEF IInv, KeptWell
    <3>. QED  BY <3>2, <3>3 DEF Destinations, Seen
  <2>3. /\ IsFiniteSet(Destinations) /\ IsFiniteSet(Seen)
        /\ Cardinality(Destinations) \in Nat /\ Cardinality(Seen) \in Nat
    BY <2>2, FiniteHosts, FS_Subset, FS_CardinalityType
  <2>4. Cardinality(Seen) <= Cardinality(Shards \ Moving)
    <3>. DEFINE keeper == [i \in Shards \ Moving |-> kept[i]]
    <3>1. keeper \in Surjection(Shards \ Moving, Seen)
      <4>1. keeper \in [Shards \ Moving -> Seen]
        BY DEF Seen, Moving
      <4>2. \A h \in Seen : \E i \in Shards \ Moving : keeper[i] = h
        BY DEF Seen, Moving
      <4>. QED  BY <4>1, <4>2 DEF Surjection
    <3>2. IsFiniteSet(Shards \ Moving)
      BY FiniteHosts, FS_Subset
    <3>. QED  BY <3>1, <3>2, FS_Surjection
  <2>5. /\ Cardinality(Shards \ Moving) = NumShards - Cardinality(Moving)
        /\ Cardinality(Moving) \in Nat /\ NumShards \in Nat
    <3>1. Moving \subseteq Shards /\ Shards \cap Moving = Moving
      BY DEF Moving
    <3>2. IsFiniteSet(Moving) /\ Cardinality(Shards \ Moving) = Cardinality(Shards) - Cardinality(Moving)
      BY <3>1, FiniteHosts, FS_Subset, FS_Difference, ZenonT(40)
    <3>. QED  BY <3>2, FiniteHosts, FS_CardinalityType, MigrateAssumption
  <2>6. Cardinality(Allowed) = Cardinality(Destinations) - Cardinality(Seen)
    <3>1. Allowed = Destinations \ Seen /\ Destinations \cap Seen = Seen
      BY <2>1, <2>2 DEF Allowed, Destinations
    <3>. QED  BY <2>3, <3>1, FS_Difference
  <2>. QED  BY <2>1, <2>3, <2>4, <2>5, <2>6
<1>. QED  BY <1>1, InvariantHolds, RoomyHolds, PTL

\* A migration is not refused for lack of shards when enough of them are on usable
\* hosts.
THEOREM AvoidedStayDownloadableHolds == Spec => []AvoidedStayDownloadable
<1>1. Roomy => AvoidedStayDownloadable
  <2>. DEFINE X == {i \in Shards : HostsOf(shards[i]) \cap dlHosts # {}}
  <2>. SUFFICES ASSUME Roomy, result = "no download" PROVE Cardinality(X) < MinShards
    BY DEF AvoidedStayDownloadable
  <2>1. X \subseteq Downloadable /\ Downloadable \subseteq Shards
    BY DEF Downloadable
  <2>2. Cardinality(Downloadable) < MinShards
    BY DEF Roomy
  <2>. HIDE DEF X
  <2>. QED  BY <2>1, <2>2, StillTooFew
<1>. QED  BY <1>1, RoomyHolds, PTL

-----------------------------------------------------------------------------
(* The run of the migrator (module Migrator, with variables of its own)    *)

\* What a worker does, and where the run is: all the proof needs of the types.
\* The list's type is not needed, whichever slab a worker is handed.
WorkersOK ==
  /\ runPc \in {"idle", "refresh", "dispatch", "closing"}
  /\ worker \in [Threads -> {"gone", "waiting", "started", "unsynced", "migrating"}]
  /\ sigConsensus \in BOOLEAN

RunInv == WorkersOK /\ NoStuckDispatch

LEMMA RunInitHolds == MigratorInit => RunInv
  BY DEF MigratorInit, RunInv, WorkersOK, NoStuckDispatch

\* The steps that leave the workers and both the place and the signal alone.
LEMMA RunElsewhereKeeps ==
  ASSUME RunInv, UNCHANGED <<runPc, worker, sigConsensus>>
  PROVE  RunInv'
  BY DEF RunInv, WorkersOK, NoStuckDispatch

\* The steps of the run itself.
LEMMA RunMainKeeps ==
  ASSUME RunInv, Migrate \/ Main
  PROVE  RunInv'
<1>1. CASE Migrate
  BY <1>1 DEF Migrate, RunInv, WorkersOK, NoStuckDispatch, env
<1>2. CASE Refresh \/ RefreshFails
  BY <1>2 DEF Refresh, RefreshFails, Offer, RunInv, WorkersOK, NoStuckDispatch, signals
<1>3. CASE Cancelled
  BY <1>3 DEF Cancelled, RunInv, WorkersOK, NoStuckDispatch, signals
<1>4. CASE Interrupted
  BY <1>4 DEF Interrupted, RunInv, WorkersOK, NoStuckDispatch
<1>5. CASE MaintenanceFinished
  BY <1>5 DEF MaintenanceFinished, RunInv, WorkersOK, NoStuckDispatch
<1>6. CASE Done
  BY <1>6 DEF Done, RunInv, WorkersOK, NoStuckDispatch, signals
<1>. QED  BY <1>1, <1>2, <1>3, <1>4, <1>5, <1>6 DEF Main

\* The steps of a worker and the channel of jobs.
LEMMA RunWorkerKeeps ==
  ASSUME RunInv, NEW w \in Threads, Select(w) \/ Work(w)
  PROVE  RunInv'
<1>1. CASE HandOver(w)
  BY <1>1 DEF HandOver, RunInv, WorkersOK, NoStuckDispatch, signals
<1>2. CASE WorkerExits(w)
  BY <1>2 DEF WorkerExits, RunInv, WorkersOK, NoStuckDispatch, main, signals
<1>3. CASE UploadParams(w)
  BY <1>3 DEF UploadParams, RunInv, WorkersOK, NoStuckDispatch, main, signals
<1>4. CASE GiveUp(w)
  BY <1>4 DEF GiveUp, RunInv, WorkersOK, NoStuckDispatch, main
<1>5. CASE Repaired(w)
  BY <1>5 DEF Repaired, Idle, RunInv, WorkersOK, NoStuckDispatch, main, signals
<1>6. CASE Failed(w)
  BY <1>6 DEF Failed, Idle, RunInv, WorkersOK, NoStuckDispatch, main, signals
<1>. QED  BY <1>1, <1>2, <1>3, <1>4, <1>5, <1>6 DEF Select, Work

LEMMA RunStepKeeps == RunInv /\ [MigratorNext]_migratorVars => RunInv'
<1>. SUFFICES ASSUME RunInv, [MigratorNext]_migratorVars PROVE RunInv'
  OBVIOUS
<1>1. CASE Environment
  BY <1>1, RunElsewhereKeeps
     DEF Environment, SignalMaintenanceFinished, Sync, Cancel, Damage, Change, main
<1>2. CASE UNCHANGED migratorVars
  BY <1>2, RunElsewhereKeeps DEF migratorVars, main, signals
<1>. QED  BY <1>1, <1>2, RunMainKeeps, RunWorkerKeeps DEF MigratorNext

\* As soon as a worker has given up, the signal that ends the run can be
\* received, so performMigrations is never left offering a slab to nobody.
THEOREM NeverStuck == MigratorSpec => []NoStuckDispatch
<1>1. RunInv => NoStuckDispatch
  BY DEF RunInv
<1>. QED  BY <1>1, RunInitHolds, RunStepKeeps, PTL DEF MigratorSpec

-----------------------------------------------------------------------------
(* The merge of the list.  Each round of the loop that removes what is not *)
(* fetched any more leaves one slab less to look at.                       *)

NoTwice(list) == \A i, j \in 1..Len(list) : list[i] = list[j] => i = j

SiftStates(old, F) ==
  {d \in [list : Seq(Slabs), i : Nat] :
     /\ NoTwice(d.list)
     /\ d.i \in 1..Len(d.list) + 1
     /\ \A k \in 1..d.i - 1 : d.list[k] \in F
     /\ \A k \in 1..Len(d.list) : \E m \in 1..Len(old) : d.list[k] = old[m]
     /\ \A m \in 1..Len(old) : old[m] \in F => \E k \in 1..Len(d.list) : d.list[k] = old[m]}

Left(d) == Len(d.list) + 1 - d.i

Without(list, i) == SubSeq([list EXCEPT ![i] = list[Len(list)]], 1, Len(list) - 1)

Sifted(d, F) == IF d.list[d.i] \in F THEN [list |-> d.list, i |-> d.i + 1]
                ELSE [list |-> Without(d.list, d.i), i |-> d.i]

LEMMA WithoutFacts ==
  ASSUME NEW list \in Seq(Slabs), NEW i \in 1..Len(list), NoTwice(list),
         NEW new, new = Without(list, i)
  PROVE  /\ new \in Seq(Slabs) /\ Len(new) = Len(list) - 1
         /\ \A k \in 1..Len(list) - 1 : new[k] = IF k = i THEN list[Len(list)] ELSE list[k]
         /\ NoTwice(new)
<1>. DEFINE n == Len(list)
            moved == [list EXCEPT ![i] = list[n]]
<1>1. n \in Nat /\ n \in 1..n /\ list \in [1..n -> Slabs]
  OBVIOUS
<1>2. moved \in Seq(Slabs) /\ Len(moved) = n
      /\ \A k \in 1..n : moved[k] = IF k = i THEN list[n] ELSE list[k]
  BY <1>1
<1>3. new = SubSeq(moved, 1, n - 1)
  BY DEF Without
<1>. HIDE DEF moved
<1>4. new \in Seq(Slabs) /\ Len(new) = n - 1 /\ \A k \in 1..n - 1 : new[k] = moved[k]
  BY <1>1, <1>2, <1>3
<1>5. \A k \in 1..n - 1 : new[k] = IF k = i THEN list[n] ELSE list[k]
  BY <1>1, <1>2, <1>4
<1>0. \A j, k \in 1..n : list[j] = list[k] => j = k
  BY DEF NoTwice
<1>. HIDE DEF n
<1>6. ASSUME NEW j \in 1..n - 1, NEW k \in 1..n - 1, new[j] = new[k] PROVE j = k
  <2>1. j \in 1..n /\ k \in 1..n /\ j # n /\ k # n
    BY <1>1
  <2>2. i \in 1..n
    BY DEF n
  <2>. QED  BY <1>0, <1>1, <1>5, <1>6, <2>1, <2>2
<1>. QED  BY <1>4, <1>5, <1>6 DEF NoTwice, n

LEMMA SiftedFacts ==
  ASSUME NEW old \in Seq(Slabs), NEW F, NEW d \in SiftStates(old, F), Left(d) > 0
  PROVE  Sifted(d, F) \in SiftStates(old, F) /\ Left(Sifted(d, F)) = Left(d) - 1
<1>. DEFINE n == Len(d.list)
<1>1. /\ d.list \in Seq(Slabs) /\ n \in Nat /\ NoTwice(d.list) /\ d.i \in 1..n
      /\ \A k \in 1..d.i - 1 : d.list[k] \in F
      /\ \A k \in 1..n : \E m \in 1..Len(old) : d.list[k] = old[m]
      /\ \A m \in 1..Len(old) : old[m] \in F => \E k \in 1..n : d.list[k] = old[m]
  BY DEF SiftStates, Left
<1>2. CASE d.list[d.i] \in F
  <2>1. Sifted(d, F) = [list |-> d.list, i |-> d.i + 1]
    BY <1>2 DEF Sifted
  <2>2. \A k \in 1..(d.i + 1) - 1 : d.list[k] \in F
    BY <1>1, <1>2
  <2>. QED  BY <1>1, <2>1, <2>2 DEF SiftStates, Left
<1>3. CASE d.list[d.i] \notin F
  <2>. DEFINE new == Without(d.list, d.i)
  <2>1. Sifted(d, F) = [list |-> new, i |-> d.i]
    BY <1>3 DEF Sifted
  <2>2. /\ new \in Seq(Slabs) /\ Len(new) = n - 1 /\ NoTwice(new)
        /\ \A k \in 1..n - 1 : new[k] = IF k = d.i THEN d.list[n] ELSE d.list[k]
    <3>1. d.list \in Seq(Slabs) /\ d.i \in 1..Len(d.list) /\ NoTwice(d.list)
      BY <1>1
    <3>2. PICK list, i : list = d.list /\ i = d.i
      OBVIOUS
    <3>3. list \in Seq(Slabs) /\ i \in 1..Len(list) /\ NoTwice(list)
      BY <3>1, <3>2
    <3>4. /\ Without(list, i) \in Seq(Slabs) /\ Len(Without(list, i)) = Len(list) - 1
          /\ \A k \in 1..Len(list) - 1 : Without(list, i)[k] = IF k = i THEN list[Len(list)] ELSE list[k]
          /\ NoTwice(Without(list, i))
      BY <3>3, WithoutFacts
    <3>. QED  BY <3>2, <3>4
  <2>. HIDE DEF new
  <2>0. n \in Nat /\ d.i \in 1..n
    BY <1>1
  <2>. HIDE DEF n
  <2>3. ASSUME NEW k \in 1..d.i - 1 PROVE new[k] \in F
    <3>1. k \in 1..n - 1 /\ k # d.i /\ d.list[k] \in F
      BY <1>1, <2>0
    <3>. QED  BY <2>2, <3>1
  <2>4. \A k \in 1..n - 1 : \E m \in 1..Len(old) : new[k] = old[m]
    <3>. SUFFICES ASSUME NEW k \in 1..n - 1 PROVE \E m \in 1..Len(old) : new[k] = old[m]
      OBVIOUS
    <3>1. k \in 1..n /\ n \in 1..n
      BY <2>0
    <3>. QED  BY <1>1, <2>2, <3>1
  <2>5. ASSUME NEW m \in 1..Len(old), old[m] \in F PROVE \E k \in 1..n - 1 : new[k] = old[m]
    <3>1. PICK k \in 1..n : d.list[k] = old[m]
      BY <1>1, <2>5
    <3>2. k # d.i
      BY <1>3, <2>5, <3>1
    <3>3. CASE k = n
      <4>1. d.i \in 1..n - 1 /\ new[d.i] = old[m]
        BY <2>0, <2>2, <3>1, <3>2, <3>3
      <4>. QED  BY <4>1
    <3>4. CASE k # n
      <4>1. k \in 1..n - 1 /\ new[k] = old[m]
        BY <2>0, <2>2, <3>1, <3>2, <3>4
      <4>. QED  BY <4>1
    <3>. QED  BY <3>3, <3>4
  <2>6. d.i \in 1..(n - 1) + 1 /\ d.i \in Nat
    BY <2>0
  <2>7. Left(Sifted(d, F)) = Left(d) - 1
    <3>1. Left(Sifted(d, F)) = (n - 1) + 1 - d.i /\ Left(d) = n + 1 - d.i
      BY <2>1, <2>2 DEF Left, n
    <3>. QED  BY <2>0, <3>1
  <2>8. ASSUME NEW e, e = [list |-> new, i |-> d.i] PROVE e \in SiftStates(old, F)
    <3>1. e \in [list : Seq(Slabs), i : Nat] /\ e.list = new /\ e.i = d.i
      BY <2>2, <2>6, <2>8
    <3>. QED  BY <2>2, <2>3, <2>4, <2>5, <2>6, <3>1 DEF SiftStates
  <2>. QED  BY <2>1, <2>7, <2>8
<1>. QED  BY <1>2, <1>3

\* The loop ends with the slabs of the old list that are fetched again.
LEMMA SiftFacts ==
  ASSUME NEW old \in Seq(Slabs), NoTwice(old), NEW F, NEW new, new = Sift(old, F)
  PROVE  /\ new \in Seq(Slabs) /\ NoTwice(new)
         /\ \A k \in 1..Len(new) : new[k] \in F /\ \E m \in 1..Len(old) : new[k] = old[m]
         /\ \A m \in 1..Len(old) : old[m] \in F => \E k \in 1..Len(new) : new[k] = old[m]
<1>. DEFINE N == Len(old)
            D == SiftStates(old, F)
            step == [n \in 1..N |-> [d \in D |-> IF Left(d) > 0 THEN Sifted(d, F) ELSE d]]
            base == [list |-> old, i |-> 1]
            round(d) == LET list == d.list
                            i == d.i
                            last == Len(list)
                        IN IF list[i] \in F THEN [list |-> list, i |-> i + 1]
                           ELSE [list |-> SubSeq([list EXCEPT ![i] = list[last]], 1, last - 1), i |-> i]
<1>1. N \in Nat
  OBVIOUS
<1>2. base \in D /\ Left(base) = N
  BY <1>1 DEF SiftStates, Left
<1>3. \A n \in 1..N : \A d \in D : step[n][d] \in D
  BY SiftedFacts
<1>4. \A d : round(d) = Sifted(d, F)
  BY DEF Sifted, Without
<1>. HIDE DEF D, step, base
<1>5. PICK f : Iterates(f, N, D, base, step)
  BY <1>1, <1>2, <1>3, RecursiveFunctions
<1>6. /\ f \in [0..N -> D] /\ f[0] = base
      /\ \A n \in 1..N : f[n] = IF Left(f[n - 1]) > 0 THEN Sifted(f[n - 1], F) ELSE f[n - 1]
  <2>1. f \in [0..N -> D] /\ f[0] = base /\ \A n \in 1..N : f[n] = step[n][f[n - 1]]
    BY <1>5 DEF Iterates
  <2>2. ASSUME NEW n \in 1..N
        PROVE  f[n] = IF Left(f[n - 1]) > 0 THEN Sifted(f[n - 1], F) ELSE f[n - 1]
    <3>1. n - 1 \in 0..N /\ f[n - 1] \in D
      BY <1>1, <2>1
    <3>. QED  BY <2>1, <3>1 DEF step
  <2>. QED  BY <2>1, <2>2
<1>. DEFINE L == {n \in Nat : n <= N => Left(f[n]) = N - n}
<1>7. 0 \in L
  BY <1>1, <1>2, <1>6
<1>8. ASSUME NEW n \in Nat, n \in L PROVE n + 1 \in L
  <2>. SUFFICES ASSUME n + 1 <= N PROVE Left(f[n + 1]) = N - (n + 1)
    OBVIOUS
  <2>1. n \in 0..N /\ n + 1 \in 1..N /\ (n + 1) - 1 = n
    BY <1>1
  <2>2. f[n] \in SiftStates(old, F) /\ Left(f[n]) = N - n
    BY <1>6, <1>8, <2>1 DEF D
  <2>3. Left(f[n]) > 0
    BY <1>1, <2>2
  <2>4. f[n + 1] = Sifted(f[n], F)
    BY <1>6, <2>1, <2>3
  <2>5. Left(Sifted(f[n], F)) = Left(f[n]) - 1
    BY <2>2, <2>3, SiftedFacts
  <2>. QED  BY <1>1, <2>2, <2>4, <2>5
<1>9. ASSUME NEW n \in 0..N PROVE Left(f[n]) = N - n
  <2>. HIDE DEF L
  <2>1. n \in L
    BY <1>7, <1>8, Induction
  <2>. QED  BY <2>1 DEF L
<1>10. ASSUME NEW n \in 1..N PROVE f[n] = round(f[n - 1])
  <2>1. n - 1 \in 0..N /\ Left(f[n - 1]) = N - (n - 1)
    BY <1>1, <1>9
  <2>2. f[n] = Sifted(f[n - 1], F)
    BY <1>1, <1>6, <2>1
  <2>. QED  BY <1>4, <2>2
<1>. DEFINE g == CHOOSE s : s = [n \in 0..N |-> IF n = 0 THEN base ELSE round(s[n - 1])]
<1>11. Sift(old, F) = g[N].list
  BY DEF Sift, base
<1>. HIDE DEF round
<1>12. g = [n \in 0..N |-> IF n = 0 THEN base ELSE round(g[n - 1])]
  <2>1. f = [n \in 0..N |-> IF n = 0 THEN base ELSE round(f[n - 1])]
    <3>1. ASSUME NEW n \in 0..N PROVE f[n] = IF n = 0 THEN base ELSE round(f[n - 1])
      <4>1. CASE n = 0
        BY <1>6, <4>1
      <4>2. CASE n # 0
        <5>1. n \in 1..N
          BY <1>1, <4>2
        <5>. QED  BY <1>10, <4>2, <5>1
      <4>. QED  BY <4>1, <4>2
    <3>. QED  BY <1>6, <3>1
  <2>. QED  BY <2>1
<1>. HIDE DEF g
<1>. DEFINE P == {n \in Nat : n <= N => g[n] = f[n]}
<1>13. 0 \in P
  <2>1. 0 \in 0..N
    BY <1>1
  <2>. QED  BY <1>6, <1>12, <2>1
<1>14. ASSUME NEW n \in Nat, n \in P PROVE n + 1 \in P
  <2>. SUFFICES ASSUME n + 1 <= N PROVE g[n + 1] = f[n + 1]
    OBVIOUS
  <2>1. n + 1 \in 0..N /\ n + 1 \in 1..N /\ n + 1 # 0 /\ (n + 1) - 1 = n /\ n <= N
    BY <1>1
  <2>2. g[n + 1] = round(g[n])
    BY <1>12, <2>1
  <2>3. f[n + 1] = round(f[n])
    BY <1>10, <2>1
  <2>. QED  BY <1>14, <2>1, <2>2, <2>3
<1>15. g[N] = f[N]
  <2>. HIDE DEF P
  <2>1. N \in P
    BY <1>1, <1>13, <1>14, Induction
  <2>. QED  BY <1>1, <2>1 DEF P
<1>16. f[N] \in SiftStates(old, F) /\ Left(f[N]) = 0
  BY <1>1, <1>6, <1>9 DEF D
<1>17. new = f[N].list
  BY <1>11, <1>15
<1>. QED  BY <1>16, <1>17 DEF SiftStates, Left

\* A list of the elements of a finite set that is as long as the set is large.
ListOf(list, S) == list \in [1..Cardinality(S) -> S] /\ Members(list) = S

LEMMA ListOfFacts ==
  ASSUME NEW S, S \subseteq Slabs, IsFiniteSet(S), NEW list, ListOf(list, S)
  PROVE  /\ list \in Seq(Slabs) /\ NoTwice(list)
         /\ \A k \in 1..Len(list) : list[k] \in S
         /\ \A s \in S : \E k \in 1..Len(list) : list[k] = s
<1>. DEFINE n == Cardinality(S)
<1>1. n \in Nat
  BY FS_CardinalityType
<1>2. list \in [1..n -> S]
  BY DEF ListOf
<1>3. list \in Seq(Slabs) /\ Len(list) = n
  <2>. HIDE DEF n
  <2>. QED  BY <1>1, <1>2
<1>4. \A s \in S : \E k \in 1..n : list[k] = s
  BY <1>3 DEF ListOf, Members
<1>5. list \in Surjection(1..n, S)
  <2>. HIDE DEF n
  <2>. QED  BY <1>2, <1>4 DEF Surjection
<1>6. IsFiniteSet(1..n) /\ Cardinality(1..n) = n
  <2>1. Cardinality(1..n) = IF 1 > n THEN 0 ELSE n - 1 + 1
    BY <1>1, FS_Interval
  <2>. QED  BY <1>1, <2>1, FS_Interval
<1>7. list \in Injection(1..n, S)
  BY <1>5, <1>6, FS_SurjSameCardinalityImpliesInj
<1>8. NoTwice(list)
  <2>. HIDE DEF n
  <2>. QED  BY <1>3, <1>7 DEF NoTwice, Injection, IsInjective
<1>. QED  BY <1>2, <1>3, <1>4, <1>8

\* What a fetch leaves of the list and adds to it.
LEMMA MergeFacts ==
  ASSUME NEW old \in Seq(Slabs), NoTwice(old), NEW F, F \subseteq Slabs, IsFiniteSet(F),
         NEW list \in Merge(old, F)
  PROVE  /\ list \in Seq(Slabs) /\ NoTwice(list)
         /\ Members(list) = F
         /\ ~risk => \A i, j \in 1..Len(list) :
                       i < j /\ list[j] \in Members(old) => list[i] \in Members(old)
<1>1. CASE risk
  <2>1. ListOf(list, F)
    BY <1>1 DEF Merge, ListOf
  <2>. QED  BY <1>1, <2>1, ListOfFacts DEF ListOf
<1>2. CASE ~risk
  <2>. DEFINE stays == Sift(old, F)
              rest == F \ Members(old)
  <2>1. PICK added \in SortedByHealth(rest) : list = stays \o added
    BY <1>2 DEF Merge
  <2>2. /\ stays \in Seq(Slabs) /\ NoTwice(stays)
        /\ \A k \in 1..Len(stays) : stays[k] \in F /\ \E m \in 1..Len(old) : stays[k] = old[m]
        /\ \A m \in 1..Len(old) : old[m] \in F => \E k \in 1..Len(stays) : stays[k] = old[m]
    BY SiftFacts
  <2>3. IsFiniteSet(rest) /\ rest \subseteq Slabs
    BY FS_Subset
  <2>4. ListOf(added, rest)
    BY DEF SortedByHealth, ListOf
  <2>. HIDE DEF stays, rest
  <2>5. /\ added \in Seq(Slabs) /\ NoTwice(added)
        /\ \A k \in 1..Len(added) : added[k] \in rest
        /\ \A s \in rest : \E k \in 1..Len(added) : added[k] = s
    BY <2>3, <2>4, ListOfFacts
  <2>. DEFINE m == Len(stays)
              n == Len(added)
  <2>6. m \in Nat /\ n \in Nat /\ list \in Seq(Slabs) /\ Len(list) = m + n
    BY <2>1, <2>2, <2>5
  <2>7. \A k \in 1..m : list[k] = stays[k]
    BY <2>1, <2>2, <2>5
  <2>8. \A k \in 1..n : list[m + k] = added[k]
    BY <2>1, <2>2, <2>5
  <2>9. \A k \in 1..m : stays[k] \in F /\ stays[k] \in Members(old)
    BY <2>2 DEF Members
  <2>10. \A k \in 1..n : added[k] \in F /\ added[k] \notin Members(old)
    BY <2>5 DEF rest
  <2>11. ASSUME NEW s \in F
         PROVE  (\E k \in 1..m : stays[k] = s) \/ \E k \in 1..n : added[k] = s
    <3>1. CASE s \in Members(old)
      BY <2>2, <2>11, <3>1 DEF Members
    <3>2. CASE s \notin Members(old)
      BY <2>5, <2>11, <3>2 DEF rest
    <3>. QED  BY <3>1, <3>2
  <2>12. /\ \A j, k \in 1..m : stays[j] = stays[k] => j = k
         /\ \A j, k \in 1..n : added[j] = added[k] => j = k
    BY <2>2, <2>5 DEF NoTwice
  <2>. HIDE DEF m, n
  <2>13. ASSUME NEW k \in 1..m + n
         PROVE  \/ k \in 1..m /\ list[k] = stays[k] /\ list[k] \in F /\ list[k] \in Members(old)
                \/ /\ k > m /\ k - m \in 1..n /\ list[k] = added[k - m]
                   /\ list[k] \in F /\ list[k] \notin Members(old)
    <3>1. CASE k <= m
      <4>1. k \in 1..m
        BY <2>6, <3>1
      <4>. QED  BY <2>7, <2>9, <4>1
    <3>2. CASE k > m
      <4>1. k - m \in 1..n /\ m + (k - m) = k
        BY <2>6, <3>2
      <4>. QED  BY <2>8, <2>10, <3>2, <4>1
    <3>. QED  BY <2>6, <3>1, <3>2
  <2>14. NoTwice(list)
    <3>. SUFFICES ASSUME NEW j \in 1..m + n, NEW k \in 1..m + n, list[j] = list[k] PROVE j = k
      BY <2>6 DEF NoTwice
    <3>1. CASE list[j] \in Members(old)
      <4>1. j \in 1..m /\ k \in 1..m /\ stays[j] = stays[k]
        BY <2>13, <3>1
      <4>. QED  BY <2>12, <4>1
    <3>2. CASE list[j] \notin Members(old)
      <4>1. j - m \in 1..n /\ k - m \in 1..n /\ added[j - m] = added[k - m]
        BY <2>13, <3>2
      <4>2. j - m = k - m
        BY <2>12, <4>1
      <4>. QED  BY <2>6, <4>2
    <3>. QED  BY <3>1, <3>2
  <2>15. Members(list) = F
    <3>1. \A k \in 1..m + n : list[k] \in F
      BY <2>13
    <3>2. ASSUME NEW s \in F PROVE \E k \in 1..m + n : list[k] = s
      <4>1. CASE \E k \in 1..m : stays[k] = s
        <5>1. PICK k \in 1..m : stays[k] = s
          BY <4>1
        <5>2. k \in 1..m + n
          BY <2>6
        <5>. QED  BY <2>7, <5>1, <5>2
      <4>2. CASE \E k \in 1..n : added[k] = s
        <5>1. PICK k \in 1..n : added[k] = s
          BY <4>2
        <5>2. m + k \in 1..m + n
          BY <2>6
        <5>. QED  BY <2>8, <5>1, <5>2
      <4>. QED  BY <2>11, <4>1, <4>2
    <3>. QED  BY <2>6, <3>1, <3>2 DEF Members
  <2>16. ASSUME NEW i \in 1..m + n, NEW j \in 1..m + n, i < j, list[j] \in Members(old)
         PROVE  list[i] \in Members(old)
    <3>1. j \in 1..m
      BY <2>13, <2>16
    <3>2. i \in 1..m
      BY <2>6, <2>16, <3>1
    <3>. QED  BY <2>7, <2>9, <3>2
  <2>. QED  BY <2>6, <2>14, <2>15, <2>16
<1>. QED  BY <1>1, <1>2

-----------------------------------------------------------------------------
(* The list has each slab once, and so has every list a fetch makes of it. *)

ListInv == toMigrate \in Seq(Slabs) /\ NoTwice(toMigrate) /\ needs \subseteq Slabs

LEMMA FetchedList ==
  ASSUME ListInv, Refresh
  PROVE  /\ toMigrate' \in Seq(Slabs) /\ NoTwice(toMigrate')
         /\ Members(toMigrate') \subseteq needs
         /\ Cardinality(needs) <= BatchSize => Members(toMigrate') = needs
         /\ ~risk => \A i, j \in 1..Len(toMigrate') :
                       i < j /\ toMigrate'[j] \in Members(toMigrate)
                         => toMigrate'[i] \in Members(toMigrate)
<1>1. PICK F \in Fetches : toMigrate' \in Merge(toMigrate, F)
  BY DEF Refresh
<1>2. /\ F \subseteq needs
      /\ \A s \in needs \ F : Cardinality(F) = BatchSize
  BY DEF Fetches
<1>3. IsFiniteSet(needs) /\ IsFiniteSet(F) /\ F \subseteq Slabs
  BY <1>2, MigratorAssumption, FS_Subset DEF ListInv
<1>4. ASSUME Cardinality(needs) <= BatchSize PROVE F = needs
  <2>. SUFFICES ASSUME F # needs PROVE FALSE
    OBVIOUS
  <2>1. Cardinality(F) = BatchSize
    BY <1>2
  <2>2. Cardinality(F) <= Cardinality(needs) /\ Cardinality(F) # Cardinality(needs)
    BY <1>2, <1>3, FS_Subset
  <2>3. Cardinality(F) \in Nat /\ Cardinality(needs) \in Nat
    BY <1>3, FS_CardinalityType
  <2>. QED  BY <1>4, <2>1, <2>2, <2>3
<1>5. /\ toMigrate' \in Seq(Slabs) /\ NoTwice(toMigrate')
      /\ Members(toMigrate') = F
      /\ ~risk => \A i, j \in 1..Len(toMigrate') :
                    i < j /\ toMigrate'[j] \in Members(toMigrate)
                      => toMigrate'[i] \in Members(toMigrate)
  BY <1>1, <1>3, MergeFacts DEF ListInv
<1>. QED  BY <1>2, <1>4, <1>5

LEMMA ListStepKeeps ==
  ASSUME ListInv, [MigratorNext]_migratorVars
  PROVE  ListInv'
<1>1. CASE Refresh
  <2>1. needs' = needs
    BY <1>1 DEF Refresh, env
  <2>2. toMigrate' \in Seq(Slabs) /\ NoTwice(toMigrate')
    BY <1>1, FetchedList
  <2>. QED  BY <2>1, <2>2 DEF ListInv, NoTwice
<1>2. CASE Migrate
  BY <1>2 DEF Migrate, env, ListInv, NoTwice
<1>3. ASSUME toMigrate' = toMigrate, needs' \subseteq Slabs PROVE ListInv'
  BY <1>3 DEF ListInv, NoTwice
<1>4. CASE Environment
  BY <1>3, <1>4 DEF Environment, SignalMaintenanceFinished, Sync, Cancel, Damage,
                    Change, main, ListInv
<1>5. CASE RefreshFails \/ Cancelled \/ Interrupted \/ MaintenanceFinished \/ Done
  BY <1>3, <1>5 DEF RefreshFails, Cancelled, Interrupted, MaintenanceFinished, Done,
                    env, ListInv
<1>6. ASSUME NEW w \in Threads, Select(w) \/ Work(w) PROVE ListInv'
  BY <1>3, <1>6 DEF Select, Work, HandOver, WorkerExits, UploadParams, GiveUp,
                    Repaired, Failed, main, env, ListInv
<1>7. CASE UNCHANGED migratorVars
  BY <1>3, <1>7 DEF migratorVars, main, env, ListInv
<1>. QED  BY <1>1, <1>2, <1>4, <1>5, <1>6, <1>7 DEF MigratorNext, Main

\* updateToMigrate under the health policy: the new list has each fetched slab once,
\* those that were waiting before come first, and all slabs in need are fetched if a
\* batch has room for them.
THEOREM MergeOldFirstHolds == MigratorSpec => MergeOldFirst
<1>1. MigratorInit => ListInv
  BY DEF MigratorInit, ListInv, NoTwice
<1>2. ListInv /\ [MigratorNext]_migratorVars => ListInv'
  BY ListStepKeeps
<1>3. ListInv /\ [MigratorNext]_migratorVars =>
        [Refresh /\ ~risk =>
           LET list == toMigrate'  old == Members(toMigrate) IN
           /\ \A i, j \in 1..Len(list) :
                i < j => list[i] # list[j] /\ (list[j] \in old => list[i] \in old)
           /\ Members(list) \subseteq needs
           /\ Cardinality(needs) <= BatchSize => Members(list) = needs]_migratorVars
  <2>. SUFFICES ASSUME ListInv, Refresh, ~risk
                PROVE  /\ \A i, j \in 1..Len(toMigrate') :
                            i < j => /\ toMigrate'[i] # toMigrate'[j]
                                     /\ toMigrate'[j] \in Members(toMigrate)
                                          => toMigrate'[i] \in Members(toMigrate)
                       /\ Members(toMigrate') \subseteq needs
                       /\ Cardinality(needs) <= BatchSize => Members(toMigrate') = needs
    OBVIOUS
  <2>. QED  BY FetchedList DEF NoTwice
<1>. QED  BY <1>1, <1>2, <1>3, PTL DEF MigratorSpec, MergeOldFirst
=============================================================================
