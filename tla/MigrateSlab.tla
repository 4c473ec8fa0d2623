----------------------------- MODULE MigrateSlab ------------------------------
(***************************************************************************)
(* The migration of one slab (Migrator.migrate in                          *)
(* autopilot/migrator/worker.go): which shards stay where they are, which  *)
(* move, and which hosts may receive them, when the risk model asks to     *)
(* avoid some hosts.  A shard may be stored under several contracts, the   *)
(* renewed ones included, and the code looks at them in the random order   *)
(* of a Go map.  UploadShards (module SlabUpload) stores the shards that   *)
(* move, or some of them, on distinct allowed hosts.                       *)
(***************************************************************************)
EXTENDS Integers, FiniteSets, FiniteSetsExt

CONSTANTS
  Contracts,
  HostOf,      \* the host of each contract
  NumShards, MinShards,
  None

Hosts == {HostOf[c] : c \in Contracts}

ASSUME MigrateAssumption ==
  /\ NumShards \in Nat /\ MinShards \in 1..NumShards
  /\ IsFiniteSet(Contracts) /\ None \notin Hosts

Shards == 1..NumShards
HostsOf(C) == {HostOf[c] : c \in C}

VARIABLES
  shards,        \* the contracts under which each shard is stored
  dlHosts,       \* the usable hosts
  ulContracts,   \* the good contracts with them: ulHosts
  avoid,         \* the hosts the model asks to avoid
  avoiding,      \* avoidHosts
  insufficient,  \* insufficientDestinations
  pc,
  next,          \* the shard looked at
  kept,          \* the host that keeps each shard, None if none
  stored,        \* the host the upload stored each moved shard on
  result

input == <<shards, dlHosts, ulContracts, avoid>>
vars == <<input, avoiding, insufficient, pc, next, kept, stored, result>>

TypeOK ==
  /\ avoiding \subseteq avoid
  /\ insufficient \in BOOLEAN
  /\ pc \in {"start", "place", "check", "upload", "done"}
  /\ next \in 1..NumShards + 1
  /\ kept \in [Shards -> Hosts \cup {None}]
  /\ stored \in [Shards -> Hosts \cup {None}]
  /\ result \in {"none", "ok", "no destinations", "no hosts", "no download", "failed"}

\* A shard is stored under at most two contracts; a good contract's host is usable.
Init ==
  /\ shards \in [Shards -> UNION {kSubset(k, Contracts) : k \in 0..2}]
  /\ dlHosts \in SUBSET Hosts
  /\ ulContracts \in SUBSET {c \in Contracts : HostOf[c] \in dlHosts}
  /\ avoid \in UNION {kSubset(k, Hosts) : k \in 0..2}
  /\ avoiding = {}
  /\ insufficient = FALSE
  /\ pc = "start"
  /\ next = 1
  /\ kept = [i \in Shards |-> None]
  /\ stored = [i \in Shards |-> None]
  /\ result = "none"

\* Mutant: contracts are counted, not hosts.
DestinationsByContract == {c \in ulContracts : HostOf[c] \notin avoid}

\* The distinct hosts that may receive a shard while the others are avoided.
Destinations == HostsOf(ulContracts) \ avoid

\* The hosts are avoided only if the whole slab fits on the others.
Start ==
  /\ pc = "start"
  /\ insufficient' = (avoid # {} /\ Cardinality(Destinations) < NumShards)
  /\ avoiding' = IF insufficient' THEN {} ELSE avoid
  /\ pc' = "place"
  /\ UNCHANGED <<input, next, kept, stored, result>>

Seen == {kept[i] : i \in Shards} \ {None}

\* Mutant: a host that keeps a shard may keep another one.
KeepersReused(i) == {h \in HostsOf(shards[i] \cap ulContracts) : h \notin avoiding}

\* The hosts that can keep shard i.
Keepers(i) ==
  {h \in HostsOf(shards[i] \cap ulContracts) : h \notin avoiding /\ h \notin Seen}

\* One shard: the first good host of the map keeps it.
Place ==
  /\ pc = "place"
  /\ next <= NumShards
  /\ next' = next + 1
  /\ IF Keepers(next) = {} THEN UNCHANGED kept
                           ELSE \E h \in Keepers(next) : kept' = [kept EXCEPT ![next] = h]
  /\ UNCHANGED <<input, avoiding, insufficient, pc, stored, result>>

Moving == {i \in Shards : kept[i] = None}

\* Mutant: the shards that move are taken for lost.
DownloadableKept == Shards \ Moving

\* The shards that can be downloaded, len(s.Shards) - missingShards.
Downloadable ==
  {i \in Shards : i \notin Moving \/ HostsOf(shards[i]) \cap dlHosts # {}}

End(r) == pc' = "done" /\ result' = r

\* The checks before memory is acquired and the slab is downloaded.
Check ==
  /\ pc = "place"
  /\ next > NumShards
  /\ IF Moving = {} THEN End(IF insufficient THEN "no destinations" ELSE "ok")
     ELSE IF Cardinality(ulContracts) < MinShards THEN End("no hosts")
     ELSE IF Cardinality(Downloadable) < MinShards THEN End("no download")
     ELSE pc' = "upload" /\ UNCHANGED result
  /\ UNCHANGED <<input, avoiding, insufficient, next, kept, stored>>

\* The hosts that may receive the shards.
Allowed == (HostsOf(ulContracts) \ avoiding) \ Seen

\* UploadShards fails when there are fewer hosts than shards, and may store
\* only some of them, each on a host of its own.
Upload ==
  /\ pc = "upload"
  /\ \/ End("failed") /\ UNCHANGED stored
     \/ /\ Cardinality(Allowed) >= Cardinality(Moving)
        /\ \E done \in SUBSET Moving : \E to \in [done -> Allowed] :
             /\ done # {}
             /\ \A i, j \in done : i # j => to[i] # to[j]
             /\ stored' = [i \in Shards |-> IF i \in done THEN to[i] ELSE None]
             /\ End(IF done = Moving THEN "ok" ELSE "failed")
  /\ UNCHANGED <<input, avoiding, insufficient, next, kept>>

Next == Start \/ Place \/ Check \/ Upload

Spec == Init /\ [][Next]_vars

-----------------------------------------------------------------------------
(* Properties *)

\* The hosts that hold shard i for good after the migration.
Holder(i) == IF kept[i] # None THEN kept[i] ELSE stored[i]

\* Shards that stay and shards that move never share a host.
DistinctHosts ==
  \A i, j \in Shards : i # j /\ Holder(i) # None => Holder(i) # Holder(j)

\* "A risk-driven move must not trade modeled risk for lost redundancy": while
\* hosts are avoided there is room for every shard that moves.
RiskMoveHasRoom ==
  pc = "upload" /\ avoiding # {} => Cardinality(Allowed) >= Cardinality(Moving)

\* A migration that succeeds leaves every shard on a usable host that the model
\* does not ask to avoid, unless there was no room to avoid it.
SuccessPlacesAll ==
  result = "ok" =>
    \A i \in Shards : /\ Holder(i) \in dlHosts
                      /\ insufficient \/ Holder(i) \notin avoid

\* "Avoided hosts stay downloadable": a migration is not refused for lack of
\* shards when enough of them are on usable hosts, avoided ones included.
AvoidedStayDownloadable ==
  result = "no download" =>
    Cardinality({i \in Shards : HostsOf(shards[i]) \cap dlHosts # {}}) < MinShards
=============================================================================
