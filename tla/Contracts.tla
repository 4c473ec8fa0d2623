------------------------------- MODULE Contracts -------------------------------
(***************************************************************************)
(* The contracts with one host: the rows that bus and contractor keep of   *)
(* them (bus/bus.go, bus/routes.go, stores/metadata.go), the chain         *)
(* subscriber that follows the chain and keeps the rows up to date         *)
(* (internal/bus/chainsubscriber.go, stores/sql/chain.go), and the         *)
(* contractor's maintenance, which forms, renews and archives              *)
(* (autopilot/contractor).                                                 *)
(*                                                                         *)
(* A contract is a number.  The chain is a sequence of blocks, a block the *)
(* set of what its transactions do to contracts.  Revisions, funds, scores *)
(* and usability, which decide where data goes, are left out.              *)
(***************************************************************************)
EXTENDS Integers, SequencesExt, FiniteSets

CONSTANTS
  Period, RenewWindow,  \* how many blocks a contract runs, and then is up for renewal
  Buffer,       \* revisionSubmissionBuffer
  Deadline,     \* ContractConfirmationDeadline
  ProofWindow,
  PruneWindow,  \* contractElementPruneWindow
  Batch,        \* updatesBatchSize
  MaxContracts, MaxHeight,  \* bounds
  MaxReorg,     \* bound: how many blocks a reorganisation replaces
  MaxDisturbances,  \* bound on reorganisations, failures, removals and resets together
  None

ASSUME ContractsAssumption ==
  /\ {Period, RenewWindow, Buffer, Deadline, ProofWindow, PruneWindow} \subseteq Nat
  /\ Buffer < Period
  /\ Batch \in Nat \ {0}
  /\ {MaxContracts, MaxHeight, MaxReorg, MaxDisturbances} \subseteq Nat

Contracts == 1..MaxContracts

VARIABLES
  agreed,   \* what was agreed with the host: the contract renewed or 0, start and end
  chain,    \* the best chain
  \* the database
  seen,     \* the chain up to the stored index
  row, element,  \* element: whose leaf of the state tree is stored for the contract, or 0
  \* the chain subscriber
  sig, sub,  \* the signal of a new tip; what the goroutine does
  \* the contractor
  snapshot, deal,  \* the rows still to check, the contract agreed that has no row yet
  late,     \* observer: the contracts that were on the chain before they had a row
  reset,    \* observer: the chain state was reset
  highest,  \* observer: the height of the highest block applied since
  disturbances  \* bound

dbVars == <<seen, row, element>>
subVars == <<sig, sub>>
contractorVars == <<snapshot, deal>>
boundVars == <<reset, highest, disturbances>>
vars == <<agreed, chain, dbVars, subVars, contractorVars, late, boundVars>>

Init ==
  /\ agreed = <<>> /\ chain = <<>> /\ seen = <<>>
  /\ row = [c \in Contracts |-> None] /\ element = [c \in Contracts |-> 0]
  /\ sig = TRUE /\ sub = "waits"
  /\ snapshot = <<>> /\ deal = 0
  /\ late = {}
  /\ reset = FALSE /\ highest = 0 /\ disturbances = 0

\* What happens seldom.
Disturbs == disturbances < MaxDisturbances /\ disturbances' = disturbances + 1

-----------------------------------------------------------------------------
(* The chain *)

Agreed == DOMAIN agreed
From(c) == agreed[c].from
End(c) == agreed[c].end
WindowEnd(c) == End(c) + ProofWindow

Does(kind, c) == [kind |-> kind, id |-> c]

\* A renewal creates its contract and resolves the one it renews.
CreatedBy(b) == {t.id : t \in {t \in b : t.kind = "create"}}
RenewedBy(b) == {From(c) : c \in CreatedBy(b)} \ {0}
ProvedBy(b) == {t.id : t \in {t \in b : t.kind = "proof"}}
ExpiredBy(b) == {t.id : t \in {t \in b : t.kind = "expire"}}
TouchedBy(b) == CreatedBy(b) \cup RenewedBy(b) \cup ProvedBy(b) \cup ExpiredBy(b)

On(ch, By(_)) == UNION {By(ch[h]) : h \in DOMAIN ch}
Created(ch) == On(ch, CreatedBy)
Resolved(ch) == On(ch, RenewedBy) \cup On(ch, ProvedBy) \cup On(ch, ExpiredBy)
Open(ch) == Created(ch) \ Resolved(ch)

\* What the next block may do.
Possible(ch) ==
  LET h == Len(ch) + 1 IN
  {Does("create", c) : c \in {d \in Agreed \ Created(ch) : From(d) \in Open(ch) \cup {0}}}
  \cup {Does("proof", c) : c \in {d \in Open(ch) : h >= End(d) /\ h <= WindowEnd(d)}}
  \cup {Does("expire", c) : c \in {d \in Open(ch) : h > WindowEnd(d)}}

\* A contract is resolved once.
Resolves(t) == IF t.kind = "create" THEN From(t.id) ELSE t.id
Blocks(ch) == {b \in SUBSET Possible(ch) : \A t, u \in b : t # u => Resolves(t) # Resolves(u)}

\* Mutant: the channel of the signal has no buffer.
MineUnheard ==
  /\ Len(chain) < MaxHeight
  /\ \E b \in Blocks(chain) : chain' = Append(chain, b)
  /\ sig' = (sig \/ sub = "waits")
  /\ UNCHANGED <<agreed, dbVars, sub, contractorVars, late, boundVars>>

Mine ==
  /\ Len(chain) < MaxHeight
  /\ \E b \in Blocks(chain) : chain' = Append(chain, b)
  /\ sig' = TRUE
  /\ UNCHANGED <<agreed, dbVars, sub, contractorVars, late, boundVars>>

\* The chains that extend ch by n blocks.
Extended(ch, n) ==
  LET grown[k \in 0..n] ==
        IF k = 0 THEN {ch}
        ELSE UNION {{Append(c, b) : b \in Blocks(c)} : c \in grown[k - 1]}
  IN grown[n]

\* Another chain becomes the best by being longer.
Reorg ==
  /\ Disturbs
  /\ Len(chain) < MaxHeight
  /\ \E n \in 1..Min({MaxReorg, Len(chain)}) :
       chain' \in Extended(SubSeq(chain, 1, Len(chain) - n), n + 1)
  /\ sig' = TRUE
  /\ UNCHANGED <<agreed, dbVars, sub, contractorVars, late, reset, highest>>

-----------------------------------------------------------------------------
(* The chain subscriber *)

Known(r) == {c \in Contracts : r[c] # None}

\* Upserts of the elements keep the leaf that is there.
Upserted(e, cs) == [c \in Contracts |-> IF c \in cs /\ e[c] = 0 THEN c ELSE e[c]]

\* RecordContractRenewal, for the contracts renewed that are known.
Linked(r, old) ==
  [c \in Contracts |->
     IF r[c] = None THEN None
     ELSE [r[c] EXCEPT !.to = IF c \in old THEN CHOOSE d \in Agreed : From(d) = c ELSE @,
                       !.from = IF From(c) \in old THEN From(c) ELSE @]]

\* The state of a contract is set by its resolution, if it has one.
Applied(r, b) ==
  [c \in Contracts |->
     IF r[c] = None THEN None
     ELSE [r[c] EXCEPT !.state = IF c \in RenewedBy(b) \cup ProvedBy(b) THEN "complete"
                                 ELSE IF c \in ExpiredBy(b) THEN "failed"
                                 ELSE IF c \in CreatedBy(b) THEN "active" ELSE @]]

\* UpdateFailedContracts
Failed(r, threshold) ==
  [c \in Contracts |->
     IF r[c] = None THEN None
     ELSE [r[c] EXCEPT !.state = IF @ = "active" /\ WindowEnd(c) <= threshold THEN "failed" ELSE @]]

\* PruneFileContractElements
Pruned(e, r, threshold) ==
  [c \in Contracts |-> IF r[c] # None /\ WindowEnd(c) < threshold THEN 0 ELSE e[c]]

\* applyChainUpdate of the block at height h.
Apply(db, b, h) ==
  LET r == Linked(Applied(db.row, b), RenewedBy(b) \cap Known(db.row))
      e == Upserted(db.element, TouchedBy(b) \cap Known(db.row))
      threshold == h - PruneWindow
  IN IF h > PruneWindow
     THEN [row |-> Failed(r, threshold), element |-> Pruned(e, r, threshold)]
     ELSE [row |-> r, element |-> e]

\* Mutant: resolutions are not reverted.
RevertCreations(db, b) ==
  [row |-> [c \in Contracts |->
              IF db.row[c] # None /\ c \in CreatedBy(b) THEN [db.row[c] EXCEPT !.state = "pending"]
              ELSE db.row[c]],
   element |-> [c \in Contracts |-> IF c \in CreatedBy(b) THEN 0 ELSE db.element[c]]]

\* Mutant: the elements go with every block that is reverted.
RevertElements(db, b) ==
  [row |-> [c \in Contracts |->
              IF db.row[c] = None THEN None
              ELSE [db.row[c] EXCEPT !.state = IF c \in CreatedBy(b) THEN "pending"
                                               ELSE IF c \in TouchedBy(b) THEN "active" ELSE @]],
   element |-> [c \in Contracts |-> IF c \in TouchedBy(b) THEN 0 ELSE db.element[c]]]

\* revertChainUpdate: renewals stay linked.
Revert(db, b) ==
  LET known == TouchedBy(b) \cap Known(db.row)
      created == CreatedBy(b) \cap known
      e == [c \in Contracts |-> IF c \in created THEN 0 ELSE db.element[c]]
  IN [row |-> [c \in Contracts |->
                 IF c \in created THEN [db.row[c] EXCEPT !.state = "pending"]
                 ELSE IF c \in known THEN [db.row[c] EXCEPT !.state = "active"]
                 ELSE db.row[c]],
      element |-> Upserted(e, known \ created)]

\* The length of what both chains begin with.
Common(a, b) ==
  Max({n \in 0..Min({Len(a), Len(b)}) : SubSeq(a, 1, n) = SubSeq(b, 1, n)})

\* UpdatesSince: first the blocks to revert, then those to apply, a batch of them.
Reverts == Min({Len(seen) - Common(seen, chain), Batch})
Applies == Min({Len(chain) - Common(seen, chain), Batch - Reverts})

Wakes ==
  /\ sub = "waits" /\ sig
  /\ sub' = "syncs" /\ sig' = FALSE
  /\ UNCHANGED <<agreed, chain, dbVars, contractorVars, late, boundVars>>

\* The sync ends at the tip, and later the goroutine waits for the next signal.
Synced ==
  /\ \/ sub = "syncs" /\ seen = chain /\ sub' = "ends"
     \/ sub = "ends" /\ sub' = "waits"
  /\ UNCHANGED <<agreed, chain, dbVars, sig, contractorVars, late, boundVars>>

\* One transaction.  The last blocks are reverted first.
ProcessUpdates ==
  /\ sub = "syncs" /\ seen # chain
  /\ LET kept == Len(seen) - Reverts
         reverted[n \in 0..Reverts] ==
           IF n = 0 THEN [row |-> row, element |-> element]
           ELSE Revert(reverted[n - 1], seen[Len(seen) + 1 - n])
         applied[n \in 0..Applies] ==
           IF n = 0 THEN reverted[Reverts]
           ELSE Apply(applied[n - 1], chain[kept + n], kept + n)
     IN /\ \E db \in {applied[Applies]} : row' = db.row /\ element' = db.element
        /\ seen' = SubSeq(seen, 1, kept) \o SubSeq(chain, kept + 1, kept + Applies)
        /\ highest' = Max({highest, kept + Applies})
  /\ UNCHANGED <<agreed, chain, subVars, contractorVars, late, reset, disturbances>>

\* The chain manager does not know the index: the chain is read from the start, the
\* rows stay.
ResetChainState ==
  /\ sub = "syncs" /\ seen # chain /\ seen # <<>>
  /\ Disturbs /\ reset' = TRUE /\ highest' = 0
  /\ seen' = <<>> /\ element' = [c \in Contracts |-> 0]
  /\ UNCHANGED <<agreed, chain, row, subVars, contractorVars, late>>

-----------------------------------------------------------------------------
(* Maintenance *)

ActiveRows == {c \in Contracts : row[c] # None /\ row[c].archived = "no"}
Renewed(c) == \E d \in Agreed : From(d) = c
NewContract(from, end) == Append(agreed, [from |-> from, start |-> Len(chain), end |-> end])

Idle == deal = 0 /\ snapshot = <<>>
Checks(c) == deal = 0 /\ c \in DOMAIN snapshot
Checked(c) == snapshot' = [d \in DOMAIN snapshot \ {c} |-> snapshot[d]]

\* activeContracts: the rows, and the host's revisions if it answers.
Begins ==
  /\ Idle /\ ActiveRows # {}
  /\ \E answered \in SUBSET ActiveRows :
       snapshot' = [c \in ActiveRows |->
                      [row |-> row[c],
                       revision |-> IF c \notin answered THEN "none"
                                    ELSE IF Renewed(c) THEN "final" ELSE "live"]]
  /\ UNCHANGED <<agreed, chain, dbVars, subVars, deal, late, boundVars>>

\* The reason to archive what the snapshot shows, at the height that the bus has
\* now.  The heights are unsigned.  The code looks at the row's own revision number,
\* too: what writes it, blocks and spending records, knows only revisions before the
\* final one.
shouldArchive(s, c) ==
  LET bh == Len(seen) IN
  IF bh > End(c) - Buffer THEN "expired"
  ELSE IF s.revision = "final" THEN "renewed"
  ELSE IF s.row.state = "pending" /\ (bh - agreed[c].start > Deadline \/ bh < agreed[c].start)
       THEN "unconfirmed"
  ELSE IF s.row.to # 0 THEN "renewed" ELSE "no"

\* The check of one contract.
Archives(c) ==
  /\ Checks(c) /\ Checked(c)
  /\ LET reason == shouldArchive(snapshot[c], c) IN
       reason # "no" /\ row' = [row EXCEPT ![c].archived = reason]
  /\ UNCHANGED <<agreed, chain, seen, element, subVars, deal, late, boundVars>>

Keeps(c) ==
  /\ Checks(c) /\ Checked(c)
  /\ shouldArchive(snapshot[c], c) = "no"
  /\ UNCHANGED <<agreed, chain, dbVars, subVars, deal, late, boundVars>>

\* A renewal if the contract runs out, a refresh, which keeps the end, if its funds
\* do.  The host has agreed, and the transaction is broadcast.
Renews(c) ==
  /\ Checks(c) /\ Checked(c)
  /\ shouldArchive(snapshot[c], c) = "no" /\ snapshot[c].revision = "live"
  /\ ~Renewed(c) /\ Len(agreed) < MaxContracts
  /\ agreed' = NewContract(c, IF Len(seen) + RenewWindow >= End(c)
                              THEN Len(seen) + Period + RenewWindow ELSE End(c))
  /\ deal' = Len(agreed')
  /\ UNCHANGED <<chain, dbVars, subVars, late, boundVars>>

Pending(c) == [state |-> "pending", archived |-> "no", from |-> From(c), to |-> 0]
Late == IF deal \in Created(seen) THEN late \cup {deal} ELSE late

\* Mutant: the renewed contract is not archived.
AddRenewalKeeping ==
  LET old == From(deal) IN
  /\ deal # 0 /\ old # 0
  /\ row' = [row EXCEPT ![deal] = [row[old] EXCEPT !.state = "pending", !.from = old],
                        ![old].to = deal]
  /\ element' = [element EXCEPT ![deal] = element[old], ![old] = 0]
  /\ deal' = 0 /\ late' = Late
  /\ UNCHANGED <<agreed, chain, seen, subVars, snapshot, boundVars>>

\* AddRenewal: the row of the renewed contract becomes that of the new one, with its
\* reason of archival, its link to a renewal and its element; the renewed contract
\* gets a new row.
AddRenewal ==
  LET old == From(deal) IN
  /\ deal # 0 /\ old # 0
  /\ row' = [row EXCEPT ![deal] = [row[old] EXCEPT !.state = "pending", !.from = old],
                        ![old].archived = "renewed", ![old].to = deal]
  /\ element' = [element EXCEPT ![deal] = element[old], ![old] = 0]
  /\ deal' = 0 /\ late' = Late
  /\ UNCHANGED <<agreed, chain, seen, subVars, snapshot, boundVars>>

\* After the checks; no contract is formed with a host that has an active one.
Forms ==
  /\ Idle /\ ActiveRows = {}
  /\ Len(agreed) < MaxContracts
  /\ agreed' = NewContract(0, Len(seen) + Period + RenewWindow)
  /\ deal' = Len(agreed')
  /\ UNCHANGED <<chain, dbVars, subVars, snapshot, late, boundVars>>

PutContract ==
  /\ deal # 0 /\ From(deal) = 0
  /\ row' = [row EXCEPT ![deal] = Pending(deal)]
  /\ deal' = 0 /\ late' = Late
  /\ UNCHANGED <<agreed, chain, seen, element, subVars, snapshot, boundVars>>

\* The answer of the host is lost, or the broadcast of the transaction fails here,
\* though the host has broadcast it.
DealLost ==
  /\ deal # 0
  /\ Disturbs
  /\ deal' = 0
  /\ UNCHANGED <<agreed, chain, dbVars, subVars, snapshot, late, reset, highest>>

\* The user removes a contract.
Removes(c) ==
  /\ Disturbs
  /\ c \in ActiveRows
  /\ row' = [row EXCEPT ![c].archived = "removed"]
  /\ UNCHANGED <<agreed, chain, seen, element, subVars, contractorVars, late, reset, highest>>

\* The process starts again, with a sync.
Restart ==
  /\ Disturbs
  /\ sig' = TRUE /\ sub' = "waits"
  /\ snapshot' = <<>> /\ deal' = 0
  /\ UNCHANGED <<agreed, chain, dbVars, late, reset, highest>>

-----------------------------------------------------------------------------
Subscriber == Wakes \/ ProcessUpdates \/ Synced
Contractor ==
  \/ Begins \/ Forms \/ PutContract \/ AddRenewal
  \/ \E c \in Contracts : Archives(c) \/ Keeps(c) \/ Renews(c)

Next ==
  \/ Mine \/ Reorg
  \/ Subscriber \/ ResetChainState
  \/ Contractor \/ DealLost \/ Restart
  \/ \E c \in Contracts : Removes(c)

Spec == Init /\ [][Next]_vars

\* The subscriber's goroutine is scheduled: WF_vars(Subscriber), with what enables it
\* written out, which TLC evaluates sooner.
Awake == sig \/ sub # "waits"
FairSpec == Spec /\ ([]<>~Awake \/ []<><<Subscriber>>_vars)

-----------------------------------------------------------------------------
(* Properties *)

Row == [state : {"pending", "active", "complete", "failed"},
        archived : {"no", "renewed", "removed", "expired", "unconfirmed"},
        from : 0..MaxContracts, to : 0..MaxContracts]

ASSUME RowAssumption == None \notin Row

TypeOK ==
  /\ agreed \in Seq([from : 0..MaxContracts, start : Nat, end : Nat])
  /\ Len(agreed) <= MaxContracts
  /\ row \in [Contracts -> Row \cup {None}]
  /\ element \in [Contracts -> 0..MaxContracts]
  /\ deal \in 0..MaxContracts

Punctual == Known(row) \ late

\* The state of a row is what the chain up to the stored index says of the contract,
\* after any reorganisation, batch and restart.  Not so for a contract that was on
\* the chain before it had a row, and one whose block was forgotten by a reset.
StatesFollowChain ==
  \A c \in Punctual :
    LET s == row[c].state IN
    IF c \notin Created(seen) THEN s = "pending" \/ reset
    ELSE IF c \in On(seen, RenewedBy) \cup On(seen, ProvedBy) THEN s = "complete"
    ELSE IF c \in On(seen, ExpiredBy) THEN s = "failed"
    ELSE s = "active" \/ (s = "failed" /\ WindowEnd(c) <= highest - PruneWindow)

\* Rows of a contract and its renewal refer to each other, whoever wrote first, the
\* contractor or the subscriber, and the renewed one is archived with the renewal's
\* row.  What the renewal's own row has as its renewal is RenewedTo's.
Lineage ==
  \A c \in Known(row) :
    LET old == From(c) IN
    old # 0 => /\ row[c].from = old
               /\ row[old] # None /\ row[old].to = c /\ row[old].archived # "no"

\* Only one contract with the host is not archived, whatever was lost between the
\* host's agreement and the row.
OneContract == Cardinality(ActiveRows) <= 1

\* A contract formed with the host that is not archived and runs on the chain has its
\* own element, with which its revision can be broadcast and its expiration be
\* claimed, after any reorganisation, batch and reset.  Not so the contracts that came
\* by a renewal: ElementUpToDate.
ElementsKept ==
  \A c \in Punctual \cap ActiveRows :
    (From(c) = 0 /\ c \in Open(seen) /\ WindowEnd(c) >= highest - PruneWindow)
      => element[c] = c

\* What FileContractElement promises: the element stored for a contract that runs on
\* the chain is its own.  False: AddRenewal leaves the renewal the element of the
\* renewed contract, and the upsert of its own, once it is on the chain, keeps leaf
\* index and proof.
ElementUpToDate == \A c \in Punctual \cap Open(seen) : element[c] \in {0, c}

\* What the API promises of renewedTo: it names the contract that renewed this one.
\* False: after the subscriber has linked the two, AddRenewal gives the renewal the
\* link of the row it takes over, which names the renewal itself, and the contractor
\* then archives it as renewed.
RenewedTo == \A c \in Known(row) : row[c].to # 0 => From(row[c].to) = c

\* The subscriber ends at the tip of the chain.
CatchesUp == <>[](seen = chain)
=============================================================================
