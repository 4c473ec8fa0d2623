------------------------------ MODULE SlabUpload ------------------------------
(***************************************************************************)
(* The upload of one slab's shards (internal/upload/uploadmanager.go,      *)
(* upload.uploadShards): every shard is requested from a host of its own;  *)
(* a failed request goes to the next host that is free, or is buffered     *)
(* until one is; slow shards are overdriven, that is requested from a      *)
(* second host, and whichever answer comes second is redundant and         *)
(* releases its host.                                                      *)
(*                                                                         *)
(* The hosts' uploaders (module Uploader) are reduced to what this         *)
(* algorithm sees of them: they accept a request or refuse it, and answer  *)
(* it, late or never.                                                      *)
(***************************************************************************)
EXTENDS Integers, Sequences, FiniteSets

CONSTANTS
  NumSectors,
  NumHosts,      \* the candidates, sorted by their estimates
  MaxOverdrive,
  MaxStops,      \* bound: uploaders stopped during the upload
  None

ASSUME SlabUploadAssumption ==
  /\ NumSectors \in Nat \ {0} /\ NumHosts \in Nat
  /\ MaxOverdrive \in Nat /\ MaxStops \in Nat

Sectors == 1..NumSectors
Hosts == 1..NumHosts

\* A request of sector idx; n > 0 for the overdrives of the sector.
Req == [idx : Sectors, n : 0..NumHosts]
Original(i) == [idx |-> i, n |-> 0]
Overdrive(r) == r.n > 0

ASSUME NoneAssumption == None \notin Hosts /\ None \notin Req

\* How a request ends: "finished" and "canceled" are the errors of a request
\* whose context is done, of which only the latter is context.Canceled.
Outcomes == {"ok", "failed", "finished", "canceled"}

VARIABLES
  pc,
  next,      \* the sector whose original request is launched next
  held,      \* candidate.req
  wire,      \* the request the host's uploader has accepted and not answered
  dead,      \* the hosts that got the request when its context was done already
  resps,     \* respChan
  sector,    \* the host that stored the sector
  inflight,  \* numInflight
  buffer,    \* requests that found no free host
  stopped,   \* the uploaders that are stopped
  ctxDone,   \* the upload's context, or the manager's, is done
  reported   \* the sectors that uploadShards returned

vars == <<pc, next, held, wire, dead, resps, sector, inflight, buffer, stopped, ctxDone, reported>>

Uploaded == {i \in Sectors : sector[i] # None}
OnWire == {h \in Hosts : wire[h] # None}

TypeOK ==
  /\ pc \in {"launch", "loop", "ok", "failed", "cancelled"}
  /\ next \in 1..NumSectors + 1
  /\ held \in [Hosts -> Req \cup {None}]
  /\ wire \in [Hosts -> Req \cup {None}]
  /\ \A h \in OnWire : held[h] = wire[h]
  /\ dead \subseteq OnWire
  /\ resps \in Seq([host : Hosts, req : Req, err : Outcomes])
  /\ sector \in [Sectors -> Hosts \cup {None}]
  /\ inflight \in Nat
  /\ buffer \in Seq({Original(i) : i \in Sectors})
  /\ stopped \subseteq Hosts
  /\ ctxDone \in BOOLEAN
  /\ reported \subseteq Sectors

Init ==
  /\ pc = "launch"
  /\ next = 1
  /\ held = [h \in Hosts |-> None]
  /\ wire = [h \in Hosts |-> None]
  /\ dead = {}
  /\ resps = <<>>
  /\ sector = [i \in Sectors |-> None]
  /\ inflight = 0
  /\ buffer = <<>>
  /\ stopped = {}
  /\ ctxDone = FALSE
  /\ reported = {}

-----------------------------------------------------------------------------
(* launch *)

\* The context of a sector's requests is done when the sector is stored or the
\* upload has returned.
CtxDone(i) == ctxDone \/ i \in Uploaded \/ pc \notin {"launch", "loop"}

Free(h) == {c \in Hosts : h[c] = None}

First(S) == {x \in S : \A y \in S : x <= y}

NoLaunch(h, n) == held' = h /\ inflight' = n /\ UNCHANGED <<wire, dead>>

\* launch(r) with the candidates as h says, one of which is free.  The request
\* is dropped when its uploader turns out to be stopped.
Launch(h, n, r) ==
  \E c \in First(Free(h)) :
    \/ c \in stopped /\ NoLaunch(h, n)
    \/ /\ c \notin stopped
       /\ held' = [h EXCEPT ![c] = r]
       /\ wire' = [wire EXCEPT ![c] = r]
       /\ dead' = IF CtxDone(r.idx) THEN dead \cup {c} ELSE dead
       /\ inflight' = n + 1

\* The original requests, one after the other.
LaunchOriginal ==
  /\ pc = "launch"
  /\ next <= NumSectors
  /\ IF Free(held) = {}
     THEN pc' = "failed" /\ UNCHANGED <<next, held, wire, dead, inflight>>
     ELSE /\ Launch(held, inflight, Original(next))
          /\ next' = next + 1
          /\ UNCHANGED pc
  /\ UNCHANGED <<resps, sector, buffer, stopped, ctxDone, reported>>

Collect ==
  /\ pc = "launch"
  /\ next > NumSectors
  /\ pc' = "loop"
  /\ UNCHANGED <<next, held, wire, dead, resps, sector, inflight, buffer, stopped, ctxDone, reported>>

-----------------------------------------------------------------------------
(* The loop *)

Wrap == 2^16   \* stands for 2^64, the wrap of the unsigned counters

\* canOverdrive, but for the time since the last overdrive.
CanOverdrive(n, remaining) ==
  /\ remaining <= MaxOverdrive
  /\ (n - remaining) % Wrap < MaxOverdrive

\* nextRequest: another request of the sector with the fewest overdrives.
Overdrives(h, i) == Cardinality({c \in Hosts : h[c] # None /\ h[c].idx = i /\ Overdrive(h[c])})

NextRequest(h, missing) ==
  {r \in Req :
     /\ r.idx \in First({x \in missing : \A y \in missing : Overdrives(h, x) <= Overdrives(h, y)})
     /\ r.n \in First({n \in 1..NumHosts : \A c \in Hosts : h[c] # [idx |-> r.idx, n |-> n]})}

\* Mutant: a buffered request is dropped when no host is free for it.
BufferOrOverdriveDrops(h, n, missing) ==
  IF buffer # <<>>
  THEN /\ buffer' = Tail(buffer)
       /\ IF Free(h) # {} THEN Launch(h, n, Head(buffer)) ELSE NoLaunch(h, n)
  ELSE /\ IF missing # {} /\ CanOverdrive(n, Cardinality(missing)) /\ Free(h) # {}
          THEN \E r \in NextRequest(h, missing) : Launch(h, n, r)
          ELSE NoLaunch(h, n)
       /\ UNCHANGED buffer

\* Relaunch a buffered request or overdrive a sector.
BufferOrOverdrive(h, n, missing) ==
  IF buffer # <<>>
  THEN IF Free(h) # {} THEN buffer' = Tail(buffer) /\ Launch(h, n, Head(buffer))
                       ELSE UNCHANGED buffer /\ NoLaunch(h, n)
  ELSE /\ IF missing # {} /\ CanOverdrive(n, Cardinality(missing)) /\ Free(h) # {}
          THEN \E r \in NextRequest(h, missing) : Launch(h, n, r)
          ELSE NoLaunch(h, n)
       /\ UNCHANGED buffer

\* Mutant: the host that answered is released whether redundant or not.
ReleasedAlways(resp) == {[held EXCEPT ![resp.host] = None]}

\* The candidates after the response, in a set of one: a redundant one releases
\* the first candidate that holds its request.
Released(resp) ==
  IF resp.req.idx \in Uploaded
  THEN {[held EXCEPT ![c] = None] : c \in First({x \in Hosts : held[x] = resp.req})}
  ELSE {held}

\* A response: receive, and what follows from it.
Receive ==
  /\ pc = "loop"
  /\ inflight > 0
  /\ resps # <<>>
  /\ resps' = Tail(resps)
  /\ LET resp == Head(resps)
         i == resp.req.idx
         redundant == i \in Uploaded
         used == ~redundant /\ resp.err = "ok"
         failed == resp.err \in {"failed", "finished"}
         n == inflight - 1
         missing == Sectors \ (IF used THEN Uploaded \cup {i} ELSE Uploaded)
     IN
     \E h \in Released(resp) :
       /\ sector' = IF used THEN [sector EXCEPT ![i] = resp.host] ELSE sector
       /\ IF used /\ missing = {}
          THEN /\ pc' = "ok"
               /\ reported' = Sectors
               /\ NoLaunch(h, n)
               /\ UNCHANGED buffer
          ELSE /\ UNCHANGED <<pc, reported>>
               /\ \/ /\ failed /\ ~Overdrive(resp.req)
                     /\ IF Free(h) # {}
                        THEN Launch(h, n, resp.req) /\ UNCHANGED buffer
                        ELSE NoLaunch(h, n) /\ buffer' = Append(buffer, resp.req)
                  \/ /\ resp.err = "ok" /\ redundant
                     /\ \/ BufferOrOverdrive(h, n, missing)
                        \/ buffer = <<>> /\ NoLaunch(h, n) /\ UNCHANGED buffer  \* not due
                  \/ /\ used \/ resp.err = "canceled" \/ (failed /\ Overdrive(resp.req))
                     /\ NoLaunch(h, n) /\ UNCHANGED buffer
  /\ UNCHANGED <<next, stopped, ctxDone>>

\* The overdrive timer fires.
Timer ==
  /\ pc = "loop"
  /\ inflight > 0
  /\ BufferOrOverdrive(held, inflight, Sectors \ Uploaded)
  /\ UNCHANGED <<pc, next, resps, sector, stopped, ctxDone, reported>>

\* Mutant: the loop waits for the buffer, too.
LoopEndsUnlessBuffered ==
  /\ pc = "loop"
  /\ inflight = 0 /\ buffer = <<>>
  /\ pc' = "failed"
  /\ reported' = Uploaded
  /\ UNCHANGED <<next, held, wire, dead, resps, sector, inflight, buffer, stopped, ctxDone>>

\* Nothing is in flight any more.
LoopEnds ==
  /\ pc = "loop"
  /\ inflight = 0
  /\ pc' = "failed"
  /\ reported' = Uploaded
  /\ UNCHANGED <<next, held, wire, dead, resps, sector, inflight, buffer, stopped, ctxDone>>

LoopCancelled ==
  /\ pc = "loop"
  /\ inflight > 0
  /\ ctxDone
  /\ pc' = "cancelled"
  /\ UNCHANGED <<next, held, wire, dead, resps, sector, inflight, buffer, stopped, ctxDone, reported>>

-----------------------------------------------------------------------------
(* The uploaders and the contexts *)

\* A request that is popped with its context done is answered with
\* context.Canceled; one that is executed meanwhile with the context's cause.
Answer(h) ==
  /\ wire[h] # None
  /\ \E err \in IF h \in dead THEN {"canceled"}
                ELSE IF CtxDone(wire[h].idx) THEN {"finished", "canceled"}
                ELSE {"ok", "failed"} :
       resps' = Append(resps, [host |-> h, req |-> wire[h], err |-> err])
  /\ wire' = [wire EXCEPT ![h] = None]
  /\ dead' = dead \ {h}
  /\ UNCHANGED <<pc, next, held, sector, inflight, buffer, stopped, ctxDone, reported>>

\* Stop answers what is queued.  A request that slipped into the queue behind it has
\* no answer to come: see FairSpec.
StopUploader(h) ==
  /\ Cardinality(stopped) < MaxStops
  /\ h \notin stopped
  /\ stopped' = stopped \cup {h}
  /\ UNCHANGED <<pc, next, held, wire, dead, resps, sector, inflight, buffer, ctxDone, reported>>

Cancel ==
  /\ ~ctxDone
  /\ ctxDone' = TRUE
  /\ UNCHANGED <<pc, next, held, wire, dead, resps, sector, inflight, buffer, stopped, reported>>

-----------------------------------------------------------------------------
Upload == LaunchOriginal \/ Collect \/ Receive \/ LoopEnds \/ LoopCancelled
Uploaders(h) == Answer(h) \/ StopUploader(h)

Next == Upload \/ Timer \/ Cancel \/ \E h \in Hosts : Uploaders(h)

Spec == Init /\ [][Next]_vars

\* The goroutines are scheduled, and uploaders answer what they accept, but for a
\* request that slipped into the queue of one that stopped.
FairSpec == Spec /\ WF_vars(Upload) /\ \A h \in Hosts : WF_vars(h \notin stopped /\ Answer(h))

-----------------------------------------------------------------------------
(* Properties *)

Returned == pc \notin {"launch", "loop"}

\* No two sectors of a slab end up on the same host: that is what the
\* redundancy of the slab is worth.
DistinctHosts ==
  \A i, j \in Uploaded : i # j => sector[i] # sector[j]

\* Unless an uploader is stopped, a sector that is not stored is requested, to
\* be requested, or waiting in the buffer: none is forgotten.
NoSectorForgotten ==
  pc = "loop" /\ stopped = {} /\ ~ctxDone =>
    \A i \in Sectors \ Uploaded :
      \/ \E h \in Hosts : wire[h] = Original(i)
      \/ \E k \in 1..Len(resps) : resps[k].req = Original(i)
      \/ \E k \in 1..Len(buffer) : buffer[k] = Original(i)

\* Every upload returns, also when uploaders stop and refuse its requests, unless an
\* uploader that stopped never answers a request it had accepted, and nobody cancels
\* the upload.
Forgotten == {h \in stopped : wire[h] # None}

UploadEnds == <>Returned \/ <>[](Forgotten # {} /\ ~ctxDone)

\* "an overdrive upload might've been redundant, in which case we can re-use the
\* host to launch this request": an upload does not fail with a request in the
\* buffer and a host free for it.  The code does not keep it: see the README.
BufferGetsFreeHost ==
  pc = "failed" /\ buffer # <<>> => Free(held) \subseteq stopped
=============================================================================
