------------------------------- MODULE SlabStore --------------------------------
(***************************************************************************)
(* Packed uploads: the slab buffers of the bus (stores/slabbuffer.go), the *)
(* tables of objects, slices, slabs and buffers (stores/metadata.go,       *)
(* stores/multipart.go, stores/sql), and the worker that fills the buffers *)
(* and uploads the full ones (worker/upload.go,                            *)
(* internal/upload/uploadmanager.go).                                      *)
(*                                                                         *)
(* A buffer is a file, a row of the database and an entry of the buffer    *)
(* manager; its slab is identified with it.  An upload appends the last,   *)
(* partial slab of its object to at most two buffers, syncs them, and only *)
(* then adds the object, whose slices refer to the slab.  Bytes are pairs  *)
(* of an upload and a position, so that what a slice finds in a file or in *)
(* the sectors can be compared with what was uploaded.  All buffers are of *)
(* one redundancy; every transaction is one step.                          *)
(***************************************************************************)
EXTENDS Integers, SequencesExt, FiniteSets

CONSTANTS
  Uploads,
  Length,        \* the bytes of each upload's partial slab
  Key,           \* the key of each upload's object
  Part,          \* the number of the part it is, or 0
  Keys,
  MaxSize,       \* bufferedSlabSize
  Threshold,     \* bufferedSlabCompletionThreshold
  Slots,         \* the packed slabs the memory admits at a time
  MaxOps, MaxFailures, MaxRestarts,  \* bounds on what happens to the program
  None

ASSUME StoreAssumption ==
  /\ IsFiniteSet(Uploads)
  /\ MaxSize \in Nat \ {0} /\ Threshold \in Nat /\ Threshold < MaxSize
  /\ Length \in [Uploads -> 1..MaxSize]
  /\ Key \in [Uploads -> Keys] /\ Part \in [Uploads -> Nat]
  /\ MaxOps \in Nat /\ MaxFailures \in Nat /\ MaxRestarts \in Nat
  /\ Slots \cap Uploads = {} /\ None \notin Uploads

Buffers == Uploads  \* the slab and its buffer, named after the upload that made it
Parts == {Part[u] : u \in Uploads} \ {0}
Jobs == Uploads \cup Slots

VARIABLES
  \* the uploads
  pc, todo, rest, slices, committed, syncSize,
  \* the buffer manager
  incomplete, complete, size, syncErr, locked,
  \* the files, and what of them a crash of the machine leaves
  file, durable,
  \* the database
  row, sectors, object, part, multipart,
  prune,       \* the signal of the pruning loop
  \* the worker
  job, loop,
  ops, failures, restarts,  \* bounds
  syncFailed,  \* observer: the buffers of which a sync has failed
  spoiled,     \* observer: the buffers of which a restart may have lost bytes
  excused      \* observer: an upload of a packed slab failed or was not started

uploadVars == <<pc, todo, rest, slices, committed, syncSize>>
listVars == <<incomplete, complete>>
bufferVars == <<size, syncErr, locked>>
fileVars == <<file, durable>>
objectVars == <<object, part, multipart, prune>>
slabVars == <<row, sectors>>
workerVars == <<job, loop>>
boundVars == <<ops, failures, restarts>>
syncVars == <<syncFailed, spoiled>>
vars == <<uploadVars, listVars, bufferVars, fileVars, objectVars, slabVars, workerVars,
          boundVars, syncVars, excused>>

Offsets == 0..MaxSize - 1
Blank == [i \in Offsets |-> None]
NoJob == [buffer |-> None, data |-> Blank, marked |-> FALSE]

Init ==
  /\ pc = [u \in Uploads |-> "start"] /\ todo = [u \in Uploads |-> <<>>]
  /\ rest = Length /\ slices = [u \in Uploads |-> <<>>]
  /\ committed = [u \in Uploads |-> 0] /\ syncSize = [u \in Uploads |-> 0]
  /\ incomplete = <<>> /\ complete = {}
  /\ size = [b \in Buffers |-> 0] /\ syncErr = {} /\ locked = {}
  /\ file = [b \in Buffers |-> Blank] /\ durable = [b \in Buffers |-> Blank]
  /\ row = [b \in Buffers |-> "none"] /\ sectors = [b \in Buffers |-> Blank]
  /\ object = [k \in Keys |-> <<>>] /\ part = [p \in Parts |-> <<>>]
  /\ multipart = "open" /\ prune = FALSE
  /\ job = [j \in Jobs |-> NoJob] /\ loop = "off"
  /\ ops = 0 /\ failures = 0 /\ restarts = 0
  /\ syncFailed = {} /\ spoiled = {} /\ excused = FALSE

-----------------------------------------------------------------------------
(* AddPartialSlab *)

isCompleteBuffer(n) == n + Threshold >= MaxSize

\* The bytes of u from its position on, at the end of b.
WriteAt(b, u, from, n) ==
  file' = [file EXCEPT ![b] =
             [i \in Offsets |-> IF i \in size[b]..size[b] + n - 1
                                THEN [src |-> u, at |-> from + i - size[b]] ELSE @[i]]]

Record(b, u, n) ==
  LET from == Length[u] - rest[u] IN
  /\ WriteAt(b, u, from, n)
  /\ slices' = [slices EXCEPT ![u] =
                  Append(@, [slab |-> b, offset |-> size[b], length |-> n, src |-> u, from |-> from])]
  /\ size' = [size EXCEPT ![b] = @ + n]
  /\ rest' = [rest EXCEPT ![u] = @ - n]

\* The copy of the list of incomplete buffers.
Lists(u) ==
  /\ pc[u] = "start"
  /\ todo' = [todo EXCEPT ![u] = incomplete]
  /\ pc' = [pc EXCEPT ![u] = "append"]
  /\ UNCHANGED <<rest, slices, committed, syncSize, listVars, bufferVars, fileVars, objectVars,
                 slabVars, workerVars, boundVars, syncVars, excused>>

\* How much of what is left recordAppend puts into b: all of it if it fits, what
\* fits if b is the first buffer, and nothing if b is complete.
Fitting(b, u) ==
  IF isCompleteBuffer(size[b]) THEN 0
  ELSE IF rest[u] <= MaxSize - size[b] THEN rest[u]
  ELSE IF slices[u] = <<>> THEN MaxSize - size[b] ELSE 0

\* recordAppend of the next buffer, under its mutex.
Appends(u) ==
  /\ pc[u] = "append" /\ rest[u] > 0 /\ todo[u] # <<>>
  /\ LET b == Head(todo[u]) IN
       IF Fitting(b, u) > 0 THEN Record(b, u, Fitting(b, u))
       ELSE UNCHANGED <<file, slices, size, rest>>
  /\ todo' = [todo EXCEPT ![u] = Tail(@)]
  /\ UNCHANGED <<pc, committed, syncSize, listVars, syncErr, locked, durable, objectVars, slabVars,
                 workerVars, boundVars, syncVars, excused>>

AppendsDone(u) ==
  /\ pc[u] = "append" /\ rest[u] = 0
  /\ pc' = [pc EXCEPT ![u] = "commit"]
  /\ UNCHANGED <<todo, rest, slices, committed, syncSize, listVars, bufferVars, fileVars,
                 objectVars, slabVars, workerVars, boundVars, syncVars, excused>>

\* A new buffer takes the rest.  A crash between its rows and its entry in the
\* list leaves what a crash after the entry leaves.
CreatesBuffer(u) ==
  /\ pc[u] = "append" /\ rest[u] > 0 /\ todo[u] = <<>>
  /\ row' = [row EXCEPT ![u] = "buffered"]
  /\ Record(u, u, rest[u])
  /\ incomplete' = Append(incomplete, u)
  /\ UNCHANGED <<pc, todo, committed, syncSize, complete, syncErr, locked, durable, objectVars,
                 sectors, workerVars, boundVars, syncVars, excused>>

Fails(u) == pc' = [pc EXCEPT ![u] = "failed"]

\* The file or the rows of a new buffer cannot be made: the buffer that was filled
\* before is not committed.
CreateFails(u) ==
  /\ pc[u] = "append" /\ rest[u] > 0 /\ todo[u] = <<>>
  /\ failures < MaxFailures /\ failures' = failures + 1
  /\ Fails(u)
  /\ UNCHANGED <<todo, rest, slices, committed, syncSize, listVars, bufferVars, fileVars, objectVars,
                 slabVars, workerVars, ops, restarts, syncVars, excused>>

Committing(u) == slices[u][committed[u] + 1].slab

\* commitAppend up to the sync.
CommitStarts(u) ==
  /\ pc[u] = "commit" /\ committed[u] < Len(slices[u])
  /\ IF Committing(u) \in syncErr
     THEN Fails(u) /\ UNCHANGED syncSize
     ELSE /\ pc' = [pc EXCEPT ![u] = "sync"]
          /\ syncSize' = [syncSize EXCEPT ![u] = size[Committing(u)]]
  /\ UNCHANGED <<todo, rest, slices, committed, listVars, bufferVars, fileVars, objectVars, slabVars,
                 workerVars, boundVars, syncVars, excused>>

\* Mutant: only the upload that made the buffer moves it.
MarkCompleteIfMaker(u, b) ==
  IF isCompleteBuffer(syncSize[u]) /\ b \in ToSet(incomplete) /\ b = u
  THEN incomplete' = RemoveFirst(incomplete, b) /\ complete' = complete \cup {b}
  ELSE UNCHANGED listVars

\* markBufferComplete, which does nothing if another upload has moved the buffer.
MarkComplete(u, b) ==
  IF isCompleteBuffer(syncSize[u]) /\ b \in ToSet(incomplete)
  THEN incomplete' = RemoveFirst(incomplete, b) /\ complete' = complete \cup {b}
  ELSE UNCHANGED listVars

\* The sync and the rest of commitAppend.  A failed sync is kept for the next
\* call, until another sync that was already under way succeeds; this call goes on.
\* The file of a buffer that was removed meanwhile is closed.
Syncs(u) ==
  /\ pc[u] = "sync"
  /\ LET b == Committing(u) IN
     /\ \/ /\ b \in ToSet(incomplete) \cup complete
           /\ durable' = [durable EXCEPT ![b] = file[b]]
           /\ syncErr' = syncErr \ {b}
           /\ UNCHANGED <<failures, syncFailed>>
        \/ /\ failures < MaxFailures /\ failures' = failures + 1
           /\ syncErr' = syncErr \cup {b}
           /\ syncFailed' = syncFailed \cup {b}
           /\ UNCHANGED durable
        \/ /\ b \notin ToSet(incomplete) \cup complete
           /\ syncErr' = syncErr \cup {b}
           /\ UNCHANGED <<durable, failures, syncFailed>>
     /\ MarkComplete(u, b)
  /\ committed' = [committed EXCEPT ![u] = @ + 1]
  /\ pc' = [pc EXCEPT ![u] = "commit"]
  /\ UNCHANGED <<todo, rest, slices, syncSize, size, locked, file, objectVars, slabVars, workerVars,
                 ops, restarts, spoiled, excused>>

Replies(u) ==
  /\ pc[u] = "commit" /\ committed[u] = Len(slices[u])
  /\ pc' = [pc EXCEPT ![u] = "add"]
  /\ UNCHANGED <<todo, rest, slices, committed, syncSize, listVars, bufferVars, fileVars, objectVars,
                 slabVars, workerVars, boundVars, syncVars, excused>>

-----------------------------------------------------------------------------
(* The object *)

\* insertSlabs: a slab whose row is gone gets a new one, without sectors.
InsertSlabs(ss) ==
  row' = [b \in Buffers |-> IF row[b] = "none" /\ \E i \in DOMAIN ss : ss[i].slab = b
                            THEN "empty" ELSE row[b]]

\* UpdateObject: what was at the key goes first.
AddObject(u) ==
  /\ pc[u] = "add" /\ Part[u] = 0
  /\ InsertSlabs(slices[u])
  /\ object' = [object EXCEPT ![Key[u]] = slices[u]]
  /\ prune' = (prune \/ object[Key[u]] # <<>>)
  /\ pc' = [pc EXCEPT ![u] = "packed"]
  /\ UNCHANGED <<todo, rest, slices, committed, syncSize, listVars, bufferVars, fileVars, part,
                 multipart, sectors, workerVars, boundVars, syncVars, excused>>

\* A part of the same number goes first, without a signal to the pruning loop.
AddMultipartPart(u) ==
  /\ pc[u] = "add" /\ Part[u] # 0
  /\ IF multipart = "open"
     THEN /\ InsertSlabs(slices[u])
          /\ part' = [part EXCEPT ![Part[u]] = slices[u]]
          /\ pc' = [pc EXCEPT ![u] = "packed"]
     ELSE Fails(u) /\ UNCHANGED <<row, part>>
  /\ UNCHANGED <<todo, rest, slices, committed, syncSize, listVars, bufferVars, fileVars, object,
                 multipart, prune, sectors, workerVars, boundVars, syncVars, excused>>

\* The client is gone, or the database refuses the object.
AddFails(u) ==
  /\ pc[u] = "add"
  /\ failures < MaxFailures /\ failures' = failures + 1
  /\ Fails(u)
  /\ UNCHANGED <<todo, rest, slices, committed, syncSize, listVars, bufferVars, fileVars, objectVars,
                 slabVars, workerVars, ops, restarts, syncVars, excused>>

Operation == ops < MaxOps /\ ops' = ops + 1
ObjectOnly == UNCHANGED <<uploadVars, listVars, bufferVars, fileVars, slabVars, workerVars,
                          failures, restarts, syncVars, excused>>

RemoveObject(k) ==
  /\ Operation
  /\ object[k] # <<>>
  /\ object' = [object EXCEPT ![k] = <<>>]
  /\ prune' = TRUE
  /\ ObjectOnly /\ UNCHANGED <<part, multipart>>

\* The slices are shared, and what was at the destination goes without a signal.
CopyObject(k, l) ==
  /\ Operation
  /\ k # l /\ object[k] # <<>>
  /\ object' = [object EXCEPT ![l] = object[k]]
  /\ ObjectOnly /\ UNCHANGED <<part, multipart, prune>>

RenameObject(k, l, force) ==
  /\ Operation
  /\ k # l /\ object[k] # <<>> /\ (force \/ object[l] = <<>>)
  /\ object' = [object EXCEPT ![l] = object[k], ![k] = <<>>]
  /\ prune' = TRUE
  /\ ObjectOnly /\ UNCHANGED <<part, multipart>>

MultipartKeys == {Key[u] : u \in {v \in Uploads : Part[v] # 0}}

\* The slices of all parts, in the order of the parts' numbers.
AllParts ==
  LET last == Max({0} \cup Parts)
      upto[p \in 0..last] == IF p = 0 THEN <<>>
                             ELSE upto[p - 1] \o (IF p \in Parts THEN part[p] ELSE <<>>)
  IN upto[last]

\* All parts are taken, whatever parts the client lists.  An upload without parts,
\* which makes an empty object, is left out.
CompleteMultipartUpload(k) ==
  /\ Operation
  /\ multipart = "open" /\ k \in MultipartKeys
  /\ \E p \in Parts : part[p] # <<>>
  /\ object' = [object EXCEPT ![k] = AllParts]
  /\ prune' = (prune \/ object[k] # <<>>)
  /\ part' = [p \in Parts |-> <<>>]
  /\ multipart' = "closed"
  /\ ObjectOnly

AbortMultipartUpload ==
  /\ Operation
  /\ multipart = "open" /\ Parts # {}
  /\ part' = [p \in Parts |-> <<>>]
  /\ multipart' = "closed"
  /\ prune' = TRUE
  /\ ObjectOnly /\ UNCHANGED object

Stored == (UNION {ToSet(object[k]) : k \in Keys}) \cup (UNION {ToSet(part[p]) : p \in Parts})
Referenced == {s.slab : s \in Stored}

\* Mutant: parts are forgotten.
PruneSlabsOfObjects ==
  /\ prune /\ prune' = FALSE
  /\ row' = [b \in Buffers |-> IF /\ row[b] \in {"uploaded", "empty"}
                                  /\ \A k \in Keys : \A s \in ToSet(object[k]) : s.slab # b
                               THEN "none" ELSE row[b]]
  /\ UNCHANGED <<uploadVars, listVars, bufferVars, fileVars, object, part, multipart, sectors,
                 workerVars, boundVars, syncVars, excused>>

\* The slabs that have neither a buffer nor a slice.
PruneSlabs ==
  /\ prune /\ prune' = FALSE
  /\ row' = [b \in Buffers |-> IF row[b] \in {"uploaded", "empty"} /\ b \notin Referenced
                               THEN "none" ELSE row[b]]
  /\ UNCHANGED <<uploadVars, listVars, bufferVars, fileVars, object, part, multipart, sectors,
                 workerVars, boundVars, syncVars, excused>>

-----------------------------------------------------------------------------
(* The upload of full buffers *)

Idle(j) == job[j] = NoJob
Free == complete \ locked

\* SlabsForUpload: a buffer that nobody has locked is locked and read.
TakeBuffer(j, b) ==
  /\ locked' = locked \cup {b}
  /\ job' = [job EXCEPT ![j] =
               [buffer |-> b, marked |-> FALSE,
                data |-> [i \in Offsets |-> IF i < size[b] THEN file[b][i] ELSE None]]]

\* One slab in the upload's own goroutine, if the buffers are above their limit.
UploadsOne(u) ==
  /\ pc[u] = "packed"
  /\ \E b \in Free : TakeBuffer(u, b)
  /\ pc' = [pc EXCEPT ![u] = "uploading"]
  /\ UNCHANGED <<todo, rest, slices, committed, syncSize, listVars, size, syncErr, fileVars,
                 objectVars, slabVars, loop, boundVars, syncVars, excused>>

\* The file cannot be read, and its buffer stays locked.
ReadFails(b) ==
  /\ failures < MaxFailures /\ failures' = failures + 1
  /\ locked' = locked \cup {b}
  /\ excused' = TRUE

UploadsOneFails(u) ==
  /\ pc[u] = "packed"
  /\ \E b \in Free : ReadFails(b)
  /\ pc' = [pc EXCEPT ![u] = "uploading"]
  /\ UNCHANGED <<todo, rest, slices, committed, syncSize, listVars, size, syncErr, fileVars,
                 objectVars, slabVars, workerVars, ops, restarts, syncVars>>

\* threadedUploadPackedSlabs, which leaves it to the goroutine that is there, even
\* if that only waits for the end of its uploads.
StartsLoop(u) ==
  /\ \/ pc[u] = "packed"
     \/ pc[u] = "uploading" /\ Idle(u)
  /\ pc' = [pc EXCEPT ![u] = "done"]
  /\ loop' = IF loop = "off" THEN "run" ELSE loop
  /\ excused' = (excused \/ loop = "wait")
  /\ UNCHANGED <<todo, rest, slices, committed, syncSize, listVars, bufferVars, fileVars,
                 objectVars, slabVars, job, boundVars, syncVars>>

\* When there is memory, the next slab, or none is left.
LoopFetches ==
  /\ loop = "run"
  /\ \E j \in Slots :
       /\ Idle(j)
       /\ IF Free = {} THEN loop' = "wait" /\ UNCHANGED <<job, locked>>
          ELSE UNCHANGED loop /\ \E b \in Free : TakeBuffer(j, b)
  /\ UNCHANGED <<uploadVars, listVars, size, syncErr, fileVars, objectVars, slabVars, boundVars,
                 syncVars, excused>>

\* The bus does not answer, or the file cannot be read.
LoopFetchFails ==
  /\ loop = "run" /\ \E j \in Slots : Idle(j)
  /\ \/ failures < MaxFailures /\ failures' = failures + 1 /\ excused' = TRUE /\ UNCHANGED locked
     \/ \E b \in Free : ReadFails(b)
  /\ loop' = "wait"
  /\ UNCHANGED <<uploadVars, listVars, size, syncErr, fileVars, objectVars, slabVars, job, ops,
                 restarts, syncVars>>

LoopEnds ==
  /\ loop = "wait"
  /\ \A j \in Slots : Idle(j)
  /\ loop' = "off"
  /\ UNCHANGED <<uploadVars, listVars, bufferVars, fileVars, objectVars, slabVars, job, boundVars,
                 syncVars, excused>>

\* A failure interrupts the loop, which starts no further upload.
JobFails(j) ==
  /\ job' = [job EXCEPT ![j] = NoJob]
  /\ loop' = IF j \in Slots /\ loop = "run" THEN "wait" ELSE loop
  /\ excused' = TRUE

\* The shards are on hosts, and MarkPackedSlabsUploaded finds the buffer's row or
\* not, because another upload of the buffer was faster.
MarkUploaded(j) ==
  LET b == job[j].buffer IN
  /\ ~Idle(j) /\ ~job[j].marked
  /\ IF row[b] = "buffered"
     THEN /\ row' = [row EXCEPT ![b] = "uploaded"]
          /\ sectors' = [sectors EXCEPT ![b] = job[j].data]
          /\ job' = [job EXCEPT ![j].marked = TRUE]
          /\ UNCHANGED <<loop, excused>>
     ELSE JobFails(j) /\ UNCHANGED slabVars
  /\ UNCHANGED <<uploadVars, listVars, bufferVars, fileVars, objectVars, boundVars, syncVars>>

\* Mutant: the entry of the list stays.
RemoveBuffersKeeping(j) ==
  LET b == job[j].buffer IN
  /\ job[j].marked
  /\ file' = IF b \in complete THEN [file EXCEPT ![b] = Blank] ELSE file
  /\ durable' = IF b \in complete THEN [durable EXCEPT ![b] = Blank] ELSE durable
  /\ job' = [job EXCEPT ![j] = NoJob]
  /\ UNCHANGED <<uploadVars, listVars, bufferVars, objectVars, slabVars, loop, boundVars,
                 syncVars, excused>>

\* After the transaction: the file of a complete buffer goes.
RemoveBuffers(j) ==
  LET b == job[j].buffer IN
  /\ job[j].marked
  /\ complete' = complete \ {b}
  /\ file' = IF b \in complete THEN [file EXCEPT ![b] = Blank] ELSE file
  /\ durable' = IF b \in complete THEN [durable EXCEPT ![b] = Blank] ELSE durable
  /\ job' = [job EXCEPT ![j] = NoJob]
  /\ UNCHANGED <<uploadVars, incomplete, bufferVars, objectVars, slabVars, loop, boundVars,
                 syncVars, excused>>

\* Too few hosts, or no answer in time.
UploadFails(j) ==
  /\ ~Idle(j) /\ ~job[j].marked
  /\ failures < MaxFailures /\ failures' = failures + 1
  /\ JobFails(j)
  /\ UNCHANGED <<uploadVars, listVars, bufferVars, fileVars, objectVars, slabVars, ops, restarts,
                 syncVars>>

\* The lock of a buffer lasts as long as an upload may take, and begins before it.
LockExpires(b) ==
  /\ b \in locked
  /\ locked' = locked \ {b}
  /\ UNCHANGED <<uploadVars, listVars, size, syncErr, fileVars, objectVars, slabVars, workerVars,
                 boundVars, syncVars, excused>>

-----------------------------------------------------------------------------
(* Restart *)

Ongoing == {"append", "commit", "sync"}

\* What LoadSlabBuffers takes for the size: the end of the last slice.
LoadedSize(b) == Max({0} \cup {s.offset + s.length : s \in {t \in Stored : t.slab = b}})

\* The rows that LoadSlabBuffers finds.
BufferedRows == {b \in Buffers : row[b] = "buffered"}

LoadedFull == {b \in BufferedRows : LoadedSize(b) >= MaxSize - Threshold}

\* What a worker has in its hands that the bus forgets with a restart: an upload whose
\* place in b will be given away again, as its object is not in the database, or the
\* old bytes of a full buffer that is taken for one with room.
Overtaken(b) ==
  /\ row[b] = "buffered"
  /\ \/ \E u \in Uploads : /\ pc[u] = "add"
                            /\ \E i \in DOMAIN slices[u] :
                                 slices[u][i].slab = b
                                 /\ slices[u][i].offset + slices[u][i].length > LoadedSize(b)
     \/ b \notin LoadedFull /\ \E j \in Jobs : job[j].buffer = b

\* newSlabBufferManager after the bus was stopped, with or without the machine.
\* An upload that waits for the bus fails.  If the worker is another process, the bus
\* may restart alone, and what the worker has in its hands survives.
Restart(crash, alone) ==
  /\ restarts < MaxRestarts /\ restarts' = restarts + 1
  /\ incomplete' = SetToSeq(BufferedRows \ LoadedFull) /\ complete' = LoadedFull
  /\ size' = [b \in Buffers |-> IF b \in BufferedRows THEN LoadedSize(b) ELSE 0]
  /\ syncErr' = {} /\ locked' = {}
  /\ file' = IF crash THEN durable ELSE file
  /\ pc' = [u \in Uploads |-> IF pc[u] \in Ongoing \/ (~alone /\ pc[u] \notin {"start", "done"})
                              THEN "failed" ELSE pc[u]]
  /\ IF alone THEN UNCHANGED workerVars
     ELSE job' = [j \in Jobs |-> NoJob] /\ loop' = "off"
  /\ spoiled' = spoiled \cup {b \in Buffers : (alone /\ Overtaken(b)) \/ (crash /\ b \in syncFailed)}
  /\ excused' = TRUE
  /\ prune' = FALSE
  /\ UNCHANGED <<todo, rest, slices, committed, syncSize, durable, object, part, multipart, slabVars,
                 ops, failures, syncFailed>>

-----------------------------------------------------------------------------
Upload(u) ==
  \/ Lists(u) \/ Appends(u) \/ AppendsDone(u) \/ CreatesBuffer(u)
  \/ CommitStarts(u) \/ Syncs(u) \/ Replies(u)
  \/ AddObject(u) \/ AddMultipartPart(u) \/ StartsLoop(u)
Loop == LoopFetches \/ LoopEnds
Job(j) == MarkUploaded(j) \/ RemoveBuffers(j)
Operations ==
  \/ \E k, l \in Keys : CopyObject(k, l) \/ RenameObject(k, l, FALSE) \/ RenameObject(k, l, TRUE)
  \/ \E k \in Keys : RemoveObject(k)
  \/ \E k \in Keys : CompleteMultipartUpload(k)
  \/ AbortMultipartUpload

Next ==
  \/ \E u \in Uploads : Upload(u) \/ CreateFails(u) \/ AddFails(u) \/ UploadsOne(u) \/ UploadsOneFails(u)
  \/ Operations \/ PruneSlabs
  \/ Loop \/ LoopFetchFails
  \/ \E j \in Jobs : Job(j) \/ UploadFails(j)
  \/ \E b \in Buffers : LockExpires(b)
  \/ \E crash, alone \in BOOLEAN : Restart(crash, alone)

Spec == Init /\ [][Next]_vars

\* The goroutines are scheduled, and uploads of packed slabs end, as they run under
\* a timeout.
FairSpec ==
  /\ Spec
  /\ \A u \in Uploads : WF_vars(Upload(u))
  /\ WF_vars(Loop)
  /\ \A j \in Jobs : WF_vars(Job(j))

-----------------------------------------------------------------------------
(* Properties *)

TypeOK ==
  /\ pc \in [Uploads -> {"start", "append", "commit", "sync", "add", "packed", "uploading",
                         "done", "failed"}]
  /\ incomplete \in Seq(Buffers) /\ complete \subseteq Buffers
  /\ size \in [Buffers -> 0..MaxSize]
  /\ row \in [Buffers -> {"none", "buffered", "uploaded", "empty"}]
  /\ loop \in {"off", "run", "wait"}

\* What a reader of the slice finds, in the buffer's file or in the sectors.
Found(s) == CASE row[s.slab] = "buffered" -> file[s.slab]
              [] row[s.slab] = "uploaded" -> sectors[s.slab]
              [] OTHER -> Blank

Intact(s) ==
  \A i \in 0..s.length - 1 : Found(s)[s.offset + i] = [src |-> s.src, at |-> s.from + i]

\* The bytes of every stored object and part are those of its upload, whatever was
\* appended, uploaded, removed and restarted meanwhile, with bus and worker in one
\* process or in two.  What can take them away: the slab was pruned before the
\* object was added, and has an empty row since; a sync had failed when the machine
\* crashed; or the bus was restarted while a worker in another process had an
\* upload in its hands whose object was not added yet, or a slab to upload from a
\* buffer that has room again.
ObjectsIntact ==
  \A s \in Stored : row[s.slab] = "empty" \/ s.slab \in spoiled \/ Intact(s)

\* A buffer that is full but still listed as incomplete has an upload that is about
\* to move it, or had one that failed after it appended.
FullBufferIsHandedOn ==
  \A b \in ToSet(incomplete) :
    isCompleteBuffer(size[b]) =>
      \E u \in Uploads : /\ pc[u] \in {"append", "commit", "sync", "failed"}
                         /\ \E i \in committed[u] + 1..Len(slices[u]) : slices[u][i].slab = b

\* Full buffers are uploaded in the end.  What can leave one behind until the next
\* upload comes: an upload that failed after it appended, an upload of a packed slab
\* that failed, a fetch of one that failed, a restart, or a goroutine that was about
\* to leave when the last call left the work to it.
FullBuffersUploaded ==
  <>[](complete = {} \/ excused \/ \E u \in Uploads : pc[u] = "failed")
=============================================================================
