---------------------------- MODULE DownloadObject -----------------------------
(***************************************************************************)
(* The download of a range of an object (DownloadObject in                 *)
(* internal/download/downloadmanager.go).  A launcher goes through the     *)
(* slabs of the range, asks the limit manager of this download for memory  *)
(* and starts a goroutine for each; the collector takes the responses from *)
(* a channel without a buffer, in any order, and writes the data in the    *)
(* object's order to a buffered writer, which is flushed when all has      *)
(* ended.  What a slab download does is in SlabDownload, what the memory   *)
(* managers do in MemoryManager; here the child manager is a number of     *)
(* free bytes with one possible waiter, the launcher.                      *)
(***************************************************************************)
EXTENDS Integers, SequencesExt

CONSTANTS
  Objects,  \* objects: sequences of slabs, each with its length and kind
  Limit,    \* the memory of one download
  BufferSize  \* of the buffered writer

Kinds == {"full",     \* the slab is on hosts
          "scarce",   \* on hosts, but fewer than MinShards are usable
          "partial"}  \* in a buffer of the bus

ASSUME DownloadAssumption ==
  /\ Limit \in Nat /\ BufferSize \in Nat
  /\ Objects \subseteq Seq([length : Nat \ {0}, kind : Kinds])

VARIABLES
  range,      \* the first byte asked for and the number of bytes
  slabs,      \* the slices that hold the range
  launcher,   \* where the launcher is
  slabIndex,
  task,       \* where the goroutine of each slice is
  ok,         \* the slices whose download succeeded
  mem,        \* the memory of each slice
  free,       \* what the child manager has left
  collector,  \* where the collector is
  handling,   \* the slice whose response the collector handles, or 0
  slabResponses,
  respIndex,
  written,    \* the positions of the object given to the buffered writer so far
  received,   \* how many of them have reached the client
  broken,     \* the writer to the client has failed
  outcome,
  ctxDone,
  shutdown

sliceVars == <<task, ok, mem, free>>
launcherVars == <<launcher, slabIndex>>
writerVars == <<written, received, broken>>
collectorVars == <<collector, handling, slabResponses, respIndex, writerVars, outcome>>
objectVars == <<range, slabs, sliceVars, launcherVars, collectorVars, ctxDone, shutdown>>

Slices == 1..Len(slabs)

ObjectTypeOK ==
  /\ range \in [offset : Nat, length : Nat \ {0}]
  /\ slabs \in Seq([start : Nat, length : Nat, kind : Kinds])
  /\ launcher \in {"check", "partial", "scarce", "acquire", "wait", "woken", "parent", "done"}
  /\ slabIndex \in 1..Len(slabs) + 1
  /\ task \in [Slices -> {"none", "fetch", "send", "done"}]
  /\ ok \subseteq Slices
  /\ mem \in [Slices -> Nat]
  /\ free \in Nat
  /\ collector \in {"select", "write", "leave", "flush", "returned"}
  /\ handling \in Slices \cup {0}
  /\ slabResponses \subseteq Slices
  /\ respIndex \in 1..Len(slabs) + 1
  /\ written \in Seq(Nat) /\ received \in Nat /\ broken \in BOOLEAN
  /\ outcome \in {"none", "ok", "cancelled", "shutdown", "failed"}
  /\ ctxDone \in BOOLEAN /\ shutdown \in BOOLEAN

-----------------------------------------------------------------------------
(* slabsForDownload: the slices of the object that hold the range *)

Total(object, n) ==
  LET sum[i \in 0..n] == IF i = 0 THEN 0 ELSE sum[i - 1] + object[i].length IN sum[n]

slabsForDownload(object, offset, length) ==
  LET first == CHOOSE i \in 1..Len(object) : Total(object, i - 1) <= offset /\ offset < Total(object, i)
      last  == CHOOSE i \in first..Len(object) :
                 Total(object, i - 1) < offset + length /\ offset + length <= Total(object, i)
  IN [n \in 1..last - first + 1 |->
        LET i    == first + n - 1
            from == Max({offset, Total(object, i - 1)})
            to   == Min({offset + length, Total(object, i)})
        IN [start |-> from, length |-> to - from, kind |-> object[i].kind]]

\* The range lies in the object and is not empty: GetObject answers the others.
ObjectInit ==
  /\ \E object \in Objects :
       \E from \in 0..Total(object, Len(object)) - 1 :
         \E n \in 1..Total(object, Len(object)) - from :
           /\ range = [offset |-> from, length |-> n]
           /\ slabs = slabsForDownload(object, from, n)
  /\ launcher = "check" /\ slabIndex = 1
  /\ task = [i \in Slices |-> "none"]
  /\ ok = {}
  /\ mem = [i \in Slices |-> 0] /\ free = Limit
  /\ collector = "select" /\ handling = 0
  /\ slabResponses = {} /\ respIndex = 1
  /\ written = <<>> /\ received = 0 /\ broken = FALSE
  /\ outcome = "none"
  /\ ctxDone = FALSE /\ shutdown = FALSE

-----------------------------------------------------------------------------
(* The launcher *)

DownloadStops == ctxDone \/ shutdown

LaunchChecks ==
  /\ launcher = "check"
  /\ launcher' =
       IF slabIndex > Len(slabs) \/ DownloadStops THEN "done"
       ELSE CASE slabs[slabIndex].kind = "partial" -> "partial"
              [] slabs[slabIndex].kind = "scarce"  -> "scarce"
              [] OTHER                             -> "acquire"
  /\ UNCHANGED <<range, slabs, slabIndex, sliceVars, collectorVars, ctxDone, shutdown>>

\* AcquireMemory of the child: more than its total is refused at once, else wait
\* until it is there.
TryAcquire ==
  LET n == slabs[slabIndex].length IN
  IF n > Limit THEN launcher' = "done" /\ UNCHANGED <<mem, free>>
  ELSE IF n > free THEN launcher' = "wait" /\ UNCHANGED <<mem, free>>
  ELSE /\ launcher' = "parent"
       /\ mem' = [mem EXCEPT ![slabIndex] = n]
       /\ free' = free - n

LaunchAcquires ==
  /\ launcher = "acquire"
  /\ TryAcquire
  /\ UNCHANGED <<range, slabs, slabIndex, task, ok, collectorVars, ctxDone, shutdown>>

\* A waiter looks at the context before it looks at the memory.
LaunchWakes ==
  /\ launcher = "woken"
  /\ IF ctxDone THEN launcher' = "done" /\ UNCHANGED <<mem, free>> ELSE TryAcquire
  /\ UNCHANGED <<range, slabs, slabIndex, task, ok, collectorVars, ctxDone, shutdown>>

\* The parent, which the other downloads use too, gives as much, or the call has
\* waited there when the context was done.
LaunchStarts ==
  /\ launcher = "parent"
  /\ \/ /\ task' = [task EXCEPT ![slabIndex] = "fetch"]
        /\ slabIndex' = slabIndex + 1
        /\ launcher' = "check"
        /\ UNCHANGED <<mem, free>>
     \/ /\ ctxDone
        /\ launcher' = "done"
        /\ mem' = [mem EXCEPT ![slabIndex] = 0]
        /\ free' = free + mem[slabIndex]
        /\ UNCHANGED <<task, slabIndex>>
  /\ UNCHANGED <<range, slabs, ok, collectorVars, ctxDone, shutdown>>

\* Mutant: the launcher is not signalled.
ReleaseQuietly(i) ==
  /\ mem' = [mem EXCEPT ![i] = 0]
  /\ free' = free + mem[i]
  /\ UNCHANGED launcher

\* Release, which wakes the launcher if it waits.
Release(i) ==
  /\ mem' = [mem EXCEPT ![i] = 0]
  /\ free' = free + mem[i]
  /\ launcher' = IF launcher = "wait" THEN "woken" ELSE launcher

-----------------------------------------------------------------------------
(* The goroutine of a slice *)

\* downloadSlab returns.
FetchEnds(i) ==
  /\ task[i] = "fetch"
  /\ task' = [task EXCEPT ![i] = "send"]
  /\ ok' \in {ok, ok \cup {i}}
  /\ UNCHANGED <<range, slabs, mem, free, launcherVars, collectorVars, ctxDone, shutdown>>

\* Nobody takes the response before the context is done.
GivesUp(i) ==
  /\ task[i] = "send"
  /\ ctxDone
  /\ task' = [task EXCEPT ![i] = "done"]
  /\ Release(i)
  /\ UNCHANGED <<range, slabs, ok, slabIndex, collectorVars, ctxDone, shutdown>>

-----------------------------------------------------------------------------
(* The collector *)

\* The deferred cancel; the wait for the goroutines follows.
Leave(why) == collector' = "leave" /\ outcome' = why /\ ctxDone' = TRUE

CollectStops ==
  /\ collector = "select"
  /\ \/ shutdown /\ Leave("shutdown")
     \/ ctxDone /\ Leave("cancelled")
  /\ UNCHANGED <<range, slabs, sliceVars, launcherVars, handling, slabResponses, respIndex,
                 writerVars, shutdown>>

\* Mutant: the release is deferred only after the error was looked at.
CollectKeeping(i) ==
  /\ collector = "select"
  /\ task[i] = "send"
  /\ task' = [task EXCEPT ![i] = "done"]
  /\ IF i \in ok
     THEN /\ collector' = "write" /\ handling' = i
          /\ slabResponses' = slabResponses \cup {i}
          /\ UNCHANGED <<outcome, ctxDone>>
     ELSE Leave("failed") /\ UNCHANGED <<handling, slabResponses>>
  /\ UNCHANGED <<range, slabs, mem, free, launcher, ok, slabIndex, respIndex, writerVars, shutdown>>

\* A goroutine hands over its response.
Collect(i) ==
  /\ collector = "select"
  /\ task[i] = "send"
  /\ task' = [task EXCEPT ![i] = "done"]
  /\ IF i \in ok
     THEN /\ collector' = "write" /\ handling' = i
          /\ slabResponses' = slabResponses \cup {i}
          /\ UNCHANGED <<mem, free, launcher, outcome, ctxDone>>
     ELSE Leave("failed") /\ Release(i) /\ UNCHANGED <<handling, slabResponses>>
  /\ UNCHANGED <<range, slabs, ok, slabIndex, respIndex, writerVars, shutdown>>

\* The launcher hands over the response of a partial slab.
CollectPartial ==
  /\ collector = "select"
  /\ launcher = "partial"
  /\ launcher' = "check" /\ slabIndex' = slabIndex + 1
  /\ collector' = "write"
  /\ slabResponses' = slabResponses \cup {slabIndex}
  /\ UNCHANGED <<range, slabs, sliceVars, handling, respIndex, writerVars, outcome,
                 ctxDone, shutdown>>

\* The launcher hands over the error of a slab with too few hosts.
CollectScarce ==
  /\ collector = "select"
  /\ launcher = "scarce"
  /\ launcher' = "done"
  /\ Leave("failed")
  /\ UNCHANGED <<range, slabs, sliceVars, slabIndex, handling, slabResponses, respIndex,
                 writerVars, shutdown>>

Positions(s) == [k \in 1..s.length |-> s.start + k - 1]

\* The response's memory, which a partial slab has none of.
ReleaseHandled ==
  /\ handling' = 0
  /\ IF handling = 0 THEN UNCHANGED <<mem, free, launcher>> ELSE Release(handling)

\* bufio.Writer: what exceeds the buffer is written through, in the chunks it comes in.
Buffers(positions) ==
  /\ written' = written \o positions
  /\ received' \in received..Len(written')
  /\ Len(written') - received' <= BufferSize
  /\ UNCHANGED broken

\* Mutant: whatever has come is written.
WritesAsItComes ==
  /\ collector = "write"
  /\ \E i \in slabResponses :
       /\ Buffers(Positions(slabs[i]))
       /\ slabResponses' = slabResponses \ {i}
       /\ respIndex' = respIndex + 1
  /\ UNCHANGED <<range, slabs, sliceVars, launcherVars, collector, handling, outcome,
                 ctxDone, shutdown>>

Writes ==
  /\ collector = "write"
  /\ respIndex \in slabResponses
  /\ Buffers(Positions(slabs[respIndex]))
  /\ slabResponses' = slabResponses \ {respIndex}
  /\ respIndex' = respIndex + 1
  /\ UNCHANGED <<range, slabs, sliceVars, launcherVars, collector, handling, outcome,
                 ctxDone, shutdown>>

\* The slab cannot be recovered, or the client is gone, and the rest is lost.
WriteFails ==
  /\ collector = "write"
  /\ respIndex \in slabResponses
  /\ \/ UNCHANGED writerVars
     \/ /\ written' = written \o Positions(slabs[respIndex])
        /\ received' \in received..Len(written') - 1
        /\ broken' = TRUE
  /\ Leave("failed")
  /\ ReleaseHandled
  /\ UNCHANGED <<range, slabs, task, ok, slabIndex, slabResponses, respIndex, shutdown>>

\* The next response has not come yet, or there is none left.
WritesDone ==
  /\ collector = "write"
  /\ respIndex \notin slabResponses
  /\ IF respIndex > Len(slabs)
     THEN Leave("ok")
     ELSE collector' = "select" /\ UNCHANGED <<outcome, ctxDone>>
  /\ ReleaseHandled
  /\ UNCHANGED <<range, slabs, task, ok, slabIndex, slabResponses, respIndex, writerVars, shutdown>>

Joins ==
  /\ collector = "leave"
  /\ launcher = "done"
  /\ \A i \in Slices : task[i] \in {"none", "done"}
  /\ collector' = "flush"
  /\ UNCHANGED <<range, slabs, sliceVars, launcherVars, handling, slabResponses, respIndex,
                 writerVars, outcome, ctxDone, shutdown>>

\* The flush deferred before all the rest: its error is logged, and what the download
\* returns stays.
Flushes ==
  /\ collector = "flush"
  /\ \/ broken /\ UNCHANGED writerVars
     \/ ~broken /\ received' = Len(written) /\ UNCHANGED <<written, broken>>
     \/ /\ ~broken /\ received' \in received..Len(written) - 1 /\ broken' = TRUE
        /\ UNCHANGED written
  /\ collector' = "returned"
  /\ UNCHANGED <<range, slabs, sliceVars, launcherVars, handling, slabResponses, respIndex,
                 outcome, ctxDone, shutdown>>

-----------------------------------------------------------------------------
Cancel ==
  /\ ~ctxDone /\ collector # "returned"
  /\ ctxDone' = TRUE
  /\ UNCHANGED <<range, slabs, sliceVars, launcherVars, collectorVars, shutdown>>

Shutdown ==
  /\ ~shutdown /\ collector # "returned"
  /\ shutdown' = TRUE
  /\ UNCHANGED <<range, slabs, sliceVars, launcherVars, collectorVars, ctxDone>>

Launcher == LaunchChecks \/ LaunchAcquires \/ LaunchWakes \/ LaunchStarts
Collector ==
  \/ CollectStops \/ CollectPartial \/ CollectScarce \/ (\E i \in Slices : Collect(i))
  \/ Writes \/ WriteFails \/ WritesDone \/ Joins \/ Flushes

ObjectNext ==
  \/ Launcher
  \/ \E i \in Slices : FetchEnds(i) \/ GivesUp(i)
  \/ Collector
  \/ Cancel \/ Shutdown

ObjectSpec == ObjectInit /\ [][ObjectNext]_objectVars

\* The goroutines are scheduled; slab downloads return; the client reads or is gone;
\* neither it nor a shutdown has to interrupt.
ObjectFairSpec ==
  /\ ObjectSpec
  /\ WF_objectVars(Launcher) /\ WF_objectVars(Collector)
  /\ \A i \in 1..Max({Len(o) : o \in Objects}) :
       WF_objectVars(i \in Slices /\ (FetchEnds(i) \/ GivesUp(i)))
-----------------------------------------------------------------------------
(* Properties *)

\* Whatever the order in which the slabs arrive, what reaches the client is the
\* beginning of the range, and a download that reports success has given all of it to the
\* buffered writer: the client lacks no more than the buffer holds.  Once a download has
\* returned, whatever it reports, only a failure of the writer withholds what was written.
\* (If that is the last flush, it is only logged, and the download reports success.)
RangeDelivered ==
  LET wanted == [k \in 1..range.length |-> range.offset + k - 1] IN
  /\ IsPrefix(written, wanted) /\ received <= Len(written)
  /\ outcome = "ok" => written = wanted /\ Len(written) - received <= BufferSize
  /\ collector = "returned" /\ ~broken => received = Len(written)

\* Memory is held by a slab's goroutine, by the launcher that is about to start
\* it, or by the collector that handles its response, and by nobody else: a
\* download that has returned, however it ended, holds none.  The launcher never
\* sleeps beside memory that would do.
HeldWhileNeeded ==
  /\ \A i \in Slices :
       mem[i] # 0 => \/ task[i] \in {"fetch", "send"}
                     \/ launcher = "parent" /\ slabIndex = i
                     \/ collector = "write" /\ handling = i
  /\ collector = "returned" => \A i \in Slices : mem[i] = 0
  /\ launcher = "wait" => free < slabs[slabIndex].length

\* The launcher blocks on the channel after the collector has left it: it does not
\* watch the context when it sends the response of a partial slab or an error.
AbandonedLauncher == collector = "leave" /\ launcher \in {"partial", "scarce"}

\* The launcher has given up without a word, because the manager refused a slab
\* longer than its limit, and the collector waits for the response.
RefusedSilently ==
  /\ collector = "select" /\ launcher = "done" /\ ~DownloadStops
  /\ \A i \in Slices : task[i] \in {"none", "done"}

\* A download returns, also when it waits for memory while it is cancelled or
\* fails: there are two ways not to, and no other.
DownloadEnds == <>(collector = "returned" \/ AbandonedLauncher \/ RefusedSilently)

=============================================================================
