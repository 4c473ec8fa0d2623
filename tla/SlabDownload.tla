----------------------------- MODULE SlabDownload ------------------------------
(***************************************************************************)
(* The download of MinShards sectors of a slab (slabDownload in            *)
(* internal/download/downloadmanager.go) from the queues of the hosts      *)
(* (internal/download/downloader/downloader.go).  A sector may be on       *)
(* several hosts; a host has one sector of the slab.  Two goroutines take  *)
(* requests and launch them, each under the slab's mutex: the download     *)
(* itself, MinShards times at first and then once for every failure, and   *)
(* the overdrive, when its timer fires.  Meanwhile other downloads refresh *)
(* the downloaders, which stops those whose host is no longer usable, and  *)
(* the caller's context or the manager's may be done.  The statistics,     *)
(* which set the order of the hosts and the overdrive's timer, are left    *)
(* out: any host may be the fastest and the timer may fire at any time.    *)
(***************************************************************************)
EXTENDS Integers, Sequences, FiniteSets

CONSTANTS
  Sectors, Hosts,
  On,            \* the hosts of each sector
  MinShards,
  MaxOverdrive,
  Usable,        \* the hosts that have a downloader when it begins
  MaxRefresh,    \* bound: changes of the set of downloaders
  None

ASSUME SlabDownloadAssumption ==
  /\ MinShards \in Nat \ {0}
  /\ MaxOverdrive \in Nat /\ MaxRefresh \in Nat
  /\ IsFiniteSet(Sectors) /\ On \in [Sectors -> SUBSET Hosts]
  /\ \A s, t \in Sectors : s # t => On[s] \cap On[t] = {}
  /\ \A h \in Hosts : \E s \in Sectors : h \in On[s]
  /\ Usable \subseteq Hosts
  /\ None \notin Hosts

VARIABLES
  downloaders,   \* the hosts that have a downloader
  hks,           \* the hosts of each sector that have not been asked
  selected,      \* how often a host of each sector was selected
  order,         \* the sectors that nextRequest has yet to look at
  data,          \* the sectors that have come
  request,       \* where the request to each host is
  responses,     \* the responses that wait to be received
  signal,        \* the buffer of the signal of responses is full
  numInflight,
  main,          \* where the download is
  launched,      \* how many of the first MinShards requests it has launched
  taken,         \* the request it has taken
  over,          \* where the overdrive goroutine is
  overTaken,     \* the request that has taken
  result,
  stop,          \* the context that is done
  refreshes,     \* bound: changes so far
  twice,         \* observer: the sectors that have come more than once
  early          \* observer: how many requests the overdrive launched before the
                 \* first MinShards were

choiceVars == <<hks, selected, order>>
launchVars == <<request, numInflight>>
responseVars == <<responses, signal>>
mainVars == <<main, launched, taken, result>>
overVars == <<over, overTaken, early>>
vars == <<downloaders, choiceVars, data, launchVars, responseVars, mainVars, overVars,
          stop, refreshes, twice>>

TypeOK ==
  /\ downloaders \subseteq Hosts
  /\ hks \in [Sectors -> SUBSET Hosts]
  /\ selected \in [Sectors -> Nat]
  /\ order \in Seq(Sectors)
  /\ data \subseteq Sectors
  /\ request \in [Hosts -> {"none", "taken", "queued", "executing", "failing",
                            "answered", "received", "dropped"}]
  /\ responses \in Seq([host : Hosts, ok : BOOLEAN])
  /\ signal \in BOOLEAN
  /\ numInflight \in Nat
  /\ main \in {"first", "firstPick", "launch", "loop", "select", "next", "replace",
              "pick", "relaunch", "over"}
  /\ launched \in 0..MinShards
  /\ taken \in Hosts \cup {None}
  /\ over \in {"timer", "take", "pick", "launch"}
  /\ overTaken \in Hosts \cup {None}
  /\ result \in {"none", "ok", "failed", "noHost", "interrupted"}
  /\ stop \in {"none", "context", "shutdown"}
  /\ refreshes \in 0..MaxRefresh
  /\ twice \subseteq Sectors /\ early \in Nat

Init ==
  /\ downloaders = Usable
  /\ hks = On
  /\ selected = [s \in Sectors |-> 0] /\ order = <<>>
  /\ data = {}
  /\ request = [h \in Hosts |-> "none"] /\ numInflight = 0
  /\ responses = <<>> /\ signal = FALSE
  /\ main = "first" /\ launched = 0 /\ taken = None
  /\ over = "timer" /\ overTaken = None /\ early = 0
  /\ result = "none" /\ stop = "none"
  /\ refreshes = 0
  /\ twice = {}

SectorOf(h) == CHOOSE s \in Sectors : h \in On[s]

-----------------------------------------------------------------------------
(* nextRequest and launch, in the hands of either goroutine *)

\* nextRequest holds the slab's mutex while it locks the manager anew for every host.
Locked == main \in {"firstPick", "pick"} \/ over = "pick"

Pending == {s \in Sectors \ data : hks[s] # {}}

Reachable(s) == hks[s] \cap downloaders # {}

\* The pending sectors that have a downloader first, those selected least often
\* before the others.  (Hosts that come or go during the sort only change the order.)
Orders ==
  {o \in [1..Cardinality(Pending) -> Pending] :
     /\ \A s \in Pending : \E i \in DOMAIN o : o[i] = s
     /\ \A i, j \in DOMAIN o : i < j /\ Reachable(o[j]) =>
          Reachable(o[i]) /\ selected[o[i]] <= selected[o[j]]}

Sort == ~Locked /\ order' \in Orders /\ UNCHANGED <<hks, selected, launchVars>>

\* A host of the first sector that still has a downloader.
Take(h) ==
  /\ order # <<>>
  /\ LET s == Head(order) IN
     /\ h \in hks[s] \cap downloaders
     /\ hks' = [hks EXCEPT ![s] = @ \ {h}]
     /\ selected' = [selected EXCEPT ![s] = @ + 1]
  /\ order' = <<>>
  /\ request' = [request EXCEPT ![h] = "taken"]
  /\ UNCHANGED numInflight

\* The hosts of a sector without a downloader are forgotten.
Forget ==
  /\ order # <<>> /\ ~Reachable(Head(order))
  /\ hks' = [hks EXCEPT ![Head(order)] = {}]
  /\ order' = Tail(order)
  /\ UNCHANGED <<downloaders, selected, data, launchVars, responseVars, mainVars, overVars,
                 stop, refreshes, twice>>

NoMoreHosts == order = <<>> /\ UNCHANGED <<choiceVars, launchVars>>

\* A downloader that was stopped meanwhile has a goroutine answer with the error.
Launch(h) ==
  /\ ~Locked
  /\ request' = [request EXCEPT ![h] = IF h \in downloaders THEN "queued" ELSE "failing"]
  /\ numInflight' = numInflight + 1
  /\ UNCHANGED choiceVars

-----------------------------------------------------------------------------
(* download *)

Return(why) == main' = "over" /\ result' = why

\* The first MinShards requests, which wait for nobody.
FirstSorts ==
  /\ main = "first" /\ Sort /\ main' = "firstPick"
  /\ UNCHANGED <<downloaders, data, responseVars, launched, taken, result, overVars, stop,
                 refreshes, twice>>

FirstTakes ==
  /\ main = "firstPick"
  /\ \/ \E h \in Hosts : Take(h) /\ taken' = h /\ main' = "launch" /\ UNCHANGED result
     \/ NoMoreHosts /\ Return("noHost") /\ UNCHANGED taken
  /\ UNCHANGED <<downloaders, data, responseVars, launched, overVars, stop,
                 refreshes, twice>>

FirstLaunches ==
  /\ main = "launch"
  /\ Launch(taken)
  /\ taken' = None
  /\ launched' = launched + 1
  /\ main' = IF launched' = MinShards THEN "loop" ELSE "first"
  /\ UNCHANGED <<downloaders, data, responseVars, result, overVars, stop,
                 refreshes, twice>>

Complete == Cardinality(data) >= MinShards

\* The loop's condition, and what finish returns.
Loops ==
  /\ main = "loop" /\ ~Locked
  /\ IF numInflight > 0 /\ ~Complete
     THEN main' = "select" /\ UNCHANGED result
     ELSE Return(IF Complete THEN "ok" ELSE "failed")
  /\ UNCHANGED <<downloaders, choiceVars, data, launchVars, responseVars, launched,
                 taken, overVars, stop,
                 refreshes, twice>>

Selects ==
  /\ main = "select"
  /\ signal /\ signal' = FALSE
  /\ main' = "next"
  /\ UNCHANGED <<downloaders, choiceVars, data, launchVars, responses, launched, taken,
                 result, overVars, stop,
                 refreshes, twice>>

\* The caller's context or that of the manager is done.
Interrupted ==
  /\ main = "select" /\ stop # "none"
  /\ Return("interrupted")
  /\ UNCHANGED <<downloaders, choiceVars, data, launchVars, responseVars, launched, taken,
                 overVars, stop,
                 refreshes, twice>>

NoneLeft ==
  /\ main = "next" /\ responses = <<>>
  /\ main' = "loop"
  /\ UNCHANGED <<downloaders, choiceVars, data, launchVars, responseVars, launched,
                 taken, result, overVars, stop,
                 refreshes, twice>>

\* Mutant: a failed request stays in flight.
ReceivesKeeping ==
  /\ main = "next" /\ responses # <<>> /\ ~Locked
  /\ LET resp == Head(responses)
         s    == SectorOf(resp.host) IN
     /\ responses' = Tail(responses)
     /\ request' = [request EXCEPT ![resp.host] = "received"]
     /\ IF resp.ok
        THEN /\ data' = data \cup {s}
             /\ numInflight' = numInflight - 1
             /\ twice' = IF s \in data THEN twice \cup {s} ELSE twice
             /\ main' = IF Cardinality(data') >= MinShards THEN "loop" ELSE "next"
        ELSE main' = "replace" /\ UNCHANGED <<data, twice, numInflight>>
  /\ UNCHANGED <<downloaders, choiceVars, signal, launched, taken, result, overVars,
                 stop, refreshes>>

\* receive; the responses that follow the last sector needed are not looked at.
Receives ==
  /\ main = "next" /\ responses # <<>> /\ ~Locked
  /\ LET resp == Head(responses)
         s    == SectorOf(resp.host) IN
     /\ responses' = Tail(responses)
     /\ request' = [request EXCEPT ![resp.host] = "received"]
     /\ numInflight' = numInflight - 1
     /\ IF resp.ok
        THEN /\ data' = data \cup {s}
             /\ twice' = IF s \in data THEN twice \cup {s} ELSE twice
             /\ main' = IF Cardinality(data') >= MinShards THEN "loop" ELSE "next"
        ELSE main' = "replace" /\ UNCHANGED <<data, twice>>
  /\ UNCHANGED <<downloaders, choiceVars, signal, launched, taken, result, overVars,
                 stop, refreshes>>

\* Mutant: no replacement as long as another request is in flight.
ReplacesIfIdle ==
  /\ main = "replace"
  /\ \/ numInflight = 0 /\ Sort /\ main' = "pick"
     \/ numInflight > 0 /\ main' = "next" /\ UNCHANGED <<choiceVars, launchVars>>
  /\ UNCHANGED <<downloaders, data, responseVars, launched, taken, result, overVars, stop,
                 refreshes, twice>>

\* A replacement, if there is one, for a failed request.
Replaces ==
  /\ main = "replace" /\ Sort /\ main' = "pick"
  /\ UNCHANGED <<downloaders, data, responseVars, launched, taken, result, overVars, stop,
                 refreshes, twice>>

ReplacementTakes ==
  /\ main = "pick"
  /\ \/ \E h \in Hosts : Take(h) /\ taken' = h /\ main' = "relaunch"
     \/ NoMoreHosts /\ main' = "next" /\ UNCHANGED taken
  /\ UNCHANGED <<downloaders, data, responseVars, launched, result, overVars, stop,
                 refreshes, twice>>

ReplacementLaunches ==
  /\ main = "relaunch"
  /\ Launch(taken)
  /\ taken' = None
  /\ main' = "next"
  /\ UNCHANGED <<downloaders, data, responseVars, launched, result, overVars, stop,
                 refreshes, twice>>

-----------------------------------------------------------------------------
(* The overdrive goroutine, which ends with the download *)

\* Mutant: the limit is not looked at.
OverdriveAlways ==
  /\ over = "timer" /\ main # "over" /\ ~Locked
  /\ over' = "take"
  /\ UNCHANGED <<downloaders, choiceVars, data, launchVars, responseVars, mainVars, overTaken,
                 early, stop, refreshes, twice>>

\* The timer fires, from before the first request on, and canOverdrive agrees.
OverdriveFires ==
  /\ over = "timer" /\ main # "over" /\ ~Locked
  /\ numInflight < MaxOverdrive + MinShards - Cardinality(data)
  /\ over' = "take"
  /\ UNCHANGED <<downloaders, choiceVars, data, launchVars, responseVars, mainVars, overTaken,
                 early, stop, refreshes, twice>>

OverdriveSorts ==
  /\ over = "take" /\ Sort /\ over' = "pick"
  /\ UNCHANGED <<downloaders, data, responseVars, mainVars, overTaken, early, stop, refreshes,
                 twice>>

OverdriveTakes ==
  /\ over = "pick"
  /\ \/ \E h \in Hosts : Take(h) /\ overTaken' = h /\ over' = "launch"
     \/ NoMoreHosts /\ over' = "timer" /\ UNCHANGED overTaken
  /\ UNCHANGED <<downloaders, data, responseVars, mainVars, early, stop, refreshes, twice>>

Beginning == main \in {"first", "firstPick", "launch"}

OverdriveLaunches ==
  /\ over = "launch"
  /\ Launch(overTaken)
  /\ overTaken' = None /\ over' = "timer"
  /\ early' = IF Beginning THEN early + 1 ELSE early
  /\ UNCHANGED <<downloaders, data, responseVars, mainVars, stop, refreshes, twice>>

-----------------------------------------------------------------------------
(* The downloaders *)

\* The request's context is done: that of the caller, or the download that derived its
\* own has returned.
CtxDone == main = "over" \/ stop = "context"

\* The downloader pops a request; one whose context is done is skipped, unanswered.
Pops(h) ==
  /\ request[h] = "queued"
  /\ request' = [request EXCEPT ![h] = IF CtxDone THEN "dropped" ELSE "executing"]
  /\ UNCHANGED <<downloaders, choiceVars, data, numInflight, responseVars, mainVars, overVars,
                 stop, refreshes, twice>>

\* SectorResponses.Add, which a download that is over has closed.
Answer(h, ok) ==
  /\ request' = [request EXCEPT ![h] = "answered"]
  /\ IF main = "over" THEN UNCHANGED responseVars
     ELSE responses' = Append(responses, [host |-> h, ok |-> ok]) /\ signal' = TRUE
  /\ UNCHANGED <<downloaders, choiceVars, data, numInflight, mainVars, overVars, stop,
                 refreshes, twice>>

Executes(h) == request[h] = "executing" /\ \E ok \in BOOLEAN : Answer(h, ok)

\* Mutant: a stopped downloader does not answer while anybody waits for it.
FailsUnheard(h) == request[h] = "failing" /\ main = "over" /\ Answer(h, FALSE)

FailsLater(h) == request[h] = "failing" /\ Answer(h, FALSE)

\* refreshDownloaders of another download: a host is no longer usable, and what
\* its downloader has queued fails, or a host gets a downloader.  (A new one of a host
\* that was asked already changes nothing: the request is with the old one.)
StopsDownloader(h) ==
  /\ refreshes < MaxRefresh /\ main # "over"
  /\ h \in downloaders
  /\ downloaders' = downloaders \ {h}
  /\ refreshes' = refreshes + 1
  /\ request' = [request EXCEPT ![h] = IF @ # "queued" THEN @
                                       ELSE IF CtxDone THEN "dropped" ELSE "failing"]
  /\ UNCHANGED <<choiceVars, data, numInflight, responseVars, mainVars, overVars, stop, twice>>

AddsDownloader(h) ==
  /\ refreshes < MaxRefresh /\ main # "over"
  /\ h \notin downloaders /\ request[h] = "none"
  /\ downloaders' = downloaders \cup {h}
  /\ refreshes' = refreshes + 1
  /\ UNCHANGED <<choiceVars, data, launchVars, responseVars, mainVars, overVars, stop, twice>>

\* The caller's context or that of the manager, which is the downloaders', too.
Stops ==
  /\ stop = "none" /\ main # "over"
  /\ stop' \in {"context", "shutdown"}
  /\ UNCHANGED <<downloaders, choiceVars, data, launchVars, responseVars, mainVars, overVars,
                 refreshes, twice>>

-----------------------------------------------------------------------------
Download ==
  \/ FirstSorts \/ FirstTakes \/ FirstLaunches
  \/ Loops \/ Selects \/ Interrupted \/ NoneLeft \/ Receives
  \/ Replaces \/ ReplacementTakes \/ ReplacementLaunches
  \/ main \in {"firstPick", "pick"} /\ Forget
Overdrive ==
  \/ OverdriveSorts \/ OverdriveTakes \/ OverdriveLaunches
  \/ over = "pick" /\ Forget
Downloader(h) == Pops(h) \/ Executes(h) \/ FailsLater(h)

Next ==
  \/ Download \/ Overdrive \/ OverdriveFires
  \/ \E h \in Hosts : Downloader(h) \/ StopsDownloader(h) \/ AddsDownloader(h)
  \/ Stops

Spec == Init /\ [][Next]_vars

\* The goroutines are scheduled, and a mutex is not withheld from one for ever.  Until a
\* shutdown every request ends, with its data or an error.  Nothing makes the timer fire.
FairSpec ==
  /\ Spec
  /\ SF_vars(Download) /\ WF_vars(Overdrive)
  /\ \A h \in Hosts : WF_vars(stop # "shutdown" /\ Downloader(h))

-----------------------------------------------------------------------------
(* Properties *)

InFlight == {h \in Hosts : request[h] \in {"queued", "executing", "failing", "answered"}}
Dropped == {h \in Hosts : request[h] = "dropped"}

\* The counter that ends the loop is exact: as long as the download runs it counts
\* the requests that will be answered, whichever goroutine launched them and whichever
\* downloader was stopped, and those that were dropped instead, which only the caller's
\* context can end the loop for, and which there are only once it is done.
InflightIsExact ==
  main # "over" =>
    /\ numInflight = Cardinality(InFlight \cup Dropped)
    /\ Dropped # {} => stop = "context"

\* Overdrive stays within its limit, but for one request: the limit is looked at
\* before the launch, and another may be launched in between.  The first MinShards
\* launches do not look at it at all: what overdrive launched before them, and one more
\* that it had decided on, may count on top of them.
OverdriveBounded ==
  LET limit == MaxOverdrive + MinShards - Cardinality(data)
      excess == early + 1 - MaxOverdrive
  IN numInflight <= limit + IF excess > 1 THEN excess ELSE 1

\* The hosts that were chosen and have not answered.
Unheard == {h \in Hosts : request[h] \notin {"none", "received"}}

\* A download fails only if no host is left to choose for any missing sector and every
\* host that was chosen has answered, but for one, which the overdrive had chosen and
\* not asked yet when the loop ended; or if a sector came twice, the second time in the
\* place of another.
FailureExplained ==
  result = "failed" =>
    \/ twice # {}
    \/ /\ \A s \in Sectors \ data : hks[s] = {}
       /\ \A g, h \in Unheard : g = h

\* A download ends, interrupted or not.
SlabDownloadEnds == <>(main = "over")

\* What isSectorAvailable promises: "if any of the other hosts that store the sector
\* are available, the sector is also considered available".  A download does not
\* fail when MinShards sectors have come or have an available host to ask.  The code
\* does not keep it: see the README.
AvailableIsDownloaded ==
  result = "failed" =>
    Cardinality({s \in Sectors : s \in data \/ hks[s] \cap downloaders # {}}) < MinShards
=============================================================================
