-------------------------- MODULE SlabDownloadProofs ---------------------------
(***************************************************************************)
(* For any slab, hosts and limits: the types of a slab's download, that    *)
(* its counter of requests in flight is exact whichever of the two         *)
(* goroutines launches and whatever happens to the downloaders, that       *)
(* overdrive stays within its limit but for one request and those launched *)
(* before the first ones, and that a failure has a cause.                  *)
(***************************************************************************)
EXTENDS SlabDownload, DownloadObject, Recursion, FiniteSetTheorems, SequenceTheorems, TLAPS
\* A host that can be asked has not been, and a goroutine has the request it has taken
\* for itself.
Places ==
  /\ \A s \in Sectors : hks[s] \subseteq On[s] /\ \A h \in hks[s] : request[h] = "none"
  /\ main \in {"launch", "relaunch"} => taken \in Hosts /\ request[taken] = "taken"
  /\ over = "launch" => overTaken \in Hosts /\ request[overTaken] = "taken"
  /\ main \in {"launch", "relaunch"} /\ over = "launch" => taken # overTaken
  /\ \A h \in Hosts :
       request[h] = "taken" => \/ main \in {"launch", "relaunch"} /\ h = taken
                               \/ over = "launch" /\ h = overTaken

\* The answers that wait are those of different requests.
Waiting ==
  /\ \A i \in 1..Len(responses) : request[responses[i].host] = "answered"
  /\ \A i, j \in 1..Len(responses) : responses[i].host = responses[j].host => i = j

\* The requests that are counted.
Under == {h \in Hosts : request[h] \in {"queued", "executing", "failing", "answered", "dropped"}}

Counted ==
  main # "over" =>
    /\ IsFiniteSet(Under) /\ numInflight = Cardinality(Under)
    /\ Waiting
    /\ \A h \in Hosts : request[h] = "dropped" => stop = "context"

\* The requests under way, those about to be, and the sectors that have come.
Replacing == IF main \in {"replace", "pick", "relaunch"} THEN 1 ELSE 0
Overdriving == IF over \in {"take", "pick", "launch"} THEN 1 ELSE 0
Excess == IF early + 1 - MaxOverdrive > 1 THEN early + 1 - MaxOverdrive ELSE 1

Bounded ==
  /\ IsFiniteSet(data)
  /\ Beginning => /\ data = {} /\ launched < MinShards
                  /\ launched <= numInflight /\ numInflight <= launched + early
  /\ ~Beginning => numInflight + Replacing + Overdriving
                     <= MaxOverdrive + MinShards - Cardinality(data) + Excess

\* The sectors that nextRequest has yet to look at are those that have hosts to ask.
Covered ==
  /\ \A s \in Pending : \E i \in 1..Len(order) : order[i] = s
  /\ \A i \in 1..Len(order) : order[i] \in Sectors \ data

Scanned ==
  /\ main \in {"firstPick", "pick"} => over # "pick"
  /\ Locked => Covered

Inv == TypeOK /\ Places /\ Counted /\ Bounded /\ Scanned

-----------------------------------------------------------------------------
LEMMA ElementFacts ==
  ASSUME NEW S, NEW q \in Seq(S), NEW i \in 1..Len(q)
  PROVE  q[i] \in S
  OBVIOUS

LEMMA InitHolds == Init => Inv
<1>. SUFFICES ASSUME Init PROVE Inv
  OBVIOUS
<1>. USE SlabDownloadAssumption DEF Init
<1>1. TypeOK
  <2>1. /\ responses = <<>> /\ responses \in Seq([host : Hosts, ok : BOOLEAN])
        /\ order = <<>> /\ order \in Seq(Sectors)
    OBVIOUS
  <2>2. downloaders \subseteq Hosts
    OBVIOUS
  <2>3. hks \in [Sectors -> SUBSET Hosts]
    OBVIOUS
  <2>4. selected \in [Sectors -> Nat] /\ launched \in 0..MinShards /\ refreshes \in 0..MaxRefresh
    OBVIOUS
  <2>5. request \in [Hosts -> {"none", "taken", "queued", "executing", "failing",
                               "answered", "received", "dropped"}]
    OBVIOUS
  <2>6. data \subseteq Sectors /\ twice \subseteq Sectors
    OBVIOUS
  <2>. QED  BY <2>1, <2>2, <2>3, <2>4, <2>5, <2>6 DEF TypeOK
<1>2. Places
  BY DEF Places
<1>3. Under = {} /\ Cardinality({}) = 0 /\ IsFiniteSet({})
  BY FS_EmptySet DEF Under
<1>4. Counted
  BY <1>3 DEF Counted, Waiting
<1>5. Bounded
  BY <1>3 DEF Bounded, Beginning
<1>6. Scanned
  BY DEF Scanned, Locked
<1>. QED  BY <1>1, <1>2, <1>4, <1>5, <1>6 DEF Inv

\* Each host has one sector.
LEMMA SectorFacts ==
  ASSUME NEW h \in Hosts
  PROVE  /\ SectorOf(h) \in Sectors /\ h \in On[SectorOf(h)]
         /\ \A s \in Sectors : h \in On[s] => s = SectorOf(h)
<1>1. \E s \in Sectors : h \in On[s]
  BY SlabDownloadAssumption
<1>2. SectorOf(h) \in Sectors /\ h \in On[SectorOf(h)]
  BY <1>1 DEF SectorOf
<1>. QED  BY <1>2, SlabDownloadAssumption

\* The answers that wait are not touched by what happens to other requests.
LEMMA WaitingKept ==
  ASSUME TypeOK, Waiting, UNCHANGED responses,
         NEW h \in Hosts, NEW state, request[h] # "answered", request' = [request EXCEPT ![h] = state]
  PROVE  Waiting'
<1>1. \A i \in 1..Len(responses) : responses[i].host \in Hosts
  <2>. TAKE i \in 1..Len(responses)
  <2>1. responses[i] \in [host : Hosts, ok : BOOLEAN]
    BY ElementFacts DEF TypeOK
  <2>. QED  BY <2>1
<1>2. \A i \in 1..Len(responses) : request'[responses[i].host] = "answered"
  BY <1>1 DEF Waiting, TypeOK
<1>. QED  BY <1>2 DEF Waiting

\* The sort puts every pending sector somewhere.
LEMMA SortFacts ==
  ASSUME TypeOK, Sort, UNCHANGED data
  PROVE  /\ ~Locked /\ order' \in Seq(Sectors) /\ Covered'
         /\ UNCHANGED <<hks, selected, request, numInflight>>
<1>1. /\ ~Locked /\ order' \in Orders /\ UNCHANGED <<hks, selected, request, numInflight>>
  BY DEF Sort, launchVars
<1>2. Pending \subseteq Sectors \ data /\ Pending' = Pending /\ Cardinality(Pending) \in Nat
  <2>1. IsFiniteSet(Pending)
    BY SlabDownloadAssumption, FS_Subset DEF Pending
  <2>. QED  BY <1>1, <2>1, FS_CardinalityType DEF Pending
<1>. DEFINE n == Cardinality(Pending)
<1>3. /\ order' \in [1..n -> Pending]
      /\ \A s \in Pending : \E i \in 1..n : order'[i] = s
  BY <1>1 DEF Orders
<1>. HIDE DEF n
<1>4. n \in Nat
  BY <1>2 DEF n
<1>5. order' \in Seq(Pending) /\ Len(order') = n
  BY <1>3, <1>4
<1>6. order' \in Seq(Sectors)
  BY <1>2, <1>3, <1>4
<1>7. Covered'
  BY <1>2, <1>3, <1>5 DEF Covered
<1>. QED  BY <1>1, <1>6, <1>7

\* What a goroutine's choice of a host does.
LEMMA TakeFacts ==
  ASSUME TypeOK, Places, NEW h \in Hosts, Take(h)
  PROVE  /\ request[h] = "none" /\ request' = [request EXCEPT ![h] = "taken"]
         /\ UNCHANGED numInflight /\ Under' = Under /\ order' \in Seq(Sectors)
         /\ hks' \in [Sectors -> SUBSET Hosts] /\ selected' \in [Sectors -> Nat]
         /\ \A s \in Sectors : hks'[s] \subseteq hks[s] /\ h \notin hks'[s]
         /\ Waiting /\ UNCHANGED responses => Waiting'
         /\ \E i \in 1..Len(order) : hks[order[i]] # {}
<1>. DEFINE s == Head(order)
<1>1. /\ order # <<>> /\ h \in hks[s] /\ order' = <<>>
      /\ hks' = [hks EXCEPT ![s] = @ \ {h}]
      /\ selected' = [selected EXCEPT ![s] = @ + 1]
      /\ request' = [request EXCEPT ![h] = "taken"]
      /\ UNCHANGED numInflight
  BY DEF Take
<1>2. s \in Sectors /\ s = order[1] /\ 1 \in 1..Len(order)
  BY <1>1 DEF TypeOK
<1>. HIDE DEF s
<1>3. \A t \in Sectors : h \in On[t] => t = s
  <2>1. h \in On[s]
    BY <1>1, <1>2 DEF Places
  <2>. QED  BY <1>2, <2>1, SlabDownloadAssumption
<1>4. hks' \in [Sectors -> SUBSET Hosts] /\ selected' \in [Sectors -> Nat]
  BY <1>1, <1>2 DEF TypeOK
<1>5. \A t \in Sectors : hks'[t] \subseteq hks[t] /\ h \notin hks'[t]
  BY <1>1, <1>2, <1>3 DEF TypeOK, Places
<1>6. request[h] = "none"
  BY <1>1, <1>2 DEF Places
<1>7. Under' = Under
  BY <1>1, <1>6 DEF Under, TypeOK
<1>8. Waiting /\ UNCHANGED responses => Waiting'
  BY <1>1, <1>6, WaitingKept
<1>9. order' \in Seq(Sectors)
  BY <1>1
<1>. QED  BY <1>1, <1>2, <1>4, <1>5, <1>6, <1>7, <1>8, <1>9

\* The choice disturbs nothing that is counted, and leaves the mutex.
LEMMA TakeKeeps ==
  ASSUME TypeOK, Places, Counted, NEW h \in Hosts, Take(h),
         UNCHANGED <<downloaders, data, responses, signal, launched, result, early, stop, refreshes,
                     twice>>,
         \/ /\ main' \in {"launch", "relaunch"} /\ taken' = h /\ main \notin {"launch", "relaunch"}
            /\ UNCHANGED <<over, overTaken>>
         \/ over' = "launch" /\ overTaken' = h /\ over # "launch" /\ UNCHANGED <<main, taken>>
  PROVE  TypeOK' /\ Places' /\ (main # "over" => Counted')
<1>. DEFINE S == {"none", "taken", "queued", "executing", "failing", "answered", "received",
                  "dropped"}
<1>1. /\ request[h] = "none" /\ request' = [request EXCEPT ![h] = "taken"]
      /\ UNCHANGED numInflight /\ Under' = Under /\ order' \in Seq(Sectors)
      /\ hks' \in [Sectors -> SUBSET Hosts] /\ selected' \in [Sectors -> Nat]
      /\ \A s \in Sectors : hks'[s] \subseteq hks[s] /\ h \notin hks'[s]
      /\ Waiting => Waiting'
  BY TakeFacts
<1>2. TypeOK'
  BY <1>1 DEF TypeOK
<1>3. /\ \A g \in Hosts : g # h => request'[g] = request[g]
      /\ request'[h] = "taken"
  BY <1>1 DEF TypeOK
<1>4. \A s \in Sectors : hks'[s] \subseteq On[s] /\ \A g \in hks'[s] : request'[g] = "none"
  BY <1>1, <1>3 DEF Places, TypeOK
<1>5. Places'
  BY <1>1, <1>3, <1>4, SMTT(30) DEF Places
<1>6. main # "over" => Counted'
  BY <1>1, <1>3 DEF Counted
<1>. QED  BY <1>2, <1>5, <1>6

\* What the launch of a request does.
LEMMA LaunchFacts ==
  ASSUME TypeOK, NEW h \in Hosts, request[h] = "taken", Launch(h)
  PROVE  /\ \E state \in {"queued", "failing"} : request' = [request EXCEPT ![h] = state]
         /\ UNCHANGED <<hks, selected, order>> /\ ~Locked
         /\ numInflight' = numInflight + 1
         /\ IsFiniteSet(Under) /\ numInflight = Cardinality(Under) =>
              IsFiniteSet(Under') /\ numInflight' = Cardinality(Under')
         /\ Waiting /\ UNCHANGED responses => Waiting'
<1>1. \E state \in {"queued", "failing"} : request' = [request EXCEPT ![h] = state]
  BY DEF Launch
<1>2. Under' = Under \cup {h} /\ h \notin Under
  BY <1>1 DEF Under, TypeOK
<1>3. numInflight' = numInflight + 1 /\ UNCHANGED <<hks, selected, order>> /\ ~Locked
  BY DEF Launch, choiceVars
<1>4. Waiting /\ UNCHANGED responses => Waiting'
  BY <1>1, WaitingKept
<1>. QED  BY <1>1, <1>2, <1>3, <1>4, FS_AddElement

LEMMA LaunchKeeps ==
  ASSUME TypeOK, Places, Counted, NEW h \in Hosts, request[h] = "taken", Launch(h),
         UNCHANGED <<downloaders, data, responses, signal, result, stop, refreshes, twice>>,
         launched' \in 0..MinShards, early' \in Nat,
         \/ /\ main \in {"launch", "relaunch"} /\ h = taken /\ taken' = None
            /\ main' \in {"first", "loop", "next"} /\ UNCHANGED <<over, overTaken>>
         \/ /\ over = "launch" /\ h = overTaken /\ overTaken' = None /\ over' = "timer"
            /\ UNCHANGED <<main, taken>>
  PROVE  TypeOK' /\ Places' /\ Counted' /\ Scanned'
<1>1. PICK state \in {"queued", "failing"} : request' = [request EXCEPT ![h] = state]
  BY LaunchFacts
<1>2. /\ UNCHANGED <<hks, selected, order>> /\ numInflight' = numInflight + 1 /\ ~Locked
      /\ IsFiniteSet(Under) /\ numInflight = Cardinality(Under) =>
           IsFiniteSet(Under') /\ numInflight' = Cardinality(Under')
      /\ Waiting => Waiting'
  BY LaunchFacts
<1>3. TypeOK'
  BY <1>1, <1>2 DEF TypeOK
<1>4. \A g \in Hosts : request'[g] = IF g = h THEN state ELSE request[g]
  BY <1>1 DEF TypeOK
<1>5. \A s \in Sectors : hks'[s] \subseteq On[s] /\ \A g \in hks'[s] : request'[g] = "none"
  BY <1>2, <1>4 DEF Places, TypeOK
<1>6. Places'
  BY <1>1, <1>4, <1>5, SMTT(30) DEF Places
<1>7. Counted'
  <2>1. \A g \in Hosts : request'[g] = "dropped" => request[g] = "dropped"
    BY <1>4
  <2>2. main' # "over" => main # "over"
    OBVIOUS
  <2>. QED  BY <1>2, <2>1, <2>2 DEF Counted
<1>8. Scanned'
  BY <1>2 DEF Scanned, Locked
<1>. QED  BY <1>3, <1>6, <1>7, <1>8

\* The hosts of a sector are forgotten, and the next one is looked at.
LEMMA ForgetFacts ==
  ASSUME Inv, Forget, Locked
  PROVE  /\ UNCHANGED <<downloaders, selected, data, request, numInflight, responses, signal, main,
                        launched, taken, result, over, overTaken, early, stop, refreshes, twice>>
         /\ hks' \in [Sectors -> SUBSET Hosts] /\ order' \in Seq(Sectors)
         /\ \A s \in Sectors : hks'[s] \subseteq hks[s]
         /\ Covered'
<1>. DEFINE s == Head(order)
<1>1. /\ order # <<>> /\ order' = Tail(order) /\ hks' = [hks EXCEPT ![s] = {}]
      /\ UNCHANGED <<downloaders, selected, data, request, numInflight, responses, signal, main,
                     launched, taken, result, over, overTaken, early, stop, refreshes, twice>>
  BY DEF Forget, launchVars, responseVars, mainVars, overVars
<1>2. /\ order \in Seq(Sectors) /\ Len(order) \in Nat /\ Len(order) >= 1
      /\ s = order[1] /\ s \in Sectors
      /\ order' \in Seq(Sectors) /\ Len(order') = Len(order) - 1
      /\ \A i \in 1..Len(order') : order'[i] = order[i + 1]
  BY <1>1 DEF Inv, TypeOK
<1>. HIDE DEF s
<1>3. hks' \in [Sectors -> SUBSET Hosts] /\ \A t \in Sectors : hks'[t] \subseteq hks[t]
  BY <1>1, <1>2 DEF Inv, TypeOK
<1>4. Covered
  BY DEF Inv, Scanned
<1>5. ASSUME NEW t \in Pending' PROVE \E i \in 1..Len(order') : order'[i] = t
  <2>1. t \in Pending /\ t # s
    BY <1>1, <1>2 DEF Pending, Inv, TypeOK
  <2>2. PICK i \in 1..Len(order) : order[i] = t
    BY <1>4, <2>1 DEF Covered
  <2>3. i # 1
    BY <1>2, <2>1, <2>2
  <2>4. i - 1 \in 1..Len(order') /\ (i - 1) + 1 = i
    BY <1>2, <2>2, <2>3
  <2>. QED  BY <1>2, <2>2, <2>4
<1>6. ASSUME NEW i \in 1..Len(order') PROVE order'[i] \in Sectors \ data'
  <2>1. i + 1 \in 1..Len(order)
    BY <1>2
  <2>. QED  BY <1>1, <1>2, <1>4, <2>1 DEF Covered
<1>7. Covered'
  BY <1>5, <1>6 DEF Covered
<1>. QED  BY <1>1, <1>2, <1>3, <1>7

LEMMA ForgetKeeps ==
  ASSUME Inv, Forget, Locked PROVE Inv'
<1>1. /\ UNCHANGED <<downloaders, selected, data, request, numInflight, responses, signal, main,
                     launched, taken, result, over, overTaken, early, stop, refreshes, twice>>
      /\ hks' \in [Sectors -> SUBSET Hosts] /\ order' \in Seq(Sectors)
      /\ \A s \in Sectors : hks'[s] \subseteq hks[s]
      /\ Covered'
  BY ForgetFacts
<1>2. TypeOK'
  BY <1>1 DEF Inv, TypeOK
<1>3. Places'
  BY <1>1 DEF Inv, Places, TypeOK
<1>4. Counted'
  BY <1>1 DEF Inv, Counted, Waiting, Under
<1>5. Bounded'
  BY <1>1 DEF Inv, Bounded, Replacing, Overdriving, Excess, Beginning
<1>6. Scanned'
  BY <1>1 DEF Inv, Scanned
<1>. QED  BY <1>2, <1>3, <1>4, <1>5, <1>6 DEF Inv

\* A scan begins: nextRequest takes the mutex and sorts.
LEMMA SortKeeps ==
  ASSUME Inv, FirstSorts \/ Replaces \/ OverdriveSorts PROVE Inv'
<1>1. Sort /\ UNCHANGED <<downloaders, data, responses, signal, launched, taken, result, overTaken,
                          early, stop, refreshes, twice>>
  BY DEF FirstSorts, Replaces, OverdriveSorts, responseVars, mainVars, overVars
<1>2. /\ ~Locked /\ order' \in Seq(Sectors) /\ Covered'
      /\ UNCHANGED <<hks, selected, request, numInflight>>
  BY <1>1, SortFacts DEF Inv
<1>3. \/ main = "first" /\ main' = "firstPick" /\ over' = over
      \/ main = "replace" /\ main' = "pick" /\ over' = over
      \/ over = "take" /\ over' = "pick" /\ main' = main
  BY DEF FirstSorts, Replaces, OverdriveSorts, mainVars, overVars
<1>4. TypeOK'
  BY <1>1, <1>2, <1>3 DEF Inv, TypeOK
<1>5. Places'
  BY <1>1, <1>2, <1>3 DEF Inv, Places, TypeOK
<1>6. Counted'
  BY <1>1, <1>2, <1>3 DEF Inv, Counted, Waiting, Under
<1>7. Bounded'
  BY <1>1, <1>2, <1>3 DEF Inv, Bounded, Replacing, Overdriving, Excess, Beginning
<1>8. Scanned'
  BY <1>2, <1>3 DEF Scanned, Locked
<1>. QED  BY <1>4, <1>5, <1>6, <1>7, <1>8 DEF Inv

LEMMA RoomAtFirst ==
  ASSUME NEW n \in Nat, NEW l \in Nat, NEW e \in Nat, NEW o \in Nat, NEW x \in Int,
         n <= l + e, l <= MinShards, o <= 1, x >= e + 1 - MaxOverdrive
  PROVE  n + 0 + o <= MaxOverdrive + MinShards - 0 + x
BY SlabDownloadAssumption

\* The steps of the download at its beginning.
LEMMA FirstKeeps ==
  ASSUME Inv, FirstTakes \/ FirstLaunches
  PROVE  Inv'
<1>. USE SlabDownloadAssumption DEF Inv
<1>1. CASE FirstTakes
  <2>1. /\ main = "firstPick" /\ over # "pick" /\ Beginning
        /\ UNCHANGED <<downloaders, data, responses, signal, launched, over, overTaken, early,
                       stop, refreshes, twice>>
    BY <1>1 DEF FirstTakes, responseVars, overVars, Scanned, Beginning
  <2>2. CASE \E h \in Hosts : Take(h) /\ taken' = h /\ main' = "launch" /\ UNCHANGED result
    <3>1. PICK h \in Hosts : Take(h) /\ taken' = h /\ main' = "launch" /\ UNCHANGED result
      BY <2>2
    <3>2. TypeOK' /\ Places' /\ Counted'
      BY <2>1, <3>1, TakeKeeps
    <3>3. UNCHANGED numInflight
      BY <3>1 DEF Take
    <3>4. Bounded' /\ Scanned'
      BY <2>1, <3>1, <3>3 DEF Bounded, Beginning, Scanned, Locked
    <3>. QED  BY <3>2, <3>4
  <2>3. CASE NoMoreHosts /\ Return("noHost") /\ UNCHANGED taken
    <3>1. /\ UNCHANGED <<hks, selected, order, request, numInflight, taken>>
          /\ main' = "over" /\ result' = "noHost"
      BY <2>3 DEF NoMoreHosts, Return, choiceVars, launchVars
    <3>2. TypeOK' /\ Places' /\ Counted' /\ Scanned'
      BY <2>1, <3>1 DEF TypeOK, Places, Counted, Scanned, Locked
    <3>3. Bounded'
      <4>1. Cardinality(data) = 0 /\ data = {} /\ launched < MinShards
            /\ numInflight <= launched + early
        BY <2>1, FS_EmptySet DEF Bounded
      <4>2. Replacing' = 0 /\ Overdriving' <= 1 /\ Overdriving' \in Nat /\ Excess' = Excess
            /\ ~Beginning'
        BY <2>1, <3>1 DEF Replacing, Overdriving, Excess, Beginning
      <4>3. Excess \in Int /\ Excess >= early + 1 - MaxOverdrive
        BY DEF Excess, TypeOK
      <4>4. numInflight \in Nat /\ early \in Nat /\ launched \in Nat
        BY DEF TypeOK
      <4>. HIDE DEF Excess
      <4>5. numInflight + 0 + Overdriving' <= MaxOverdrive + MinShards - 0 + Excess
        <5>1. launched <= MinShards
          BY <4>1, <4>4, SlabDownloadAssumption
        <5>. QED  BY <4>1, <4>2, <4>3, <4>4, <5>1, RoomAtFirst
      <4>. QED  BY <2>1, <3>1, <4>1, <4>2, <4>5 DEF Bounded
    <3>. QED  BY <3>2, <3>3
  <2>. QED  BY <1>1, <2>2, <2>3 DEF FirstTakes
<1>2. CASE FirstLaunches
  <2>1. /\ main = "launch" /\ taken \in Hosts /\ request[taken] = "taken" /\ Beginning
        /\ Launch(taken) /\ taken' = None /\ launched' = launched + 1
        /\ main' = IF launched' = MinShards THEN "loop" ELSE "first"
        /\ UNCHANGED <<downloaders, data, responses, signal, result, over, overTaken, early, stop,
                       refreshes, twice>>
    BY <1>2 DEF FirstLaunches, Places, responseVars, overVars, Beginning
  <2>2. /\ launched < MinShards /\ launched \in Nat /\ data = {}
        /\ launched <= numInflight /\ numInflight <= launched + early
        /\ numInflight \in Nat /\ early \in Nat
    BY <2>1 DEF Bounded, TypeOK
  <2>3. launched' \in 0..MinShards /\ early' \in Nat
    BY <2>1, <2>2
  <2>4. TypeOK' /\ Places' /\ Counted' /\ Scanned'
    BY <2>1, <2>3, LaunchKeeps
  <2>5. numInflight' = numInflight + 1
    BY <2>1, LaunchFacts
  <2>6. Bounded'
    <3>1. Cardinality({}) = 0 /\ IsFiniteSet({})
      BY FS_EmptySet
    <3>2. CASE launched' = MinShards
      <4>1. Replacing' = 0 /\ Overdriving' \in 0..1 /\ Excess' = Excess /\ ~Beginning'
        BY <2>1, <3>2 DEF Replacing, Overdriving, Excess, Beginning
      <4>2. Excess \in Int /\ Excess >= early + 1 - MaxOverdrive
        BY <2>2 DEF Excess
      <4>3. numInflight' \in Nat /\ launched' \in Nat /\ Overdriving' \in Nat
        BY <2>1, <2>2, <2>5, <4>1
      <4>4. numInflight' <= launched' + early
        BY <2>1, <2>2, <2>5
      <4>. HIDE DEF Excess
      <4>5. numInflight' + 0 + Overdriving' <= MaxOverdrive + MinShards - 0 + Excess
        <5>1. launched' <= MinShards /\ Overdriving' <= 1
          BY <3>2, <4>1, <4>3, SlabDownloadAssumption
        <5>. QED  BY <2>2, <4>2, <4>3, <4>4, <5>1, RoomAtFirst
      <4>. QED  BY <2>1, <2>2, <3>1, <4>1, <4>5 DEF Bounded
    <3>3. CASE launched' # MinShards
      BY <2>1, <2>2, <2>5, <3>1, <3>3 DEF Bounded, Beginning
    <3>. QED  BY <3>2, <3>3
  <2>. QED  BY <2>4, <2>6
<1>. QED  BY <1>1, <1>2

\* The steps that change only where the download is.
LEMMA LoopKeeps ==
  ASSUME Inv, Loops \/ Selects \/ NoneLeft \/ Interrupted
  PROVE  Inv'
<1>1. /\ main \in {"loop", "select", "next"} /\ main' \in {"loop", "select", "next", "over"}
      /\ signal' \in BOOLEAN
      /\ result' \in {"none", "ok", "failed", "noHost", "interrupted"}
      /\ UNCHANGED <<downloaders, hks, selected, order, data, request, numInflight, responses,
                     launched, taken, over, overTaken, early, stop, refreshes, twice>>
  BY DEF Inv, TypeOK, Loops, Selects, NoneLeft, Interrupted, Return, choiceVars, launchVars,
         responseVars, overVars
<1>2. TypeOK'
  BY <1>1 DEF Inv, TypeOK
<1>3. Places'
  BY <1>1 DEF Inv, Places
<1>4. Counted'
  BY <1>1 DEF Inv, Counted, Waiting, Under
<1>5. Bounded'
  BY <1>1 DEF Inv, Bounded, Replacing, Overdriving, Excess, Beginning
<1>6. Scanned'
  BY <1>1 DEF Inv, Scanned, Locked, Covered, Pending
<1>. QED  BY <1>2, <1>3, <1>4, <1>5, <1>6 DEF Inv

\* One response leaves the queue, and one request is in flight no more.
LEMMA ReceiveFacts ==
  ASSUME Inv, Receives
  PROVE  LET h == Head(responses).host IN
         /\ h \in Hosts /\ request[h] = "answered" /\ request' = [request EXCEPT ![h] = "received"]
         /\ responses' \in Seq([host : Hosts, ok : BOOLEAN])
         /\ numInflight' = numInflight - 1 /\ numInflight' \in Nat
         /\ IsFiniteSet(Under') /\ numInflight' = Cardinality(Under')
         /\ Waiting'
<1>. DEFINE h == Head(responses).host
<1>1. /\ main = "next" /\ responses # <<>> /\ responses' = Tail(responses)
      /\ request' = [request EXCEPT ![h] = "received"] /\ numInflight' = numInflight - 1
  BY DEF Receives
<1>2. responses \in Seq([host : Hosts, ok : BOOLEAN]) /\ Len(responses) \in Nat /\ Len(responses) >= 1
  BY <1>1 DEF Inv, TypeOK
<1>3. /\ responses' \in Seq([host : Hosts, ok : BOOLEAN]) /\ Len(responses') = Len(responses) - 1
      /\ \A i \in 1..Len(responses') : responses'[i] = responses[i + 1]
      /\ Head(responses) = responses[1]
  BY <1>1, <1>2
<1>4. h \in Hosts
  <2>1. 1 \in 1..Len(responses)
    BY <1>2
  <2>2. responses[1] \in [host : Hosts, ok : BOOLEAN]
    BY <1>2, <2>1, ElementFacts
  <2>. QED  BY <1>3, <2>2
<1>5. Waiting /\ IsFiniteSet(Under) /\ numInflight = Cardinality(Under)
  BY <1>1 DEF Inv, Counted
<1>6. request[h] = "answered"
  BY <1>2, <1>3, <1>5 DEF Waiting
<1>7. \A i \in 1..Len(responses') : i + 1 \in 1..Len(responses) /\ i + 1 # 1
  BY <1>2, <1>3
<1>8. Waiting'
  <2>1. \A i \in 1..Len(responses') : responses'[i].host # h
    BY <1>3, <1>5, <1>7, <1>2 DEF Waiting
  <2>2. \A i \in 1..Len(responses') : request'[responses'[i].host] = "answered"
    BY <1>1, <1>3, <1>5, <1>7, <2>1 DEF Waiting, Inv, TypeOK
  <2>3. \A i, j \in 1..Len(responses') : responses'[i].host = responses'[j].host => i = j
    BY <1>3, <1>5, <1>7, SMTT(30) DEF Waiting
  <2>. QED  BY <2>2, <2>3 DEF Waiting
<1>9. h \in Under /\ Under' = Under \ {h}
  BY <1>1, <1>4, <1>6 DEF Under, Inv, TypeOK
<1>10. IsFiniteSet(Under') /\ Cardinality(Under') = Cardinality(Under) - 1
  BY <1>5, <1>9, FS_RemoveElement
<1>11. Cardinality(Under') \in Nat
  BY <1>10, FS_CardinalityType
<1>. QED  BY <1>1, <1>3, <1>4, <1>5, <1>6, <1>8, <1>10, <1>11

LEMMA ReceiveKeeps ==
  ASSUME Inv, Receives
  PROVE  Inv'
<1>. DEFINE h == Head(responses).host
<1>1. /\ h \in Hosts /\ request[h] = "answered" /\ request' = [request EXCEPT ![h] = "received"]
      /\ responses' \in Seq([host : Hosts, ok : BOOLEAN])
      /\ numInflight' = numInflight - 1 /\ numInflight' \in Nat
      /\ IsFiniteSet(Under') /\ numInflight' = Cardinality(Under') /\ Waiting'
  BY ReceiveFacts
<1>2. /\ main = "next" /\ ~Locked
      /\ UNCHANGED <<downloaders, hks, selected, order, signal, launched, taken, result, over,
                     overTaken, early, stop, refreshes>>
  BY DEF Receives, choiceVars, overVars
<1>3. \/ /\ data' = data \cup {SectorOf(h)} /\ main' \in {"loop", "next"}
         /\ twice' = IF SectorOf(h) \in data THEN twice \cup {SectorOf(h)} ELSE twice
      \/ main' = "replace" /\ UNCHANGED <<data, twice>>
  BY DEF Receives
<1>4. SectorOf(h) \in Sectors
  BY <1>1, SectorFacts
<1>. HIDE DEF h
<1>5. TypeOK'
  BY <1>1, <1>2, <1>3, <1>4 DEF Inv, TypeOK
<1>6. Places'
  BY <1>1, <1>2, <1>3 DEF Inv, Places, TypeOK
<1>7. Counted'
  <2>1. \A g \in Hosts : request'[g] = "dropped" => request[g] = "dropped"
    BY <1>1 DEF Inv, TypeOK
  <2>. QED  BY <1>1, <1>2, <2>1 DEF Inv, Counted
<1>8. Bounded'
  <2>1. IsFiniteSet(data) /\ Cardinality(data) \in Nat
    BY FS_CardinalityType DEF Inv, Bounded
  <2>2. IsFiniteSet(data') /\ Cardinality(data') \in Nat
    BY <1>3, <2>1, FS_AddElement, FS_CardinalityType
  <2>3. /\ ~Beginning /\ ~Beginning' /\ Excess' = Excess /\ Overdriving' = Overdriving
        /\ Replacing = 0 /\ Excess \in Int /\ Overdriving \in Nat
        /\ numInflight \in Nat /\ MaxOverdrive \in Nat /\ MinShards \in Nat
    BY <1>2, <1>3, SlabDownloadAssumption
       DEF Inv, TypeOK, Beginning, Excess, Overdriving, Replacing
  <2>4. numInflight + Overdriving <= MaxOverdrive + MinShards - Cardinality(data) + Excess
    BY <2>3 DEF Inv, Bounded
  <2>5. CASE main' \in {"loop", "next"} /\ data' = data \cup {SectorOf(h)}
    <3>1. Cardinality(data') <= Cardinality(data) + 1
      <4>1. CASE SectorOf(h) \in data
        <5>1. data' = data
          BY <2>5, <4>1
        <5>. QED  BY <2>1, <5>1
      <4>2. CASE SectorOf(h) \notin data
        <5>1. Cardinality(data') = Cardinality(data) + 1
          BY <2>1, <2>5, <4>2, FS_AddElement
        <5>. QED  BY <2>1, <5>1
      <4>. QED  BY <4>1, <4>2
    <3>2. Replacing' = 0
      BY <2>5 DEF Replacing
    <3>3. numInflight' + 0 + Overdriving <= MaxOverdrive + MinShards - Cardinality(data') + Excess
      BY <1>1, <2>1, <2>2, <2>3, <2>4, <3>1
    <3>. QED  BY <2>2, <2>3, <3>2, <3>3 DEF Bounded
  <2>6. CASE main' = "replace" /\ data' = data
    <3>1. Replacing' = 1
      BY <2>6 DEF Replacing
    <3>2. numInflight' + 1 + Overdriving <= MaxOverdrive + MinShards - Cardinality(data) + Excess
      BY <1>1, <2>1, <2>3, <2>4
    <3>. QED  BY <2>2, <2>3, <2>6, <3>1, <3>2 DEF Bounded
  <2>. QED  BY <1>3, <2>5, <2>6
<1>9. Scanned'
  BY <1>2, <1>3 DEF Scanned, Locked
<1>. QED  BY <1>5, <1>6, <1>7, <1>8, <1>9 DEF Inv

LEMMA ReplaceKeeps ==
  ASSUME Inv, ReplacementTakes \/ ReplacementLaunches
  PROVE  Inv'
<1>. USE SlabDownloadAssumption DEF Inv
<1>0. Cardinality(data) \in Nat
  BY FS_CardinalityType DEF Bounded
<1>1. CASE ReplacementTakes
  <2>1. /\ main = "pick" /\ over # "pick"
        /\ UNCHANGED <<downloaders, data, responses, signal, launched, result, over, overTaken, early,
                       stop, refreshes, twice>>
    BY <1>1 DEF ReplacementTakes, responseVars, overVars, Scanned
  <2>2. CASE \E h \in Hosts : Take(h) /\ taken' = h /\ main' = "relaunch"
    <3>1. PICK h \in Hosts : Take(h) /\ taken' = h /\ main' = "relaunch"
      BY <2>2
    <3>2. TypeOK' /\ Places' /\ Counted'
      BY <2>1, <3>1, TakeKeeps
    <3>3. UNCHANGED numInflight
      BY <3>1 DEF Take
    <3>4. Bounded' /\ Scanned'
      BY <2>1, <3>1, <3>3 DEF Bounded, Beginning, Replacing, Overdriving, Excess, Scanned, Locked
    <3>. QED  BY <3>2, <3>4
  <2>3. CASE NoMoreHosts /\ main' = "next" /\ UNCHANGED taken
    <3>1. UNCHANGED <<hks, selected, order, request, numInflight, taken>>
      BY <2>3 DEF NoMoreHosts, choiceVars, launchVars
    <3>2. TypeOK' /\ Places' /\ Scanned'
      BY <2>1, <2>3, <3>1 DEF TypeOK, Places, Scanned, Locked
    <3>3. Counted'
      BY <2>1, <2>3, <3>1 DEF Counted, Waiting, Under
    <3>4. Bounded'
      <4>1. Overdriving' = Overdriving /\ Excess' = Excess /\ Overdriving \in Nat /\ Excess \in Int
            /\ Replacing = 1 /\ Replacing' = 0 /\ ~Beginning /\ ~Beginning' /\ numInflight \in Nat
        BY <2>1, <2>3 DEF Overdriving, Excess, Replacing, Beginning, TypeOK
      <4>2. numInflight + 1 + Overdriving
              <= MaxOverdrive + MinShards - Cardinality(data) + Excess
        BY <4>1 DEF Bounded
      <4>3. numInflight + 0 + Overdriving
              <= MaxOverdrive + MinShards - Cardinality(data) + Excess
        BY <1>0, <4>1, <4>2
      <4>. QED  BY <2>1, <3>1, <4>1, <4>3 DEF Bounded
    <3>. QED  BY <3>2, <3>3, <3>4
  <2>. QED  BY <1>1, <2>2, <2>3 DEF ReplacementTakes
<1>2. CASE ReplacementLaunches
  <2>1. /\ main = "relaunch" /\ taken \in Hosts /\ request[taken] = "taken"
        /\ Launch(taken) /\ taken' = None /\ main' = "next"
        /\ UNCHANGED <<downloaders, data, responses, signal, launched, result, over, overTaken, early,
                       stop, refreshes, twice>>
    BY <1>2 DEF ReplacementLaunches, Places, responseVars, overVars
  <2>2. launched' \in 0..MinShards /\ early' \in Nat
    BY <2>1 DEF TypeOK
  <2>3. TypeOK' /\ Places' /\ Counted' /\ Scanned'
    BY <2>1, <2>2, LaunchKeeps
  <2>4. numInflight' = numInflight + 1
    BY <2>1, LaunchFacts
  <2>5. Bounded'
    <3>1. Overdriving' = Overdriving /\ Excess' = Excess /\ Overdriving \in Nat /\ Excess \in Int
          /\ Replacing = 1 /\ Replacing' = 0 /\ ~Beginning /\ ~Beginning' /\ numInflight \in Nat
      BY <2>1 DEF Overdriving, Excess, Replacing, Beginning, TypeOK
    <3>2. numInflight + 1 + Overdriving <= MaxOverdrive + MinShards - Cardinality(data) + Excess
      BY <3>1 DEF Bounded
    <3>3. numInflight' + 0 + Overdriving <= MaxOverdrive + MinShards - Cardinality(data) + Excess
      BY <1>0, <2>4, <3>1, <3>2
    <3>. QED  BY <2>1, <3>1, <3>3 DEF Bounded
  <2>. QED  BY <2>3, <2>5
<1>. QED  BY <1>1, <1>2

LEMMA OverdriveKeeps ==
  ASSUME Inv, OverdriveFires \/ OverdriveTakes \/ OverdriveLaunches
  PROVE  Inv'
<1>. USE SlabDownloadAssumption DEF Inv
<1>0. /\ Cardinality(data) \in Nat /\ Excess \in Int /\ Excess >= 1 /\ Replacing \in 0..1
      /\ numInflight \in Nat /\ early \in Nat
  BY FS_CardinalityType DEF Bounded, Excess, Replacing, TypeOK
<1>1. CASE OverdriveFires
  <2>1. /\ over = "timer" /\ over' = "take"
        /\ numInflight < MaxOverdrive + MinShards - Cardinality(data)
        /\ UNCHANGED <<downloaders, hks, selected, order, data, request, numInflight, responses,
                       signal, main, launched, taken, result, overTaken, early, stop, refreshes,
                       twice>>
    BY <1>1 DEF OverdriveFires, choiceVars, launchVars, responseVars, mainVars
  <2>2. TypeOK' /\ Places' /\ Counted'
    BY <2>1 DEF TypeOK, Places, Counted, Waiting, Under
  <2>3. Bounded'
    <3>1. Overdriving' = 1 /\ Replacing' = Replacing /\ Excess' = Excess /\ Beginning' = Beginning
      BY <2>1 DEF Overdriving, Replacing, Excess, Beginning
    <3>2. numInflight + Replacing + 1 <= MaxOverdrive + MinShards - Cardinality(data) + Excess
      BY <1>0, <2>1
    <3>. QED  BY <2>1, <3>1, <3>2 DEF Bounded
  <2>4. Scanned'
    BY <2>1 DEF Scanned, Locked, Covered, Pending
  <2>. QED  BY <2>2, <2>3, <2>4
<1>2. CASE OverdriveTakes
  <2>1. /\ over = "pick" /\ main \notin {"firstPick", "pick"}
        /\ UNCHANGED <<downloaders, data, responses, signal, main, launched, taken, result, early,
                       stop, refreshes, twice>>
    BY <1>2 DEF OverdriveTakes, responseVars, mainVars, Scanned
  <2>2. CASE \E h \in Hosts : Take(h) /\ overTaken' = h /\ over' = "launch"
    <3>1. PICK h \in Hosts : Take(h) /\ overTaken' = h /\ over' = "launch"
      BY <2>2
    <3>2. TypeOK' /\ Places' /\ (main # "over" => Counted')
      BY <2>1, <3>1, TakeKeeps
    <3>3. Counted'
      BY <2>1, <3>2 DEF Counted
    <3>4. UNCHANGED numInflight
      BY <3>1 DEF Take
    <3>5. Bounded' /\ Scanned'
      BY <2>1, <3>1, <3>4 DEF Bounded, Beginning, Replacing, Overdriving, Excess, Scanned, Locked
    <3>. QED  BY <3>2, <3>3, <3>5
  <2>3. CASE NoMoreHosts /\ over' = "timer" /\ UNCHANGED overTaken
    <3>1. UNCHANGED <<hks, selected, order, request, numInflight, overTaken>>
      BY <2>3 DEF NoMoreHosts, choiceVars, launchVars
    <3>2. TypeOK' /\ Places' /\ Scanned'
      BY <2>1, <2>3, <3>1 DEF TypeOK, Places, Scanned, Locked
    <3>3. Counted'
      BY <2>1, <2>3, <3>1 DEF Counted, Waiting, Under
    <3>4. Bounded'
      <4>1. Overdriving = 1 /\ Overdriving' = 0 /\ Replacing' = Replacing /\ Excess' = Excess
            /\ Beginning' = Beginning
        BY <2>1, <2>3 DEF Overdriving, Replacing, Excess, Beginning
      <4>2. ~Beginning => numInflight + Replacing + 0
                            <= MaxOverdrive + MinShards - Cardinality(data) + Excess
        <5>1. ~Beginning => numInflight + Replacing + 1
                              <= MaxOverdrive + MinShards - Cardinality(data) + Excess
          BY <4>1 DEF Bounded
        <5>. QED  BY <1>0, <5>1
      <4>. QED  BY <2>1, <3>1, <4>1, <4>2 DEF Bounded
    <3>. QED  BY <3>2, <3>3, <3>4
  <2>. QED  BY <1>2, <2>2, <2>3 DEF OverdriveTakes
<1>3. CASE OverdriveLaunches
  <2>1. /\ over = "launch" /\ overTaken \in Hosts /\ request[overTaken] = "taken"
        /\ Launch(overTaken) /\ overTaken' = None /\ over' = "timer"
        /\ early' = IF Beginning THEN early + 1 ELSE early
        /\ UNCHANGED <<downloaders, data, responses, signal, main, launched, taken, result, stop,
                       refreshes, twice>>
    BY <1>3 DEF OverdriveLaunches, Places, responseVars, mainVars
  <2>2. launched' \in 0..MinShards /\ early' \in Nat
    BY <1>0, <2>1 DEF TypeOK
  <2>3. TypeOK' /\ Places' /\ Counted' /\ Scanned'
    BY <2>1, <2>2, LaunchKeeps
  <2>4. numInflight' = numInflight + 1 /\ Beginning' = Beginning
    BY <2>1, LaunchFacts DEF Beginning
  <2>5. Bounded'
    <3>1. CASE Beginning
      BY <1>0, <2>1, <2>4, <3>1 DEF Bounded, TypeOK
    <3>2. CASE ~Beginning
      <4>1. Overdriving = 1 /\ Overdriving' = 0 /\ Replacing' = Replacing /\ Excess' = Excess
        BY <2>1, <3>2 DEF Overdriving, Replacing, Excess
      <4>2. numInflight + Replacing + 1 <= MaxOverdrive + MinShards - Cardinality(data) + Excess
        BY <3>2, <4>1 DEF Bounded
      <4>3. numInflight' + Replacing + 0 <= MaxOverdrive + MinShards - Cardinality(data) + Excess
        BY <1>0, <2>4, <4>2
      <4>. QED  BY <2>1, <2>4, <3>2, <4>1, <4>3 DEF Bounded
    <3>. QED  BY <3>1, <3>2
  <2>. QED  BY <2>3, <2>5
<1>. QED  BY <1>1, <1>2, <1>3

\* An answer goes to the end of the responses.
LEMMA AnswerKeeps ==
  ASSUME Inv, NEW h \in Hosts, NEW found \in BOOLEAN, request[h] \in {"executing", "failing"},
         Answer(h, found)
  PROVE  Inv'
<1>. USE DEF Inv
<1>1. /\ request' = [request EXCEPT ![h] = "answered"]
      /\ UNCHANGED <<downloaders, hks, selected, order, data, numInflight, main, launched, taken,
                     result, over, overTaken, early, stop, refreshes, twice>>
  BY DEF Answer, choiceVars, mainVars, overVars
<1>2. Under' = Under /\ \A g \in Hosts : request'[g] = "dropped" => request[g] = "dropped"
  BY <1>1 DEF Under, TypeOK
<1>3. Places'
  BY <1>1 DEF Places, TypeOK
<1>4. Bounded' /\ Scanned'
  BY <1>1 DEF Bounded, Replacing, Overdriving, Excess, Beginning, Scanned, Locked, Covered, Pending
<1>5. CASE main = "over"
  <2>1. UNCHANGED <<responses, signal>>
    BY <1>5 DEF Answer, responseVars
  <2>2. TypeOK'
    BY <1>1, <2>1 DEF TypeOK
  <2>. QED  BY <1>1, <1>3, <1>4, <1>5, <2>2 DEF Counted
<1>6. CASE main # "over"
  <2>. DEFINE resp == [host |-> h, ok |-> found]
  <2>1. responses' = Append(responses, resp) /\ signal' = TRUE
    BY <1>6 DEF Answer
  <2>2. /\ resp \in [host : Hosts, ok : BOOLEAN] /\ resp.host = h
        /\ responses \in Seq([host : Hosts, ok : BOOLEAN]) /\ Len(responses) \in Nat
    BY DEF TypeOK
  <2>. HIDE DEF resp
  <2>3. /\ responses' \in Seq([host : Hosts, ok : BOOLEAN])
        /\ Len(responses') = Len(responses) + 1
        /\ \A i \in 1..Len(responses) : responses'[i] = responses[i]
        /\ responses'[Len(responses) + 1] = resp
    BY <2>1, <2>2
  <2>4. 1..Len(responses') = 1..Len(responses) \cup {Len(responses) + 1}
    BY <2>2, <2>3
  <2>5. TypeOK'
    BY <1>1, <2>1, <2>3 DEF TypeOK
  <2>6. Waiting /\ \A i \in 1..Len(responses) : responses[i].host # h
    BY <1>6 DEF Counted, Waiting
  <2>7. \A i \in 1..Len(responses) : request'[responses[i].host] = "answered"
    BY <1>1, <2>6 DEF Waiting, TypeOK
  <2>8. request'[h] = "answered"
    BY <1>1 DEF TypeOK
  <2>9. \A i \in 1..Len(responses') : request'[responses'[i].host] = "answered"
    BY <2>2, <2>3, <2>4, <2>7, <2>8
  <2>10. \A i, j \in 1..Len(responses') : responses'[i].host = responses'[j].host => i = j
    BY <2>2, <2>3, <2>4, <2>6 DEF Waiting
  <2>11. Counted'
    BY <1>1, <1>2, <1>6, <2>9, <2>10 DEF Counted, Waiting
  <2>. QED  BY <1>3, <1>4, <2>5, <2>11
<1>. QED  BY <1>5, <1>6

\* A queued request is executed, fails or is dropped, the last only on a context that is
\* done.
LEMMA QueuedKeeps ==
  ASSUME Inv, NEW h \in Hosts, request[h] = "queued",
         NEW state \in {"executing", "failing", "dropped"}, state = "dropped" => CtxDone,
         request' = [request EXCEPT ![h] = state],
         downloaders' \subseteq Hosts, refreshes' \in 0..MaxRefresh,
         UNCHANGED <<hks, selected, order, data, numInflight, responses, signal, main, launched,
                     taken, result, over, overTaken, early, stop, twice>>
  PROVE  Inv'
<1>. USE DEF Inv
<1>1. TypeOK'
  BY DEF TypeOK
<1>2. Places'
  BY DEF Places, TypeOK
<1>3. Under' = Under
  BY DEF Under, TypeOK
<1>4. Waiting => Waiting'
  BY WaitingKept
<1>5. main # "over" => \A g \in Hosts : request'[g] = "dropped" => stop = "context"
  BY DEF Counted, CtxDone, TypeOK
<1>6. Counted'
  BY <1>3, <1>4, <1>5 DEF Counted
<1>7. Bounded' /\ Scanned'
  BY DEF Bounded, Replacing, Overdriving, Excess, Beginning, Scanned, Locked, Covered, Pending
<1>. QED  BY <1>1, <1>2, <1>6, <1>7

LEMMA DownloaderKeeps ==
  ASSUME Inv, NEW h \in Hosts, Downloader(h) \/ StopsDownloader(h) \/ AddsDownloader(h)
  PROVE  Inv'
<1>1. downloaders \subseteq Hosts /\ refreshes \in 0..MaxRefresh /\ MaxRefresh \in Nat
  BY SlabDownloadAssumption DEF Inv, TypeOK
<1>2. CASE Pops(h)
  <2>1. /\ request[h] = "queued"
        /\ UNCHANGED <<downloaders, hks, selected, order, data, numInflight, responses, signal, main,
                       launched, taken, result, over, overTaken, early, stop, refreshes, twice>>
        /\ \E state \in {"executing", "failing", "dropped"} :
             (state = "dropped" => CtxDone) /\ request' = [request EXCEPT ![h] = state]
    BY <1>2 DEF Pops, choiceVars, responseVars, mainVars, overVars
  <2>. QED  BY <1>1, <2>1, QueuedKeeps
<1>3. CASE Executes(h)
  BY <1>3, AnswerKeeps DEF Executes
<1>4. CASE FailsLater(h)
  BY <1>4, AnswerKeeps DEF FailsLater
<1>5. ASSUME UNCHANGED request, downloaders' \subseteq Hosts, refreshes' \in 0..MaxRefresh,
             UNCHANGED <<hks, selected, order, data, numInflight, responses, signal, main, launched,
                         taken, result, over, overTaken, early, stop, twice>>
      PROVE  Inv'
  <2>1. TypeOK'
    BY <1>5 DEF Inv, TypeOK
  <2>2. Places' /\ Counted'
    BY <1>5 DEF Inv, Places, Counted, Waiting, Under
  <2>3. Bounded' /\ Scanned'
    BY <1>5 DEF Inv, Bounded, Replacing, Overdriving, Excess, Beginning, Scanned, Locked, Covered,
                Pending
  <2>. QED  BY <2>1, <2>2, <2>3 DEF Inv
<1>6. CASE StopsDownloader(h)
  <2>1. /\ downloaders' = downloaders \ {h} /\ refreshes < MaxRefresh /\ refreshes' = refreshes + 1
        /\ UNCHANGED <<hks, selected, order, data, numInflight, responses, signal, main, launched,
                       taken, result, over, overTaken, early, stop, twice>>
        /\ request' = [request EXCEPT ![h] = IF @ # "queued" THEN @
                                             ELSE IF CtxDone THEN "dropped" ELSE "failing"]
    BY <1>6 DEF StopsDownloader, choiceVars, responseVars, mainVars, overVars
  <2>2. downloaders' \subseteq Hosts /\ refreshes' \in 0..MaxRefresh
    BY <1>1, <2>1
  <2>3. CASE request[h] = "queued"
    <3>1. \E state \in {"executing", "failing", "dropped"} :
             (state = "dropped" => CtxDone) /\ request' = [request EXCEPT ![h] = state]
      BY <2>1, <2>3
    <3>. QED  BY <2>1, <2>2, <2>3, <3>1, QueuedKeeps
  <2>4. CASE request[h] # "queued"
    <3>1. request' = request
      BY <2>1, <2>4 DEF Inv, TypeOK
    <3>. QED  BY <1>5, <2>1, <2>2, <3>1
  <2>. QED  BY <2>3, <2>4
<1>7. CASE AddsDownloader(h)
  <2>1. /\ downloaders' = downloaders \cup {h} /\ refreshes < MaxRefresh /\ refreshes' = refreshes + 1
        /\ UNCHANGED <<hks, selected, order, data, request, numInflight, responses, signal, main,
                       launched, taken, result, over, overTaken, early, stop, twice>>
    BY <1>7 DEF AddsDownloader, choiceVars, launchVars, responseVars, mainVars, overVars
  <2>. QED  BY <1>1, <1>5, <2>1
<1>. QED  BY <1>2, <1>3, <1>4, <1>6, <1>7 DEF Downloader

LEMMA StopKeeps ==
  ASSUME Inv, Stops PROVE Inv'
<1>1. /\ stop = "none" /\ stop' \in {"context", "shutdown"}
      /\ UNCHANGED <<downloaders, hks, selected, order, data, request, numInflight, responses,
                     signal, main, launched, taken, result, over, overTaken, early, refreshes,
                     twice>>
  BY DEF Stops, choiceVars, launchVars, responseVars, mainVars, overVars
<1>2. TypeOK' /\ Places'
  BY <1>1 DEF Inv, TypeOK, Places
<1>3. Counted'
  BY <1>1 DEF Inv, Counted, Waiting, Under
<1>4. Bounded' /\ Scanned'
  BY <1>1 DEF Inv, Bounded, Replacing, Overdriving, Excess, Beginning, Scanned, Locked, Covered,
              Pending
<1>. QED  BY <1>2, <1>3, <1>4 DEF Inv

THEOREM Invariance == Spec => []Inv
<1>1. Inv /\ [Next]_vars => Inv'
  <2>. SUFFICES ASSUME Inv, [Next]_vars PROVE Inv'
    OBVIOUS
  <2>1. CASE UNCHANGED vars
    BY <2>1 DEF Inv, TypeOK, Places, Counted, Waiting, Under, Bounded, Replacing, Overdriving, Excess,
                Beginning, Scanned, Locked, Covered, Pending, vars, choiceVars, launchVars,
                responseVars, mainVars, overVars
  <2>2. CASE Download
    BY <2>2, SortKeeps, ForgetKeeps, FirstKeeps, LoopKeeps, ReceiveKeeps, ReplaceKeeps
       DEF Download, Locked
  <2>3. CASE Overdrive \/ OverdriveFires
    BY <2>3, SortKeeps, ForgetKeeps, OverdriveKeeps DEF Overdrive, Locked
  <2>. QED  BY <2>1, <2>2, <2>3, DownloaderKeeps, StopKeeps DEF Next
<1>. QED  BY <1>1, InitHolds, PTL DEF Spec

\* The variables of a slab's download keep their types: the counter of requests in
\* flight never falls below zero.
THEOREM TypeCorrect == Spec => []TypeOK
<1>1. Inv => TypeOK
  BY DEF Inv
<1>. QED  BY <1>1, Invariance, PTL

\* The counter is exact as long as the download runs: it counts the requests that will
\* be answered and, once the caller's context is done, those that were dropped for it.
THEOREM InflightIsExactHolds == Spec => []InflightIsExact
<1>1. Inv => InflightIsExact
  <2>1. InFlight \cup Dropped = Under
    BY DEF InFlight, Dropped, Under
  <2>. QED  BY <2>1 DEF Inv, Counted, Dropped, InflightIsExact
<1>. QED  BY <1>1, Invariance, PTL

\* Overdrive is over its limit by one request, or by as many as the limit was not looked
\* at for.
THEOREM OverdriveBoundedHolds == Spec => []OverdriveBounded
<1>1. Inv => OverdriveBounded
  <2>. SUFFICES ASSUME Inv PROVE OverdriveBounded
    OBVIOUS
  <2>1. /\ Cardinality(data) \in Nat /\ MaxOverdrive \in Nat /\ MinShards \in Nat
        /\ numInflight \in Nat /\ early \in Nat /\ launched \in Nat
        /\ Replacing \in Nat /\ Overdriving \in Nat
    BY FS_CardinalityType, SlabDownloadAssumption
       DEF Inv, Bounded, TypeOK, Replacing, Overdriving
  <2>2. Excess = IF early + 1 - MaxOverdrive > 1 THEN early + 1 - MaxOverdrive ELSE 1
    BY DEF Excess
  <2>3. CASE Beginning
    <3>1. Cardinality(data) = 0 /\ launched < MinShards /\ numInflight <= launched + early
      BY <2>3, FS_EmptySet DEF Inv, Bounded
    <3>. QED  BY <2>1, <2>2, <3>1 DEF OverdriveBounded
  <2>4. CASE ~Beginning
    <3>1. numInflight + Replacing + Overdriving
            <= MaxOverdrive + MinShards - Cardinality(data) + Excess
      BY <2>4 DEF Inv, Bounded
    <3>2. numInflight <= MaxOverdrive + MinShards - Cardinality(data) + Excess
      <4>. HIDE DEF Excess
      <4>1. Excess \in Int
        BY <2>1, <2>2
      <4>. QED  BY <2>1, <3>1, <4>1
    <3>. QED  BY <3>2 DEF OverdriveBounded, Excess
  <2>. QED  BY <2>3, <2>4
<1>. QED  BY <1>1, Invariance, PTL

-----------------------------------------------------------------------------
\* While the download runs it has as many requests in flight, or a replacement to
\* take, as it has sectors to wait for, unless nobody is left to choose.
Exhausted == \A s \in Sectors \ data : hks[s] = {}

Running == ~Beginning /\ main # "over"

OneUnheard == \A g, h \in Unheard : g = h

Supplied ==
  /\ Running => Exhausted \/ twice # {} \/ numInflight + Replacing + Cardinality(data) >= MinShards
  /\ result = "failed" => main = "over" /\ (twice # {} \/ (Exhausted /\ OneUnheard))

\* Nobody is left when every pending sector has been looked at.
LEMMA NobodyLeft ==
  ASSUME Inv, Locked, NoMoreHosts, UNCHANGED data PROVE Exhausted'
<1>1. Covered /\ order = <<>> /\ hks' = hks
  BY DEF Inv, Scanned, NoMoreHosts, choiceVars
<1>2. Pending = {}
  BY <1>1 DEF Covered
<1>. QED  BY <1>1, <1>2 DEF Pending, Exhausted, Inv, TypeOK

\* When nobody is left to choose nobody is chosen.
LEMMA NoneTaken ==
  ASSUME Inv, Locked, Exhausted, NEW h \in Hosts, Take(h) PROVE FALSE
<1>1. PICK i \in 1..Len(order) : hks[order[i]] # {}
  BY TakeFacts DEF Inv
<1>2. order[i] \in Sectors \ data
  BY <1>1 DEF Inv, Scanned, Covered
<1>. QED  BY <1>1, <1>2 DEF Exhausted

\* When the loop ends, only the overdrive has a request that was not answered.
LEMMA LoopEnds ==
  ASSUME Inv, main = "loop", numInflight = 0 PROVE OneUnheard
<1>1. IsFiniteSet(Under) /\ Cardinality(Under) = 0
  BY DEF Inv, Counted
<1>2. Under = {}
  BY <1>1, FS_EmptySet
<1>3. \A h \in Unheard : request[h] = "taken"
  BY <1>2 DEF Under, Unheard, Inv, TypeOK
<1>4. \A h \in Unheard : h = overTaken
  BY <1>3 DEF Unheard, Inv, Places
<1>. QED  BY <1>4 DEF OneUnheard

LEMMA AsManyLeft ==
  \A a, b, c, d, n \in Nat : (a = b /\ c = d) \/ a + c >= b + d => a + c + n >= b + d + n
  OBVIOUS

LEMMA AtLeast ==
  \A a, b, c, d, n, k \in Nat : a + c + n >= b + d + n /\ b + d + n >= k => a + c + n >= k
  OBVIOUS

\* A failed download stays as it was: no host is chosen any more.
LEMMA FailedStays ==
  ASSUME Inv, Supplied, [Next]_vars, result = "failed"
  PROVE  result' = "failed" /\ main' = "over" /\ (twice' # {} \/ (Exhausted' /\ OneUnheard'))
<1>1. main = "over" /\ (twice # {} \/ (Exhausted /\ OneUnheard))
  BY DEF Supplied
<1>2. ~Download \/ (over = "pick" /\ Forget)
  BY <1>1 DEF Download, FirstSorts, FirstTakes, FirstLaunches, Loops, Selects, Interrupted,
              NoneLeft, Receives, Replaces, ReplacementTakes, ReplacementLaunches
<1>3. UNCHANGED <<main, result, data, twice>>
  BY <1>1, <1>2 DEF Next, Overdrive, OverdriveSorts, OverdriveTakes, OverdriveLaunches, Forget,
       OverdriveFires, Downloader, Pops, Executes, FailsLater, Answer, StopsDownloader,
       AddsDownloader, Stops, mainVars, vars
<1>4. SUFFICES ASSUME Exhausted, OneUnheard PROVE Exhausted' /\ OneUnheard'
  BY <1>1, <1>3
<1>5. ASSUME \A s \in Sectors : hks'[s] \subseteq hks[s], Unheard' \subseteq Unheard
      PROVE  Exhausted' /\ OneUnheard'
  BY <1>3, <1>4, <1>5 DEF Exhausted, OneUnheard
<1>6. ASSUME UNCHANGED hks, Unheard' \subseteq Unheard PROVE Exhausted' /\ OneUnheard'
  BY <1>5, <1>6
<1>7. CASE Overdrive \/ OverdriveFires
  <2>1. CASE OverdriveSorts
    BY <1>6, <2>1 DEF OverdriveSorts, Sort, launchVars, Unheard
  <2>2. CASE OverdriveTakes
    <3>1. \A h \in Hosts : ~Take(h)
      BY <1>4, <2>2, NoneTaken DEF OverdriveTakes, Locked
    <3>. QED  BY <1>6, <2>2, <3>1 DEF OverdriveTakes, NoMoreHosts, choiceVars, launchVars, Unheard
  <2>3. CASE OverdriveLaunches
    <3>1. overTaken \in Hosts /\ request[overTaken] = "taken" /\ Launch(overTaken)
      BY <2>3 DEF OverdriveLaunches, Inv, Places
    <3>2. UNCHANGED hks /\ \E state : request' = [request EXCEPT ![overTaken] = state]
      BY <3>1 DEF Launch, choiceVars
    <3>3. Unheard' \subseteq Unheard
      BY <3>1, <3>2 DEF Unheard, Inv, TypeOK
    <3>. QED  BY <1>6, <3>2, <3>3
  <2>4. CASE over = "pick" /\ Forget
    <3>1. UNCHANGED request /\ \A s \in Sectors : hks'[s] \subseteq hks[s]
      BY <2>4, ForgetFacts DEF Locked
    <3>. QED  BY <1>5, <3>1 DEF Unheard
  <2>5. CASE OverdriveFires
    BY <1>6, <2>5 DEF OverdriveFires, choiceVars, launchVars, Unheard
  <2>. QED  BY <1>7, <2>1, <2>2, <2>3, <2>4, <2>5 DEF Overdrive
<1>8. CASE \E h \in Hosts : Downloader(h) \/ StopsDownloader(h) \/ AddsDownloader(h)
  <2>1. PICK h \in Hosts : Downloader(h) \/ StopsDownloader(h) \/ AddsDownloader(h)
    BY <1>8
  <2>2. /\ UNCHANGED hks
        /\ \/ request' = request
           \/ /\ request[h] \in {"queued", "executing", "failing"}
              /\ \E state : request' = [request EXCEPT ![h] = state]
           \/ request' = [request EXCEPT ![h] = @]
    BY <2>1 DEF Downloader, Pops, Executes, FailsLater, Answer, StopsDownloader, AddsDownloader,
                choiceVars, launchVars
  <2>3. Unheard' \subseteq Unheard
    BY <2>2 DEF Unheard, Inv, TypeOK
  <2>. QED  BY <1>6, <2>2, <2>3
<1>9. CASE Stops \/ UNCHANGED vars
  BY <1>6, <1>9 DEF Stops, vars, choiceVars, launchVars, Unheard
<1>. QED  BY <1>2, <1>7, <1>8, <1>9 DEF Next, Overdrive

LEMMA SuppliedKept ==
  ASSUME Inv, Supplied, [Next]_vars, Inv' PROVE Supplied'
<1>1. Cardinality(data) \in Nat /\ numInflight \in Nat /\ MinShards \in Nat \ {0} /\ IsFiniteSet(data)
  BY FS_CardinalityType, SlabDownloadAssumption DEF Inv, TypeOK, Bounded
<1>. SUFFICES ASSUME result # "failed" PROVE Supplied'
  BY FailedStays DEF Supplied, Running
<1>2. ASSUME UNCHANGED <<data, twice, result>>, \A s \in Sectors : hks'[s] \subseteq hks[s],
             \/ UNCHANGED <<main, numInflight>>
             \/ ~Running'
             \/ Running /\ numInflight' + Replacing' >= numInflight + Replacing
      PROVE  Supplied'
  <2>1. Replacing \in Nat /\ Replacing' \in Nat /\ numInflight' \in Nat
    BY DEF Replacing, Inv, TypeOK
  <2>2. UNCHANGED <<main, numInflight>> => Replacing' = Replacing /\ Running' = Running
    BY DEF Replacing, Running, Beginning
  <2>3. (Exhausted => Exhausted') /\ (twice # {} => twice' # {}) /\ result' # "failed"
        /\ Cardinality(data') = Cardinality(data)
    BY <1>2 DEF Exhausted
  <2>4. CASE ~Running'
    BY <2>3, <2>4 DEF Supplied
  <2>5. CASE Running'
    <3>1. /\ Running
          /\ \/ numInflight' = numInflight /\ Replacing' = Replacing
             \/ numInflight' + Replacing' >= numInflight + Replacing
      BY <1>2, <2>2, <2>5
    <3>2. Exhausted \/ twice # {} \/ numInflight + Replacing + Cardinality(data) >= MinShards
      BY <3>1 DEF Supplied
    <3>3. Exhausted' \/ twice' # {} \/ numInflight' + Replacing' + Cardinality(data') >= MinShards
      <4>1. numInflight' + Replacing' + Cardinality(data) >= numInflight + Replacing + Cardinality(data)
        BY <1>1, <2>1, <3>1, AsManyLeft
      <4>2. numInflight + Replacing + Cardinality(data) >= MinShards =>
              numInflight' + Replacing' + Cardinality(data) >= MinShards
        BY ONLY <1>1, <2>1, <4>1, AtLeast
      <4>. QED  BY <2>3, <3>2, <4>2
    <3>. QED  BY <2>3, <3>3 DEF Supplied
  <2>. QED  BY <2>4, <2>5
<1>3. CASE FirstSorts \/ FirstTakes
  <2>1. main' \in {"firstPick", "launch", "over"} /\ result' # "failed"
    BY <1>3 DEF FirstSorts, FirstTakes, Return
  <2>. QED  BY <2>1 DEF Supplied, Running, Beginning
<1>4. CASE FirstLaunches
  <2>1. /\ main = "launch" /\ numInflight' = numInflight + 1 /\ launched' = launched + 1
        /\ main' = IF launched' = MinShards THEN "loop" ELSE "first"
        /\ UNCHANGED <<hks, data, twice, result>>
    BY <1>4 DEF FirstLaunches, Launch, choiceVars
  <2>2. numInflight >= launched /\ launched \in Nat
    BY <2>1 DEF Inv, Bounded, Beginning, TypeOK
  <2>3. main' = "loop" => numInflight' + Replacing' + Cardinality(data') >= MinShards
    BY <1>1, <2>1, <2>2 DEF Replacing
  <2>. QED  BY <2>1, <2>3 DEF Supplied, Running, Beginning
<1>5. CASE Loops
  <2>1. /\ main = "loop" /\ UNCHANGED <<hks, data, twice, numInflight, request>>
        /\ \/ main' = "select" /\ result' = result
           \/ main' = "over" /\ result' = "ok"
           \/ main' = "over" /\ result' = "failed" /\ numInflight = 0 /\ Cardinality(data) < MinShards
    BY <1>1, <1>5 DEF Loops, Return, Complete, choiceVars, launchVars
  <2>2. CASE main' = "select" /\ result' = result
    BY <1>1, <1>2, <2>1, <2>2 DEF Replacing, Running, Beginning
  <2>3. CASE main' = "over" /\ result' = "ok"
    BY <2>3 DEF Supplied, Running
  <2>4. CASE main' = "over" /\ result' = "failed" /\ numInflight = 0 /\ Cardinality(data) < MinShards
    <3>1. Running /\ Replacing = 0
      BY <2>1 DEF Running, Beginning, Replacing
    <3>2. Exhausted \/ twice # {}
      BY <1>1, <2>4, <3>1 DEF Supplied
    <3>3. OneUnheard
      BY <2>1, <2>4, LoopEnds
    <3>. QED  BY <2>1, <2>4, <3>2, <3>3 DEF Supplied, Running, Exhausted, OneUnheard, Unheard
  <2>. QED  BY <2>1, <2>2, <2>3, <2>4
<1>6. CASE Selects \/ NoneLeft
  BY <1>1, <1>2, <1>6 DEF Selects, NoneLeft, Replacing, Running, Beginning, choiceVars, launchVars
<1>7. CASE Interrupted
  BY <1>7 DEF Interrupted, Return, Supplied, Running
<1>8. CASE Receives
  <2>. DEFINE s == SectorOf(Head(responses).host)
  <2>1. /\ main = "next" /\ UNCHANGED <<hks, result>> /\ numInflight' = numInflight - 1
        /\ \/ /\ data' = data \cup {s} /\ main' \in {"loop", "next"}
              /\ twice' = IF s \in data THEN twice \cup {s} ELSE twice
           \/ main' = "replace" /\ UNCHANGED <<data, twice>>
    BY <1>8 DEF Receives, choiceVars
  <2>. HIDE DEF s
  <2>2. Cardinality(data \cup {s}) = IF s \in data THEN Cardinality(data) ELSE Cardinality(data) + 1
    BY <1>1, FS_AddElement
  <2>3. Running /\ Replacing = 0 /\ result' # "failed"
    BY <2>1 DEF Running, Beginning, Replacing
  <2>4. Exhausted \/ twice # {} \/ numInflight + Cardinality(data) >= MinShards
    BY <1>1, <2>3 DEF Supplied
  <2>5. CASE main' = "replace" /\ UNCHANGED <<data, twice>>
    <3>1. Replacing' = 1
      BY <2>5 DEF Replacing
    <3>. QED  BY <1>1, <2>1, <2>3, <2>4, <2>5, <3>1 DEF Supplied, Exhausted
  <2>6. CASE /\ data' = data \cup {s} /\ main' \in {"loop", "next"}
             /\ twice' = IF s \in data THEN twice \cup {s} ELSE twice
    <3>1. Replacing' = 0
      BY <2>6 DEF Replacing
    <3>2. CASE s \in data
      BY <2>3, <2>6, <3>2 DEF Supplied
    <3>3. CASE s \notin data
      <4>1. (Exhausted => Exhausted') /\ twice' = twice
            /\ Cardinality(data') = Cardinality(data) + 1
        BY <2>1, <2>2, <2>6, <3>3 DEF Exhausted
      <4>2. numInflight + Cardinality(data) >= MinShards =>
              numInflight' + 0 + Cardinality(data') >= MinShards
        BY <1>1, <2>1, <4>1
      <4>. QED  BY <2>3, <2>4, <3>1, <4>1, <4>2 DEF Supplied
    <3>. QED  BY <3>2, <3>3
  <2>. QED  BY <2>1, <2>5, <2>6
<1>9. CASE Replaces
  <2>1. /\ main = "replace" /\ main' = "pick" /\ UNCHANGED <<hks, numInflight, data, result, twice>>
    BY <1>9 DEF Replaces, Sort, launchVars
  <2>. QED  BY <1>1, <1>2, <2>1 DEF Replacing, Running, Beginning
<1>10. CASE ReplacementTakes
  <2>1. main = "pick" /\ Locked /\ UNCHANGED <<data, result, twice>>
    BY <1>10 DEF ReplacementTakes, Locked
  <2>2. CASE \E h \in Hosts : Take(h) /\ main' = "relaunch"
    <3>1. /\ main' = "relaunch" /\ numInflight' = numInflight
          /\ \A s \in Sectors : hks'[s] \subseteq hks[s]
      BY <2>2, TakeFacts DEF Inv
    <3>. QED  BY <1>1, <1>2, <2>1, <3>1 DEF Replacing, Running, Beginning
  <2>3. CASE NoMoreHosts /\ main' = "next"
    BY <2>1, <2>3, NobodyLeft DEF Supplied
  <2>. QED  BY <1>10, <2>2, <2>3 DEF ReplacementTakes
<1>11. CASE ReplacementLaunches
  <2>1. /\ main = "relaunch" /\ main' = "next" /\ numInflight' = numInflight + 1
        /\ UNCHANGED <<hks, data, twice, result>>
    BY <1>11 DEF ReplacementLaunches, Launch, choiceVars
  <2>. QED  BY <1>1, <1>2, <2>1 DEF Replacing, Running, Beginning
<1>12. CASE Forget /\ Locked
  BY <1>2, <1>12, ForgetFacts
<1>13. CASE OverdriveFires \/ OverdriveSorts
  BY <1>2, <1>13 DEF OverdriveFires, OverdriveSorts, Sort, choiceVars, launchVars, mainVars
<1>14. CASE OverdriveTakes
  <2>1. /\ UNCHANGED <<main, numInflight, data, twice, result>>
        /\ \A s \in Sectors : hks'[s] \subseteq hks[s]
    BY <1>14, TakeFacts DEF OverdriveTakes, NoMoreHosts, choiceVars, launchVars, mainVars, Inv
  <2>. QED  BY <1>2, <2>1
<1>15. CASE OverdriveLaunches
  <2>1. UNCHANGED <<hks, main, data, twice, result>> /\ numInflight' = numInflight + 1
    BY <1>15 DEF OverdriveLaunches, Launch, choiceVars, mainVars
  <2>2. Replacing' = Replacing /\ Replacing \in Nat /\ Running' = Running
    BY <2>1 DEF Replacing, Running, Beginning
  <2>. QED  BY <1>1, <1>2, <2>1, <2>2
<1>16. CASE \E h \in Hosts : Downloader(h) \/ StopsDownloader(h) \/ AddsDownloader(h)
  <2>1. UNCHANGED <<hks, data, numInflight, main, result, twice>>
    BY <1>16 DEF Downloader, Pops, Executes, FailsLater, Answer, StopsDownloader, AddsDownloader,
                 choiceVars, launchVars, mainVars
  <2>. QED  BY <1>2, <2>1
<1>17. CASE Stops \/ UNCHANGED vars
  BY <1>2, <1>17 DEF Stops, vars, choiceVars, launchVars, mainVars
<1>18. CASE Download
  BY <1>3, <1>4, <1>5, <1>6, <1>7, <1>8, <1>9, <1>10, <1>11, <1>12, <1>18 DEF Download, Locked
<1>19. CASE Overdrive \/ OverdriveFires
  BY <1>12, <1>13, <1>14, <1>15, <1>19 DEF Overdrive, Locked
<1>. QED  BY <1>16, <1>17, <1>18, <1>19 DEF Next

\* A download fails only when nobody is left to choose and at most the overdrive's last
\* choice has not answered, or when a sector came twice.
THEOREM FailureExplainedHolds == Spec => []FailureExplained
<1>1. Init => Supplied
  BY DEF Init, Supplied, Running, Beginning
<1>2. Supplied => FailureExplained
  BY DEF Supplied, Exhausted, OneUnheard, FailureExplained
<1>. QED  BY <1>1, <1>2, SuppliedKept, Invariance, PTL DEF Spec

-----------------------------------------------------------------------------
(* The download of a range of an object (module DownloadObject, with       *)
(* objects and variables of its own), for any objects and any limit.       *)

USE DownloadAssumption


\* The slices lie end to end, from the first byte asked for to the last.
EndOf(slice) == slice.start + slice.length

Cover(slices, from, n) ==
  /\ slices \in Seq([start : Nat, length : Nat, kind : Kinds]) /\ slices # <<>>
  /\ slices[1].start = from /\ EndOf(slices[Len(slices)]) = from + n
  /\ \A i \in 1..Len(slices) - 1 : slices[i + 1].start = EndOf(slices[i])
  /\ \A i \in 1..Len(slices) : from <= slices[i].start /\ EndOf(slices[i]) <= from + n

\* Goroutines are started in order, and the launcher is at a slice when it has one
\* to start.
Started ==
  /\ \A i \in Slices : i >= slabIndex => task[i] = "none"
  /\ launcher \notin {"check", "done"} => slabIndex \in Slices

\* Whoever holds memory is bound to release it.
Held ==
  /\ \A i \in Slices :
       mem[i] # 0 => \/ task[i] \in {"fetch", "send"}
                     \/ launcher = "parent" /\ slabIndex = i
                     \/ collector = "write" /\ handling = i
  /\ handling # 0 => collector = "write" /\ task[handling] = "done"
  /\ collector \in {"flush", "returned"} =>
       launcher = "done" /\ \A i \in Slices : task[i] \in {"none", "done"}
  /\ launcher = "wait" => free < slabs[slabIndex].length

\* The bytes of the slices before the next one to be written.
Reached == IF respIndex > Len(slabs) THEN range.length
           ELSE slabs[respIndex].start - range.offset

\* A slice that the writer failed on may follow them.
Delivered ==
  /\ written = [k \in 1..Len(written) |-> range.offset + k - 1]
  /\ Len(written) <= range.length
  /\ outcome # "failed" => Len(written) = Reached
  /\ outcome = "ok" => respIndex > Len(slabs)
  /\ collector \in {"select", "write"} => outcome = "none"

\* What was written has reached the client or is in the buffer, until the writer fails.
Passed ==
  /\ received <= Len(written)
  /\ ~broken \/ outcome = "ok" => Len(written) - received <= BufferSize
  /\ broken => outcome = "failed" \/ collector = "returned"
  /\ collector = "returned" /\ ~broken => received = Len(written)

ObjectInv ==
  /\ ObjectTypeOK
  /\ Cover(slabs, range.offset, range.length)
  /\ Started
  /\ Held
  /\ Delivered
  /\ Passed

-----------------------------------------------------------------------------
LEMMA SequenceFacts ==
  ASSUME NEW S, NEW q \in Seq(S)
  PROVE  Len(q) \in Nat /\ \A i \in 1..Len(q) : q[i] \in S
  OBVIOUS

LEMMA SliceFacts ==
  ASSUME ObjectTypeOK
  PROVE  /\ Len(slabs) \in Nat /\ Slices = 1..Len(slabs)
         /\ \A i \in Slices :
              slabs[i].start \in Nat /\ slabs[i].length \in Nat
<1>1. slabs \in Seq([start : Nat, length : Nat, kind : Kinds])
  BY DEF ObjectTypeOK
<1>2. /\ Len(slabs) \in Nat
      /\ \A i \in 1..Len(slabs) : slabs[i] \in [start : Nat, length : Nat, kind : Kinds]
  BY <1>1, SequenceFacts
<1>. QED  BY <1>2 DEF Slices

-----------------------------------------------------------------------------
(* The slices of a range *)

Slab == [length : Nat \ {0}, kind : Kinds]

LEMMA SlabFacts ==
  ASSUME NEW object \in Seq(Slab)
  PROVE  /\ Len(object) \in Nat
         /\ \A i \in 1..Len(object) : object[i].length \in Nat \ {0} /\ object[i].kind \in Kinds
<1>1. Len(object) \in Nat /\ \A i \in 1..Len(object) : object[i] \in Slab
  BY SequenceFacts
<1>. QED  BY <1>1 DEF Slab

\* Total is a sum: it grows with every slab.
LEMMA TotalFacts ==
  ASSUME NEW object \in Seq(Slab)
  PROVE  /\ Total(object, 0) = 0
         /\ \A n \in 0..Len(object) : Total(object, n) \in Nat
         /\ \A n \in 1..Len(object) :
              Total(object, n) = Total(object, n - 1) + object[n].length
<1>. DEFINE L == Len(object)
            step == [k \in 1..L |-> [d \in Nat |-> d + object[k].length]]
<1>0. L \in Nat /\ \A k \in 1..L : object[k].length \in Nat
  BY SlabFacts
<1>. HIDE DEF L
<1>1. \A k \in 1..L : \A d \in Nat : step[k][d] \in Nat
  BY <1>0
<1>. HIDE DEF step
<1>2. PICK f : Iterates(f, L, Nat, 0, step)
  BY <1>0, <1>1, RecursiveFunctions
<1>3. /\ f \in [0..L -> Nat] /\ f[0] = 0
      /\ \A k \in 1..L : f[k] = f[k - 1] + object[k].length
  <2>1. f \in [0..L -> Nat] /\ f[0] = 0 /\ \A k \in 1..L : f[k] = step[k][f[k - 1]]
    BY <1>2 DEF Iterates
  <2>2. ASSUME NEW k \in 1..L PROVE f[k] = f[k - 1] + object[k].length
    <3>1. k - 1 \in 0..L
      BY <1>0
    <3>. QED  BY <2>1, <3>1 DEF step
  <2>. QED  BY <2>1, <2>2
<1>4. ASSUME NEW n \in 0..L PROVE Total(object, n) = f[n]
  <2>. DEFINE g == CHOOSE s : s = [i \in 0..n |-> IF i = 0 THEN 0 ELSE s[i - 1] + object[i].length]
              h == [i \in 0..n |-> f[i]]
  <2>1. Total(object, n) = g[n]
    BY DEF Total
  <2>2. h = [i \in 0..n |-> IF i = 0 THEN 0 ELSE h[i - 1] + object[i].length]
    <3>1. ASSUME NEW i \in 0..n PROVE h[i] = IF i = 0 THEN 0 ELSE h[i - 1] + object[i].length
      <4>1. CASE i = 0
        BY <1>3, <4>1
      <4>2. CASE i # 0
        <5>1. i - 1 \in 0..n /\ i \in 1..L
          BY <1>0, <4>2
        <5>. QED  BY <1>3, <4>2, <5>1
      <4>. QED  BY <4>1, <4>2
    <3>. QED  BY <3>1
  <2>3. g = [i \in 0..n |-> IF i = 0 THEN 0 ELSE g[i - 1] + object[i].length]
    <3>. HIDE DEF h
    <3>. QED  BY <2>2
  <2>. HIDE DEF g
  <2>. DEFINE P == {i \in Nat : i <= n => g[i] = f[i]}
  <2>4. 0 \in P
    <3>1. 0 \in 0..n
      BY <1>0
    <3>. QED  BY <1>3, <2>3, <3>1
  <2>5. ASSUME NEW i \in Nat, i \in P PROVE i + 1 \in P
    <3>. SUFFICES ASSUME i + 1 <= n PROVE g[i + 1] = f[i + 1]
      OBVIOUS
    <3>1. i + 1 \in 0..n /\ i + 1 \in 1..L /\ i + 1 # 0 /\ (i + 1) - 1 = i /\ i <= n
      BY <1>0
    <3>2. g[i + 1] = g[i] + object[i + 1].length
      BY <2>3, <3>1
    <3>. QED  BY <1>3, <2>5, <3>1, <3>2
  <2>6. n \in P
    <3>. HIDE DEF P
    <3>. QED  BY <2>4, <2>5, Induction
  <2>. QED  BY <2>1, <2>6
<1>5. 0 \in 0..L
  BY <1>0
<1>6. \A n \in 1..L : n \in 0..L /\ n - 1 \in 0..L
  BY <1>0
<1>. QED  BY <1>3, <1>4, <1>5, <1>6 DEF L

LEMMA TotalGrows ==
  ASSUME NEW object \in Seq(Slab), NEW i \in 0..Len(object), NEW j \in i..Len(object)
  PROVE  Total(object, i) <= Total(object, j)
<1>. DEFINE L == Len(object)
            P == {n \in Nat : n <= L /\ i <= n => Total(object, i) <= Total(object, n)}
<1>0. L \in Nat
  BY SequenceFacts
<1>1. /\ \A n \in 0..L : Total(object, n) \in Nat
      /\ \A n \in 1..L : Total(object, n) = Total(object, n - 1) + object[n].length
                         /\ object[n].length \in Nat
  BY TotalFacts, SlabFacts
<1>. HIDE DEF L
<1>2. i \in 0..L /\ j \in i..L
  BY DEF L
<1>3. 0 \in P
  <2>1. i <= 0 => i = 0
    BY <1>0, <1>2
  <2>. QED  BY <1>0, <1>1, <1>2, <2>1
<1>4. ASSUME NEW n \in Nat, n \in P PROVE n + 1 \in P
  <2>. SUFFICES ASSUME n + 1 <= L, i <= n + 1 PROVE Total(object, i) <= Total(object, n + 1)
    OBVIOUS
  <2>1. CASE i = n + 1
    BY <1>1, <1>2, <2>1
  <2>2. CASE i # n + 1
    <3>1. i <= n /\ n <= L /\ n \in 0..L /\ n + 1 \in 1..L /\ (n + 1) - 1 = n
      BY <1>0, <1>2, <2>2
    <3>2. Total(object, i) <= Total(object, n)
      BY <1>4, <3>1
    <3>3. Total(object, n + 1) = Total(object, n) + object[n + 1].length
          /\ object[n + 1].length \in Nat
      BY <1>1, <3>1
    <3>. QED  BY <1>1, <1>2, <3>1, <3>2, <3>3
  <2>. QED  BY <2>1, <2>2
<1>5. j \in P
  <2>1. j \in Nat
    BY <1>0, <1>2
  <2>. HIDE DEF P
  <2>. QED  BY <1>3, <1>4, <2>1, Induction
<1>. QED  BY <1>0, <1>2, <1>5

\* The slab that holds a byte of the object.
LEMMA SlabOfByte ==
  ASSUME NEW object \in Seq(Slab), NEW x \in 0..Total(object, Len(object)) - 1
  PROVE  \E i \in 1..Len(object) : Total(object, i - 1) <= x /\ x < Total(object, i)
<1>. DEFINE L == Len(object)
            S == {i \in 0..L : Total(object, i) <= x}
            m == Max(S)
<1>0. L \in Nat
  BY SequenceFacts
<1>1. Total(object, 0) = 0 /\ \A i \in 0..L : Total(object, i) \in Nat
  BY TotalFacts
<1>. HIDE DEF L
<1>2. x \in Nat /\ x < Total(object, L)
  <2>1. Total(object, L) \in Nat
    BY <1>0, <1>1
  <2>. QED  BY <2>1 DEF L
<1>3. 0 \in S
  BY <1>0, <1>1, <1>2
<1>4. m \in S /\ \A i \in S : i <= m
  <2>1. S \subseteq 0..L /\ S # {}
    BY <1>3
  <2>. HIDE DEF S
  <2>. QED  BY <1>0, <2>1, GreatestUpTo
<1>5. m \in 0..L /\ Total(object, m) <= x
  BY <1>4
<1>. HIDE DEF m
<1>6. m # L
  BY <1>1, <1>2, <1>5
<1>7. m + 1 \in 1..L /\ (m + 1) - 1 = m /\ m + 1 \in 0..L
  BY <1>0, <1>5, <1>6
<1>8. m + 1 \notin S
  BY <1>4, <1>5, <1>0
<1>9. x < Total(object, m + 1)
  BY <1>1, <1>2, <1>7, <1>8
<1>. QED  BY <1>5, <1>7, <1>9 DEF L

\* The slices of a range lie end to end and hold all of it.
LEMMA SlicesCover ==
  ASSUME NEW object \in Seq(Slab), NEW from \in 0..Total(object, Len(object)) - 1,
         NEW n \in 1..Total(object, Len(object)) - from
  PROVE  Cover(slabsForDownload(object, from, n), from, n)
<1>. DEFINE L == Len(object)
            T(i) == Total(object, i)
            first == CHOOSE i \in 1..L : T(i - 1) <= from /\ from < T(i)
            last == CHOOSE i \in first..L : T(i - 1) < from + n /\ from + n <= T(i)
            slice(i) == LET start == Max({from, T(i - 1)})
                            to == Min({from + n, T(i)})
                        IN [start |-> start, length |-> to - start, kind |-> object[i].kind]
            slices == [k \in 1..last - first + 1 |-> slice(first + k - 1)]
<1>1. slabsForDownload(object, from, n) = slices
  BY DEF slabsForDownload
<1>2. L \in Nat /\ (\A i \in 0..L : T(i) \in Nat) /\ \A i \in 1..L : object[i].kind \in Kinds
  BY TotalFacts, SlabFacts
<1>3. from \in Nat /\ n \in Nat \ {0} /\ from + n <= T(L)
  <2>1. T(L) \in Nat
    BY <1>2
  <2>. HIDE DEF L
  <2>. QED  BY <2>1 DEF L
<1>4. \A i \in 0..L : \A j \in i..L : T(i) <= T(j)
  BY TotalGrows
<1>5. first \in 1..L /\ T(first - 1) <= from /\ from < T(first)
  BY SlabOfByte
<1>. HIDE DEF first
<1>6. last \in first..L /\ T(last - 1) < from + n /\ from + n <= T(last)
  <2>1. (from + n) - 1 \in 0..T(L) - 1
    BY <1>2, <1>3
  <2>2. PICK i \in 1..L : T(i - 1) <= (from + n) - 1 /\ (from + n) - 1 < T(i)
    <3>. HIDE DEF T
    <3>. QED  BY <2>1, SlabOfByte DEF T
  <2>. HIDE DEF L, T
  <2>3. T(i - 1) \in Nat /\ T(i) \in Nat
    <3>1. i - 1 \in 0..L /\ i \in 0..L
      BY <1>2
    <3>. QED  BY <1>2, <3>1
  <2>4. T(i - 1) < from + n /\ from + n <= T(i)
    BY <1>3, <2>2, <2>3
  <2>5. i >= first
    <3>. SUFFICES ASSUME i < first PROVE FALSE
      BY <1>2, <1>5
    <3>1. i \in 0..L /\ first - 1 \in i..L /\ first - 1 \in 0..L
      BY <1>2, <1>5
    <3>2. T(i) <= T(first - 1) /\ T(first - 1) \in Nat
      BY <1>2, <1>4, <3>1
    <3>. QED  BY <1>3, <1>5, <2>3, <2>4, <3>2
  <2>6. i \in first..L
    BY <1>2, <1>5, <2>5
  <2>. QED  BY <2>4, <2>6
<1>. HIDE DEF last, L, T
<1>7. ASSUME NEW i \in first..last
      PROVE  /\ slice(i).start = (IF i = first THEN from ELSE T(i - 1))
             /\ slice(i).start + slice(i).length = (IF i = last THEN from + n ELSE T(i))
             /\ slice(i).kind \in Kinds
             /\ from <= slice(i).start /\ slice(i).start + slice(i).length <= from + n
             /\ slice(i) \in [start : Nat, length : Nat, kind : Kinds]
  <2>. DEFINE start == Max({from, T(i - 1)})
              to == Min({from + n, T(i)})
  <2>1. /\ i \in 1..L /\ i \in 0..L /\ i - 1 \in 0..L /\ T(i) \in Nat /\ T(i - 1) \in Nat
        /\ T(i - 1) <= T(i) /\ i \in Int
    <3>1. i \in 1..L /\ i \in 0..L /\ i - 1 \in 0..L /\ i \in (i - 1)..L
      BY <1>2, <1>5, <1>6
    <3>. QED  BY <1>2, <1>4, <3>1
  <2>2. start = IF from <= T(i - 1) THEN T(i - 1) ELSE from
    BY <1>3, <2>1, OfTwo
  <2>3. to = IF from + n <= T(i) THEN from + n ELSE T(i)
    <3>1. from + n \in Nat
      BY <1>3
    <3>. QED  BY <2>1, <3>1, OfTwo
  <2>4. slice(i) = [start |-> start, length |-> to - start, kind |-> object[i].kind]
    OBVIOUS
  <2>. HIDE DEF start, to, slice
  <2>5. i # first => from < T(i - 1)
    <3>. SUFFICES ASSUME i # first PROVE from < T(i - 1)
      OBVIOUS
    <3>1. first \in 0..L /\ i - 1 \in first..L
      BY <1>2, <1>5, <1>6, <2>1
    <3>2. T(first) <= T(i - 1) /\ T(first) \in Nat
      BY <1>2, <1>4, <3>1
    <3>. QED  BY <1>3, <1>5, <2>1, <3>2
  <2>6. i # last => T(i) < from + n
    <3>. SUFFICES ASSUME i # last PROVE T(i) < from + n
      OBVIOUS
    <3>1. last - 1 \in 0..L /\ last - 1 \in i..L
      BY <1>2, <1>5, <1>6, <2>1
    <3>2. T(i) <= T(last - 1) /\ T(last - 1) \in Nat
      BY <1>2, <1>4, <2>1, <3>1
    <3>. QED  BY <1>3, <1>6, <2>1, <3>2
  <2>7. start = (IF i = first THEN from ELSE T(i - 1)) /\ start \in Nat /\ from <= start
    BY <1>3, <1>5, <2>1, <2>2, <2>5
  <2>8. to = (IF i = last THEN from + n ELSE T(i)) /\ to \in Nat /\ to <= from + n
    BY <1>3, <1>6, <2>1, <2>3, <2>6
  <2>9. start <= to
    <3>1. T(i - 1) < from + n
      <4>1. CASE i = last
        BY <1>6, <4>1
      <4>2. CASE i # last
        BY <1>3, <2>1, <2>6, <4>2
      <4>. QED  BY <4>1, <4>2
    <3>2. from < T(i)
      <4>1. CASE i = first
        BY <1>5, <4>1
      <4>2. CASE i # first
        BY <1>3, <2>1, <2>5, <4>2
      <4>. QED  BY <4>1, <4>2
    <3>. QED  BY <1>3, <2>1, <2>2, <2>3, <3>1, <3>2
  <2>10. start + (to - start) = to /\ to - start \in Nat
    BY <2>7, <2>8, <2>9
  <2>11. object[i].kind \in Kinds
    BY <1>2, <2>1
  <2>. QED  BY <2>4, <2>7, <2>8, <2>10, <2>11
<1>. DEFINE N == last - first + 1
<1>8. /\ N \in Nat /\ N >= 1 /\ first + 1 - 1 = first /\ first + N - 1 = last
      /\ \A k \in 1..N : first + k - 1 \in first..last
      /\ \A k \in 1..N - 1 : /\ k \in 1..N /\ k + 1 \in 1..N
                            /\ first + (k + 1) - 1 = first + k
                            /\ first + k # first /\ first + k - 1 # last
                            /\ (first + k) - 1 = first + k - 1
  BY <1>2, <1>5, <1>6
<1>9. slices = [k \in 1..N |-> slice(first + k - 1)]
  OBVIOUS
<1>. HIDE DEF slice, slices, N
<1>10. slices \in Seq([start : Nat, length : Nat, kind : Kinds]) /\ Len(slices) = N
  BY <1>7, <1>8, <1>9
<1>11. slices # <<>>
  BY <1>8, <1>10
<1>12. slices[1].start = from
  <2>1. 1 \in 1..N /\ first \in first..last
    BY <1>2, <1>5, <1>6, <1>8
  <2>. QED  BY <1>7, <1>8, <1>9, <2>1
<1>13. EndOf(slices[Len(slices)]) = from + n
  <2>1. N \in 1..N /\ last \in first..last
    BY <1>8
  <2>. QED  BY <1>7, <1>8, <1>9, <1>10, <2>1 DEF EndOf
<1>14. ASSUME NEW k \in 1..N - 1 PROVE slices[k + 1].start = EndOf(slices[k])
  <2>1. slices[k + 1] = slice(first + k) /\ slices[k] = slice(first + k - 1)
    BY <1>8, <1>9
  <2>2. first + k \in first..last /\ first + k - 1 \in first..last
    BY <1>8
  <2>. QED  BY <1>7, <1>8, <2>1, <2>2 DEF EndOf
<1>15. ASSUME NEW k \in 1..N
       PROVE  from <= slices[k].start /\ EndOf(slices[k]) <= from + n
  BY <1>7, <1>8, <1>9 DEF EndOf
<1>. QED  BY <1>1, <1>10, <1>11, <1>12, <1>13, <1>14, <1>15 DEF Cover

LEMMA ObjectInitHolds == ObjectInit => ObjectInv
<1>. SUFFICES ASSUME ObjectInit PROVE ObjectInv
  OBVIOUS
<1>1. PICK object \in Objects :
        \E from \in 0..Total(object, Len(object)) - 1 :
          \E n \in 1..Total(object, Len(object)) - from :
            /\ range = [offset |-> from, length |-> n]
            /\ slabs = slabsForDownload(object, from, n)
  BY DEF ObjectInit
<1>2. PICK from \in 0..Total(object, Len(object)) - 1 :
        \E n \in 1..Total(object, Len(object)) - from :
          /\ range = [offset |-> from, length |-> n]
          /\ slabs = slabsForDownload(object, from, n)
  BY <1>1
<1>3. PICK n \in 1..Total(object, Len(object)) - from :
          /\ range = [offset |-> from, length |-> n]
          /\ slabs = slabsForDownload(object, from, n)
  BY <1>2
<1>0. object \in Seq(Slab) /\ Len(object) \in 0..Len(object)
  <2>1. object \in Seq(Slab)
    BY DEF Slab
  <2>. QED  BY <2>1, SequenceFacts
<1>4. Total(object, Len(object)) \in Nat
  BY <1>0, TotalFacts
<1>5. Cover(slabs, range.offset, range.length)
  BY <1>0, <1>3, SlicesCover
<1>6. /\ range \in [offset : Nat, length : Nat \ {0}]
      /\ slabs \in Seq([start : Nat, length : Nat, kind : Kinds])
      /\ Len(slabs) \in Nat \ {0} /\ Slices = 1..Len(slabs)
  BY <1>3, <1>4, <1>5, EmptySeq DEF Cover, Slices
<1>7. ObjectTypeOK
  <2>1. written = <<>> /\ written \in Seq(Nat)
    BY DEF ObjectInit
  <2>2. task \in [Slices -> {"none", "fetch", "send", "done"}] /\ mem \in [Slices -> Nat]
    BY DEF ObjectInit
  <2>3. slabIndex \in 1..Len(slabs) + 1 /\ respIndex \in 1..Len(slabs) + 1
    BY <1>6 DEF ObjectInit
  <2>. QED  BY <1>6, <2>1, <2>2, <2>3 DEF ObjectInit, ObjectTypeOK
<1>8. Started /\ Held
  BY <1>6 DEF ObjectInit, Started, Held
<1>9. Delivered
  <2>1. Reached = 0
    BY <1>5, <1>6 DEF ObjectInit, Reached, Cover
  <2>. QED  BY <1>6, <2>1 DEF ObjectInit, Delivered
<1>10. Passed
  BY DEF ObjectInit, Passed
<1>. QED  BY <1>5, <1>7, <1>8, <1>9, <1>10 DEF ObjectInv

-----------------------------------------------------------------------------
\* Successive numbers.
Run(a, n) == [k \in 1..n |-> a + k - 1]

LEMMA RunType ==
  ASSUME NEW a \in Nat, NEW n \in Nat
  PROVE  Run(a, n) \in Seq(Nat) /\ Len(Run(a, n)) = n
<1>1. Run(a, n) \in [1..n -> Nat]
  BY DEF Run
<1>. QED  BY <1>1

LEMMA RunsJoin ==
  ASSUME NEW a \in Nat, NEW m \in Nat, NEW n \in Nat
  PROVE  Run(a, m) \o Run(a + m, n) = Run(a, m + n)
<1>. DEFINE p == Run(a, m)
            q == Run(a + m, n)
            t == Run(a, m + n)
<1>0. a + m \in Nat /\ m + n \in Nat
  OBVIOUS
<1>1. /\ p \in Seq(Nat) /\ Len(p) = m /\ q \in Seq(Nat) /\ Len(q) = n
      /\ t \in Seq(Nat) /\ Len(t) = m + n
  <2>1. p \in Seq(Nat) /\ Len(p) = m
    BY RunType
  <2>2. q \in Seq(Nat) /\ Len(q) = n
    BY <1>0, RunType, Zenon
  <2>3. t \in Seq(Nat) /\ Len(t) = m + n
    BY <1>0, RunType, Zenon
  <2>. QED  BY <2>1, <2>2, <2>3
<1>2. /\ \A k \in 1..m : p[k] = a + k - 1
      /\ \A k \in 1..n : q[k] = a + m + k - 1
      /\ \A k \in 1..m + n : t[k] = a + k - 1
  BY DEF Run
<1>. HIDE DEF p, q, t
<1>3. /\ p \o q \in Seq(Nat) /\ Len(p \o q) = m + n
      /\ \A k \in 1..m + n : (p \o q)[k] = IF k <= m THEN p[k] ELSE q[k - m]
  BY <1>1, ConcatProperties
<1>4. ASSUME NEW k \in 1..m + n PROVE (p \o q)[k] = t[k]
  <2>1. CASE k <= m
    BY <1>2, <1>3, <2>1
  <2>2. CASE ~(k <= m)
    <3>1. k - m \in 1..n
      BY <2>2
    <3>. QED  BY <1>2, <1>3, <2>2, <3>1
  <2>. QED  BY <2>1, <2>2
<1>5. p \o q = t
  BY <1>1, <1>3, <1>4, SeqEqual
<1>. QED  BY <1>5 DEF p, q, t

LEMMA RunPrefix ==
  ASSUME NEW a \in Nat, NEW n \in Nat, NEW m \in 0..n
  PROVE  IsPrefix(Run(a, m), Run(a, n))
<1>. DEFINE p == Run(a, m)
            t == Run(a, n)
<1>1. p \in Seq(Nat) /\ Len(p) = m /\ t \in Seq(Nat) /\ Len(t) = n
  BY RunType
<1>2. (\A k \in 1..m : p[k] = a + k - 1) /\ (\A k \in 1..n : t[k] = a + k - 1)
  BY DEF Run
<1>. HIDE DEF p, t
<1>3. SubSeq(p, 1, m) = p
  BY <1>1, SubSeqFull
<1>4. /\ SubSeq(t, 1, m) \in Seq(Nat) /\ Len(SubSeq(t, 1, m)) = m
      /\ \A k \in 1..m : SubSeq(t, 1, m)[k] = t[k]
  BY <1>1
<1>5. SubSeq(t, 1, m) = p
  BY <1>1, <1>2, <1>4, SeqEqual
<1>6. IsPrefix(p, t)
  BY <1>1, <1>3, <1>5 DEF IsPrefix
<1>. QED  BY <1>6 DEF p, t

\* The parts that most actions leave alone.
Moves ==
  \/ UNCHANGED <<collector, outcome>>
  \/ /\ collector \in {"select", "write"} /\ collector' \in {"select", "write"}
     /\ UNCHANGED outcome
  \/ /\ collector \in {"select", "write"} /\ collector' = "leave"
     /\ outcome' \in {"ok", "cancelled", "shutdown", "failed"}
     /\ outcome' = "ok" => respIndex > Len(slabs)
  \/ collector = "leave" /\ collector' = "flush" /\ UNCHANGED outcome

LEMMA DeliveredStays ==
  ASSUME Delivered, Passed, UNCHANGED <<range, slabs, respIndex, writerVars>>, Moves
  PROVE  Delivered' /\ Passed'
<1>1. UNCHANGED <<range, slabs, respIndex, written, received, broken, Reached>>
  BY DEF writerVars, Reached
<1>2. Delivered'
  BY <1>1 DEF Delivered, Moves
<1>3. Passed'
  BY <1>1 DEF Delivered, Passed, Moves
<1>. QED  BY <1>2, <1>3

LEMMA CoverStays ==
  ASSUME Cover(slabs, range.offset, range.length), UNCHANGED <<range, slabs>>
  PROVE  Cover(slabs, range.offset, range.length)'
  OBVIOUS

LEMMA TryAcquireHolds ==
  ASSUME ObjectInv, launcher \in {"acquire", "woken"}, TryAcquire,
         UNCHANGED <<range, slabs, slabIndex, task, ok, collectorVars, ctxDone, shutdown>>
  PROVE  ObjectInv'
<1>. USE DEF ObjectInv
<1>1. slabIndex \in Slices /\ slabs[slabIndex].length \in Nat
  BY SliceFacts DEF Started
<1>2. ObjectTypeOK'
  <2>. DEFINE n == slabs[slabIndex].length
  <2>0. n \in Nat /\ free \in Nat /\ mem \in [Slices -> Nat] /\ Limit \in Nat
    BY <1>1 DEF ObjectTypeOK
  <2>1. /\ launcher' \in {"done", "wait", "parent"} /\ free' \in Nat
        /\ mem' \in [Slices -> Nat]
    <3>1. CASE n > Limit \/ n > free
      BY <2>0, <3>1 DEF TryAcquire
    <3>2. CASE ~(n > Limit) /\ ~(n > free)
      <4>1. /\ launcher' = "parent" /\ free' = free - n
            /\ mem' = [mem EXCEPT ![slabIndex] = n]
        BY <3>2 DEF TryAcquire
      <4>2. free' \in Nat
        <5>. HIDE DEF n
        <5>. QED  BY <2>0, <3>2, <4>1
      <4>. QED  BY <2>0, <4>1, <4>2
    <3>. QED  BY <3>1, <3>2
  <2>. QED  BY <2>1 DEF ObjectTypeOK, collectorVars, writerVars, Slices
<1>3. Started'
  BY DEF Started, TryAcquire, Slices
<1>4. Held'
  BY <1>1 DEF Held, TryAcquire, Slices, ObjectTypeOK, collectorVars
<1>5. Delivered' /\ Passed'
  BY DeliveredStays DEF collectorVars, Moves
<1>. QED  BY <1>2, <1>3, <1>4, <1>5, CoverStays

LEMMA ReleaseHolds ==
  ASSUME ObjectInv, NEW i \in Slices, Release(i)
  PROVE  /\ mem' \in [Slices -> Nat] /\ free' \in Nat
         /\ mem'[i] = 0 /\ \A j \in Slices : j # i => mem'[j] = mem[j]
         /\ launcher' \in {launcher, "woken"} /\ launcher' # "wait"
         /\ launcher # "wait" => launcher' = launcher
  BY DEF ObjectInv, ObjectTypeOK, Release

-----------------------------------------------------------------------------
LEMMA LauncherHolds == ObjectInv /\ Launcher => ObjectInv'
<1>. SUFFICES ASSUME ObjectInv, Launcher PROVE ObjectInv'
  OBVIOUS
<1>. USE DEF ObjectInv
<1>0. /\ Len(slabs) \in Nat /\ Slices = 1..Len(slabs)
      /\ \A i \in Slices : slabs[i].start \in Nat /\ slabs[i].length \in Nat
  BY SliceFacts
<1>1. CASE LaunchChecks
  <2>. USE <1>1 DEF LaunchChecks
  <2>1. launcher' \in {"done", "partial", "scarce", "acquire"}
        /\ (launcher' # "done" => slabIndex \in Slices)
    BY <1>0 DEF ObjectTypeOK
  <2>2. ObjectTypeOK'
    BY <2>1 DEF ObjectTypeOK, sliceVars, collectorVars, Slices, writerVars
  <2>3. Started' /\ Held'
    BY <2>1 DEF Started, Held, sliceVars, collectorVars, Slices
  <2>4. Delivered' /\ Passed'
    BY DeliveredStays DEF collectorVars, Moves
  <2>. QED  BY <2>2, <2>3, <2>4, CoverStays
<1>2. CASE LaunchAcquires
  BY <1>2, TryAcquireHolds DEF LaunchAcquires
<1>3. CASE LaunchWakes
  <2>1. CASE ctxDone
    <3>. USE <1>3, <2>1 DEF LaunchWakes
    <3>1. ObjectTypeOK'
      BY ZenonT(30) DEF ObjectTypeOK, collectorVars, Slices, writerVars
    <3>2. Started' /\ Held'
      BY DEF Started, Held, collectorVars, Slices
    <3>3. Delivered' /\ Passed'
      BY DeliveredStays DEF collectorVars, Moves
    <3>. QED  BY <3>1, <3>2, <3>3, CoverStays
  <2>2. CASE ~ctxDone
    BY <1>3, <2>2, TryAcquireHolds DEF LaunchWakes
  <2>. QED  BY <2>1, <2>2
<1>4. CASE LaunchStarts
  <2>0. /\ slabIndex \in Slices /\ launcher = "parent"
        /\ UNCHANGED <<range, slabs, ok, collectorVars, ctxDone, shutdown>>
    BY <1>4 DEF LaunchStarts, Started
  <2>1. CASE /\ task' = [task EXCEPT ![slabIndex] = "fetch"]
             /\ slabIndex' = slabIndex + 1
             /\ launcher' = "check"
             /\ UNCHANGED <<mem, free>>
    <3>. USE <1>0, <2>0, <2>1
    <3>1. ObjectTypeOK'
      BY DEF ObjectTypeOK, collectorVars, Slices, writerVars
    <3>2. Started'
      <4>1. task \in [Slices -> {"none", "fetch", "send", "done"}] /\ slabIndex \in 1..Len(slabs)
        BY DEF ObjectTypeOK
      <4>2. ASSUME NEW i \in Slices, i >= slabIndex + 1 PROVE task'[i] = "none"
        <5>1. i >= slabIndex /\ i # slabIndex
          BY <4>1, <4>2
        <5>. QED  BY <4>1, <5>1 DEF Started
      <4>. QED  BY <4>1, <4>2 DEF Started, Slices
    <3>3. Held'
      BY DEF ObjectTypeOK, Started, Held, collectorVars, Slices
    <3>4. Delivered' /\ Passed'
      BY DeliveredStays DEF collectorVars, Moves
    <3>. QED  BY <3>1, <3>2, <3>3, <3>4, CoverStays
  <2>2. CASE /\ launcher' = "done"
             /\ mem' = [mem EXCEPT ![slabIndex] = 0]
             /\ free' = free + mem[slabIndex]
             /\ UNCHANGED <<task, slabIndex>>
    <3>. USE <1>0, <2>0, <2>2
    <3>0. mem[slabIndex] \in Nat /\ free \in Nat
      BY DEF ObjectTypeOK
    <3>a. free' \in Nat /\ mem' \in [Slices -> Nat]
      BY <3>0, SMTT(30) DEF ObjectTypeOK
    <3>1. ObjectTypeOK'
      BY <3>a DEF ObjectTypeOK, collectorVars, Slices, writerVars
    <3>2. Started'
      BY DEF Started, Slices
    <3>3. Held'
      BY DEF ObjectTypeOK, Held, collectorVars, Slices
    <3>4. Delivered' /\ Passed'
      BY DeliveredStays DEF collectorVars, Moves
    <3>. QED  BY <3>1, <3>2, <3>3, <3>4, CoverStays
  <2>. QED  BY <1>4, <2>1, <2>2 DEF LaunchStarts
<1>. QED  BY <1>1, <1>2, <1>3, <1>4 DEF Launcher

LEMMA TaskHolds == ASSUME ObjectInv, NEW i \in Slices, FetchEnds(i) \/ GivesUp(i) PROVE ObjectInv'
<1>. USE DEF ObjectInv
<1>0. Len(slabs) \in Nat /\ Slices = 1..Len(slabs)
  BY SliceFacts
<1>1. Delivered' /\ Passed'
  BY DeliveredStays DEF FetchEnds, GivesUp, collectorVars, Moves
<1>2. i < slabIndex
  BY <1>0 DEF ObjectTypeOK, Started, FetchEnds, GivesUp
<1>3. CASE FetchEnds(i)
  <2>. USE <1>0, <1>2, <1>3 DEF FetchEnds
  <2>1. ObjectTypeOK'
    BY DEF ObjectTypeOK, launcherVars, collectorVars, Slices, writerVars
  <2>2. Started'
    BY DEF ObjectTypeOK, Started, launcherVars, Slices
  <2>3. Held'
    BY DEF ObjectTypeOK, Held, launcherVars, collectorVars, Slices
  <2>. QED  BY <1>1, <2>1, <2>2, <2>3, CoverStays
<1>4. CASE GivesUp(i)
  <2>. USE <1>0, <1>2, <1>4, ReleaseHolds DEF GivesUp
  <2>1. ObjectTypeOK'
    BY ZenonT(30) DEF ObjectTypeOK, collectorVars, Slices, writerVars
  <2>2. Started'
    BY DEF ObjectTypeOK, Started, Slices
  <2>3. Held'
    BY ZenonT(40) DEF ObjectTypeOK, Held, collectorVars, Slices
  <2>. QED  BY <1>1, <2>1, <2>2, <2>3, CoverStays
<1>. QED  BY <1>3, <1>4

-----------------------------------------------------------------------------
LEMMA CollectHolds == ASSUME ObjectInv, NEW i \in Slices, Collect(i) PROVE ObjectInv'
<1>. USE DEF ObjectInv
<1>0. /\ Len(slabs) \in Nat /\ Slices = 1..Len(slabs) /\ i \in 1..Len(slabs)
      /\ handling = 0
  BY SliceFacts DEF Held, Collect
<1>1. i < slabIndex
  BY <1>0 DEF ObjectTypeOK, Started, Collect
<1>2. CASE i \in ok
  <2>. USE <1>0, <1>1, <1>2 DEF Collect
  <2>1. ObjectTypeOK'
    BY ZenonT(30) DEF ObjectTypeOK, Slices, writerVars
  <2>2. Started'
    BY DEF ObjectTypeOK, Started, Slices
  <2>3. Held'
    BY DEF ObjectTypeOK, Held, Slices
  <2>4. Delivered' /\ Passed'
    BY DeliveredStays DEF Moves
  <2>. QED  BY <2>1, <2>2, <2>3, <2>4, CoverStays
<1>3. CASE i \notin ok
  <2>. USE <1>0, <1>1, <1>3, ReleaseHolds DEF Collect, Leave
  <2>1. ObjectTypeOK'
    BY ZenonT(30) DEF ObjectTypeOK, Slices, writerVars
  <2>2. Started'
    BY DEF ObjectTypeOK, Started, Slices
  <2>3. Held'
    BY DEF ObjectTypeOK, Held, Slices
  <2>4. Delivered' /\ Passed'
    BY DeliveredStays DEF Moves
  <2>. QED  BY <2>1, <2>2, <2>3, <2>4, CoverStays
<1>. QED  BY <1>2, <1>3

\* What a step of the collector leaves alone when it releases the handled response.
LEMMA HandledHolds ==
  ASSUME ObjectInv, ReleaseHandled, collector = "write", collector' \notin {"flush", "returned"},
         UNCHANGED <<range, slabs, task, ok, slabIndex, slabResponses, respIndex>>
  PROVE  /\ Started' /\ Held' /\ handling' = 0 /\ free' \in Nat
         /\ mem' \in [Slices -> Nat] /\ launcher' \in {launcher, "woken"}
<1>. USE DEF ObjectInv
<1>1. CASE handling = 0
  <2>. USE <1>1 DEF ReleaseHandled
  <2>1. Started'
    BY DEF Started, Slices
  <2>2. Held'
    <3>1. \A i \in Slices : i # 0
      BY SliceFacts
    <3>. QED  BY <3>1 DEF Held, Slices
  <2>. QED  BY <2>1, <2>2 DEF ObjectTypeOK
<1>2. CASE handling # 0
  <2>1. handling \in Slices /\ Release(handling) /\ handling' = 0
    BY <1>2 DEF ReleaseHandled, ObjectTypeOK
  <2>. USE <1>2, <2>1, ReleaseHolds
  <2>2. Started'
    BY DEF Started, Slices
  <2>3. Held'
    BY ZenonT(40) DEF ObjectTypeOK, Held, Slices
  <2>. QED  BY <2>2, <2>3
<1>. QED  BY <1>1, <1>2

\* The next slice begins where the written bytes end, and is written behind them.
Upto == Reached + slabs[respIndex].length

LEMMA NextSlice ==
  ASSUME ObjectInv, collector = "write", respIndex \in slabResponses,
         written' = written \o Positions(slabs[respIndex])
  PROVE  /\ written' = Run(range.offset, Len(written')) /\ written' \in Seq(Nat)
         /\ Len(written) \in Nat /\ Len(written') = Upto /\ Len(written) <= Len(written')
         /\ Upto \in Nat /\ Upto <= range.length
         /\ UNCHANGED <<range, slabs>> /\ respIndex' = respIndex + 1 => Reached' = Upto
<1>. USE DEF ObjectInv
<1>. DEFINE r == respIndex
            s == slabs[r]
<1>0. /\ Len(slabs) \in Nat /\ Slices = 1..Len(slabs)
      /\ \A i \in Slices : slabs[i].start \in Nat /\ slabs[i].length \in Nat
  BY SliceFacts
<1>1. /\ r \in 1..Len(slabs) /\ s.start \in Nat /\ s.length \in Nat
      /\ range.offset \in Nat /\ range.length \in Nat
      /\ range.offset <= s.start /\ s.start + s.length <= range.offset + range.length
  BY <1>0 DEF ObjectTypeOK, Cover, EndOf
<1>2. Positions(s) = Run(s.start, s.length)
  BY DEF Positions, Run
<1>3. Reached = s.start - range.offset /\ Reached \in Nat
  BY <1>0, <1>1 DEF Reached
<1>4. Upto = Reached + s.length /\ Upto \in Nat /\ Upto <= range.length
  <2>1. Upto = Reached + s.length
    BY DEF Upto
  <2>. QED  BY <1>1, <1>3, <2>1
<1>5. Len(written) = Reached /\ written = Run(range.offset, Reached)
  <2>1. Len(written) = Reached
    BY DEF Delivered
  <2>. QED  BY <2>1 DEF Delivered, Run
<1>6. written' = Run(range.offset, Upto)
  <2>1. written' = Run(range.offset, Reached) \o Run(s.start, s.length)
    BY <1>2, <1>5
  <2>2. s.start = range.offset + Reached
    BY <1>1, <1>3
  <2>3. Run(range.offset, Reached) \o Run(range.offset + Reached, s.length)
          = Run(range.offset, Reached + s.length)
    BY <1>1, <1>3, RunsJoin, ZenonT(40)
  <2>. QED  BY <1>4, <2>1, <2>2, <2>3
<1>7. Run(range.offset, Upto) \in Seq(Nat) /\ Len(Run(range.offset, Upto)) = Upto
  BY <1>1, <1>4, RunType, Zenon
<1>8. Len(written) <= Upto
  <2>. HIDE DEF s, Upto
  <2>. QED  BY <1>1, <1>3, <1>4, <1>5
<1>9. ASSUME UNCHANGED <<range, slabs>>, respIndex' = respIndex + 1 PROVE Reached' = Upto
  <2>1. CASE r = Len(slabs)
    <3>1. EndOf(s) = range.offset + range.length
      BY <2>1 DEF Cover
    <3>2. Reached' = range.length
      BY <1>0, <1>9, <2>1 DEF Reached
    <3>. QED  BY <1>1, <1>3, <1>4, <3>1, <3>2, SMTT(30) DEF EndOf
  <2>2. CASE r # Len(slabs)
    <3>1. r \in 1..Len(slabs) - 1 /\ slabs[r + 1].start = EndOf(s)
      BY <1>0, <1>1, <2>2 DEF Cover
    <3>2. Reached' = slabs[r + 1].start - range.offset
      BY <1>0, <1>9, <3>1 DEF Reached
    <3>. QED  BY <1>1, <1>3, <1>4, <3>1, <3>2 DEF EndOf
  <2>. QED  BY <2>1, <2>2
<1>. QED  BY <1>3, <1>4, <1>5, <1>6, <1>7, <1>8, <1>9

LEMMA WritesHolds == ObjectInv /\ Writes => ObjectInv'
<1>. SUFFICES ASSUME ObjectInv, Writes PROVE ObjectInv'
  OBVIOUS
<1>. USE DEF ObjectInv
<1>0. /\ Len(slabs) \in Nat /\ Slices = 1..Len(slabs) /\ respIndex \in 1..Len(slabs)
  BY SliceFacts DEF Writes, ObjectTypeOK
<1>1. /\ collector = "write" /\ respIndex \in slabResponses /\ respIndex' = respIndex + 1
      /\ slabResponses' = slabResponses \ {respIndex}
      /\ written' = written \o Positions(slabs[respIndex])
      /\ received' \in received..Len(written') /\ Len(written') - received' <= BufferSize
      /\ UNCHANGED <<range, slabs, launcher, slabIndex, task, ok, mem, free, collector, handling,
                     broken, outcome, ctxDone, shutdown>>
  BY DEF Writes, Buffers, sliceVars, launcherVars
<1>2. /\ written' = Run(range.offset, Len(written')) /\ written' \in Seq(Nat)
      /\ Len(written') = Reached' /\ Reached' \in Nat /\ Reached' <= range.length
  BY <1>1, NextSlice
<1>3. outcome' = "none" /\ broken' = FALSE
  BY <1>1 DEF Delivered, Passed, ObjectTypeOK
<1>4. Delivered'
  BY <1>1, <1>2, <1>3 DEF Delivered, Run
<1>5. received \in Nat /\ received' \in Nat /\ received' <= Len(written')
  BY <1>1, <1>2 DEF ObjectTypeOK
<1>6. Passed'
  BY <1>1, <1>3, <1>5 DEF Passed
<1>7. ObjectTypeOK'
  <2>1. respIndex' \in 1..Len(slabs) + 1 /\ slabResponses' \subseteq Slices
    BY <1>0, <1>1 DEF ObjectTypeOK
  <2>. QED  BY <1>1, <1>2, <1>5, <2>1 DEF ObjectTypeOK, Slices
<1>8. Started' /\ Held'
  BY <1>1 DEF Started, Held, Slices
<1>. QED  BY <1>1, <1>4, <1>6, <1>7, <1>8, CoverStays

\* A slice that the writer fails on.
LEMMA WriteFailsHolds == ObjectInv /\ WriteFails => ObjectInv'
<1>. SUFFICES ASSUME ObjectInv, WriteFails PROVE ObjectInv'
  OBVIOUS
<1>. USE DEF ObjectInv
<1>1. /\ collector = "write" /\ respIndex \in slabResponses
      /\ collector' = "leave" /\ outcome' = "failed" /\ ctxDone' = TRUE
      /\ UNCHANGED <<range, slabs, task, ok, slabIndex, slabResponses, respIndex, shutdown>>
  BY DEF WriteFails, Leave
<1>2. /\ Started' /\ Held' /\ handling' = 0 /\ free' \in Nat
      /\ mem' \in [Slices -> Nat] /\ launcher' \in {launcher, "woken"}
  BY <1>1, HandledHolds DEF WriteFails
<1>3. ASSUME written' \in Seq(Nat), received' \in Nat, broken' \in BOOLEAN
      PROVE  ObjectTypeOK'
  BY <1>1, <1>2, <1>3 DEF ObjectTypeOK, Slices, writerVars
<1>4. CASE UNCHANGED writerVars
  <2>1. Delivered' /\ Passed'
    BY <1>1, <1>4, DeliveredStays DEF Moves
  <2>2. ObjectTypeOK'
    BY <1>3, <1>4 DEF ObjectTypeOK, writerVars
  <2>. QED  BY <1>1, <1>2, <2>1, <2>2, CoverStays
<1>5. CASE /\ written' = written \o Positions(slabs[respIndex])
           /\ received' \in received..Len(written') - 1
           /\ broken' = TRUE
  <2>1. /\ written' = Run(range.offset, Len(written')) /\ written' \in Seq(Nat)
        /\ Len(written') \in Nat /\ Len(written') <= range.length
    BY <1>1, <1>5, NextSlice
  <2>2. received \in Nat /\ received' \in Nat /\ received' <= Len(written')
    BY <1>5, <2>1 DEF ObjectTypeOK
  <2>3. Delivered'
    BY <1>1, <2>1 DEF Delivered, Run
  <2>4. Passed'
    BY <1>1, <1>5, <2>2 DEF Passed
  <2>5. ObjectTypeOK'
    BY <1>3, <1>5, <2>1, <2>2
  <2>. QED  BY <1>1, <1>2, <2>3, <2>4, <2>5, CoverStays
<1>. QED  BY <1>4, <1>5 DEF WriteFails

LEMMA FlushesHolds == ObjectInv /\ Flushes => ObjectInv'
<1>. SUFFICES ASSUME ObjectInv, Flushes PROVE ObjectInv'
  OBVIOUS
<1>. USE DEF ObjectInv
<1>1. /\ collector = "flush" /\ collector' = "returned"
      /\ UNCHANGED <<range, slabs, task, ok, mem, free, launcher, slabIndex, handling,
                     slabResponses, respIndex, written, outcome, ctxDone, shutdown>>
  BY DEF Flushes, sliceVars, launcherVars, writerVars
<1>2. Len(written) \in Nat /\ received \in Nat
  BY DEF ObjectTypeOK
<1>3. /\ received' \in Nat /\ received <= received' /\ received' <= Len(written)
      /\ broken' \in BOOLEAN /\ (broken' \/ received' = Len(written))
  <2>1. /\ received \in Nat /\ received <= Len(written) /\ broken \in BOOLEAN
    BY DEF Passed, ObjectTypeOK
  <2>2. CASE broken /\ UNCHANGED writerVars
    BY <1>2, <2>1, <2>2 DEF writerVars
  <2>3. CASE ~broken /\ received' = Len(written) /\ UNCHANGED <<written, broken>>
    BY <1>2, <2>1, <2>3
  <2>4. CASE received' \in received..Len(written) - 1 /\ broken' = TRUE
    BY <1>2, <2>1, <2>4
  <2>. QED  BY <2>2, <2>3, <2>4 DEF Flushes
<1>4. ObjectTypeOK'
  BY <1>1, <1>3 DEF ObjectTypeOK, Slices, writerVars
<1>5. Started' /\ Held'
  BY <1>1 DEF Started, Held, Slices
<1>6. Delivered'
  BY <1>1 DEF Delivered, Reached
<1>7. Passed'
  <2>1. ~broken' => Len(written') - received' <= BufferSize
    BY <1>1, <1>2, <1>3
  <2>2. outcome' = "ok" => Len(written') - received' <= BufferSize
    BY <1>1, <1>2, <1>3 DEF Passed
  <2>. QED  BY <1>1, <1>3, <2>1, <2>2 DEF Passed
<1>. QED  BY <1>1, <1>4, <1>5, <1>6, <1>7, CoverStays

LEMMA CollectorHolds == ObjectInv /\ Collector => ObjectInv'
<1>. SUFFICES ASSUME ObjectInv, Collector PROVE ObjectInv'
  OBVIOUS
<1>. USE DEF ObjectInv
<1>0. /\ Len(slabs) \in Nat /\ Slices = 1..Len(slabs)
      /\ \A i \in Slices : slabs[i].start \in Nat /\ slabs[i].length \in Nat
  BY SliceFacts
<1>1. CASE CollectStops
  <2>. USE <1>1 DEF CollectStops, Leave, sliceVars, launcherVars
  <2>1. ObjectTypeOK'
    BY ZenonT(30) DEF ObjectTypeOK, Slices, writerVars
  <2>2. Started' /\ Held'
    BY DEF Started, Held, Slices
  <2>3. Delivered' /\ Passed'
    BY DeliveredStays DEF Moves
  <2>. QED  BY <2>1, <2>2, <2>3, CoverStays
<1>2. CASE CollectPartial
  <2>. USE <1>0, <1>2 DEF CollectPartial, sliceVars
  <2>0. slabIndex \in 1..Len(slabs) /\ handling = 0
    BY DEF Started, Held
  <2>1. ObjectTypeOK'
    BY <2>0 DEF ObjectTypeOK, Slices, writerVars
  <2>2. Started'
    BY <2>0 DEF ObjectTypeOK, Started, Slices
  <2>3. Held'
    BY <2>0 DEF ObjectTypeOK, Held, Slices
  <2>4. Delivered' /\ Passed'
    BY DeliveredStays DEF Moves
  <2>. QED  BY <2>1, <2>2, <2>3, <2>4, CoverStays
<1>3. CASE CollectScarce
  <2>. USE <1>3 DEF CollectScarce, Leave, sliceVars
  <2>1. ObjectTypeOK'
    BY ZenonT(30) DEF ObjectTypeOK, Slices, writerVars
  <2>2. Started' /\ Held'
    BY DEF Started, Held, Slices
  <2>3. Delivered' /\ Passed'
    BY DeliveredStays DEF Moves
  <2>. QED  BY <2>1, <2>2, <2>3, CoverStays
<1>4. CASE \E i \in Slices : Collect(i)
  BY <1>4, CollectHolds
<1>5. CASE Writes
  BY <1>5, WritesHolds
<1>6. CASE WriteFails
  BY <1>6, WriteFailsHolds
<1>7. CASE WritesDone
  <2>. USE <1>7 DEF WritesDone, Leave
  <2>1. /\ Started' /\ Held' /\ handling' = 0 /\ free' \in Nat
        /\ mem' \in [Slices -> Nat] /\ launcher' \in {launcher, "woken"}
    BY HandledHolds
  <2>2. ObjectTypeOK'
    BY <2>1 DEF ObjectTypeOK, Slices, writerVars
  <2>3. Delivered' /\ Passed'
    BY DeliveredStays DEF Moves
  <2>. QED  BY <2>1, <2>2, <2>3, CoverStays
<1>8. CASE Joins
  <2>. USE <1>8 DEF Joins, sliceVars, launcherVars
  <2>1. ObjectTypeOK'
    BY ZenonT(30) DEF ObjectTypeOK, Slices, writerVars
  <2>2. Started' /\ Held'
    BY DEF Started, Held, Slices
  <2>3. Delivered' /\ Passed'
    BY DeliveredStays DEF Moves
  <2>. QED  BY <2>1, <2>2, <2>3, CoverStays
<1>9. CASE Flushes
  BY <1>9, FlushesHolds
<1>. QED  BY <1>1, <1>2, <1>3, <1>4, <1>5, <1>6, <1>7, <1>8, <1>9 DEF Collector

LEMMA ObjectNextHolds == ObjectInv /\ [ObjectNext]_objectVars => ObjectInv'
<1>. SUFFICES ASSUME ObjectInv, [ObjectNext]_objectVars PROVE ObjectInv'
  OBVIOUS
<1>1. CASE Launcher
  BY <1>1, LauncherHolds
<1>2. CASE \E i \in Slices : FetchEnds(i) \/ GivesUp(i)
  BY <1>2, TaskHolds
<1>3. CASE Collector
  BY <1>3, CollectorHolds
<1>4. CASE Cancel \/ Shutdown
  <2>. USE <1>4 DEF ObjectInv, Cancel, Shutdown, sliceVars, launcherVars, collectorVars
  <2>1. ObjectTypeOK'
    BY ZenonT(30) DEF ObjectTypeOK, Slices, writerVars
  <2>2. Started' /\ Held'
    BY DEF Started, Held, Slices
  <2>3. Delivered' /\ Passed'
    BY DeliveredStays DEF Moves
  <2>. QED  BY <2>1, <2>2, <2>3, CoverStays
<1>5. CASE UNCHANGED objectVars
  <2>. USE <1>5 DEF ObjectInv, objectVars, sliceVars, launcherVars, collectorVars
  <2>1. ObjectTypeOK'
    BY ZenonT(30) DEF ObjectTypeOK, Slices, writerVars
  <2>2. Started' /\ Held'
    BY DEF Started, Held, Slices
  <2>3. Delivered' /\ Passed'
    BY DeliveredStays DEF Moves
  <2>. QED  BY <2>1, <2>2, <2>3, CoverStays
<1>. QED  BY <1>1, <1>2, <1>3, <1>4, <1>5 DEF ObjectNext

LEMMA ObjectInvariance == ObjectSpec => []ObjectInv
<1>. QED  BY ObjectInitHolds, ObjectNextHolds, PTL DEF ObjectSpec

-----------------------------------------------------------------------------
\* Every variable of a download keeps its type.
THEOREM ObjectTypeCorrect == ObjectSpec => []ObjectTypeOK
<1>1. ObjectInv => ObjectTypeOK
  BY DEF ObjectInv
<1>. QED  BY <1>1, ObjectInvariance, PTL

\* For any range of any object, in whatever order its slabs arrive: what is written is the
\* beginning of the range, and all of it when the download succeeds, of which the client
\* lacks no more than the buffer holds, and nothing unless the writer failed.
THEOREM RangeDeliveredHolds == ObjectSpec => []RangeDelivered
<1>1. ObjectInv => RangeDelivered
  <2>. SUFFICES ASSUME ObjectInv PROVE RangeDelivered
    OBVIOUS
  <2>. USE DEF ObjectInv
  <2>. DEFINE wanted == [k \in 1..range.length |-> range.offset + k - 1]
  <2>0. /\ Len(slabs) \in Nat /\ Slices = 1..Len(slabs)
        /\ \A i \in Slices : slabs[i].start \in Nat /\ slabs[i].length \in Nat
    BY SliceFacts
  <2>1. /\ range.offset \in Nat /\ range.length \in Nat
        /\ Reached \in 0..range.length
    <3>1. range.offset \in Nat /\ range.length \in Nat
      BY DEF ObjectTypeOK
    <3>2. ASSUME ~(respIndex > Len(slabs))
          PROVE  /\ respIndex \in Slices /\ range.offset <= slabs[respIndex].start
                 /\ EndOf(slabs[respIndex]) <= range.offset + range.length
      <4>1. respIndex \in 1..Len(slabs) + 1
        BY DEF ObjectTypeOK
      <4>2. respIndex \in 1..Len(slabs)
        BY <2>0, <3>2, <4>1
      <4>. QED  BY <2>0, <4>2 DEF Cover
    <3>. QED  BY <2>0, <3>1, <3>2 DEF Reached, EndOf
  <2>2. Len(written) \in 0..range.length
    <3>1. written \in Seq(Nat) /\ Len(written) <= range.length
      BY DEF ObjectTypeOK, Delivered
    <3>. QED  BY <2>1, <3>1
  <2>3. IsPrefix(written, wanted)
    <3>1. written = Run(range.offset, Len(written)) /\ wanted = Run(range.offset, range.length)
      BY DEF Delivered, Run
    <3>2. IsPrefix(Run(range.offset, Len(written)), Run(range.offset, range.length))
      BY <2>1, <2>2, RunPrefix
    <3>. QED  BY <3>1, <3>2
  <2>4. outcome = "ok" => Len(written) = range.length
    BY DEF Delivered, Reached
  <2>5. outcome = "ok" => written = wanted
    BY <2>4 DEF Delivered
  <2>. QED  BY <2>3, <2>5 DEF RangeDelivered, Passed
<1>. QED  BY <1>1, ObjectInvariance, PTL

\* Memory is held only while a goroutine, the launcher or the collector is bound to
\* release it, and the launcher never sleeps beside memory that would do.
THEOREM HeldWhileNeededHolds == ObjectSpec => []HeldWhileNeeded
<1>1. ObjectInv => HeldWhileNeeded
  BY DEF ObjectInv, Held, HeldWhileNeeded
<1>. QED  BY <1>1, ObjectInvariance, PTL
=============================================================================
