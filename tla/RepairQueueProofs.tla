--------------------------- MODULE RepairQueueProofs ---------------------------
(***************************************************************************)
(* For any slabs, limits, thresholds and policies: the types of a pass of  *)
(* the risk queue, that it evaluates every slab that stays listed, that    *)
(* the cut after each page leaves what one cut at the end would, that      *)
(* hysteresis never admits by itself, and that expiry drops only what      *)
(* rested on a stale estimate.                                             *)
(*                                                                         *)
(* Of the evaluation of one slab, for any hosts, copies, probabilities and *)
(* scenarios: that the placement it selects is the best one, that the loss *)
(* it reports is the probability it stands for, that without scenarios no  *)
(* other placement is safer, and that more copies never look worse.        *)
(***************************************************************************)
EXTENDS RepairQueue, SlabRisk, Recursion, FiniteSetTheorems, TLAPS

-----------------------------------------------------------------------------
(* The first elements of a finite set in a strict total order, which is    *)
(* given as the set of its pairs.                                          *)

\* n elements of a strict total order have a rank below n.  below has the elements before each.
LEMMA Ranked ==
  ASSUME NEW S, IsFiniteSet(S), NEW below \in [S -> SUBSET S],
         \A x \in S : x \notin below[x],
         \A x, y \in S : y \in below[x] => below[y] \subseteq below[x],
         \A x, y \in S : x # y => x \in below[y] \/ y \in below[x],
         NEW n \in 0..Cardinality(S),
         NEW T, T \subseteq S, \A x \in S : x \in T <=> Cardinality(below[x]) < n
  PROVE  Cardinality(T) = n
<1>. DEFINE N == Cardinality(S)
            rank == [x \in S |-> Cardinality(below[x])]
            r == [x \in T |-> rank[x]]
<1>1. /\ N \in Nat
      /\ \A x \in S : rank[x] \in 0..N - 1
      /\ \A x, y \in S : x \in below[y] => rank[x] < rank[y]
      /\ \A k \in 0..N - 1 : \E x \in S : rank[x] = k
  BY RankIsBijection
<1>2. \A x, y \in S : rank[x] = rank[y] => x = y
  <2>. SUFFICES ASSUME NEW x \in S, NEW y \in S, x # y PROVE rank[x] # rank[y]
    OBVIOUS
  <2>1. x \in below[y] \/ y \in below[x]
    OBVIOUS
  <2>2. rank[x] \in Int /\ rank[y] \in Int /\ (rank[x] < rank[y] \/ rank[y] < rank[x])
    BY <1>1, <2>1
  <2>. QED  BY <2>2
<1>7. IsFiniteSet(0..n - 1) /\ Cardinality(0..n - 1) = n
  BY <1>1, FromZero
<1>8. r \in Injection(T, 0..n - 1)
  <2>1. r \in [T -> 0..n - 1]
    <3>. SUFFICES ASSUME NEW x \in T PROVE rank[x] \in 0..n - 1
      OBVIOUS
    <3>1. rank[x] \in 0..N - 1 /\ rank[x] < n
      BY <1>1
    <3>. QED  BY <3>1, <1>1
  <2>2. \A x, y \in T : r[x] = r[y] => x = y
    BY <1>2
  <2>. QED  BY <2>1, <2>2 DEF Injection, IsInjective
<1>9. r \in Surjection(T, 0..n - 1)
  <2>1. \A k \in 0..n - 1 : \E x \in T : r[x] = k
    <3>. SUFFICES ASSUME NEW k \in 0..n - 1 PROVE \E x \in T : r[x] = k
      OBVIOUS
    <3>1. PICK x \in S : rank[x] = k
      <4>1. k \in 0..N - 1
        BY <1>1
      <4>. QED  BY <4>1, <1>1
    <3>2. x \in T
      BY <3>1
    <3>. QED  BY <3>1, <3>2
  <2>. QED  BY <2>1, <1>8 DEF Surjection, Injection
<1>. QED  BY <1>7, <1>8, <1>9, FS_Injection

-----------------------------------------------------------------------------
(* The admitted slabs in the order of their priority *)

LEMMA LessOrder ==
  /\ \A x \in Admitted : ~Less(x, x)
  /\ \A x, y, z \in Admitted : Less(x, y) /\ Less(y, z) => Less(x, z)
  /\ \A x, y \in Admitted : x.id # y.id => Less(x, y) \/ Less(y, x)
<1>. \A x \in Admitted : /\ x.id \in Nat /\ x.unhealthy \in BOOLEAN
                         /\ x.risk.emergency \in BOOLEAN /\ x.risk.valid \in BOOLEAN
                         /\ x.risk.loss \in Nat
  BY DEF Admitted, Risk, Ids
<1>. QED  BY DEF Less

\* Each slab is admitted once.
OncePerSlab(S) == \A x, y \in S : x.id = y.id => x = y

\* First takes n elements, if there are as many, and no other precedes them.
LEMMA FirstFacts ==
  ASSUME NEW S, S \subseteq Admitted, IsFiniteSet(S), OncePerSlab(S), NEW n \in Nat
  PROVE  /\ First(S, n) \subseteq S /\ IsFiniteSet(First(S, n))
         /\ Cardinality(First(S, n)) \in Nat /\ Cardinality(First(S, n)) <= n
         /\ \A x \in First(S, n), y \in S \ First(S, n) : Less(x, y)
         /\ First(S, n) # S => Cardinality(First(S, n)) = n
<1>. DEFINE B(x) == {y \in S : Less(y, x)}
            F == {x \in S : Cardinality(B(x)) < n}
            below == [x \in S |-> B(x)]
<1>1. First(S, n) = F
  BY DEF First
<1>2. below \in [S -> SUBSET S]
  OBVIOUS
<1>3. /\ \A x \in S : x \notin below[x]
      /\ \A x, y \in S : y \in below[x] => below[y] \subseteq below[x]
      /\ \A x, y \in S : x # y => x \in below[y] \/ y \in below[x]
  BY LessOrder DEF OncePerSlab
<1>4. F \subseteq S /\ \A x \in S : x \in F <=> Cardinality(below[x]) < n
  OBVIOUS
<1>5. Cardinality(S) \in Nat
  BY FS_CardinalityType
<1>6. ASSUME n \in 0..Cardinality(S) PROVE Cardinality(F) = n
  <2>. HIDE DEF F, below
  <2>. QED  BY <1>2, <1>3, <1>4, <1>6, Ranked
<1>7. ASSUME n > Cardinality(S) PROVE F = S
  <2>. SUFFICES ASSUME NEW x \in S PROVE Cardinality(B(x)) < n
    OBVIOUS
  <2>1. B(x) \subseteq S
    OBVIOUS
  <2>. HIDE DEF B
  <2>2. Cardinality(B(x)) \in Nat /\ Cardinality(B(x)) <= Cardinality(S)
    BY <2>1, ProperSubset
  <2>. QED  BY <2>2, <1>5, <1>7
<1>8. \A x \in F, y \in S \ F : Less(x, y)
  <2>. SUFFICES ASSUME NEW x \in F, NEW y \in S, y \notin F, ~Less(x, y) PROVE FALSE
    OBVIOUS
  <2>1. Less(y, x)
    BY LessOrder DEF OncePerSlab
  <2>2. B(y) \subseteq B(x) /\ B(x) \subseteq S
    BY <2>1, LessOrder
  <2>3. ~(Cardinality(B(y)) < n) /\ Cardinality(B(x)) < n
    OBVIOUS
  <2>. HIDE DEF B
  <2>4. IsFiniteSet(B(x)) /\ Cardinality(B(x)) \in Nat
    BY <2>2, ProperSubset
  <2>5. Cardinality(B(y)) \in Nat /\ Cardinality(B(y)) <= Cardinality(B(x))
    BY <2>2, <2>4, ProperSubset
  <2>. QED  BY <2>3, <2>4, <2>5
<1>9. F \subseteq S
  OBVIOUS
<1>. HIDE DEF F
<1>10. IsFiniteSet(F) /\ Cardinality(F) \in Nat
  BY <1>9, ProperSubset
<1>11. Cardinality(F) <= n
  BY <1>5, <1>6, <1>7, <1>10
<1>. QED  BY <1>1, <1>5, <1>6, <1>7, <1>8, <1>9, <1>10, <1>11

LEMMA OncePerSlabFinite ==
  ASSUME NEW S, S \subseteq Admitted, OncePerSlab(S)
  PROVE  IsFiniteSet(S)
<1>. DEFINE f == [x \in S |-> x.id]
<1>1. IsFiniteSet(Ids)
  BY FS_Interval, BoundsAssumption DEF Ids
<1>2. f \in Injection(S, Ids)
  BY DEF Injection, IsInjective, OncePerSlab, Admitted
<1>. QED  BY <1>1, <1>2, FS_Injection

-----------------------------------------------------------------------------
(* A page *)

LEMMA Greatest ==
  ASSUME NEW S, S \subseteq Nat, IsFiniteSet(S), S # {}
  PROVE  \E m \in S : \A t \in S : t <= m
<1>. DEFINE below == [x \in S |-> {y \in S : y > x}]
            T == {x \in S : Cardinality(below[x]) < 1}
<1>1. below \in [S -> SUBSET S]
  OBVIOUS
<1>2. /\ \A x \in S : x \notin below[x]
      /\ \A x, y \in S : y \in below[x] => below[y] \subseteq below[x]
      /\ \A x, y \in S : x # y => x \in below[y] \/ y \in below[x]
  <2>1. /\ \A x \in S : x \in Int
        /\ \A x, y \in S : y \in below[x] <=> y > x
        /\ \A x \in S : below[x] \subseteq S
    OBVIOUS
  <2>. HIDE DEF below
  <2>2. \A x \in S : x \notin below[x]
    BY <2>1
  <2>3. \A x, y \in S : x # y => x \in below[y] \/ y \in below[x]
    BY <2>1
  <2>4. ASSUME NEW x \in S, NEW y \in S, y \in below[x] PROVE below[y] \subseteq below[x]
    <3>. SUFFICES ASSUME NEW z \in below[y] PROVE z \in below[x]
      OBVIOUS
    <3>1. z \in S /\ z > y /\ y > x
      BY <2>1, <2>4
    <3>. QED  BY <2>1, <3>1
  <2>. QED  BY <2>2, <2>3, <2>4
<1>3. 1 \in 0..Cardinality(S)
  BY FS_EmptySet, FS_CardinalityType
<1>4. T \subseteq S /\ \A x \in S : x \in T <=> Cardinality(below[x]) < 1
  OBVIOUS
<1>5. Cardinality(T) = 1
  <2>. HIDE DEF T, below
  <2>. QED  BY <1>1, <1>2, <1>3, <1>4, Ranked
<1>6. PICK x : x \in T
  <2>. HIDE DEF T
  <2>1. T # {}
    BY <1>5, FS_EmptySet
  <2>. QED  BY <2>1
<1>7. below[x] = {}
  <2>1. below[x] \subseteq S
    BY <1>6
  <2>2. IsFiniteSet(below[x]) /\ Cardinality(below[x]) \in Nat
    <3>. HIDE DEF below
    <3>. QED  BY <2>1, ProperSubset
  <2>3. Cardinality(below[x]) = 0
    BY <1>6, <2>2
  <2>. HIDE DEF below
  <2>. QED  BY <2>2, <2>3, FS_EmptySet
<1>. QED  BY <1>6, <1>7

\* A page goes up to a slab without leaving one out, and a short page is the last.
LEMMA PageFacts ==
  ASSUME TypeOK
  PROVE  /\ Page \subseteq Listed /\ \A s \in Page : after < s
         /\ Page # {} => \E m \in Page : \A t \in Page : t <= m
         /\ \A t \in Page, s \in Listed : after < s /\ s <= t => s \in Page
         /\ Cardinality(Page) < BatchSize => \A s \in Listed : after < s => s \in Page
<1>. DEFINE S == {s \in Listed : after < s}
            B(s) == {t \in Listed : after < t /\ t < s}
            below == [s \in S |-> B(s)]
<1>1. S \subseteq Nat /\ IsFiniteSet(S) /\ Listed \subseteq Nat
  <2>1. IsFiniteSet(Ids) /\ Ids \subseteq Nat
    BY FS_Interval, BoundsAssumption DEF Ids
  <2>2. S \subseteq Ids /\ Listed \subseteq Ids
    BY DEF Listed, Stored
  <2>. HIDE DEF S
  <2>. QED  BY <2>1, <2>2, ProperSubset
<1>2. Page = {s \in S : Cardinality(B(s)) < BatchSize}
  BY DEF Page
<1>3. IsFiniteSet(Page) /\ Page \subseteq S
  <2>1. Page \subseteq S
    BY <1>2
  <2>. QED  BY <1>1, <2>1, ProperSubset
<1>4. Page # {} => \E m \in Page : \A t \in Page : t <= m
  BY <1>1, <1>3, Greatest
<1>5. ASSUME NEW t \in Page, NEW s \in Listed, after < s, s <= t PROVE s \in Page
  <2>1. B(s) \subseteq B(t) /\ B(t) \subseteq S
    BY <1>1, <1>3, <1>5 DEF TypeOK
  <2>2. Cardinality(B(t)) < BatchSize
    BY <1>2
  <2>3. Cardinality(B(s)) < BatchSize
    <3>. HIDE DEF B, S
    <3>1. IsFiniteSet(B(t)) /\ Cardinality(B(t)) \in Nat
      BY <1>1, <2>1, ProperSubset
    <3>2. Cardinality(B(s)) \in Nat /\ Cardinality(B(s)) <= Cardinality(B(t))
      BY <2>1, <3>1, ProperSubset
    <3>. QED  BY <2>2, <3>1, <3>2, BoundsAssumption
  <2>. QED  BY <1>2, <1>5, <2>3
<1>6. ASSUME Cardinality(Page) < BatchSize, NEW s \in Listed, after < s, s \notin Page PROVE FALSE
  <2>1. below \in [S -> SUBSET S]
    OBVIOUS
  <2>2. /\ \A x \in S : x \notin below[x]
        /\ \A x, y \in S : y \in below[x] => below[y] \subseteq below[x]
        /\ \A x, y \in S : x # y => x \in below[y] \/ y \in below[x]
    BY <1>1
  <2>3. \A x \in S : x \in Page <=> Cardinality(below[x]) < BatchSize
    BY <1>2
  <2>4. s \in S /\ ~(Cardinality(below[s]) < BatchSize)
    BY <1>6, <2>3
  <2>. HIDE DEF below, S
  <2>5. Cardinality(below[s]) \in Nat /\ Cardinality(below[s]) < Cardinality(S)
    BY <1>1, <2>1, <2>2, <2>4, ProperSubset
  <2>6. BatchSize \in 0..Cardinality(S)
    BY <2>4, <2>5, <1>1, FS_CardinalityType, BoundsAssumption
  <2>7. Cardinality(Page) = BatchSize
    BY <1>1, <1>3, <2>1, <2>2, <2>3, <2>6, Ranked
  <2>. QED  BY <1>6, <2>7, BoundsAssumption
<1>. QED  BY <1>3, <1>4, <1>5, <1>6

-----------------------------------------------------------------------------
(* Cutting twice *)

\* What a first cut leaves out, a later cut with more candidates leaves out too.
LEMMA CutTwice ==
  ASSUME NEW V, V \subseteq Admitted, OncePerSlab(V), NEW n \in Nat,
         NEW S, NEW T, V = S \cup T, NEW F, F = First(S, n),
         NEW U, U = F \cup T
  PROVE  First(U, n) = First(V, n)
<1>. DEFINE InU(x) == {y \in U : Less(y, x)}
            InV(x) == {y \in V : Less(y, x)}
<1>1. IsFiniteSet(V) /\ IsFiniteSet(S) /\ OncePerSlab(S)
  <2>1. IsFiniteSet(V)
    BY OncePerSlabFinite
  <2>2. IsFiniteSet(S)
    BY <2>1, FS_Subset
  <2>. QED  BY <2>1, <2>2 DEF OncePerSlab
<1>2. /\ F \subseteq S /\ IsFiniteSet(F)
      /\ \A x \in F, y \in S \ F : Less(x, y)
      /\ F # S => Cardinality(F) = n
  BY <1>1, FirstFacts
<1>3. First(U, n) = {x \in U : Cardinality(InU(x)) < n}
  BY DEF First
<1>4. First(V, n) = {x \in V : Cardinality(InV(x)) < n}
  BY DEF First
<1>5. \A x \in V : InU(x) \subseteq InV(x) /\ InV(x) \subseteq V
  BY <1>2
<1>6. ASSUME NEW x \in V, NEW z \in S \ F, z = x \/ Less(z, x)
      PROVE  ~(Cardinality(InU(x)) < n) /\ ~(Cardinality(InV(x)) < n)
  <2>1. F \subseteq InU(x)
    <3>. SUFFICES ASSUME NEW y \in F PROVE Less(y, x)
      OBVIOUS
    <3>1. Less(y, z) /\ y \in Admitted /\ z \in Admitted /\ x \in Admitted
      BY <1>2
    <3>. QED  BY <1>6, <3>1, LessOrder
  <2>2. Cardinality(F) = n
    BY <1>2
  <2>. HIDE DEF InU, InV
  <2>3. /\ IsFiniteSet(InV(x)) /\ Cardinality(InV(x)) \in Nat
        /\ IsFiniteSet(InU(x)) /\ Cardinality(InU(x)) \in Nat
        /\ Cardinality(InU(x)) <= Cardinality(InV(x))
    BY <1>1, <1>5, ProperSubset
  <2>4. Cardinality(F) <= Cardinality(InU(x))
    BY <2>1, <2>3, ProperSubset
  <2>. QED  BY <2>2, <2>3, <2>4
<1>7. ASSUME NEW x \in V, \A z \in S \ F : ~(z = x \/ Less(z, x))
      PROVE  x \in U /\ InU(x) = InV(x)
  BY <1>2, <1>7
<1>8. \A x \in V : x \in First(U, n) <=> x \in First(V, n)
  <2>. SUFFICES ASSUME NEW x \in V PROVE x \in First(U, n) <=> x \in First(V, n)
    OBVIOUS
  <2>1. CASE \E z \in S \ F : z = x \/ Less(z, x)
    BY <1>3, <1>4, <1>6, <2>1
  <2>2. CASE \A z \in S \ F : ~(z = x \/ Less(z, x))
    <3>1. x \in U /\ InU(x) = InV(x)
      BY <1>7, <2>2
    <3>. HIDE DEF InU, InV
    <3>. QED  BY <1>3, <1>4, <3>1
  <2>. QED  BY <2>1, <2>2
<1>9. First(U, n) \subseteq V /\ First(V, n) \subseteq V
  BY <1>2, <1>3, <1>4
<1>. QED  BY <1>8, <1>9

-----------------------------------------------------------------------------
(* The inductive invariant *)

\* The slabs admitted so far are among those scanned.
Chosen ==
  /\ OncePerSlab(selected)
  /\ \A x \in selected : x.id <= after

\* What is still listed has been evaluated, up to the last slab scanned.
Seen ==
  /\ present \subseteq Listed
  /\ pc = "scan" => \A s \in present : s <= after => judged[s] # None

\* What was evaluated is remembered under its own id.
Remembered == \A s \in Ids : judged[s] # None => judged[s].id = s /\ s <= after

\* The cut after each page leaves what one cut of all pages so far would leave.
CutIsExact == pc \in {"scan", "expire"} => selected = First(Admissible, MaxRepairQueue)

\* An admission with a valid estimate is on its own account, or is owed to the
\* hysteresis of the same policy.
Owed ==
  pc \in {"scan", "expire", "persist"} =>
    /\ prev = IF setting # None /\ setting.policy = policy THEN setting.queued ELSE {}
    /\ \A x \in selected :
          x.risk.valid => x.risk.emergency \/ x.risk.loss >= Entry \/ x.id \in prev

RInv ==
  /\ TypeOK /\ Chosen /\ Seen /\ StableSlabsScanned /\ Remembered /\ CutIsExact
  /\ ExpiryDropsOnlyTheStale /\ Owed /\ HysteresisHasCause

LEMMA InitRInv == Init => RInv
<1>. SUFFICES ASSUME Init PROVE RInv
  OBVIOUS
<1>1. Cardinality(selected) = 0
  BY FS_EmptySet DEF Init
<1>2. slabs \in [Ids -> SlabRecord \cup {None}]
  <2>1. TTL \in Nat
    BY BoundsAssumption
  <2>2. \A e \in Evidence : [e EXCEPT !.until = TTL] \in SlabRecord
    BY <2>1, EvidenceAssumption DEF SlabRecord
  <2>. QED  BY <2>2 DEF Init
<1>3. AllCached \in [Ids -> BOOLEAN \cup {None}]
  BY <1>2 DEF AllCached, SlabRecord
<1>4. TypeOK
  BY <1>1, <1>2, <1>3, BoundsAssumption DEF Init, TypeOK
<1>. QED  BY <1>4 DEF Init, RInv, Chosen, OncePerSlab, Seen, StableSlabsScanned, Scanned,
                     Remembered, CutIsExact, ExpiryDropsOnlyTheStale, Owed, HysteresisHasCause

-----------------------------------------------------------------------------
(* The environment.  It leaves the scan alone, what it deletes or unlists  *)
(* is no longer present, and time only passes.                             *)

LEMMA Outside ==
  ASSUME RInv, TypeOK', present' \subseteq present, present' \subseteq Listed', clock <= clock',
         UNCHANGED <<policy, setting, pc, scan, streak>>
  PROVE  RInv'
<1>. USE DEF scan
<1>1. Chosen' /\ Remembered' /\ Owed' /\ HysteresisHasCause'
  BY DEF RInv, Chosen, OncePerSlab, Remembered, Owed, HysteresisHasCause
<1>2. Seen' /\ StableSlabsScanned'
  BY DEF RInv, Seen, StableSlabsScanned, Scanned
<1>3. Admissible' = Admissible
  BY DEF Admissible, Queued
<1>4. CutIsExact'
  BY <1>3 DEF RInv, CutIsExact
<1>5. ExpiryDropsOnlyTheStale'
  <2>. SUFFICES ASSUME pc \in {"persist", "reply"}, NEW x \in First(Admissible, MaxRepairQueue),
                       \/ x.risk.emergency
                       \/ x.unhealthy
                       \/ x.risk.valid /\ clock' < x.risk.until
                PROVE  \E y \in selected : y.id = x.id
    BY <1>3 DEF ExpiryDropsOnlyTheStale
  <2>1. x \in Admissible /\ Admissible \subseteq Admitted
    BY DEF First, Admissible, RInv, TypeOK
  <2>2. x.risk.until \in Nat /\ clock \in Nat /\ clock' \in Nat
    BY <2>1 DEF RInv, TypeOK, Admitted, Risk
  <2>3. \/ x.risk.emergency
        \/ x.unhealthy
        \/ x.risk.valid /\ clock < x.risk.until
    BY <2>2
  <2>. QED  BY <2>3 DEF RInv, ExpiryDropsOnlyTheStale
<1>. QED  BY <1>1, <1>2, <1>4, <1>5 DEF RInv

LEMMA EvidenceOfASlab ==
  ASSUME TypeOK, NEW e \in Evidence
  PROVE  [e EXCEPT !.until = clock + TTL] \in SlabRecord
<1>1. clock + TTL \in Nat
  BY BoundsAssumption DEF TypeOK
<1>. QED  BY <1>1, EvidenceAssumption DEF SlabRecord

LEMMA TickRInv == RInv /\ Tick => RInv'
<1>. SUFFICES ASSUME RInv, Tick PROVE RInv'
  OBVIOUS
<1>1. TypeOK' /\ clock <= clock'
  BY BoundsAssumption DEF RInv, Tick, TypeOK, store, call, scan
<1>2. present' \subseteq present /\ present' \subseteq Listed'
  BY DEF RInv, Tick, Seen, Listed, Stored, store
<1>. QED  BY <1>1, <1>2, Outside DEF Tick

\* All but the store stays as it is.
LEMMA OutsideStore ==
  ASSUME RInv, UNCHANGED <<clock, policy, setting, pc, call, scan, result, streak>>,
         slabs' \in [Ids -> SlabRecord \cup {None}], cached' \in [Ids -> BOOLEAN \cup {None}],
         lastId' \in 0..MaxId, changes' \in 0..MaxChanges,
         present' \subseteq present, present' \subseteq Listed'
  PROVE  RInv'
<1>1. TypeOK' /\ clock <= clock'
  BY BoundsAssumption DEF RInv, TypeOK, call, scan
<1>. QED  BY <1>1, Outside

LEMMA RescanRInv == ASSUME NEW s \in Ids, RInv, Rescan(s) PROVE RInv'
<1>1. PICK e \in Evidence : slabs' = [slabs EXCEPT ![s] = [e EXCEPT !.until = clock + TTL]]
  BY DEF Rescan
<1>2. [e EXCEPT !.until = clock + TTL] \in SlabRecord
  BY EvidenceOfASlab DEF RInv
<1>3. slabs' \in [Ids -> SlabRecord \cup {None}]
  BY <1>1, <1>2 DEF RInv, TypeOK
<1>4. changes' \in 0..MaxChanges /\ lastId' \in 0..MaxId /\ cached' \in [Ids -> BOOLEAN \cup {None}]
  BY BoundsAssumption DEF RInv, Rescan, TypeOK
<1>5. present' = present /\ Listed \subseteq Listed'
  BY <1>1, <1>2, NoneAssumption DEF RInv, Rescan, TypeOK, Listed, Stored
<1>. QED  BY <1>3, <1>4, <1>5, OutsideStore DEF Rescan, RInv, Seen

LEMMA LapseRInv == ASSUME NEW s \in Ids, RInv, Lapse(s) PROVE RInv'
<1>1. /\ changes' \in 0..MaxChanges /\ lastId' \in 0..MaxId /\ slabs' = slabs
      /\ slabs' \in [Ids -> SlabRecord \cup {None}] /\ cached' \in [Ids -> BOOLEAN \cup {None}]
  BY BoundsAssumption DEF RInv, Lapse, TypeOK
<1>2. present' \subseteq present /\ present' \subseteq Listed'
  BY <1>1 DEF RInv, Lapse, TypeOK, Seen, Listed, Stored
<1>. QED  BY <1>1, <1>2, OutsideStore DEF Lapse

LEMMA RefreshRInv == ASSUME NEW s \in Ids, RInv, Refresh(s) PROVE RInv'
<1>1. slabs[s].unhealthy \in BOOLEAN
  BY DEF RInv, Refresh, TypeOK, SlabRecord
<1>2. /\ changes' \in 0..MaxChanges /\ lastId' \in 0..MaxId /\ slabs' = slabs
      /\ slabs' \in [Ids -> SlabRecord \cup {None}] /\ cached' \in [Ids -> BOOLEAN \cup {None}]
  BY <1>1 DEF RInv, Refresh, TypeOK
<1>3. present' = present /\ Listed \subseteq Listed'
  BY <1>1, <1>2, NoneAssumption DEF RInv, Refresh, TypeOK, Listed, Stored
<1>. QED  BY <1>2, <1>3, OutsideStore DEF Refresh, RInv, Seen

LEMMA UploadRInv == RInv /\ Upload => RInv'
<1>. SUFFICES ASSUME RInv, Upload PROVE RInv'
  OBVIOUS
<1>1. PICK e \in Evidence : slabs' = [slabs EXCEPT ![lastId'] = [e EXCEPT !.until = clock + TTL]]
  BY DEF Upload
<1>2. [e EXCEPT !.until = clock + TTL] \in SlabRecord
  BY EvidenceOfASlab DEF RInv
<1>3. lastId' \in Ids
  BY BoundsAssumption DEF RInv, Upload, TypeOK, Ids
<1>4. slabs' \in [Ids -> SlabRecord \cup {None}]
  BY <1>1, <1>2, <1>3 DEF RInv, TypeOK
<1>5. changes' \in 0..MaxChanges /\ lastId' \in 0..MaxId /\ cached' \in [Ids -> BOOLEAN \cup {None}]
  BY BoundsAssumption DEF RInv, Upload, TypeOK
<1>6. present' = present /\ Listed \subseteq Listed'
  BY <1>1, <1>2, <1>3, NoneAssumption DEF RInv, Upload, TypeOK, Listed, Stored
<1>. QED  BY <1>4, <1>5, <1>6, OutsideStore DEF Upload, RInv, Seen

LEMMA DeleteRInv == ASSUME NEW s \in Ids, RInv, Delete(s) PROVE RInv'
<1>1. /\ changes' \in 0..MaxChanges /\ lastId' \in 0..MaxId
      /\ slabs' \in [Ids -> SlabRecord \cup {None}] /\ cached' \in [Ids -> BOOLEAN \cup {None}]
  BY BoundsAssumption DEF RInv, Delete, TypeOK
<1>2. present' \subseteq present /\ present' \subseteq Listed'
  BY DEF RInv, Delete, TypeOK, Seen, Listed, Stored
<1>. QED  BY <1>1, <1>2, OutsideStore DEF Delete

-----------------------------------------------------------------------------
(* The call *)

LEMMA Forgotten ==
  ASSUME RInv, TypeOK', Forget, pc' = "idle", UNCHANGED <<setting, streak>>
  PROVE  RInv'
BY DEF RInv, Forget, Chosen, OncePerSlab, Seen, StableSlabsScanned, Scanned, Remembered,
       CutIsExact, ExpiryDropsOnlyTheStale, Owed, HysteresisHasCause

LEMMA ForgetTypes ==
  ASSUME Forget
  PROVE  /\ prev' \subseteq Ids /\ after' \in 0..MaxId
         /\ selected' \subseteq Admitted /\ Cardinality(selected') <= MaxRepairQueue
         /\ present' \subseteq Ids /\ judged' \in [Ids -> Admitted \cup {None}]
         /\ depth' \in Nat /\ pass' \in {1, 2}
<1>1. Cardinality({}) = 0
  BY FS_EmptySet
<1>. QED  BY <1>1, BoundsAssumption DEF Forget

LEMMA FallbackRInv == RInv /\ Fallback => RInv'
<1>. SUFFICES ASSUME RInv, Fallback PROVE RInv'
  OBVIOUS
<1>1. TypeOK'
  BY ForgetTypes DEF RInv, Fallback, TypeOK, Listed, Stored
<1>. QED  BY <1>1, Forgotten DEF Fallback

LEMMA RestartRInv == RInv /\ Restart => RInv'
<1>. SUFFICES ASSUME RInv, Restart PROVE RInv'
  OBVIOUS
<1>1. TypeOK'
  BY ForgetTypes, BoundsAssumption DEF RInv, Restart, TypeOK
<1>. QED  BY <1>1, Forgotten DEF Restart

LEMMA StartRInv == RInv /\ Start => RInv'
<1>. SUFFICES ASSUME RInv, Start PROVE RInv'
  OBVIOUS
<1>1. TypeOK'
  BY DEF RInv, Start, TypeOK, store, scan
<1>. QED  BY <1>1 DEF RInv, Start, store, scan, Chosen, OncePerSlab, Seen,
                     Listed, Stored, StableSlabsScanned, Scanned, Remembered, CutIsExact,
                     ExpiryDropsOnlyTheStale, Owed, HysteresisHasCause

LEMMA ReadRInv == RInv /\ Read => RInv'
<1>. SUFFICES ASSUME RInv, Read PROVE RInv'
  OBVIOUS
<1>1. Cardinality({}) = 0
  BY FS_EmptySet
<1>2. prev' \subseteq Ids
  BY DEF RInv, Read, TypeOK, State
<1>3. TypeOK'
  BY <1>1, <1>2, BoundsAssumption DEF RInv, Read, TypeOK, call, Listed, Stored
<1>4. Seen' /\ StableSlabsScanned' /\ Remembered'
  BY DEF RInv, Read, Seen, Listed, Stored, StableSlabsScanned, Scanned, Remembered, TypeOK, Ids
<1>5. Admissible' = {}
  BY DEF Read, Admissible
<1>6. CutIsExact' /\ ExpiryDropsOnlyTheStale'
  BY <1>5 DEF Read, CutIsExact, First, ExpiryDropsOnlyTheStale
<1>7. Chosen' /\ Owed' /\ HysteresisHasCause'
  BY DEF RInv, Read, Chosen, OncePerSlab, Owed, HysteresisHasCause
<1>. QED  BY <1>3, <1>4, <1>6, <1>7 DEF RInv

LEMMA PersistRInv == RInv /\ Persist => RInv'
<1>. SUFFICES ASSUME RInv, Persist PROVE RInv'
  OBVIOUS
<1>1. ValidIds(selected) \subseteq Ids /\ OnOwnAccount \subseteq Ids
  BY DEF RInv, TypeOK, Admitted, ValidIds, OnOwnAccount
<1>2. TypeOK'
  BY <1>1 DEF RInv, Persist, TypeOK, State, store, scan, call, StreakAfter
<1>3. ValidIds(selected) \subseteq StreakAfter
  <2>. SUFFICES ASSUME NEW x \in selected, x.risk.valid PROVE x.id \in StreakAfter
    BY DEF ValidIds
  <2>1. x.risk.emergency \/ x.risk.loss >= Entry \/ x.id \in prev
    BY DEF RInv, Persist, Owed
  <2>2. CASE x.risk.emergency \/ x.risk.loss >= Entry
    BY <2>2 DEF StreakAfter, OnOwnAccount
  <2>3. CASE x.id \in prev
    <3>1. setting # None /\ setting.policy = policy /\ x.id \in setting.queued
      BY <2>3 DEF RInv, Persist, Owed
    <3>2. x.id \in streak /\ x.id \in ValidIds(selected)
      BY <3>1 DEF RInv, HysteresisHasCause, ValidIds
    <3>. QED  BY <3>1, <3>2 DEF StreakAfter
  <2>. QED  BY <2>1, <2>2, <2>3
<1>4. HysteresisHasCause'
  BY <1>3 DEF Persist, HysteresisHasCause
<1>5. Chosen' /\ CutIsExact' /\ Owed' /\ Seen' /\ StableSlabsScanned' /\ Remembered'
  BY DEF RInv, Persist, Chosen, OncePerSlab, CutIsExact, Owed, Seen, Listed, Stored,
         StableSlabsScanned, Scanned, Remembered, store, scan
<1>6. Admissible' = Admissible
  BY DEF Persist, Admissible, Queued, scan
<1>7. ExpiryDropsOnlyTheStale'
  BY <1>6 DEF RInv, Persist, ExpiryDropsOnlyTheStale, scan
<1>. QED  BY <1>2, <1>4, <1>5, <1>7 DEF RInv

LEMMA ReturnRInv == RInv /\ Return => RInv'
<1>. SUFFICES ASSUME RInv, Return PROVE RInv'
  OBVIOUS
<1>1. CASE pass = 1 /\ Cardinality(selected) > depth
  <2>0. Cardinality(selected) \in Nat
    BY OncePerSlabFinite, FS_CardinalityType DEF RInv, TypeOK, Chosen
  <2>1. TypeOK'
    BY <1>1, <2>0 DEF RInv, Return, TypeOK, scan
  <2>. QED  BY <1>1, <2>1 DEF RInv, Return, scan, Chosen, OncePerSlab, Seen,
                     Listed, Stored, StableSlabsScanned, Scanned, Remembered, CutIsExact,
                     ExpiryDropsOnlyTheStale, Owed, HysteresisHasCause
<1>2. CASE ~(pass = 1 /\ Cardinality(selected) > depth)
  <2>1. {x.id : x \in selected} \subseteq Ids
    BY DEF RInv, TypeOK, Admitted
  <2>2. TypeOK'
    BY <1>2, <2>1, ForgetTypes DEF RInv, Return, TypeOK
  <2>. QED  BY <1>2, <2>2, Forgotten DEF Return
<1>. QED  BY <1>1, <1>2

LEMMA ExpireRInv == RInv /\ Expire => RInv'
<1>. SUFFICES ASSUME RInv, Expire PROVE RInv'
  OBVIOUS
<1>. DEFINE Stay == {y \in selected : Kept(y)}
            Checked(x) == [x EXCEPT !.risk.valid = x.risk.valid /\ ~Expired(x)]
<1>1. selected' = {Checked(x) : x \in Stay}
  BY DEF Expire
<1>2. ASSUME NEW x \in selected
      PROVE  /\ Checked(x) \in Admitted /\ Checked(x).id = x.id
             /\ Checked(x).risk.emergency = x.risk.emergency
             /\ Checked(x).risk.loss = x.risk.loss
             /\ Checked(x).risk.valid => x.risk.valid
  BY DEF RInv, TypeOK, Admitted, Risk, Expired
<1>. HIDE DEF Checked
<1>3. Stay \subseteq selected /\ selected \subseteq Admitted
  BY DEF RInv, TypeOK
<1>. HIDE DEF Stay
<1>4. selected' \subseteq Admitted
  BY <1>1, <1>2, <1>3
<1>5. Cardinality(selected') <= MaxRepairQueue
  <2>1. IsFiniteSet(selected) /\ Cardinality(selected) <= MaxRepairQueue
    BY OncePerSlabFinite DEF RInv, TypeOK, Chosen
  <2>2. /\ IsFiniteSet(Stay) /\ Cardinality(Stay) \in Nat /\ Cardinality(selected) \in Nat
        /\ Cardinality(Stay) <= Cardinality(selected)
    BY <1>3, <2>1, ProperSubset
  <2>. DEFINE f == [x \in Stay |-> Checked(x)]
  <2>3. f \in Surjection(Stay, selected')
    BY <1>1 DEF Surjection
  <2>4. IsFiniteSet(selected') /\ Cardinality(selected') <= Cardinality(Stay)
    BY <2>2, <2>3, FS_Surjection
  <2>5. Cardinality(selected') \in Nat
    BY <2>4, FS_CardinalityType
  <2>. QED  BY <2>1, <2>2, <2>4, <2>5, BoundsAssumption
<1>6. TypeOK'
  BY <1>4, <1>5 DEF RInv, Expire, TypeOK, store, call
<1>7. Chosen'
  <2>1. after' = after
    BY DEF Expire
  <2>2. \A z \in selected' : \E x \in Stay : z = Checked(x)
    BY <1>1
  <2>3. Chosen
    BY DEF RInv
  <2>4. \A z \in selected' : z.id <= after'
    BY <1>2, <1>3, <2>1, <2>2, <2>3 DEF Chosen
  <2>5. ASSUME NEW y \in selected', NEW z \in selected', y.id = z.id
        PROVE  y = z
    <3>1. PICK u \in Stay : y = Checked(u)
      BY <2>2
    <3>2. PICK v \in Stay : z = Checked(v)
      BY <2>2
    <3>3. u \in selected /\ v \in selected /\ u.id = v.id
      BY <1>2, <1>3, <2>5, <3>1, <3>2
    <3>4. u = v
      BY <2>3, <3>3 DEF Chosen, OncePerSlab
    <3>. QED  BY <3>1, <3>2, <3>4
  <2>. QED  BY <2>4, <2>5 DEF Chosen, OncePerSlab
<1>8. Owed'
  BY <1>1, <1>2, <1>3 DEF RInv, Expire, Owed
<1>9. Seen' /\ StableSlabsScanned' /\ Remembered' /\ CutIsExact' /\ HysteresisHasCause'
  BY DEF RInv, Expire, Seen, Listed, Stored, StableSlabsScanned, Scanned, Remembered,
         CutIsExact, HysteresisHasCause, store
<1>10. ExpiryDropsOnlyTheStale'
  <2>1. Admissible' = Admissible /\ clock' = clock
    BY DEF Expire, Admissible, Queued
  <2>2. selected = First(Admissible, MaxRepairQueue)
    BY DEF RInv, Expire, CutIsExact
  <2>. SUFFICES ASSUME NEW x \in selected,
                       \/ x.risk.emergency
                       \/ x.unhealthy
                       \/ x.risk.valid /\ clock < x.risk.until
                PROVE  \E y \in selected' : y.id = x.id
    BY <2>1, <2>2 DEF ExpiryDropsOnlyTheStale
  <2>3. clock \in Int /\ x.risk.until \in Int
    BY <1>3 DEF RInv, TypeOK, Admitted, Risk
  <2>4. x \in Stay
    BY <2>3 DEF Stay, Kept, Expired
  <2>. QED  BY <1>1, <1>2, <2>4
<1>. QED  BY <1>6, <1>7, <1>8, <1>9, <1>10 DEF RInv

-----------------------------------------------------------------------------
(* One page *)

LEMMA CandidateType ==
  ASSUME TypeOK, NEW s \in Listed
  PROVE  Candidate(s) \in Admitted /\ Candidate(s).id = s /\ s \in Ids
<1>1. slabs[s] \in SlabRecord /\ cached[s] \in BOOLEAN /\ s \in Ids
  BY DEF TypeOK, Listed, Stored
<1>2. Assess(slabs[s]) \in Risk
  BY <1>1 DEF Assess, Risk, SlabRecord, TypeOK
<1>. QED  BY <1>1, <1>2 DEF Candidate, Admitted

\* The admissions of a page are new, and one per slab.
LEMMA AdmissionsFacts ==
  ASSUME TypeOK, Chosen
  PROVE  /\ selected \cup Admissions \subseteq Admitted
         /\ OncePerSlab(selected \cup Admissions)
         /\ \A a \in Admissions : a.id \in Page /\ a = Candidate(a.id) /\ Queued(a)
<1>1. Page \subseteq Listed /\ \A s \in Page : after < s
  BY PageFacts
<1>2. \A s \in Page : Candidate(s) \in Admitted /\ Candidate(s).id = s /\ s \in Ids
  BY <1>1, CandidateType
<1>3. \A a : a \in Admissions <=> Queued(a) /\ \E s \in Page : a = Candidate(s)
  BY DEF Admissions
<1>4. \A a \in Admissions : a \in Admitted /\ a.id \in Page /\ a = Candidate(a.id) /\ Queued(a)
  BY <1>2, <1>3
<1>5. \A x \in selected, a \in Admissions : x.id # a.id
  BY <1>1, <1>4 DEF Chosen, TypeOK, Admitted, Ids
<1>6. OncePerSlab(selected \cup Admissions)
  BY <1>4, <1>5 DEF Chosen, OncePerSlab
<1>. QED  BY <1>4, <1>6 DEF TypeOK

LEMMA ScanPageFacts ==
  ASSUME TypeOK, Chosen, ScanPage
  PROVE  /\ selected' \subseteq selected \cup Admissions
         /\ IsFiniteSet(selected') /\ Cardinality(selected') \in Nat
         /\ Cardinality(selected') <= MaxRepairQueue
         /\ \A x \in selected', y \in (selected \cup Admissions) \ selected' : Less(x, y)
         /\ selected' # selected \cup Admissions => Cardinality(selected') = MaxRepairQueue
         /\ \A s \in Page : after < s /\ s <= after'
         /\ \A s \in Listed : after < s /\ s <= after' => s \in Page
         /\ after <= after' /\ after' \in 0..MaxId
<1>1. selected' = First(selected \cup Admissions, MaxRepairQueue)
  BY DEF ScanPage, Cut
<1>2. MaxRepairQueue \in Nat
  BY BoundsAssumption
<1>. DEFINE S == selected \cup Admissions
<1>3. S \subseteq Admitted /\ OncePerSlab(S)
  BY AdmissionsFacts
<1>. HIDE DEF S
<1>4. IsFiniteSet(S)
  BY <1>3, OncePerSlabFinite
<1>5. /\ First(S, MaxRepairQueue) \subseteq S /\ IsFiniteSet(First(S, MaxRepairQueue))
      /\ Cardinality(First(S, MaxRepairQueue)) \in Nat
      /\ Cardinality(First(S, MaxRepairQueue)) <= MaxRepairQueue
      /\ \A x \in First(S, MaxRepairQueue), y \in S \ First(S, MaxRepairQueue) : Less(x, y)
      /\ First(S, MaxRepairQueue) # S => Cardinality(First(S, MaxRepairQueue)) = MaxRepairQueue
  BY <1>2, <1>3, <1>4, FirstFacts
<1>6. Page \subseteq Ids /\ Listed \subseteq Ids
  BY PageFacts DEF Listed, Stored
<1>7. CASE Page = {}
  <2>1. after' = after
    BY <1>7 DEF ScanPage
  <2>2. after \in Int /\ after \in 0..MaxId /\ after <= after'
    BY <2>1, BoundsAssumption DEF TypeOK
  <2>3. \A s \in Listed : s \in Int
    BY <1>6 DEF Ids
  <2>4. \A s \in Listed : ~(after < s /\ s <= after')
    BY <2>1, <2>2, <2>3
  <2>. QED  BY <1>1, <1>5, <1>7, <2>1, <2>2, <2>4 DEF S
<1>8. CASE Page # {}
  <2>1. after' \in Page /\ \A t \in Page : t <= after'
    BY <1>8, PageFacts DEF ScanPage
  <2>2. \A s \in Page : after < s /\ s <= after'
    BY <2>1, PageFacts
  <2>3. \A s \in Listed : after < s /\ s <= after' => s \in Page
    BY <2>1, PageFacts
  <2>4. after <= after' /\ after' \in 0..MaxId
    <3>1. after' \in 1..MaxId /\ after < after'
      BY <1>6, <2>1, <2>2 DEF Ids
    <3>2. after \in Int /\ after' \in Int
      BY <3>1 DEF TypeOK
    <3>. QED  BY <3>1, <3>2, BoundsAssumption
  <2>. QED  BY <1>1, <1>5, <2>2, <2>3, <2>4 DEF S
<1>. QED  BY <1>7, <1>8

LEMMA ScanPageTypes ==
  ASSUME TypeOK, Chosen, ScanPage
  PROVE  TypeOK' /\ Chosen'
<1>1. /\ selected' \subseteq Admitted /\ OncePerSlab(selected')
      /\ Cardinality(selected') <= MaxRepairQueue
  BY ScanPageFacts, AdmissionsFacts DEF OncePerSlab
<1>2. judged' \in [Ids -> Admitted \cup {None}]
  <2>1. \A s \in Page : Candidate(s) \in Admitted
    BY PageFacts, CandidateType
  <2>. QED  BY <2>1 DEF ScanPage, TypeOK
<1>3. pc' \in {"scan", "expire"} /\ after' \in 0..MaxId
  BY ScanPageFacts DEF ScanPage
<1>4. TypeOK'
  BY <1>1, <1>2, <1>3 DEF ScanPage, TypeOK, store, call
<1>5. \A x \in selected' : x.id <= after'
  <2>1. \A x \in selected : x.id <= after /\ x.id \in Int
    BY DEF TypeOK, Chosen, Admitted, Ids
  <2>2. after \in Int /\ after' \in Int /\ after <= after'
    BY ScanPageFacts DEF TypeOK
  <2>3. \A x \in Admissions : x.id <= after'
    BY AdmissionsFacts, ScanPageFacts
  <2>. QED  BY <2>1, <2>2, <2>3, ScanPageFacts
<1>. QED  BY <1>1, <1>4, <1>5 DEF Chosen

LEMMA ScanPageSeen ==
  ASSUME RInv, ScanPage
  PROVE  Seen' /\ StableSlabsScanned'
<1>1. \A s \in Page : s \in Ids /\ judged'[s] # None
  <2>1. \A s \in Page : s \in Ids /\ Candidate(s) # None
    BY PageFacts, CandidateType, NoneAssumption DEF RInv
  <2>. QED  BY <2>1 DEF ScanPage
<1>2. \A s \in Ids : judged[s] # None => judged'[s] # None
  BY <1>1 DEF ScanPage
<1>3. present' \subseteq Listed' /\ Listed' = Listed /\ present' = present
  BY DEF RInv, ScanPage, Seen, Listed, Stored, store
<1>4. \A s \in present : s \in Listed /\ s \in Ids /\ s \in Int
  BY DEF RInv, Seen, Listed, Stored, Ids
<1>5. \A s \in present : s <= after => judged'[s] # None
  BY <1>2, <1>4 DEF RInv, ScanPage, Seen
<1>6. \A s \in present : s <= after' => judged'[s] # None
  <2>. SUFFICES ASSUME NEW s \in present, s <= after' PROVE judged'[s] # None
    OBVIOUS
  <2>1. CASE after < s
    BY <1>1, <1>4, <2>1, ScanPageFacts DEF RInv
  <2>2. CASE ~(after < s)
    BY <1>4, <1>5, <2>2 DEF RInv, TypeOK
  <2>. QED  BY <2>1, <2>2
<1>7. ASSUME pc' = "expire" PROVE \A s \in present : judged'[s] # None
  <2>. SUFFICES ASSUME NEW s \in present PROVE judged'[s] # None
    OBVIOUS
  <2>1. CASE after < s
    BY <1>1, <1>4, <1>7, <2>1, PageFacts DEF RInv, ScanPage
  <2>2. CASE ~(after < s)
    BY <1>4, <1>5, <2>2 DEF RInv, TypeOK
  <2>. QED  BY <2>1, <2>2
<1>8. pc' \in {"scan", "expire"}
  BY DEF ScanPage
<1>. QED  BY <1>3, <1>6, <1>7, <1>8 DEF Seen, StableSlabsScanned, Scanned

LEMMA ScanPageOwed ==
  ASSUME RInv, ScanPage
  PROVE  Owed' /\ HysteresisHasCause'
<1>1. HysteresisHasCause'
  BY DEF RInv, ScanPage, HysteresisHasCause
<1>2. \A x \in Admissions :
         x.risk.valid => x.risk.emergency \/ x.risk.loss >= Entry \/ x.id \in prev
  BY AdmissionsFacts DEF RInv, Queued
<1>. QED  BY <1>1, <1>2, ScanPageFacts DEF RInv, ScanPage, Owed

\* What was evaluated before this page has lower ids than the page's slabs, so the
\* candidates so far are those of before and the page's admissions.
LEMMA ScanPageExact ==
  ASSUME RInv, ScanPage
  PROVE  Remembered' /\ CutIsExact' /\ ExpiryDropsOnlyTheStale'
<1>. DEFINE seen == {judged[s] : s \in Ids} \ {None}
            seenNow == {judged'[s] : s \in Ids} \ {None}
            page == {Candidate(s) : s \in Page}
<1>1. /\ \A s \in Page : s \in Ids /\ s \in Int /\ after < s /\ s <= after'
                        /\ Candidate(s) \in Admitted /\ Candidate(s).id = s /\ Candidate(s) # None
      /\ \A s \in Ids : judged'[s] = IF s \in Page THEN Candidate(s) ELSE judged[s]
      /\ \A s \in Ids : judged[s] # None => judged[s].id = s /\ s <= after /\ judged[s] \in Admitted
      /\ after \in Int /\ after' \in Int /\ after <= after'
  <2>1. \A s \in Page : /\ s \in Ids /\ after < s /\ s <= after'
                        /\ Candidate(s) \in Admitted /\ Candidate(s).id = s
    BY PageFacts, CandidateType, ScanPageFacts DEF RInv
  <2>2. \A s \in Ids : judged'[s] = IF s \in Page THEN Candidate(s) ELSE judged[s]
    BY DEF ScanPage
  <2>3. after \in Int /\ after' \in Int /\ after <= after'
    BY ScanPageFacts DEF RInv, TypeOK
  <2>. QED  BY <2>1, <2>2, <2>3, NoneAssumption DEF RInv, Remembered, TypeOK, Ids
<1>2. Remembered'
  <2>. SUFFICES ASSUME NEW s \in Ids, judged'[s] # None PROVE judged'[s].id = s /\ s <= after'
    BY DEF Remembered
  <2>1. s \in Int
    BY DEF Ids
  <2>. QED  BY <1>1, <2>1
<1>3. seenNow = seen \cup page
  <2>1. \A s \in Page : judged[s] = None
    BY <1>1
  <2>. HIDE DEF page
  <2>2. \A x : x \in seenNow <=> \E s \in Ids : x = judged'[s] /\ x # None
    OBVIOUS
  <2>3. \A x : x \in seen <=> \E s \in Ids : x = judged[s] /\ x # None
    OBVIOUS
  <2>4. \A x : x \in page <=> \E s \in Page : x = Candidate(s)
    BY DEF page
  <2>. HIDE DEF seen, seenNow
  <2>5. \A x : x \in seenNow <=> x \in seen \/ x \in page
    BY <1>1, <2>1, <2>2, <2>3, <2>4
  <2>. QED  BY <2>5
<1>4. Admissible = {x \in seen : Queued(x)} /\ Admissions = {x \in page : Queued(x)}
  BY DEF Admissible, Admissions
<1>5. Admissible' = {x \in seenNow : Queued(x)}
  BY DEF Admissible, Queued, ScanPage
<1>6. Admissible' = Admissible \cup Admissions
  <2>. HIDE DEF seen, seenNow, page
  <2>. QED  BY <1>3, <1>4, <1>5
<1>7. Admissible \cup Admissions \subseteq Admitted /\ OncePerSlab(Admissible \cup Admissions)
  <2>1. \A x \in Admissible : x \in Admitted /\ x.id \in Ids /\ x.id <= after /\ x = judged[x.id]
    BY <1>1, <1>4 DEF Admitted
  <2>2. \A x \in Admissions : x \in Admitted /\ x.id \in Page /\ x = Candidate(x.id)
    BY AdmissionsFacts DEF RInv
  <2>3. \A x \in Admissible, y \in Admissions : x.id # y.id
    BY <1>1, <2>1, <2>2 DEF Ids
  <2>. QED  BY <2>1, <2>2, <2>3 DEF OncePerSlab
<1>8. First(First(Admissible, MaxRepairQueue) \cup Admissions, MaxRepairQueue)
        = First(Admissible \cup Admissions, MaxRepairQueue)
  <2>1. MaxRepairQueue \in Nat
    BY BoundsAssumption
  <2>. DEFINE V == Admissible \cup Admissions
              F == First(Admissible, MaxRepairQueue)
              U == F \cup Admissions
  <2>. HIDE DEF V, F, U
  <2>2. V \subseteq Admitted /\ OncePerSlab(V)
    BY <1>7 DEF V
  <2>3. First(U, MaxRepairQueue) = First(V, MaxRepairQueue)
    BY <2>1, <2>2, CutTwice DEF V, F, U
  <2>. QED  BY <2>3 DEF V, F, U
<1>9. selected = First(Admissible, MaxRepairQueue)
  BY DEF RInv, ScanPage, CutIsExact
<1>10. selected' = First(selected \cup Admissions, MaxRepairQueue)
  BY DEF ScanPage, Cut
<1>11. CutIsExact'
  BY <1>6, <1>8, <1>9, <1>10 DEF CutIsExact
<1>12. ExpiryDropsOnlyTheStale'
  BY DEF ScanPage, ExpiryDropsOnlyTheStale
<1>. QED  BY <1>2, <1>11, <1>12

LEMMA ScanPageRInv == RInv /\ ScanPage => RInv'
BY ScanPageTypes, ScanPageSeen, ScanPageOwed, ScanPageExact DEF RInv

-----------------------------------------------------------------------------
(* The theorems *)

LEMMA StepRInv == RInv /\ [Next]_vars => RInv'
<1>. SUFFICES ASSUME RInv, [Next]_vars PROVE RInv'
  OBVIOUS
<1>1. CASE Environment
  BY <1>1, TickRInv, UploadRInv, RestartRInv, RescanRInv, LapseRInv,
     RefreshRInv, DeleteRInv DEF Environment
<1>2. CASE Call
  BY <1>2, StartRInv, ReadRInv, ScanPageRInv, ExpireRInv, PersistRInv, ReturnRInv, FallbackRInv
     DEF Call
<1>3. CASE UNCHANGED vars
  <2>1. TypeOK'
    BY <1>3 DEF RInv, TypeOK, vars, store, scan, call
  <2>2. present' \subseteq present /\ present' \subseteq Listed' /\ clock <= clock'
    BY <1>3 DEF RInv, TypeOK, Seen, Listed, Stored, vars, store
  <2>. QED  BY <1>3, <2>1, <2>2, Outside DEF vars
<1>. QED  BY <1>1, <1>2, <1>3 DEF Next

LEMMA Invariant == Spec => []RInv
BY InitRInv, StepRInv, PTL DEF Spec

\* A pass of slabsForMigration keeps its variables within their types, and never
\* holds more than the limit of admitted slabs.
THEOREM TypeCorrect == Spec => []TypeOK
BY Invariant, PTL DEF RInv

\* A pass evaluates every slab that stays listed, whatever comes and goes
\* between two pages: a page ends at a slab with none left out below it, and a
\* short page is the last.
THEOREM StableSlabsScannedHolds == Spec => []StableSlabsScanned
BY Invariant, PTL DEF RInv

\* The limit applied after each page leaves exactly what a single cut of all pages
\* would: what one cut leaves out, no later one would take.
THEOREM PagewiseCutIsExactHolds == Spec => []PagewiseCutIsExact
<1>1. RInv => PagewiseCutIsExact
  BY DEF RInv, CutIsExact, PagewiseCutIsExact
<1>. QED  BY <1>1, Invariant, PTL

\* The persisted hysteresis has a cause: each slab in it once entered on its own
\* account under the same policy and has been in every pass persisted since.
THEOREM HysteresisHasCauseHolds == Spec => []HysteresisHasCause
BY Invariant, PTL DEF RInv

\* What a pass selected and its end lacks rested on an estimate that is stale: the
\* check after the last page loses no emergency and no unhealthy slab.
THEOREM ExpiryDropsOnlyTheStaleHolds == Spec => []ExpiryDropsOnlyTheStale
BY Invariant, PTL DEF RInv

-----------------------------------------------------------------------------
(* Slab risk: sums and products *)

Plus == [p \in Int \X Int |-> p[1] + p[2]]
Times == [p \in Int \X Int |-> p[1] * p[2]]

\* A sum is what some fold over the set, one value at a time, makes of it.
LEMMA SumIsFold ==
  ASSUME NEW S, IsFiniteSet(S), NEW f, \A x \in S : f[x] \in Int
  PROVE  \E it : FoldOver(it, S, Int, Plus, 0, f) /\ Sum(S, f) = it[S]
<1>. DEFINE pick(T) == CHOOSE x \in T : TRUE
            body(g) == [T \in SUBSET S |-> IF T = {} THEN 0
                          ELSE LET x == CHOOSE x \in T : TRUE IN f[x] + g[T \ {x}]]
            iter == CHOOSE iter : iter = body(iter)
<1>1. PICK it : FoldOver(it, S, Int, Plus, 0, f)
  <2>1. Plus \in [Int \X Int -> Int] /\ 0 \in Int
    BY DEF Plus
  <2>. QED  BY <2>1, FoldExists
<1>2. \A T \in SUBSET S : T # {} => /\ pick(T) \in T
                                    /\ it[T] = f[pick(T)] + it[T \ {pick(T)}]
  <2>. SUFFICES ASSUME NEW T \in SUBSET S, T # {}
                PROVE  pick(T) \in T /\ it[T] = f[pick(T)] + it[T \ {pick(T)}]
    OBVIOUS
  <2>1. pick(T) \in T
    OBVIOUS
  <2>2. it[T] = Plus[<<f[pick(T)], it[T \ {pick(T)}]>>]
    BY <1>1 DEF FoldOver
  <2>. HIDE DEF pick
  <2>3. f[pick(T)] \in Int /\ it[T \ {pick(T)}] \in Int
    BY <1>1, <2>1 DEF FoldOver
  <2>. QED  BY <2>1, <2>2, <2>3 DEF Plus
<1>3. it = body(it)
  <2>1. it[{}] = 0 /\ it \in [SUBSET S -> Int]
    BY <1>1 DEF FoldOver
  <2>2. it = [T \in SUBSET S |-> it[T]]
    BY <2>1
  <2>3. \A T \in SUBSET S : it[T] = body(it)[T]
    BY <1>2, <2>1
  <2>. QED  BY <2>2, <2>3
<1>4. iter = body(iter)
  <2>. HIDE DEF body
  <2>. QED  BY <1>3
<1>. DEFINE Q == {T \in SUBSET S : iter[T] = it[T]}
<1>5. ASSUME NEW T \in SUBSET S, \A x \in T : T \ {x} \in Q PROVE T \in Q
  <2>1. iter[T] = body(iter)[T]
    BY <1>4
  <2>. HIDE DEF iter
  <2>2. CASE T = {}
    BY <2>1, <2>2, <1>1 DEF FoldOver
  <2>3. CASE T # {}
    <3>1. iter[T] = f[pick(T)] + iter[T \ {pick(T)}]
      BY <2>1, <2>3
    <3>2. T \ {pick(T)} \in Q
      BY <1>2, <1>5, <2>3
    <3>. QED  BY <1>2, <2>3, <3>1, <3>2
  <2>. QED  BY <2>2, <2>3
<1>6. iter[S] = it[S]
  <2>1. \A T \in SUBSET S : T \in Q
    <3>. HIDE DEF Q
    <3>. QED  BY <1>5, SubsetInduction
  <2>. QED  BY <2>1
<1>7. Sum(S, f) = iter[S]
  BY DEF Sum, FoldSet, MapThenFoldSet
<1>. QED  BY <1>1, <1>6, <1>7
\* A product is what some fold over the set, one factor at a time, makes of it.
LEMMA ProductIsFold ==
  ASSUME NEW S, IsFiniteSet(S), NEW f, \A x \in S : f[x] \in Int
  PROVE  \E it : FoldOver(it, S, Int, Times, 1, f) /\ Product(S, f) = it[S]
<1>. DEFINE pick(T) == CHOOSE x \in T : TRUE
            body(g) == [T \in SUBSET S |-> IF T = {} THEN 1
                          ELSE LET x == CHOOSE x \in T : TRUE IN f[x] * g[T \ {x}]]
            iter == CHOOSE iter : iter = body(iter)
<1>1. PICK it : FoldOver(it, S, Int, Times, 1, f)
  <2>1. Times \in [Int \X Int -> Int] /\ 1 \in Int
    BY DEF Times
  <2>. QED  BY <2>1, FoldExists
<1>2. \A T \in SUBSET S : T # {} => /\ pick(T) \in T
                                    /\ it[T] = f[pick(T)] * it[T \ {pick(T)}]
  <2>. SUFFICES ASSUME NEW T \in SUBSET S, T # {}
                PROVE  pick(T) \in T /\ it[T] = f[pick(T)] * it[T \ {pick(T)}]
    OBVIOUS
  <2>1. pick(T) \in T
    OBVIOUS
  <2>2. it[T] = Times[<<f[pick(T)], it[T \ {pick(T)}]>>]
    BY <1>1 DEF FoldOver
  <2>. HIDE DEF pick
  <2>3. f[pick(T)] \in Int /\ it[T \ {pick(T)}] \in Int
    BY <1>1, <2>1 DEF FoldOver
  <2>. QED  BY <2>1, <2>2, <2>3 DEF Times
<1>3. it = body(it)
  <2>1. it[{}] = 1 /\ it \in [SUBSET S -> Int]
    BY <1>1 DEF FoldOver
  <2>2. it = [T \in SUBSET S |-> it[T]]
    BY <2>1
  <2>3. \A T \in SUBSET S : it[T] = body(it)[T]
    BY <1>2, <2>1
  <2>. QED  BY <2>2, <2>3
<1>4. iter = body(iter)
  <2>. HIDE DEF body
  <2>. QED  BY <1>3
<1>. DEFINE Q == {T \in SUBSET S : iter[T] = it[T]}
<1>5. ASSUME NEW T \in SUBSET S, \A x \in T : T \ {x} \in Q PROVE T \in Q
  <2>1. iter[T] = body(iter)[T]
    BY <1>4
  <2>. HIDE DEF iter
  <2>2. CASE T = {}
    BY <2>1, <2>2, <1>1 DEF FoldOver
  <2>3. CASE T # {}
    <3>1. iter[T] = f[pick(T)] * iter[T \ {pick(T)}]
      BY <2>1, <2>3
    <3>2. T \ {pick(T)} \in Q
      BY <1>2, <1>5, <2>3
    <3>. QED  BY <1>2, <2>3, <3>1, <3>2
  <2>. QED  BY <2>2, <2>3
<1>6. iter[S] = it[S]
  <2>1. \A T \in SUBSET S : T \in Q
    <3>. HIDE DEF Q
    <3>. QED  BY <1>5, SubsetInduction
  <2>. QED  BY <2>1
<1>7. Product(S, f) = iter[S]
  BY DEF Product, FoldSet, MapThenFoldSet
<1>. QED  BY <1>1, <1>6, <1>7

\* A sum is zero on the empty set, and one element more adds its value.
LEMMA SumFacts ==
  ASSUME NEW S, IsFiniteSet(S), NEW f, \A x \in S : f[x] \in Int
  PROVE  /\ Sum(S, f) \in Int
         /\ S = {} => Sum(S, f) = 0
         /\ \A x \in S : Sum(S, f) = f[x] + Sum(S \ {x}, f)
<1>1. PICK it : FoldOver(it, S, Int, Plus, 0, f) /\ Sum(S, f) = it[S]
  BY SumIsFold
<1>2. OrderFree(Plus, Int)
  BY DEF Plus, OrderFree
<1>3. \A T \in SUBSET S : \A y \in T : it[T] = Plus[<<f[y], it[T \ {y}]>>]
  <2>1. FoldOver(it, S, Int, Plus, 0, f)
    BY <1>1
  <2>. QED  BY <1>2, <2>1, FoldAnyOrder
<1>4. \A T \in SUBSET S : it[T] \in Int
  BY <1>1 DEF FoldOver
<1>5. ASSUME NEW x \in S PROVE Sum(S, f) = f[x] + Sum(S \ {x}, f)
  <2>. DEFINE T == S \ {x}
  <2>1. IsFiniteSet(T) /\ (\A y \in T : f[y] \in Int) /\ T \in SUBSET S
    BY FS_Subset
  <2>. HIDE DEF T
  <2>2. PICK jt : FoldOver(jt, T, Int, Plus, 0, f) /\ Sum(T, f) = jt[T]
    BY <2>1, SumIsFold
  <2>3. \A U \in SUBSET T : \A y \in U : jt[U] = Plus[<<f[y], jt[U \ {y}]>>]
    BY <1>2, <2>1, <2>2, FoldAnyOrder, SMTT(30)
  <2>. DEFINE Q == {U \in SUBSET T : it[U] = jt[U]}
  <2>4. ASSUME NEW U \in SUBSET T, \A y \in U : U \ {y} \in Q PROVE U \in Q
    <3>1. CASE U = {}
      BY <3>1, <1>1, <2>2 DEF FoldOver
    <3>2. CASE U # {}
      <4>1. PICK y \in U : TRUE
        BY <3>2
      <4>2. it[U \ {y}] = jt[U \ {y}]
        BY <2>4, <4>1
      <4>3. U \in SUBSET S
        BY <2>1
      <4>4. it[U] = Plus[<<f[y], it[U \ {y}]>>]
        BY <1>3, <4>1, <4>3
      <4>5. jt[U] = Plus[<<f[y], jt[U \ {y}]>>]
        BY <2>3, <4>1
      <4>. QED  BY <4>2, <4>4, <4>5
    <3>. QED  BY <3>1, <3>2
  <2>5. it[T] = jt[T]
    <3>1. \A U \in SUBSET T : U \in Q
      <4>. HIDE DEF Q
      <4>. QED  BY <2>1, <2>4, SubsetInduction
    <3>. QED  BY <3>1
  <2>6. it[S] = Plus[<<f[x], it[T]>>]
    BY <1>3 DEF T
  <2>7. f[x] \in Int /\ it[T] \in Int
    BY <1>4, <2>1
  <2>. QED  BY <1>1, <2>2, <2>5, <2>6, <2>7 DEF Plus, T
<1>6. S = {} => Sum(S, f) = 0
  BY <1>1 DEF FoldOver
<1>. QED  BY <1>1, <1>4, <1>5, <1>6


\* A product is one on the empty set, and one element more is one factor more.
LEMMA ProductFacts ==
  ASSUME NEW S, IsFiniteSet(S), NEW f, \A x \in S : f[x] \in Int
  PROVE  /\ Product(S, f) \in Int
         /\ S = {} => Product(S, f) = 1
         /\ \A x \in S : Product(S, f) = f[x] * Product(S \ {x}, f)
<1>1. PICK it : FoldOver(it, S, Int, Times, 1, f) /\ Product(S, f) = it[S]
  BY ProductIsFold
<1>2. OrderFree(Times, Int)
  BY DEF Times, OrderFree
<1>3. \A T \in SUBSET S : \A y \in T : it[T] = Times[<<f[y], it[T \ {y}]>>]
  <2>1. FoldOver(it, S, Int, Times, 1, f)
    BY <1>1
  <2>. QED  BY <1>2, <2>1, FoldAnyOrder
<1>4. \A T \in SUBSET S : it[T] \in Int
  BY <1>1 DEF FoldOver
<1>5. ASSUME NEW x \in S PROVE Product(S, f) = f[x] * Product(S \ {x}, f)
  <2>. DEFINE T == S \ {x}
  <2>1. IsFiniteSet(T) /\ (\A y \in T : f[y] \in Int) /\ T \in SUBSET S
    BY FS_Subset
  <2>. HIDE DEF T
  <2>2. PICK jt : FoldOver(jt, T, Int, Times, 1, f) /\ Product(T, f) = jt[T]
    BY <2>1, ProductIsFold
  <2>3. \A U \in SUBSET T : \A y \in U : jt[U] = Times[<<f[y], jt[U \ {y}]>>]
    BY <1>2, <2>1, <2>2, FoldAnyOrder
  <2>. DEFINE Q == {U \in SUBSET T : it[U] = jt[U]}
  <2>4. ASSUME NEW U \in SUBSET T, \A y \in U : U \ {y} \in Q PROVE U \in Q
    <3>1. CASE U = {}
      BY <3>1, <1>1, <2>2 DEF FoldOver
    <3>2. CASE U # {}
      <4>1. PICK y \in U : TRUE
        BY <3>2
      <4>2. it[U \ {y}] = jt[U \ {y}]
        BY <2>4, <4>1
      <4>3. U \in SUBSET S
        BY <2>1
      <4>4. it[U] = Times[<<f[y], it[U \ {y}]>>]
        BY <1>3, <4>1, <4>3
      <4>5. jt[U] = Times[<<f[y], jt[U \ {y}]>>]
        BY <2>3, <4>1
      <4>. QED  BY <4>2, <4>4, <4>5
    <3>. QED  BY <3>1, <3>2
  <2>5. it[T] = jt[T]
    <3>1. \A U \in SUBSET T : U \in Q
      <4>. HIDE DEF Q
      <4>. QED  BY <2>1, <2>4, SubsetInduction
    <3>. QED  BY <3>1
  <2>6. it[S] = Times[<<f[x], it[T]>>]
    BY <1>3 DEF T
  <2>7. f[x] \in Int /\ it[T] \in Int
    BY <1>4, <2>1
  <2>. QED  BY <1>1, <2>2, <2>5, <2>6, <2>7 DEF Times, T
<1>6. S = {} => Product(S, f) = 1
  BY <1>1 DEF FoldOver
<1>. QED  BY <1>1, <1>4, <1>5, <1>6

\* One element more adds its value.
LEMMA SumAdd ==
  ASSUME NEW S, IsFiniteSet(S), NEW x, x \notin S, NEW f, \A y \in S \cup {x} : f[y] \in Int
  PROVE  Sum(S \cup {x}, f) = f[x] + Sum(S, f)
<1>1. IsFiniteSet(S \cup {x})
  BY FS_AddElement
<1>2. (S \cup {x}) \ {x} = S /\ x \in S \cup {x}
  OBVIOUS
<1>3. \A y \in S \cup {x} : Sum(S \cup {x}, f) = f[y] + Sum((S \cup {x}) \ {y}, f)
  BY <1>1, SumFacts
<1>. QED  BY <1>2, <1>3

\* One element more is one factor more.
LEMMA ProductAdd ==
  ASSUME NEW S, IsFiniteSet(S), NEW x, x \notin S, NEW f, \A y \in S \cup {x} : f[y] \in Int
  PROVE  Product(S \cup {x}, f) = f[x] * Product(S, f)
<1>1. IsFiniteSet(S \cup {x})
  BY FS_AddElement
<1>2. (S \cup {x}) \ {x} = S /\ x \in S \cup {x}
  OBVIOUS
<1>3. \A y \in S \cup {x} : Product(S \cup {x}, f) = f[y] * Product((S \cup {x}) \ {y}, f)
  BY <1>1, ProductFacts
<1>. QED  BY <1>2, <1>3

\* The sum of c times the values of f, over an image of the set.
LEMMA SumAlong ==
  ASSUME NEW S, IsFiniteSet(S), NEW phi, \A x, y \in S : phi[x] = phi[y] => x = y,
         NEW c \in Int, NEW f, NEW g, \A x \in S : f[phi[x]] \in Int /\ g[x] = c * f[phi[x]]
  PROVE  /\ Sum(S, g) = c * Sum({phi[x] : x \in S}, f)
         /\ Sum({phi[x] : x \in S}, f) \in Int
<1>. DEFINE im(T) == {phi[x] : x \in T}
            Q == {T \in SUBSET S : Sum(T, g) = c * Sum(im(T), f)}
<1>1. ASSUME NEW T \in SUBSET S
      PROVE  /\ IsFiniteSet(T) /\ IsFiniteSet(im(T))
             /\ \A y \in im(T) : f[y] \in Int
             /\ \A y \in T : g[y] \in Int
             /\ Sum(im(T), f) \in Int
  <2>1. IsFiniteSet(T)
    BY FS_Subset
  <2>2. IsFiniteSet(im(T))
    <3>. DEFINE p == [x \in T |-> phi[x]]
    <3>1. p \in Surjection(T, im(T))
      BY DEF Surjection
    <3>. HIDE DEF p, im
    <3>. QED  BY <2>1, <3>1, FS_Surjection
  <2>3. \A y \in im(T) : f[y] \in Int
    OBVIOUS
  <2>4. Sum(im(T), f) \in Int
    <3>. HIDE DEF im
    <3>. QED  BY <2>2, <2>3, SumFacts
  <2>. QED  BY <2>1, <2>2, <2>3, <2>4
<1>2. ASSUME NEW T \in SUBSET S, \A x \in T : T \ {x} \in Q PROVE T \in Q
  <2>1. CASE T = {}
    <3>1. Sum(T, g) = 0
      BY <1>1, <2>1, SumFacts
    <3>2. im(T) = {}
      BY <2>1
    <3>3. Sum(im(T), f) = 0
      <4>. HIDE DEF im
      <4>. QED  BY <1>1, <3>2, SumFacts
    <3>. QED  BY <3>1, <3>3
  <2>2. CASE T # {}
    <3>1. PICK x \in T : TRUE
      BY <2>2
    <3>. DEFINE U == T \ {x}
    <3>2. U \in SUBSET S /\ Sum(U, g) = c * Sum(im(U), f)
      BY <1>2
    <3>3. Sum(T, g) = g[x] + Sum(U, g)
      BY <1>1, SumFacts
    <3>4. im(U) = im(T) \ {phi[x]} /\ phi[x] \in im(T)
      OBVIOUS
    <3>5. Sum(im(T), f) = f[phi[x]] + Sum(im(U), f)
      <4>. HIDE DEF im, U
      <4>. QED  BY <1>1, <3>4, SumFacts
    <3>6. f[phi[x]] \in Int /\ g[x] = c * f[phi[x]] /\ Sum(im(U), f) \in Int
      BY <1>1, <3>2
    <3>. HIDE DEF im, U
    <3>7. c * (f[phi[x]] + Sum(im(U), f)) = c * f[phi[x]] + c * Sum(im(U), f)
      BY <3>6
    <3>8. Sum(T, g) = c * Sum(im(T), f)
      BY <3>2, <3>3, <3>5, <3>6, <3>7
    <3>. QED  BY <3>8 DEF im
  <2>. QED  BY <2>1, <2>2
<1>3. \A T \in SUBSET S : T \in Q
  <2>. HIDE DEF Q
  <2>. QED  BY <1>2, SubsetInduction
<1>. QED  BY <1>1, <1>3

\* A sum depends on the values on its set only.
LEMMA SumSame ==
  ASSUME NEW S, IsFiniteSet(S), NEW f, NEW g, \A x \in S : f[x] \in Int /\ g[x] = f[x]
  PROVE  Sum(S, g) = Sum(S, f)
<1>. DEFINE phi == [x \in S |-> x]
<1>1. \A x, y \in S : phi[x] = phi[y] => x = y
  OBVIOUS
<1>2. \A x \in S : f[phi[x]] \in Int /\ g[x] = 1 * f[phi[x]]
  OBVIOUS
<1>3. {phi[x] : x \in S} = S
  OBVIOUS
<1>. HIDE DEF phi
<1>4. Sum(S, g) = 1 * Sum({phi[x] : x \in S}, f) /\ Sum({phi[x] : x \in S}, f) \in Int
  <2>1. 1 \in Int
    OBVIOUS
  <2>. QED  BY <1>1, <1>2, <2>1, SumAlong
<1>5. \A a, b \in Int : a = 1 * b => a = b
  OBVIOUS
<1>6. Sum(S, g) \in Int
  BY SumFacts
<1>. QED  BY <1>3, <1>4, <1>5, <1>6

\* A product depends on the values on its set only.
LEMMA ProductSame ==
  ASSUME NEW S, IsFiniteSet(S), NEW f, NEW g, \A x \in S : f[x] \in Int /\ g[x] = f[x]
  PROVE  Product(S, g) = Product(S, f)
<1>. DEFINE Q == {T \in SUBSET S : Product(T, g) = Product(T, f)}
<1>1. ASSUME NEW T \in SUBSET S, \A x \in T : T \ {x} \in Q PROVE T \in Q
  <2>1. IsFiniteSet(T) /\ \A x \in T : f[x] \in Int /\ g[x] \in Int /\ g[x] = f[x]
    BY FS_Subset
  <2>2. CASE T = {}
    BY <2>1, <2>2, ProductFacts
  <2>3. CASE T # {}
    <3>1. PICK x \in T : TRUE
      BY <2>3
    <3>2. Product(T, g) = g[x] * Product(T \ {x}, g) /\ Product(T, f) = f[x] * Product(T \ {x}, f)
      BY <2>1, ProductFacts
    <3>. QED  BY <1>1, <2>1, <3>2
  <2>. QED  BY <2>2, <2>3
<1>2. \A T \in SUBSET S : T \in Q
  <2>. HIDE DEF Q
  <2>. QED  BY <1>1, SubsetInduction
<1>. QED  BY <1>2

\* Two sets that share nothing add up.
LEMMA SumUnion ==
  ASSUME NEW S, IsFiniteSet(S), NEW T, IsFiniteSet(T), S \cap T = {},
         NEW f, \A x \in S \cup T : f[x] \in Int
  PROVE  Sum(S \cup T, f) = Sum(S, f) + Sum(T, f) /\ Sum(S, f) \in Int /\ Sum(T, f) \in Int
<1>. DEFINE Q == {U \in SUBSET T : Sum(S \cup U, f) = Sum(S, f) + Sum(U, f)}
<1>1. Sum(S, f) \in Int /\ \A U \in SUBSET T : IsFiniteSet(U) /\ Sum(U, f) \in Int
  BY FS_Subset, SumFacts
<1>2. ASSUME NEW U \in SUBSET T, \A x \in U : U \ {x} \in Q PROVE U \in Q
  <2>1. CASE U = {}
    <3>1. Sum(U, f) = 0 /\ S \cup U = S
      BY <2>1, <1>1, SumFacts
    <3>2. Sum(S, f) = Sum(S, f) + Sum(U, f)
      BY <3>1, <1>1
    <3>. QED  BY <3>1, <3>2
  <2>2. CASE U # {}
    <3>1. PICK x \in U : TRUE
      BY <2>2
    <3>. DEFINE V == U \ {x}
    <3>2. Sum(S \cup V, f) = Sum(S, f) + Sum(V, f)
      BY <1>2
    <3>3. Sum(U, f) = f[x] + Sum(V, f)
      BY <1>1, SumFacts
    <3>4. IsFiniteSet(S \cup U)
      BY <1>1, FS_Union
    <3>5. (S \cup U) \ {x} = S \cup V
      OBVIOUS
    <3>6. Sum(S \cup U, f) = f[x] + Sum(S \cup V, f)
      BY <3>4, <3>5, SumFacts
    <3>7. f[x] \in Int /\ Sum(V, f) \in Int
      BY <1>1
    <3>. HIDE DEF V
    <3>. QED  BY <1>1, <3>2, <3>3, <3>6, <3>7
  <2>. QED  BY <2>1, <2>2
<1>3. \A U \in SUBSET T : U \in Q
  <2>. HIDE DEF Q
  <2>. QED  BY <1>2, SubsetInduction
<1>. QED  BY <1>1, <1>3

\* No negative values, no negative sum.
LEMMA SumAtLeastZero ==
  ASSUME NEW S, IsFiniteSet(S), NEW f, \A x \in S : f[x] \in Nat
  PROVE  Sum(S, f) \in Nat
<1>. DEFINE Q == {T \in SUBSET S : Sum(T, f) \in Nat}
<1>1. ASSUME NEW T \in SUBSET S, \A x \in T : T \ {x} \in Q PROVE T \in Q
  <2>1. IsFiniteSet(T) /\ \A x \in T : f[x] \in Int
    BY FS_Subset
  <2>2. CASE T = {}
    BY <2>1, <2>2, SumFacts
  <2>3. CASE T # {}
    <3>1. PICK x \in T : TRUE
      BY <2>3
    <3>2. Sum(T, f) = f[x] + Sum(T \ {x}, f)
      BY <2>1, SumFacts
    <3>. QED  BY <1>1, <3>2
  <2>. QED  BY <2>2, <2>3
<1>2. \A T \in SUBSET S : T \in Q
  <2>. HIDE DEF Q
  <2>. QED  BY <1>1, SubsetInduction
<1>. QED  BY <1>2

\* A part of a set has no larger sum where no value is negative.
LEMMA SumMonotone ==
  ASSUME NEW T, IsFiniteSet(T), NEW S \in SUBSET T, NEW f, \A x \in T : f[x] \in Nat
  PROVE  Sum(S, f) <= Sum(T, f)
<1>1. IsFiniteSet(S) /\ IsFiniteSet(T \ S) /\ S \cap (T \ S) = {} /\ S \cup (T \ S) = T
  BY FS_Subset
<1>2. Sum(T, f) = Sum(S, f) + Sum(T \ S, f)
  <2>1. Sum(S \cup (T \ S), f) = Sum(S, f) + Sum(T \ S, f)
    <3>1. \A x \in S \cup (T \ S) : f[x] \in Int
      OBVIOUS
    <3>. QED  BY <1>1, <3>1, SumUnion
  <2>. QED  BY <1>1, <2>1
<1>3. Sum(S, f) \in Nat /\ Sum(T \ S, f) \in Nat
  BY <1>1, SumAtLeastZero
<1>. QED  BY <1>2, <1>3

\* No negative values, no negative product.
LEMMA ProductAtLeastZero ==
  ASSUME NEW S, IsFiniteSet(S), NEW f, \A x \in S : f[x] \in Nat
  PROVE  Product(S, f) \in Nat
<1>. DEFINE Q == {T \in SUBSET S : Product(T, f) \in Nat}
<1>1. ASSUME NEW T \in SUBSET S, \A x \in T : T \ {x} \in Q PROVE T \in Q
  <2>1. IsFiniteSet(T) /\ \A x \in T : f[x] \in Int
    BY FS_Subset
  <2>2. CASE T = {}
    BY <2>1, <2>2, ProductFacts
  <2>3. CASE T # {}
    <3>1. PICK x \in T : TRUE
      BY <2>3
    <3>2. Product(T, f) = f[x] * Product(T \ {x}, f)
      BY <2>1, ProductFacts
    <3>3. f[x] \in Nat /\ Product(T \ {x}, f) \in Nat
      BY <1>1
    <3>4. \A a, b \in Nat : a * b \in Nat
      OBVIOUS
    <3>. QED  BY <3>2, <3>3, <3>4
  <2>. QED  BY <2>2, <2>3
<1>2. \A T \in SUBSET S : T \in Q
  <2>. HIDE DEF Q
  <2>. QED  BY <1>1, SubsetInduction
<1>. QED  BY <1>2

-----------------------------------------------------------------------------
(* The hosts in the order of their scores, and the powers of Den *)

\* InOrder lists each host of a set once, the best scores first.
LEMMA InOrderFacts ==
  ASSUME NEW S, S \subseteq Hosts, NEW score \in [Hosts -> Int],
         NEW o, o = InOrder(S, score), NEW n, n = Cardinality(S)
  PROVE  /\ n \in Nat /\ o \in [1..n -> S]
         /\ \A i, j \in 1..n : i < j => Before(o[i], o[j], score)
         /\ \A i, j \in 1..n : o[i] = o[j] => i = j
         /\ \A x \in S : \E k \in 1..n : o[k] = x
<1>. DEFINE B(x) == {y \in S : Before(y, x, score)}
            below == [x \in S |-> B(x)]
            rank == [x \in S |-> Cardinality(B(x))]
<1>1. IsFiniteSet(S) /\ \A x \in S : x \in Int /\ score[x] \in Int
  BY SlabRiskAssumption, FS_Subset
<1>2. below \in [S -> SUBSET S]
  OBVIOUS
<1>3. \A x \in S : x \notin below[x]
  BY <1>1 DEF Before
<1>4. \A x, y \in S : y \in below[x] => below[y] \subseteq below[x]
  BY <1>1 DEF Before
<1>5. \A x, y \in S : x # y => x \in below[y] \/ y \in below[x]
  BY <1>1 DEF Before
<1>6. /\ n \in Nat
      /\ \A x \in S : Cardinality(below[x]) \in 0..n - 1
      /\ \A x, y \in S : x \in below[y] => Cardinality(below[x]) < Cardinality(below[y])
      /\ \A k \in 0..n - 1 : \E x \in S : Cardinality(below[x]) = k
  <2>. HIDE DEF below
  <2>. QED  BY <1>1, <1>2, <1>3, <1>4, <1>5, RankIsBijection
<1>7. /\ \A x \in S : rank[x] \in 0..n - 1
      /\ \A x, y \in S : Before(x, y, score) => rank[x] < rank[y]
      /\ \A k \in 0..n - 1 : \E x \in S : rank[x] = k
  BY <1>6
<1>8. \A x, y \in S : x # y => Before(x, y, score) \/ Before(y, x, score)
  BY <1>5
<1>9. o = [k \in 1..n |-> CHOOSE x \in S : Cardinality(B(x)) = k - 1]
  BY DEF InOrder
<1>10. \A k \in 1..n : o[k] \in S /\ rank[o[k]] = k - 1
  <2>. SUFFICES ASSUME NEW k \in 1..n PROVE o[k] \in S /\ rank[o[k]] = k - 1
    OBVIOUS
  <2>1. k - 1 \in 0..n - 1
    BY <1>6
  <2>2. \E x \in S : Cardinality(B(x)) = k - 1
    <3>1. PICK x \in S : rank[x] = k - 1
      BY <1>7, <2>1
    <3>. QED  BY <3>1
  <2>3. o[k] = CHOOSE x \in S : Cardinality(B(x)) = k - 1
    BY <1>9
  <2>. HIDE DEF B
  <2>4. o[k] \in S /\ Cardinality(B(o[k])) = k - 1
    BY <2>2, <2>3
  <2>. QED  BY <2>4
<1>. HIDE DEF rank
<1>11. o \in [1..n -> S]
  BY <1>9, <1>10
<1>12. \A x, y \in S : x # y => rank[x] # rank[y]
  BY <1>7, <1>8
<1>13. \A i, j \in 1..n : i < j => Before(o[i], o[j], score)
  <2>. SUFFICES ASSUME NEW i \in 1..n, NEW j \in 1..n, i < j PROVE Before(o[i], o[j], score)
    OBVIOUS
  <2>1. rank[o[i]] < rank[o[j]] /\ rank[o[i]] # rank[o[j]]
    BY <1>6, <1>10
  <2>2. o[i] # o[j] /\ o[i] \in S /\ o[j] \in S
    BY <1>10, <2>1
  <2>3. ~(rank[o[j]] < rank[o[i]])
    BY <1>6, <1>10
  <2>. QED  BY <1>7, <1>8, <2>2, <2>3
<1>14. \A i, j \in 1..n : o[i] = o[j] => i = j
  <2>. SUFFICES ASSUME NEW i \in 1..n, NEW j \in 1..n, o[i] = o[j] PROVE i = j
    OBVIOUS
  <2>1. i - 1 = j - 1
    BY <1>10
  <2>. QED  BY <1>6, <2>1
<1>15. \A x \in S : \E k \in 1..n : o[k] = x
  <2>. SUFFICES ASSUME NEW x \in S PROVE \E k \in 1..n : o[k] = x
    OBVIOUS
  <2>1. rank[x] + 1 \in 1..n /\ (rank[x] + 1) - 1 = rank[x]
    BY <1>6, <1>7
  <2>2. rank[o[rank[x] + 1]] = rank[x] /\ o[rank[x] + 1] \in S
    BY <1>10, <2>1
  <2>. QED  BY <1>12, <2>1, <2>2
<1>. QED  BY <1>6, <1>11, <1>13, <1>14, <1>15

\* The powers of Den, one factor after the other.
LEMMA PowerFacts ==
  /\ Power \in [0..NumShards + 1 -> Nat] /\ Power[0] = 1
  /\ \A n \in 0..NumShards : Power[n + 1] = Den * Power[n]
<1>. DEFINE N == NumShards + 1
            body(p) == [n \in 0..N |-> IF n = 0 THEN 1 ELSE Den * p[n - 1]]
            step == [n \in 1..N |-> [d \in Nat |-> Den * d]]
<1>1. N \in Nat /\ NumShards \in Nat /\ Den \in Nat
  BY SlabRiskAssumption
<1>2. \A a, b \in Nat : a * b \in Nat
  OBVIOUS
<1>3. PICK f : Iterates(f, N, Nat, 1, step)
  <2>1. \A n \in 1..N : \A d \in Nat : step[n][d] \in Nat
    BY <1>1, <1>2
  <2>2. 1 \in Nat
    OBVIOUS
  <2>. HIDE DEF N, step
  <2>. QED  BY <1>1, <2>1, <2>2, RecursiveFunctions
<1>4. f = body(f)
  <2>1. f \in [0..N -> Nat] /\ f[0] = 1
    BY <1>3 DEF Iterates
  <2>2. \A n \in 0..N : n # 0 => f[n] = Den * f[n - 1]
    <3>. SUFFICES ASSUME NEW n \in 0..N, n # 0 PROVE f[n] = Den * f[n - 1]
      OBVIOUS
    <3>1. n \in 1..N /\ n - 1 \in 0..N
      BY <1>1
    <3>2. f[n] = step[n][f[n - 1]] /\ f[n - 1] \in Nat
      BY <1>3, <3>1 DEF Iterates
    <3>. QED  BY <3>1, <3>2
  <2>3. \A n \in 0..N : f[n] = body(f)[n]
    BY <2>1, <2>2
  <2>4. f = [n \in 0..N |-> f[n]]
    BY <2>1
  <2>. QED  BY <2>3, <2>4
<1>5. Power = CHOOSE p : p = body(p)
  BY DEF Power
<1>6. Power = body(Power)
  <2>. HIDE DEF body
  <2>. QED  BY <1>4, <1>5
<1>. DEFINE P == {n \in Nat : n <= N => Power[n] \in Nat}
<1>7. Power[0] = 1
  BY <1>1, <1>6
<1>8. \A n \in 0..NumShards : Power[n + 1] = Den * Power[n]
  <2>. SUFFICES ASSUME NEW n \in 0..NumShards PROVE Power[n + 1] = Den * Power[n]
    OBVIOUS
  <2>1. n + 1 \in 0..N /\ n + 1 # 0 /\ (n + 1) - 1 = n
    BY <1>1
  <2>2. Power[n + 1] = body(Power)[n + 1]
    BY <1>6
  <2>. QED  BY <2>1, <2>2
<1>9. ASSUME NEW n \in Nat, n \in P PROVE n + 1 \in P
  <2>. SUFFICES ASSUME n + 1 <= N PROVE Power[n + 1] \in Nat
    OBVIOUS
  <2>1. n \in 0..NumShards /\ Power[n] \in Nat
    BY <1>1, <1>9
  <2>. QED  BY <1>1, <1>2, <1>8, <2>1
<1>10. \A n \in Nat : n \in P
  <2>1. 0 \in P
    BY <1>7
  <2>. HIDE DEF P
  <2>. QED  BY <1>9, <2>1, Induction
<1>11. \A n \in 0..N : Power[n] \in Nat
  BY <1>1, <1>10
<1>12. Power = [n \in 0..N |-> Power[n]]
  BY <1>6
<1>. QED  BY <1>7, <1>8, <1>11, <1>12

-----------------------------------------------------------------------------
(* The probability that just some of the hosts fail, that a number of them *)
(* do, and that fewer than a number are left.                              *)

\* How probable each set of failures of the hosts of Q is.
Chance(prob, Q) == [F \in SUBSET Q |-> JustFail(prob, Q, F)]

\* Sets of hosts are finite.
LEMMA HostSets ==
  ASSUME NEW Q, Q \subseteq Hosts
  PROVE  IsFiniteSet(Q) /\ Cardinality(Q) \in Nat /\ IsFiniteSet(SUBSET Q)
BY SlabRiskAssumption, FS_Subset, FS_CardinalityType, FS_SUBSET

\* One host more survives, or fails too.
LEMMA JustFailAdd ==
  ASSUME NEW prob \in [Hosts -> 0..Den], NEW Q, Q \subseteq Hosts, NEW F \in SUBSET Q
  PROVE  /\ JustFail(prob, Q, F) \in Nat
         /\ Q = {} => JustFail(prob, Q, F) = 1
         /\ \A x \in Hosts \ Q :
              /\ JustFail(prob, Q \cup {x}, F) = (Den - prob[x]) * JustFail(prob, Q, F)
              /\ JustFail(prob, Q \cup {x}, F \cup {x}) = prob[x] * JustFail(prob, Q, F)
<1>. DEFINE w(P, G) == [h \in P |-> IF h \in G THEN prob[h] ELSE Den - prob[h]]
<1>1. \A P \in SUBSET Hosts : \A G : \A h \in P : w(P, G)[h] \in Nat
  BY SlabRiskAssumption
<1>2. IsFiniteSet(Q)
  BY HostSets
<1>3. JustFail(prob, Q, F) = Product(Q, w(Q, F))
  BY DEF JustFail
<1>4. JustFail(prob, Q, F) \in Nat
  <2>1. \A h \in Q : w(Q, F)[h] \in Nat
    BY <1>1
  <2>. HIDE DEF w
  <2>. QED  BY <1>2, <1>3, <2>1, ProductAtLeastZero
<1>5. Q = {} => JustFail(prob, Q, F) = 1
  <2>1. \A h \in Q : w(Q, F)[h] \in Int
    BY <1>1
  <2>. HIDE DEF w
  <2>. QED  BY <1>2, <1>3, <2>1, ProductFacts
<1>6. ASSUME NEW x \in Hosts \ Q, NEW G, G \cap Q = F
      PROVE  JustFail(prob, Q \cup {x}, G)
               = (IF x \in G THEN prob[x] ELSE Den - prob[x]) * JustFail(prob, Q, F)
  <2>. DEFINE v == w(Q \cup {x}, G)
  <2>1. JustFail(prob, Q \cup {x}, G) = Product(Q \cup {x}, v)
    BY DEF JustFail
  <2>2. v[x] = IF x \in G THEN prob[x] ELSE Den - prob[x]
    OBVIOUS
  <2>3. \A h \in Q \cup {x} : v[h] \in Int
    BY <1>1
  <2>4. \A h \in Q : w(Q, F)[h] \in Int /\ v[h] = w(Q, F)[h]
    BY <1>1, <1>6
  <2>. HIDE DEF v, w
  <2>5. Product(Q \cup {x}, v) = v[x] * Product(Q, v)
    BY <1>2, <2>3, ProductAdd
  <2>6. Product(Q, v) = Product(Q, w(Q, F))
    BY <1>2, <2>4, ProductSame
  <2>. QED  BY <1>3, <2>1, <2>2, <2>5, <2>6
<1>7. ASSUME NEW x \in Hosts \ Q
      PROVE  /\ JustFail(prob, Q \cup {x}, F) = (Den - prob[x]) * JustFail(prob, Q, F)
             /\ JustFail(prob, Q \cup {x}, F \cup {x}) = prob[x] * JustFail(prob, Q, F)
  <2>1. F \cap Q = F /\ (F \cup {x}) \cap Q = F /\ x \notin F /\ x \in F \cup {x}
    OBVIOUS
  <2>. QED  BY <1>6, <2>1
<1>. QED  BY <1>4, <1>5, <1>7

\* The probability that one of several sets of hosts fails.
LEMMA ChanceSum ==
  ASSUME NEW prob \in [Hosts -> 0..Den], NEW Q, Q \subseteq Hosts, NEW A \in SUBSET (SUBSET Q)
  PROVE  /\ IsFiniteSet(A) /\ Sum(A, Chance(prob, Q)) \in Nat
         /\ \A F \in SUBSET Q : Chance(prob, Q)[F] \in Nat
<1>1. IsFiniteSet(A)
  BY HostSets, FS_Subset
<1>2. \A F \in SUBSET Q : Chance(prob, Q)[F] \in Nat
  BY JustFailAdd DEF Chance
<1>3. \A F \in A : Chance(prob, Q)[F] \in Nat
  BY <1>2
<1>. QED  BY <1>1, <1>2, <1>3, SumAtLeastZero

\* One host more: the failures with it and those without it.
LEMMA ChanceAdd ==
  ASSUME NEW prob \in [Hosts -> 0..Den], NEW Q, Q \subseteq Hosts, NEW x \in Hosts \ Q,
         NEW A \in SUBSET (SUBSET Q), NEW B \in SUBSET (SUBSET Q)
  PROVE  Sum(A \cup {F \cup {x} : F \in B}, Chance(prob, Q \cup {x}))
           = (Den - prob[x]) * Sum(A, Chance(prob, Q)) + prob[x] * Sum(B, Chance(prob, Q))
<1>. DEFINE C == {F \cup {x} : F \in B}
            R == Q \cup {x}
<1>1. R \subseteq Hosts /\ A \in SUBSET (SUBSET R) /\ C \in SUBSET (SUBSET R) /\ A \cap C = {}
  OBVIOUS
<1>2. \A F \in A \cup C : Chance(prob, R)[F] \in Int
  <2>. HIDE DEF R, C
  <2>1. \A F \in SUBSET R : Chance(prob, R)[F] \in Nat
    BY <1>1, ChanceSum
  <2>. QED  BY <1>1, <2>1
<1>3. IsFiniteSet(A) /\ IsFiniteSet(C)
  <2>. HIDE DEF R, C
  <2>. QED  BY <1>1, ChanceSum
<1>4. Sum(A \cup C, Chance(prob, R)) = Sum(A, Chance(prob, R)) + Sum(C, Chance(prob, R))
  <2>. DEFINE ch == Chance(prob, R)
  <2>1. A \cap C = {} /\ \A F \in A \cup C : ch[F] \in Int
    BY <1>1, <1>2
  <2>. HIDE DEF C, R, ch
  <2>2. Sum(A \cup C, ch) = Sum(A, ch) + Sum(C, ch)
    BY <1>3, <2>1, SumUnion, ZenonT(30)
  <2>. QED  BY <2>2 DEF ch
<1>5. \A F \in SUBSET Q :
        /\ Chance(prob, R)[F] = (Den - prob[x]) * Chance(prob, Q)[F]
        /\ Chance(prob, R)[F \cup {x}] = prob[x] * Chance(prob, Q)[F]
        /\ Chance(prob, Q)[F] \in Int
  <2>. SUFFICES ASSUME NEW F \in SUBSET Q
                PROVE  /\ Chance(prob, R)[F] = (Den - prob[x]) * Chance(prob, Q)[F]
                       /\ Chance(prob, R)[F \cup {x}] = prob[x] * Chance(prob, Q)[F]
                       /\ Chance(prob, Q)[F] \in Int
    OBVIOUS
  <2>1. F \in SUBSET R /\ F \cup {x} \in SUBSET R
    OBVIOUS
  <2>2. /\ Chance(prob, R)[F] = JustFail(prob, R, F)
        /\ Chance(prob, R)[F \cup {x}] = JustFail(prob, R, F \cup {x})
        /\ Chance(prob, Q)[F] = JustFail(prob, Q, F)
    <3>. HIDE DEF R
    <3>. QED  BY <2>1 DEF Chance
  <2>3. /\ JustFail(prob, Q, F) \in Nat
        /\ JustFail(prob, R, F) = (Den - prob[x]) * JustFail(prob, Q, F)
        /\ JustFail(prob, R, F \cup {x}) = prob[x] * JustFail(prob, Q, F)
    <3>1. /\ JustFail(prob, Q, F) \in Nat
          /\ \A y \in Hosts \ Q :
               /\ JustFail(prob, Q \cup {y}, F) = (Den - prob[y]) * JustFail(prob, Q, F)
               /\ JustFail(prob, Q \cup {y}, F \cup {y}) = prob[y] * JustFail(prob, Q, F)
      BY JustFailAdd
    <3>. QED  BY <3>1
  <2>. QED  BY <2>2, <2>3
<1>6. Den - prob[x] \in Int /\ prob[x] \in Int
  BY SlabRiskAssumption
<1>7. Sum(A, Chance(prob, R)) = (Den - prob[x]) * Sum(A, Chance(prob, Q))
  <2>. DEFINE phi == [F \in A |-> F]
              c == Den - prob[x]
  <2>1. \A F \in A : Chance(prob, Q)[phi[F]] \in Int /\ Chance(prob, R)[F] = c * Chance(prob, Q)[phi[F]]
    BY <1>5
  <2>2. {phi[F] : F \in A} = A
    OBVIOUS
  <2>3. \A F, G \in A : phi[F] = phi[G] => F = G
    OBVIOUS
  <2>4. c \in Int
    BY <1>6
  <2>. HIDE DEF phi, R, c
  <2>5. Sum(A, Chance(prob, R)) = c * Sum({phi[F] : F \in A}, Chance(prob, Q))
    BY <1>3, <2>1, <2>3, <2>4, SumAlong
  <2>. QED  BY <2>2, <2>5 DEF c
<1>8. Sum(C, Chance(prob, R)) = prob[x] * Sum(B, Chance(prob, Q))
  <2>. DEFINE phi == [F \in C |-> F \ {x}]
              c == prob[x]
  <2>0. \A F \in C : phi[F] \in B /\ F = phi[F] \cup {x}
    OBVIOUS
  <2>1. \A F \in C : Chance(prob, Q)[phi[F]] \in Int /\ Chance(prob, R)[F] = c * Chance(prob, Q)[phi[F]]
    <3>. SUFFICES ASSUME NEW F \in C
                  PROVE  Chance(prob, Q)[phi[F]] \in Int /\ Chance(prob, R)[F] = c * Chance(prob, Q)[phi[F]]
      OBVIOUS
    <3>1. phi[F] \in SUBSET Q /\ F = phi[F] \cup {x}
      BY <2>0
    <3>. HIDE DEF phi, R, C
    <3>. QED  BY <1>5, <3>1
  <2>2. {phi[F] : F \in C} = B
    <3>1. \A G \in B : G \cup {x} \in C /\ phi[G \cup {x}] = G
      OBVIOUS
    <3>. HIDE DEF phi, C
    <3>2. \A G \in B : \E F \in C : G = phi[F]
      BY <3>1
    <3>. QED  BY <2>0, <3>2
  <2>3. \A F, G \in C : phi[F] = phi[G] => F = G
    <3>. HIDE DEF phi, C
    <3>. QED  BY <2>0
  <2>4. c \in Int
    BY <1>6
  <2>. HIDE DEF phi, R, C, c
  <2>5. Sum(C, Chance(prob, R)) = c * Sum({phi[F] : F \in C}, Chance(prob, Q))
    BY <1>3, <2>1, <2>3, <2>4, SumAlong
  <2>. QED  BY <2>2, <2>5 DEF c
<1>. QED  BY <1>4, <1>7, <1>8

Fails(prob, Q, f) == Sum({F \in SUBSET Q : Cardinality(F) = f}, Chance(prob, Q))

\* FewLeft, as a sum of such probabilities.
LEMMA FewLeftIsSum ==
  ASSUME NEW prob, NEW Q, NEW m
  PROVE  FewLeft(prob, Q, m) = Sum({F \in SUBSET Q : Cardinality(Q \ F) < m}, Chance(prob, Q))
BY DEF FewLeft, Chance

\* The sets of failures with one host more, by the number of hosts in them and by
\* that of the hosts left.
LEMMA FailuresAdd ==
  ASSUME NEW Q, Q \subseteq Hosts, NEW x \in Hosts \ Q, NEW F \in SUBSET Q
  PROVE  /\ Cardinality(F) \in Nat /\ Cardinality(Q \ F) \in Nat
         /\ Cardinality(F \cup {x}) = Cardinality(F) + 1
         /\ Cardinality((Q \cup {x}) \ F) = Cardinality(Q \ F) + 1
         /\ Cardinality((Q \cup {x}) \ (F \cup {x})) = Cardinality(Q \ F)
<1>1. IsFiniteSet(F) /\ IsFiniteSet(Q \ F) /\ Cardinality(F) \in Nat /\ Cardinality(Q \ F) \in Nat
  BY HostSets
<1>2. (Q \cup {x}) \ F = (Q \ F) \cup {x} /\ x \notin Q \ F /\ x \notin F
  OBVIOUS
<1>3. (Q \cup {x}) \ (F \cup {x}) = Q \ F
  OBVIOUS
<1>4. Cardinality(F \cup {x}) = Cardinality(F) + 1
  BY <1>1, <1>2, FS_AddElement
<1>5. Cardinality((Q \ F) \cup {x}) = Cardinality(Q \ F) + 1
  BY <1>1, <1>2, FS_AddElement
<1>. QED  BY <1>1, <1>2, <1>3, <1>4, <1>5

\* One host more: f fail without it, or f - 1 and it.
LEMMA FailsAdd ==
  ASSUME NEW prob \in [Hosts -> 0..Den], NEW Q, Q \subseteq Hosts, NEW x \in Hosts \ Q, NEW f \in Nat
  PROVE  Fails(prob, Q \cup {x}, f) = (Den - prob[x]) * Fails(prob, Q, f) + prob[x] * Fails(prob, Q, f - 1)
<1>. DEFINE A == {F \in SUBSET Q : Cardinality(F) = f}
            B == {F \in SUBSET Q : Cardinality(F) = f - 1}
            C == {F \cup {x} : F \in B}
            R == {F \in SUBSET (Q \cup {x}) : Cardinality(F) = f}
<1>0. \A F \in SUBSET Q :
        /\ Cardinality(F) \in Nat /\ Cardinality(Q \ F) \in Nat
        /\ Cardinality(F \cup {x}) = Cardinality(F) + 1
        /\ Cardinality((Q \cup {x}) \ F) = Cardinality(Q \ F) + 1
        /\ Cardinality((Q \cup {x}) \ (F \cup {x})) = Cardinality(Q \ F)
  <2>. HIDE DEF A, B, C, R
  <2>. QED  BY FailuresAdd
<1>1. \A G \in R : G \in A \cup C
  <2>. SUFFICES ASSUME NEW G \in R PROVE G \in A \cup C
    OBVIOUS
  <2>1. CASE x \in G
    <3>1. PICK F \in SUBSET Q : G = F \cup {x}
      <4>1. G \ {x} \in SUBSET Q /\ G = (G \ {x}) \cup {x}
        BY <2>1
      <4>. QED  BY <4>1
    <3>2. Cardinality(G) = Cardinality(F) + 1 /\ Cardinality(F) \in Nat
      BY <1>0, <3>1
    <3>3. F \in B
      BY <3>2
    <3>. QED  BY <3>1, <3>3
  <2>2. CASE x \notin G
    BY <2>2
  <2>. QED  BY <2>1, <2>2
<1>2. \A G \in A : G \in R
  OBVIOUS
<1>3. \A G \in C : G \in R
  <2>. SUFFICES ASSUME NEW F \in B PROVE F \cup {x} \in R
    OBVIOUS
  <2>1. F \in SUBSET Q /\ Cardinality(F) = f - 1
    OBVIOUS
  <2>2. Cardinality(F \cup {x}) = Cardinality(F) + 1
    BY <1>0, <2>1
  <2>. QED  BY <2>1, <2>2
<1>4. R = A \cup C
  <2>. HIDE DEF A, C, R
  <2>. QED  BY <1>1, <1>2, <1>3
<1>5. Sum(A \cup C, Chance(prob, Q \cup {x}))
        = (Den - prob[x]) * Sum(A, Chance(prob, Q)) + prob[x] * Sum(B, Chance(prob, Q))
  <2>1. A \in SUBSET (SUBSET Q) /\ B \in SUBSET (SUBSET Q)
    OBVIOUS
  <2>. HIDE DEF A, B
  <2>. QED  BY <2>1, ChanceAdd
<1>. QED  BY <1>4, <1>5 DEF Fails

\* Where there are no hosts, none fail; and never fewer than none.
LEMMA FailsStart ==
  ASSUME NEW prob \in [Hosts -> 0..Den]
  PROVE  /\ \A f \in Nat : Fails(prob, {}, f) = IF f = 0 THEN 1 ELSE 0
         /\ \A Q \in SUBSET Hosts : Fails(prob, Q, -1) = 0
         /\ \A Q \in SUBSET Hosts : \A f \in Int : Fails(prob, Q, f) \in Nat
<1>1. ASSUME NEW Q \in SUBSET Hosts, NEW f \in Int PROVE Fails(prob, Q, f) \in Nat
  BY ChanceSum DEF Fails
<1>2. ASSUME NEW Q \in SUBSET Hosts PROVE Fails(prob, Q, -1) = 0
  <2>1. \A F \in SUBSET Q : Cardinality(F) \in Nat
    BY HostSets
  <2>2. {F \in SUBSET Q : Cardinality(F) = -1} = {}
    BY <2>1
  <2>3. IsFiniteSet({}) /\ \A F \in {} : Chance(prob, Q)[F] \in Int
    BY FS_EmptySet
  <2>. QED  BY <2>2, <2>3, SumFacts DEF Fails
<1>3. ASSUME NEW f \in Nat PROVE Fails(prob, {}, f) = IF f = 0 THEN 1 ELSE 0
  <2>. DEFINE A == {F \in SUBSET {} : Cardinality(F) = f}
  <2>1. Cardinality({}) = 0 /\ SUBSET {} = {{}}
    BY FS_EmptySet
  <2>2. CASE f # 0
    <3>1. A = {}
      BY <2>1, <2>2
    <3>2. IsFiniteSet({}) /\ \A F \in {} : Chance(prob, {})[F] \in Int
      BY FS_EmptySet
    <3>. QED  BY <2>2, <3>1, <3>2, SumFacts DEF Fails
  <2>3. CASE f = 0
    <3>1. A = {} \cup {{}}
      BY <2>1, <2>3
    <3>2. Chance(prob, {})[{}] = 1
      <4>1. {} \in SUBSET {} /\ {} \subseteq Hosts
        OBVIOUS
      <4>2. JustFail(prob, {}, {}) = 1
        BY <4>1, JustFailAdd
      <4>. QED  BY <4>1, <4>2 DEF Chance
    <3>3. IsFiniteSet({}) /\ {} \notin {} /\ \A F \in {} \cup {{}} : Chance(prob, {})[F] \in Int
      BY <3>2, FS_EmptySet
    <3>4. Sum({} \cup {{}}, Chance(prob, {})) = Chance(prob, {})[{}] + Sum({}, Chance(prob, {}))
      BY <3>3, SumAdd
    <3>5. Sum({}, Chance(prob, {})) = 0
      BY <3>3, SumFacts
    <3>6. Fails(prob, {}, f) = Sum(A, Chance(prob, {}))
      BY DEF Fails
    <3>. HIDE DEF A
    <3>. QED  BY <2>3, <3>1, <3>2, <3>4, <3>5, <3>6
  <2>. QED  BY <2>2, <2>3
<1>. QED  BY <1>1, <1>2, <1>3

\* One host more: it survives and fewer than m - 1 others do, or it fails.
LEMMA FewLeftAdd ==
  ASSUME NEW prob \in [Hosts -> 0..Den], NEW Q, Q \subseteq Hosts, NEW x \in Hosts \ Q, NEW m \in Int
  PROVE  FewLeft(prob, Q \cup {x}, m)
           = (Den - prob[x]) * FewLeft(prob, Q, m - 1) + prob[x] * FewLeft(prob, Q, m)
<1>. DEFINE A == {F \in SUBSET Q : Cardinality(Q \ F) < m - 1}
            B == {F \in SUBSET Q : Cardinality(Q \ F) < m}
            C == {F \cup {x} : F \in B}
            R == {F \in SUBSET (Q \cup {x}) : Cardinality((Q \cup {x}) \ F) < m}
<1>0. \A F \in SUBSET Q :
        /\ Cardinality(F) \in Nat /\ Cardinality(Q \ F) \in Nat
        /\ Cardinality(F \cup {x}) = Cardinality(F) + 1
        /\ Cardinality((Q \cup {x}) \ F) = Cardinality(Q \ F) + 1
        /\ Cardinality((Q \cup {x}) \ (F \cup {x})) = Cardinality(Q \ F)
  <2>. HIDE DEF A, B, C, R
  <2>. QED  BY FailuresAdd
<1>1. \A G \in R : G \in A \cup C
  <2>. SUFFICES ASSUME NEW G \in R PROVE G \in A \cup C
    OBVIOUS
  <2>1. CASE x \in G
    <3>1. PICK F \in SUBSET Q : G = F \cup {x}
      <4>1. G \ {x} \in SUBSET Q /\ G = (G \ {x}) \cup {x}
        BY <2>1
      <4>. QED  BY <4>1
    <3>2. Cardinality((Q \cup {x}) \ G) = Cardinality(Q \ F)
      BY <1>0, <3>1
    <3>3. F \in B
      BY <3>2
    <3>. QED  BY <3>1, <3>3
  <2>2. CASE x \notin G
    <3>1. G \in SUBSET Q
      BY <2>2
    <3>2. Cardinality((Q \cup {x}) \ G) = Cardinality(Q \ G) + 1 /\ Cardinality(Q \ G) \in Nat
      BY <1>0, <3>1
    <3>. QED  BY <3>1, <3>2
  <2>. QED  BY <2>1, <2>2
<1>2. \A G \in A : G \in R
  <2>. SUFFICES ASSUME NEW G \in A PROVE G \in R
    OBVIOUS
  <2>1. Cardinality((Q \cup {x}) \ G) = Cardinality(Q \ G) + 1 /\ Cardinality(Q \ G) \in Nat
    BY <1>0
  <2>. QED  BY <2>1
<1>3. \A G \in C : G \in R
  <2>. SUFFICES ASSUME NEW F \in B PROVE F \cup {x} \in R
    OBVIOUS
  <2>1. F \in SUBSET Q /\ Cardinality(Q \ F) < m
    OBVIOUS
  <2>2. Cardinality((Q \cup {x}) \ (F \cup {x})) = Cardinality(Q \ F)
    BY <1>0, <2>1
  <2>. QED  BY <2>1, <2>2
<1>4. R = A \cup C
  <2>. HIDE DEF A, C, R
  <2>. QED  BY <1>1, <1>2, <1>3
<1>5. Sum(A \cup C, Chance(prob, Q \cup {x}))
        = (Den - prob[x]) * Sum(A, Chance(prob, Q)) + prob[x] * Sum(B, Chance(prob, Q))
  <2>1. A \in SUBSET (SUBSET Q) /\ B \in SUBSET (SUBSET Q)
    OBVIOUS
  <2>. HIDE DEF A, B
  <2>. QED  BY <2>1, ChanceAdd
<1>. QED  BY <1>4, <1>5, FewLeftIsSum

\* To have few left is no more likely than to have not quite so few left.
LEMMA FewLeftFacts ==
  ASSUME NEW prob \in [Hosts -> 0..Den], NEW Q, Q \subseteq Hosts
  PROVE  /\ \A m \in Int : FewLeft(prob, Q, m) \in Nat
         /\ \A m, n \in Int : m <= n => FewLeft(prob, Q, m) <= FewLeft(prob, Q, n)
<1>1. ASSUME NEW m \in Int PROVE FewLeft(prob, Q, m) \in Nat
  BY ChanceSum, FewLeftIsSum
<1>2. ASSUME NEW m \in Int, NEW n \in Int, m <= n PROVE FewLeft(prob, Q, m) <= FewLeft(prob, Q, n)
  <2>. DEFINE A == {F \in SUBSET Q : Cardinality(Q \ F) < m}
              B == {F \in SUBSET Q : Cardinality(Q \ F) < n}
  <2>1. \A F \in SUBSET Q : Cardinality(Q \ F) \in Nat
    BY HostSets
  <2>2. A \in SUBSET B /\ B \in SUBSET (SUBSET Q)
    BY <1>2, <2>1
  <2>. HIDE DEF A, B
  <2>3. IsFiniteSet(B) /\ \A F \in B : Chance(prob, Q)[F] \in Nat
    BY <2>2, ChanceSum
  <2>4. Sum(A, Chance(prob, Q)) <= Sum(B, Chance(prob, Q))
    BY <2>2, <2>3, SumMonotone
  <2>. QED  BY <2>4, FewLeftIsSum DEF A, B
<1>. QED  BY <1>1, <1>2

\* All sets of failures together are certain.
LEMMA FewLeftAll ==
  ASSUME NEW prob \in [Hosts -> 0..Den], NEW Q, Q \subseteq Hosts, Cardinality(Q) <= NumShards,
         NEW m \in Int, m > Cardinality(Q)
  PROVE  FewLeft(prob, Q, m) = Power[Cardinality(Q)]
<1>. DEFINE P == {T \in SUBSET Q : \A k \in Int : k > Cardinality(T) =>
                                     FewLeft(prob, T, k) = Power[Cardinality(T)]}
<1>1. IsFiniteSet(Q) /\ Cardinality(Q) \in Nat /\ NumShards \in Nat /\ Den \in Nat
  BY HostSets, SlabRiskAssumption
<1>2. ASSUME NEW T \in SUBSET Q, \A x \in T : T \ {x} \in P PROVE T \in P
  <2>. SUFFICES ASSUME NEW k \in Int, k > Cardinality(T)
                PROVE  FewLeft(prob, T, k) = Power[Cardinality(T)]
    OBVIOUS
  <2>1. CASE T = {}
    <3>1. Cardinality(T) = 0
      BY <2>1, FS_EmptySet
    <3>. DEFINE A == {F \in SUBSET T : Cardinality(T \ F) < k}
    <3>2. A = {F \in SUBSET {} : Cardinality(F) = 0}
      <4>1. SUBSET {} = {{}} /\ {} \ {} = {}
        OBVIOUS
      <4>2. Cardinality({}) = 0
        BY FS_EmptySet
      <4>. QED  BY <2>1, <3>1, <4>1, <4>2
    <3>3. FewLeft(prob, T, k) = Fails(prob, {}, 0)
      BY <2>1, <3>2, FewLeftIsSum DEF Fails
    <3>4. Fails(prob, {}, 0) = 1
      BY FailsStart
    <3>. QED  BY <3>1, <3>3, <3>4, PowerFacts
  <2>2. CASE T # {}
    <3>1. PICK x \in T : TRUE
      BY <2>2
    <3>. DEFINE U == T \ {x}
    <3>2. IsFiniteSet(T) /\ Cardinality(U) = Cardinality(T) - 1 /\ Cardinality(T) \in Nat
          /\ Cardinality(U) \in Nat /\ Cardinality(T) <= Cardinality(Q)
      BY <1>1, FS_RemoveElement, FS_Subset, FS_CardinalityType
    <3>3. U \subseteq Hosts /\ x \in Hosts \ U /\ T = U \cup {x} /\ U \in P
      BY <1>2, <3>1
    <3>4. /\ FewLeft(prob, U, k) = Power[Cardinality(U)]
          /\ FewLeft(prob, U, k - 1) = Power[Cardinality(U)]
      <4>1. k > Cardinality(U) /\ k - 1 > Cardinality(U) /\ k - 1 \in Int
        BY <3>2
      <4>2. \A j \in Int : j > Cardinality(U) => FewLeft(prob, U, j) = Power[Cardinality(U)]
        BY <3>3
      <4>. QED  BY <4>1, <4>2
    <3>. HIDE DEF U, P
    <3>5. FewLeft(prob, T, k) = (Den - prob[x]) * FewLeft(prob, U, k - 1) + prob[x] * FewLeft(prob, U, k)
      BY <3>3, FewLeftAdd
    <3>6. Cardinality(U) \in 0..NumShards /\ Cardinality(T) = Cardinality(U) + 1
      BY <1>1, <3>2
    <3>7. Power[Cardinality(T)] = Den * Power[Cardinality(U)] /\ Power[Cardinality(U)] \in Nat
      <4>. DEFINE c == Cardinality(U)
      <4>1. c \in 0..NumShards /\ c \in 0..NumShards + 1 /\ Cardinality(T) = c + 1
        BY <1>1, <3>6
      <4>. HIDE DEF c
      <4>2. Power[c + 1] = Den * Power[c] /\ Power[c] \in Nat
        BY <4>1, PowerFacts
      <4>. QED  BY <4>1, <4>2 DEF c
    <3>8. prob[x] \in Int /\ Den \in Int
      BY <1>1, <3>3
    <3>9. \A d, p, a \in Int : (d - p) * a + p * a = d * a
      OBVIOUS
    <3>. QED  BY <3>4, <3>5, <3>7, <3>8, <3>9
  <2>. QED  BY <2>1, <2>2
<1>3. \A T \in SUBSET Q : T \in P
  <2>. HIDE DEF P
  <2>. QED  BY <1>1, <1>2, SubsetInduction
<1>. QED  BY <1>3

-----------------------------------------------------------------------------
(* The table of IndependentSlabLossProbability *)

\* The table of IndependentSlabLossProbability, after each host.
TableSteps(dp, u, ps) ==
  /\ dp[0] = [f \in 0..u |-> IF f = 0 THEN 1 ELSE 0]
  /\ \A k \in 1..u : dp[k] = AddHost(dp[k - 1], ps[k])

\* The table that IndependentSlabLossProbability fills takes these steps.
LEMMA TableFacts ==
  ASSUME NEW u \in Nat, NEW ps, \A k \in 1..u : ps[k] \in Int,
         NEW dp, dp = CHOOSE d : d = [k \in 0..u |->
                        IF k = 0 THEN [f \in 0..u |-> IF f = 0 THEN 1 ELSE 0]
                        ELSE AddHost(d[k - 1], ps[k])]
  PROVE  TableSteps(dp, u, ps)
<1>. DEFINE start == [f \in 0..u |-> IF f = 0 THEN 1 ELSE 0]
            body(d) == [k \in 0..u |-> IF k = 0 THEN start ELSE AddHost(d[k - 1], ps[k])]
            D == [0..u -> Int]
            step == [k \in 1..u |-> [d \in D |-> AddHost(d, ps[k])]]
<1>1. \A k \in 1..u : \A d \in D : AddHost(d, ps[k]) \in D
  <2>. SUFFICES ASSUME NEW k \in 1..u, NEW d \in D PROVE AddHost(d, ps[k]) \in D
    OBVIOUS
  <2>1. Den \in Int /\ ps[k] \in Int
    BY SlabRiskAssumption
  <2>2. \A a, b, p \in Int : a * (Den - p) + b * p \in Int /\ a * (Den - p) + 0 \in Int
    BY <2>1
  <2>3. \A f \in 0..u : d[f] * (Den - ps[k]) + (IF f > 0 THEN d[f - 1] * ps[k] ELSE 0) \in Int
    <3>. SUFFICES ASSUME NEW f \in 0..u
                  PROVE  d[f] * (Den - ps[k]) + (IF f > 0 THEN d[f - 1] * ps[k] ELSE 0) \in Int
      OBVIOUS
    <3>1. d[f] \in Int /\ (f > 0 => d[f - 1] \in Int)
      OBVIOUS
    <3>2. CASE f > 0
      BY <2>1, <2>2, <3>1, <3>2
    <3>3. CASE ~(f > 0)
      BY <2>1, <2>2, <3>1, <3>3
    <3>. QED  BY <3>2, <3>3
  <2>. QED  BY <2>3 DEF AddHost
<1>2. start \in D
  OBVIOUS
<1>3. PICK g : Iterates(g, u, D, start, step)
  <2>1. \A k \in 1..u : \A d \in D : step[k][d] \in D
    BY <1>1
  <2>. HIDE DEF D, start, step
  <2>. QED  BY <1>2, <2>1, RecursiveFunctions
<1>4. g = body(g)
  <2>1. g = [k \in 0..u |-> g[k]] /\ g[0] = start
    BY <1>3 DEF Iterates
  <2>2. \A k \in 0..u : k # 0 => g[k] = AddHost(g[k - 1], ps[k])
    <3>. SUFFICES ASSUME NEW k \in 0..u, k # 0 PROVE g[k] = AddHost(g[k - 1], ps[k])
      OBVIOUS
    <3>1. k \in 1..u /\ k - 1 \in 0..u
      OBVIOUS
    <3>. HIDE DEF D
    <3>2. g[k] = step[k][g[k - 1]] /\ g[k - 1] \in D
      BY <1>3, <3>1 DEF Iterates
    <3>. QED  BY <3>1, <3>2
  <2>. HIDE DEF start
  <2>3. \A k \in 0..u : g[k] = body(g)[k]
    BY <2>1, <2>2
  <2>. QED  BY <2>1, <2>3
<1>5. dp = body(dp)
  <2>1. dp = CHOOSE d : d = body(d)
    OBVIOUS
  <2>. HIDE DEF body
  <2>. QED  BY <1>4, <2>1
<1>6. \A k \in 0..u : dp[k] = IF k = 0 THEN start ELSE AddHost(dp[k - 1], ps[k])
  <2>. DEFINE e == body(dp)
  <2>1. dp = e
    BY <1>5
  <2>2. \A k \in 0..u : e[k] = IF k = 0 THEN start ELSE AddHost(dp[k - 1], ps[k])
    OBVIOUS
  <2>. HIDE DEF e, start
  <2>. QED  BY <2>1, <2>2
<1>. HIDE DEF start
<1>7. dp[0] = start /\ \A k \in 1..u : dp[k] = AddHost(dp[k - 1], ps[k])
  BY <1>6
<1>. QED  BY <1>7 DEF TableSteps, start

\* The hosts that come first in an order.
Upto(o, k) == {o[j] : j \in 1..k}

\* The first k hosts of an order without repetition, and the next one.
LEMMA UptoFacts ==
  ASSUME NEW n \in Nat, NEW S, NEW o \in [1..n -> S], \A i, j \in 1..n : o[i] = o[j] => i = j
  PROVE  /\ Upto(o, 0) = {}
         /\ \A k \in 0..n : Upto(o, k) \subseteq S
         /\ \A k \in 0..n : \A j \in 1..n : o[j] \in Upto(o, k) <=> j <= k
         /\ \A k \in 1..n : Upto(o, k) = Upto(o, k - 1) \cup {o[k]} /\ o[k] \notin Upto(o, k - 1)
<1>1. Upto(o, 0) = {}
  BY DEF Upto
<1>2. \A k \in 0..n : Upto(o, k) \subseteq S
  BY DEF Upto
<1>3. \A k \in 0..n : \A j \in 1..n : o[j] \in Upto(o, k) <=> j <= k
  BY DEF Upto
<1>4. ASSUME NEW k \in 1..n
      PROVE  Upto(o, k) = Upto(o, k - 1) \cup {o[k]} /\ o[k] \notin Upto(o, k - 1)
  <2>1. 1..k = (1..k - 1) \cup {k}
    OBVIOUS
  <2>2. Upto(o, k) = Upto(o, k - 1) \cup {o[k]}
    BY <2>1 DEF Upto
  <2>3. k - 1 \in 0..n /\ ~(k <= k - 1)
    OBVIOUS
  <2>. QED  BY <1>3, <2>2, <2>3
<1>. QED  BY <1>1, <1>2, <1>3, <1>4

\* dp is the table for the u hosts of o, with their probabilities ps.
TableFor(prob, dp, u, o, ps) ==
  /\ u \in Nat /\ o \in [1..u -> Hosts] /\ \A i, j \in 1..u : o[i] = o[j] => i = j
  /\ \A k \in 1..u : ps[k] = prob[o[k]]
  /\ TableSteps(dp, u, ps)

\* After k hosts, the table has the probabilities that f of them fail.
LEMMA TableIsFails ==
  ASSUME NEW prob \in [Hosts -> 0..Den], NEW u, NEW o, NEW ps, NEW dp, TableFor(prob, dp, u, o, ps)
  PROVE  \A k, f \in 0..u : dp[k][f] = Fails(prob, Upto(o, k), f)
<1>. u \in Nat /\ o \in [1..u -> Hosts] /\ TableSteps(dp, u, ps)
     /\ (\A i, j \in 1..u : o[i] = o[j] => i = j) /\ \A k \in 1..u : ps[k] = prob[o[k]]
  BY DEF TableFor
<1>. DEFINE P == {k \in Nat : k <= u => dp[k] = [f \in 0..u |-> Fails(prob, Upto(o, k), f)]}
<1>0. /\ Upto(o, 0) = {}
      /\ \A k \in 0..u : Upto(o, k) \subseteq Hosts
      /\ \A k \in 1..u : Upto(o, k) = Upto(o, k - 1) \cup {o[k]} /\ o[k] \notin Upto(o, k - 1)
  BY UptoFacts
<1>1. 0 \in P
  <2>1. \A f \in 0..u : Fails(prob, Upto(o, 0), f) = IF f = 0 THEN 1 ELSE 0
    <3>1. \A f \in 0..u : Fails(prob, {}, f) = IF f = 0 THEN 1 ELSE 0
      BY FailsStart
    <3>. QED  BY <1>0, <3>1
  <2>2. dp[0] = [f \in 0..u |-> IF f = 0 THEN 1 ELSE 0]
    BY DEF TableSteps
  <2>3. dp[0] = [f \in 0..u |-> dp[0][f]] /\ \A f \in 0..u : dp[0][f] = Fails(prob, Upto(o, 0), f)
    BY <2>1, <2>2
  <2>4. dp[0] = [f \in 0..u |-> Fails(prob, Upto(o, 0), f)]
    BY <2>3
  <2>. QED  BY <2>4
<1>2. ASSUME NEW k \in Nat, k \in P PROVE k + 1 \in P
  <2>. SUFFICES ASSUME k + 1 <= u
                PROVE  dp[k + 1] = [f \in 0..u |-> Fails(prob, Upto(o, k + 1), f)]
    OBVIOUS
  <2>. DEFINE Q == Upto(o, k)
              x == o[k + 1]
              p == ps[k + 1]
  <2>1. k \in 0..u /\ k + 1 \in 1..u /\ (k + 1) - 1 = k
    OBVIOUS
  <2>2. dp[k] = [f \in 0..u |-> Fails(prob, Q, f)]
    BY <1>2
  <2>3. dp[k + 1] = AddHost(dp[k], p)
    BY <2>1 DEF TableSteps
  <2>4. /\ Q \subseteq Hosts /\ x \in Hosts \ Q /\ Upto(o, k + 1) = Q \cup {x} /\ p = prob[x]
    BY <1>0, <2>1
  <2>. HIDE DEF Q, x, p
  <2>5. dp[k + 1] = [f \in 0..u |-> Fails(prob, Q, f) * (Den - p)
                                      + (IF f > 0 THEN dp[k][f - 1] * p ELSE 0)]
    BY <2>2, <2>3 DEF AddHost
  <2>6. \A f \in 0..u : Fails(prob, Q, f) * (Den - p) + (IF f > 0 THEN dp[k][f - 1] * p ELSE 0)
                          = Fails(prob, Q \cup {x}, f)
    <3>. SUFFICES ASSUME NEW f \in 0..u
                  PROVE  Fails(prob, Q, f) * (Den - p) + (IF f > 0 THEN dp[k][f - 1] * p ELSE 0)
                           = Fails(prob, Q \cup {x}, f)
      OBVIOUS
    <3>1. f \in Nat /\ f - 1 \in Int
      OBVIOUS
    <3>2. Fails(prob, Q \cup {x}, f) = (Den - p) * Fails(prob, Q, f) + p * Fails(prob, Q, f - 1)
      BY <2>4, <3>1, FailsAdd
    <3>3. Fails(prob, Q, f) \in Int /\ Fails(prob, Q, f - 1) \in Int /\ Fails(prob, Q, -1) = 0
      BY <2>4, <3>1, FailsStart
    <3>4. p \in Int /\ Den \in Int
      BY <2>4, SlabRiskAssumption
    <3>5. \A d, q, a, b \in Int : (d - q) * a + q * b = a * (d - q) + b * q
      OBVIOUS
    <3>6. (Den - p) * Fails(prob, Q, f) + p * Fails(prob, Q, f - 1)
            = Fails(prob, Q, f) * (Den - p) + Fails(prob, Q, f - 1) * p
      BY <3>3, <3>4, <3>5
    <3>7. CASE f > 0
      <4>1. f - 1 \in 0..u
        BY <3>7
      <4>2. dp[k][f - 1] = Fails(prob, Q, f - 1)
        BY <2>2, <4>1
      <4>. QED  BY <3>2, <3>6, <3>7, <4>2
    <3>8. CASE ~(f > 0)
      <4>1. f = 0
        BY <3>8
      <4>2. \A q \in Int : 0 * q = 0
        OBVIOUS
      <4>3. Fails(prob, Q, f - 1) * p = 0
        BY <3>3, <3>4, <4>1, <4>2
      <4>. QED  BY <3>2, <3>6, <3>8, <4>3
    <3>. QED  BY <3>7, <3>8
  <2>7. dp[k + 1] = [f \in 0..u |-> Fails(prob, Q \cup {x}, f)]
    <3>. DEFINE E(f) == Fails(prob, Q, f) * (Den - p) + (IF f > 0 THEN dp[k][f - 1] * p ELSE 0)
                T(f) == Fails(prob, Q \cup {x}, f)
    <3>1. dp[k + 1] = [f \in 0..u |-> E(f)] /\ \A f \in 0..u : E(f) = T(f)
      BY <2>5, <2>6
    <3>2. [f \in 0..u |-> T(f)] = [f \in 0..u |-> Fails(prob, Q \cup {x}, f)]
      OBVIOUS
    <3>. HIDE DEF E, T
    <3>3. [f \in 0..u |-> E(f)] = [f \in 0..u |-> T(f)]
      <4>1. \A A, e, t : e = [f \in A |-> e[f]] /\ t = [f \in A |-> t[f]]
                        /\ (\A f \in A : e[f] = t[f]) => e = t
        OBVIOUS
      <4>2. \A f \in 0..u : [d \in 0..u |-> E(d)][f] = [d \in 0..u |-> T(d)][f]
        BY <3>1
      <4>. QED  BY <4>1, <4>2
    <3>. QED  BY <3>1, <3>2, <3>3
  <2>. QED  BY <2>4, <2>7
<1>3. \A k \in Nat : k \in P
  <2>. HIDE DEF P
  <2>. QED  BY <1>1, <1>2, Induction
<1>4. ASSUME NEW k \in 0..u, NEW f \in 0..u PROVE dp[k][f] = Fails(prob, Upto(o, k), f)
  <2>1. dp[k] = [d \in 0..u |-> Fails(prob, Upto(o, k), d)]
    BY <1>3
  <2>. QED  BY <2>1
<1>. QED  BY <1>4

\* g has the probabilities of the numbers of failures in I.
ByNumber(prob, P, I, g) ==
  /\ prob \in [Hosts -> 0..Den] /\ P \subseteq Hosts
  /\ I \subseteq Nat /\ IsFiniteSet(I)
  /\ \A f \in I : g[f] = Fails(prob, P, f)

\* Added up by their number, the failures are those of every set of hosts.
LEMMA FailuresByNumber ==
  ASSUME NEW prob, NEW P, NEW I, NEW g, ByNumber(prob, P, I, g)
  PROVE  Sum(I, g) = Sum({F \in SUBSET P : Cardinality(F) \in I}, Chance(prob, P))
<1>. /\ prob \in [Hosts -> 0..Den] /\ P \subseteq Hosts
     /\ I \subseteq Nat /\ IsFiniteSet(I)
     /\ \A f \in I : g[f] = Fails(prob, P, f)
  BY DEF ByNumber
<1>. DEFINE A(T) == {F \in SUBSET P : Cardinality(F) \in T}
            c == Chance(prob, P)
            Q == {T \in SUBSET I : Sum(T, g) = Sum(A(T), c)}
<1>1. \A A1 \in SUBSET (SUBSET P) : IsFiniteSet(A1) /\ \A F \in A1 : c[F] \in Int
  <2>. HIDE DEF c
  <2>. SUFFICES ASSUME NEW A1 \in SUBSET (SUBSET P)
                PROVE  IsFiniteSet(A1) /\ \A F \in A1 : c[F] \in Int
    OBVIOUS
  <2>. QED  BY ChanceSum DEF c
<1>2. \A f \in I : g[f] \in Int
  BY FailsStart
<1>3. \A f \in I : g[f] = Sum({F \in SUBSET P : Cardinality(F) = f}, c)
  BY DEF Fails
<1>4. ASSUME NEW T \in SUBSET I, \A x \in T : T \ {x} \in Q PROVE T \in Q
  <2>1. IsFiniteSet(T) /\ \A x \in T : g[x] \in Int
    BY <1>2, FS_Subset
  <2>2. CASE T = {}
    <3>1. A(T) = {}
      BY <2>2
    <3>. HIDE DEF A, c
    <3>2. Sum(T, g) = 0
      BY <2>1, <2>2, SumFacts
    <3>3. IsFiniteSet({}) /\ \A F \in {} : c[F] \in Int
      BY FS_EmptySet
    <3>4. Sum({}, c) = 0
      BY <3>3, SumFacts
    <3>. QED  BY <3>1, <3>2, <3>4
  <2>3. CASE T # {}
    <3>1. PICK x \in T : TRUE
      BY <2>3
    <3>. DEFINE B == {F \in SUBSET P : Cardinality(F) = x}
                C == A(T \ {x})
    <3>2. A(T) = B \cup C /\ B \cap C = {}
      BY <3>1
    <3>3. B \in SUBSET (SUBSET P) /\ C \in SUBSET (SUBSET P)
      OBVIOUS
    <3>4. Sum(T \ {x}, g) = Sum(C, c)
      BY <1>4, <3>1
    <3>5. g[x] = Sum(B, c)
      BY <1>3, <3>1
    <3>. HIDE DEF A, B, C, c
    <3>6. Sum(T, g) = g[x] + Sum(T \ {x}, g)
      BY <2>1, <3>1, SumFacts
    <3>7. IsFiniteSet(B) /\ IsFiniteSet(C) /\ \A F \in B \cup C : c[F] \in Int
      BY <1>1, <3>3
    <3>8. Sum(B \cup C, c) = Sum(B, c) + Sum(C, c)
      BY <3>2, <3>7, SumUnion
    <3>. QED  BY <3>2, <3>4, <3>5, <3>6, <3>8
  <2>. QED  BY <2>2, <2>3
<1>5. \A T \in SUBSET I : T \in Q
  <2>. HIDE DEF Q
  <2>. QED  BY <1>4, SubsetInduction
<1>6. I \in Q
  BY <1>5
<1>. QED  BY <1>6

\* The table sums to the failures of which fewer than MinShards hosts are left.
LEMMA TailIsFewLeft ==
  ASSUME NEW prob \in [Hosts -> 0..Den], NEW P, P \subseteq Hosts,
         NEW u, u = Cardinality(P), u >= MinShards,
         NEW g, \A f \in 0..u : g[f] = Fails(prob, P, f)
  PROVE  Sum(u - MinShards + 1..u, g) = FewLeft(prob, P, MinShards)
<1>. DEFINE I == u - MinShards + 1..u
<1>1. u \in Nat /\ MinShards \in Nat /\ MinShards >= 1 /\ IsFiniteSet(P)
  <2>1. IsFiniteSet(P) /\ Cardinality(P) \in Nat
    BY HostSets
  <2>2. MinShards \in Nat /\ MinShards >= 1
    BY SlabRiskAssumption
  <2>. QED  BY <2>1, <2>2
<1>2. I \subseteq Nat /\ IsFiniteSet(I) /\ \A f \in I : g[f] = Fails(prob, P, f)
  <2>1. u - MinShards + 1 \in Int
    BY <1>1
  <2>2. IsFiniteSet(I)
    BY <1>1, <2>1, FS_Interval
  <2>. QED  BY <1>1, <2>2
<1>3. {F \in SUBSET P : Cardinality(F) \in I} = {F \in SUBSET P : Cardinality(P \ F) < MinShards}
  <2>1. ASSUME NEW F \in SUBSET P
        PROVE  Cardinality(F) \in I <=> Cardinality(P \ F) < MinShards
    <3>1. F \cap P = F /\ P \cap F = F
      OBVIOUS
    <3>2. IsFiniteSet(F) /\ Cardinality(F) \in Nat /\ Cardinality(P \ F) \in Nat
      <4>1. F \subseteq Hosts /\ P \ F \subseteq Hosts
        OBVIOUS
      <4>. QED  BY <4>1, HostSets
    <3>3. Cardinality(P \ F) = u - Cardinality(F)
      <4>1. Cardinality(P \ F) = Cardinality(P) - Cardinality(P \cap F)
        BY <1>1, <3>2, FS_Difference
      <4>. QED  BY <3>1, <4>1
    <3>. QED  BY <1>1, <3>2, <3>3
  <2>. HIDE DEF I
  <2>. QED  BY <2>1
<1>. HIDE DEF I
<1>4. Sum(I, g) = Sum({F \in SUBSET P : Cardinality(F) \in I}, Chance(prob, P))
  <2>1. ByNumber(prob, P, I, g)
    BY <1>2 DEF ByNumber
  <2>. QED  BY <2>1, FailuresByNumber
<1>. QED  BY <1>3, <1>4, FewLeftIsSum DEF I

\* IndependentSlabLossProbability is the probability it is named for.
LEMMA LossTailIsLost ==
  ASSUME NEW prob \in [Hosts -> 0..Den], NEW P, P \subseteq Hosts, Cardinality(P) <= NumShards
  PROVE  LossTailOf(prob, P) = Lost(prob, P)
<1>. DEFINE o == InOrder(P, Zero)
            u == Cardinality(P)
            ps == [k \in 1..u |-> prob[o[k]]]
<1>1. Zero \in [Hosts -> Int]
  BY DEF Zero
<1>2. /\ u \in Nat /\ o \in [1..u -> P]
      /\ \A i, j \in 1..u : o[i] = o[j] => i = j
      /\ \A x \in P : \E k \in 1..u : o[k] = x
  <2>. HIDE DEF o, u
  <2>1. o = InOrder(P, Zero) /\ u = Cardinality(P)
    BY DEF o, u
  <2>. QED  BY <1>1, <2>1, InOrderFacts, SMTT(30)
<1>3. LossTailOf(prob, P) = LossTail(ps)
  BY DEF LossTailOf
<1>. HIDE DEF o, u
<1>4. Len(ps) = u /\ (\A k \in 1..u : ps[k] = prob[o[k]] /\ ps[k] \in Int) /\ o \in [1..u -> Hosts]
  <2>1. \A k \in 1..u : prob[o[k]] \in Int
    <3>1. \A k \in 1..u : o[k] \in Hosts
      BY <1>2
    <3>2. \A h \in Hosts : prob[h] \in Int
      BY SlabRiskAssumption
    <3>. QED  BY <3>1, <3>2
  <2>2. ps \in [1..u -> Int]
    BY <2>1
  <2>3. ps \in Seq(Int)
    BY <1>2, <2>2
  <2>4. DOMAIN ps = 1..u
    OBVIOUS
  <2>5. Len(ps) = u
    <3>. HIDE DEF ps
    <3>1. DOMAIN ps = 1..Len(ps) /\ Len(ps) \in Nat
      BY <2>3
    <3>. QED  BY <1>2, <2>4, <3>1
  <2>. QED  BY <1>2, <2>1, <2>5
<1>. HIDE DEF ps
<1>5. u <= NumShards /\ MinShards \in Nat /\ MinShards \in Int
  BY SlabRiskAssumption DEF u
<1>6. CASE u < MinShards
  <2>1. LossTail(ps) = Power[NumShards - u] * Power[u]
    BY <1>4, <1>6 DEF LossTail
  <2>2. Power[u] = FewLeft(prob, P, MinShards)
    BY <1>5, <1>6, FewLeftAll DEF u
  <2>. QED  BY <1>3, <2>1, <2>2 DEF Lost, u
<1>7. CASE ~(u < MinShards)
  <2>. DEFINE dp[k \in 0..u] ==
                IF k = 0 THEN [f \in 0..u |-> IF f = 0 THEN 1 ELSE 0] ELSE AddHost(dp[k - 1], ps[k])
  <2>1. LossTail(ps) = Power[NumShards - u] * Sum(u - MinShards + 1..u, dp[u])
    BY <1>4, <1>7 DEF LossTail
  <2>2. dp = CHOOSE d : d = [k \in 0..u |->
                        IF k = 0 THEN [f \in 0..u |-> IF f = 0 THEN 1 ELSE 0]
                        ELSE AddHost(d[k - 1], ps[k])]
    BY DEF dp
  <2>. HIDE DEF dp
  <2>3. TableSteps(dp, u, ps)
    BY <1>2, <1>4, <2>2, TableFacts
  <2>4. \A f \in 0..u : dp[u][f] = Fails(prob, Upto(o, u), f)
    <3>1. TableFor(prob, dp, u, o, ps)
      BY <1>2, <1>4, <2>3 DEF TableFor
    <3>2. \A k, f \in 0..u : dp[k][f] = Fails(prob, Upto(o, k), f)
      BY <3>1, TableIsFails
    <3>. QED  BY <1>2, <3>2
  <2>5. Upto(o, u) = P
    BY <1>2 DEF Upto
  <2>6. Sum(u - MinShards + 1..u, dp[u]) = FewLeft(prob, P, MinShards)
    <3>1. (\A f \in 0..u : dp[u][f] = Fails(prob, P, f)) /\ u = Cardinality(P) /\ u >= MinShards
      BY <1>2, <1>5, <1>7, <2>4, <2>5 DEF u
    <3>. QED  BY <3>1, TailIsFewLeft
  <2>. QED  BY <1>3, <2>1, <2>6 DEF Lost, u
<1>. QED  BY <1>6, <1>7

-----------------------------------------------------------------------------
(* The search for a shard: it ends, as the shards it has not visited grow  *)
(* fewer, and it keeps every host that has a shard.                        *)

\* A search with one field changed.
LEMMA SearchExcept ==
  ASSUME NEW s \in Searches, NEW v
  PROVE  /\ [s EXCEPT !.seen = v] = [host |-> s.host, a |-> s.a, seen |-> v, ok |-> s.ok]
         /\ [s EXCEPT !.host = v] = [host |-> v, a |-> s.a, seen |-> s.seen, ok |-> s.ok]
         /\ [s EXCEPT !.ok = v] = [host |-> s.host, a |-> s.a, seen |-> s.seen, ok |-> v]
BY DEF Searches

\* A function from searches to how they end keeps what they have visited.
Keeps(f) == f \in [Searches -> Searches] /\ \A s \in Searches : s.seen \subseteq f[s].seen

NextShard(s) == Min(stored[s.host] \ s.seen)
\* The search, with the next shard visited.
Here(s) == [s EXCEPT !.seen = @ \cup {NextShard(s)}]
\* The search for another shard for the host in the way.
Ask(s) == [Here(s) EXCEPT !.host = s.a[NextShard(s)]]
Moved(f, s) == IF s.a[NextShard(s)] = NoHost THEN [Here(s) EXCEPT !.ok = TRUE] ELSE f[Ask(s)]
\* The search goes on.
Retry(m, s) == [m EXCEPT !.host = s.host]

\* Visit, in terms of the names above.
LEMMA VisitIs ==
  ASSUME NEW f, NEW s
  PROVE  Visit(f, s) = IF stored[s.host] \subseteq s.seen THEN s
                       ELSE IF Moved(f, s).ok
                            THEN [Moved(f, s) EXCEPT !.a[NextShard(s)] = s.host]
                            ELSE f[Retry(Moved(f, s), s)]
BY DEF Visit, Moved, Here, Ask, Retry, NextShard

\* A visit goes on with searches that have visited more.
LEMMA VisitSteps ==
  ASSUME stored \in [Hosts -> SUBSET Shards], NEW f, Keeps(f),
         NEW s \in Searches, ~(stored[s.host] \subseteq s.seen)
  PROVE  /\ NextShard(s) \in stored[s.host] \ s.seen /\ NextShard(s) \in Shards
         /\ s.a[NextShard(s)] # NoHost => /\ Ask(s) \in Searches
                                          /\ Ask(s).seen = s.seen \cup {NextShard(s)}
         /\ Moved(f, s) \in Searches
         /\ s.seen \cup {NextShard(s)} \subseteq Moved(f, s).seen
         /\ \A m \in Searches : Retry(m, s) \in Searches /\ Retry(m, s).seen = m.seen
         /\ \A m \in Searches : /\ [m EXCEPT !.a[NextShard(s)] = s.host] \in Searches
                                /\ [m EXCEPT !.a[NextShard(s)] = s.host].seen = m.seen
<1>. DEFINE i == NextShard(s)
<1>1. /\ s.host \in Hosts /\ s.a \in [Shards -> Hosts \cup {NoHost}]
      /\ s.seen \subseteq Shards /\ s.ok \in BOOLEAN
      /\ s = [host |-> s.host, a |-> s.a, seen |-> s.seen, ok |-> s.ok]
  BY DEF Searches
<1>2. i \in stored[s.host] \ s.seen /\ i \in Shards
  <2>. DEFINE S == stored[s.host] \ s.seen
  <2>1. S # {} /\ S \subseteq Shards
    BY <1>1
  <2>2. S \subseteq Nat
    BY <2>1 DEF Shards
  <2>3. Min(S) \in S
    <3>. HIDE DEF S
    <3>. QED  BY <2>1, <2>2, LeastOf
  <2>. QED  BY <2>1, <2>3 DEF NextShard
<1>. HIDE DEF i
<1>3. Here(s) = [host |-> s.host, a |-> s.a, seen |-> s.seen \cup {i}, ok |-> s.ok]
  <2>1. Here(s) = [s EXCEPT !.seen = s.seen \cup {i}]
    BY DEF Here, i
  <2>. QED  BY <2>1, SearchExcept
<1>4. Here(s) \in Searches
  BY <1>1, <1>2, <1>3 DEF Searches
<1>9. /\ Here(s).host = s.host /\ Here(s).a = s.a
      /\ Here(s).seen = s.seen \cup {i} /\ Here(s).ok = s.ok
  BY <1>3
<1>10. \A v : /\ [Here(s) EXCEPT !.host = v] =
                    [host |-> v, a |-> s.a, seen |-> s.seen \cup {i}, ok |-> s.ok]
              /\ [Here(s) EXCEPT !.ok = v] =
                    [host |-> s.host, a |-> s.a, seen |-> s.seen \cup {i}, ok |-> v]
  <2>. SUFFICES ASSUME NEW v
                PROVE  /\ [Here(s) EXCEPT !.host = v] =
                            [host |-> v, a |-> s.a, seen |-> s.seen \cup {i}, ok |-> s.ok]
                       /\ [Here(s) EXCEPT !.ok = v] =
                            [host |-> s.host, a |-> s.a, seen |-> s.seen \cup {i}, ok |-> v]
    OBVIOUS
  <2>. DEFINE r == Here(s)
  <2>1. r \in Searches /\ r.host = s.host /\ r.a = s.a /\ r.seen = s.seen \cup {i} /\ r.ok = s.ok
    BY <1>4, <1>9
  <2>. HIDE DEF r
  <2>2. /\ [r EXCEPT !.host = v] = [host |-> v, a |-> r.a, seen |-> r.seen, ok |-> r.ok]
        /\ [r EXCEPT !.ok = v] = [host |-> r.host, a |-> r.a, seen |-> r.seen, ok |-> v]
    BY <2>1, SearchExcept
  <2>3. /\ [r EXCEPT !.host = v] =
             [host |-> v, a |-> s.a, seen |-> s.seen \cup {i}, ok |-> s.ok]
        /\ [r EXCEPT !.ok = v] =
             [host |-> s.host, a |-> s.a, seen |-> s.seen \cup {i}, ok |-> v]
    BY <2>1, <2>2
  <2>. QED  BY <2>3 DEF r
<1>5. ASSUME s.a[i] # NoHost PROVE Ask(s) \in Searches /\ Ask(s).seen = s.seen \cup {i}
  <2>1. s.a[i] \in Hosts
    BY <1>1, <1>2, <1>5
  <2>2. Ask(s) = [host |-> s.a[i], a |-> s.a, seen |-> s.seen \cup {i}, ok |-> s.ok]
    <3>1. Ask(s) = [Here(s) EXCEPT !.host = s.a[i]]
      BY DEF Ask, i
    <3>. QED  BY <1>10, <3>1
  <2>. QED  BY <1>1, <1>2, <2>1, <2>2 DEF Searches
<1>6. Moved(f, s) \in Searches /\ s.seen \cup {i} \subseteq Moved(f, s).seen
  <2>1. CASE s.a[i] = NoHost
    <3>1. Moved(f, s) = [host |-> s.host, a |-> s.a, seen |-> s.seen \cup {i}, ok |-> TRUE]
      <4>1. Moved(f, s) = [Here(s) EXCEPT !.ok = TRUE]
        BY <2>1 DEF Moved, i
      <4>. QED  BY <1>10, <4>1
    <3>. QED  BY <1>1, <1>2, <3>1 DEF Searches
  <2>2. CASE s.a[i] # NoHost
    <3>1. Moved(f, s) = f[Ask(s)]
      BY <2>2 DEF Moved, i
    <3>. QED  BY <1>5, <2>2, <3>1 DEF Keeps
  <2>. QED  BY <2>1, <2>2
<1>7. ASSUME NEW m \in Searches PROVE Retry(m, s) \in Searches /\ Retry(m, s).seen = m.seen
  <2>1. Retry(m, s) = [host |-> s.host, a |-> m.a, seen |-> m.seen, ok |-> m.ok]
    BY <1>7 DEF Retry, Searches
  <2>. QED  BY <1>1, <1>7, <2>1 DEF Searches
<1>8. ASSUME NEW m \in Searches
      PROVE  /\ [m EXCEPT !.a[i] = s.host] \in Searches
             /\ [m EXCEPT !.a[i] = s.host].seen = m.seen
  <2>1. [m EXCEPT !.a[i] = s.host] =
          [host |-> m.host, a |-> [m.a EXCEPT ![i] = s.host], seen |-> m.seen, ok |-> m.ok]
    BY <1>8 DEF Searches
  <2>2. [m.a EXCEPT ![i] = s.host] \in [Shards -> Hosts \cup {NoHost}]
    BY <1>1, <1>8 DEF Searches
  <2>. QED  BY <1>8, <2>1, <2>2 DEF Searches
<1>. QED  BY <1>2, <1>5, <1>6, <1>7, <1>8 DEF i

\* A visit forgets nothing that was visited before it.
LEMMA VisitKeeps ==
  ASSUME stored \in [Hosts -> SUBSET Shards], NEW f, Keeps(f), NEW s \in Searches
  PROVE  Visit(f, s) \in Searches /\ s.seen \subseteq Visit(f, s).seen
<1>1. CASE stored[s.host] \subseteq s.seen
  BY <1>1, VisitIs
<1>2. CASE ~(stored[s.host] \subseteq s.seen)
  <2>. DEFINE m == Moved(f, s)
              i == NextShard(s)
  <2>1. /\ m \in Searches /\ s.seen \cup {i} \subseteq m.seen
        /\ Retry(m, s) \in Searches /\ Retry(m, s).seen = m.seen
        /\ [m EXCEPT !.a[i] = s.host] \in Searches
        /\ [m EXCEPT !.a[i] = s.host].seen = m.seen
    BY <1>2, VisitSteps
  <2>2. Visit(f, s) = IF m.ok THEN [m EXCEPT !.a[i] = s.host] ELSE f[Retry(m, s)]
    BY <1>2, VisitIs
  <2>. HIDE DEF m, i
  <2>3. CASE m.ok
    BY <2>1, <2>2, <2>3
  <2>4. CASE ~m.ok
    BY <2>1, <2>2, <2>4 DEF Keeps
  <2>. QED  BY <2>3, <2>4
<1>. QED  BY <1>1, <1>2

\* The shards that are left to visit.
Unseen(s) == Cardinality(Shards \ s.seen)

\* The fewer shards are left to visit, the more were visited.
LEMMA UnseenFacts ==
  /\ \A s \in Searches : Unseen(s) \in 0..NumShards
  /\ \A s, t \in Searches : s.seen \subseteq t.seen => Unseen(t) <= Unseen(s)
  /\ \A s, t \in Searches : \A i \in Shards :
       i \notin s.seen /\ s.seen \cup {i} \subseteq t.seen => Unseen(t) < Unseen(s)
<1>1. NumShards \in Nat /\ IsFiniteSet(Shards) /\ Cardinality(Shards) = NumShards
  <2>1. NumShards \in Nat
    BY SlabRiskAssumption
  <2>. QED  BY <2>1, FS_Interval DEF Shards
<1>2. ASSUME NEW S \in SUBSET Shards, NEW T \in SUBSET S
      PROVE  /\ Cardinality(S) \in 0..NumShards /\ Cardinality(T) <= Cardinality(S)
             /\ \A i \in S : i \notin T => Cardinality(T) < Cardinality(S)
  <2>1. IsFiniteSet(S) /\ Cardinality(S) \in Nat /\ Cardinality(S) <= NumShards
    BY <1>1, ProperSubset
  <2>2. /\ Cardinality(T) <= Cardinality(S)
        /\ \A i \in S : i \notin T => Cardinality(T) < Cardinality(S)
    BY <2>1, ProperSubset
  <2>. QED  BY <1>1, <2>1, <2>2
<1>3. ASSUME NEW s \in Searches PROVE Shards \ s.seen \in SUBSET Shards
  OBVIOUS
<1>4. \A s \in Searches : Unseen(s) \in 0..NumShards
  BY <1>2 DEF Unseen
<1>5. ASSUME NEW s \in Searches, NEW t \in Searches, s.seen \subseteq t.seen
      PROVE  /\ Unseen(t) <= Unseen(s)
             /\ \A i \in Shards : i \notin s.seen /\ i \in t.seen => Unseen(t) < Unseen(s)
  <2>. DEFINE S == Shards \ s.seen
              T == Shards \ t.seen
  <2>1. S \in SUBSET Shards /\ T \in SUBSET S
    BY <1>5
  <2>2. \A i \in Shards : i \notin s.seen /\ i \in t.seen => i \in S /\ i \notin T
    OBVIOUS
  <2>3. Unseen(t) = Cardinality(T) /\ Unseen(s) = Cardinality(S)
    BY DEF Unseen
  <2>. HIDE DEF S, T
  <2>. QED  BY <1>2, <2>1, <2>2, <2>3
<1>6. \A s, t \in Searches : \A i \in Shards :
        i \notin s.seen /\ s.seen \cup {i} \subseteq t.seen => Unseen(t) < Unseen(s)
  BY <1>5
<1>. QED  BY <1>4, <1>5, <1>6

\* A visit depends on searches with fewer shards left only.
LEMMA VisitSame ==
  ASSUME stored \in [Hosts -> SUBSET Shards], NEW f, Keeps(f), NEW g,
         NEW s \in Searches, \A t \in Searches : Unseen(t) < Unseen(s) => f[t] = g[t]
  PROVE  Visit(f, s) = Visit(g, s)
<1>1. CASE stored[s.host] \subseteq s.seen
  BY <1>1, VisitIs
<1>2. CASE ~(stored[s.host] \subseteq s.seen)
  <2>. DEFINE m == Moved(f, s)
              i == NextShard(s)
  <2>1. /\ i \in Shards /\ i \notin s.seen
        /\ m \in Searches /\ s.seen \cup {i} \subseteq m.seen
        /\ Retry(m, s) \in Searches /\ Retry(m, s).seen = m.seen
        /\ s.a[i] # NoHost => Ask(s) \in Searches /\ Ask(s).seen = s.seen \cup {i}
    BY <1>2, VisitSteps
  <2>2. Moved(g, s) = m
    <3>1. CASE s.a[i] = NoHost
      BY <3>1 DEF Moved
    <3>2. CASE s.a[i] # NoHost
      <4>1. Unseen(Ask(s)) < Unseen(s)
        BY <2>1, <3>2, UnseenFacts
      <4>2. f[Ask(s)] = g[Ask(s)]
        BY <2>1, <3>2, <4>1
      <4>. QED  BY <3>2, <4>2 DEF Moved
    <3>. QED  BY <3>1, <3>2
  <2>3. Visit(f, s) = IF m.ok THEN [m EXCEPT !.a[i] = s.host] ELSE f[Retry(m, s)]
    BY <1>2, VisitIs
  <2>4. Visit(g, s) = IF m.ok THEN [m EXCEPT !.a[i] = s.host] ELSE g[Retry(m, s)]
    BY <1>2, <2>2, VisitIs
  <2>. HIDE DEF m, i
  <2>5. f[Retry(m, s)] = g[Retry(m, s)]
    <3>1. Unseen(Retry(m, s)) < Unseen(s)
      BY <2>1, UnseenFacts
    <3>. QED  BY <2>1, <3>1
  <2>. QED  BY <2>3, <2>4, <2>5
<1>. QED  BY <1>1, <1>2

\* The search exists, and visits what its definition says.
LEMMA SearchExists ==
  ASSUME stored \in [Hosts -> SUBSET Shards],
         NEW search, search = CHOOSE f : f = [s \in Searches |-> Visit(f, s)]
  PROVE  Keeps(search) /\ \A s \in Searches : search[s] = Visit(search, s)
<1>. DEFINE D == Searches
            body(f) == [s \in D |-> Visit(f, s)]
            F == {f \in [D -> D] : Keeps(f)}
            base == [s \in D |-> s]
            step == [f \in F |-> body(f)]
            rank == [s \in D |-> Unseen(s)]
<1>1. base \in F
  BY DEF Keeps
<1>2. \A f \in F : f = [s \in D |-> f[s]] /\ step[f] \in F
  <2>. SUFFICES ASSUME NEW f \in F PROVE f = [s \in D |-> f[s]] /\ body(f) \in F
    OBVIOUS
  <2>1. \A s \in D : Visit(f, s) \in D /\ s.seen \subseteq Visit(f, s).seen
    BY VisitKeeps
  <2>. QED  BY <2>1 DEF Keeps
<1>3. \A f, g \in F : \A s \in D :
        (\A t \in D : rank[t] < rank[s] => f[t] = g[t]) => step[f][s] = step[g][s]
  <2>. SUFFICES ASSUME NEW f \in F, NEW g \in F, NEW s \in D,
                       \A t \in D : Unseen(t) < Unseen(s) => f[t] = g[t]
                PROVE  Visit(f, s) = Visit(g, s)
    OBVIOUS
  <2>1. Keeps(f)
    OBVIOUS
  <2>. HIDE DEF F
  <2>. QED  BY <2>1, VisitSame
<1>4. rank \in [D -> 0..NumShards] /\ NumShards \in Nat
  BY UnseenFacts, SlabRiskAssumption
<1>5. PICK f \in F : f = step[f]
  <2>. HIDE DEF D, F, base, step, rank
  <2>. QED  BY <1>1, <1>2, <1>3, <1>4, FixedPoint, SMTT(30)
<1>6. f = body(f)
  BY <1>5
<1>7. search = CHOOSE e : e = body(e)
  OBVIOUS
<1>. HIDE DEF body
<1>8. search = body(search)
  BY <1>6, <1>7
<1>9. body(search) = [s \in D |-> Visit(search, s)]
  BY DEF body
<1>10. \A s \in D : search[s] = Visit(search, s)
  BY <1>8, <1>9
<1>11. \A s \in D : f[s] = Visit(f, s)
  <2>1. body(f) = [s \in D |-> Visit(f, s)]
    BY DEF body
  <2>. QED  BY <1>6, <2>1
<1>12. Keeps(f)
  OBVIOUS
<1>. HIDE DEF F
<1>13. \A s \in D : search[s] = f[s]
  <2>. DEFINE P == {n \in Nat : \A s \in D : Unseen(s) < n => search[s] = f[s]}
  <2>1. \A s \in D : Unseen(s) \in Nat
    BY UnseenFacts
  <2>2. 0 \in P
    BY <2>1
  <2>3. ASSUME NEW n \in Nat, n \in P PROVE n + 1 \in P
    <3>. SUFFICES ASSUME NEW s \in D, Unseen(s) < n + 1 PROVE search[s] = f[s]
      OBVIOUS
    <3>1. \A t \in D : Unseen(t) < Unseen(s) => f[t] = search[t]
      <4>. SUFFICES ASSUME NEW t \in D, Unseen(t) < Unseen(s) PROVE f[t] = search[t]
        OBVIOUS
      <4>1. Unseen(t) < n
        BY <2>1
      <4>. QED  BY <2>3, <4>1
    <3>2. Visit(f, s) = Visit(search, s)
      BY <1>12, <3>1, VisitSame
    <3>. QED  BY <1>10, <1>11, <3>2
  <2>4. \A n \in Nat : n \in P
    <3>. HIDE DEF P
    <3>. QED  BY <2>2, <2>3, Induction
  <2>5. ASSUME NEW s \in D PROVE search[s] = f[s]
    <3>1. Unseen(s) + 1 \in P /\ Unseen(s) < Unseen(s) + 1
      BY <2>1, <2>4
    <3>. QED  BY <3>1
  <2>. QED  BY <2>5
<1>14. search = f
  <2>1. search = [s \in D |-> search[s]]
    BY <1>8, <1>9
  <2>2. f = [s \in D |-> f[s]]
    BY <1>2
  <2>. QED  BY <1>13, <2>1, <2>2
<1>. QED  BY <1>10, <1>12, <1>14

-----------------------------------------------------------------------------
(* How a search ends: with a shard for the host, or stuck among hosts that *)
(* have no shard elsewhere.                                                *)

\* The shards a host is assigned are its own, and no host has two shards of U.
Sound(a) == \A j \in Shards : a[j] # NoHost => j \in stored[a[j]]
Distinct(a, U) == \A i, j \in U : a[i] = a[j] /\ a[i] # NoHost => i = j

\* A search for host h may start: h has none of the shards that are not visited.
Ready(h, a, X) ==
  /\ Sound(a) /\ Distinct(a, Shards)
  /\ \A j \in Shards \ X : a[j] # h
\* It found one: b leaves the visited shards alone, and assigns the others to the same
\* hosts and to h.
Found(h, a, X, b) ==
  /\ \A j \in X : b[j] = a[j]
  /\ Sound(b) /\ Distinct(b, Shards \ X)
  /\ \A g \in Hosts : (\E j \in Shards \ X : b[j] = g)
                        <=> g = h \/ \E j \in Shards \ X : a[j] = g
\* It found none: the shards of h and those of the hosts in the way are all visited.
Stuck(h, a, X, Y) ==
  /\ X \subseteq Y /\ stored[h] \subseteq Y
  /\ \A j \in Y \ X : a[j] # NoHost /\ stored[a[j]] \subseteq Y

Assignments == [Shards -> Hosts \cup {NoHost}]

\* A free shard of the host is found.
LEMMA FoundFree ==
  ASSUME NEW h \in Hosts, NEW a \in Assignments, NEW X \in SUBSET Shards, Ready(h, a, X),
         NEW i \in Shards \ X, i \in stored[h], a[i] = NoHost
  PROVE  Found(h, a, X, [a EXCEPT ![i] = h])
<1>. DEFINE b == [a EXCEPT ![i] = h]
<1>1. b[i] = h /\ \A j \in Shards : j # i => b[j] = a[j]
  BY DEF Assignments
<1>2. h # NoHost /\ \A g \in Hosts : g # NoHost
  BY SlabRiskAssumption
<1>. HIDE DEF b
<1>3. \A j \in X : b[j] = a[j]
  BY <1>1
<1>4. Sound(b)
  BY <1>1 DEF Sound, Ready
<1>5. Distinct(b, Shards \ X)
  BY <1>1 DEF Distinct, Ready
<1>6. \A g \in Hosts : (\E j \in Shards \ X : b[j] = g)
                         <=> g = h \/ \E j \in Shards \ X : a[j] = g
  BY <1>1, <1>2
<1>. QED  BY <1>3, <1>4, <1>5, <1>6 DEF Found, b

\* A shard is found where the host in the way found another one.
LEMMA FoundMoved ==
  ASSUME NEW h \in Hosts, NEW a \in Assignments, NEW X \in SUBSET Shards, Ready(h, a, X),
         NEW i \in Shards \ X, i \in stored[h], a[i] # NoHost,
         NEW m \in Assignments, Found(a[i], a, X \cup {i}, m)
  PROVE  Found(h, a, X, [m EXCEPT ![i] = h])
<1>. DEFINE b == [m EXCEPT ![i] = h]
            Y == X \cup {i}
<1>1. b[i] = h /\ \A j \in Shards : j # i => b[j] = m[j]
  BY DEF Assignments
<1>2. h # NoHost /\ (\A g \in Hosts : g # NoHost) /\ \A j \in Shards : m[j] # NoHost => m[j] \in Hosts
  BY SlabRiskAssumption DEF Assignments
<1>3. /\ \A j \in Y : m[j] = a[j]
      /\ Sound(m) /\ Distinct(m, Shards \ Y)
      /\ \A g \in Hosts : (\E j \in Shards \ Y : m[j] = g)
                            <=> g = a[i] \/ \E j \in Shards \ Y : a[j] = g
  BY DEF Found
<1>. HIDE DEF b
<1>4. \A j \in X : b[j] = a[j]
  BY <1>1, <1>3
<1>5. Sound(b)
  BY <1>1, <1>3 DEF Sound
<1>6. \A j \in Shards \ Y : m[j] # h
  <2>1. a[i] # h /\ \A j \in Shards \ Y : a[j] # h
    BY DEF Ready
  <2>. QED  BY <1>3, <2>1
<1>7. Distinct(b, Shards \ X)
  <2>. SUFFICES ASSUME NEW j \in Shards \ X, NEW k \in Shards \ X, b[j] = b[k], b[j] # NoHost
                PROVE  j = k
    BY DEF Distinct
  <2>. QED  BY <1>1, <1>3, <1>6 DEF Distinct
<1>8. ASSUME NEW g \in Hosts
      PROVE  (\E j \in Shards \ X : b[j] = g) <=> g = h \/ \E j \in Shards \ X : a[j] = g
  <2>1. (\E j \in Shards \ X : b[j] = g) <=> g = h \/ \E j \in Shards \ Y : m[j] = g
    BY <1>1
  <2>2. (\E j \in Shards \ X : a[j] = g) <=> g = a[i] \/ \E j \in Shards \ Y : a[j] = g
    OBVIOUS
  <2>. QED  BY <1>3, <2>1, <2>2
<1>. QED  BY <1>4, <1>5, <1>7, <1>8 DEF Found, b

\* What is found after more shards were visited in vain is found.
LEMMA FoundLater ==
  ASSUME NEW h \in Hosts, NEW a \in Assignments, NEW X \in SUBSET Shards, Ready(h, a, X),
         NEW Y \in SUBSET Shards, X \subseteq Y, NEW b \in Assignments, Found(h, a, Y, b)
  PROVE  Found(h, a, X, b)
<1>1. /\ \A j \in Y : b[j] = a[j]
      /\ Sound(b) /\ Distinct(b, Shards \ Y)
      /\ \A g \in Hosts : (\E j \in Shards \ Y : b[j] = g)
                            <=> g = h \/ \E j \in Shards \ Y : a[j] = g
  BY DEF Found
<1>2. Distinct(a, Shards) /\ \A j \in Shards \ X : a[j] # h
  BY DEF Ready
<1>3. \A j \in Shards : b[j] # NoHost => b[j] \in Hosts
  BY DEF Assignments
<1>4. Distinct(b, Shards \ X)
  <2>. SUFFICES ASSUME NEW j \in Shards \ X, NEW k \in Shards \ X, b[j] = b[k], b[j] # NoHost
                PROVE  j = k
    BY DEF Distinct
  <2>1. CASE j \in Y /\ k \in Y
    BY <1>1, <1>2, <2>1 DEF Distinct
  <2>2. CASE j \notin Y /\ k \notin Y
    BY <1>1, <2>2 DEF Distinct
  <2>3. \A y, z \in Shards \ X : y \in Y /\ z \notin Y /\ b[y] = b[z] /\ b[y] # NoHost => FALSE
    <3>. SUFFICES ASSUME NEW y \in Shards \ X, NEW z \in Shards \ X,
                         y \in Y, z \notin Y, b[y] = b[z], b[y] # NoHost
                  PROVE  FALSE
      OBVIOUS
    <3>1. b[y] = a[y] /\ a[y] # h /\ b[z] \in Hosts
      BY <1>1, <1>2, <1>3
    <3>2. PICK w \in Shards \ Y : a[w] = b[z]
      BY <1>1, <3>1
    <3>. QED  BY <1>2, <3>1, <3>2 DEF Distinct
  <2>. QED  BY <2>1, <2>2, <2>3
<1>5. ASSUME NEW g \in Hosts
      PROVE  (\E j \in Shards \ X : b[j] = g) <=> g = h \/ \E j \in Shards \ X : a[j] = g
  <2>1. (\E j \in Shards \ X : b[j] = g)
          <=> (\E j \in Y \ X : a[j] = g) \/ \E j \in Shards \ Y : b[j] = g
    BY <1>1
  <2>2. (\E j \in Shards \ X : a[j] = g)
          <=> (\E j \in Y \ X : a[j] = g) \/ \E j \in Shards \ Y : a[j] = g
    OBVIOUS
  <2>. QED  BY <1>1, <2>1, <2>2
<1>. QED  BY <1>1, <1>4, <1>5 DEF Found

\* How a search ends.
Ends(s, r) ==
  ~s.ok /\ Ready(s.host, s.a, s.seen) =>
    IF r.ok THEN Found(s.host, s.a, s.seen, r.a)
    ELSE r.a = s.a /\ Stuck(s.host, s.a, s.seen, r.seen)

\* A visit ends well or stuck if the searches that it makes do.
LEMMA VisitEnds ==
  ASSUME stored \in [Hosts -> SUBSET Shards], NEW f, Keeps(f), NEW s \in Searches,
         \A t \in Searches : Unseen(t) < Unseen(s) => Ends(t, f[t])
  PROVE  Ends(s, Visit(f, s))
<1>. SUFFICES ASSUME ~s.ok, Ready(s.host, s.a, s.seen)
              PROVE  IF Visit(f, s).ok THEN Found(s.host, s.a, s.seen, Visit(f, s).a)
                     ELSE Visit(f, s).a = s.a /\ Stuck(s.host, s.a, s.seen, Visit(f, s).seen)
  BY DEF Ends
<1>. DEFINE h == s.host
            a == s.a
            X == s.seen
            i == NextShard(s)
            Y == X \cup {i}
            m == Moved(f, s)
            t == Ask(s)
            u == Retry(m, s)
<1>1. h \in Hosts /\ a \in Assignments /\ X \in SUBSET Shards
  BY DEF Searches, Assignments
<1>2. CASE stored[h] \subseteq X
  <2>1. Visit(f, s) = s
    BY <1>2, VisitIs
  <2>2. Stuck(h, a, X, X)
    BY <1>2 DEF Stuck
  <2>. QED  BY <2>1, <2>2
<1>3. CASE ~(stored[h] \subseteq X)
  <2>1. /\ i \in stored[h] \ X /\ i \in Shards
        /\ a[i] # NoHost => t \in Searches /\ t.seen = Y
        /\ m \in Searches /\ Y \subseteq m.seen
        /\ u \in Searches /\ u.seen = m.seen
        /\ [m EXCEPT !.a[i] = h] \in Searches
    BY <1>3, VisitSteps
  <2>2. Visit(f, s) = IF m.ok THEN [m EXCEPT !.a[i] = h] ELSE f[u]
    BY <1>3, VisitIs
  <2>3. m = IF a[i] = NoHost THEN [Here(s) EXCEPT !.ok = TRUE] ELSE f[t]
    BY DEF Moved
  <2>4. Here(s) \in Searches /\ Here(s).host = h /\ Here(s).a = a /\ Here(s).ok = s.ok
    <3>1. Here(s) = [s EXCEPT !.seen = s.seen \cup {i}]
      BY DEF Here
    <3>2. Here(s) = [host |-> s.host, a |-> s.a, seen |-> s.seen \cup {i}, ok |-> s.ok]
      BY <3>1, SearchExcept
    <3>3. s.ok \in BOOLEAN
      BY DEF Searches
    <3>. HIDE DEF i
    <3>. QED  BY <1>1, <2>1, <3>2, <3>3 DEF Searches, Assignments
  <2>5. a[i] # NoHost => t.host = a[i] /\ t.a = a /\ ~t.ok
    <3>1. t = [Here(s) EXCEPT !.host = a[i]]
      BY DEF Ask
    <3>. DEFINE r == Here(s)
    <3>2. t = [host |-> a[i], a |-> r.a, seen |-> r.seen, ok |-> r.ok]
      <4>1. r \in Searches /\ t = [r EXCEPT !.host = a[i]]
        BY <2>4, <3>1
      <4>. HIDE DEF r, t
      <4>. QED  BY <4>1, SearchExcept
    <3>. QED  BY <2>4, <3>2
  <2>6. u.host = h /\ u.a = m.a /\ u.ok = m.ok
    <3>1. u = [m EXCEPT !.host = h]
      BY DEF Retry
    <3>. HIDE DEF m
    <3>2. u = [host |-> h, a |-> m.a, seen |-> m.seen, ok |-> m.ok]
      BY <2>1, <3>1, SearchExcept
    <3>. QED  BY <3>2
  <2>7. [m EXCEPT !.a[i] = h].ok = m.ok /\ [m EXCEPT !.a[i] = h].a = [m.a EXCEPT ![i] = h]
    <3>. HIDE DEF m, i, h
    <3>. QED  BY <2>1 DEF Searches
  <2>8. m.a \in Assignments /\ m.seen \in SUBSET Shards /\ m.ok \in BOOLEAN
    <3>. HIDE DEF m
    <3>. QED  BY <2>1 DEF Searches, Assignments
  <2>9. Unseen(u) < Unseen(s) /\ (a[i] # NoHost => Unseen(t) < Unseen(s))
    <3>1. i \notin s.seen /\ s.seen \cup {i} \subseteq u.seen
      BY <2>1
    <3>2. a[i] # NoHost => s.seen \cup {i} \subseteq t.seen
      BY <2>1
    <3>. HIDE DEF u, t, i
    <3>. QED  BY <2>1, <3>1, <3>2, UnseenFacts
  <2>10. a[i] = NoHost => m.ok /\ m.a = a
    <3>. DEFINE r == Here(s)
    <3>1. r \in Searches /\ r.a = a
      BY <2>4
    <3>2. a[i] = NoHost => m = [r EXCEPT !.ok = TRUE]
      BY <2>3
    <3>. HIDE DEF r, m, i
    <3>3. a[i] = NoHost => m = [host |-> r.host, a |-> r.a, seen |-> r.seen, ok |-> TRUE]
      BY <3>1, <3>2, SearchExcept
    <3>. QED  BY <3>1, <3>3
  <2>11. ASSUME a[i] # NoHost
         PROVE  IF m.ok THEN Found(a[i], a, Y, m.a) ELSE m.a = a /\ Stuck(a[i], a, Y, m.seen)
    <3>1. Ends(t, f[t]) /\ m = f[t]
      BY <2>1, <2>3, <2>9, <2>11
    <3>2. Ready(a[i], a, Y)
      BY <2>1, <2>11 DEF Ready, Distinct
    <3>3. t.host = a[i] /\ t.a = a /\ ~t.ok /\ t.seen = Y
      BY <2>1, <2>5, <2>11
    <3>. HIDE DEF t, m, a, i, Y
    <3>. QED  BY <3>1, <3>2, <3>3 DEF Ends
  <2>. HIDE DEF h, a, X, i, m, t, u
  <2>12. Ready(h, a, X)
    BY DEF h, a, X
  <2>13. CASE m.ok
    <3>1. Found(h, a, X, [m.a EXCEPT ![i] = h])
      <4>1. CASE a[i] = NoHost
        BY <1>1, <2>1, <2>10, <2>12, <4>1, FoundFree
      <4>2. CASE a[i] # NoHost
        <5>1. Found(a[i], a, Y, m.a)
          BY <2>11, <2>13, <4>2
        <5>. QED  BY <1>1, <2>1, <2>8, <2>12, <4>2, <5>1, FoundMoved
      <4>. QED  BY <4>1, <4>2
    <3>2. Visit(f, s) = [m EXCEPT !.a[i] = h]
      BY <2>2, <2>13
    <3>. QED  BY <2>7, <2>13, <3>1, <3>2 DEF h, a, X
  <2>14. CASE ~m.ok
    <3>1. a[i] # NoHost /\ m.a = a /\ Stuck(a[i], a, Y, m.seen)
      BY <2>10, <2>11, <2>14
    <3>2. X \subseteq m.seen /\ i \in m.seen
      BY <2>1
    <3>3. Ready(h, a, m.seen)
      BY <2>12, <3>2 DEF Ready
    <3>4. IF f[u].ok THEN Found(h, a, m.seen, f[u].a)
          ELSE f[u].a = a /\ Stuck(h, a, m.seen, f[u].seen)
      <4>1. Ends(u, f[u])
        BY <2>1, <2>9
      <4>. QED  BY <2>1, <2>6, <2>14, <3>1, <3>3, <4>1 DEF Ends
    <3>5. f[u].a \in Assignments
      <4>1. f[u] \in Searches
        BY <2>1 DEF Keeps
      <4>. QED  BY <4>1 DEF Searches, Assignments
    <3>6. Visit(f, s) = f[u]
      BY <2>2, <2>14
    <3>7. CASE f[u].ok
      <4>1. Found(h, a, X, f[u].a)
        BY <1>1, <2>8, <2>12, <3>2, <3>4, <3>5, <3>7, FoundLater
      <4>. QED  BY <3>6, <3>7, <4>1 DEF h, a, X
    <3>8. CASE ~f[u].ok
      <4>1. f[u].a = a /\ Stuck(h, a, m.seen, f[u].seen)
        BY <3>4, <3>8
      <4>2. Stuck(h, a, X, f[u].seen)
        BY <3>1, <3>2, <4>1 DEF Stuck
      <4>. QED  BY <3>6, <3>8, <4>1, <4>2 DEF h, a, X
    <3>. QED  BY <3>7, <3>8
  <2>. QED  BY <2>13, <2>14
<1>. QED  BY <1>2, <1>3

\* Every search ends with a shard for its host, or stuck.
LEMMA SearchEnds ==
  ASSUME stored \in [Hosts -> SUBSET Shards], NEW f, Keeps(f),
         \A s \in Searches : f[s] = Visit(f, s)
  PROVE  \A s \in Searches : Ends(s, f[s])
<1>. DEFINE P == {n \in Nat : \A s \in Searches : Unseen(s) < n => Ends(s, f[s])}
<1>1. \A s \in Searches : Unseen(s) \in Nat
  BY UnseenFacts
<1>2. 0 \in P
  BY <1>1
<1>3. ASSUME NEW n \in Nat, n \in P PROVE n + 1 \in P
  <2>. SUFFICES ASSUME NEW s \in Searches, Unseen(s) < n + 1 PROVE Ends(s, f[s])
    OBVIOUS
  <2>1. \A t \in Searches : Unseen(t) < Unseen(s) => Ends(t, f[t])
    <3>. SUFFICES ASSUME NEW t \in Searches, Unseen(t) < Unseen(s) PROVE Ends(t, f[t])
      OBVIOUS
    <3>1. Unseen(t) < n
      BY <1>1
    <3>. QED  BY <1>3, <3>1
  <2>2. Ends(s, Visit(f, s))
    BY <2>1, VisitEnds
  <2>. QED  BY <2>2
<1>4. \A n \in Nat : n \in P
  <2>. HIDE DEF P
  <2>. QED  BY <1>2, <1>3, Induction
<1>5. ASSUME NEW s \in Searches PROVE Ends(s, f[s])
  <2>1. Unseen(s) + 1 \in P /\ Unseen(s) < Unseen(s) + 1
    BY <1>1, <1>4
  <2>. QED  BY <2>1
<1>. QED  BY <1>5

Owners(a) == {a[i] : i \in Shards} \ {NoHost}

\* assign: the host gets a shard, and those that had one keep one, or the shards of
\* the host are all in a set that the hosts assigned to it cannot leave.
LEMMA AssignFacts ==
  ASSUME stored \in [Hosts -> SUBSET Shards], NEW h \in Hosts, NEW a \in Assignments,
         Sound(a), Distinct(a, Shards), h \notin Owners(a)
  PROVE  /\ Assign(h, a) \in Assignments
         /\ Sound(Assign(h, a)) /\ Distinct(Assign(h, a), Shards)
         /\ \/ Owners(Assign(h, a)) = Owners(a) \cup {h}
            \/ /\ Assign(h, a) = a
               /\ \E Y \in SUBSET Shards : Stuck(h, a, {}, Y)
<1>. DEFINE search[s \in Searches] == Visit(search, s)
            s0 == [host |-> h, a |-> a, seen |-> {}, ok |-> FALSE]
<1>1. search = CHOOSE f : f = [s \in Searches |-> Visit(f, s)]
  BY DEF search
<1>2. Assign(h, a) = search[s0].a
  BY DEF Assign
<1>. HIDE DEF search
<1>3. Keeps(search) /\ \A s \in Searches : Ends(s, search[s])
  BY <1>1, SearchExists, SearchEnds
<1>4. s0 \in Searches /\ s0.host = h /\ s0.a = a /\ s0.seen = {} /\ ~s0.ok
  BY DEF Searches, Assignments
<1>. HIDE DEF s0
<1>5. Ready(h, a, {})
  <2>1. h # NoHost
    BY SlabRiskAssumption
  <2>. QED  BY <2>1 DEF Ready, Owners
<1>. DEFINE r == search[s0]
<1>6. r \in Searches /\ Ends(s0, r)
  BY <1>3, <1>4 DEF Keeps
<1>. HIDE DEF r
<1>7. r.a \in Assignments /\ r.seen \in SUBSET Shards
  BY <1>6 DEF Searches, Assignments
<1>8. Assign(h, a) = r.a
  BY <1>2 DEF r
<1>9. CASE r.ok
  <2>1. Found(h, a, {}, r.a)
    BY <1>4, <1>5, <1>6, <1>9 DEF Ends
  <2>2. Sound(r.a) /\ Distinct(r.a, Shards)
    <3>1. Shards \ {} = Shards
      OBVIOUS
    <3>. QED  BY <2>1, <3>1 DEF Found
  <2>3. \A g \in Hosts : (\E j \in Shards : r.a[j] = g) <=> g = h \/ \E j \in Shards : a[j] = g
    BY <2>1 DEF Found
  <2>4. Owners(r.a) = Owners(a) \cup {h}
    <3>1. \A g : g \in Owners(r.a) <=> g \in Hosts /\ \E j \in Shards : r.a[j] = g
      BY <1>7, SlabRiskAssumption DEF Owners, Assignments
    <3>2. \A g : g \in Owners(a) <=> g \in Hosts /\ \E j \in Shards : a[j] = g
      BY SlabRiskAssumption DEF Owners, Assignments
    <3>. QED  BY <2>3, <3>1, <3>2
  <2>. QED  BY <1>7, <1>8, <2>2, <2>4
<1>10. CASE ~r.ok
  <2>1. r.a = a /\ Stuck(h, a, {}, r.seen)
    BY <1>4, <1>5, <1>6, <1>10 DEF Ends
  <2>. QED  BY <1>7, <1>8, <2>1
<1>. QED  BY <1>9, <1>10

-----------------------------------------------------------------------------
(* independentPlacement: of the first hosts of the list, no independent    *)
(* choice has more than the one made.                                      *)

\* All shards of T are assigned, to hosts that have no shards outside of T.
Tight(a, T) == \A j \in T : a[j] # NoHost /\ stored[a[j]] \subseteq T

\* No host outside of U is assigned, and those of U that are not have their shards in a
\* set that the hosts assigned to it cannot leave.
Greedy(a, U) ==
  /\ a \in Assignments /\ Sound(a) /\ Distinct(a, Shards)
  /\ Owners(a) \subseteq U
  /\ \E T \in SUBSET Shards : Tight(a, T) /\ \A h \in U \ Owners(a) : stored[h] \subseteq T

\* There are NumShards shards.
LEMMA ShardsFinite ==
  NumShards \in Nat /\ IsFiniteSet(Shards) /\ Cardinality(Shards) = NumShards
<1>1. NumShards \in Nat
  BY SlabRiskAssumption
<1>. QED  BY <1>1, FS_Interval DEF Shards

\* Wherever the hosts of a tight set move, they fill it again.
LEMMA TightStays ==
  ASSUME stored \in [Hosts -> SUBSET Shards], NEW a \in Assignments, Distinct(a, Shards),
         NEW b \in Assignments, Sound(b), Owners(a) \subseteq Owners(b),
         NEW T \in SUBSET Shards, Tight(a, T)
  PROVE  Tight(b, T)
<1>. DEFINE phi == [j \in T |-> CHOOSE i \in Shards : b[i] = a[j]]
<1>1. ASSUME NEW j \in T
      PROVE  phi[j] \in T /\ b[phi[j]] = a[j] /\ a[j] # NoHost /\ stored[a[j]] \subseteq T
  <2>1. a[j] # NoHost /\ stored[a[j]] \subseteq T /\ a[j] \in Owners(a)
    BY DEF Tight, Owners
  <2>2. \E i \in Shards : b[i] = a[j]
    BY <2>1 DEF Owners
  <2>3. phi[j] \in Shards /\ b[phi[j]] = a[j]
    BY <2>2
  <2>4. phi[j] \in stored[a[j]]
    BY <2>1, <2>3 DEF Sound
  <2>. QED  BY <2>1, <2>3, <2>4
<1>. HIDE DEF phi
<1>2. phi \in Injection(T, T)
  <2>1. phi \in [T -> T]
    <3>1. phi = [j \in T |-> phi[j]]
      BY DEF phi
    <3>. QED  BY <1>1, <3>1
  <2>2. \A i, j \in T : phi[i] = phi[j] => i = j
    BY <1>1 DEF Distinct
  <2>. QED  BY <2>1, <2>2 DEF Injection, IsInjective
<1>3. phi \in Surjection(T, T)
  BY <1>2, ShardsFinite, FS_Subset, FS_Injection
<1>4. \A j \in T : \E i \in T : phi[i] = j
  BY <1>3 DEF Surjection
<1>. QED  BY <1>1, <1>4 DEF Tight

\* assign takes the next host of the list and drops none that it took before.
LEMMA GreedyStep ==
  ASSUME stored \in [Hosts -> SUBSET Shards], NEW a, NEW U \in SUBSET Hosts, Greedy(a, U),
         NEW h \in Hosts \ U, NEW b, b = Assign(h, a)
  PROVE  /\ Greedy(b, U \cup {h})
         /\ Owners(a) \subseteq Owners(b) /\ Owners(b) \cap U = Owners(a)
<1>1. /\ a \in Assignments /\ Sound(a) /\ Distinct(a, Shards) /\ Owners(a) \subseteq U
      /\ h \notin Owners(a)
  BY DEF Greedy
<1>2. /\ b \in Assignments /\ Sound(b) /\ Distinct(b, Shards)
      /\ \/ Owners(b) = Owners(a) \cup {h}
         \/ /\ b = a
            /\ \E Y \in SUBSET Shards : Stuck(h, a, {}, Y)
  BY <1>1, AssignFacts
<1>3. PICK T \in SUBSET Shards : Tight(a, T) /\ \A g \in U \ Owners(a) : stored[g] \subseteq T
  BY DEF Greedy
<1>4. CASE Owners(b) = Owners(a) \cup {h}
  <2>1. Tight(b, T)
    BY <1>1, <1>2, <1>3, <1>4, TightStays
  <2>2. \A g \in (U \cup {h}) \ Owners(b) : stored[g] \subseteq T
    BY <1>3, <1>4
  <2>3. Owners(b) \subseteq U \cup {h}
    BY <1>1, <1>4
  <2>. QED  BY <1>1, <1>2, <1>4, <2>1, <2>2, <2>3 DEF Greedy
<1>5. CASE b = a /\ \E Y \in SUBSET Shards : Stuck(h, a, {}, Y)
  <2>1. PICK Y \in SUBSET Shards : Stuck(h, a, {}, Y)
    BY <1>5
  <2>2. stored[h] \subseteq Y /\ Tight(a, Y)
    BY <2>1 DEF Stuck, Tight
  <2>3. Tight(a, T \cup Y)
    BY <1>3, <2>2 DEF Tight
  <2>4. \A g \in (U \cup {h}) \ Owners(a) : stored[g] \subseteq T \cup Y
    BY <1>3, <2>2
  <2>5. T \cup Y \in SUBSET Shards
    OBVIOUS
  <2>6. Greedy(b, U \cup {h})
    BY <1>1, <1>5, <2>3, <2>4, <2>5 DEF Greedy
  <2>. QED  BY <1>1, <1>5, <2>6
<1>. QED  BY <1>2, <1>4, <1>5

\* The hosts that are assigned are independent, and no independent hosts of U are more.
LEMMA GreedyIsMost ==
  ASSUME stored \in [Hosts -> SUBSET Shards], NEW a, NEW U \in SUBSET Hosts, Greedy(a, U)
  PROVE  /\ Independent(Owners(a))
         /\ \A S \in SUBSET U : Independent(S) => Cardinality(S) <= Cardinality(Owners(a))
<1>1. /\ a \in Assignments /\ Sound(a) /\ Distinct(a, Shards) /\ Owners(a) \subseteq U
  BY DEF Greedy
<1>2. PICK T \in SUBSET Shards : Tight(a, T) /\ \A g \in U \ Owners(a) : stored[g] \subseteq T
  BY DEF Greedy
<1>3. Independent(Owners(a))
  <2>. DEFINE at == [h \in Owners(a) |-> CHOOSE i \in Shards : a[i] = h]
  <2>1. ASSUME NEW h \in Owners(a) PROVE at[h] \in Shards /\ a[at[h]] = h /\ h # NoHost
    BY DEF Owners
  <2>2. at = [h \in Owners(a) |-> at[h]]
    OBVIOUS
  <2>. HIDE DEF at
  <2>3. at \in [Owners(a) -> Shards]
    BY <2>1, <2>2
  <2>4. \A h \in Owners(a) : at[h] \in stored[h]
    BY <1>1, <2>1 DEF Sound
  <2>5. \A g, h \in Owners(a) : g # h => at[g] # at[h]
    BY <2>1
  <2>. QED  BY <2>3, <2>4, <2>5 DEF Independent
<1>4. ASSUME NEW S \in SUBSET U, Independent(S) PROVE Cardinality(S) <= Cardinality(Owners(a))
  <2>1. PICK at \in [S -> Shards] : /\ \A h \in S : at[h] \in stored[h]
                                    /\ \A g, h \in S : g # h => at[g] # at[h]
    BY <1>4 DEF Independent
  <2>. DEFINE g == [h \in S |-> IF stored[h] \subseteq T THEN a[at[h]] ELSE h]
  <2>2. ASSUME NEW h \in S
        PROVE  /\ g[h] \in Owners(a)
               /\ stored[g[h]] \subseteq T <=> stored[h] \subseteq T
               /\ stored[h] \subseteq T => g[h] = a[at[h]] /\ g[h] # NoHost
               /\ ~(stored[h] \subseteq T) => g[h] = h
    <3>1. CASE stored[h] \subseteq T
      <4>1. at[h] \in T /\ g[h] = a[at[h]]
        BY <2>1, <3>1
      <4>2. a[at[h]] # NoHost /\ stored[a[at[h]]] \subseteq T
        BY <1>2, <4>1 DEF Tight
      <4>. HIDE DEF g
      <4>. QED  BY <3>1, <4>1, <4>2 DEF Owners
    <3>2. CASE ~(stored[h] \subseteq T)
      <4>1. h \in Owners(a)
        BY <1>2, <3>2
      <4>. QED  BY <3>2, <4>1
    <3>. QED  BY <3>1, <3>2
  <2>3. g = [h \in S |-> g[h]]
    OBVIOUS
  <2>. HIDE DEF g
  <2>4. \A h, k \in S : g[h] = g[k] => h = k
    <3>. SUFFICES ASSUME NEW h \in S, NEW k \in S, g[h] = g[k] PROVE h = k
      OBVIOUS
    <3>1. stored[h] \subseteq T <=> stored[k] \subseteq T
      BY <2>2
    <3>2. CASE stored[h] \subseteq T
      <4>1. a[at[h]] = a[at[k]] /\ a[at[h]] # NoHost
        BY <2>2, <3>1, <3>2
      <4>2. at[h] = at[k]
        BY <1>1, <4>1 DEF Distinct
      <4>. QED  BY <2>1, <4>2
    <3>3. CASE ~(stored[h] \subseteq T)
      BY <2>2, <3>1, <3>3
    <3>. QED  BY <3>2, <3>3
  <2>5. g \in Injection(S, Owners(a))
    BY <2>2, <2>3, <2>4 DEF Injection, IsInjective
  <2>6. IsFiniteSet(Owners(a))
    <3>1. Owners(a) \subseteq Hosts
      BY <1>1
    <3>. QED  BY <3>1, HostSets
  <2>. QED  BY <2>5, <2>6, FS_Injection
<1>. QED  BY <1>3, <1>4

\* The hosts assigned are no more than the shards.
LEMMA OwnersFit ==
  ASSUME NEW a
  PROVE  IsFiniteSet(Owners(a)) /\ Cardinality(Owners(a)) \in 0..NumShards
<1>. DEFINE S == {a[i] : i \in Shards}
            f == [i \in Shards |-> a[i]]
<1>1. f \in Surjection(Shards, S)
  BY DEF Surjection
<1>2. IsFiniteSet(S) /\ Cardinality(S) <= NumShards
  <2>. HIDE DEF S, f
  <2>. QED  BY <1>1, ShardsFinite, FS_Surjection
<1>3. Owners(a) \subseteq S
  BY DEF Owners
<1>. HIDE DEF S
<1>4. IsFiniteSet(Owners(a)) /\ Cardinality(Owners(a)) <= Cardinality(S)
  BY <1>2, <1>3, ProperSubset
<1>5. Cardinality(S) \in Nat /\ Cardinality(Owners(a)) \in Nat
  BY <1>2, <1>4, FS_CardinalityType
<1>. QED  BY <1>2, <1>4, <1>5, ShardsFinite

\* assign makes an assignment of any other.
LEMMA AssignType ==
  ASSUME stored \in [Hosts -> SUBSET Shards], NEW h \in Hosts, NEW a \in Assignments
  PROVE  Assign(h, a) \in Assignments
<1>. DEFINE search[s \in Searches] == Visit(search, s)
            s0 == [host |-> h, a |-> a, seen |-> {}, ok |-> FALSE]
<1>1. search = CHOOSE f : f = [s \in Searches |-> Visit(f, s)]
  BY DEF search
<1>2. Assign(h, a) = search[s0].a
  BY DEF Assign
<1>. HIDE DEF search
<1>3. Keeps(search)
  BY <1>1, SearchExists
<1>4. s0 \in Searches
  BY DEF Searches, Assignments
<1>. HIDE DEF s0
<1>5. search[s0] \in Searches
  BY <1>3, <1>4 DEF Keeps
<1>. QED  BY <1>2, <1>5 DEF Searches, Assignments

\* One host after the other is assigned.
AssignSteps(f, n, o) ==
  /\ f[0] = [i \in Shards |-> NoHost]
  /\ \A k \in 1..n : f[k] = Assign(o[k], f[k - 1])

\* The assignments that independentPlacement makes, host by host.
LEMMA AssignedSteps ==
  ASSUME stored \in [Hosts -> SUBSET Shards], NEW n \in Nat, NEW o \in [1..n -> Hosts],
         NEW f, f = CHOOSE f1 : f1 = [k \in 0..n |->
                      IF k = 0 THEN [i \in Shards |-> NoHost] ELSE Assign(o[k], f1[k - 1])]
  PROVE  AssignSteps(f, n, o)
<1>. DEFINE start == [i \in Shards |-> NoHost]
            body(d) == [k \in 0..n |-> IF k = 0 THEN start ELSE Assign(o[k], d[k - 1])]
            D == Assignments
            step == [k \in 1..n |-> [d \in D |-> Assign(o[k], d)]]
<1>1. start \in D /\ \A k \in 1..n : \A d \in D : step[k][d] \in D
  <2>1. start \in D
    BY DEF Assignments
  <2>2. ASSUME NEW k \in 1..n, NEW d \in D PROVE Assign(o[k], d) \in D
    BY AssignType
  <2>. QED  BY <2>1, <2>2
<1>2. PICK g : Iterates(g, n, D, start, step)
  <2>. HIDE DEF D, start, step
  <2>. QED  BY <1>1, RecursiveFunctions
<1>3. g = body(g)
  <2>1. g = [k \in 0..n |-> g[k]] /\ g[0] = start
    BY <1>2 DEF Iterates
  <2>2. \A k \in 0..n : k # 0 => g[k] = Assign(o[k], g[k - 1])
    <3>. SUFFICES ASSUME NEW k \in 0..n, k # 0 PROVE g[k] = Assign(o[k], g[k - 1])
      OBVIOUS
    <3>1. k \in 1..n /\ k - 1 \in 0..n
      OBVIOUS
    <3>. HIDE DEF D
    <3>2. g[k] = step[k][g[k - 1]] /\ g[k - 1] \in D
      BY <1>2, <3>1 DEF Iterates
    <3>. QED  BY <3>1, <3>2
  <2>. HIDE DEF start
  <2>3. \A k \in 0..n : g[k] = body(g)[k]
    BY <2>1, <2>2
  <2>. QED  BY <2>1, <2>3
<1>4. f = body(f)
  <2>1. f = CHOOSE d : d = body(d)
    OBVIOUS
  <2>. HIDE DEF body
  <2>. QED  BY <1>3, <2>1
<1>5. \A k \in 0..n : f[k] = IF k = 0 THEN start ELSE Assign(o[k], f[k - 1])
  <2>. DEFINE e == body(f)
  <2>1. f = e
    BY <1>4
  <2>2. \A k \in 0..n : e[k] = IF k = 0 THEN start ELSE Assign(o[k], f[k - 1])
    OBVIOUS
  <2>. HIDE DEF e, start
  <2>. QED  BY <2>1, <2>2
<1>. HIDE DEF start
<1>6. f[0] = start /\ \A k \in 1..n : f[k] = Assign(o[k], f[k - 1])
  BY <1>5
<1>. QED  BY <1>6 DEF AssignSteps, start

\* A list of hosts, no host twice.
Lists(o, n) == n \in Nat /\ o \in [1..n -> Hosts] /\ \A i, j \in 1..n : o[i] = o[j] => i = j

\* After each host of the list the assignment is the most there is, and the hosts that
\* have a shard by then have one in the end.
LEMMA AssignedGreedy ==
  ASSUME stored \in [Hosts -> SUBSET Shards], NEW n, NEW o, Lists(o, n),
         NEW f, AssignSteps(f, n, o)
  PROVE  \A k \in 0..n : /\ Greedy(f[k], Upto(o, k))
                         /\ Owners(f[n]) \cap Upto(o, k) = Owners(f[k])
<1>. n \in Nat /\ o \in [1..n -> Hosts] /\ \A i, j \in 1..n : o[i] = o[j] => i = j
  BY DEF Lists
<1>0. /\ Upto(o, 0) = {}
      /\ \A k \in 0..n : Upto(o, k) \in SUBSET Hosts
      /\ \A k \in 1..n : Upto(o, k) = Upto(o, k - 1) \cup {o[k]} /\ o[k] \notin Upto(o, k - 1)
  BY UptoFacts
<1>1. Greedy(f[0], Upto(o, 0)) /\ Owners(f[0]) = {}
  <2>1. f[0] = [i \in Shards |-> NoHost]
    BY DEF AssignSteps
  <2>2. f[0] \in Assignments /\ \A i \in Shards : f[0][i] = NoHost
    BY <2>1 DEF Assignments
  <2>3. Owners(f[0]) = {} /\ Sound(f[0]) /\ Distinct(f[0], Shards)
    BY <2>2 DEF Owners, Sound, Distinct
  <2>4. Tight(f[0], {}) /\ {} \in SUBSET Shards
    BY DEF Tight
  <2>5. \A h \in Upto(o, 0) \ Owners(f[0]) : stored[h] \subseteq {}
    BY <1>0
  <2>6. Owners(f[0]) \subseteq Upto(o, 0)
    BY <2>3
  <2>. QED  BY <2>2, <2>3, <2>4, <2>5, <2>6 DEF Greedy
<1>2. ASSUME NEW k \in 0..n, k + 1 <= n, Greedy(f[k], Upto(o, k))
      PROVE  /\ Greedy(f[k + 1], Upto(o, k + 1))
             /\ Owners(f[k]) \subseteq Owners(f[k + 1])
             /\ Owners(f[k + 1]) \cap Upto(o, k) = Owners(f[k])
  <2>1. k + 1 \in 1..n /\ (k + 1) - 1 = k
    BY <1>2
  <2>2. f[k + 1] = Assign(o[k + 1], f[k])
    BY <2>1 DEF AssignSteps
  <2>3. /\ Upto(o, k) \in SUBSET Hosts /\ o[k + 1] \in Hosts \ Upto(o, k)
        /\ Upto(o, k + 1) = Upto(o, k) \cup {o[k + 1]}
    BY <1>0, <2>1
  <2>. DEFINE a == f[k]
              b == f[k + 1]
              h == o[k + 1]
              U == Upto(o, k)
  <2>4. Greedy(a, U) /\ U \in SUBSET Hosts /\ h \in Hosts \ U /\ b = Assign(h, a)
    BY <1>2, <2>2, <2>3
  <2>. HIDE DEF a, b, h, U
  <2>5. Greedy(b, U \cup {h}) /\ Owners(a) \subseteq Owners(b) /\ Owners(b) \cap U = Owners(a)
    BY <2>4, GreedyStep
  <2>. QED  BY <2>3, <2>5 DEF a, b, h, U
<1>. DEFINE P == {k \in Nat : k <= n =>
                   /\ Greedy(f[k], Upto(o, k))
                   /\ \A j \in 0..k : Owners(f[k]) \cap Upto(o, j) = Owners(f[j])}
<1>3. 0 \in P
  <2>1. \A j \in 0..0 : j = 0
    OBVIOUS
  <2>2. Owners(f[0]) \cap Upto(o, 0) = Owners(f[0])
    BY <1>0, <1>1
  <2>. QED  BY <1>1, <2>1, <2>2
<1>4. ASSUME NEW k \in Nat, k \in P PROVE k + 1 \in P
  <2>. SUFFICES ASSUME k + 1 <= n
                PROVE  /\ Greedy(f[k + 1], Upto(o, k + 1))
                       /\ \A j \in 0..k + 1 : Owners(f[k + 1]) \cap Upto(o, j) = Owners(f[j])
    OBVIOUS
  <2>1. k \in 0..n /\ k + 1 <= n /\ k <= n
    OBVIOUS
  <2>2. /\ Greedy(f[k], Upto(o, k))
        /\ \A j \in 0..k : Owners(f[k]) \cap Upto(o, j) = Owners(f[j])
    BY <1>4, <2>1
  <2>3. /\ Greedy(f[k + 1], Upto(o, k + 1))
        /\ Owners(f[k + 1]) \cap Upto(o, k) = Owners(f[k])
    BY <1>2, <2>1, <2>2
  <2>4. ASSUME NEW j \in 0..k + 1 PROVE Owners(f[k + 1]) \cap Upto(o, j) = Owners(f[j])
    <3>1. CASE j = k + 1
      <4>1. Owners(f[k + 1]) \subseteq Upto(o, k + 1)
        BY <2>3 DEF Greedy
      <4>. QED  BY <3>1, <4>1
    <3>2. CASE j # k + 1
      <4>1. j \in 0..k
        BY <3>2
      <4>2. Upto(o, j) \subseteq Upto(o, k)
        BY <4>1 DEF Upto
      <4>3. Owners(f[k]) \cap Upto(o, j) = Owners(f[j])
        BY <2>2, <4>1
      <4>. QED  BY <2>3, <4>2, <4>3
    <3>. QED  BY <3>1, <3>2
  <2>. QED  BY <2>3, <2>4
<1>5. \A k \in Nat : k \in P
  <2>. HIDE DEF P
  <2>. QED  BY <1>3, <1>4, Induction
<1>6. ASSUME NEW k \in 0..n
      PROVE  Greedy(f[k], Upto(o, k)) /\ Owners(f[n]) \cap Upto(o, k) = Owners(f[k])
  <2>1. k \in Nat /\ k <= n /\ n <= n
    OBVIOUS
  <2>2. k \in P /\ n \in P
    BY <1>5, <2>1
  <2>3. \A j \in 0..n : Owners(f[n]) \cap Upto(o, j) = Owners(f[j])
    BY <2>1, <2>2
  <2>. QED  BY <2>1, <2>2, <2>3
<1>. QED  BY <1>6

\* independentPlacement: the hosts selected are independent, and of the first hosts of
\* the list no more could have been.
LEMMA AssignedFacts ==
  ASSUME stored \in [Hosts -> SUBSET Shards], NEW n, NEW o, Lists(o, n),
         NEW P, P = Assigned(o, n)
  PROVE  /\ P \subseteq Upto(o, n) /\ P \subseteq Hosts
         /\ Independent(P)
         /\ IsFiniteSet(P) /\ Cardinality(P) \in 0..NumShards
         /\ \A S \in SUBSET Hosts : Independent(S) =>
              \A k \in 0..n : Cardinality(S \cap Upto(o, k)) <= Cardinality(P \cap Upto(o, k))
<1>. n \in Nat /\ o \in [1..n -> Hosts] /\ \A i, j \in 1..n : o[i] = o[j] => i = j
  BY DEF Lists
<1>. DEFINE f[k \in 0..n] ==
              IF k = 0 THEN [i \in Shards |-> NoHost] ELSE Assign(o[k], f[k - 1])
<1>1. f = CHOOSE f1 : f1 = [k \in 0..n |->
                      IF k = 0 THEN [i \in Shards |-> NoHost] ELSE Assign(o[k], f1[k - 1])]
  BY DEF f
<1>2. P = Owners(f[n])
  BY DEF Assigned, Owners
<1>. HIDE DEF f
<1>3. AssignSteps(f, n, o)
  BY <1>1, AssignedSteps
<1>4. \A k \in 0..n : Greedy(f[k], Upto(o, k)) /\ P \cap Upto(o, k) = Owners(f[k])
  BY <1>2, <1>3, AssignedGreedy
<1>5. \A k \in 0..n : Upto(o, k) \in SUBSET Hosts
  BY UptoFacts
<1>6. Greedy(f[n], Upto(o, n)) /\ Upto(o, n) \in SUBSET Hosts
  BY <1>4, <1>5
<1>7. P \subseteq Upto(o, n) /\ Independent(P)
  BY <1>2, <1>6, GreedyIsMost DEF Greedy
<1>8. IsFiniteSet(P) /\ Cardinality(P) \in 0..NumShards
  BY <1>2, OwnersFit
<1>9. ASSUME NEW S \in SUBSET Hosts, Independent(S), NEW k \in 0..n
      PROVE  Cardinality(S \cap Upto(o, k)) <= Cardinality(P \cap Upto(o, k))
  <2>. DEFINE R == S \cap Upto(o, k)
  <2>1. Independent(R)
    <3>1. PICK at \in [S -> Shards] : /\ \A h \in S : at[h] \in stored[h]
                                      /\ \A g, h \in S : g # h => at[g] # at[h]
      BY <1>9 DEF Independent
    <3>. DEFINE bt == [h \in R |-> at[h]]
    <3>2. bt \in [R -> Shards] /\ \A h \in R : bt[h] = at[h] /\ h \in S
      OBVIOUS
    <3>. HIDE DEF bt, R
    <3>3. (\A h \in R : bt[h] \in stored[h]) /\ \A g, h \in R : g # h => bt[g] # bt[h]
      BY <3>1, <3>2
    <3>. QED  BY <3>2, <3>3 DEF Independent
  <2>2. R \in SUBSET Upto(o, k)
    OBVIOUS
  <2>. HIDE DEF R
  <2>3. Greedy(f[k], Upto(o, k)) /\ Upto(o, k) \in SUBSET Hosts
    BY <1>4, <1>5
  <2>4. Cardinality(R) <= Cardinality(Owners(f[k]))
    BY <2>1, <2>2, <2>3, GreedyIsMost
  <2>. QED  BY <1>4, <2>4 DEF R
<1>. QED  BY <1>6, <1>7, <1>8, <1>9

-----------------------------------------------------------------------------
(* Exchanging one host for a better one, as long as there is one, leads    *)
(* from any independent choice to the one made.                            *)

\* However long a part of the list one looks at, it has no more hosts of S than of P.
Dominates(P, S, o, n) ==
  \A k \in 0..n : Cardinality(S \cap Upto(o, k)) <= Cardinality(P \cap Upto(o, k))

\* independentPlacement: the hosts selected are independent, and dominate any other
\* independent choice in the order of the scores.
LEMMA PlacedFacts ==
  ASSUME stored \in [Hosts -> SUBSET Shards], NEW c, c \subseteq Hosts,
         NEW score \in [Hosts -> Int], NEW P, P = Placed(c, score)
  PROVE  /\ P \subseteq c /\ Independent(P)
         /\ IsFiniteSet(P) /\ Cardinality(P) \in 0..NumShards
         /\ \E n, o : /\ Lists(o, n) /\ Upto(o, n) = c
                      /\ \A i, j \in 1..n : i < j => score[o[i]] <= score[o[j]]
                      /\ \A S \in SUBSET c : Independent(S) => Dominates(P, S, o, n)
<1>. DEFINE o == InOrder(c, score)
            n == Cardinality(c)
<1>1. P = Assigned(o, n)
  BY DEF Placed
<1>2. o = InOrder(c, score) /\ n = Cardinality(c)
  OBVIOUS
<1>. HIDE DEF o, n
<1>3. /\ n \in Nat /\ o \in [1..n -> c]
      /\ \A i, j \in 1..n : i < j => Before(o[i], o[j], score)
      /\ \A i, j \in 1..n : o[i] = o[j] => i = j
      /\ \A x \in c : \E k \in 1..n : o[k] = x
  BY <1>2, InOrderFacts
<1>4. Lists(o, n) /\ Upto(o, n) = c
  <2>1. o \in [1..n -> Hosts]
    BY <1>3
  <2>2. Upto(o, n) = c
    BY <1>3 DEF Upto
  <2>. QED  BY <1>3, <2>1, <2>2 DEF Lists
<1>5. \A i, j \in 1..n : i < j => score[o[i]] <= score[o[j]]
  <2>1. \A i \in 1..n : score[o[i]] \in Int
    BY <1>3
  <2>. QED  BY <1>3, <2>1 DEF Before
<1>6. /\ P \subseteq c /\ Independent(P) /\ IsFiniteSet(P) /\ Cardinality(P) \in 0..NumShards
      /\ \A S \in SUBSET Hosts : Independent(S) =>
           \A k \in 0..n : Cardinality(S \cap Upto(o, k)) <= Cardinality(P \cap Upto(o, k))
  BY <1>1, <1>4, AssignedFacts
<1>7. \A S \in SUBSET c : Independent(S) => Dominates(P, S, o, n)
  BY <1>6 DEF Dominates
<1>. QED  BY <1>4, <1>5, <1>6, <1>7

\* One host for another, or one host more.
LEMMA SwapSize ==
  ASSUME NEW S, IsFiniteSet(S), NEW y \in S, NEW x, x \notin S
  PROVE  /\ IsFiniteSet((S \ {y}) \cup {x})
         /\ Cardinality((S \ {y}) \cup {x}) = Cardinality(S)
         /\ IsFiniteSet(S \cup {x}) /\ Cardinality(S \cup {x}) = Cardinality(S) + 1
<1>1. IsFiniteSet(S \ {y}) /\ Cardinality(S \ {y}) = Cardinality(S) - 1 /\ Cardinality(S) \in Nat
  BY FS_RemoveElement, FS_CardinalityType
<1>2. /\ IsFiniteSet((S \ {y}) \cup {x})
      /\ Cardinality((S \ {y}) \cup {x}) = Cardinality(S \ {y}) + 1
  BY <1>1, FS_AddElement
<1>3. IsFiniteSet(S \cup {x}) /\ Cardinality(S \cup {x}) = Cardinality(S) + 1
  BY FS_AddElement
<1>. QED  BY <1>1, <1>2, <1>3

\* Where S is dominated but has hosts that P has not, the first of them may give way to
\* a host of P before it.
LEMMA ExchangeStep ==
  ASSUME NEW n, NEW o, Lists(o, n), NEW P \in SUBSET Upto(o, n), NEW S \in SUBSET Upto(o, n),
         Dominates(P, S, o, n), ~(S \subseteq P)
  PROVE  \E i, j \in 1..n :
           /\ i < j /\ o[i] \in P \ S /\ o[j] \in S \ P
           /\ Dominates(P, (S \ {o[j]}) \cup {o[i]}, o, n)
<1>. n \in Nat /\ o \in [1..n -> Hosts] /\ \A i, j \in 1..n : o[i] = o[j] => i = j
  BY DEF Lists
<1>0. /\ \A k \in 0..n : Upto(o, k) \subseteq Hosts
      /\ \A k \in 0..n : \A j \in 1..n : o[j] \in Upto(o, k) <=> j <= k
  BY UptoFacts
<1>1. \A x \in Upto(o, n) : \E k \in 1..n : o[k] = x
  BY DEF Upto
<1>2. PICK j \in 1..n : o[j] \in S \ P /\ \A k \in 1..n : o[k] \in S \ P => j <= k
  <2>. DEFINE J == {k \in 1..n : o[k] \in S \ P}
  <2>1. J # {} /\ J \subseteq Nat
    BY <1>1
  <2>2. Min(J) \in J /\ \A k \in J : Min(J) <= k
    <3>. HIDE DEF J
    <3>. QED  BY <2>1, LeastOf
  <2>. QED  BY <2>2
<1>3. ASSUME NEW k \in 0..n
      PROVE  /\ IsFiniteSet(S \cap Upto(o, k)) /\ IsFiniteSet(P \cap Upto(o, k))
             /\ Cardinality(S \cap Upto(o, k)) \in Nat /\ Cardinality(P \cap Upto(o, k)) \in Nat
             /\ Cardinality(S \cap Upto(o, k)) <= Cardinality(P \cap Upto(o, k))
  <2>1. S \cap Upto(o, k) \subseteq Hosts /\ P \cap Upto(o, k) \subseteq Hosts
    BY <1>0
  <2>. QED  BY <2>1, HostSets DEF Dominates
<1>4. j \in 0..n
  OBVIOUS
<1>5. PICK i \in 1..n : i <= j /\ o[i] \in P \ S
  <2>. SUFFICES ASSUME \A i \in 1..n : i <= j => o[i] \notin P \ S PROVE FALSE
    OBVIOUS
  <2>. DEFINE A == S \cap Upto(o, j)
              B == P \cap Upto(o, j)
  <2>1. B \subseteq A
    <3>. SUFFICES ASSUME NEW x \in B PROVE x \in S
      OBVIOUS
    <3>1. PICK k \in 1..n : o[k] = x
      BY <1>1
    <3>2. k <= j
      BY <1>0, <1>4, <3>1
    <3>. QED  BY <3>1, <3>2
  <2>2. o[j] \in A /\ o[j] \notin B
    BY <1>0, <1>2, <1>4
  <2>. HIDE DEF A, B
  <2>3. IsFiniteSet(A) /\ Cardinality(A) \in Nat /\ Cardinality(B) \in Nat
          /\ Cardinality(A) <= Cardinality(B)
    BY <1>3, <1>4 DEF A, B
  <2>4. Cardinality(B) < Cardinality(A)
    BY <2>1, <2>2, <2>3, ProperSubset
  <2>. QED  BY <2>3, <2>4
<1>6. i < j
  BY <1>2, <1>5
<1>. DEFINE R == (S \ {o[j]}) \cup {o[i]}
<1>7. ASSUME NEW k \in 0..n
      PROVE  Cardinality(R \cap Upto(o, k)) <= Cardinality(P \cap Upto(o, k))
  <2>1. CASE k < j
    <3>1. R \cap Upto(o, k) \subseteq P \cap Upto(o, k)
      <4>. SUFFICES ASSUME NEW x \in R \cap Upto(o, k) PROVE x \in P
        OBVIOUS
      <4>1. CASE x = o[i]
        BY <1>5, <4>1
      <4>2. CASE x # o[i]
        <5>1. PICK l \in 1..k : x = o[l]
          BY DEF Upto
        <5>2. l \in 1..n /\ ~(j <= l) /\ x \in S
          BY <2>1, <4>2, <5>1
        <5>. QED  BY <1>2, <5>1, <5>2
      <4>. QED  BY <4>1, <4>2
    <3>. HIDE DEF R
    <3>. QED  BY <1>3, <3>1, ProperSubset
  <2>2. CASE ~(k < j)
    <3>. DEFINE A == S \cap Upto(o, k)
    <3>1. o[j] \in Upto(o, k) /\ o[i] \in Upto(o, k)
      BY <1>0, <1>6, <2>2
    <3>2. R \cap Upto(o, k) = (A \ {o[j]}) \cup {o[i]}
      BY <3>1
    <3>3. o[j] \in A /\ o[i] \notin A
      BY <1>2, <1>5, <3>1
    <3>4. IsFiniteSet(A) /\ Cardinality(A) <= Cardinality(P \cap Upto(o, k))
      BY <1>3
    <3>. DEFINE x == o[i]
                y == o[j]
    <3>5. y \in A /\ x \notin A /\ R \cap Upto(o, k) = (A \ {y}) \cup {x}
      BY <3>2, <3>3
    <3>. HIDE DEF A, R, x, y
    <3>6. Cardinality((A \ {y}) \cup {x}) = Cardinality(A)
      BY <3>4, <3>5, SwapSize, ZenonT(30)
    <3>. QED  BY <3>4, <3>5, <3>6
  <2>. QED  BY <2>1, <2>2
<1>8. Dominates(P, R, o, n)
  BY <1>7 DEF Dominates
<1>. QED  BY <1>2, <1>5, <1>6, <1>8

\* V does not grow when a host of the list gives way to one before it, nor when a host is
\* added, as long as the hosts are at least q and not more than those of P.
Improves(V, P, q, o, n) ==
  /\ \A S \in SUBSET Upto(o, n) : V[S] \in Int
  /\ \A S \in SUBSET Upto(o, n) : q <= Cardinality(S) /\ Cardinality(S) <= Cardinality(P) =>
       \A i, j \in 1..n : i < j /\ o[i] \notin S /\ o[j] \in S =>
         V[(S \ {o[j]}) \cup {o[i]}] <= V[S]
  /\ \A S \in SUBSET Upto(o, n) : q <= Cardinality(S) /\ Cardinality(S) < Cardinality(P) =>
       \A x \in Upto(o, n) \ S : V[S \cup {x}] <= V[S]

\* Such a V is least for a P that dominates.
LEMMA Exchange ==
  ASSUME NEW n, NEW o, Lists(o, n), NEW P \in SUBSET Upto(o, n), NEW q \in Nat,
         NEW V, Improves(V, P, q, o, n)
  PROVE  \A S \in SUBSET Upto(o, n) :
           Dominates(P, S, o, n) /\ q <= Cardinality(S) => V[P] <= V[S]
<1>. n \in Nat /\ o \in [1..n -> Hosts]
  BY DEF Lists
<1>. DEFINE c == Upto(o, n)
            Good(S) == Dominates(P, S, o, n) /\ q <= Cardinality(S)
            I == {k \in Nat : \A S \in SUBSET c :
                   Good(S) /\ Cardinality(P \ S) <= k => V[P] <= V[S]}
<1>0. c \subseteq Hosts
  BY DEF Upto
<1>1. ASSUME NEW S \in SUBSET c
      PROVE  /\ IsFiniteSet(S) /\ Cardinality(S) \in Nat
             /\ IsFiniteSet(P \ S) /\ Cardinality(P \ S) \in Nat
             /\ V[S] \in Int
             /\ Dominates(P, S, o, n) => Cardinality(S) <= Cardinality(P)
  <2>1. S \subseteq Hosts /\ P \ S \subseteq Hosts
    BY <1>0
  <2>2. S \cap c = S /\ P \cap c = P
    OBVIOUS
  <2>3. Dominates(P, S, o, n) => Cardinality(S) <= Cardinality(P)
    <3>1. Dominates(P, S, o, n) => Cardinality(S \cap c) <= Cardinality(P \cap c)
      BY DEF Dominates
    <3>. QED  BY <2>2, <3>1
  <2>4. V[S] \in Int
    BY DEF Improves
  <2>. HIDE DEF c
  <2>. QED  BY <2>1, <2>3, <2>4, HostSets
<1>2. P \in SUBSET c /\ IsFiniteSet(P) /\ Cardinality(P) \in Nat /\ V[P] \in Int
  BY <1>1
<1>3. 0 \in I
  <2>. SUFFICES ASSUME NEW S \in SUBSET c, Good(S), Cardinality(P \ S) <= 0
                PROVE  V[P] <= V[S]
    OBVIOUS
  <2>1. P \ S = {}
    <3>. DEFINE A == P \ S
    <3>1. IsFiniteSet(A) /\ Cardinality(A) = 0
      <4>1. IsFiniteSet(A) /\ Cardinality(A) \in Nat /\ Cardinality(A) <= 0
        BY <1>1
      <4>. HIDE DEF A
      <4>. QED  BY <4>1
    <3>. HIDE DEF A
    <3>2. A = {}
      BY <3>1, FS_EmptySet
    <3>. QED  BY <3>2 DEF A
  <2>2. P \subseteq S /\ Cardinality(S) <= Cardinality(P)
    BY <1>1, <2>1
  <2>3. P = S
    <3>. SUFFICES ASSUME NEW x \in S, x \notin P PROVE FALSE
      BY <2>2
    <3>1. IsFiniteSet(S) /\ Cardinality(S) \in Nat
      BY <1>1
    <3>. HIDE DEF c
    <3>2. Cardinality(P) < Cardinality(S)
      BY <2>2, <3>1, ProperSubset
    <3>. QED  BY <1>2, <2>2, <3>1, <3>2
  <2>. QED  BY <1>2, <2>3
<1>4. ASSUME NEW k \in Nat, k \in I PROVE k + 1 \in I
  <2>. SUFFICES ASSUME NEW S \in SUBSET c, Good(S), Cardinality(P \ S) <= k + 1
                PROVE  V[P] <= V[S]
    OBVIOUS
  <2>1. /\ IsFiniteSet(S) /\ Cardinality(S) \in Nat
        /\ IsFiniteSet(P \ S) /\ Cardinality(P \ S) \in Nat
        /\ V[S] \in Int /\ Cardinality(S) <= Cardinality(P)
    BY <1>1
  <2>2. ASSUME NEW R \in SUBSET c, Good(R), V[R] <= V[S],
               NEW x, x \in P \ S, x \in R, P \ R \subseteq P \ S
        PROVE  V[P] <= V[S]
    <3>1. Cardinality(P \ R) < Cardinality(P \ S)
      <4>1. P \ R \subseteq P \ S /\ x \in P \ S /\ x \notin P \ R
        BY <2>2
      <4>. QED  BY <2>1, <4>1, ProperSubset
    <3>2. Cardinality(P \ R) \in Nat /\ V[R] \in Int
      BY <1>1
    <3>3. Cardinality(P \ R) <= k
      BY <2>1, <3>1, <3>2
    <3>4. V[P] <= V[R]
      BY <1>4, <2>2, <3>3
    <3>. QED  BY <1>2, <2>1, <2>2, <3>2, <3>4
  <2>3. CASE S = P
    BY <1>2, <2>3
  <2>4. CASE S \subseteq P /\ S # P
    <3>1. PICK x \in P : x \notin S
      BY <2>4
    <3>. DEFINE R == S \cup {x}
    <3>2. R \in SUBSET c /\ x \in P \ S /\ x \in R /\ P \ R \subseteq P \ S /\ R \subseteq P
      BY <2>4, <3>1
    <3>3. Cardinality(R) = Cardinality(S) + 1
      <4>. HIDE DEF c
      <4>. QED  BY <2>1, <3>1, SwapSize, FS_AddElement
    <3>4. Cardinality(S) < Cardinality(P)
      <4>. HIDE DEF c
      <4>. QED  BY <1>2, <2>4, <3>1, ProperSubset
    <3>5. V[R] <= V[S]
      <4>1. x \in c \ S
        BY <3>1
      <4>. QED  BY <2>1, <3>4, <4>1 DEF Improves
    <3>6. Dominates(P, R, o, n)
      <4>1. ASSUME NEW j \in 0..n
            PROVE  Cardinality(R \cap Upto(o, j)) <= Cardinality(P \cap Upto(o, j))
        <5>1. R \cap Upto(o, j) \subseteq P \cap Upto(o, j)
          BY <3>2
        <5>2. IsFiniteSet(P \cap Upto(o, j))
          BY <1>2, FS_Subset
        <5>. HIDE DEF R
        <5>. QED  BY <5>1, <5>2, ProperSubset
      <4>. QED  BY <4>1 DEF Dominates
    <3>7. Good(R)
      BY <2>1, <3>3, <3>6
    <3>. HIDE DEF R, Good, c
    <3>. QED  BY <2>2, <3>2, <3>5, <3>7
  <2>5. CASE ~(S \subseteq P)
    <3>1. PICK i, j \in 1..n :
            /\ i < j /\ o[i] \in P \ S /\ o[j] \in S \ P
            /\ Dominates(P, (S \ {o[j]}) \cup {o[i]}, o, n)
      BY <2>5, ExchangeStep
    <3>. DEFINE x == o[i]
                y == o[j]
                R == (S \ {y}) \cup {x}
    <3>2. V[R] <= V[S]
      BY <2>1, <3>1 DEF Improves
    <3>3. Cardinality(R) = Cardinality(S)
      <4>1. y \in S /\ x \notin S
        BY <3>1
      <4>. HIDE DEF x, y, c
      <4>. QED  BY <2>1, <4>1, SwapSize
    <3>4. /\ Dominates(P, R, o, n) /\ R \in SUBSET c
          /\ x \in P \ S /\ x \in R
      BY <3>1
    <3>5. P \ R \subseteq P \ S
      <4>1. y \notin P
        BY <3>1
      <4>. QED  BY <4>1
    <3>6. Good(R)
      BY <3>3, <3>4
    <3>. HIDE DEF R, x, y, Good, c
    <3>. QED  BY <2>2, <3>2, <3>4, <3>5, <3>6
  <2>. QED  BY <2>3, <2>4, <2>5
<1>5. \A k \in Nat : k \in I
  <2>. HIDE DEF I
  <2>. QED  BY <1>3, <1>4, Induction
<1>6. ASSUME NEW S \in SUBSET c, Good(S) PROVE V[P] <= V[S]
  <2>. DEFINE k == Cardinality(P \ S)
  <2>1. k \in Nat
    BY <1>1
  <2>2. k \in I /\ k <= k
    <3>. HIDE DEF I, k
    <3>. QED  BY <1>5, <2>1
  <2>. QED  BY <1>6, <2>2
<1>. QED  BY <1>6

-----------------------------------------------------------------------------
(* The evaluation, and the loss it reports *)

GivenTypeOK ==
  /\ stored \in [Hosts -> SUBSET Shards]
  /\ rates \in [Hosts -> [0..MaxHorizon -> 0..Den]]
  /\ age \in [Hosts -> Nat] /\ load.queue \in Nat /\ load.repair \in Nat
  /\ scenarios \in Seq(Scenario)

\* The evaluation, once made, is that of what was given.
RiskInv ==
  /\ GivenTypeOK
  /\ risk = NoRisk \/ risk = Evaluation(Candidates)

\* The inductive invariant, from the types of what is given.
LEMMA RiskInvHolds == SlabRiskSpec => []RiskInv
<1>1. SlabRiskInit => RiskInv
  <2>. SUFFICES ASSUME SlabRiskInit PROVE RiskInv
    OBVIOUS
  <2>. QED  BY SlabRiskAssumption, HorizonAssumption DEF SlabRiskInit, RiskInv, GivenTypeOK
<1>2. RiskInv /\ [SlabRiskNext]_slabRiskVars => RiskInv'
  <2>. SUFFICES ASSUME RiskInv, [SlabRiskNext]_slabRiskVars PROVE RiskInv'
    OBVIOUS
  <2>1. UNCHANGED given /\ (UNCHANGED risk \/ risk' = Evaluation(Candidates))
    BY DEF SlabRiskNext, Evaluate, slabRiskVars
  <2>2. UNCHANGED <<stored, rates, age, scenarios, load>>
    BY <2>1 DEF given
  <2>3. Evaluation(Candidates)' = Evaluation(Candidates)
    <3>1. Candidates' = Candidates /\ \A p : Score(p)' = Score(p)
      BY <2>2 DEF Candidates, Score, Chances
    <3>2. \A c, s : Placed(c, s)' = Placed(c, s)
      BY <2>2 DEF Placed, Assigned, Assign, Visit
    <3>3. \A p, P : Loss(p, P)' = Loss(p, P)
      BY <2>2 DEF Loss, Mixture, Chances, LossTailOf, LossTail
    <3>4. \A n, p, P : Valid(n, p, P)' = Valid(n, p, P)
      <4>1. \A p, P : SafeCount(p, P)' = SafeCount(p, P)
        BY <2>2 DEF SafeCount, Estimate, Mixture, Chances, LossTail
      <4>2. \A P : Affected(P)' = Affected(P)
        BY <2>2 DEF Affected
      <4>. QED  BY <2>2, <3>3, <4>1, <4>2 DEF Valid
    <3>5. \A c : Fresh(c)' = Fresh(c)
      BY <2>2 DEF Fresh
    <3>6. \A c : Horizon(c)' = Horizon(c)
      BY <2>2 DEF Horizon
    <3>7. \A n : FailureProbability(n)' = FailureProbability(n)
      BY <2>2 DEF FailureProbability
    <3>8. \A c, n : Covers(c, n)' = Covers(c, n)
      BY <3>2 DEF Covers
    <3>9. \A c : Evaluation(c)' = Evaluation(c)
      BY <2>2, <3>1, <3>2, <3>4, <3>5, <3>6, <3>7, <3>8 DEF Evaluation, Invalid
    <3>. QED  BY <3>1, <3>9
  <2>4. GivenTypeOK'
    BY <2>2 DEF RiskInv, GivenTypeOK
  <2>5. (risk = NoRisk \/ risk = Evaluation(Candidates))'
    BY <2>1, <2>3 DEF RiskInv
  <2>. QED  BY <2>4, <2>5 DEF RiskInv
<1>. QED  BY <1>1, <1>2, PTL DEF SlabRiskSpec

\* The scenarios and the scores, by their types.
LEMMA ScenarioFacts ==
  ASSUME GivenTypeOK, NEW prob \in [Hosts -> 0..Den]
  PROVE  /\ DOMAIN scenarios = 1..Len(scenarios) /\ IsFiniteSet(DOMAIN scenarios)
         /\ \A j \in DOMAIN scenarios : /\ scenarios[j].prob \in 0..Den /\ Chances[j] = scenarios[j].prob
                                        /\ scenarios[j].hosts \subseteq Hosts
         /\ Score(prob) \in [Hosts -> Int]
         /\ scenarios = <<>> => DOMAIN scenarios = {} /\ \A h \in Hosts : Score(prob)[h] = prob[h]
<1>1. scenarios \in Seq(Scenario) /\ Len(scenarios) \in Nat /\ DOMAIN scenarios = 1..Len(scenarios)
  BY DEF GivenTypeOK
<1>2. IsFiniteSet(DOMAIN scenarios)
  BY <1>1, FS_Interval
<1>3. \A j \in DOMAIN scenarios : /\ scenarios[j].prob \in 0..Den /\ Chances[j] = scenarios[j].prob
                                  /\ scenarios[j].hosts \subseteq Hosts
  <2>1. \A j \in DOMAIN scenarios : scenarios[j] \in Scenario
    BY <1>1
  <2>. QED  BY <2>1 DEF Chances, Scenario
<1>4. Den \in Int
  BY SlabRiskAssumption
<1>5. ASSUME NEW J \in SUBSET DOMAIN scenarios
      PROVE  Sum(J, Chances) \in Int /\ (J = {} => Sum(J, Chances) = 0)
  <2>1. IsFiniteSet(J) /\ \A j \in J : Chances[j] \in Int
    BY <1>2, <1>3, <1>4, FS_Subset
  <2>. QED  BY <2>1, SumFacts
<1>6. ASSUME NEW h \in Hosts
      PROVE  /\ Score(prob)[h] = prob[h] + Sum({j \in DOMAIN scenarios : h \in scenarios[j].hosts}, Chances)
             /\ Score(prob)[h] \in Int /\ prob[h] \in Int
             /\ DOMAIN scenarios = {} => Score(prob)[h] = prob[h]
  <2>. DEFINE J == {j \in DOMAIN scenarios : h \in scenarios[j].hosts}
  <2>1. Score(prob)[h] = prob[h] + Sum(J, Chances)
    BY DEF Score
  <2>2. J \in SUBSET DOMAIN scenarios /\ (DOMAIN scenarios = {} => J = {})
    OBVIOUS
  <2>3. prob[h] \in Int
    BY <1>4
  <2>. HIDE DEF J
  <2>4. Sum(J, Chances) \in Int /\ (J = {} => Sum(J, Chances) = 0)
    BY <1>5, <2>2
  <2>5. Score(prob)[h] \in Int /\ (DOMAIN scenarios = {} => Score(prob)[h] = prob[h])
    BY <2>1, <2>2, <2>3, <2>4
  <2>. QED  BY <2>1, <2>3, <2>5 DEF J
<1>7. Score(prob) \in [Hosts -> Int]
  <2>. DEFINE e(h) == prob[h] + Sum({j \in DOMAIN scenarios : h \in scenarios[j].hosts}, Chances)
  <2>1. Score(prob) = [h \in Hosts |-> e(h)] /\ \A h \in Hosts : e(h) \in Int
    BY <1>6 DEF Score
  <2>. HIDE DEF e
  <2>. QED  BY <2>1
<1>8. scenarios = <<>> => DOMAIN scenarios = {}
  BY <1>1
<1>. QED  BY <1>1, <1>2, <1>3, <1>6, <1>7, <1>8

\* A valid evaluation is of the hosts that independentPlacement selects from the fresh
\* ones, by their failure probabilities within its horizon.
LEMMA EvaluationIsValid ==
  ASSUME NEW c, Evaluation(c).valid
  PROVE  LET prob == FailureProbability(Evaluation(c).horizon)
             P == Placed(Fresh(c), Score(prob)) IN
           /\ Evaluation(c).placed = P /\ Evaluation(c).usable = Cardinality(P)
           /\ Evaluation(c).loss = Loss(prob, P)
           /\ Evaluation(c).horizon = Horizon(Fresh(c))
<1>. DEFINE horizon == Horizon(Fresh(c))
            prob == FailureProbability(horizon)
            P == Placed(Fresh(c), Score(prob))
<1>1. \A u, r : ~Invalid(u, r).valid
  BY DEF Invalid
<1>2. Evaluation(c) = Valid(horizon, prob, P)
  BY <1>1 DEF Evaluation
<1>3. \A n, p, S : /\ Valid(n, p, S).placed = S /\ Valid(n, p, S).usable = Cardinality(S)
                   /\ Valid(n, p, S).loss = Loss(p, S) /\ Valid(n, p, S).horizon = n
  BY DEF Valid
<1>. HIDE DEF horizon, prob, P
<1>4. /\ Evaluation(c).placed = P /\ Evaluation(c).usable = Cardinality(P)
      /\ Evaluation(c).loss = Loss(prob, P) /\ Evaluation(c).horizon = horizon
  BY <1>2, <1>3
<1>. QED  BY <1>4 DEF horizon, prob, P

\* The horizon is within its bounds, and so are the probabilities.
LEMMA ProbabilityType ==
  ASSUME GivenTypeOK, NEW c, c \subseteq Hosts
  PROVE  FailureProbability(Horizon(Fresh(c))) \in [Hosts -> 0..Den]
<1>. DEFINE A == {0} \cup {age[h] : h \in Fresh(c)}
            sum == Max(A) + load.queue + load.repair + SafetyMargin
<1>1. A \subseteq Nat /\ A # {} /\ IsFiniteSet(A)
  <2>1. IsFiniteSet(Fresh(c)) /\ Fresh(c) \subseteq Hosts
    <3>1. Fresh(c) \subseteq Hosts
      BY DEF Fresh
    <3>. QED  BY <3>1, HostSets
  <2>2. IsFiniteSet({age[h] : h \in Fresh(c)})
    <3>. DEFINE T == {age[h] : h \in Fresh(c)}
                f == [h \in Fresh(c) |-> age[h]]
    <3>1. f \in Surjection(Fresh(c), T)
      BY DEF Surjection
    <3>. QED  BY <2>1, <3>1, FS_Surjection
  <2>3. IsFiniteSet(A)
    BY <2>2, FS_Singleton, FS_Union
  <2>4. \A h \in Fresh(c) : age[h] \in Nat
    BY <2>1 DEF GivenTypeOK
  <2>. QED  BY <2>3, <2>4
<1>2. Max(A) \in Nat
  <2>. HIDE DEF A
  <2>1. \E m \in A : \A a \in A : a <= m
    BY <1>1, Greatest
  <2>2. Max(A) \in A
    BY <1>1, <2>1 DEF Max
  <2>. QED  BY <1>1, <2>2
<1>3. sum \in Nat /\ MaxHorizon \in Nat
  <2>. HIDE DEF A
  <2>. QED  BY <1>2, HorizonAssumption DEF GivenTypeOK
<1>4. Horizon(Fresh(c)) = Min({MaxHorizon, sum})
  BY DEF Horizon
<1>. HIDE DEF sum, A
<1>5. Horizon(Fresh(c)) \in 0..MaxHorizon
  BY <1>3, <1>4 DEF Min
<1>. QED  BY <1>5 DEF FailureProbability, GivenTypeOK

\* What was selected, of fresh copies on hosts with good contracts.
LEMMA SelectedFacts ==
  ASSUME GivenTypeOK, NEW prob \in [Hosts -> 0..Den],
         NEW c, c \subseteq Hosts, NEW P, P = Placed(Fresh(c), Score(prob))
  PROVE  /\ P \subseteq Fresh(c) /\ P \subseteq Hosts /\ Independent(P)
         /\ IsFiniteSet(P) /\ Cardinality(P) \in 0..NumShards
         /\ \E n, o : /\ Lists(o, n) /\ Upto(o, n) = Fresh(c)
                      /\ \A i, j \in 1..n : i < j => Score(prob)[o[i]] <= Score(prob)[o[j]]
                      /\ \A S \in SUBSET Fresh(c) : Independent(S) => Dominates(P, S, o, n)
<1>1. Fresh(c) \subseteq Hosts
  BY DEF Fresh
<1>2. stored \in [Hosts -> SUBSET Shards] /\ Score(prob) \in [Hosts -> Int]
  BY ScenarioFacts DEF GivenTypeOK
<1>. DEFINE score == Score(prob)
            copies == Fresh(c)
<1>3. stored \in [Hosts -> SUBSET Shards] /\ copies \subseteq Hosts /\ score \in [Hosts -> Int]
      /\ P = Placed(copies, score)
  BY <1>1, <1>2
<1>. HIDE DEF score, copies
<1>4. /\ P \subseteq copies /\ Independent(P)
      /\ IsFiniteSet(P) /\ Cardinality(P) \in 0..NumShards
      /\ \E n, o : /\ Lists(o, n) /\ Upto(o, n) = copies
                   /\ \A i, j \in 1..n : i < j => score[o[i]] <= score[o[j]]
                   /\ \A S \in SUBSET copies : Independent(S) => Dominates(P, S, o, n)
  BY <1>3, PlacedFacts
<1>5. P \subseteq Hosts
  BY <1>3, <1>4
<1>. QED  BY <1>4, <1>5 DEF score, copies

\* correlatedSlabLoss, with the tail of each branch as the probability it stands for.
LEMMA LossFacts ==
  ASSUME GivenTypeOK, NEW prob \in [Hosts -> 0..Den],
         NEW P, P \subseteq Hosts, Cardinality(P) <= NumShards
  PROVE  /\ Loss(prob, P) = (Den - Sum(DOMAIN scenarios, Chances)) * Lost(prob, P)
                        + Sum(DOMAIN scenarios,
                              [j \in DOMAIN scenarios |->
                                 scenarios[j].prob * Lost(prob, P \ scenarios[j].hosts)])
<1>. DEFINE L == [j \in DOMAIN scenarios |-> LossTailOf(prob, P \ scenarios[j].hosts)]
            e(j) == scenarios[j].prob * L[j]
            t(j) == scenarios[j].prob * Lost(prob, P \ scenarios[j].hosts)
<1>1. prob \in [Hosts -> 0..Den]
  OBVIOUS
<1>2. ASSUME NEW Q \in SUBSET P PROVE LossTailOf(prob, Q) = Lost(prob, Q)
  <2>1. Q \subseteq Hosts /\ Cardinality(Q) \in Nat /\ Cardinality(Q) <= NumShards
    <3>1. Q \subseteq Hosts /\ IsFiniteSet(P)
      BY HostSets
    <3>2. Cardinality(Q) <= Cardinality(P) /\ Cardinality(Q) \in Nat /\ Cardinality(P) \in Nat
      BY <3>1, ProperSubset
    <3>3. NumShards \in Int
      BY SlabRiskAssumption
    <3>. QED  BY <3>1, <3>2, <3>3
  <2>. QED  BY <1>1, <2>1, LossTailIsLost
<1>3. Loss(prob, P) = (Den - Sum(DOMAIN scenarios, Chances)) * LossTailOf(prob, P)
                  + Sum(DOMAIN scenarios, [j \in DOMAIN scenarios |-> e(j)])
  BY DEF Loss, Mixture
<1>4. \A j \in DOMAIN scenarios : e(j) = t(j)
  BY <1>2
<1>5. LossTailOf(prob, P) = Lost(prob, P)
  BY <1>2
<1>. HIDE DEF e, t
<1>6. [j \in DOMAIN scenarios |-> e(j)] = [j \in DOMAIN scenarios |-> t(j)]
  <2>1. \A A, d, g : d = [f \in A |-> d[f]] /\ g = [f \in A |-> g[f]]
                        /\ (\A f \in A : d[f] = g[f]) => d = g
    OBVIOUS
  <2>2. \A j \in DOMAIN scenarios :
          [f \in DOMAIN scenarios |-> e(f)][j] = [f \in DOMAIN scenarios |-> t(f)][j]
    BY <1>4
  <2>. QED  BY <2>1, <2>2
<1>. QED  BY <1>3, <1>5, <1>6 DEF t

\* The probabilities an evaluation used.
LEMMA EvaluatedProb ==
  ASSUME RiskInv, Evaluated
  PROVE  /\ GivenTypeOK /\ risk = Evaluation(Candidates) /\ risk.valid
         /\ Candidates \subseteq Hosts /\ Prob \in [Hosts -> 0..Den]
         /\ Prob = FailureProbability(Evaluation(Candidates).horizon)
<1>1. GivenTypeOK /\ risk = Evaluation(Candidates) /\ risk.valid /\ Candidates \subseteq Hosts
  BY DEF RiskInv, Evaluated, Candidates
<1>2. risk.horizon = Horizon(Fresh(Candidates))
  BY <1>1, EvaluationIsValid
<1>. QED  BY <1>1, <1>2, ProbabilityType DEF Prob

\* For any hosts, copies, probabilities and scenarios: the loss that evaluateSlabRisk
\* reports, mixed by correlatedSlabLoss from the tables of IndependentSlabLossProbability,
\* is the probability that fewer than MinShards of the selected hosts survive, added up
\* over the scenarios and over every set of hosts that may fail.
THEOREM LossIsExactHolds == SlabRiskSpec => []LossIsExact
<1>1. RiskInv => LossIsExact
  <2>. SUFFICES ASSUME RiskInv, Evaluated
                PROVE  LET P == risk.placed
                           branches == DOMAIN scenarios
                           left == [j \in branches |->
                                      scenarios[j].prob * Lost(Prob, P \ scenarios[j].hosts)]
                       IN risk.loss = (Den - Sum(branches, Chances)) * Lost(Prob, P)
                                        + Sum(branches, left)
    BY DEF LossIsExact
  <2>1. GivenTypeOK /\ risk = Evaluation(Candidates) /\ risk.valid /\ Prob \in [Hosts -> 0..Den]
    BY EvaluatedProb DEF Evaluated
  <2>. DEFINE P == Placed(Fresh(Candidates), Score(Prob))
  <2>2. risk.placed = P /\ risk.loss = Loss(Prob, P)
    BY <2>1, EvaluationIsValid DEF Prob
  <2>3. P \subseteq Hosts /\ Cardinality(P) \in 0..NumShards
    <3>1. Candidates \subseteq Hosts
      BY DEF Candidates
    <3>. QED  BY <2>1, <3>1, SelectedFacts
  <2>. HIDE DEF P
  <2>4. Cardinality(P) <= NumShards
    BY <2>3, SlabRiskAssumption
  <2>. QED  BY <2>1, <2>2, <2>3, <2>4, LossFacts
<1>. QED  BY <1>1, RiskInvHolds, PTL

-----------------------------------------------------------------------------
(* The selection is the best, and the safest *)

\* The total score does not grow when a host gives way to one before it.
LEMMA SumImproves ==
  ASSUME NEW n, NEW o, Lists(o, n), NEW score \in [Hosts -> Int],
         \A i, j \in 1..n : i < j => score[o[i]] <= score[o[j]],
         NEW P \in SUBSET Upto(o, n),
         NEW V, V = [S \in SUBSET Upto(o, n) |-> Sum(S, score)]
  PROVE  Improves(V, P, Cardinality(P), o, n)
<1>. n \in Nat /\ o \in [1..n -> Hosts]
  BY DEF Lists
<1>. DEFINE c == Upto(o, n)
<1>0. c \subseteq Hosts
  BY DEF Upto
<1>1. ASSUME NEW S \in SUBSET c
      PROVE  /\ IsFiniteSet(S) /\ Cardinality(S) \in Nat /\ V[S] = Sum(S, score) /\ V[S] \in Int
             /\ \A x \in S : Sum(S, score) = score[x] + Sum(S \ {x}, score)
             /\ \A x \in c \ S : Sum(S \cup {x}, score) = score[x] + Sum(S, score)
  <2>1. IsFiniteSet(S) /\ Cardinality(S) \in Nat /\ \A x \in c : score[x] \in Int
    BY <1>0, HostSets
  <2>2. V[S] = Sum(S, score)
    OBVIOUS
  <2>. HIDE DEF c
  <2>3. Sum(S, score) \in Int /\ \A x \in S : Sum(S, score) = score[x] + Sum(S \ {x}, score)
    BY <2>1, SumFacts
  <2>4. ASSUME NEW x \in c \ S PROVE Sum(S \cup {x}, score) = score[x] + Sum(S, score)
    BY <2>1, SumAdd
  <2>. QED  BY <2>1, <2>2, <2>3, <2>4
<1>2. ASSUME NEW S \in SUBSET c, NEW i \in 1..n, NEW j \in 1..n,
             i < j, o[i] \notin S, o[j] \in S
      PROVE  V[(S \ {o[j]}) \cup {o[i]}] <= V[S]
  <2>. DEFINE x == o[i]
              y == o[j]
              R == S \ {y}
  <2>1. x \in c \ R /\ y \in S /\ R \in SUBSET c /\ R \cup {x} \in SUBSET c
    BY <1>2 DEF Upto
  <2>2. score[x] <= score[y] /\ score[x] \in Int /\ score[y] \in Int
    BY <1>2
  <2>. HIDE DEF x, y, c
  <2>3. Sum(S, score) = score[y] + Sum(R, score)
    BY <1>1, <2>1
  <2>. HIDE DEF R
  <2>4. Sum(R \cup {x}, score) = score[x] + Sum(R, score) /\ Sum(R, score) \in Int
    BY <1>1, <2>1
  <2>5. V[R \cup {x}] = Sum(R \cup {x}, score) /\ V[S] = Sum(S, score)
    BY <1>1, <2>1
  <2>6. V[R \cup {x}] <= V[S]
    BY <2>2, <2>3, <2>4, <2>5
  <2>. QED  BY <2>6 DEF R, x, y
<1>3. \A S \in SUBSET c : ~(Cardinality(P) <= Cardinality(S) /\ Cardinality(S) < Cardinality(P))
  <2>1. \A S \in SUBSET c : Cardinality(S) \in Nat
    BY <1>1
  <2>. HIDE DEF c
  <2>2. P \in SUBSET c
    BY DEF c
  <2>. QED  BY <2>1, <2>2
<1>. QED  BY <1>1, <1>2, <1>3 DEF Improves

\* A host that fails less often in place of another, or one more: fewer losses.
LEMMA LostChanges ==
  ASSUME NEW prob \in [Hosts -> 0..Den], NEW R \in SUBSET Hosts, NEW x \in Hosts \ R,
         Cardinality(R) < NumShards
  PROVE  /\ Lost(prob, R) \in Int /\ Lost(prob, R \cup {x}) \in Int
         /\ Lost(prob, R \cup {x}) <= Lost(prob, R)
         /\ \A y \in Hosts \ R : prob[x] <= prob[y] => Lost(prob, R \cup {x}) <= Lost(prob, R \cup {y})
<1>. DEFINE u == Cardinality(R)
            m == MinShards
            A == FewLeft(prob, R, m - 1)
            B == FewLeft(prob, R, m)
            w == Power[NumShards - (u + 1)]
<1>1. m \in Int /\ m - 1 \in Int /\ m - 1 <= m /\ NumShards \in Nat /\ Den \in Nat
  BY SlabRiskAssumption
<1>2. u \in Nat /\ IsFiniteSet(R) /\ \A z \in Hosts \ R : Cardinality(R \cup {z}) = u + 1
  <2>1. IsFiniteSet(R) /\ Cardinality(R) \in Nat
    BY HostSets
  <2>. QED  BY <2>1, FS_AddElement
<1>3. A \in Nat /\ B \in Nat /\ A <= B
  <2>. HIDE DEF m
  <2>1. /\ FewLeft(prob, R, m - 1) \in Nat /\ FewLeft(prob, R, m) \in Nat
        /\ FewLeft(prob, R, m - 1) <= FewLeft(prob, R, m)
    BY <1>1, FewLeftFacts
  <2>. QED  BY <2>1
<1>4. \A z \in Hosts \ R : FewLeft(prob, R \cup {z}, m) = (Den - prob[z]) * A + prob[z] * B
  <2>. HIDE DEF m
  <2>. QED  BY <1>1, FewLeftAdd
<1>5. w \in Nat /\ Power[NumShards - u] = Den * w
  <2>. DEFINE k == NumShards - (u + 1)
  <2>1. k \in 0..NumShards /\ k \in 0..NumShards + 1 /\ k + 1 = NumShards - u
    BY <1>1, <1>2
  <2>. HIDE DEF k
  <2>2. Power[k] \in Nat /\ Power[k + 1] = Den * Power[k]
    BY <2>1, PowerFacts
  <2>. QED  BY <2>1, <2>2 DEF k
<1>6. \A z \in Hosts \ R : Lost(prob, R \cup {z}) = w * ((Den - prob[z]) * A + prob[z] * B)
  BY <1>2, <1>4 DEF Lost
<1>7. Lost(prob, R) = (Den * w) * B
  BY <1>5 DEF Lost
<1>. HIDE DEF u, m, A, B, w
<1>8. \A p \in 0..Den : /\ (Den - p) * A + p * B \in Int
                        /\ (Den - p) * A + p * B <= Den * B
                        /\ \A q \in 0..Den : p <= q =>
                             (Den - p) * A + p * B <= (Den - q) * A + q * B
  <2>. SUFFICES ASSUME NEW p \in 0..Den
                PROVE  /\ (Den - p) * A + p * B \in Int
                       /\ (Den - p) * A + p * B <= Den * B
                       /\ \A q \in 0..Den : p <= q =>
                            (Den - p) * A + p * B <= (Den - q) * A + q * B
    OBVIOUS
  <2>0. PICK e \in Nat : B = A + e
    <3>1. B - A \in Nat /\ B = A + (B - A)
      BY <1>3
    <3>. QED  BY <3>1
  <2>1. \A d, q, a, f \in Int : (d - q) * a + q * (a + f) = d * a + q * f
    OBVIOUS
  <2>2. \A q \in 0..Den : (Den - q) * A + q * B = Den * A + q * e
    BY <1>1, <1>3, <2>0, <2>1
  <2>3. \A q, r \in Nat : q <= r => q * e <= r * e /\ q * e \in Int /\ r * e \in Int
    <3>1. ASSUME NEW q \in Nat, NEW r \in Nat, q <= r
          PROVE  q * e <= r * e /\ q * e \in Int /\ r * e \in Int
      <4>1. r - q \in Nat /\ r = q + (r - q)
        BY <3>1
      <4>2. \A a, b, f \in Int : (a + b) * f = a * f + b * f
        OBVIOUS
      <4>3. \A a, b \in Nat : a * b \in Nat
        OBVIOUS
      <4>4. r * e = q * e + (r - q) * e
        BY <4>1, <4>2
      <4>5. (r - q) * e \in Nat /\ q * e \in Nat
        BY <4>1, <4>3
      <4>. QED  BY <4>4, <4>5
    <3>. QED  BY <3>1
  <2>4. Den * A \in Int /\ Den * B = Den * A + Den * e
    BY <1>1, <1>3, <2>0
  <2>5. p \in Nat /\ p <= Den /\ \A q \in 0..Den : q \in Nat
    BY <1>1
  <2>6. (Den - p) * A + p * B = Den * A + p * e /\ p * e <= Den * e /\ p * e \in Int /\ Den * e \in Int
    BY <1>1, <2>2, <2>3, <2>5
  <2>7. ASSUME NEW q \in 0..Den, p <= q
        PROVE  (Den - p) * A + p * B <= (Den - q) * A + q * B
    <3>1. p * e <= q * e /\ q * e \in Int
      BY <2>3, <2>5, <2>7
    <3>2. (Den - q) * A + q * B = Den * A + q * e
      BY <2>2
    <3>. QED  BY <2>4, <2>6, <3>1, <3>2
  <2>. QED  BY <2>4, <2>6, <2>7
<1>9. \A s, t \in Int : s <= t => w * s <= w * t /\ w * s \in Int
  <2>. SUFFICES ASSUME NEW s \in Int, NEW t \in Int, s <= t PROVE w * s <= w * t /\ w * s \in Int
    OBVIOUS
  <2>1. t - s \in Nat /\ t = s + (t - s)
    OBVIOUS
  <2>2. w * t = w * s + w * (t - s) /\ w * s \in Int
    BY <1>5
  <2>3. \A a, b \in Nat : a * b \in Nat
    OBVIOUS
  <2>4. w * (t - s) \in Nat
    BY <1>5, <2>1, <2>3
  <2>. QED  BY <2>2, <2>4
<1>10. Lost(prob, R) = w * (Den * B) /\ Den * B \in Int
  BY <1>1, <1>3, <1>5, <1>7
<1>11. \A z \in Hosts : prob[z] \in 0..Den
  OBVIOUS
<1>12. Lost(prob, R \cup {x}) \in Int /\ Lost(prob, R \cup {x}) <= Lost(prob, R) /\ Lost(prob, R) \in Int
  <2>. DEFINE s == (Den - prob[x]) * A + prob[x] * B
              t == Den * B
  <2>1. s \in Int /\ t \in Int /\ s <= t /\ t <= t
    BY <1>8, <1>10, <1>11
  <2>2. Lost(prob, R \cup {x}) = w * s /\ Lost(prob, R) = w * t
    BY <1>6, <1>10
  <2>. HIDE DEF s, t
  <2>. QED  BY <1>9, <2>1, <2>2
<1>13. ASSUME NEW y \in Hosts \ R, prob[x] <= prob[y] PROVE Lost(prob, R \cup {x}) <= Lost(prob, R \cup {y})
  <2>. DEFINE s == (Den - prob[x]) * A + prob[x] * B
              t == (Den - prob[y]) * A + prob[y] * B
  <2>1. s \in Int /\ t \in Int /\ s <= t
    BY <1>8, <1>11, <1>13
  <2>2. Lost(prob, R \cup {x}) = w * s /\ Lost(prob, R \cup {y}) = w * t
    BY <1>6
  <2>. HIDE DEF s, t
  <2>. QED  BY <1>9, <2>1, <2>2
<1>. QED  BY <1>12, <1>13

\* Fewer hosts that fail less often: the loss is least where they are all taken.
LEMMA LostImproves ==
  ASSUME NEW prob \in [Hosts -> 0..Den], NEW n, NEW o, Lists(o, n),
         \A i, j \in 1..n : i < j => prob[o[i]] <= prob[o[j]],
         NEW P \in SUBSET Upto(o, n), Cardinality(P) <= NumShards,
         NEW V, V = [S \in SUBSET Upto(o, n) |->
                       IF Cardinality(S) <= NumShards THEN Lost(prob, S) ELSE 0]
  PROVE  Improves(V, P, 0, o, n)
<1>. n \in Nat /\ o \in [1..n -> Hosts]
  BY DEF Lists
<1>. DEFINE c == Upto(o, n)
<1>0. c \subseteq Hosts /\ P \in SUBSET c /\ NumShards \in Nat
  BY SlabRiskAssumption DEF Upto
<1>1. ASSUME NEW S \in SUBSET c
      PROVE  /\ IsFiniteSet(S) /\ Cardinality(S) \in Nat
             /\ Cardinality(S) <= NumShards => V[S] = Lost(prob, S)
             /\ Cardinality(S) > NumShards => V[S] = 0
  <2>1. IsFiniteSet(S) /\ Cardinality(S) \in Nat
    BY <1>0, HostSets
  <2>. QED  BY <1>0, <2>1
<1>2. ASSUME NEW S \in SUBSET c PROVE V[S] \in Int
  <2>0. /\ IsFiniteSet(S) /\ Cardinality(S) \in Nat
        /\ Cardinality(S) <= NumShards => V[S] = Lost(prob, S)
        /\ Cardinality(S) > NumShards => V[S] = 0
    BY <1>1
  <2>1. CASE Cardinality(S) > NumShards
    BY <2>0, <2>1
  <2>2. CASE Cardinality(S) <= NumShards
    <3>1. FewLeft(prob, S, MinShards) \in Nat
      <4>1. S \subseteq Hosts /\ MinShards \in Int
        BY <1>0, SlabRiskAssumption
      <4>. QED  BY <4>1, FewLeftFacts
    <3>2. Power[NumShards - Cardinality(S)] \in Nat
      <4>1. NumShards - Cardinality(S) \in 0..NumShards + 1
        BY <1>0, <2>0, <2>2
      <4>. QED  BY <4>1, PowerFacts
    <3>3. \A a, b \in Nat : a * b \in Int
      OBVIOUS
    <3>4. Lost(prob, S) \in Int
      BY <3>1, <3>2, <3>3 DEF Lost
    <3>. QED  BY <2>0, <2>2, <3>4
  <2>. QED  BY <1>0, <2>0, <2>1, <2>2
<1>3. ASSUME NEW S \in SUBSET c, Cardinality(S) <= Cardinality(P),
             NEW i \in 1..n, NEW j \in 1..n, i < j, o[i] \notin S, o[j] \in S
      PROVE  V[(S \ {o[j]}) \cup {o[i]}] <= V[S]
  <2>. DEFINE x == o[i]
              y == o[j]
              R == S \ {y}
  <2>1. /\ x \in Hosts \ R /\ y \in Hosts \ R /\ R \in SUBSET Hosts
        /\ y \in S /\ x \notin S /\ S = R \cup {y} /\ R \cup {x} \in SUBSET c
    BY <1>0, <1>3 DEF Upto
  <2>2. prob[x] <= prob[y]
    BY <1>3
  <2>3. IsFiniteSet(S) /\ Cardinality(S) \in Nat /\ Cardinality(P) \in Nat
    BY <1>0, <1>1
  <2>4. Cardinality(S) <= NumShards
    BY <1>0, <1>3, <2>3
  <2>. HIDE DEF x, y, c
  <2>5. Cardinality(R) = Cardinality(S) - 1 /\ Cardinality(R \cup {x}) = Cardinality(S)
    <3>1. Cardinality(R) = Cardinality(S) - 1
      BY <2>1, <2>3, FS_RemoveElement
    <3>2. Cardinality((S \ {y}) \cup {x}) = Cardinality(S)
      BY <2>1, <2>3, SwapSize, ZenonT(30)
    <3>. QED  BY <3>1, <3>2
  <2>. HIDE DEF R
  <2>6. Cardinality(R) < NumShards
    BY <1>0, <2>3, <2>4, <2>5
  <2>7. Lost(prob, R \cup {x}) <= Lost(prob, R \cup {y})
    BY <2>1, <2>2, <2>6, LostChanges
  <2>8. V[R \cup {x}] = Lost(prob, R \cup {x}) /\ V[S] = Lost(prob, S)
    BY <1>1, <2>1, <2>4, <2>5
  <2>9. V[R \cup {x}] <= V[S]
    BY <2>1, <2>7, <2>8
  <2>. QED  BY <2>9 DEF R, x, y
<1>4. ASSUME NEW S \in SUBSET c, Cardinality(S) < Cardinality(P), NEW x \in c \ S
      PROVE  V[S \cup {x}] <= V[S]
  <2>1. IsFiniteSet(S) /\ Cardinality(S) \in Nat /\ Cardinality(P) \in Nat
    BY <1>0, <1>1
  <2>2. S \in SUBSET Hosts /\ x \in Hosts \ S /\ x \notin S /\ S \cup {x} \in SUBSET c
    BY <1>0
  <2>. HIDE DEF c
  <2>3. Cardinality(S) < NumShards /\ Cardinality(S) <= NumShards
    BY <1>0, <1>4, <2>1
  <2>4. Cardinality(S \cup {x}) = Cardinality(S) + 1
    BY <2>1, <2>2, FS_AddElement
  <2>5. Cardinality(S \cup {x}) <= NumShards
    BY <1>0, <2>1, <2>3, <2>4
  <2>6. Lost(prob, S \cup {x}) <= Lost(prob, S)
    BY <2>2, <2>3, LostChanges
  <2>7. V[S \cup {x}] = Lost(prob, S \cup {x}) /\ V[S] = Lost(prob, S)
    BY <1>1, <2>2, <2>3, <2>5
  <2>. QED  BY <2>6, <2>7
<1>. QED  BY <1>2, <1>3, <1>4 DEF Improves

\* The selection is the largest, and of the largest one with the lowest total score.
LEMMA SelectedIsBest ==
  ASSUME GivenTypeOK, NEW prob \in [Hosts -> 0..Den],
         NEW c, c \subseteq Hosts, NEW P, P = Placed(Fresh(c), Score(prob))
  PROVE  \A S \in SUBSET Fresh(c) : Independent(S) =>
           /\ IsFiniteSet(S) /\ Cardinality(S) \in Nat /\ Cardinality(S) <= Cardinality(P)
           /\ Cardinality(S) = Cardinality(P) => Sum(S, Score(prob)) >= Sum(P, Score(prob))
<1>0. P \subseteq Fresh(c) /\ P \subseteq Hosts /\ Fresh(c) \subseteq Hosts /\ Cardinality(P) \in Nat
  <2>1. P \subseteq Fresh(c) /\ P \subseteq Hosts /\ Cardinality(P) \in 0..NumShards
    BY SelectedFacts
  <2>2. Fresh(c) \subseteq Hosts
    BY DEF Fresh
  <2>. QED  BY <2>1, <2>2
<1>1. PICK n, o : /\ Lists(o, n) /\ Upto(o, n) = Fresh(c)
                  /\ \A i, j \in 1..n : i < j => Score(prob)[o[i]] <= Score(prob)[o[j]]
                  /\ \A S \in SUBSET Fresh(c) : Independent(S) => Dominates(P, S, o, n)
  BY SelectedFacts
<1>. n \in Nat
  BY <1>1 DEF Lists
<1>. DEFINE f == Fresh(c)
            V == [S \in SUBSET f |-> Sum(S, Score(prob))]
<1>2. Improves(V, P, Cardinality(P), o, n)
  <2>1. V = [S \in SUBSET Upto(o, n) |-> Sum(S, Score(prob))] /\ P \in SUBSET Upto(o, n)
    BY <1>0, <1>1
  <2>2. Score(prob) \in [Hosts -> Int]
    BY ScenarioFacts
  <2>. HIDE DEF V
  <2>. QED  BY <1>1, <2>1, <2>2, SumImproves
<1>3. \A S \in SUBSET f : V[S] = Sum(S, Score(prob)) /\ (V[S] \in Int)
  <2>1. \A S \in SUBSET f : V[S] = Sum(S, Score(prob))
    OBVIOUS
  <2>. HIDE DEF V
  <2>. QED  BY <1>1, <1>2, <2>1 DEF Improves
<1>. HIDE DEF V
<1>4. ASSUME NEW S \in SUBSET f, Independent(S)
      PROVE  /\ IsFiniteSet(S) /\ Cardinality(S) \in Nat /\ Cardinality(S) <= Cardinality(P)
             /\ Cardinality(S) = Cardinality(P) => Sum(S, Score(prob)) >= Sum(P, Score(prob))
  <2>1. IsFiniteSet(S) /\ Cardinality(S) \in Nat
    BY <1>0, HostSets
  <2>2. Dominates(P, S, o, n) /\ S \in SUBSET Upto(o, n) /\ P \in SUBSET Upto(o, n)
    BY <1>0, <1>1, <1>4
  <2>3. Cardinality(S) <= Cardinality(P)
    <3>1. Cardinality(S \cap Upto(o, n)) <= Cardinality(P \cap Upto(o, n))
      BY <2>2 DEF Dominates
    <3>2. S \cap Upto(o, n) = S /\ P \cap Upto(o, n) = P
      BY <2>2
    <3>. QED  BY <3>1, <3>2
  <2>4. ASSUME Cardinality(S) = Cardinality(P) PROVE Sum(S, Score(prob)) >= Sum(P, Score(prob))
    <3>. DEFINE q == Cardinality(P)
    <3>1. q \in Nat /\ q <= Cardinality(S) /\ Improves(V, P, q, o, n)
      BY <1>0, <1>2, <2>4
    <3>. HIDE DEF q
    <3>2. V[P] <= V[S]
      BY <1>1, <2>2, <3>1, Exchange
    <3>. QED  BY <1>0, <1>3, <3>2
  <2>. QED  BY <2>1, <2>3, <2>4
<1>. QED  BY <1>4

\* Without scenarios the score is the probability of failure, and no independent choice
\* has a lower loss.
LEMMA SelectedIsSafest ==
  ASSUME GivenTypeOK, scenarios = <<>>, NEW prob \in [Hosts -> 0..Den],
         NEW c, c \subseteq Hosts, NEW P, P = Placed(Fresh(c), Score(prob))
  PROVE  \A S \in SUBSET Fresh(c) : Independent(S) => Lost(prob, P) <= Lost(prob, S)
<1>0. /\ P \subseteq Fresh(c) /\ P \subseteq Hosts /\ Fresh(c) \subseteq Hosts
      /\ Cardinality(P) \in 0..NumShards /\ NumShards \in Nat
  <2>1. P \subseteq Fresh(c) /\ P \subseteq Hosts /\ Cardinality(P) \in 0..NumShards
    BY SelectedFacts
  <2>2. Fresh(c) \subseteq Hosts
    BY DEF Fresh
  <2>. QED  BY <2>1, <2>2, SlabRiskAssumption
<1>1. PICK n, o : /\ Lists(o, n) /\ Upto(o, n) = Fresh(c)
                  /\ \A i, j \in 1..n : i < j => Score(prob)[o[i]] <= Score(prob)[o[j]]
                  /\ \A S \in SUBSET Fresh(c) : Independent(S) => Dominates(P, S, o, n)
  BY SelectedFacts
<1>. DEFINE f == Fresh(c)
            V == [S \in SUBSET f |-> IF Cardinality(S) <= NumShards THEN Lost(prob, S) ELSE 0]
<1>2. \A i, j \in 1..n : i < j => prob[o[i]] <= prob[o[j]]
  <2>1. \A h \in Hosts : Score(prob)[h] = prob[h]
    BY ScenarioFacts
  <2>2. \A i \in 1..n : o[i] \in Hosts
    BY <1>1 DEF Lists
  <2>. QED  BY <1>1, <2>1, <2>2
<1>3. Improves(V, P, 0, o, n)
  <2>1. /\ V = [S \in SUBSET Upto(o, n) |-> IF Cardinality(S) <= NumShards THEN Lost(prob, S) ELSE 0]
        /\ P \in SUBSET Upto(o, n) /\ Cardinality(P) <= NumShards
    BY <1>0, <1>1
  <2>2. prob \in [Hosts -> 0..Den]
    OBVIOUS
  <2>. HIDE DEF V
  <2>. QED  BY <1>1, <1>2, <2>1, <2>2, LostImproves
<1>4. \A S \in SUBSET f : Cardinality(S) <= NumShards => V[S] = Lost(prob, S)
  OBVIOUS
<1>. HIDE DEF V
<1>5. ASSUME NEW S \in SUBSET f, Independent(S) PROVE Lost(prob, P) <= Lost(prob, S)
  <2>1. Cardinality(S) \in Nat /\ Cardinality(S) <= Cardinality(P)
    BY <1>5, SelectedIsBest
  <2>2. Dominates(P, S, o, n) /\ S \in SUBSET Upto(o, n) /\ P \in SUBSET Upto(o, n)
    BY <1>0, <1>1, <1>5
  <2>3. 0 \in Nat /\ 0 <= Cardinality(S)
    BY <2>1
  <2>4. V[P] <= V[S]
    BY <1>1, <1>3, <2>2, <2>3, Exchange
  <2>5. V[P] = Lost(prob, P) /\ V[S] = Lost(prob, S)
    BY <1>0, <1>4, <2>1
  <2>. QED  BY <2>4, <2>5
<1>. QED  BY <1>5

\* For any copies and scores: the hosts that independentPlacement selects can store a shard
\* each, no independent choice of hosts with fresh evidence is larger, and none as large
\* has a lower total score.
THEOREM PlacementIsBestHolds == SlabRiskSpec => []PlacementIsBest
<1>1. RiskInv => PlacementIsBest
  <2>. SUFFICES ASSUME RiskInv, Evaluated
                PROVE  /\ Independent(risk.placed)
                       /\ \A S \in SUBSET Fresh(Candidates) :
                            Independent(S) =>
                              \/ Cardinality(S) < risk.usable
                              \/ /\ Cardinality(S) = risk.usable
                                 /\ Sum(S, Score(Prob)) >= Sum(risk.placed, Score(Prob))
    BY DEF PlacementIsBest
  <2>1. /\ GivenTypeOK /\ risk = Evaluation(Candidates) /\ risk.valid
        /\ Candidates \subseteq Hosts /\ Prob \in [Hosts -> 0..Den]
    BY EvaluatedProb
  <2>. DEFINE P == Placed(Fresh(Candidates), Score(Prob))
  <2>2. risk.placed = P /\ risk.usable = Cardinality(P)
    BY <2>1, EvaluationIsValid DEF Prob
  <2>3. Independent(P) /\ Cardinality(P) \in Nat
    BY <2>1, SelectedFacts
  <2>4. \A S \in SUBSET Fresh(Candidates) : Independent(S) =>
          /\ Cardinality(S) \in Nat /\ Cardinality(S) <= Cardinality(P)
          /\ Cardinality(S) = Cardinality(P) => Sum(S, Score(Prob)) >= Sum(P, Score(Prob))
    BY <2>1, SelectedIsBest
  <2>. HIDE DEF P
  <2>. QED  BY <2>2, <2>3, <2>4
<1>. QED  BY <1>1, RiskInvHolds, PTL

\* Without scenarios the loss is Den times that of the hosts selected.
LEMMA LossWithoutScenarios ==
  ASSUME GivenTypeOK, scenarios = <<>>, NEW prob \in [Hosts -> 0..Den],
         NEW P, P \subseteq Hosts, Cardinality(P) \in 0..NumShards
  PROVE  Loss(prob, P) = Den * Lost(prob, P) /\ Lost(prob, P) \in Int
<1>1. DOMAIN scenarios = {} /\ Den \in Int /\ NumShards \in Nat
  BY ScenarioFacts, SlabRiskAssumption
<1>2. \A f : Sum({}, f) = 0
  <2>. SUFFICES ASSUME NEW f PROVE Sum({}, f) = 0
    OBVIOUS
  <2>1. IsFiniteSet({}) /\ \A x \in {} : f[x] \in Int
    BY FS_EmptySet
  <2>. QED  BY <2>1, SumFacts
<1>3. Cardinality(P) <= NumShards
  BY <1>1
<1>4. Loss(prob, P) = (Den - Sum(DOMAIN scenarios, Chances)) * Lost(prob, P)
                  + Sum(DOMAIN scenarios, [j \in DOMAIN scenarios |->
                                             scenarios[j].prob * Lost(prob, P \ scenarios[j].hosts)])
  BY <1>3, LossFacts
<1>5. Lost(prob, P) \in Int
  <2>1. FewLeft(prob, P, MinShards) \in Nat
    <3>1. MinShards \in Int /\ prob \in [Hosts -> 0..Den]
      BY SlabRiskAssumption
    <3>. QED  BY <3>1, FewLeftFacts
  <2>2. NumShards - Cardinality(P) \in 0..NumShards + 1
    BY <1>1
  <2>3. Power[NumShards - Cardinality(P)] \in Nat
    BY <2>2, PowerFacts
  <2>4. \A a, b \in Nat : a * b \in Int
    OBVIOUS
  <2>. QED  BY <2>1, <2>3, <2>4 DEF Lost
<1>6. \A d, l \in Int : (d - 0) * l + 0 = d * l
  OBVIOUS
<1>7. Loss(prob, P) = (Den - 0) * Lost(prob, P) + 0
  BY <1>1, <1>2, <1>4
<1>. QED  BY <1>1, <1>5, <1>6, <1>7

\* Without scenarios the order of the scores is enough for independentPlacement to be
\* safest: no independent choice of hosts with fresh evidence, of any size, loses the slab
\* with a lower probability than the one that evaluateSlabRisk reports on.
THEOREM SafestPlacement ==
  SlabRiskSpec => [](Evaluated /\ scenarios = <<>> =>
                       \A S \in SUBSET Fresh(Candidates) :
                         Independent(S) => Lost(Prob, risk.placed) <= Lost(Prob, S))
<1>1. RiskInv => (Evaluated /\ scenarios = <<>> =>
                    \A S \in SUBSET Fresh(Candidates) :
                      Independent(S) => Lost(Prob, risk.placed) <= Lost(Prob, S))
  <2>. SUFFICES ASSUME RiskInv, Evaluated, scenarios = <<>>
                PROVE  \A S \in SUBSET Fresh(Candidates) :
                         Independent(S) => Lost(Prob, risk.placed) <= Lost(Prob, S)
    OBVIOUS
  <2>1. /\ GivenTypeOK /\ risk = Evaluation(Candidates) /\ risk.valid
        /\ Candidates \subseteq Hosts /\ Prob \in [Hosts -> 0..Den]
    BY EvaluatedProb
  <2>2. risk.placed = Placed(Fresh(Candidates), Score(Prob))
    BY <2>1, EvaluationIsValid DEF Prob
  <2>. QED  BY <2>1, <2>2, SelectedIsSafest
<1>. QED  BY <1>1, RiskInvHolds, PTL

\* Without scenarios, a copy more on any host that does not lengthen the horizon, which may
\* change the order and the hosts that are moved, makes evaluateSlabRisk count no fewer
\* hosts and no larger loss.
THEOREM CopiesNeverHurtHolds == SlabRiskSpec => []CopiesNeverHurt
<1>1. RiskInv => CopiesNeverHurt
  <2>. SUFFICES ASSUME RiskInv, Evaluated, scenarios = <<>>, NEW h \in Candidates,
                       Evaluation(Candidates \ {h}).valid,
                       Evaluation(Candidates \ {h}).horizon = risk.horizon
                PROVE  /\ Evaluation(Candidates \ {h}).usable <= risk.usable
                       /\ risk.loss <= Evaluation(Candidates \ {h}).loss
    BY DEF CopiesNeverHurt
  <2>1. /\ GivenTypeOK /\ risk = Evaluation(Candidates) /\ risk.valid
        /\ Candidates \subseteq Hosts /\ Prob \in [Hosts -> 0..Den]
    BY EvaluatedProb
  <2>. DEFINE c == Candidates \ {h}
              P == Placed(Fresh(Candidates), Score(Prob))
              S == Placed(Fresh(c), Score(Prob))
  <2>2. risk.usable = Cardinality(P) /\ risk.loss = Loss(Prob, P)
    BY <2>1, EvaluationIsValid DEF Prob
  <2>3. Evaluation(c).usable = Cardinality(S) /\ Evaluation(c).loss = Loss(Prob, S)
    BY EvaluationIsValid DEF Prob
  <2>4. P \subseteq Hosts /\ Cardinality(P) \in 0..NumShards
    BY <2>1, SelectedFacts
  <2>5. /\ S \subseteq Hosts /\ Cardinality(S) \in 0..NumShards
        /\ S \subseteq Fresh(Candidates) /\ Independent(S)
    <3>1. c \subseteq Hosts /\ Fresh(c) \subseteq Fresh(Candidates)
      BY <2>1 DEF Fresh
    <3>. HIDE DEF c
    <3>. QED  BY <2>1, <3>1, SelectedFacts
  <2>. HIDE DEF c, P, S
  <2>6. Cardinality(S) <= Cardinality(P)
    BY <2>1, <2>5, SelectedIsBest DEF P
  <2>7. Lost(Prob, P) <= Lost(Prob, S)
    BY <2>1, <2>5, SelectedIsSafest DEF P
  <2>8. /\ Loss(Prob, P) = Den * Lost(Prob, P) /\ Lost(Prob, P) \in Int
        /\ Loss(Prob, S) = Den * Lost(Prob, S) /\ Lost(Prob, S) \in Int
    BY <2>1, <2>4, <2>5, LossWithoutScenarios
  <2>9. \A d \in Nat : \A a, b \in Int : a <= b => d * a <= d * b
    <3>. SUFFICES ASSUME NEW d \in Nat, NEW a \in Int, NEW b \in Int, a <= b
                  PROVE  d * a <= d * b
      OBVIOUS
    <3>1. b - a \in Nat /\ b = a + (b - a)
      OBVIOUS
    <3>2. \A k \in Nat : d * k \in Nat
      OBVIOUS
    <3>3. d * b = d * a + d * (b - a) /\ d * a \in Int
      OBVIOUS
    <3>. QED  BY <3>1, <3>2, <3>3
  <2>10. Loss(Prob, P) <= Loss(Prob, S)
    BY <2>7, <2>8, <2>9, SlabRiskAssumption
  <2>. QED  BY <2>2, <2>3, <2>6, <2>10 DEF c
<1>. QED  BY <1>1, RiskInvHolds, PTL
=============================================================================
