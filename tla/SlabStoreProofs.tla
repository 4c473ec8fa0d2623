---------------------------- MODULE SlabStoreProofs -----------------------------
(***************************************************************************)
(* Proofs about SlabStore, for any uploads, lengths, keys, parts, buffer   *)
(* sizes and thresholds, wherever the worker runs.  LInv is about the      *)
(* lists of buffers and the appends under way, BInv about the bytes.       *)
(***************************************************************************)
EXTENDS SlabStore, Recursion, TLAPS

-----------------------------------------------------------------------------
(* The lists of buffers and the appends under way. *)

Byte == [src : Uploads, at : Nat]
Content == [Offsets -> Byte \cup {None}]
Slice == {s \in [slab : Buffers, offset : Nat, length : Nat, src : Uploads, from : Nat] :
            s.offset + s.length <= MaxSize}
JobType == [buffer : Buffers \cup {None}, data : Content, marked : BOOLEAN]

Types ==
  /\ pc \in [Uploads -> {"start", "append", "commit", "sync", "add", "packed", "uploading",
                         "done", "failed"}]
  /\ todo \in [Uploads -> Seq(Buffers)] /\ rest \in [Uploads -> 0..MaxSize]
  /\ \A u \in Uploads : rest[u] <= Length[u]
  /\ slices \in [Uploads -> Seq(Slice)]
  /\ committed \in [Uploads -> Nat] /\ syncSize \in [Uploads -> 0..MaxSize]
  /\ incomplete \in Seq(Buffers) /\ complete \in SUBSET Buffers
  /\ size \in [Buffers -> 0..MaxSize] /\ syncFailed \in SUBSET Buffers
  /\ file \in [Buffers -> Content] /\ durable \in [Buffers -> Content]
  /\ row \in [Buffers -> {"none", "buffered", "uploaded", "empty"}]
  /\ sectors \in [Buffers -> Content]
  /\ object \in [Keys -> Seq(Slice)] /\ part \in [Parts -> Seq(Slice)]
  /\ job \in [Jobs -> JobType] /\ loop \in {"off", "run", "wait"}
  /\ restarts \in Nat

\* The upload has not made a buffer, and may do so.
MayCreate(u) == pc[u] = "start" \/ (pc[u] = "append" /\ rest[u] > 0)

\* The buffer is known to nobody.
Unknown(b) ==
  /\ row[b] = "none" /\ size[b] = 0
  /\ b \notin ToSet(incomplete) /\ b \notin complete
  /\ \A u \in Uploads : /\ \A i \in DOMAIN todo[u] : todo[u][i] # b
                        /\ \A i \in DOMAIN slices[u] : slices[u][i].slab # b
  /\ \A s \in Stored : s.slab # b
  /\ \A j \in Jobs : job[j].buffer # b

Fresh == \A u \in Uploads : MayCreate(u) => Unknown(u)

\* A buffer is listed once, and only full ones are complete.
ListedOnce ==
  /\ \A i, j \in DOMAIN incomplete : incomplete[i] = incomplete[j] => i = j
  /\ \A b \in complete : b \notin ToSet(incomplete) /\ isCompleteBuffer(size[b])

End(s) == s.offset + s.length

\* What an upload in AddPartialSlab knows of the buffers.
Appending(u) ==
  /\ pc[u] \in {"start", "append"} => committed[u] = 0
  /\ pc[u] = "start" => slices[u] = <<>> /\ rest[u] = Length[u]
  /\ pc[u] = "append" =>
       \A i \in DOMAIN todo[u] : todo[u][i] \in ToSet(incomplete) \/ isCompleteBuffer(size[todo[u][i]])
  /\ pc[u] \in Ongoing \cup {"add"} => committed[u] <= Len(slices[u])
  /\ pc[u] \in Ongoing =>
       \A i \in DOMAIN slices[u] : End(slices[u][i]) <= size[slices[u][i].slab]
  /\ pc[u] = "sync" => /\ committed[u] < Len(slices[u])
                       /\ End(slices[u][committed[u] + 1]) <= syncSize[u]
                       /\ syncSize[u] <= size[Committing(u)]
  /\ pc[u] = "add" => committed[u] = Len(slices[u])

\* The slice of u that made b full is not committed yet.
Fills(u, b) ==
  /\ pc[u] \in {"append", "commit", "sync", "failed"}
  /\ \E i \in committed[u] + 1..Len(slices[u]) :
       slices[u][i].slab = b /\ isCompleteBuffer(End(slices[u][i]))

Filled ==
  \A b \in Buffers : b \in ToSet(incomplete) /\ isCompleteBuffer(size[b]) =>
    \E u \in Uploads : Fills(u, b)

\* A slice that is stored has a slab.
Rooted == \A s \in Stored : row[s.slab] # "none"

LInv == Types /\ Fresh /\ ListedOnce /\ (\A u \in Uploads : Appending(u)) /\ Filled /\ Rooted

-----------------------------------------------------------------------------
(* The bytes. *)

Promising == {"append", "commit", "sync", "add"}

\* The slices that somebody relies on, and those of them that were committed.
Promised == Stored \cup {s \in Slice : \E u \in Uploads : /\ pc[u] \in Promising
                                                        /\ \E i \in DOMAIN slices[u] : slices[u][i] = s}
Secured == Stored \cup {s \in Slice : \E u \in Uploads : /\ pc[u] \in Promising
                                                       /\ \E i \in DOMAIN slices[u] :
                                                            i <= committed[u] /\ slices[u][i] = s}

Holds(content, s) ==
  \A i \in 0..s.length - 1 : content[s.offset + i] = [src |-> s.src, at |-> s.from + i]

Readable(s) ==
  /\ row[s.slab] = "buffered" => Holds(file[s.slab], s)
  /\ row[s.slab] = "uploaded" => Holds(sectors[s.slab], s)

Listed ==
  /\ \A b \in Buffers : row[b] = "buffered" => b \in ToSet(incomplete) \/ b \in complete
  /\ \A b \in Buffers : b \in ToSet(incomplete) => row[b] = "buffered" \/ b \in spoiled

Copies(data, b) == \A s \in Promised : s.slab = b => Holds(data, s)

\* An upload of a buffer has its bytes, and no others are added meanwhile.
Read(jb) ==
  jb # NoJob =>
    /\ jb.buffer \in Buffers
    /\ row[jb.buffer] = "buffered" =>
         /\ ~jb.marked
         /\ jb.buffer \in spoiled \/ (jb.buffer \in complete /\ Copies(jb.data, jb.buffer))

BInv ==
  /\ Listed
  /\ \A j \in Jobs : Read(job[j])
  /\ \A s \in Promised : row[s.slab] = "buffered" => s.slab \in spoiled \/ End(s) <= size[s.slab]
  /\ \A s \in Promised : s.slab \in spoiled \/ Readable(s)
  /\ \A s \in Secured : row[s.slab] = "buffered" =>
                          s.slab \in spoiled \/ s.slab \in syncFailed \/ Holds(durable[s.slab], s)

-----------------------------------------------------------------------------
(* Facts about the constants and the operators. *)

LEMMA Constants ==
  /\ MaxSize \in Nat /\ MaxSize > 0 /\ Threshold \in Nat /\ Threshold < MaxSize
  /\ \A u \in Uploads : Length[u] \in 1..MaxSize /\ Key[u] \in Keys /\ Part[u] \in Nat
  /\ IsFiniteSet(Uploads) /\ None \notin Uploads
  /\ Offsets = 0..MaxSize - 1 /\ Buffers = Uploads /\ Uploads \subseteq Jobs
BY StoreAssumption DEF Offsets, Buffers, Jobs

LEMMA Full ==
  ASSUME NEW n \in Int, NEW m \in Int, n <= m, isCompleteBuffer(n)
  PROVE  isCompleteBuffer(m)
BY Constants DEF isCompleteBuffer

\* The numbers of the parts have a greatest one.
LEMMA LastPart ==
  LET last == Max({0} \cup Parts) IN last \in Nat /\ \A p \in Parts : p \in 1..last
<1>1. PICK n \in Nat : ExistsBijection(1..n, Uploads)
  BY Constants, FS_NatBijection
<1>2. PICK f \in Bijection(1..n, Uploads) : TRUE
  BY <1>1 DEF ExistsBijection
<1>3. /\ f \in [1..n -> Uploads] /\ \A u \in Uploads : \E k \in 1..n : f[k] = u
  BY <1>2 DEF Bijection, Surjection
<1>. DEFINE P == {m \in Nat : m <= n => \E b \in Nat : \A k \in 1..m : Part[f[k]] <= b}
<1>4. 0 \in P
  BY <1>1
<1>5. ASSUME NEW m \in Nat, m \in P PROVE m + 1 \in P
  <2>. SUFFICES ASSUME m + 1 <= n PROVE \E b \in Nat : \A k \in 1..m + 1 : Part[f[k]] <= b
    OBVIOUS
  <2>1. PICK b \in Nat : \A k \in 1..m : Part[f[k]] <= b
    BY <1>5
  <2>2. f[m + 1] \in Uploads /\ Part[f[m + 1]] \in Nat
    BY <1>3, Constants
  <2>3. b + Part[f[m + 1]] \in Nat
    BY <2>2
  <2>4. ASSUME NEW k \in 1..m + 1 PROVE Part[f[k]] <= b + Part[f[m + 1]]
    <3>1. CASE k = m + 1
      BY <2>2, <3>1
    <3>2. CASE k # m + 1
      <4>1. k \in 1..m /\ f[k] \in Uploads /\ Part[f[k]] \in Nat
        BY <1>3, <3>2, Constants
      <4>. QED  BY <2>1, <2>2, <4>1
    <3>. QED  BY <3>1, <3>2
  <2>. QED  BY <2>3, <2>4
<1>6. n \in P
  <2>. HIDE DEF P
  <2>. QED  BY <1>4, <1>5, Induction
<1>7. PICK b \in Nat : \A k \in 1..n : Part[f[k]] <= b
  BY <1>6
<1>8. {0} \cup Parts \subseteq 0..b
  <2>. SUFFICES ASSUME NEW u \in Uploads PROVE Part[u] \in 0..b
    BY DEF Parts
  <2>. QED  BY <1>3, <1>7, Constants
<1>9. Max({0} \cup Parts) \in {0} \cup Parts /\ \A t \in {0} \cup Parts : t <= Max({0} \cup Parts)
  <2>1. {0} \cup Parts # {}
    OBVIOUS
  <2>. QED  BY <1>8, <2>1, GreatestUpTo
<1>10. \A p \in Parts : p \in Nat \ {0}
  BY Constants DEF Parts
<1>. HIDE DEF P
<1>11. ASSUME NEW last, last = Max({0} \cup Parts)
       PROVE  last \in Nat /\ \A p \in Parts : p \in 1..last
  <2>1. last \in 0..b /\ \A p \in Parts : p <= last
    BY <1>8, <1>9, <1>11
  <2>. QED  BY <1>10, <2>1
<1>. QED  BY <1>11

\* The completed object has the slices of the parts.
LEMMA AllPartsFacts ==
  ASSUME NEW S, part \in [Parts -> Seq(S)]
  PROVE  /\ AllParts \in Seq(S)
         /\ \A i \in DOMAIN AllParts :
              \E p \in Parts : \E k \in DOMAIN part[p] : AllParts[i] = part[p][k]
<1>. DEFINE last == Max({0} \cup Parts)
            D == {q \in Seq(S) : \A i \in DOMAIN q :
                                   \E p \in Parts : \E k \in DOMAIN part[p] : q[i] = part[p][k]}
            of(p) == IF p \in Parts THEN part[p] ELSE <<>>
            step == [p \in 1..last |-> [d \in D |-> d \o of(p)]]
<1>0. last \in Nat
  BY LastPart
<1>. HIDE DEF last
<1>1. <<>> \in D
  OBVIOUS
<1>2. ASSUME NEW p \in 1..last, NEW d \in D PROVE d \o of(p) \in D
  <2>1. of(p) \in D
    BY <1>1
  <2>. HIDE DEF of
  <2>2. d \in Seq(S) /\ of(p) \in Seq(S) /\ d \o of(p) \in Seq(S)
    BY <2>1
  <2>3. ASSUME NEW i \in DOMAIN (d \o of(p))
        PROVE  \E r \in Parts : \E k \in DOMAIN part[r] : (d \o of(p))[i] = part[r][k]
    <3>1. i \in 1..Len(d) + Len(of(p)) /\ Len(d) \in Nat /\ Len(of(p)) \in Nat
      BY <2>2
    <3>2. CASE i <= Len(d)
      <4>1. i \in DOMAIN d /\ (d \o of(p))[i] = d[i]
        BY <2>2, <3>1, <3>2
      <4>. QED  BY <4>1
    <3>3. CASE i > Len(d)
      <4>1. i - Len(d) \in DOMAIN of(p) /\ (d \o of(p))[i] = of(p)[i - Len(d)]
        BY <2>2, <3>1, <3>3
      <4>. QED  BY <2>1, <4>1
    <3>. QED  BY <3>1, <3>2, <3>3
  <2>. QED  BY <2>2, <2>3
<1>3. \A p \in 1..last : \A d \in D : step[p][d] \in D
  BY <1>2
<1>. HIDE DEF step, D, of
<1>4. PICK f : Iterates(f, last, D, <<>>, step)
  BY <1>0, <1>1, <1>3, RecursiveFunctions
<1>5. /\ f \in [0..last -> D] /\ f[0] = <<>>
      /\ \A p \in 1..last : f[p] = f[p - 1] \o of(p)
  <2>1. f \in [0..last -> D] /\ f[0] = <<>> /\ \A p \in 1..last : f[p] = step[p][f[p - 1]]
    BY <1>4 DEF Iterates
  <2>2. ASSUME NEW p \in 1..last PROVE f[p] = f[p - 1] \o of(p)
    <3>1. p - 1 \in 0..last
      BY <1>0
    <3>2. f[p - 1] \in D
      BY <2>1, <3>1
    <3>. QED  BY <2>1, <3>2 DEF step
  <2>. QED  BY <2>1, <2>2
<1>. DEFINE g == CHOOSE s : s = [p \in 0..last |-> IF p = 0 THEN <<>>
                                 ELSE s[p - 1] \o (IF p \in Parts THEN part[p] ELSE <<>>)]
<1>6. AllParts = g[last]
  BY DEF AllParts, last
<1>7. f = [p \in 0..last |-> IF p = 0 THEN <<>>
                             ELSE f[p - 1] \o (IF p \in Parts THEN part[p] ELSE <<>>)]
  <2>1. ASSUME NEW p \in 0..last
        PROVE  f[p] = IF p = 0 THEN <<>> ELSE f[p - 1] \o (IF p \in Parts THEN part[p] ELSE <<>>)
    <3>1. CASE p = 0
      BY <1>5, <3>1
    <3>2. CASE p # 0
      <4>1. p \in 1..last
        BY <1>0, <3>2
      <4>. QED  BY <1>5, <3>2, <4>1 DEF of
    <3>. QED  BY <3>1, <3>2
  <2>. QED  BY <1>5, <2>1
<1>8. g = [p \in 0..last |-> IF p = 0 THEN <<>>
                             ELSE g[p - 1] \o (IF p \in Parts THEN part[p] ELSE <<>>)]
  BY <1>7
<1>. HIDE DEF g
<1>. DEFINE P == {p \in Nat : p <= last => g[p] = f[p]}
<1>9. 0 \in P
  <2>1. 0 \in 0..last
    BY <1>0
  <2>. QED  BY <1>5, <1>8, <2>1
<1>10. ASSUME NEW p \in Nat, p \in P PROVE p + 1 \in P
  <2>. SUFFICES ASSUME p + 1 <= last PROVE g[p + 1] = f[p + 1]
    OBVIOUS
  <2>1. p + 1 \in 0..last /\ p + 1 # 0 /\ (p + 1) - 1 = p /\ p <= last
    BY <1>0
  <2>2. g[p + 1] = g[p] \o (IF p + 1 \in Parts THEN part[p + 1] ELSE <<>>)
    BY <1>8, <2>1
  <2>3. f[p + 1] = f[p] \o (IF p + 1 \in Parts THEN part[p + 1] ELSE <<>>)
    BY <1>7, <2>1
  <2>. QED  BY <1>10, <2>1, <2>2, <2>3
<1>11. g[last] = f[last]
  <2>. HIDE DEF P
  <2>1. last \in P
    BY <1>0, <1>9, <1>10, Induction
  <2>. QED  BY <1>0, <2>1 DEF P
<1>12. f[last] \in D
  BY <1>0, <1>5
<1>. QED  BY <1>6, <1>11, <1>12 DEF D

\* A set as a list.
LEMMA Listing ==
  ASSUME NEW S, IsFiniteSet(S)
  PROVE  LET q == SetToSeq(S) IN
         /\ q \in Seq(S) /\ ToSet(q) = S
         /\ \A i, j \in DOMAIN q : q[i] = q[j] => i = j
<1>. DEFINE n == Cardinality(S)
            q == SetToSeq(S)
<1>1. n \in Nat /\ ExistsBijection(1..n, S)
  BY FS_CardinalityType
<1>2. PICK f \in Bijection(1..n, S) : TRUE
  BY <1>1 DEF ExistsBijection
<1>3. f \in [1..n -> S] /\ IsInjective(f)
  BY <1>2 DEF Bijection, Injection, IsInjective
<1>4. q \in [1..n -> S] /\ IsInjective(q)
  BY <1>3 DEF SetToSeq
<1>5. \A i, j \in 1..n : q[i] = q[j] => i = j
  BY <1>4 DEF IsInjective
<1>6. q \in Injection(1..n, S)
  <2>. HIDE DEF q
  <2>. QED  BY <1>4 DEF Injection
<1>7. IsFiniteSet(1..n) /\ Cardinality(1..n) = n
  <2>1. Cardinality(1..n) = IF 1 > n THEN 0 ELSE n - 1 + 1
    BY <1>1, FS_Interval
  <2>. QED  BY <1>1, <2>1, FS_Interval
<1>8. q \in Surjection(1..n, S)
  <2>. HIDE DEF q
  <2>. QED  BY <1>6, <1>7, FS_Injection
<1>9. \A x \in S : \E i \in 1..n : q[i] = x
  BY <1>8 DEF Surjection
<1>10. q \in Seq(S) /\ DOMAIN q = 1..n
  <2>. HIDE DEF q
  <2>. QED  BY <1>1, <1>4
<1>11. q \in [1..n -> S]
  BY <1>4
<1>. HIDE DEF q, n
<1>12. ToSet(q) = S
  BY <1>9, <1>10, <1>11 DEF ToSet
<1>13. q \in Seq(S) /\ ToSet(q) = S /\ \A i, j \in DOMAIN q : q[i] = q[j] => i = j
  BY <1>5, <1>10, <1>12
<1>. QED  BY <1>13 DEF q

\* The first place of an element in a list.
LEMMA Taken ==
  ASSUME NEW S, NEW q \in Seq(S), NEW e \in ToSet(q),
         \A i, j \in DOMAIN q : q[i] = q[j] => i = j
  PROVE  LET r == RemoveFirst(q, e) IN
         /\ r \in Seq(S) /\ ToSet(r) = ToSet(q) \ {e}
         /\ \A i, j \in DOMAIN r : r[i] = r[j] => i = j
<1>1. PICK k \in 1..Len(q) : q[k] = e
  BY DEF ToSet
<1>. DEFINE I == {i \in 1..Len(q) : q[i] = e}
<1>2. I = {k}
  BY <1>1
<1>3. SelectInSeq(q, LAMBDA v : v = e) = k
  <2>1. Min({k}) = k
    BY <1>1 DEF Min
  <2>. QED  BY <1>2, <2>1 DEF SelectInSeq
<1>4. RemoveFirst(q, e) = RemoveAt(q, k)
  BY <1>1, <1>3 DEF RemoveFirst
<1>. DEFINE a == SubSeq(q, 1, k - 1)
            b == SubSeq(q, k + 1, Len(q))
            r == a \o b
<1>5. RemoveAt(q, k) = r
  BY DEF RemoveAt
<1>6. /\ a \in Seq(S) /\ Len(a) = k - 1 /\ \A i \in 1..k - 1 : a[i] = q[i]
      /\ b \in Seq(S) /\ Len(b) = Len(q) - k /\ \A i \in 1..Len(q) - k : b[i] = q[k + i]
  BY <1>1
<1>. HIDE DEF a, b
<1>7. /\ r \in Seq(S) /\ Len(r) = Len(q) - 1
      /\ \A i \in 1..Len(r) : r[i] = IF i < k THEN q[i] ELSE q[i + 1]
  <2>1. k \in Int /\ Len(q) \in Nat /\ 1 <= k /\ k <= Len(q)
    BY <1>1
  <2>2. r \in Seq(S) /\ Len(r) = Len(a) + Len(b)
    <3>1. a \in Seq(S) /\ b \in Seq(S)
      BY <1>6
    <3>. QED  BY <3>1
  <2>3. Len(r) = Len(q) - 1
    BY <1>6, <2>1, <2>2
  <2>4. ASSUME NEW i \in 1..Len(r) PROVE r[i] = IF i < k THEN q[i] ELSE q[i + 1]
    <3>1. CASE i < k
      <4>1. i \in 1..Len(a) /\ i \in 1..k - 1
        BY <1>6, <2>1, <3>1
      <4>2. r[i] = a[i]
        BY <1>6, <4>1
      <4>. QED  BY <1>6, <3>1, <4>1, <4>2
    <3>2. CASE ~(i < k)
      <4>1. /\ i - Len(a) \in 1..Len(q) - k /\ k + (i - Len(a)) = i + 1
            /\ i > Len(a) /\ i <= Len(a) + Len(b)
        BY <1>6, <2>1, <2>3, <3>2
      <4>2. r[i] = b[i - Len(a)]
        BY <1>6, <4>1, SMTT(30)
      <4>3. b[i - Len(a)] = q[k + (i - Len(a))]
        BY <1>6, <4>1
      <4>. QED  BY <3>2, <4>1, <4>2, <4>3
    <3>. QED  BY <3>1, <3>2
  <2>. QED  BY <2>2, <2>3, <2>4
<1>. HIDE DEF r
<1>8. \A i, j \in DOMAIN r : r[i] = r[j] => i = j
  <2>. SUFFICES ASSUME NEW i \in 1..Len(r), NEW j \in 1..Len(r), r[i] = r[j] PROVE i = j
    BY <1>7, SMTT(30)
  <2>1. /\ i \in 1..Len(q) /\ i + 1 \in 1..Len(q) /\ j \in 1..Len(q) /\ j + 1 \in 1..Len(q)
        /\ i \in Int /\ j \in Int /\ k \in Int
    BY <1>1, <1>7
  <2>2. \A x, y \in 1..Len(q) : q[x] = q[y] => x = y
    OBVIOUS
  <2>3. r[i] = q[IF i < k THEN i ELSE i + 1] /\ r[j] = q[IF j < k THEN j ELSE j + 1]
    BY <1>7
  <2>4. (IF i < k THEN i ELSE i + 1) = (IF j < k THEN j ELSE j + 1)
    BY <2>1, <2>2, <2>3
  <2>. QED  BY <2>1, <2>4
<1>9. ToSet(r) = ToSet(q) \ {e}
  <2>1. ASSUME NEW i \in 1..Len(r) PROVE r[i] \in ToSet(q) \ {e}
    <3>1. i \in 1..Len(q) /\ i + 1 \in 1..Len(q) /\ (i < k => i # k) /\ (~(i < k) => i + 1 # k)
      BY <1>1, <1>7
    <3>. QED  BY <1>1, <1>7, <3>1 DEF ToSet
  <2>2. ASSUME NEW j \in 1..Len(q), q[j] # e PROVE \E i \in 1..Len(r) : r[i] = q[j]
    <3>1. CASE j < k
      <4>1. j \in 1..Len(r)
        BY <1>1, <1>7, <3>1
      <4>. QED  BY <1>7, <3>1, <4>1
    <3>2. CASE j > k
      <4>1. j - 1 \in 1..Len(r) /\ ~(j - 1 < k) /\ (j - 1) + 1 = j
        BY <1>1, <1>7, <3>2
      <4>. QED  BY <1>7, <4>1
    <3>3. j # k
      BY <1>1, <2>2
    <3>. QED  BY <1>1, <3>1, <3>2, <3>3
  <2>3. ToSet(q) = {q[j] : j \in 1..Len(q)} /\ ToSet(r) = {r[i] : i \in 1..Len(r)}
    BY <1>7, SMTT(30) DEF ToSet
  <2>4. ASSUME NEW x \in ToSet(q), x # e PROVE x \in ToSet(r)
    <3>1. PICK j \in 1..Len(q) : x = q[j]
      BY <2>3
    <3>. QED  BY <2>2, <2>3, <2>4, <3>1
  <2>5. ASSUME NEW x \in ToSet(r) PROVE x \in ToSet(q) \ {e}
    BY <2>1, <2>3
  <2>. QED  BY <2>4, <2>5
<1>. QED  BY <1>4, <1>5, <1>7, <1>8, <1>9

-----------------------------------------------------------------------------
(* Most steps leave the lists, the sizes and the slices of the uploads. *)

StoredIs(s) ==
  \/ \E k \in Keys : \E i \in DOMAIN object[k] : s = object[k][i]
  \/ \E p \in Parts : \E i \in DOMAIN part[p] : s = part[p][i]

LEMMA StoredSlices ==
  /\ \A s : s \in Stored <=> StoredIs(s)
  /\ \A s : s \in Stored' <=> StoredIs(s)'
<1>1. ASSUME NEW f, NEW s PROVE s \in ToSet(f) <=> \E i \in DOMAIN f : s = f[i]
  BY DEF ToSet
<1>2. ASSUME NEW s PROVE s \in Stored <=> StoredIs(s)
  <2>1. s \in Stored <=> \/ \E k \in Keys : s \in ToSet(object[k])
                        \/ \E p \in Parts : s \in ToSet(part[p])
    BY DEF Stored
  <2>. QED  BY <1>1, <2>1 DEF StoredIs
<1>3. ASSUME NEW s PROVE s \in Stored' <=> StoredIs(s)'
  <2>1. s \in Stored' <=> \/ \E k \in Keys : s \in ToSet(object'[k])
                        \/ \E p \in Parts : s \in ToSet(part'[p])
    BY DEF Stored
  <2>. QED  BY <1>1, <2>1 DEF StoredIs
<1>. QED  BY <1>2, <1>3

LEMMA StoredBefore ==
  ASSUME \A k \in Keys : \A i \in DOMAIN object'[k] : StoredIs(object'[k][i]),
         \A p \in Parts : \A i \in DOMAIN part'[p] : StoredIs(part'[p][i])
  PROVE  \A s \in Stored' : s \in Stored
<1>. SUFFICES ASSUME NEW s, StoredIs(s)' PROVE StoredIs(s)
  BY StoredSlices
<1>. QED  BY DEF StoredIs

LEMMA StoredTypes ==
  ASSUME Types PROVE Stored \subseteq Slice
<1>. SUFFICES ASSUME NEW s \in Stored PROVE s \in Slice
  OBVIOUS
<1>1. CASE \E k \in Keys : \E i \in DOMAIN object[k] : s = object[k][i]
  BY <1>1 DEF Types
<1>2. CASE \E p \in Parts : \E i \in DOMAIN part[p] : s = part[p][i]
  BY <1>2 DEF Types
<1>. QED  BY <1>1, <1>2, StoredSlices DEF StoredIs

SliceOf(s, u) == \E i \in DOMAIN slices[u] : slices[u][i] = s

\* How an upload moves on while nothing is appended or synced.
Moves(u) ==
  \/ pc'[u] = pc[u] /\ syncSize'[u] = syncSize[u]
  \/ pc[u] = "append" /\ rest[u] = 0 /\ pc'[u] = "commit"
  \/ pc[u] \in {"append", "commit"} /\ pc'[u] = "failed"
  \/ /\ pc[u] = "commit" /\ committed[u] < Len(slices[u])
     /\ pc'[u] = "sync" /\ syncSize'[u] = size[Committing(u)]
  \/ pc[u] = "commit" /\ committed[u] = Len(slices[u]) /\ pc'[u] = "add"
  \/ pc[u] \in {"add", "packed", "uploading"} /\ pc'[u] \in {"packed", "uploading", "done", "failed"}

Reading(b) == [buffer |-> b, marked |-> FALSE,
               data |-> [i \in Offsets |-> IF i < size[b] THEN file[b][i] ELSE None]]

Quiet ==
  /\ todo' = todo /\ rest' = rest /\ slices' = slices /\ committed' = committed
  /\ incomplete' = incomplete /\ size' = size /\ complete' \subseteq complete
  /\ \A u \in Uploads : Moves(u)
  /\ \A b \in Buffers : row[b] = "none" =>
       row'[b] = "none" \/ \E u \in Uploads : \E i \in DOMAIN slices[u] : slices[u][i].slab = b
  /\ \A s \in Stored' : s \in Stored \/ \E u \in Uploads : SliceOf(s, u)
  /\ \A j \in Jobs : job'[j].buffer \in {None, job[j].buffer} \cup complete
  /\ Rooted'

\* And most of those leave the bytes, too.
Calm ==
  /\ Quiet
  /\ file' = file /\ durable' = durable /\ sectors' = sectors /\ complete' = complete
  /\ syncFailed' = syncFailed /\ spoiled' = spoiled
  /\ \A b \in Buffers : row'[b] = row[b] \/ (row[b] # "buffered" /\ row'[b] \in {"none", "empty"})
  /\ \A s \in Stored' : s \in Stored \/ \E u \in Uploads : pc[u] = "add" /\ SliceOf(s, u)
  /\ \A j \in Jobs : job'[j] \in {NoJob, job[j]} \cup {Reading(b) : b \in complete}

\* An upload moves on and touches nothing else.
LEMMA MovesCalmly ==
  ASSUME LInv, NEW u \in Uploads,
         AppendsDone(u) \/ CommitStarts(u) \/ Replies(u) \/ CreateFails(u) \/ AddFails(u)
  PROVE  Types' /\ Calm
<1>1. /\ todo' = todo /\ rest' = rest /\ slices' = slices /\ committed' = committed
      /\ listVars' = listVars /\ size' = size /\ fileVars' = fileVars /\ objectVars' = objectVars
      /\ slabVars' = slabVars /\ workerVars' = workerVars /\ syncFailed' = syncFailed
      /\ restarts' = restarts /\ spoiled' = spoiled
  BY DEF AppendsDone, CommitStarts, Replies, CreateFails, AddFails, bufferVars, boundVars, syncVars, uploadVars
<1>2. \A v \in Uploads : Moves(v)
  BY DEF LInv, Types, Appending, AppendsDone, CommitStarts, Replies, CreateFails, AddFails, Fails,
         Moves, Ongoing
<1>3. Types'
  <2>1. Len(slices[u]) \in Nat /\ committed[u] \in Nat
    BY DEF LInv, Types
  <2>2. ASSUME pc[u] = "commit" /\ committed[u] < Len(slices[u]) PROVE Committing(u) \in Buffers
    <3>1. committed[u] + 1 \in 1..Len(slices[u]) /\ slices[u] \in Seq(Slice)
      BY <2>1, <2>2 DEF LInv, Types
    <3>2. slices[u][committed[u] + 1] \in Slice
      BY <3>1
    <3>. QED  BY <3>2 DEF Slice, Committing
  <2>3. pc' \in [Uploads -> {"start", "append", "commit", "sync", "add", "packed", "uploading",
                         "done", "failed"}] /\ syncSize' \in [Uploads -> 0..MaxSize]
    BY <2>2, ZenonT(40) DEF LInv, Types, AppendsDone, CommitStarts, Replies, CreateFails, AddFails, Fails
  <2>. QED  BY <1>1, <2>3 DEF LInv, Types, listVars, fileVars, objectVars, slabVars, workerVars
<1>4. Stored' = Stored
  BY <1>1 DEF Stored, objectVars
<1>. QED  BY <1>1, <1>2, <1>3, <1>4 DEF LInv, Calm, Quiet, Rooted, listVars, fileVars, slabVars, workerVars

LEMMA AddsCalmly ==
  ASSUME LInv, NEW u \in Uploads, AddObject(u) \/ AddMultipartPart(u)
  PROVE  Types' /\ Calm
<1>1. /\ todo' = todo /\ rest' = rest /\ slices' = slices /\ committed' = committed
      /\ syncSize' = syncSize /\ listVars' = listVars /\ size' = size /\ fileVars' = fileVars
      /\ sectors' = sectors /\ workerVars' = workerVars /\ syncFailed' = syncFailed
      /\ restarts' = restarts /\ spoiled' = spoiled
  BY DEF AddObject, AddMultipartPart, bufferVars, boundVars, syncVars, uploadVars
<1>2. pc[u] = "add" /\ \A v \in Uploads : Moves(v)
  BY DEF LInv, Types, AddObject, AddMultipartPart, Fails, Moves
<1>3. \A b \in Buffers : /\ row'[b] = row[b] \/ (row[b] = "none" /\ row'[b] = "empty")
                         /\ row[b] = "none" /\ row'[b] = "empty" =>
                              \E i \in DOMAIN slices[u] : slices[u][i].slab = b
  BY DEF AddObject, AddMultipartPart, InsertSlabs
<1>4. row' \in [Buffers -> {"none", "buffered", "uploaded", "empty"}]
  BY ZenonT(40) DEF LInv, Types, AddObject, AddMultipartPart, InsertSlabs
<1>5. \A s \in Stored' : s \in Stored \/ (SliceOf(s, u) /\ row'[s.slab] # "none")
  <2>. SUFFICES ASSUME NEW s \in Stored', s \notin Stored
                PROVE  SliceOf(s, u) /\ row'[s.slab] # "none"
    OBVIOUS
  <2>1. StoredIs(s)' /\ ~StoredIs(s)
    BY StoredSlices
  <2>2. \/ InsertSlabs(slices[u]) /\ object' = [object EXCEPT ![Key[u]] = slices[u]] /\ part' = part
        \/ InsertSlabs(slices[u]) /\ object' = object /\ part' = [part EXCEPT ![Part[u]] = slices[u]]
        \/ object' = object /\ part' = part
    BY DEF AddObject, AddMultipartPart
  <2>3. SliceOf(s, u) /\ InsertSlabs(slices[u])
    BY <2>1, <2>2 DEF StoredIs, SliceOf, LInv, Types
  <2>4. PICK i \in DOMAIN slices[u] : slices[u][i] = s
    BY <2>3 DEF SliceOf
  <2>5. s \in Slice
    BY <2>4 DEF LInv, Types
  <2>. QED  BY <2>3, <2>4, <2>5 DEF InsertSlabs, Slice
<1>6. Rooted'
  BY <1>3, <1>5, StoredTypes DEF LInv, Rooted, Slice
<1>7. Types'
  <2>1. object' \in [Keys -> Seq(Slice)] /\ part' \in [Parts -> Seq(Slice)]
    <3>1. Key[u] \in Keys /\ (Part[u] # 0 => Part[u] \in Parts) /\ slices[u] \in Seq(Slice)
      BY Constants DEF LInv, Types, Parts
    <3>2. CASE AddObject(u)
      BY <3>1, <3>2 DEF LInv, Types, AddObject
    <3>3. CASE AddMultipartPart(u)
      BY <3>1, <3>3 DEF LInv, Types, AddMultipartPart
    <3>. QED  BY <3>2, <3>3
  <2>2. pc' \in [Uploads -> {"start", "append", "commit", "sync", "add", "packed", "uploading",
                         "done", "failed"}]
    BY DEF LInv, Types, AddObject, AddMultipartPart, Fails
  <2>. QED  BY <1>1, <1>4, <2>1, <2>2 DEF LInv, Types, listVars, fileVars, workerVars
<1>. QED  BY <1>1, <1>2, <1>3, <1>5, <1>6, <1>7 DEF Calm, Quiet, listVars, fileVars, workerVars, SliceOf

LEMMA OperatesCalmly ==
  ASSUME LInv, Operations
  PROVE  Types' /\ Calm
<1>1. ObjectOnly
  BY DEF Operations, CopyObject, RenameObject, RemoveObject, CompleteMultipartUpload,
         AbortMultipartUpload
<1>. DEFINE Kept == /\ object' \in [Keys -> Seq(Slice)] /\ part' \in [Parts -> Seq(Slice)]
                    /\ \A k \in Keys : \A i \in DOMAIN object'[k] : StoredIs(object'[k][i])
                    /\ \A p \in Parts : \A i \in DOMAIN part'[p] : StoredIs(part'[p][i])
<1>2. Kept
  <2>0. object \in [Keys -> Seq(Slice)] /\ part \in [Parts -> Seq(Slice)] /\ <<>> \in Seq(Slice)
    BY DEF LInv, Types
  <2>1. ASSUME NEW k \in Keys, NEW l \in Keys, CopyObject(k, l) PROVE Kept
    <3>1. part' = part /\ object' = [object EXCEPT ![l] = object[k]]
      BY <2>1 DEF CopyObject
    <3>. QED  BY <2>0, <3>1 DEF StoredIs
  <2>2. ASSUME NEW k \in Keys, NEW l \in Keys, NEW force \in BOOLEAN, RenameObject(k, l, force)
        PROVE  Kept
    <3>1. part' = part /\ object' = [object EXCEPT ![l] = object[k], ![k] = <<>>]
      BY <2>2 DEF RenameObject
    <3>2. object' \in [Keys -> Seq(Slice)]
      BY <2>0, <3>1
    <3>3. \A m \in Keys : object'[m] = IF m = k THEN <<>> ELSE IF m = l THEN object[k] ELSE object[m]
      BY <2>0, <3>1
    <3>. QED  BY <2>0, <3>1, <3>2, <3>3 DEF StoredIs
  <2>3. ASSUME NEW k \in Keys, RemoveObject(k) PROVE Kept
    <3>1. part' = part /\ object' = [object EXCEPT ![k] = <<>>]
      BY <2>3 DEF RemoveObject
    <3>. QED  BY <2>0, <3>1 DEF StoredIs
  <2>4. ASSUME NEW k \in Keys, CompleteMultipartUpload(k) PROVE Kept
    <3>1. AllParts \in Seq(Slice) /\ \A i \in DOMAIN AllParts : StoredIs(AllParts[i])
      BY <2>0, AllPartsFacts DEF StoredIs
    <3>2. part' = [p \in Parts |-> <<>>] /\ object' = [object EXCEPT ![k] = AllParts]
      BY <2>4 DEF CompleteMultipartUpload
    <3>3. part' \in [Parts -> Seq(Slice)]
      BY <2>0, <3>2
    <3>4. \A m \in Keys : \A i \in DOMAIN object[m] : StoredIs(object[m][i])
      BY DEF StoredIs
    <3>. HIDE DEF StoredIs
    <3>. QED  BY <2>0, <3>1, <3>2, <3>3, <3>4
  <2>5. CASE AbortMultipartUpload
    <3>1. part' = [p \in Parts |-> <<>>] /\ object' = object
      BY <2>5 DEF AbortMultipartUpload
    <3>2. part' \in [Parts -> Seq(Slice)]
      BY <2>0, <3>1
    <3>. QED  BY <2>0, <3>1, <3>2 DEF StoredIs
  <2>. HIDE DEF Kept
  <2>. QED  BY <2>1, <2>2, <2>3, <2>4, <2>5 DEF Operations
<1>4. \A s \in Stored' : s \in Stored
  BY <1>2, StoredBefore
<1>3. Types'
  <2>1. /\ pc' = pc /\ todo' = todo /\ rest' = rest /\ slices' = slices /\ committed' = committed
        /\ syncSize' = syncSize /\ incomplete' = incomplete /\ complete' = complete
        /\ size' = size /\ syncFailed' = syncFailed /\ file' = file /\ durable' = durable
        /\ row' = row /\ sectors' = sectors /\ job' = job /\ loop' = loop /\ restarts' = restarts
        /\ spoiled' = spoiled
    BY <1>1 DEF ObjectOnly, uploadVars, listVars, bufferVars, fileVars, slabVars, workerVars,
                syncVars
  <2>. HIDE DEF Kept
  <2>2. object' \in [Keys -> Seq(Slice)] /\ part' \in [Parts -> Seq(Slice)]
    BY <1>2 DEF Kept
  <2>. QED  BY <2>1, <2>2 DEF LInv, Types
<1>. QED  BY <1>1, <1>3, <1>4 DEF Calm, Quiet, Moves, LInv, Rooted, ObjectOnly, uploadVars, listVars,
             bufferVars, fileVars, slabVars, workerVars, syncVars

LEMMA PrunesCalmly ==
  ASSUME LInv, PruneSlabs
  PROVE  Types' /\ Calm
<1>1. Stored' = Stored
  BY DEF PruneSlabs, Stored
<1>2. row' \in [Buffers -> {"none", "buffered", "uploaded", "empty"}]
  BY DEF LInv, Types, PruneSlabs
<1>3. \A b \in Buffers : row'[b] = row[b] \/ (row[b] # "buffered" /\ row'[b] = "none" /\ b \notin Referenced)
  BY DEF PruneSlabs
<1>4. Rooted'
  BY <1>1, <1>3, StoredTypes DEF LInv, Rooted, Referenced, Slice
<1>5. Types'
  BY <1>2 DEF PruneSlabs, LInv, Types, uploadVars, listVars, bufferVars, fileVars, workerVars, boundVars, syncVars
<1>. QED  BY <1>1, <1>3, <1>4, <1>5 DEF Calm, Quiet, Moves, PruneSlabs, uploadVars, listVars,
             bufferVars, fileVars, workerVars, boundVars, syncVars

LEMMA ReadingType ==
  ASSUME Types, NEW b \in Buffers
  PROVE  Reading(b) \in JobType
BY DEF Types, Reading, JobType, Content

LEMMA BlankType == Blank \in Content /\ NoJob \in JobType
BY DEF Blank, NoJob, Content, JobType

\* The worker's steps but for the report and the removal of a buffer.
LEMMA WorksCalmly ==
  ASSUME LInv,
         \/ \E u \in Uploads : UploadsOne(u) \/ UploadsOneFails(u) \/ StartsLoop(u)
         \/ Loop \/ LoopFetchFails
         \/ \E j \in Jobs : UploadFails(j)
         \/ \E b \in Buffers : LockExpires(b)
  PROVE  Types' /\ Calm
<1>1. /\ todo' = todo /\ rest' = rest /\ slices' = slices /\ committed' = committed
      /\ syncSize' = syncSize /\ listVars' = listVars /\ size' = size /\ fileVars' = fileVars
      /\ objectVars' = objectVars /\ slabVars' = slabVars /\ syncFailed' = syncFailed
      /\ restarts' = restarts /\ spoiled' = spoiled
  BY DEF UploadsOne, UploadsOneFails, ReadFails, StartsLoop, Loop, LoopFetches, LoopFetchFails,
         LoopEnds, UploadFails, LockExpires, TakeBuffer,
         bufferVars, boundVars, syncVars, uploadVars
<1>2. /\ pc' \in [Uploads -> {"start", "append", "commit", "sync", "add", "packed", "uploading",
                              "done", "failed"}]
      /\ \A v \in Uploads : \/ pc'[v] = pc[v]
                            \/ /\ pc[v] \in {"packed", "uploading"}
                               /\ pc'[v] \in {"uploading", "done"}
  BY DEF LInv, Types, UploadsOne, UploadsOneFails, StartsLoop, Loop, LoopFetches, LoopFetchFails,
         LoopEnds, UploadFails, LockExpires, uploadVars
<1>3. \/ job' = job
      \/ \E j \in Jobs : job' = [job EXCEPT ![j] = NoJob]
      \/ \E j \in Jobs : \E b \in complete : job' = [job EXCEPT ![j] = Reading(b)]
  <2>1. CASE \E u \in Uploads : UploadsOne(u)
    <3>1. PICK u \in Uploads, b \in Free : TakeBuffer(u, b)
      BY <2>1 DEF UploadsOne
    <3>2. u \in Jobs /\ b \in complete
      BY Constants DEF Free
    <3>3. job' = [job EXCEPT ![u] = Reading(b)]
      BY <3>1 DEF TakeBuffer, Reading
    <3>. QED  BY <3>2, <3>3
  <2>2. CASE \E u \in Uploads : StartsLoop(u)
    BY <2>2 DEF StartsLoop
  <2>3. CASE LoopFetches
    BY <2>3 DEF LoopFetches, TakeBuffer, Reading, Free, Jobs
  <2>4. CASE LoopEnds
    BY <2>4 DEF LoopEnds
  <2>5. CASE \E j \in Jobs : UploadFails(j)
    BY <2>5 DEF UploadFails, JobFails
  <2>6. CASE \E b \in Buffers : LockExpires(b)
    BY <2>6 DEF LockExpires, workerVars
  <2>7. CASE (\E u \in Uploads : UploadsOneFails(u)) \/ LoopFetchFails
    BY <2>7 DEF UploadsOneFails, LoopFetchFails, workerVars
  <2>. QED  BY <2>1, <2>2, <2>3, <2>4, <2>5, <2>6, <2>7 DEF Loop
<1>4. loop' \in {"off", "run", "wait"}
  BY DEF LInv, Types, UploadsOne, UploadsOneFails, StartsLoop, Loop, LoopFetches, LoopFetchFails,
         LoopEnds, UploadFails, JobFails, LockExpires, workerVars
<1>5. complete \subseteq Buffers /\ job \in [Jobs -> JobType]
  BY DEF LInv, Types
<1>6. job' \in [Jobs -> JobType]
  BY <1>3, <1>5, ReadingType, BlankType DEF LInv
<1>7. \A j \in Jobs : job'[j] \in {NoJob, job[j]} \cup {Reading(b) : b \in complete}
  BY <1>3, <1>5
<1>8. \A j \in Jobs : job'[j].buffer \in {None, job[j].buffer} \cup complete
  BY <1>7 DEF NoJob, Reading
<1>9. Stored' = Stored
  BY <1>1 DEF Stored, objectVars
<1>10. Types'
  BY <1>1, <1>2, <1>4, <1>6 DEF LInv, Types, listVars, fileVars, objectVars, slabVars
<1>11. \A u \in Uploads : Moves(u)
  BY <1>1, <1>2 DEF Moves
<1>. QED  BY <1>1, <1>7, <1>8, <1>9, <1>10, <1>11
          DEF LInv, Calm, Quiet, Rooted, listVars, fileVars, slabVars

\* The report of an upload and the removal of the file.
LEMMA RemovesQuietly ==
  ASSUME LInv, NEW j \in Jobs, MarkUploaded(j) \/ RemoveBuffers(j)
  PROVE  /\ Types' /\ Quiet
         /\ Stored' = Stored /\ slices' = slices /\ committed' = committed /\ pc' = pc
         /\ size' = size /\ syncFailed' = syncFailed /\ restarts' = restarts
      /\ spoiled' = spoiled
         /\ incomplete' = incomplete
<1>1. /\ uploadVars' = uploadVars /\ incomplete' = incomplete /\ size' = size
      /\ objectVars' = objectVars /\ syncFailed' = syncFailed /\ restarts' = restarts
      /\ spoiled' = spoiled
  BY DEF MarkUploaded, RemoveBuffers, bufferVars, boundVars, syncVars, listVars
<1>2. /\ job[j] \in JobType /\ \A b \in Buffers : row'[b] = row[b] \/ (row[b] = "buffered" /\ row'[b] = "uploaded")
      /\ row' \in [Buffers -> {"none", "buffered", "uploaded", "empty"}]
  BY DEF LInv, Types, MarkUploaded, RemoveBuffers, JobFails, slabVars
<1>3. \A k \in Jobs : job'[k].buffer \in {None, job[k].buffer}
  <2>1. \/ job' = [job EXCEPT ![j] = NoJob] \/ job' = [job EXCEPT ![j].marked = TRUE]
        \/ job' = job
    BY DEF MarkUploaded, RemoveBuffers, JobFails
  <2>2. job \in [Jobs -> JobType]
    BY DEF LInv, Types
  <2>3. ASSUME NEW k \in Jobs PROVE job'[k] \in {NoJob, job[k], [job[k] EXCEPT !.marked = TRUE]}
    BY <2>1, <2>2
  <2>4. ASSUME NEW k \in Jobs PROVE [job[k] EXCEPT !.marked = TRUE].buffer = job[k].buffer
    BY <2>2 DEF JobType
  <2>5. NoJob.buffer = None
    BY DEF NoJob
  <2>6. ASSUME NEW k \in Jobs, NEW m, m = [job[k] EXCEPT !.marked = TRUE], job'[k] \in {NoJob, job[k], m}
        PROVE  job'[k].buffer \in {None, job[k].buffer}
    <3>1. m.buffer = job[k].buffer
      BY <2>4, <2>6
    <3>. QED  BY <2>5, <2>6, <3>1
  <2>. QED  BY <2>3, <2>6
<1>4. /\ complete' \subseteq complete /\ job' \in [Jobs -> JobType]
      /\ file' \in [Buffers -> Content] /\ durable' \in [Buffers -> Content]
      /\ sectors' \in [Buffers -> Content] /\ loop' \in {"off", "run", "wait"}
  <2>0. /\ job \in [Jobs -> JobType] /\ file \in [Buffers -> Content] /\ durable \in [Buffers -> Content]
        /\ sectors \in [Buffers -> Content] /\ loop \in {"off", "run", "wait"}
        /\ NoJob \in JobType /\ Blank \in Content
    BY BlankType DEF LInv, Types
  <2>1. job[j].data \in Content /\ [job[j] EXCEPT !.marked = TRUE] \in JobType
    BY <1>2 DEF JobType
  <2>2. CASE MarkUploaded(j)
    <3>1. /\ complete' = complete /\ file' = file /\ durable' = durable
          /\ loop' \in {"off", "run", "wait"}
      BY <2>0, <2>2 DEF MarkUploaded, JobFails, listVars, fileVars
    <3>2. \/ job' = [job EXCEPT ![j] = NoJob] \/ job' = [job EXCEPT ![j] = [job[j] EXCEPT !.marked = TRUE]]
      BY <2>2 DEF MarkUploaded, JobFails
    <3>3. sectors' = sectors \/ \E b : sectors' = [sectors EXCEPT ![b] = job[j].data]
      BY <2>2 DEF MarkUploaded, slabVars
    <3>. QED  BY <2>0, <2>1, <3>1, <3>2, <3>3
  <2>3. CASE RemoveBuffers(j)
    BY <2>0, <2>3 DEF RemoveBuffers, slabVars
  <2>. QED  BY <2>2, <2>3
<1>5. Stored' = Stored
  BY <1>1 DEF Stored, objectVars
<1>6. Rooted'
  BY <1>2, <1>5, StoredTypes DEF LInv, Rooted, Slice
<1>7. Types'
  BY <1>1, <1>2, <1>4 DEF LInv, Types, uploadVars, objectVars
<1>. QED  BY <1>1, <1>2, <1>3, <1>4, <1>5, <1>6, <1>7 DEF Quiet, Moves, uploadVars

LEMMA QuietKeeps ==
  ASSUME LInv, Types', Quiet
  PROVE  LInv'
<1>1. Fresh'
  <2>. SUFFICES ASSUME NEW u \in Uploads, MayCreate(u)' PROVE Unknown(u)'
    BY DEF Fresh
  <2>1. MayCreate(u)
    BY DEF Quiet, Moves, MayCreate
  <2>2. Unknown(u) /\ u \in Buffers /\ u # None
    BY <2>1, Constants DEF LInv, Fresh
  <2>3. row'[u] = "none"
    BY <2>2 DEF Quiet, Unknown
  <2>4. ASSUME NEW s \in Stored' PROVE s.slab # u
    <3>1. CASE s \in Stored
      BY <2>2, <3>1 DEF Unknown
    <3>2. CASE \E v \in Uploads : SliceOf(s, v)
      BY <2>2, <3>2 DEF Unknown, SliceOf
    <3>. QED  BY <3>1, <3>2 DEF Quiet
  <2>5. ASSUME NEW j \in Jobs PROVE job'[j].buffer # u
    BY <2>2 DEF Quiet, Unknown
  <2>. QED  BY <2>2, <2>3, <2>4, <2>5 DEF Quiet, Unknown
<1>2. ListedOnce'
  BY DEF LInv, Quiet, ListedOnce, isCompleteBuffer
<1>3. ASSUME NEW u \in Uploads PROVE Appending(u)'
  <2>1. Appending(u) /\ slices[u] \in Seq(Slice) /\ committed[u] \in Nat
    BY DEF LInv, Types
  <2>2. Moves(u) /\ todo' = todo /\ rest' = rest /\ slices' = slices /\ committed' = committed
        /\ incomplete' = incomplete /\ size' = size
    BY DEF Quiet
  <2>3. CASE pc'[u] = pc[u] /\ syncSize'[u] = syncSize[u]
    BY <2>1, <2>2, <2>3 DEF Appending, Committing, isCompleteBuffer
  <2>4. CASE /\ pc[u] = "commit" /\ committed[u] < Len(slices[u])
             /\ pc'[u] = "sync" /\ syncSize'[u] = size[Committing(u)]
    <3>1. committed[u] + 1 \in DOMAIN slices[u] /\ slices[u][committed[u] + 1] \in Slice
      BY <2>1, <2>4
    <3>2. /\ End(slices[u][committed[u] + 1]) <= size[slices[u][committed[u] + 1].slab]
          /\ committed[u] <= Len(slices[u])
          /\ \A i \in DOMAIN slices[u] : End(slices[u][i]) <= size[slices[u][i].slab]
      BY <2>1, <2>4, <3>1 DEF Appending, Ongoing
    <3>3. size[Committing(u)] \in Int
      <4>1. Committing(u) \in Buffers
        BY <3>1 DEF Committing, Slice
      <4>2. size \in [Buffers -> 0..MaxSize]
        BY DEF LInv, Types
      <4>. QED  BY <4>1, <4>2
    <3>. QED  BY <2>2, <2>4, <3>2, <3>3 DEF Appending, Ongoing, Committing
  <2>5. CASE pc[u] = "append" /\ rest[u] = 0 /\ pc'[u] = "commit"
    <3>1. committed[u] <= Len(slices[u])
      BY <2>1, <2>5 DEF Appending, Ongoing
    <3>. QED  BY <2>1, <2>2, <2>5, <3>1 DEF Appending, Ongoing
  <2>6. CASE pc[u] = "commit" /\ committed[u] = Len(slices[u]) /\ pc'[u] = "add"
    BY <2>1, <2>2, <2>6 DEF Appending, Ongoing
  <2>7. CASE pc'[u] \in {"failed", "packed", "uploading", "done"}
    BY <2>7 DEF Appending, Ongoing
  <2>. QED  BY <2>2, <2>3, <2>4, <2>5, <2>6, <2>7 DEF Moves
<1>4. Filled'
  <2>. SUFFICES ASSUME NEW b \in Buffers, b \in ToSet(incomplete), isCompleteBuffer(size[b])
                PROVE  \E u \in Uploads : Fills(u, b)'
    BY DEF Filled, Quiet, isCompleteBuffer
  <2>1. PICK u \in Uploads : Fills(u, b)
    BY DEF LInv, Filled
  <2>2. Len(slices[u]) \in Nat /\ committed[u] \in Nat /\ committed[u] < Len(slices[u])
    BY <2>1, SMTT(30) DEF LInv, Types, Fills
  <2>3. pc'[u] \in {"append", "commit", "sync", "failed"}
    BY <2>1, <2>2 DEF Fills, Quiet, Moves
  <2>. QED  BY <2>1, <2>3 DEF Fills, Quiet, isCompleteBuffer, End
<1>. QED  BY <1>1, <1>2, <1>3, <1>4 DEF LInv, Quiet

-----------------------------------------------------------------------------
(* The steps of AddPartialSlab that append and sync, and the restart. *)

\* The slice that an append to b makes, and its bytes.
Placed(s, u, b, n) ==
  /\ s.slab = b /\ s.offset = size[b] /\ s.length = n
  /\ slices' = [slices EXCEPT ![u] = Append(slices[u], s)]
  /\ \A i \in 0..n - 1 : file'[b][size[b] + i] = [src |-> s.src, at |-> s.from + i]

LEMMA RecordFacts ==
  ASSUME Types, NEW u \in Uploads, NEW b \in Buffers, NEW n \in Nat,
         n <= rest[u], size[b] + n <= MaxSize, Record(b, u, n)
  PROVE  /\ size' \in [Buffers -> 0..MaxSize] /\ size' = [size EXCEPT ![b] = size[b] + n]
         /\ rest' \in [Uploads -> 0..MaxSize] /\ rest' = [rest EXCEPT ![u] = rest[u] - n]
         /\ \A v \in Uploads : rest'[v] <= Length[v]
         /\ \E s \in Slice : Placed(s, u, b, n)
         /\ slices' \in [Uploads -> Seq(Slice)]
         /\ file' \in [Buffers -> Content]
         /\ \A c \in Buffers : \A i \in Offsets : c # b \/ i < size[b] => file'[c][i] = file[c][i]
<1>. DEFINE from == Length[u] - rest[u]
            s == [slab |-> b, offset |-> size[b], length |-> n, src |-> u, from |-> from]
            written == [i \in Offsets |-> IF i \in size[b]..size[b] + n - 1
                                          THEN [src |-> u, at |-> from + i - size[b]] ELSE file[b][i]]
<1>0. /\ size \in [Buffers -> 0..MaxSize] /\ rest \in [Uploads -> 0..MaxSize]
      /\ \A v \in Uploads : rest[v] <= Length[v] /\ Length[v] \in Nat
      /\ slices \in [Uploads -> Seq(Slice)] /\ file \in [Buffers -> Content]
      /\ MaxSize \in Nat /\ Offsets = 0..MaxSize - 1
  <2>1. ASSUME NEW v \in Uploads PROVE Length[v] \in Nat
    <3>1. Length[v] \in 1..MaxSize /\ MaxSize \in Nat
      BY Constants
    <3>. QED  BY <3>1
  <2>. QED  BY <2>1, Constants DEF Types
<1>1. size[b] \in Nat /\ rest[u] \in Nat /\ from \in Nat
  BY <1>0
<1>2. /\ size' = [size EXCEPT ![b] = size[b] + n] /\ rest' = [rest EXCEPT ![u] = rest[u] - n]
      /\ slices' = [slices EXCEPT ![u] = Append(slices[u], s)]
  BY DEF Record
<1>3. file' = [file EXCEPT ![b] = written]
  BY <1>0 DEF Record, WriteAt
<1>4. s \in Slice
  BY <1>1 DEF Slice
<1>5. written \in Content
  <2>. SUFFICES ASSUME NEW i \in Offsets PROVE written[i] \in Byte \cup {None}
    BY DEF Content
  <2>1. CASE i \in size[b]..size[b] + n - 1
    <3>1. from + i - size[b] \in Nat
      BY <1>1, <2>1
    <3>2. [src |-> u, at |-> from + i - size[b]] \in Byte
      BY <3>1 DEF Byte
    <3>. QED  BY <2>1, <3>2
  <2>2. CASE i \notin size[b]..size[b] + n - 1
    BY <1>0, <2>2 DEF Content
  <2>. QED  BY <2>1, <2>2
<1>6. ASSUME NEW i \in 0..n - 1 PROVE written[size[b] + i] = [src |-> u, at |-> from + i]
  <2>1. size[b] + i \in Offsets /\ size[b] + i \in size[b]..size[b] + n - 1
    BY <1>0, <1>1, SMTT(30)
  <2>2. from + (size[b] + i) - size[b] = from + i
    BY <1>1
  <2>. QED  BY <2>1, <2>2
<1>7. ASSUME NEW i \in Offsets, i < size[b] PROVE written[i] = file[b][i]
  BY <1>0, <1>1, <1>7
<1>8. size' \in [Buffers -> 0..MaxSize] /\ rest' \in [Uploads -> 0..MaxSize]
      /\ \A v \in Uploads : rest'[v] <= Length[v]
  <2>1. size[b] + n \in 0..MaxSize /\ rest[u] - n \in 0..MaxSize /\ rest[u] - n <= Length[u]
    BY <1>0, <1>1
  <2>. QED  BY <1>0, <1>2, <2>1
<1>. HIDE DEF written, from
<1>9. /\ file' \in [Buffers -> Content] /\ file'[b] = written
      /\ \A c \in Buffers : c # b => file'[c] = file[c]
  BY <1>0, <1>3, <1>5
<1>10. \A c \in Buffers : \A i \in Offsets : c # b \/ i < size[b] => file'[c][i] = file[c][i]
  BY <1>7, <1>9
<1>11. /\ s.slab = b /\ s.offset = size[b] /\ s.length = n /\ s.src = u /\ s.from = from
  OBVIOUS
<1>12. \A i \in 0..n - 1 : file'[b][size[b] + i] = [src |-> s.src, at |-> s.from + i]
  BY <1>6, <1>9, <1>11
<1>. HIDE DEF s
<1>13. slices' \in [Uploads -> Seq(Slice)]
  BY <1>0, <1>2, <1>4
<1>14. Placed(s, u, b, n)
  BY <1>2, <1>11, <1>12 DEF Placed
<1>. QED  BY <1>2, <1>4, <1>8, <1>9, <1>10, <1>13, <1>14

LEMMA LoadedFacts ==
  ASSUME Types, NEW b \in Buffers
  PROVE  /\ LoadedSize(b) \in 0..MaxSize
         /\ \A s \in Stored : s.slab = b => End(s) <= LoadedSize(b)
<1>. DEFINE E == {0} \cup {s.offset + s.length : s \in {t \in Stored : t.slab = b}}
<1>1. E \subseteq 0..MaxSize
  <2>. SUFFICES ASSUME NEW s \in Stored PROVE s.offset + s.length \in 0..MaxSize
    BY Constants
  <2>1. s \in Slice
    BY StoredTypes
  <2>. QED  BY <2>1, Constants DEF Slice
<1>2. E # {} /\ MaxSize \in Nat
  BY Constants
<1>3. LoadedSize(b) = Max(E)
  BY DEF LoadedSize
<1>4. \A s \in Stored : s.slab = b => End(s) \in E
  BY DEF End
<1>. HIDE DEF E
<1>5. Max(E) \in E /\ \A t \in E : t <= Max(E)
  BY <1>1, <1>2, GreatestUpTo
<1>. QED  BY <1>1, <1>3, <1>4, <1>5

LEMMA ListsKeeps ==
  ASSUME LInv, NEW u \in Uploads, Lists(u)
  PROVE  LInv'
<1>1. /\ pc[u] = "start" /\ todo' = [todo EXCEPT ![u] = incomplete] /\ pc' = [pc EXCEPT ![u] = "append"]
      /\ rest' = rest /\ slices' = slices /\ committed' = committed /\ syncSize' = syncSize
      /\ incomplete' = incomplete /\ complete' = complete /\ size' = size /\ syncFailed' = syncFailed
      /\ file' = file /\ durable' = durable /\ row' = row /\ sectors' = sectors /\ object' = object
      /\ part' = part /\ job' = job /\ loop' = loop /\ restarts' = restarts
  BY DEF Lists, listVars, bufferVars, fileVars, slabVars, objectVars, workerVars, boundVars, syncVars
<1>2. Types'
  BY <1>1 DEF LInv, Types
<1>3. Stored' = Stored
  BY <1>1 DEF Stored
<1>4. /\ pc \in [Uploads -> {"start", "append", "commit", "sync", "add", "packed", "uploading",
                             "done", "failed"}]
      /\ todo \in [Uploads -> Seq(Buffers)]
  BY DEF LInv, Types
<1>5. Fresh'
  <2>. SUFFICES ASSUME NEW v \in Uploads, MayCreate(v)' PROVE Unknown(v)'
    BY DEF Fresh
  <2>1. MayCreate(v)
    BY <1>1, <1>4 DEF MayCreate
  <2>2. Unknown(v)
    BY <2>1 DEF LInv, Fresh
  <2>3. \A w \in Uploads : \A i \in DOMAIN todo'[w] : todo'[w][i] # v
    BY <1>1, <1>4, <2>2 DEF Unknown, ToSet
  <2>. QED  BY <1>1, <1>3, <2>2, <2>3 DEF Unknown
<1>6. ASSUME NEW v \in Uploads PROVE Appending(v)'
  <2>0. Appending(v) /\ Len(slices[v]) \in Nat
    BY DEF LInv, Types
  <2>1. CASE v = u
    <3>1. pc'[v] = "append" /\ todo'[v] = incomplete /\ committed[v] = 0 /\ slices[v] = <<>>
      BY <1>1, <1>4, <2>0, <2>1 DEF Appending
    <3>2. \A i \in DOMAIN todo'[v] : todo'[v][i] \in ToSet(incomplete)
      BY <3>1 DEF ToSet
    <3>. QED  BY <1>1, <3>1, <3>2 DEF Appending, Ongoing
  <2>2. CASE v # u
    <3>1. pc'[v] = pc[v] /\ todo'[v] = todo[v]
      BY <1>1, <1>4, <2>2
    <3>. QED  BY <1>1, <2>0, <3>1 DEF Appending, Committing, isCompleteBuffer
  <2>. QED  BY <2>1, <2>2
<1>7. Filled'
  <2>1. ASSUME NEW v \in Uploads, NEW b, Fills(v, b) PROVE Fills(v, b)'
    BY <1>1, <1>4, <2>1 DEF Fills, isCompleteBuffer, End
  <2>. QED  BY <1>1, <2>1 DEF LInv, Filled, isCompleteBuffer
<1>. QED  BY <1>1, <1>2, <1>3, <1>5, <1>6, <1>7 DEF LInv, ListedOnce, Rooted, isCompleteBuffer

\* A slice is put at the end of a buffer.
LEMMA Appended ==
  ASSUME LInv, NEW u \in Uploads, NEW b \in Buffers, NEW n \in Nat,
         pc[u] = "append", n <= rest[u], size[b] + n <= MaxSize, Record(b, u, n),
         pc' = pc, committed' = committed, syncSize' = syncSize,
         ToSet(incomplete) \subseteq ToSet(incomplete'),
         ToSet(incomplete') \subseteq ToSet(incomplete) \cup {b},
         \A v \in Uploads : \A i \in DOMAIN todo'[v] : \E k \in DOMAIN todo[v] : todo'[v][i] = todo[v][k]
  PROVE  (\A v \in Uploads : Appending(v)') /\ Filled'
<1>0. Types
  BY DEF LInv
<1>1. PICK s \in Slice : Placed(s, u, b, n)
  BY <1>0, RecordFacts
<1>2. /\ size \in [Buffers -> 0..MaxSize] /\ MaxSize \in Nat /\ size' \in [Buffers -> 0..MaxSize]
      /\ size' = [size EXCEPT ![b] = size[b] + n] /\ slices \in [Uploads -> Seq(Slice)]
      /\ committed \in [Uploads -> Nat] /\ rest' = [rest EXCEPT ![u] = rest[u] - n]
      /\ rest \in [Uploads -> 0..MaxSize] /\ todo \in [Uploads -> Seq(Buffers)]
      /\ syncSize \in [Uploads -> 0..MaxSize]
  <2>1. /\ size' \in [Buffers -> 0..MaxSize] /\ size' = [size EXCEPT ![b] = size[b] + n]
        /\ rest' = [rest EXCEPT ![u] = rest[u] - n]
    BY <1>0, RecordFacts
  <2>. QED  BY <1>0, <2>1, Constants DEF Types
<1>3. \A c \in Buffers : size[c] \in Int /\ size'[c] \in Int /\ size[c] <= size'[c]
  BY <1>2
<1>4. \A c \in Buffers : isCompleteBuffer(size[c]) => isCompleteBuffer(size'[c])
  BY <1>3, Full
<1>5. /\ \A v \in Uploads : v # u => slices'[v] = slices[v]
      /\ Len(slices'[u]) = Len(slices[u]) + 1 /\ slices'[u][Len(slices[u]) + 1] = s
      /\ \A i \in 1..Len(slices[u]) : slices'[u][i] = slices[u][i]
      /\ DOMAIN slices'[u] = 1..Len(slices[u]) + 1 /\ Len(slices[u]) \in Nat
  BY <1>1, <1>2 DEF Placed
<1>6. End(s) = size'[b]
  BY <1>1, <1>2 DEF End, Placed
<1>7. ASSUME NEW v \in Uploads PROVE Appending(v)'
  <2>0. Appending(v)
    BY DEF LInv
  <2>1. pc[v] = "append" =>
          \A i \in DOMAIN todo'[v] : todo'[v][i] \in ToSet(incomplete') \/ isCompleteBuffer(size'[todo'[v][i]])
    BY <1>2, <1>4, <2>0, SMTT(30) DEF Appending
  <2>2. CASE v = u
    <3>1. ASSUME NEW i \in DOMAIN slices'[u] PROVE End(slices'[u][i]) <= size'[slices'[u][i].slab]
      <4>1. CASE i = Len(slices[u]) + 1
        BY <1>1, <1>3, <1>5, <1>6, <4>1 DEF Placed
      <4>2. CASE i # Len(slices[u]) + 1
        <5>1. i \in 1..Len(slices[u]) /\ slices'[u][i] = slices[u][i] /\ slices[u][i] \in Slice
          <6>1. i \in 1..Len(slices[u])
            BY <1>5, <4>2
          <6>2. slices[u] \in Seq(Slice)
            BY <1>2
          <6>3. slices[u][i] \in Slice
            BY <6>1, <6>2
          <6>. QED  BY <1>5, <6>1, <6>3
        <5>2. End(slices[u][i]) <= size[slices[u][i].slab]
          BY <2>0, <2>2, <5>1 DEF Appending, Ongoing
        <5>3. slices[u][i].slab \in Buffers /\ End(slices[u][i]) \in Int
          BY <5>1 DEF Slice, End
        <5>. QED  BY <1>3, <5>1, <5>2, <5>3
      <4>. QED  BY <4>1, <4>2
    <3>2. committed[u] = 0
      BY <2>0, <2>2 DEF Appending
    <3>. QED  BY <1>5, <2>1, <2>2, <3>1, <3>2 DEF Appending, Ongoing
  <2>3. CASE v # u
    <3>1. slices'[v] = slices[v] /\ rest'[v] = rest[v] /\ Len(slices[v]) \in Nat
      BY <1>2, <1>5, <2>3
    <3>2. \A i \in DOMAIN slices[v] : slices[v][i] \in Slice
      BY <1>2
    <3>3. \A i \in DOMAIN slices[v] : slices[v][i].slab \in Buffers /\ End(slices[v][i]) \in Int
      BY <3>2 DEF Slice, End
    <3>4. pc[v] \in Ongoing =>
            \A i \in DOMAIN slices[v] : End(slices[v][i]) <= size'[slices[v][i].slab]
      BY <1>3, <2>0, <3>3 DEF Appending
    <3>5. pc[v] = "sync" => /\ committed[v] < Len(slices[v])
                            /\ End(slices[v][committed[v] + 1]) <= syncSize[v]
                            /\ syncSize[v] <= size'[slices[v][committed[v] + 1].slab]
      <4>. SUFFICES ASSUME pc[v] = "sync" PROVE <3>5!2
        OBVIOUS
      <4>1. committed[v] + 1 \in DOMAIN slices[v] /\ committed[v] \in Nat
        BY <1>2, <2>0, <3>1 DEF Appending
      <4>. QED  BY <1>2, <1>3, <2>0, <3>3, <4>1, SMTT(30) DEF Appending, Committing
    <3>. QED  BY <2>0, <2>1, <3>1, <3>4, <3>5 DEF Appending, Committing
  <2>. QED  BY <2>2, <2>3
<1>8. Filled'
  <2>. SUFFICES ASSUME NEW c \in Buffers, c \in ToSet(incomplete'), isCompleteBuffer(size'[c])
                PROVE  \E v \in Uploads : Fills(v, c)'
    BY DEF Filled, isCompleteBuffer
  <2>1. CASE c = b
    <3>1. Appending(u)
      BY DEF LInv
    <3>2. committed'[u] = 0 /\ Len(slices[u]) + 1 \in committed'[u] + 1..Len(slices'[u])
      BY <1>5, <3>1 DEF Appending
    <3>3. isCompleteBuffer(End(s)) /\ s.slab = c
      BY <1>1, <1>6, <2>1 DEF Placed
    <3>4. Fills(u, c)'
      BY <1>5, <3>2, <3>3 DEF Fills, isCompleteBuffer, End
    <3>. QED  BY <3>4
  <2>2. CASE c # b
    <3>1. c \in ToSet(incomplete) /\ size'[c] = size[c]
      BY <1>2, <2>2
    <3>2. PICK v \in Uploads : Fills(v, c)
      BY <3>1 DEF LInv, Filled
    <3>3. PICK i \in committed[v] + 1..Len(slices[v]) :
            slices[v][i].slab = c /\ isCompleteBuffer(End(slices[v][i]))
      BY <3>2 DEF Fills
    <3>4. i \in committed'[v] + 1..Len(slices'[v]) /\ slices'[v][i] = slices[v][i]
      <4>1. committed'[v] = committed[v] /\ committed[v] \in Nat /\ Len(slices[v]) \in Nat
        BY <1>2
      <4>2. i \in Nat /\ committed[v] + 1 <= i /\ i <= Len(slices[v]) /\ i \in 1..Len(slices[v])
        BY <3>3, <4>1
      <4>3. Len(slices[v]) <= Len(slices'[v]) /\ Len(slices'[v]) \in Nat /\ slices'[v][i] = slices[v][i]
        BY <1>5, <4>1, <4>2, SMTT(30)
      <4>. QED  BY <4>1, <4>2, <4>3
    <3>5. Fills(v, c)'
      BY <3>2, <3>3, <3>4 DEF Fills, isCompleteBuffer, End
    <3>. QED  BY <3>5
  <2>. QED  BY <2>1, <2>2
<1>. QED  BY <1>7, <1>8

\* An upload that may make a buffer has not made it yet.
LEMMA FreshStays ==
  ASSUME LInv, NEW v \in Uploads, Unknown(v), Stored' = Stored, row'[v] = "none", size'[v] = 0,
         v \notin ToSet(incomplete'), v \notin complete',
         \A w \in Uploads : \A i \in DOMAIN todo'[w] : \E k \in DOMAIN todo[w] : todo'[w][i] = todo[w][k],
         \A w \in Uploads : \A i \in DOMAIN slices'[w] :
           slices'[w][i].slab # v \/ \E k \in DOMAIN slices[w] : slices'[w][i] = slices[w][k],
         \A j \in Jobs : job'[j].buffer # v
  PROVE  Unknown(v)'
<1>1. ASSUME NEW w \in Uploads, NEW i \in DOMAIN todo'[w] PROVE todo'[w][i] # v
  BY <1>1 DEF Unknown
<1>2. ASSUME NEW w \in Uploads, NEW i \in DOMAIN slices'[w] PROVE slices'[w][i].slab # v
  BY <1>2 DEF Unknown
<1>3. \A s \in Stored' : s.slab # v
  BY DEF Unknown
<1>. QED  BY <1>1, <1>2, <1>3 DEF Unknown

LEMMA AppendsKeeps ==
  ASSUME LInv, NEW u \in Uploads, Appends(u)
  PROVE  LInv'
<1>. DEFINE b == Head(todo[u])
            f == Fitting(b, u)
<1>0. Types /\ Fresh /\ ListedOnce /\ Appending(u)
  BY DEF LInv
<1>1. /\ pc[u] = "append" /\ todo[u] # <<>> /\ todo' = [todo EXCEPT ![u] = Tail(todo[u])]
      /\ pc' = pc /\ committed' = committed /\ syncSize' = syncSize
      /\ incomplete' = incomplete /\ complete' = complete /\ syncFailed' = syncFailed
      /\ durable' = durable /\ row' = row /\ sectors' = sectors /\ object' = object
      /\ part' = part /\ job' = job /\ loop' = loop /\ restarts' = restarts
  BY DEF Appends, listVars, slabVars, objectVars, workerVars, boundVars, syncVars
<1>2. /\ todo \in [Uploads -> Seq(Buffers)] /\ rest \in [Uploads -> 0..MaxSize]
      /\ size \in [Buffers -> 0..MaxSize] /\ slices \in [Uploads -> Seq(Slice)]
      /\ MaxSize \in Nat /\ Threshold \in Nat
  BY <1>0, Constants DEF Types
<1>3. b \in Buffers /\ \E k \in DOMAIN todo[u] : todo[u][k] = b
  BY <1>1, <1>2
<1>4. todo' \in [Uploads -> Seq(Buffers)]
  BY <1>1, <1>2
<1>5. \A v \in Uploads : \A i \in DOMAIN todo'[v] : \E k \in DOMAIN todo[v] : todo'[v][i] = todo[v][k]
  <2>. SUFFICES ASSUME NEW v \in Uploads, NEW i \in DOMAIN todo'[v]
                PROVE  \E k \in DOMAIN todo[v] : todo'[v][i] = todo[v][k]
    OBVIOUS
  <2>1. CASE v = u
    <3>1. todo'[v] = Tail(todo[u]) /\ todo[u] \in Seq(Buffers) /\ todo[u] # <<>>
      BY <1>1, <1>2, <2>1
    <3>2. i + 1 \in DOMAIN todo[u] /\ Tail(todo[u])[i] = todo[u][i + 1]
      BY <3>1
    <3>. QED  BY <2>1, <3>1, <3>2
  <2>2. CASE v # u
    BY <1>1, <1>2, <2>2
  <2>. QED  BY <2>1, <2>2
<1>6. Stored' = Stored
  BY <1>1 DEF Stored
<1>. HIDE DEF b
<1>7. CASE f > 0
  <2>1. /\ Record(b, u, f) /\ f \in Nat /\ f <= rest[u] /\ size[b] + f <= MaxSize
        /\ ~isCompleteBuffer(size[b])
    <3>1. Record(b, u, f)
      BY <1>7 DEF Appends, b
    <3>2. size[b] \in 0..MaxSize /\ rest[u] \in 0..MaxSize
      BY <1>2, <1>3
    <3>. QED  BY <1>2, <1>7, <3>1, <3>2 DEF Fitting, isCompleteBuffer
  <2>. HIDE DEF f
  <2>2. /\ size' \in [Buffers -> 0..MaxSize] /\ size' = [size EXCEPT ![b] = size[b] + f]
        /\ rest' \in [Uploads -> 0..MaxSize] /\ rest' = [rest EXCEPT ![u] = rest[u] - f]
        /\ \A v \in Uploads : rest'[v] <= Length[v]
        /\ slices' \in [Uploads -> Seq(Slice)] /\ file' \in [Buffers -> Content]
    BY <1>0, <1>3, <2>1, RecordFacts
  <2>3. PICK s \in Slice : s.slab = b /\ slices' = [slices EXCEPT ![u] = Append(slices[u], s)]
    BY <1>0, <1>3, <2>1, RecordFacts DEF Placed
  <2>4. Types'
    BY <1>0, <1>1, <1>4, <2>2 DEF Types
  <2>5. (\A v \in Uploads : Appending(v)') /\ Filled'
    BY <1>1, <1>3, <1>5, <2>1, Appended
  <2>6. Fresh'
    <3>. SUFFICES ASSUME NEW v \in Uploads, MayCreate(v)' PROVE Unknown(v)'
      BY DEF Fresh
    <3>1. MayCreate(v)
      <4>1. rest'[v] \in Int /\ rest[v] \in Int /\ rest'[v] <= rest[v]
        BY <1>2, <2>1, <2>2
      <4>. QED  BY <1>1, <4>1 DEF MayCreate
    <3>2. Unknown(v)
      BY <1>0, <3>1 DEF Fresh
    <3>3. v # b
      BY <1>3, <3>2 DEF Unknown
    <3>4. row'[v] = "none" /\ size'[v] = 0 /\ v \notin ToSet(incomplete') /\ v \notin complete'
      BY <1>1, <1>2, <2>2, <3>2, <3>3 DEF Unknown, Buffers
    <3>5. \A w \in Uploads : \A i \in DOMAIN slices'[w] :
            slices'[w][i].slab # v \/ \E k \in DOMAIN slices[w] : slices'[w][i] = slices[w][k]
      <4>. SUFFICES ASSUME NEW w \in Uploads, NEW i \in DOMAIN slices'[w]
                    PROVE slices'[w][i].slab # v \/ \E k \in DOMAIN slices[w] : slices'[w][i] = slices[w][k]
        OBVIOUS
      <4>1. CASE w = u
        <5>1. slices'[w] = Append(slices[u], s) /\ slices[u] \in Seq(Slice)
          BY <1>2, <2>3, <4>1
        <5>2. \/ i \in DOMAIN slices[u] /\ slices'[w][i] = slices[u][i]
              \/ slices'[w][i] = s
          BY <5>1
        <5>. QED  BY <2>3, <3>3, <4>1, <5>2
      <4>2. CASE w # u
        BY <1>2, <2>3, <4>2
      <4>. QED  BY <4>1, <4>2
    <3>6. \A j \in Jobs : job'[j].buffer # v
      BY <1>1, <3>2 DEF Unknown
    <3>. QED  BY <1>5, <1>6, <3>2, <3>4, <3>5, <3>6, FreshStays
  <2>7. ListedOnce'
    BY <1>0, <1>1, <1>2, <1>3, <2>1, <2>2 DEF ListedOnce, isCompleteBuffer, Types
  <2>. QED  BY <1>1, <1>6, <2>4, <2>5, <2>6, <2>7 DEF LInv, Rooted
<1>8. CASE ~(f > 0)
  <2>1. file' = file /\ slices' = slices /\ size' = size /\ rest' = rest
    BY <1>8 DEF Appends, b
  <2>2. Types'
    BY <1>0, <1>1, <1>4, <2>1 DEF Types
  <2>3. Fresh'
    <3>. SUFFICES ASSUME NEW v \in Uploads, MayCreate(v)' PROVE Unknown(v)'
      BY DEF Fresh
    <3>1. Unknown(v)
      BY <1>0, <1>1, <2>1 DEF Fresh, MayCreate
    <3>2. row'[v] = "none" /\ size'[v] = 0 /\ v \notin ToSet(incomplete') /\ v \notin complete'
      BY <1>1, <2>1, <3>1 DEF Unknown
    <3>3. \A j \in Jobs : job'[j].buffer # v
      BY <1>1, <3>1 DEF Unknown
    <3>. QED  BY <1>5, <1>6, <2>1, <3>1, <3>2, <3>3, FreshStays
  <2>4. ASSUME NEW v \in Uploads PROVE Appending(v)'
    <3>1. Appending(v)
      BY DEF LInv
    <3>2. pc[v] = "append" =>
            \A i \in DOMAIN todo'[v] : todo'[v][i] \in ToSet(incomplete) \/ isCompleteBuffer(size[todo'[v][i]])
      BY <1>5, <3>1 DEF Appending
    <3>. QED  BY <1>1, <2>1, <3>1, <3>2 DEF Appending, Committing, isCompleteBuffer
  <2>5. Filled' /\ ListedOnce' /\ Rooted'
    BY <1>1, <1>6, <2>1 DEF LInv, Filled, Fills, ListedOnce, Rooted, isCompleteBuffer, End
  <2>. QED  BY <2>2, <2>3, <2>4, <2>5 DEF LInv
<1>. QED  BY <1>7, <1>8

LEMMA CreatesBufferKeeps ==
  ASSUME LInv, NEW u \in Uploads, CreatesBuffer(u)
  PROVE  LInv'
<1>0. Types /\ Fresh /\ ListedOnce /\ Rooted
  BY DEF LInv
<1>1. /\ pc[u] = "append" /\ todo[u] = <<>> /\ rest[u] > 0 /\ Record(u, u, rest[u])
      /\ incomplete' = Append(incomplete, u) /\ row' = [row EXCEPT ![u] = "buffered"]
      /\ todo' = todo /\ pc' = pc /\ committed' = committed /\ syncSize' = syncSize
      /\ complete' = complete /\ syncFailed' = syncFailed
      /\ durable' = durable /\ sectors' = sectors /\ object' = object
      /\ part' = part /\ job' = job /\ loop' = loop /\ restarts' = restarts
  BY DEF CreatesBuffer, objectVars, workerVars, boundVars, syncVars
<1>2. Unknown(u) /\ size[u] = 0 /\ u \notin ToSet(incomplete) /\ u \notin complete /\ row[u] = "none"
  BY <1>0, <1>1 DEF Fresh, MayCreate, Unknown
<1>3. /\ todo \in [Uploads -> Seq(Buffers)] /\ rest \in [Uploads -> 0..MaxSize]
      /\ size \in [Buffers -> 0..MaxSize] /\ slices \in [Uploads -> Seq(Slice)]
      /\ incomplete \in Seq(Buffers) /\ complete \subseteq Buffers
      /\ row \in [Buffers -> {"none", "buffered", "uploaded", "empty"}]
      /\ MaxSize \in Nat /\ u \in Buffers /\ Buffers = Uploads
  BY <1>0, Constants DEF Types
<1>4. rest[u] \in Nat /\ size[u] + rest[u] <= MaxSize /\ rest[u] <= rest[u]
  BY <1>2, <1>3
<1>5. /\ size' \in [Buffers -> 0..MaxSize] /\ size' = [size EXCEPT ![u] = size[u] + rest[u]]
      /\ rest' \in [Uploads -> 0..MaxSize] /\ rest' = [rest EXCEPT ![u] = rest[u] - rest[u]]
      /\ \A v \in Uploads : rest'[v] <= Length[v]
      /\ slices' \in [Uploads -> Seq(Slice)] /\ file' \in [Buffers -> Content]
  BY <1>0, <1>1, <1>3, <1>4, RecordFacts
<1>6. PICK s \in Slice : s.slab = u /\ slices' = [slices EXCEPT ![u] = Append(slices[u], s)]
  BY <1>0, <1>1, <1>3, <1>4, RecordFacts DEF Placed
<1>7. /\ incomplete' \in Seq(Buffers) /\ ToSet(incomplete') = ToSet(incomplete) \cup {u}
      /\ \A i, j \in DOMAIN incomplete' : incomplete'[i] = incomplete'[j] => i = j
  <2>1. /\ incomplete' \in Seq(Buffers) /\ Len(incomplete') = Len(incomplete) + 1
        /\ incomplete'[Len(incomplete) + 1] = u
        /\ \A i \in 1..Len(incomplete) : incomplete'[i] = incomplete[i] /\ incomplete[i] # u
        /\ DOMAIN incomplete' = 1..Len(incomplete) + 1 /\ DOMAIN incomplete = 1..Len(incomplete)
        /\ Len(incomplete) \in Nat
    <3>1. \A i \in 1..Len(incomplete) : incomplete[i] # u
      BY <1>2, <1>3, SMTT(30) DEF ToSet
    <3>2. \A i \in 1..Len(incomplete) : incomplete'[i] = incomplete[i]
      BY <1>1, <1>3
    <3>3. /\ incomplete' \in Seq(Buffers) /\ Len(incomplete') = Len(incomplete) + 1
          /\ incomplete'[Len(incomplete) + 1] = u /\ Len(incomplete) \in Nat
      BY <1>1, <1>3
    <3>4. DOMAIN incomplete' = 1..Len(incomplete') /\ DOMAIN incomplete = 1..Len(incomplete)
      BY <1>3, <3>3
    <3>. QED  BY <3>1, <3>2, <3>3, <3>4
  <2>2. ToSet(incomplete') = ToSet(incomplete) \cup {u}
    <3>1. \A i \in 1..Len(incomplete) + 1 : i \in 1..Len(incomplete) \/ i = Len(incomplete) + 1
      BY <2>1
    <3>2. Len(incomplete) + 1 \in 1..Len(incomplete) + 1 /\ 1..Len(incomplete) \subseteq 1..Len(incomplete) + 1
      BY <2>1
    <3>. QED  BY <2>1, <3>1, <3>2 DEF ToSet
  <2>3. \A i, j \in DOMAIN incomplete' : incomplete'[i] = incomplete'[j] => i = j
    <3>1. \A i \in 1..Len(incomplete) + 1 : i \in 1..Len(incomplete) \/ i = Len(incomplete) + 1
      BY <2>1
    <3>2. \A i, j \in 1..Len(incomplete) : incomplete[i] = incomplete[j] => i = j
      BY <1>0, <2>1 DEF ListedOnce
    <3>. QED  BY <2>1, <3>1, <3>2
  <2>. QED  BY <2>1, <2>2, <2>3
<1>8. Stored' = Stored
  BY <1>1 DEF Stored
<1>9. Types'
  BY <1>0, <1>1, <1>3, <1>5, <1>7 DEF Types
<1>10. (\A v \in Uploads : Appending(v)') /\ Filled'
  BY <1>1, <1>3, <1>4, <1>7, Appended
<1>11. Fresh'
  <2>. SUFFICES ASSUME NEW v \in Uploads, MayCreate(v)' PROVE Unknown(v)'
    BY DEF Fresh
  <2>1. v # u
    BY <1>1, <1>3, <1>5 DEF MayCreate
  <2>2. MayCreate(v)
    BY <1>1, <1>3, <1>5, <2>1 DEF MayCreate
  <2>3. Unknown(v)
    BY <1>0, <2>2 DEF Fresh
  <2>4. row'[v] = "none" /\ size'[v] = 0 /\ v \notin ToSet(incomplete') /\ v \notin complete'
    BY <1>1, <1>3, <1>5, <1>7, <2>1, <2>3 DEF Unknown
  <2>5. \A w \in Uploads : \A i \in DOMAIN slices'[w] :
          slices'[w][i].slab # v \/ \E k \in DOMAIN slices[w] : slices'[w][i] = slices[w][k]
    <3>. SUFFICES ASSUME NEW w \in Uploads, NEW i \in DOMAIN slices'[w]
                  PROVE slices'[w][i].slab # v \/ \E k \in DOMAIN slices[w] : slices'[w][i] = slices[w][k]
      OBVIOUS
    <3>1. CASE w = u
      <4>1. slices'[w] = Append(slices[u], s) /\ slices[u] \in Seq(Slice)
        BY <1>3, <1>6, <3>1
      <4>2. \/ i \in DOMAIN slices[u] /\ slices'[w][i] = slices[u][i]
            \/ slices'[w][i] = s
        BY <4>1
      <4>. QED  BY <1>6, <2>1, <3>1, <4>2
    <3>2. CASE w # u
      BY <1>3, <1>6, <3>2
    <3>. QED  BY <3>1, <3>2
  <2>6. \A j \in Jobs : job'[j].buffer # v
    BY <1>1, <2>3 DEF Unknown
  <2>. QED  BY <1>1, <1>8, <2>3, <2>4, <2>5, <2>6, FreshStays
<1>12. ListedOnce'
  BY <1>0, <1>1, <1>2, <1>3, <1>5, <1>7 DEF ListedOnce, isCompleteBuffer
<1>13. Rooted'
  BY <1>0, <1>1, <1>3, <1>8 DEF Rooted
<1>. QED  BY <1>9, <1>10, <1>11, <1>12, <1>13 DEF LInv

LEMMA SyncsKeeps ==
  ASSUME LInv, NEW u \in Uploads, Syncs(u)
  PROVE  LInv'
<1>. DEFINE b == Committing(u)
            c == committed[u] + 1
<1>0. Types /\ Fresh /\ ListedOnce /\ Appending(u) /\ Rooted
  BY DEF LInv
<1>1. /\ pc[u] = "sync" /\ pc' = [pc EXCEPT ![u] = "commit"]
      /\ committed' = [committed EXCEPT ![u] = committed[u] + 1]
      /\ todo' = todo /\ rest' = rest /\ slices' = slices /\ syncSize' = syncSize
      /\ size' = size /\ file' = file /\ row' = row /\ sectors' = sectors
      /\ object' = object /\ part' = part /\ job' = job /\ loop' = loop /\ restarts' = restarts
  BY DEF Syncs, objectVars, slabVars, workerVars
<1>2. \/ durable' = durable \/ \E d \in Buffers : durable' = [durable EXCEPT ![d] = file[d]]
  BY <1>0 DEF Syncs, Types, ToSet
<1>3. MarkComplete(u, b)
  BY DEF Syncs
<1>4. /\ pc \in [Uploads -> {"start", "append", "commit", "sync", "add", "packed", "uploading",
                             "done", "failed"}]
      /\ committed \in [Uploads -> Nat] /\ slices \in [Uploads -> Seq(Slice)]
      /\ incomplete \in Seq(Buffers) /\ complete \subseteq Buffers
      /\ size \in [Buffers -> 0..MaxSize] /\ syncSize \in [Uploads -> 0..MaxSize]
      /\ durable \in [Buffers -> Content] /\ file \in [Buffers -> Content] /\ MaxSize \in Nat
  BY <1>0, Constants DEF Types
<1>5. /\ committed[u] \in Nat /\ Len(slices[u]) \in Nat /\ committed[u] < Len(slices[u])
      /\ c \in DOMAIN slices[u] /\ slices[u][c] \in Slice /\ b = slices[u][c].slab /\ b \in Buffers
      /\ End(slices[u][c]) <= syncSize[u] /\ syncSize[u] <= size[b]
  <2>1. committed[u] \in Nat /\ Len(slices[u]) \in Nat /\ committed[u] < Len(slices[u])
    BY <1>0, <1>1, <1>4 DEF Appending
  <2>2. c \in DOMAIN slices[u] /\ slices[u][c] \in Slice
    BY <1>4, <2>1
  <2>3. End(slices[u][c]) <= syncSize[u] /\ syncSize[u] <= size[b]
    BY <1>0, <1>1 DEF Appending
  <2>. QED  BY <2>1, <2>2, <2>3 DEF Committing, Slice
<1>6. /\ syncFailed' \in SUBSET Buffers
  BY <1>0, <1>5 DEF Syncs, Types
<1>. HIDE DEF b
<1>7. \/ incomplete' = incomplete /\ complete' = complete
         /\ ~(isCompleteBuffer(syncSize[u]) /\ b \in ToSet(incomplete))
      \/ /\ isCompleteBuffer(syncSize[u]) /\ b \in ToSet(incomplete)
         /\ ToSet(incomplete') = ToSet(incomplete) \ {b} /\ complete' = complete \cup {b}
         /\ isCompleteBuffer(size[b])
  <2>1. CASE isCompleteBuffer(syncSize[u]) /\ b \in ToSet(incomplete)
    <3>1. incomplete' = RemoveFirst(incomplete, b) /\ complete' = complete \cup {b}
      BY <1>3, <2>1 DEF MarkComplete
    <3>2. ToSet(incomplete') = ToSet(incomplete) \ {b}
      BY <1>0, <1>4, <2>1, <3>1, Taken DEF ListedOnce
    <3>3. isCompleteBuffer(size[b])
      BY <1>4, <1>5, <2>1, Full
    <3>. QED  BY <2>1, <3>1, <3>2, <3>3
  <2>2. CASE ~(isCompleteBuffer(syncSize[u]) /\ b \in ToSet(incomplete))
    BY <1>3, <2>2 DEF MarkComplete, listVars
  <2>. QED  BY <2>1, <2>2
<1>8. /\ incomplete' \in Seq(Buffers) /\ complete' \subseteq Buffers
      /\ \A i, j \in DOMAIN incomplete' : incomplete'[i] = incomplete'[j] => i = j
  <2>1. CASE isCompleteBuffer(syncSize[u]) /\ b \in ToSet(incomplete)
    <3>1. incomplete' = RemoveFirst(incomplete, b) /\ complete' = complete \cup {b}
      BY <1>3, <2>1 DEF MarkComplete
    <3>. QED  BY <1>0, <1>4, <1>5, <2>1, <3>1, Taken DEF ListedOnce
  <2>2. CASE ~(isCompleteBuffer(syncSize[u]) /\ b \in ToSet(incomplete))
    BY <1>0, <1>3, <1>4, <2>2 DEF MarkComplete, listVars, ListedOnce
  <2>. QED  BY <2>1, <2>2
<1>9. Types'
  <2>1. /\ pc' \in [Uploads -> {"start", "append", "commit", "sync", "add", "packed", "uploading",
                               "done", "failed"}]
        /\ committed' \in [Uploads -> Nat]
    BY <1>1, <1>4, <1>5
  <2>2. durable' \in [Buffers -> Content]
    BY <1>2, <1>4
  <2>. QED  BY <1>0, <1>1, <1>6, <1>8, <2>1, <2>2 DEF Types
<1>10. Stored' = Stored
  BY <1>1 DEF Stored
<1>11. Fresh'
  <2>. SUFFICES ASSUME NEW v \in Uploads, MayCreate(v)' PROVE Unknown(v)'
    BY DEF Fresh
  <2>1. MayCreate(v)
    BY <1>1, <1>4 DEF MayCreate
  <2>2. Unknown(v)
    BY <1>0, <2>1 DEF Fresh
  <2>3. v # b
    BY <1>5, <2>2 DEF Unknown
  <2>4. row'[v] = "none" /\ size'[v] = 0 /\ v \notin ToSet(incomplete') /\ v \notin complete'
    BY <1>1, <1>7, <2>2, <2>3 DEF Unknown
  <2>5. \A j \in Jobs : job'[j].buffer # v
    BY <1>1, <2>2 DEF Unknown
  <2>. QED  BY <1>1, <1>10, <2>2, <2>4, <2>5, FreshStays
<1>12. ListedOnce'
  <2>1. \A d \in complete' : d \notin ToSet(incomplete') /\ isCompleteBuffer(size[d])
    BY <1>0, <1>7 DEF ListedOnce
  <2>. QED  BY <1>1, <1>8, <2>1 DEF ListedOnce, isCompleteBuffer
<1>13. ASSUME NEW v \in Uploads PROVE Appending(v)'
  <2>0. Appending(v)
    BY DEF LInv
  <2>1. CASE v = u
    <3>1. pc'[v] = "commit" /\ committed'[v] = committed[u] + 1 /\ slices' = slices /\ size' = size
      BY <1>1, <1>4, <2>1
    <3>2. committed'[v] <= Len(slices'[v])
      BY <1>5, <2>1, <3>1
    <3>3. \A i \in DOMAIN slices[v] : End(slices[v][i]) <= size[slices[v][i].slab]
      BY <1>1, <2>0, <2>1 DEF Appending, Ongoing
    <3>. QED  BY <3>1, <3>2, <3>3 DEF Appending, Ongoing
  <2>2. CASE v # u
    <3>1. pc'[v] = pc[v] /\ committed'[v] = committed[v]
      BY <1>1, <1>4, <2>2
    <3>2. pc[v] = "append" =>
            \A i \in DOMAIN todo[v] : todo[v][i] \in ToSet(incomplete') \/ isCompleteBuffer(size[todo[v][i]])
      BY <1>7, <2>0 DEF Appending
    <3>. QED  BY <1>1, <2>0, <3>1, <3>2 DEF Appending, Committing, isCompleteBuffer
  <2>. QED  BY <2>1, <2>2
<1>14. Filled'
  <2>. SUFFICES ASSUME NEW d \in Buffers, d \in ToSet(incomplete'), isCompleteBuffer(size[d])
                PROVE  \E v \in Uploads : Fills(v, d)'
    BY <1>1 DEF Filled, isCompleteBuffer
  <2>1. PICK v \in Uploads : Fills(v, d)
    BY <1>7 DEF LInv, Filled
  <2>2. PICK i \in committed[v] + 1..Len(slices[v]) :
          slices[v][i].slab = d /\ isCompleteBuffer(End(slices[v][i]))
    BY <2>1 DEF Fills
  <2>3. CASE v # u
    <3>1. pc'[v] = pc[v] /\ committed'[v] = committed[v]
      BY <1>1, <1>4, <2>3
    <3>2. Fills(v, d)'
      BY <1>1, <2>1, <3>1 DEF Fills, isCompleteBuffer, End
    <3>. QED  BY <3>2
  <2>4. CASE v = u
    <3>1. pc'[u] = "commit" /\ committed'[u] = committed[u] + 1
      BY <1>1, <1>4
    <3>2. i # c
      <4>. SUFFICES ASSUME i = c PROVE FALSE
        OBVIOUS
      <4>1. d = b /\ isCompleteBuffer(End(slices[u][c]))
        BY <1>5, <2>2, <2>4
      <4>2. End(slices[u][c]) \in Int /\ syncSize[u] \in Int
        BY <1>4, <1>5, SMTT(30) DEF End, Slice
      <4>3. isCompleteBuffer(syncSize[u])
        BY <1>5, <4>1, <4>2, Full
      <4>. QED  BY <1>7, <4>1, <4>3
    <3>3. i \in committed'[u] + 1..Len(slices'[u])
      BY <1>1, <1>5, <2>2, <2>4, <3>1, <3>2
    <3>4. Fills(u, d)'
      BY <1>1, <2>2, <2>4, <3>1, <3>3 DEF Fills, isCompleteBuffer, End
    <3>. QED  BY <3>4
  <2>. QED  BY <2>3, <2>4
<1>15. Rooted'
  BY <1>0, <1>1, <1>10 DEF Rooted
<1>. QED  BY <1>9, <1>11, <1>12, <1>13, <1>14, <1>15 DEF LInv

LEMMA RestartKeeps ==
  ASSUME LInv, NEW crash \in BOOLEAN, NEW alone \in BOOLEAN, Restart(crash, alone)
  PROVE  /\ LInv'
         /\ ToSet(incomplete') \cup complete' = BufferedRows
         /\ \A b \in BufferedRows : size'[b] = LoadedSize(b)
<1>0. Types /\ Fresh /\ Rooted /\ \A v \in Uploads : Appending(v)
  BY DEF LInv
<1>1. /\ restarts' = restarts + 1
      /\ incomplete' = SetToSeq(BufferedRows \ LoadedFull) /\ complete' = LoadedFull
      /\ size' = [b \in Buffers |-> IF b \in BufferedRows THEN LoadedSize(b) ELSE 0]
      /\ file' = IF crash THEN durable ELSE file
      /\ durable' = durable
      /\ pc' = [v \in Uploads |-> IF pc[v] \in Ongoing \/ (~alone /\ pc[v] \notin {"start", "done"})
                                  THEN "failed" ELSE pc[v]]
      /\ (job' = job /\ loop' = loop) \/ (job' = [j \in Jobs |-> NoJob] /\ loop' = "off")
      /\ todo' = todo /\ rest' = rest /\ slices' = slices /\ committed' = committed
      /\ syncSize' = syncSize /\ object' = object /\ part' = part /\ row' = row
      /\ sectors' = sectors /\ syncFailed' = syncFailed
  BY DEF Restart, workerVars, slabVars
<1>2. BufferedRows \subseteq Buffers /\ IsFiniteSet(BufferedRows \ LoadedFull)
  <2>1. BufferedRows \subseteq Uploads /\ BufferedRows \ LoadedFull \subseteq Uploads
    BY DEF BufferedRows, Buffers
  <2>. QED  BY <2>1, Constants, FS_Subset
<1>3. \A b \in Buffers : LoadedSize(b) \in 0..MaxSize
  BY <1>0, LoadedFacts
<1>4. /\ incomplete' \in Seq(BufferedRows \ LoadedFull) /\ ToSet(incomplete') = BufferedRows \ LoadedFull
      /\ \A i, j \in DOMAIN incomplete' : incomplete'[i] = incomplete'[j] => i = j
  BY <1>1, <1>2, Listing
<1>5. incomplete' \in Seq(Buffers)
  BY <1>2, <1>4
<1>6. Stored' = Stored
  BY <1>1 DEF Stored
<1>7. Types'
  <2>1. size' \in [Buffers -> 0..MaxSize]
    BY <1>1, <1>3, Constants
  <2>2. file' \in [Buffers -> Content] /\ durable' \in [Buffers -> Content]
    BY <1>0, <1>1 DEF Types
  <2>3. pc' \in [Uploads -> {"start", "append", "commit", "sync", "add", "packed", "uploading",
                             "done", "failed"}]
    BY <1>0, <1>1 DEF Types
  <2>4. job' \in [Jobs -> JobType] /\ loop' \in {"off", "run", "wait"}
    BY <1>0, <1>1, BlankType DEF Types
  <2>5. restarts' \in Nat /\ complete' \in SUBSET Buffers
    BY <1>0, <1>1, <1>2 DEF Types, LoadedFull
  <2>. QED  BY <1>0, <1>1, <1>5, <2>1, <2>2, <2>3, <2>4, <2>5 DEF Types
<1>8. Fresh'
  <2>. SUFFICES ASSUME NEW v \in Uploads, MayCreate(v)' PROVE Unknown(v)'
    BY DEF Fresh
  <2>1. MayCreate(v)
    BY <1>1 DEF MayCreate, Ongoing
  <2>2. Unknown(v) /\ v \in Buffers /\ v # None
    BY <1>0, <2>1, Constants DEF Fresh
  <2>3. v \notin BufferedRows
    BY <2>2 DEF Unknown, BufferedRows
  <2>4. row'[v] = "none" /\ size'[v] = 0 /\ v \notin ToSet(incomplete') /\ v \notin complete'
    BY <1>1, <1>4, <2>2, <2>3 DEF Unknown, LoadedFull
  <2>5. \A j \in Jobs : job'[j].buffer # v
    BY <1>1, <2>2 DEF Unknown, NoJob
  <2>. QED  BY <1>1, <1>6, <2>2, <2>4, <2>5, FreshStays
<1>9. ListedOnce'
  <2>1. ASSUME NEW b \in complete' PROVE b \notin ToSet(incomplete') /\ isCompleteBuffer(size'[b])
    <3>1. b \in BufferedRows /\ b \in Buffers /\ LoadedSize(b) >= MaxSize - Threshold
      BY <1>1, <1>2 DEF LoadedFull
    <3>2. LoadedSize(b) \in Int /\ LoadedSize(b) + Threshold >= MaxSize
      BY <1>3, <3>1, Constants
    <3>. QED  BY <1>1, <1>4, <3>1, <3>2 DEF isCompleteBuffer, LoadedFull
  <2>. QED  BY <1>4, <2>1 DEF ListedOnce, isCompleteBuffer
<1>10. ASSUME NEW v \in Uploads PROVE Appending(v)'
  <2>1. Appending(v)
    BY <1>0
  <2>2. pc'[v] \notin Ongoing /\ (pc'[v] \in {"start", "add"} => pc'[v] = pc[v])
    BY <1>0, <1>1 DEF Types, Ongoing
  <2>. QED  BY <1>1, <2>1, <2>2 DEF Appending, Ongoing
<1>11. Filled'
  <2>. SUFFICES ASSUME NEW b \in Buffers, b \in ToSet(incomplete') PROVE ~isCompleteBuffer(size'[b])
    BY DEF Filled, isCompleteBuffer
  <2>1. b \in BufferedRows /\ ~(LoadedSize(b) >= MaxSize - Threshold)
    BY <1>4 DEF LoadedFull
  <2>. QED  BY <1>1, <1>3, <2>1, Constants DEF isCompleteBuffer
<1>12. Rooted'
  BY <1>0, <1>1, <1>6 DEF Rooted
<1>. QED  BY <1>1, <1>2, <1>4, <1>7, <1>8, <1>9, <1>10, <1>11, <1>12 DEF LInv, LoadedFull

LEMMA LInit == Init => LInv
<1>. SUFFICES ASSUME Init PROVE LInv
  OBVIOUS
<1>1. Types
  <2>1. \A u \in Uploads : Length[u] \in 0..MaxSize
    <3>1. MaxSize \in Nat /\ \A u \in Uploads : Length[u] \in 1..MaxSize
      BY Constants
    <3>. QED  BY <3>1
  <2>2. Length \in [Uploads -> 0..MaxSize] /\ MaxSize \in Nat
    BY <2>1, StoreAssumption
  <2>3. rest = Length /\ rest \in [Uploads -> 0..MaxSize] /\ \A u \in Uploads : rest[u] <= Length[u]
    <3>1. rest = Length
      BY DEF Init
    <3>2. \A u \in Uploads : Length[u] <= Length[u]
      BY <2>1, <2>2
    <3>. QED  BY <2>2, <3>1, <3>2
  <2>4. <<>> \in Seq(Buffers) /\ <<>> \in Seq(Slice) /\ 0 \in 0..MaxSize
    BY <2>2
  <2>5. /\ file \in [Buffers -> Content] /\ durable \in [Buffers -> Content]
        /\ sectors \in [Buffers -> Content] /\ job \in [Jobs -> JobType]
    BY BlankType DEF Init
  <2>. QED  BY <2>3, <2>4, <2>5 DEF Init, Types
<1>2. \A s : s \notin Stored
  BY StoredSlices DEF Init, StoredIs
<1>3. Fresh
  <2>1. ASSUME NEW u \in Uploads PROVE Unknown(u)
    <3>1. u \in Buffers /\ u # None
      BY Constants
    <3>. QED  BY <1>2, <3>1 DEF Init, Unknown, NoJob, ToSet
  <2>. QED  BY <2>1 DEF Fresh
<1>. QED  BY <1>1, <1>2, <1>3 DEF Init, LInv, ListedOnce, Appending, Filled, Rooted, Ongoing, ToSet

LEMMA LNext == LInv /\ [Next]_vars => LInv'
<1>. SUFFICES ASSUME LInv, [Next]_vars PROVE LInv'
  OBVIOUS
<1>1. CASE \E u \in Uploads : Upload(u) \/ CreateFails(u) \/ AddFails(u) \/ UploadsOne(u)
         \/ UploadsOneFails(u)
  <2>. SUFFICES ASSUME NEW u \in Uploads,
                       Upload(u) \/ CreateFails(u) \/ AddFails(u) \/ UploadsOne(u)
         \/ UploadsOneFails(u)
                PROVE  LInv'
    BY <1>1
  <2>1. CASE Lists(u)
    BY <2>1, ListsKeeps
  <2>2. CASE Appends(u)
    BY <2>2, AppendsKeeps
  <2>3. CASE CreatesBuffer(u)
    BY <2>3, CreatesBufferKeeps
  <2>4. CASE Syncs(u)
    BY <2>4, SyncsKeeps
  <2>5. CASE AppendsDone(u) \/ CommitStarts(u) \/ Replies(u) \/ CreateFails(u) \/ AddFails(u)
    BY <2>5, MovesCalmly, QuietKeeps DEF Calm
  <2>6. CASE AddObject(u) \/ AddMultipartPart(u)
    BY <2>6, AddsCalmly, QuietKeeps DEF Calm
  <2>7. CASE UploadsOne(u) \/ UploadsOneFails(u) \/ StartsLoop(u)
    BY <2>7, WorksCalmly, QuietKeeps DEF Calm
  <2>. QED  BY <2>1, <2>2, <2>3, <2>4, <2>5, <2>6, <2>7 DEF Upload
<1>2. CASE Operations
  BY <1>2, OperatesCalmly, QuietKeeps DEF Calm
<1>3. CASE PruneSlabs
  BY <1>3, PrunesCalmly, QuietKeeps DEF Calm
<1>4. CASE Loop \/ LoopFetchFails \/ (\E j \in Jobs : UploadFails(j)) \/ \E b \in Buffers : LockExpires(b)
  BY <1>4, WorksCalmly, QuietKeeps DEF Calm
<1>5. CASE \E j \in Jobs : Job(j)
  BY <1>5, RemovesQuietly, QuietKeeps DEF Job
<1>6. CASE \E crash, alone \in BOOLEAN : Restart(crash, alone)
  BY <1>6, RestartKeeps
<1>7. CASE UNCHANGED vars
  <2>1. Types'
    BY <1>7 DEF LInv, Types, vars, uploadVars, listVars, bufferVars, fileVars, objectVars, slabVars,
               workerVars, boundVars, syncVars
  <2>2. Quiet
    BY <1>7 DEF LInv, Quiet, Moves, Stored, Rooted, vars, uploadVars, listVars, bufferVars, fileVars,
               objectVars, slabVars, workerVars, boundVars, syncVars
  <2>. QED  BY <2>1, <2>2, QuietKeeps
<1>. QED  BY <1>1, <1>2, <1>3, <1>4, <1>5, <1>6, <1>7 DEF Next

\* The lists and the appends under way are consistent, wherever the worker runs.
THEOREM ListsConsistent == Spec => []LInv
<1>. QED  BY LInit, LNext, PTL DEF Spec

\* The state has its types: no buffer and no slice exceeds the size of a slab.
THEOREM TypeCorrect == Spec => []TypeOK
<1>1. LInv => TypeOK
  BY DEF LInv, Types, TypeOK
<1>. QED  BY <1>1, ListsConsistent, PTL

\* A full buffer that is still listed as incomplete is not forgotten: the upload that
\* filled it has yet to commit its slice, or failed before it did.
THEOREM FullBufferIsHandedOnHolds == Spec => []FullBufferIsHandedOn
<1>1. LInv => FullBufferIsHandedOn
  <2>. SUFFICES ASSUME LInv, NEW b \in ToSet(incomplete), isCompleteBuffer(size[b])
                PROVE  \E u \in Uploads :
                         /\ pc[u] \in {"append", "commit", "sync", "failed"}
                         /\ \E i \in committed[u] + 1..Len(slices[u]) : slices[u][i].slab = b
    BY DEF FullBufferIsHandedOn
  <2>1. b \in Buffers
    BY DEF LInv, Types, ToSet
  <2>. QED  BY <2>1 DEF LInv, Filled, Fills
<1>. QED  BY <1>1, ListsConsistent, PTL

-----------------------------------------------------------------------------
(* The bytes. *)

CommittedOf(s, u) == \E i \in DOMAIN slices[u] : i <= committed[u] /\ slices[u][i] = s

LEMMA Promises ==
  /\ \A s : s \in Promised <=> \/ s \in Stored
                               \/ s \in Slice /\ \E u \in Uploads : pc[u] \in Promising /\ SliceOf(s, u)
  /\ \A s : s \in Promised' <=> \/ s \in Stored'
                                \/ s \in Slice /\ \E u \in Uploads : pc'[u] \in Promising /\ SliceOf(s, u)'
  /\ \A s : s \in Secured <=> \/ s \in Stored
                              \/ s \in Slice /\ \E u \in Uploads : pc[u] \in Promising /\ CommittedOf(s, u)
  /\ \A s : s \in Secured' <=> \/ s \in Stored'
                               \/ s \in Slice /\ \E u \in Uploads : pc'[u] \in Promising /\ CommittedOf(s, u)'
BY DEF Promised, Secured, SliceOf, CommittedOf

LEMMA PromisedTypes ==
  ASSUME Types
  PROVE  /\ Promised \subseteq Slice /\ Secured \subseteq Promised
         /\ \A s \in Slice : s.slab \in Buffers /\ End(s) \in Nat /\ End(s) <= MaxSize
<1>1. Promised \subseteq Slice
  BY StoredTypes, Promises
<1>2. Secured \subseteq Promised
  BY Promises DEF CommittedOf, SliceOf
<1>3. \A s \in Slice : s.slab \in Buffers /\ End(s) \in Nat /\ End(s) <= MaxSize
  BY DEF Slice, End
<1>. QED  BY <1>1, <1>2, <1>3

\* The bytes of a slice are within its content.
LEMMA HoldsSame ==
  ASSUME NEW s \in Slice, NEW c, NEW d, \A i \in Offsets : i < End(s) => d[i] = c[i], Holds(c, s)
  PROVE  Holds(d, s)
<1>. SUFFICES ASSUME NEW i \in 0..s.length - 1
              PROVE d[s.offset + i] = [src |-> s.src, at |-> s.from + i]
  BY DEF Holds
<1>1. s.offset \in Nat /\ s.length \in Nat /\ s.offset + s.length <= MaxSize
  BY DEF Slice
<1>2. s.offset + i \in Offsets /\ s.offset + i < End(s)
  BY <1>1, Constants DEF End
<1>. QED  BY <1>2 DEF Holds

\* A slice finds after the step what it found before, if it was uploaded meanwhile, too.
Same(s) ==
  /\ s \in Promised /\ size[s.slab] <= size'[s.slab]
  /\ row'[s.slab] = "buffered" =>
       /\ row[s.slab] = "buffered"
       /\ \A i \in Offsets : i < size[s.slab] => file'[s.slab][i] = file[s.slab][i]
  /\ row'[s.slab] = "uploaded" =>
       \/ row[s.slab] = "uploaded" /\ sectors'[s.slab] = sectors[s.slab]
       \/ Holds(sectors'[s.slab], s)

\* What the bytes need of a step.
LEMMA BytesKept ==
  ASSUME LInv, BInv, Types', Listed', \A j \in Jobs : Read(job[j])',
         spoiled' = spoiled, syncFailed \subseteq syncFailed',
         \A s \in Promised' :
           \/ s.slab \in spoiled
           \/ Same(s)
           \/ Readable(s)' /\ (row'[s.slab] = "buffered" => End(s) <= size'[s.slab]),
         \A s \in Secured' : row'[s.slab] = "buffered" =>
           \/ s \in Secured /\ row[s.slab] = "buffered" /\ durable'[s.slab] = durable[s.slab]
           \/ s.slab \in spoiled \/ s.slab \in syncFailed' \/ Holds(durable'[s.slab], s)
  PROVE  BInv'
<1>0. Types /\ size \in [Buffers -> 0..MaxSize] /\ size' \in [Buffers -> 0..MaxSize] /\ MaxSize \in Nat
  BY Constants DEF LInv, Types
<1>1. ASSUME NEW s \in Promised', Same(s), s.slab \notin spoiled
      PROVE  /\ row'[s.slab] = "buffered" => End(s) <= size'[s.slab]
             /\ Readable(s)'
  <2>1. s \in Slice /\ s.slab \in Buffers /\ End(s) \in Nat
    BY <1>0, <1>1, PromisedTypes DEF Same
  <2>2. row[s.slab] = "buffered" => End(s) <= size[s.slab]
    BY <1>1 DEF BInv, Same
  <2>3. size[s.slab] \in Int /\ size'[s.slab] \in Int
    BY <1>0, <2>1
  <2>4. row[s.slab] = "buffered" => \A i \in Offsets : i < End(s) => i < size[s.slab]
    BY <2>1, <2>2, <2>3, Constants
  <2>5. Readable(s)
    BY <1>1 DEF BInv, Same
  <2>6. Readable(s)'
    <3>1. ASSUME row'[s.slab] = "buffered" PROVE Holds(file'[s.slab], s)
      <4>1. /\ row[s.slab] = "buffered" /\ Holds(file[s.slab], s)
            /\ \A i \in Offsets : i < End(s) => file'[s.slab][i] = file[s.slab][i]
        BY <1>1, <2>4, <2>5, <3>1 DEF Readable, Same
      <4>. QED  BY <2>1, <4>1, HoldsSame
    <3>2. ASSUME row'[s.slab] = "uploaded" PROVE Holds(sectors'[s.slab], s)
      BY <1>1, <2>5, <3>2 DEF Readable, Same
    <3>. QED  BY <3>1, <3>2 DEF Readable, Holds
  <2>. QED  BY <1>1, <2>1, <2>2, <2>3, <2>6 DEF Same
<1>2. ASSUME NEW s \in Secured', row'[s.slab] = "buffered"
      PROVE  s.slab \in spoiled \/ s.slab \in syncFailed' \/ Holds(durable'[s.slab], s)
  BY <1>2 DEF BInv
<1>3. ASSUME NEW s \in Promised'
      PROVE  /\ row'[s.slab] = "buffered" => s.slab \in spoiled \/ End(s) <= size'[s.slab]
             /\ s.slab \in spoiled \/ Readable(s)'
  BY <1>1
<1>. QED  BY <1>2, <1>3 DEF BInv, End, Holds

\* An upload that reads a complete buffer has its bytes.
LEMMA ReadingIsRead ==
  ASSUME Types, BInv, NEW b \in complete
  PROVE  Read(Reading(b))
<1>1. b \in Buffers /\ size[b] \in 0..MaxSize /\ MaxSize \in Nat /\ file[b] \in Content
  BY Constants DEF Types
<1>2. Reading(b).buffer = b /\ ~Reading(b).marked
      /\ \A i \in Offsets : i < size[b] => Reading(b).data[i] = file[b][i]
  BY DEF Reading
<1>3. ASSUME row[b] = "buffered", b \notin spoiled, NEW s \in Promised, s.slab = b
      PROVE  Holds(Reading(b).data, s)
  <2>1. s \in Slice /\ End(s) \in Nat /\ End(s) <= size[b] /\ Holds(file[b], s)
    BY <1>3, PromisedTypes DEF BInv, Readable
  <2>2. \A i \in Offsets : i < End(s) => Reading(b).data[i] = file[b][i]
    BY <1>1, <1>2, <2>1, Constants
  <2>. QED  BY <2>1, <2>2, HoldsSame
<1>. QED  BY <1>1, <1>2, <1>3 DEF Read, Copies

\* And it keeps them.
LEMMA ReadStays ==
  ASSUME NEW jb, Read(jb), spoiled' = spoiled,
         row'[jb.buffer] = "buffered" => row[jb.buffer] = "buffered",
         jb.buffer \in complete => jb.buffer \in complete',
         jb.buffer \in spoiled \/ \A s \in Promised' : s.slab = jb.buffer => s \in Promised
  PROVE  Read(jb)'
BY DEF Read, Copies, Holds

LEMMA CalmBytes ==
  ASSUME LInv, BInv, Types', Calm
  PROVE  BInv'
<1>0. Types /\ \A u \in Uploads : Moves(u) /\ Appending(u)
  BY DEF LInv, Calm, Quiet
<1>1. /\ slices' = slices /\ committed' = committed /\ incomplete' = incomplete /\ size' = size
      /\ file' = file /\ durable' = durable /\ sectors' = sectors /\ complete' = complete
      /\ syncFailed' = syncFailed /\ spoiled' = spoiled
  BY DEF Calm, Quiet
<1>2. \A b \in Buffers : row'[b] = row[b] \/ (row[b] # "buffered" /\ row'[b] \in {"none", "empty"})
  BY DEF Calm
<1>3. Listed'
  BY <1>1, <1>2 DEF BInv, Listed
<1>5. ASSUME NEW u \in Uploads, pc'[u] \in Promising
      PROVE  pc[u] \in Promising \/ slices[u] = <<>>
  BY <1>0, <1>5 DEF Moves, Appending, Promising, Types
<1>6. ASSUME NEW s \in Stored'
      PROVE  s \in Stored \/ \E u \in Uploads : pc[u] = "add" /\ SliceOf(s, u)
  BY DEF Calm
<1>7. ASSUME NEW s \in Promised' PROVE Same(s)
  <2>1. s \in Slice
    <3>1. CASE s \in Stored'
      <4>1. CASE s \in Stored
        BY <1>0, <4>1, StoredTypes
      <4>2. CASE \E u \in Uploads : SliceOf(s, u)
        BY <1>0, <4>2 DEF SliceOf, Types
      <4>. QED  BY <1>6, <3>1, <4>1, <4>2
    <3>. QED  BY <3>1, Promises
  <2>2. s \in Promised
    <3>1. CASE s \in Stored'
      BY <1>6, <2>1, <3>1, Promises DEF Promising
    <3>2. CASE \E u \in Uploads : pc'[u] \in Promising /\ SliceOf(s, u)'
      BY <1>1, <1>5, <2>1, <3>2, Promises DEF SliceOf
    <3>. QED  BY <3>1, <3>2, Promises
  <2>3. s.slab \in Buffers /\ size[s.slab] \in Int
    <3>1. s.slab \in Buffers
      BY <2>1, PromisedTypes, <1>0
    <3>. QED  BY <1>0, <3>1 DEF Types
  <2>. QED  BY <1>1, <1>2, <2>2, <2>3 DEF Same
<1>4. ASSUME NEW j \in Jobs PROVE Read(job[j])'
  <2>1. job'[j] \in {NoJob, job[j]} \cup {Reading(b) : b \in complete}
    BY DEF Calm
  <2>2. ASSUME NEW jb, Read(jb), jb = job'[j] PROVE Read(job[j])'
    <3>1. CASE jb = NoJob
      BY <2>2, <3>1 DEF Read, NoJob, Blank
    <3>2. CASE jb # NoJob
      <4>1. jb.buffer \in Buffers
        BY <2>2, <3>2 DEF Read
      <4>2. row'[jb.buffer] = "buffered" => row[jb.buffer] = "buffered"
        BY <1>2, <4>1
      <4>3. \A s \in Promised' : s.slab = jb.buffer => s \in Promised
        BY <1>7 DEF Same
      <4>4. Read(jb)'
        BY <1>1, <2>2, <4>2, <4>3, ReadStays
      <4>. QED  BY <2>2, <4>4
    <3>. QED  BY <3>1, <3>2
  <2>3. Read(NoJob)
    BY DEF Read
  <2>. QED  BY <1>0, <2>1, <2>2, <2>3, ReadingIsRead DEF BInv
<1>8. ASSUME NEW s \in Secured', row'[s.slab] = "buffered"
      PROVE  s \in Secured /\ row[s.slab] = "buffered"
  <2>1. s \in Promised'
    BY Promises DEF CommittedOf, SliceOf
  <2>2. s \in Promised /\ row[s.slab] = "buffered"
    BY <1>7, <1>8, <2>1 DEF Same
  <2>3. s \in Slice
    BY <1>0, <2>2, PromisedTypes
  <2>4. CASE s \in Stored'
    <3>1. CASE s \in Stored
      BY <2>2, <3>1, Promises
    <3>2. ASSUME NEW u \in Uploads, pc[u] = "add", SliceOf(s, u) PROVE s \in Secured
      <4>1. committed[u] = Len(slices[u]) /\ slices[u] \in Seq(Slice)
        BY <1>0, <3>2 DEF Appending, Types
      <4>2. CommittedOf(s, u)
        BY <3>2, <4>1 DEF CommittedOf, SliceOf
      <4>. QED  BY <2>3, <3>2, <4>2, Promises DEF Promising
    <3>. QED  BY <1>6, <2>2, <2>4, <3>1, <3>2
  <2>5. CASE \E u \in Uploads : pc'[u] \in Promising /\ CommittedOf(s, u)'
    BY <1>1, <1>5, <2>2, <2>3, <2>5, Promises DEF CommittedOf
  <2>. QED  BY <2>4, <2>5, Promises
<1>9. \A s \in Secured' : row'[s.slab] = "buffered" =>
        \/ s \in Secured /\ row[s.slab] = "buffered" /\ durable'[s.slab] = durable[s.slab]
        \/ s.slab \in spoiled \/ s.slab \in syncFailed' \/ Holds(durable'[s.slab], s)
  BY <1>1, <1>8
<1>. QED  BY <1>1, <1>3, <1>4, <1>7, <1>9, BytesKept

LEMMA ListsBytes ==
  ASSUME LInv, BInv, Types', NEW u \in Uploads, Lists(u)
  PROVE  BInv'
<1>1. /\ pc[u] = "start" /\ pc' = [pc EXCEPT ![u] = "append"]
      /\ slices' = slices /\ committed' = committed
      /\ incomplete' = incomplete /\ complete' = complete /\ size' = size /\ syncFailed' = syncFailed
      /\ file' = file /\ durable' = durable /\ row' = row /\ sectors' = sectors /\ object' = object
      /\ part' = part /\ job' = job /\ spoiled' = spoiled
  BY DEF Lists, listVars, bufferVars, fileVars, slabVars, objectVars, workerVars, boundVars, syncVars
<1>2. Types /\ slices[u] = <<>> /\ Stored' = Stored
  BY <1>1 DEF LInv, Appending, Stored
<1>3. \A v \in Uploads : v = u \/ pc'[v] = pc[v]
  BY <1>1
<1>4. \A s \in Promised' : s \in Promised
  BY <1>1, <1>2, <1>3, Promises DEF SliceOf
<1>5. \A s \in Secured' : s \in Secured
  BY <1>1, <1>2, <1>3, Promises DEF CommittedOf
<1>6. ASSUME NEW j \in Jobs PROVE Read(job[j])'
  <2>1. ASSUME NEW jb, jb = job[j] PROVE Read(jb)'
    BY <1>1, <1>4, <2>1, ReadStays DEF BInv
  <2>. QED  BY <1>1, <2>1
<1>. QED  BY <1>1, <1>4, <1>5, <1>6 DEF BInv, Listed, Readable

\* A slice at the end of a listed or a new buffer disturbs no other.
LEMMA RecordBytes ==
  ASSUME LInv, BInv, Types', Listed', NEW u \in Uploads, NEW b \in Buffers, NEW n \in Nat,
         pc[u] = "append", n <= rest[u], size[b] + n <= MaxSize, Record(b, u, n),
         b \notin complete,
         \/ row' = row /\ (row[b] = "buffered" \/ b \in spoiled)
         \/ row' = [row EXCEPT ![b] = "buffered"] /\ Unknown(b),
         pc' = pc, committed' = committed, complete' = complete, durable' = durable,
         sectors' = sectors, object' = object, part' = part, job' = job, spoiled' = spoiled,
         syncFailed' = syncFailed
  PROVE  BInv'
<1>0. Types /\ Appending(u) /\ Stored' = Stored
  BY DEF LInv, Stored
<1>1. PICK s \in Slice : Placed(s, u, b, n)
  BY <1>0, RecordFacts
<1>2. /\ size' = [size EXCEPT ![b] = size[b] + n]
      /\ \A c \in Buffers : \A i \in Offsets : c # b \/ i < size[b] => file'[c][i] = file[c][i]
  BY <1>0, RecordFacts
<1>3. /\ size \in [Buffers -> 0..MaxSize] /\ slices \in [Uploads -> Seq(Slice)] /\ MaxSize \in Nat
      /\ row \in [Buffers -> {"none", "buffered", "uploaded", "empty"}]
      /\ committed \in [Uploads -> Nat] /\ committed[u] = 0
      /\ job \in [Jobs -> JobType]
  BY <1>0, Constants DEF Types, Appending
<1>4. /\ \A c \in Buffers : size[c] \in Int /\ size'[c] \in Int /\ size[c] <= size'[c]
      /\ \A c \in Buffers : c # b => row'[c] = row[c]
      /\ row'[b] = "buffered" \/ (b \in spoiled /\ row' = row)
      /\ size'[b] = size[b] + n
  BY <1>2, <1>3
<1>5. \A t : \A v \in Uploads : SliceOf(t, v)' => SliceOf(t, v) \/ t = s
  <2>. SUFFICES ASSUME NEW v \in Uploads, NEW i \in DOMAIN slices'[v], slices'[v][i] # s
                PROVE  \E k \in DOMAIN slices[v] : slices[v][k] = slices'[v][i]
    BY DEF SliceOf
  <2>1. CASE v = u
    <3>1. slices'[v] = Append(slices[u], s) /\ slices[u] \in Seq(Slice)
      BY <1>1, <1>3, <2>1 DEF Placed
    <3>2. i \in DOMAIN slices[u] /\ slices'[v][i] = slices[u][i]
      BY <3>1
    <3>. QED  BY <2>1, <3>2
  <2>2. CASE v # u
    BY <1>1, <1>3, <2>2 DEF Placed
  <2>. QED  BY <2>1, <2>2
<1>6. s.slab = b /\ (b \in spoiled \/ Readable(s)') /\ End(s) <= size'[s.slab]
  BY <1>1, <1>4 DEF Readable, Holds, End, Placed
<1>7. ASSUME NEW t \in Promised, Unknown(b) PROVE t.slab # b
  BY <1>7, Promises DEF Unknown, SliceOf
<1>8. ASSUME NEW t \in Promised', t # s PROVE t.slab \in spoiled \/ Same(t)
  <2>1. t \in Promised
    BY <1>0, <1>5, <1>8, Promises
  <2>2. t \in Slice /\ t.slab \in Buffers
    BY <1>0, <2>1, PromisedTypes
  <2>3. CASE t.slab = b
    <3>1. row[b] = "buffered" \/ b \in spoiled
      BY <1>7, <2>1, <2>3
    <3>. QED  BY <1>2, <1>4, <2>1, <2>2, <2>3, <3>1 DEF Same
  <2>4. CASE t.slab # b
    BY <1>2, <1>4, <2>1, <2>2, <2>4 DEF Same
  <2>. QED  BY <2>3, <2>4
<1>9. ASSUME NEW t \in Secured', row'[t.slab] = "buffered"
      PROVE  t.slab \in spoiled \/ (t \in Secured /\ row[t.slab] = "buffered")
  <2>1. ASSUME NEW v \in Uploads, CommittedOf(t, v)' PROVE CommittedOf(t, v)
    <3>1. PICK i \in DOMAIN slices'[v] : i <= committed[v] /\ slices'[v][i] = t
      BY <2>1 DEF CommittedOf
    <3>2. v # u
      <4>1. slices'[v] \in Seq(Slice)
        BY DEF Types
      <4>. QED  BY <1>3, <3>1, <4>1
    <3>. QED  BY <1>1, <1>3, <3>1, <3>2 DEF CommittedOf, Placed
  <2>2. t \in Secured
    BY <1>0, <2>1, Promises
  <2>3. t \in Promised /\ t.slab \in Buffers
    <3>1. t \in Promised /\ t \in Slice
      BY <1>0, <2>2, PromisedTypes
    <3>. QED  BY <1>0, <3>1, PromisedTypes
  <2>. QED  BY <1>4, <1>7, <1>9, <2>2, <2>3
<1>10. ASSUME NEW j \in Jobs PROVE Read(job[j])'
  <2>. SUFFICES ASSUME NEW jb, jb = job[j], jb # NoJob PROVE Read(jb)'
    BY DEF Read
  <2>1. Read(jb)
    BY DEF BInv
  <2>2. jb.buffer \in Buffers
    BY <2>1 DEF Read
  <2>3. jb.buffer # b \/ b \in spoiled \/ row[b] # "buffered"
    BY <2>1 DEF Read
  <2>4. CASE jb.buffer # b
    <3>1. row'[jb.buffer] = row[jb.buffer]
      BY <1>4, <2>2, <2>4
    <3>2. ASSUME NEW t \in Promised', t.slab = jb.buffer PROVE t \in Promised
      BY <1>0, <1>5, <1>6, <2>4, <3>2, Promises
    <3>. QED  BY <2>1, <3>1, <3>2, ReadStays
  <2>5. CASE jb.buffer = b
    <3>1. ~Unknown(b)
      BY <2>5 DEF Unknown
    <3>2. row' = row /\ b \in spoiled
      BY <2>3, <2>5, <3>1
    <3>. QED  BY <2>1, <2>5, <3>2 DEF Read
  <2>. QED  BY <2>4, <2>5
<1>11. \A t \in Promised' :
         \/ t.slab \in spoiled
         \/ Same(t)
         \/ Readable(t)' /\ (row'[t.slab] = "buffered" => End(t) <= size'[t.slab])
  BY <1>6, <1>8
<1>12. \A t \in Secured' : row'[t.slab] = "buffered" =>
         \/ t \in Secured /\ row[t.slab] = "buffered" /\ durable'[t.slab] = durable[t.slab]
         \/ t.slab \in spoiled \/ t.slab \in syncFailed' \/ Holds(durable'[t.slab], t)
  BY <1>9
<1>. QED  BY <1>10, <1>11, <1>12, BytesKept

LEMMA AppendsBytes ==
  ASSUME LInv, BInv, Types', NEW u \in Uploads, Appends(u)
  PROVE  BInv'
<1>. DEFINE b == Head(todo[u])
            f == Fitting(b, u)
<1>0. Types /\ ListedOnce /\ Appending(u)
  BY DEF LInv
<1>1. /\ pc[u] = "append" /\ todo[u] # <<>> /\ pc' = pc /\ committed' = committed
      /\ incomplete' = incomplete /\ complete' = complete /\ syncFailed' = syncFailed
      /\ durable' = durable /\ row' = row /\ sectors' = sectors /\ object' = object
      /\ part' = part /\ job' = job /\ spoiled' = spoiled
  BY DEF Appends, listVars, slabVars, objectVars, workerVars, boundVars, syncVars
<1>2. /\ todo \in [Uploads -> Seq(Buffers)] /\ rest \in [Uploads -> 0..MaxSize]
      /\ size \in [Buffers -> 0..MaxSize] /\ MaxSize \in Nat /\ Threshold \in Nat
      /\ row \in [Buffers -> {"none", "buffered", "uploaded", "empty"}]
  BY <1>0, Constants DEF Types
<1>3. b \in Buffers /\ b = todo[u][1] /\ 1 \in DOMAIN todo[u]
  BY <1>1, <1>2
<1>4. b \in ToSet(incomplete) \/ isCompleteBuffer(size[b])
  BY <1>0, <1>1, <1>3 DEF Appending
<1>5. Listed'
  BY <1>1 DEF BInv, Listed
<1>. HIDE DEF b
<1>6. CASE f > 0
  <2>1. /\ Record(b, u, f) /\ f \in Nat /\ f <= rest[u] /\ size[b] + f <= MaxSize
        /\ ~isCompleteBuffer(size[b])
    <3>1. Record(b, u, f)
      BY <1>6 DEF Appends, b
    <3>2. size[b] \in 0..MaxSize /\ rest[u] \in 0..MaxSize
      BY <1>2, <1>3
    <3>. QED  BY <1>2, <1>6, <3>1, <3>2 DEF Fitting, isCompleteBuffer
  <2>. HIDE DEF f
  <2>2. (row[b] = "buffered" \/ b \in spoiled) /\ b \notin complete
    BY <1>0, <1>3, <1>4, <2>1 DEF BInv, Listed, ListedOnce
  <2>. QED  BY <1>1, <1>3, <1>5, <2>1, <2>2, RecordBytes
<1>7. CASE ~(f > 0)
  <2>1. file' = file /\ slices' = slices /\ size' = size
    BY <1>7 DEF Appends, b
  <2>2. Stored' = Stored
    BY <1>1 DEF Stored
  <2>3. \A s : (s \in Promised' <=> s \in Promised) /\ (s \in Secured' <=> s \in Secured)
    BY <1>1, <2>1, <2>2, Promises DEF SliceOf, CommittedOf
  <2>4. ASSUME NEW j \in Jobs PROVE Read(job[j])'
    <3>1. ASSUME NEW jb, jb = job[j] PROVE Read(jb)'
      BY <1>1, <2>3, <3>1, ReadStays DEF BInv
    <3>. QED  BY <1>1, <3>1
  <2>. QED  BY <1>1, <2>1, <2>3, <2>4 DEF BInv, Listed, Readable
<1>. QED  BY <1>6, <1>7

LEMMA CreatesBufferBytes ==
  ASSUME LInv, BInv, Types', NEW u \in Uploads, CreatesBuffer(u)
  PROVE  BInv'
<1>0. Types /\ Fresh
  BY DEF LInv
<1>1. /\ pc[u] = "append" /\ rest[u] > 0 /\ Record(u, u, rest[u])
      /\ incomplete' = Append(incomplete, u) /\ row' = [row EXCEPT ![u] = "buffered"]
      /\ pc' = pc /\ committed' = committed /\ complete' = complete /\ syncFailed' = syncFailed
      /\ durable' = durable /\ sectors' = sectors /\ object' = object
      /\ part' = part /\ job' = job /\ spoiled' = spoiled
  BY DEF CreatesBuffer, objectVars, workerVars, boundVars, syncVars
<1>2. Unknown(u) /\ size[u] = 0 /\ u \notin complete
  BY <1>0, <1>1 DEF Fresh, MayCreate, Unknown
<1>3. /\ rest \in [Uploads -> 0..MaxSize] /\ incomplete \in Seq(Buffers) /\ u \in Buffers
      /\ row \in [Buffers -> {"none", "buffered", "uploaded", "empty"}] /\ MaxSize \in Nat
  BY <1>0, Constants DEF Types
<1>4. rest[u] \in Nat /\ size[u] + rest[u] <= MaxSize /\ rest[u] <= rest[u]
  BY <1>2, <1>3
<1>5. \A d : d \in ToSet(incomplete') <=> d \in ToSet(incomplete) \/ d = u
  <2>1. /\ DOMAIN incomplete' = 1..Len(incomplete) + 1 /\ DOMAIN incomplete = 1..Len(incomplete)
        /\ Len(incomplete) \in Nat /\ incomplete'[Len(incomplete) + 1] = u
        /\ \A i \in 1..Len(incomplete) : incomplete'[i] = incomplete[i]
    <3>1. DOMAIN incomplete = 1..Len(incomplete) /\ Len(incomplete) \in Nat
      BY <1>3
    <3>. QED  BY <1>1, <1>3, <3>1
  <2>2. \A i \in 1..Len(incomplete) + 1 : i \in 1..Len(incomplete) \/ i = Len(incomplete) + 1
    BY <2>1
  <2>3. Len(incomplete) + 1 \in 1..Len(incomplete) + 1 /\ 1..Len(incomplete) \subseteq 1..Len(incomplete) + 1
    BY <2>1
  <2>. QED  BY <2>1, <2>2, <2>3 DEF ToSet
<1>6. Listed'
  BY <1>1, <1>3, <1>5 DEF BInv, Listed
<1>. QED  BY <1>1, <1>2, <1>3, <1>4, <1>6, RecordBytes

LEMMA SyncsBytes ==
  ASSUME LInv, BInv, Types', NEW u \in Uploads, Syncs(u)
  PROVE  BInv'
<1>. DEFINE b == Committing(u)
            c == committed[u] + 1
<1>0. Types /\ ListedOnce /\ Appending(u)
  BY DEF LInv
<1>1. /\ pc[u] = "sync" /\ pc' = [pc EXCEPT ![u] = "commit"]
      /\ committed' = [committed EXCEPT ![u] = committed[u] + 1]
      /\ slices' = slices /\ size' = size /\ file' = file /\ row' = row /\ sectors' = sectors
      /\ object' = object /\ part' = part /\ job' = job /\ spoiled' = spoiled
  BY DEF Syncs, objectVars, slabVars, workerVars
<1>2. /\ \/ b \in ToSet(incomplete) \cup complete /\ durable' = [durable EXCEPT ![b] = file[b]]
            /\ syncFailed' = syncFailed
         \/ syncFailed' = syncFailed \cup {b} /\ durable' = durable
         \/ b \notin ToSet(incomplete) \cup complete /\ durable' = durable /\ syncFailed' = syncFailed
      /\ MarkComplete(u, b)
  BY DEF Syncs
<1>3. /\ pc \in [Uploads -> {"start", "append", "commit", "sync", "add", "packed", "uploading",
                             "done", "failed"}]
      /\ committed \in [Uploads -> Nat] /\ slices \in [Uploads -> Seq(Slice)]
      /\ incomplete \in Seq(Buffers) /\ durable \in [Buffers -> Content]
  BY <1>0 DEF Types
<1>4. c \in DOMAIN slices[u] /\ slices[u][c] \in Slice /\ b = slices[u][c].slab /\ b \in Buffers
  <2>1. committed[u] \in Nat /\ Len(slices[u]) \in Nat /\ committed[u] < Len(slices[u])
    BY <1>0, <1>1, <1>3 DEF Appending
  <2>2. c \in DOMAIN slices[u] /\ slices[u][c] \in Slice
    BY <1>3, <2>1
  <2>. QED  BY <2>2 DEF Committing, Slice
<1>. HIDE DEF b
<1>5. /\ complete \subseteq complete' /\ ToSet(incomplete') \subseteq ToSet(incomplete)
      /\ ToSet(incomplete) \cup complete \subseteq ToSet(incomplete') \cup complete'
  <2>1. CASE isCompleteBuffer(syncSize[u]) /\ b \in ToSet(incomplete)
    <3>1. incomplete' = RemoveFirst(incomplete, b) /\ complete' = complete \cup {b}
      BY <1>2, <2>1 DEF MarkComplete
    <3>2. ToSet(incomplete') = ToSet(incomplete) \ {b}
      BY <1>0, <1>3, <2>1, <3>1, Taken DEF ListedOnce
    <3>. QED  BY <3>1, <3>2
  <2>2. CASE ~(isCompleteBuffer(syncSize[u]) /\ b \in ToSet(incomplete))
    BY <1>2, <2>2 DEF MarkComplete, listVars
  <2>. QED  BY <2>1, <2>2
<1>6. Listed'
  BY <1>1, <1>5 DEF BInv, Listed
<1>8. Stored' = Stored
  BY <1>1 DEF Stored
<1>9. \A v \in Uploads : pc'[v] \in Promising => pc[v] \in Promising
  BY <1>1, <1>3 DEF Promising
<1>10. \A s \in Promised' : s \in Promised
  BY <1>1, <1>8, <1>9, Promises DEF SliceOf
<1>7. ASSUME NEW j \in Jobs PROVE Read(job[j])'
  <2>1. ASSUME NEW jb, jb = job[j] PROVE Read(jb)'
    BY <1>1, <1>5, <1>10, <2>1, ReadStays DEF BInv
  <2>. QED  BY <1>1, <2>1
<1>11. ASSUME NEW s \in Promised' PROVE Same(s)
  <2>1. s \in Promised /\ s \in Slice
    BY <1>0, <1>10, PromisedTypes
  <2>2. s.slab \in Buffers
    BY <1>0, <2>1, PromisedTypes
  <2>3. size[s.slab] \in 0..MaxSize /\ MaxSize \in Nat
    BY <1>0, <2>2, Constants DEF Types
  <2>. QED  BY <1>1, <2>1, <2>3 DEF Same
<1>12. \A s \in Secured' : s \in Secured \/ s = slices[u][c]
  <2>1. ASSUME NEW s, NEW v \in Uploads, CommittedOf(s, v)', s # slices[u][c] PROVE CommittedOf(s, v)
    <3>1. PICK i \in DOMAIN slices[v] : i <= committed'[v] /\ slices[v][i] = s
      BY <1>1, <2>1 DEF CommittedOf
    <3>2. i \in Nat /\ committed[v] \in Nat
      <4>1. slices[v] \in Seq(Slice)
        BY <1>3
      <4>. QED  BY <1>3, <3>1, <4>1
    <3>3. i <= committed[v]
      BY <1>1, <1>3, <2>1, <3>1, <3>2
    <3>. QED  BY <3>1, <3>3 DEF CommittedOf
  <2>. QED  BY <1>8, <1>9, <2>1, Promises
<1>13. ASSUME NEW s \in Secured', row'[s.slab] = "buffered"
       PROVE  \/ s \in Secured /\ row[s.slab] = "buffered" /\ durable'[s.slab] = durable[s.slab]
              \/ s.slab \in spoiled \/ s.slab \in syncFailed' \/ Holds(durable'[s.slab], s)
  <2>1. s \in Promised' /\ row[s.slab] = "buffered"
    BY <1>1, <1>13, Promises DEF CommittedOf, SliceOf
  <2>2. s \in Promised /\ (s.slab \in spoiled \/ Holds(file[s.slab], s))
    BY <1>10, <2>1 DEF BInv, Readable
  <2>3. CASE s.slab = b
    <3>1. b \in ToSet(incomplete) \cup complete
      BY <1>4, <2>1, <2>3 DEF BInv, Listed
    <3>. QED  BY <1>2, <1>3, <1>4, <2>2, <2>3, <3>1
  <2>4. CASE s.slab # b
    <3>1. s \in Secured
      BY <1>4, <1>12, <2>4
    <3>2. durable'[s.slab] = durable[s.slab]
      <4>1. s \in Slice
        BY <1>0, <2>2, PromisedTypes
      <4>2. s.slab \in Buffers
        BY <1>0, <4>1, PromisedTypes
      <4>. QED  BY <1>2, <1>3, <2>4, <4>2
    <3>. QED  BY <2>1, <3>1, <3>2
  <2>. QED  BY <2>3, <2>4
<1>14. syncFailed \subseteq syncFailed'
  BY <1>2
<1>15. \A s \in Secured' : row'[s.slab] = "buffered" =>
         \/ s \in Secured /\ row[s.slab] = "buffered" /\ durable'[s.slab] = durable[s.slab]
         \/ s.slab \in spoiled \/ s.slab \in syncFailed' \/ Holds(durable'[s.slab], s)
  BY <1>13
<1>. QED  BY <1>1, <1>6, <1>7, <1>11, <1>14, <1>15, BytesKept

\* The report of an upload leaves the bytes of the file in the sectors.
LEMMA MarkUploadedBytes ==
  ASSUME LInv, BInv, Types', NEW j \in Jobs, MarkUploaded(j)
  PROVE  BInv'
<1>. DEFINE b == job[j].buffer
<1>0. Types /\ ListedOnce
  BY DEF LInv
<1>1. /\ pc' = pc /\ slices' = slices /\ committed' = committed /\ incomplete' = incomplete
      /\ complete' = complete /\ size' = size /\ file' = file /\ durable' = durable
      /\ object' = object /\ part' = part /\ spoiled' = spoiled /\ syncFailed' = syncFailed
      /\ job[j] # NoJob
  BY DEF MarkUploaded, Idle, uploadVars, listVars, bufferVars, fileVars, objectVars, boundVars, syncVars
<1>2. /\ job \in [Jobs -> JobType] /\ size \in [Buffers -> 0..MaxSize] /\ MaxSize \in Nat
      /\ row \in [Buffers -> {"none", "buffered", "uploaded", "empty"}]
      /\ sectors \in [Buffers -> Content]
  BY <1>0, Constants DEF Types
<1>3. Read(job[j]) /\ b \in Buffers
  BY <1>1 DEF BInv, Read
<1>4. Stored' = Stored
  BY <1>1 DEF Stored
<1>5. \A s : (s \in Promised' <=> s \in Promised) /\ (s \in Secured' <=> s \in Secured)
  BY <1>1, <1>4, Promises DEF SliceOf, CommittedOf
<1>6. CASE row[b] = "buffered"
  <2>1. /\ row' = [row EXCEPT ![b] = "uploaded"] /\ sectors' = [sectors EXCEPT ![b] = job[j].data]
        /\ job' = [job EXCEPT ![j].marked = TRUE]
    BY <1>6 DEF MarkUploaded
  <2>2. b \in spoiled \/ (b \in complete /\ Copies(job[j].data, b))
    BY <1>1, <1>3, <1>6 DEF Read
  <2>3. row'[b] = "uploaded" /\ sectors'[b] = job[j].data
        /\ \A d \in Buffers : d # b => row'[d] = row[d] /\ sectors'[d] = sectors[d]
    BY <1>2, <1>3, <2>1
  <2>4. Listed'
    <3>1. b \in spoiled \/ b \notin ToSet(incomplete)
      BY <1>0, <2>2 DEF ListedOnce
    <3>. QED  BY <1>1, <2>3, <3>1 DEF BInv, Listed
  <2>5. ASSUME NEW k \in Jobs PROVE Read(job[k])'
    <3>1. CASE k # j
      <4>1. job'[k] = job[k]
        BY <1>2, <2>1, <3>1
      <4>2. ASSUME NEW jb, jb = job[k] PROVE Read(jb)'
        <5>1. Read(jb)
          BY <4>2 DEF BInv
        <5>2. CASE jb = NoJob
          BY <5>2 DEF Read, NoJob, Blank
        <5>3. CASE jb # NoJob
          <6>1. jb.buffer \in Buffers
            BY <5>1, <5>3 DEF Read
          <6>2. row'[jb.buffer] = "buffered" => row[jb.buffer] = "buffered"
            BY <2>3, <6>1
          <6>. QED  BY <1>1, <1>5, <5>1, <6>2, ReadStays
        <5>. QED  BY <5>2, <5>3
      <4>. QED  BY <4>1, <4>2
    <3>2. CASE k = j
      <4>1. job'[k].buffer = b
        BY <1>2, <2>1, <3>2 DEF JobType
      <4>. QED  BY <1>3, <2>3, <4>1 DEF Read
    <3>. QED  BY <3>1, <3>2
  <2>6. ASSUME NEW s \in Promised' PROVE s.slab \in spoiled \/ Same(s)
    <3>1. s \in Promised /\ s \in Slice
      BY <1>0, <1>5, PromisedTypes
    <3>2. s.slab \in Buffers
      BY <1>0, <3>1, PromisedTypes
    <3>3. size[s.slab] \in 0..MaxSize /\ size'[s.slab] = size[s.slab] /\ size[s.slab] <= size'[s.slab]
      BY <1>1, <1>2, <3>2
    <3>4. CASE s.slab = b
      BY <1>6, <2>2, <2>3, <3>1, <3>3, <3>4 DEF Same, Copies
    <3>5. CASE s.slab # b
      BY <1>1, <2>3, <3>1, <3>2, <3>3, <3>5 DEF Same
    <3>. QED  BY <3>4, <3>5
  <2>7. ASSUME NEW s \in Secured', row'[s.slab] = "buffered"
        PROVE  s \in Secured /\ row[s.slab] = "buffered" /\ durable'[s.slab] = durable[s.slab]
    <3>1. s \in Secured /\ s \in Promised
      BY <1>0, <1>5, PromisedTypes
    <3>2. s.slab \in Buffers
      BY <1>0, <3>1, PromisedTypes
    <3>. QED  BY <1>1, <2>3, <2>7, <3>1, <3>2
  <2>8. \A s \in Secured' : row'[s.slab] = "buffered" =>
          \/ s \in Secured /\ row[s.slab] = "buffered" /\ durable'[s.slab] = durable[s.slab]
          \/ s.slab \in spoiled \/ s.slab \in syncFailed' \/ Holds(durable'[s.slab], s)
    BY <2>7
  <2>. QED  BY <1>1, <2>4, <2>5, <2>6, <2>8, BytesKept
<1>7. CASE row[b] # "buffered"
  <2>1. row' = row /\ sectors' = sectors /\ job' = [job EXCEPT ![j] = NoJob]
    BY <1>7 DEF MarkUploaded, JobFails, slabVars
  <2>2. \A k \in Jobs : job'[k] \in {NoJob, job[k]}
    BY <1>2, <2>1
  <2>3. ASSUME NEW k \in Jobs PROVE Read(job[k])'
    <3>1. CASE job'[k] = NoJob
      BY <3>1 DEF Read, NoJob, Blank
    <3>2. ASSUME NEW jb, jb = job[k], job'[k] = jb PROVE Read(jb)'
      BY <1>1, <1>5, <2>1, <3>2, ReadStays DEF BInv
    <3>. QED  BY <2>2, <3>1, <3>2
  <2>. QED  BY <1>1, <1>5, <2>1, <2>3 DEF BInv, Listed, Readable
<1>. QED  BY <1>6, <1>7

\* The file of a buffer whose slab is uploaded goes.
LEMMA RemoveBuffersBytes ==
  ASSUME LInv, BInv, Types', NEW j \in Jobs, RemoveBuffers(j)
  PROVE  BInv'
<1>. DEFINE b == job[j].buffer
<1>0. Types
  BY DEF LInv
<1>1. /\ pc' = pc /\ slices' = slices /\ committed' = committed /\ incomplete' = incomplete
      /\ size' = size /\ object' = object /\ part' = part /\ spoiled' = spoiled
      /\ syncFailed' = syncFailed /\ row' = row /\ sectors' = sectors
      /\ complete' = complete \ {b} /\ job' = [job EXCEPT ![j] = NoJob] /\ job[j].marked
  BY DEF RemoveBuffers, uploadVars, bufferVars, objectVars, slabVars, boundVars, syncVars
<1>2. /\ job \in [Jobs -> JobType] /\ size \in [Buffers -> 0..MaxSize] /\ MaxSize \in Nat
      /\ file \in [Buffers -> Content] /\ durable \in [Buffers -> Content] /\ complete \subseteq Buffers
  BY <1>0, Constants DEF Types
<1>3. job[j] # NoJob
  BY <1>1 DEF NoJob
<1>4. b \in Buffers /\ row[b] # "buffered"
  BY <1>1, <1>3 DEF BInv, Read
<1>5. \A d \in Buffers : d # b => file'[d] = file[d] /\ durable'[d] = durable[d]
  BY <1>2 DEF RemoveBuffers
<1>6. Stored' = Stored
  BY <1>1 DEF Stored
<1>7. \A s : (s \in Promised' <=> s \in Promised) /\ (s \in Secured' <=> s \in Secured)
  BY <1>1, <1>6, Promises DEF SliceOf, CommittedOf
<1>8. Listed'
  BY <1>1, <1>4 DEF BInv, Listed
<1>9. ASSUME NEW k \in Jobs PROVE Read(job[k])'
  <2>0. job'[k] \in {NoJob, job[k]}
    BY <1>1, <1>2
  <2>1. CASE job'[k] = NoJob
    BY <2>1 DEF Read, NoJob, Blank
  <2>2. ASSUME NEW jb, jb = job[k], job'[k] = jb, jb # NoJob PROVE Read(jb)'
    <3>1. Read(jb)
      BY <2>2 DEF BInv
    <3>2. CASE row[jb.buffer] = "buffered"
      <4>1. jb.buffer # b
        BY <1>4, <3>2
      <4>. QED  BY <1>1, <1>7, <3>1, <4>1, ReadStays
    <3>3. CASE row[jb.buffer] # "buffered"
      BY <1>1, <2>2, <3>1, <3>3 DEF Read
    <3>. QED  BY <3>2, <3>3
  <2>. QED  BY <2>0, <2>1, <2>2
<1>10. ASSUME NEW s \in Promised' PROVE Same(s)
  <2>1. s \in Promised /\ s \in Slice
    BY <1>0, <1>7, PromisedTypes
  <2>2. s.slab \in Buffers
    BY <1>0, <2>1, PromisedTypes
  <2>3. size[s.slab] \in 0..MaxSize /\ size'[s.slab] = size[s.slab] /\ size[s.slab] <= size'[s.slab]
    BY <1>1, <1>2, <2>2
  <2>. QED  BY <1>1, <1>4, <1>5, <2>1, <2>2, <2>3 DEF Same
<1>11. ASSUME NEW s \in Secured', row'[s.slab] = "buffered"
       PROVE  s \in Secured /\ row[s.slab] = "buffered" /\ durable'[s.slab] = durable[s.slab]
  <2>1. s \in Secured /\ s \in Promised
    BY <1>0, <1>7, PromisedTypes
  <2>2. s.slab \in Buffers
    BY <1>0, <2>1, PromisedTypes
  <2>. QED  BY <1>1, <1>4, <1>5, <1>11, <2>1, <2>2
<1>12. \A s \in Secured' : row'[s.slab] = "buffered" =>
         \/ s \in Secured /\ row[s.slab] = "buffered" /\ durable'[s.slab] = durable[s.slab]
         \/ s.slab \in spoiled \/ s.slab \in syncFailed' \/ Holds(durable'[s.slab], s)
  BY <1>11
<1>. QED  BY <1>1, <1>8, <1>9, <1>10, <1>12, BytesKept

\* After a restart somebody relies on the stored slices and on those of the uploads
\* that a worker in another process still has in its hands, all of which were committed.
LEMMA RestartBytes ==
  ASSUME LInv, BInv, LInv', NEW crash \in BOOLEAN, NEW alone \in BOOLEAN, Restart(crash, alone)
  PROVE  BInv'
<1>0. Types /\ Types' /\ \A u \in Uploads : Appending(u)
  BY DEF LInv
<1>1. /\ file' = (IF crash THEN durable ELSE file) /\ durable' = durable
      /\ complete' = LoadedFull
      /\ pc' = [v \in Uploads |-> IF pc[v] \in Ongoing \/ (~alone /\ pc[v] \notin {"start", "done"})
                                  THEN "failed" ELSE pc[v]]
      /\ (alone /\ job' = job) \/ job' = [j \in Jobs |-> NoJob]
      /\ object' = object /\ part' = part /\ row' = row /\ sectors' = sectors
      /\ slices' = slices /\ committed' = committed /\ syncFailed' = syncFailed
      /\ spoiled' = spoiled \cup {b \in Buffers : (alone /\ Overtaken(b)) \/ (crash /\ b \in syncFailed)}
  BY DEF Restart, slabVars, workerVars
<1>2. Stored' = Stored
  BY <1>1 DEF Stored
<1>3. ASSUME NEW v \in Uploads, pc'[v] \in Promising
      PROVE  pc[v] = "add" /\ alone /\ committed[v] = Len(slices[v])
  BY <1>0, <1>1, <1>3 DEF Ongoing, Promising, Appending
<1>4. ASSUME NEW s \in Promised'
      PROVE  s \in Stored \/ \E v \in Uploads : pc[v] = "add" /\ alone /\ SliceOf(s, v)
  BY <1>1, <1>2, <1>3, Promises DEF SliceOf
<1>5. ASSUME NEW s \in Promised' PROVE s \in Secured /\ s \in Promised /\ s \in Slice
  <2>1. s \in Slice
    BY <1>0, <1>2, StoredTypes, Promises
  <2>2. CASE s \in Stored
    BY <2>1, <2>2, Promises
  <2>3. ASSUME NEW v \in Uploads, pc'[v] \in Promising, SliceOf(s, v)' PROVE s \in Secured
    <3>1. pc[v] = "add" /\ committed[v] = Len(slices[v]) /\ slices[v] \in Seq(Slice)
      BY <1>0, <1>3, <2>3 DEF Types
    <3>2. CommittedOf(s, v)
      BY <1>1, <2>3, <3>1 DEF CommittedOf, SliceOf
    <3>. QED  BY <2>1, <3>1, <3>2, Promises DEF Promising
  <2>4. s \in Secured
    BY <1>2, <2>2, <2>3, Promises
  <2>. QED  BY <1>0, <2>1, <2>4, PromisedTypes
<1>6. /\ ToSet(incomplete') \cup complete' = BufferedRows
      /\ \A b \in BufferedRows : size'[b] = LoadedSize(b)
  BY RestartKeeps
<1>7. Listed'
  <2>1. \A b \in Buffers : b \in BufferedRows <=> row[b] = "buffered"
    BY DEF BufferedRows
  <2>. QED  BY <1>1, <1>6, <2>1 DEF Listed
<1>8. ASSUME NEW s \in Promised', s.slab \notin spoiled'
      PROVE  s.slab \in Buffers /\ s.slab \notin spoiled /\ ~(alone /\ Overtaken(s.slab))
             /\ (crash => s.slab \notin syncFailed)
  <2>1. s \in Slice
    BY <1>5
  <2>2. s.slab \in Buffers
    BY <1>0, <2>1, PromisedTypes
  <2>. QED  BY <1>1, <1>8, <2>2
<1>9. ASSUME NEW s \in Promised', s.slab \notin spoiled', row[s.slab] = "buffered"
      PROVE  End(s) <= size'[s.slab] /\ Holds(file'[s.slab], s)
  <2>1. s.slab \in BufferedRows
    BY <1>8, <1>9 DEF BufferedRows
  <2>2. size'[s.slab] = LoadedSize(s.slab) /\ LoadedSize(s.slab) \in 0..MaxSize
        /\ End(s) \in Nat /\ MaxSize \in Nat
    <3>1. s \in Slice
      BY <1>5
    <3>2. End(s) \in Nat
      BY <1>0, <3>1, PromisedTypes
    <3>. QED  BY <1>0, <1>6, <1>8, <1>9, <2>1, <3>2, LoadedFacts, Constants
  <2>3. End(s) <= LoadedSize(s.slab)
    <3>1. CASE s \in Stored
      BY <1>0, <1>8, <1>9, <3>1, LoadedFacts
    <3>2. ASSUME NEW v \in Uploads, pc[v] = "add", alone, SliceOf(s, v)
          PROVE  End(s) <= LoadedSize(s.slab)
      <4>1. PICK i \in DOMAIN slices[v] : slices[v][i] = s
        BY <3>2 DEF SliceOf
      <4>2. ~(s.offset + s.length > LoadedSize(s.slab))
        BY <1>8, <1>9, <3>2, <4>1 DEF Overtaken
      <4>. QED  BY <2>2, <4>2 DEF End
    <3>. QED  BY <1>4, <3>1, <3>2
  <2>4. CASE crash
    BY <1>1, <1>5, <1>8, <1>9, <2>2, <2>3, <2>4 DEF BInv
  <2>5. CASE ~crash
    BY <1>1, <1>5, <1>8, <1>9, <2>2, <2>3, <2>5 DEF BInv, Readable
  <2>. QED  BY <2>4, <2>5
<1>10. ASSUME NEW j \in Jobs PROVE Read(job[j])'
  <2>1. CASE job'[j] = NoJob
    BY <2>1 DEF Read, NoJob, Blank
  <2>2. ASSUME NEW jb, jb = job[j], job' = job, alone, jb # NoJob PROVE Read(jb)'
    <3>1. Read(jb) /\ jb.buffer \in Buffers
      BY <2>2 DEF BInv, Read
    <3>2. CASE jb.buffer \in spoiled' \/ row[jb.buffer] # "buffered"
      BY <1>1, <2>2, <3>1, <3>2 DEF Read
    <3>3. CASE jb.buffer \notin spoiled' /\ row[jb.buffer] = "buffered"
      <4>1. jb.buffer \notin spoiled /\ ~(alone /\ Overtaken(jb.buffer))
        BY <1>1, <3>1, <3>3
      <4>2. jb.buffer \in complete'
        BY <1>1, <2>2, <3>3, <4>1 DEF Overtaken
      <4>3. ~jb.marked /\ Copies(jb.data, jb.buffer)
        BY <2>2, <3>1, <3>3, <4>1 DEF Read
      <4>4. Copies(jb.data, jb.buffer)'
        BY <1>5, <4>3 DEF Copies, Holds
      <4>. QED  BY <3>1, <4>2, <4>3, <4>4 DEF Read
    <3>. QED  BY <3>2, <3>3
  <2>. QED  BY <1>1, <2>1, <2>2
<1>11. ASSUME NEW s \in Promised' PROVE s.slab \in spoiled' \/ Readable(s)'
  <2>1. CASE s.slab \notin spoiled' /\ row[s.slab] = "buffered"
    BY <1>1, <1>9, <2>1 DEF Readable, Holds
  <2>2. CASE s.slab \notin spoiled' /\ row[s.slab] # "buffered"
    BY <1>1, <1>5, <1>8, <2>2 DEF BInv, Readable, Holds
  <2>. QED  BY <2>1, <2>2
<1>12. ASSUME NEW s \in Secured', row'[s.slab] = "buffered"
       PROVE  s.slab \in spoiled' \/ s.slab \in syncFailed' \/ Holds(durable'[s.slab], s)
  <2>1. s \in Promised'
    BY Promises DEF CommittedOf, SliceOf
  <2>. QED  BY <1>1, <1>5, <1>12, <2>1 DEF BInv
<1>13. \A s \in Promised' : row'[s.slab] = "buffered" => s.slab \in spoiled' \/ End(s) <= size'[s.slab]
  BY <1>1, <1>9
<1>. QED  BY <1>7, <1>10, <1>11, <1>12, <1>13 DEF BInv, End, Holds

LEMMA BInit == Init => BInv
<1>. SUFFICES ASSUME Init PROVE BInv
  OBVIOUS
<1>1. \A s : s \notin Stored
  BY StoredSlices DEF Init, StoredIs
<1>2. \A s : s \notin Promised /\ s \notin Secured
  BY <1>1, Promises DEF Init, Promising
<1>. QED  BY <1>2 DEF Init, BInv, Listed, Read, ToSet

LEMMA BNext == LInv /\ LInv' /\ BInv /\ [Next]_vars => BInv'
<1>. SUFFICES ASSUME LInv, LInv', BInv, [Next]_vars PROVE BInv'
  OBVIOUS
<1>0. Types'
  BY DEF LInv
<1>1. CASE \E u \in Uploads : Upload(u) \/ CreateFails(u) \/ AddFails(u) \/ UploadsOne(u)
         \/ UploadsOneFails(u)
  <2>. SUFFICES ASSUME NEW u \in Uploads,
                       Upload(u) \/ CreateFails(u) \/ AddFails(u) \/ UploadsOne(u)
         \/ UploadsOneFails(u)
                PROVE  BInv'
    BY <1>1
  <2>1. CASE Lists(u)
    BY <1>0, <2>1, ListsBytes
  <2>2. CASE Appends(u)
    BY <1>0, <2>2, AppendsBytes
  <2>3. CASE CreatesBuffer(u)
    BY <1>0, <2>3, CreatesBufferBytes
  <2>4. CASE Syncs(u)
    BY <1>0, <2>4, SyncsBytes
  <2>5. CASE AppendsDone(u) \/ CommitStarts(u) \/ Replies(u) \/ CreateFails(u) \/ AddFails(u)
    BY <2>5, MovesCalmly, CalmBytes
  <2>6. CASE AddObject(u) \/ AddMultipartPart(u)
    BY <2>6, AddsCalmly, CalmBytes
  <2>7. CASE UploadsOne(u) \/ UploadsOneFails(u) \/ StartsLoop(u)
    BY <2>7, WorksCalmly, CalmBytes
  <2>. QED  BY <2>1, <2>2, <2>3, <2>4, <2>5, <2>6, <2>7 DEF Upload
<1>2. CASE Operations
  BY <1>2, OperatesCalmly, CalmBytes
<1>3. CASE PruneSlabs
  BY <1>3, PrunesCalmly, CalmBytes
<1>4. CASE Loop \/ LoopFetchFails \/ (\E j \in Jobs : UploadFails(j)) \/ \E b \in Buffers : LockExpires(b)
  BY <1>4, WorksCalmly, CalmBytes
<1>5. CASE \E j \in Jobs : Job(j)
  <2>. SUFFICES ASSUME NEW j \in Jobs, Job(j) PROVE BInv'
    BY <1>5
  <2>1. CASE MarkUploaded(j)
    BY <1>0, <2>1, MarkUploadedBytes
  <2>2. CASE RemoveBuffers(j)
    BY <1>0, <2>2, RemoveBuffersBytes
  <2>. QED  BY <2>1, <2>2 DEF Job
<1>6. CASE \E crash, alone \in BOOLEAN : Restart(crash, alone)
  BY <1>6, RestartBytes
<1>7. CASE UNCHANGED vars
  <2>1. Calm
    BY <1>7 DEF LInv, Calm, Quiet, Moves, Stored, Rooted, vars, uploadVars, listVars, bufferVars,
               fileVars, objectVars, slabVars, workerVars, boundVars, syncVars
  <2>. QED  BY <1>0, <2>1, CalmBytes
<1>. QED  BY <1>1, <1>2, <1>3, <1>4, <1>5, <1>6, <1>7 DEF Next

\* Wherever the worker runs, the bytes of every stored object and part are those of
\* its upload: in the file while the slab has a buffer, in the sectors afterwards,
\* across appends, uploads, removals, prunings, restarts and crashes.  The exceptions
\* are those of the property.
THEOREM ObjectsIntactHolds == Spec => []ObjectsIntact
<1>1. Init => LInv /\ BInv
  BY LInit, BInit
<1>2. LInv /\ BInv /\ [Next]_vars => (LInv /\ BInv)'
  BY LNext, BNext
<1>3. LInv /\ BInv => ObjectsIntact
  <2>. SUFFICES ASSUME LInv, BInv, NEW s \in Stored,
                       row[s.slab] # "empty", s.slab \notin spoiled
                PROVE  Intact(s)
    BY DEF ObjectsIntact
  <2>1. Types /\ s \in Promised /\ s \in Slice
    BY StoredTypes, Promises DEF LInv
  <2>2. s.slab \in Buffers
    BY <2>1, PromisedTypes
  <2>3. row[s.slab] \in {"buffered", "uploaded"}
    BY <2>1, <2>2 DEF LInv, Rooted, Types
  <2>4. Readable(s)
    BY <2>1 DEF BInv
  <2>5. Holds(Found(s), s)
    BY <2>3, <2>4 DEF Readable, Found
  <2>. QED  BY <2>5 DEF Intact, Holds
<1>. QED  BY <1>1, <1>2, <1>3, PTL DEF Spec
=============================================================================
