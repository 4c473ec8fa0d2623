------------------------------- MODULE Recursion -------------------------------
(***************************************************************************)
(* Lemmas that the proofs of several components share: induction and       *)
(* recursion on the natural numbers and over finite sets, the Min, Max and *)
(* folds of FiniteSetsExt, and ranks in a strict total order.              *)
(***************************************************************************)
EXTENDS Integers, FiniteSetsExt, FiniteSetTheorems, TLAPS

-----------------------------------------------------------------------------
(* Induction and recursion on the natural numbers.  Induction follows from *)
(* the pigeonhole principle: on a proper initial part of the numbers the   *)
(* successor would be one-to-one, but not onto.                            *)

LEMMA Induction ==
  ASSUME NEW P, 0 \in P, \A n \in Nat : n \in P => n + 1 \in P
  PROVE  \A n \in Nat : n \in P
<1>. SUFFICES ASSUME NEW m \in Nat, m \notin P PROVE FALSE
  OBVIOUS
<1>. DEFINE Q == {n \in 0..m : n \in P}
            succ == [n \in Q |-> n + 1]
<1>1. IsFiniteSet(Q)
  <2>1. IsFiniteSet(0..m)
    BY FS_Interval
  <2>. QED  BY <2>1, FS_Subset
<1>2. succ \in [Q -> Q]
  <2>. SUFFICES ASSUME NEW n \in Q PROVE n + 1 \in Q
    OBVIOUS
  <2>1. n \in Nat /\ n <= m /\ n \in P
    OBVIOUS
  <2>2. n # m
    BY <2>1
  <2>. QED  BY <2>1, <2>2
<1>3. succ \in Injection(Q, Q)
  BY <1>2 DEF Injection, IsInjective
<1>4. succ \in Surjection(Q, Q)
  <2>. HIDE DEF Q, succ
  <2>. QED  BY <1>1, <1>3, FS_Injection
<1>5. 0 \in Q
  OBVIOUS
<1>6. PICK n \in Q : succ[n] = 0
  BY <1>4, <1>5 DEF Surjection
<1>. QED  BY <1>6

\* f is what N steps make of base, one after the other.
Iterates(f, N, D, base, step) ==
  f \in [0..N -> D] /\ f[0] = base /\ \A n \in 1..N : f[n] = step[n][f[n - 1]]

\* A function defined by recursion up to N exists.
LEMMA RecursiveFunctions ==
  ASSUME NEW N \in Nat, NEW D, NEW base \in D, NEW step,
         \A n \in 1..N : \A d \in D : step[n][d] \in D
  PROVE  \E f : Iterates(f, N, D, base, step)
<1>. DEFINE Upto(n) == \E f \in [0..n -> D] :
                         f[0] = base /\ \A k \in 1..n : f[k] = step[k][f[k - 1]]
            P == {n \in Nat : n <= N => Upto(n)}
<1>1. 0 \in P
  <2>. DEFINE f == [k \in 0..0 |-> base]
  <2>1. f \in [0..0 -> D] /\ f[0] = base /\ \A k \in 1..0 : f[k] = step[k][f[k - 1]]
    OBVIOUS
  <2>. HIDE DEF f
  <2>. QED  BY <2>1
<1>2. ASSUME NEW n \in Nat, n \in P PROVE n + 1 \in P
  <2>. SUFFICES ASSUME n + 1 <= N PROVE Upto(n + 1)
    OBVIOUS
  <2>1. PICK f \in [0..n -> D] : f[0] = base /\ \A k \in 1..n : f[k] = step[k][f[k - 1]]
    BY <1>2
  <2>. DEFINE g == [k \in 0..n + 1 |-> IF k = n + 1 THEN step[n + 1][f[n]] ELSE f[k]]
  <2>2. n + 1 \in 1..N /\ f[n] \in D /\ step[n + 1][f[n]] \in D
    OBVIOUS
  <2>3. g \in [0..n + 1 -> D]
    <3>. SUFFICES ASSUME NEW k \in 0..n + 1 PROVE g[k] \in D
      OBVIOUS
    <3>1. k # n + 1 => k \in 0..n
      OBVIOUS
    <3>. QED  BY <2>2, <3>1
  <2>4. g[0] = base
    BY <2>1
  <2>5. ASSUME NEW k \in 1..n + 1 PROVE g[k] = step[k][g[k - 1]]
    <3>1. k - 1 \in 0..n /\ g[k - 1] = f[k - 1]
      OBVIOUS
    <3>2. CASE k = n + 1
      BY <3>1, <3>2
    <3>3. CASE k # n + 1
      <4>1. k \in 1..n /\ g[k] = f[k]
        BY <3>3
      <4>. QED  BY <2>1, <3>1, <4>1
    <3>. QED  BY <3>2, <3>3
  <2>. HIDE DEF g
  <2>. QED  BY <2>3, <2>4, <2>5
<1>3. N \in P
  <2>. HIDE DEF P
  <2>. QED  BY <1>1, <1>2, Induction
<1>. QED  BY <1>3 DEF Iterates

LEMMA GreatestUpTo ==
  ASSUME NEW n \in Nat, NEW S, S \subseteq 0..n, S # {}
  PROVE  Max(S) \in S /\ \A t \in S : t <= Max(S)
<1>. DEFINE P == {k \in Nat : \A T \in SUBSET (0..k) :
                               T # {} => \E m \in T : \A t \in T : t <= m}
<1>1. 0 \in P
  <2>. SUFFICES ASSUME NEW T \in SUBSET (0..0), T # {}
                PROVE  \E m \in T : \A t \in T : t <= m
    OBVIOUS
  <2>1. PICK m \in T : TRUE
    OBVIOUS
  <2>2. \A t \in T : t = 0
    OBVIOUS
  <2>. QED  BY <2>1, <2>2
<1>2. ASSUME NEW k \in Nat, k \in P PROVE k + 1 \in P
  <2>. SUFFICES ASSUME NEW T \in SUBSET (0..k + 1), T # {}
                PROVE  \E m \in T : \A t \in T : t <= m
    OBVIOUS
  <2>1. CASE k + 1 \in T
    <3>1. \A t \in T : t <= k + 1
      OBVIOUS
    <3>. QED  BY <2>1, <3>1
  <2>2. CASE k + 1 \notin T
    <3>1. T \in SUBSET (0..k)
      BY <2>2
    <3>. QED  BY <1>2, <3>1
  <2>. QED  BY <2>1, <2>2
<1>3. n \in P
  <2>. HIDE DEF P
  <2>. QED  BY <1>1, <1>2, Induction
<1>4. PICK m \in S : \A t \in S : t <= m
  BY <1>3
<1>5. \A t \in S : m >= t
  BY <1>4
<1>6. Max(S) \in S /\ \A t \in S : Max(S) >= t
  BY <1>4, <1>5 DEF Max
<1>. QED  BY <1>6

LEMMA OfTwo ==
  ASSUME NEW a \in Nat, NEW b \in Nat
  PROVE  /\ Min({a, b}) = IF a <= b THEN a ELSE b
         /\ Max({a, b}) = IF a <= b THEN b ELSE a
<1>1. \E x \in {a, b} : \A y \in {a, b} : x <= y
  BY a <= b \/ b <= a
<1>2. \E x \in {a, b} : \A y \in {a, b} : x >= y
  BY a <= b \/ b <= a
<1>3. Min({a, b}) \in {a, b} /\ \A y \in {a, b} : Min({a, b}) <= y
  BY <1>1 DEF Min
<1>4. Max({a, b}) \in {a, b} /\ \A y \in {a, b} : Max({a, b}) >= y
  BY <1>2 DEF Max
<1>. QED  BY <1>3, <1>4

\* Min picks the least number of a set.
LEMMA LeastOf ==
  ASSUME NEW S, S \subseteq Nat, S # {}
  PROVE  Min(S) \in S /\ \A x \in S : Min(S) <= x
<1>. DEFINE P == {k \in Nat : \A T \in SUBSET Nat :
                               (\E x \in T : x <= k) => \E m \in T : \A x \in T : m <= x}
<1>1. 0 \in P
  <2>. SUFFICES ASSUME NEW T \in SUBSET Nat, NEW x \in T, x <= 0
                PROVE  \E m \in T : \A y \in T : m <= y
    OBVIOUS
  <2>1. x = 0 /\ \A y \in T : 0 <= y
    OBVIOUS
  <2>. QED  BY <2>1
<1>2. ASSUME NEW k \in Nat, k \in P PROVE k + 1 \in P
  <2>. SUFFICES ASSUME NEW T \in SUBSET Nat, NEW x \in T, x <= k + 1
                PROVE  \E m \in T : \A y \in T : m <= y
    OBVIOUS
  <2>1. CASE \E y \in T : y <= k
    BY <1>2, <2>1
  <2>2. CASE ~\E y \in T : y <= k
    <3>1. x = k + 1 /\ \A y \in T : x <= y
      BY <2>2
    <3>. QED  BY <3>1
  <2>. QED  BY <2>1, <2>2
<1>3. \A k \in Nat : k \in P
  <2>. HIDE DEF P
  <2>. QED  BY <1>1, <1>2, Induction
<1>4. PICK x \in S : TRUE
  OBVIOUS
<1>5. \E m \in S : \A y \in S : m <= y
  <2>1. x \in Nat /\ x \in P /\ x <= x
    BY <1>3, <1>4
  <2>. QED  BY <1>4, <2>1
<1>. QED  BY <1>5 DEF Min

-----------------------------------------------------------------------------
(* Finite sets: their parts, and the ranks of their elements in a strict   *)
(* total order.                                                            *)

LEMMA ProperSubset ==
  ASSUME NEW S, IsFiniteSet(S), NEW T, T \subseteq S
  PROVE  /\ IsFiniteSet(T) /\ Cardinality(T) \in Nat /\ Cardinality(S) \in Nat
         /\ Cardinality(T) <= Cardinality(S)
         /\ \A x \in S : x \notin T => Cardinality(T) < Cardinality(S)
<1>1. /\ IsFiniteSet(T) /\ Cardinality(T) <= Cardinality(S)
      /\ Cardinality(S) = Cardinality(T) => S = T
  BY FS_Subset
<1>2. Cardinality(T) \in Nat /\ Cardinality(S) \in Nat
  BY <1>1, FS_CardinalityType
<1>. QED  BY <1>1, <1>2

LEMMA FromZero ==
  ASSUME NEW n \in Nat
  PROVE  IsFiniteSet(0..n - 1) /\ Cardinality(0..n - 1) = n
<1>1. n - 1 \in Int /\ 0 \in Int
  OBVIOUS
<1>2. /\ IsFiniteSet(0..n - 1)
      /\ Cardinality(0..n - 1) = IF 0 > n - 1 THEN 0 ELSE (n - 1) - 0 + 1
  BY <1>1, FS_Interval
<1>. QED  BY <1>2

\* In a strict total order on a finite set, rank is a bijection to the numbers from
\* 0.  below has the elements before each.
LEMMA RankIsBijection ==
  ASSUME NEW S, IsFiniteSet(S), NEW below \in [S -> SUBSET S],
         \A x \in S : x \notin below[x],
         \A x, y \in S : y \in below[x] => below[y] \subseteq below[x],
         \A x, y \in S : x # y => x \in below[y] \/ y \in below[x]
  PROVE  /\ Cardinality(S) \in Nat
         /\ \A x \in S : Cardinality(below[x]) \in 0..Cardinality(S) - 1
         /\ \A x, y \in S : x \in below[y] => Cardinality(below[x]) < Cardinality(below[y])
         /\ \A k \in 0..Cardinality(S) - 1 : \E x \in S : Cardinality(below[x]) = k
<1>. DEFINE N == Cardinality(S)
            rank == [x \in S |-> Cardinality(below[x])]
<1>1. N \in Nat
  BY FS_CardinalityType
<1>2. ASSUME NEW x \in S PROVE rank[x] \in 0..N - 1
  <2>1. below[x] \subseteq S /\ x \notin below[x]
    OBVIOUS
  <2>2. Cardinality(below[x]) \in Nat /\ Cardinality(below[x]) < N
    BY <2>1, ProperSubset
  <2>. QED  BY <2>2, <1>1
<1>3. ASSUME NEW x \in S, NEW y \in S, x \in below[y] PROVE rank[x] < rank[y]
  <2>1. below[y] \subseteq S /\ below[x] \subseteq below[y] /\ x \notin below[x]
    BY <1>3
  <2>2. IsFiniteSet(below[y])
    BY <2>1, ProperSubset
  <2>3. Cardinality(below[x]) < Cardinality(below[y])
    BY <1>3, <2>1, <2>2, ProperSubset
  <2>. QED  BY <2>3
<1>4. rank \in Injection(S, 0..N - 1)
  <2>1. rank \in [S -> 0..N - 1]
    BY <1>2
  <2>2. \A x, y \in S : rank[x] = rank[y] => x = y
    <3>. SUFFICES ASSUME NEW x \in S, NEW y \in S, x # y PROVE rank[x] # rank[y]
      OBVIOUS
    <3>1. x \in below[y] \/ y \in below[x]
      OBVIOUS
    <3>2. rank[x] \in Int /\ rank[y] \in Int
      BY <1>1, <1>2
    <3>3. rank[x] < rank[y] \/ rank[y] < rank[x]
      BY <3>1, <1>3
    <3>. QED  BY <3>2, <3>3
  <2>. QED  BY <2>1, <2>2 DEF Injection, IsInjective
<1>5. IsFiniteSet(0..N - 1) /\ Cardinality(0..N - 1) = N
  BY <1>1, FromZero
<1>6. rank \in Surjection(S, 0..N - 1)
  BY <1>4, <1>5, FS_Injection
<1>7. \A k \in 0..N - 1 : \E x \in S : rank[x] = k
  BY <1>6 DEF Surjection
<1>. QED  BY <1>1, <1>2, <1>3, <1>7

-----------------------------------------------------------------------------
(* Functions defined by recursion on a rank, induction over the parts of a *)
(* finite set, and the fold of an operation over such a set.               *)

\* A function defined by recursion on a rank exists: its steps keep to the functions
\* of F, and look only at arguments of a lower rank.
LEMMA FixedPoint ==
  ASSUME NEW N \in Nat, NEW D, NEW rank \in [D -> 0..N],
         NEW F, NEW base \in F, NEW step,
         \A f \in F : f = [s \in D |-> f[s]] /\ step[f] \in F,
         \A f, g \in F : \A s \in D :
           (\A t \in D : rank[t] < rank[s] => f[t] = g[t]) => step[f][s] = step[g][s]
  PROVE  \E f \in F : f = step[f]
<1>. DEFINE steps == [n \in 1..N + 2 |-> step]
<1>1. PICK G : Iterates(G, N + 2, F, base, steps)
  <2>1. \A n \in 1..N + 2 : \A f \in F : steps[n][f] \in F
    OBVIOUS
  <2>2. N + 2 \in Nat
    OBVIOUS
  <2>. HIDE DEF steps
  <2>. QED  BY <2>1, <2>2, RecursiveFunctions
<1>2. \A k \in 0..N + 1 : G[k] \in F /\ G[k + 1] \in F /\ G[k + 1] = step[G[k]]
  <2>. SUFFICES ASSUME NEW k \in 0..N + 1
                PROVE  G[k] \in F /\ G[k + 1] \in F /\ G[k + 1] = step[G[k]]
    OBVIOUS
  <2>1. k \in 0..N + 2 /\ k + 1 \in 0..N + 2 /\ k + 1 \in 1..N + 2 /\ (k + 1) - 1 = k
    OBVIOUS
  <2>. QED  BY <1>1, <2>1 DEF Iterates
<1>. DEFINE P == {k \in Nat : k <= N + 1 =>
                   \A s \in D : rank[s] < k => G[k][s] = G[k + 1][s]}
<1>3. 0 \in P
  <2>1. \A s \in D : ~(rank[s] < 0)
    OBVIOUS
  <2>. QED  BY <2>1
<1>4. ASSUME NEW k \in Nat, k \in P PROVE k + 1 \in P
  <2>. SUFFICES ASSUME k + 1 <= N + 1, NEW s \in D, rank[s] < k + 1
                PROVE  G[k + 1][s] = G[(k + 1) + 1][s]
    OBVIOUS
  <2>1. k \in 0..N + 1 /\ k + 1 \in 0..N + 1
    OBVIOUS
  <2>2. \A t \in D : rank[t] < rank[s] => G[k][t] = G[k + 1][t]
    <3>. SUFFICES ASSUME NEW t \in D, rank[t] < rank[s] PROVE G[k][t] = G[k + 1][t]
      OBVIOUS
    <3>1. rank[t] \in Int /\ rank[s] \in Int
      OBVIOUS
    <3>2. rank[t] < k
      BY <3>1
    <3>. QED  BY <3>2, <1>4, <2>1
  <2>3. /\ G[k] \in F /\ G[k + 1] \in F /\ G[k + 1] = step[G[k]]
        /\ G[(k + 1) + 1] = step[G[k + 1]]
    BY <1>2, <2>1
  <2>. QED  BY <2>2, <2>3
<1>5. N + 1 \in P
  <2>. HIDE DEF P
  <2>1. \A n \in Nat : n \in P
    BY <1>3, <1>4, Induction
  <2>. QED  BY <2>1
<1>6. G[N + 1] \in F /\ G[(N + 1) + 1] \in F /\ G[(N + 1) + 1] = step[G[N + 1]]
  BY <1>2
<1>7. \A s \in D : G[N + 1][s] = G[(N + 1) + 1][s]
  <2>1. \A s \in D : rank[s] < N + 1
    OBVIOUS
  <2>. QED  BY <2>1, <1>5
<1>8. G[N + 1] = G[(N + 1) + 1]
  <2>1. G[N + 1] = [s \in D |-> G[N + 1][s]]
    BY <1>6
  <2>2. G[(N + 1) + 1] = [s \in D |-> G[(N + 1) + 1][s]]
    BY <1>6
  <2>. QED  BY <1>7, <2>1, <2>2
<1>. QED  BY <1>6, <1>8

\* Induction over the subsets of a finite set.
LEMMA SubsetInduction ==
  ASSUME NEW S, IsFiniteSet(S), NEW Q,
         \A T \in SUBSET S : (\A x \in T : T \ {x} \in Q) => T \in Q
  PROVE  \A T \in SUBSET S : T \in Q
<1>. DEFINE P == {n \in Nat : \A T \in SUBSET S : Cardinality(T) = n => T \in Q}
<1>1. \A T \in SUBSET S : IsFiniteSet(T) /\ Cardinality(T) \in Nat
  BY FS_Subset, FS_CardinalityType
<1>2. 0 \in P
  <2>. SUFFICES ASSUME NEW T \in SUBSET S, Cardinality(T) = 0 PROVE T \in Q
    OBVIOUS
  <2>1. T = {}
    BY <1>1, FS_EmptySet
  <2>. QED  BY <2>1
<1>3. ASSUME NEW n \in Nat, n \in P PROVE n + 1 \in P
  <2>. SUFFICES ASSUME NEW T \in SUBSET S, Cardinality(T) = n + 1 PROVE T \in Q
    OBVIOUS
  <2>1. ASSUME NEW x \in T PROVE T \ {x} \in Q
    <3>1. Cardinality(T \ {x}) = Cardinality(T) - 1
      BY <1>1, FS_RemoveElement
    <3>2. Cardinality(T \ {x}) = n
      BY <3>1
    <3>. QED  BY <3>2, <1>3
  <2>. QED  BY <2>1
<1>4. \A n \in Nat : n \in P
  <2>. HIDE DEF P
  <2>. QED  BY <1>2, <1>3, Induction
<1>. QED  BY <1>1, <1>4

\* it is the fold of the values of f over each subset of S, the elements taken as
\* CHOOSE has it.
FoldOver(it, S, D, op, base, f) ==
  /\ it \in [SUBSET S -> D] /\ it[{}] = base /\ \A x \in S : f[x] \in D
  /\ \A T \in SUBSET S : T # {} =>
       it[T] = op[<<f[CHOOSE x \in T : TRUE], it[T \ {CHOOSE x \in T : TRUE}]>>]

LEMMA FoldExists ==
  ASSUME NEW S, IsFiniteSet(S), NEW D, NEW base \in D, NEW op \in [D \X D -> D],
         NEW f, \A x \in S : f[x] \in D
  PROVE  \E it : FoldOver(it, S, D, op, base, f)
<1>. DEFINE pick(T) == CHOOSE x \in T : TRUE
            F == [SUBSET S -> D]
            step == [g \in F |-> [T \in SUBSET S |->
                       IF T = {} THEN base ELSE op[<<f[pick(T)], g[T \ {pick(T)}]>>]]]
            rank == [T \in SUBSET S |-> Cardinality(T)]
            zero == [T \in SUBSET S |-> base]
<1>1. \A T \in SUBSET S : IsFiniteSet(T) /\ Cardinality(T) \in 0..Cardinality(S)
  BY FS_Subset, FS_CardinalityType
<1>2. Cardinality(S) \in Nat /\ rank \in [SUBSET S -> 0..Cardinality(S)]
  BY <1>1, FS_CardinalityType
<1>3. \A T \in SUBSET S : T # {} => pick(T) \in T
  OBVIOUS
<1>4. ASSUME NEW g \in F PROVE step[g] \in F
  <2>. SUFFICES ASSUME NEW T \in SUBSET S
                PROVE  (IF T = {} THEN base ELSE op[<<f[pick(T)], g[T \ {pick(T)}]>>]) \in D
    OBVIOUS
  <2>1. CASE T # {}
    <3>1. pick(T) \in S /\ T \ {pick(T)} \in SUBSET S
      BY <1>3, <2>1
    <3>. HIDE DEF pick
    <3>2. f[pick(T)] \in D /\ g[T \ {pick(T)}] \in D
      BY <3>1
    <3>. QED  BY <3>2
  <2>. QED  BY <2>1
<1>5. ASSUME NEW g \in F, NEW h \in F, NEW T \in SUBSET S,
             \A U \in SUBSET S : rank[U] < rank[T] => g[U] = h[U]
      PROVE  step[g][T] = step[h][T]
  <2>1. CASE T # {}
    <3>1. pick(T) \in T /\ T \ {pick(T)} \in SUBSET S
      BY <1>3, <2>1
    <3>2. Cardinality(T \ {pick(T)}) = Cardinality(T) - 1
      BY <1>1, <3>1, FS_RemoveElement
    <3>3. rank[T \ {pick(T)}] < rank[T]
      BY <1>1, <3>1, <3>2
    <3>4. g[T \ {pick(T)}] = h[T \ {pick(T)}]
      BY <1>5, <3>1, <3>3
    <3>. HIDE DEF pick
    <3>. QED  BY <3>4
  <2>. QED  BY <2>1
<1>6. zero \in F
  OBVIOUS
<1>7. \A g \in F : g = [T \in SUBSET S |-> g[T]]
  OBVIOUS
<1>8. PICK it \in F : it = step[it]
  <2>. DEFINE all == SUBSET S
              N == Cardinality(S)
  <2>1. \A g \in F : g = [T \in all |-> g[T]] /\ step[g] \in F
    BY <1>4, <1>7
  <2>2. \A g, h \in F : \A T \in all :
          (\A U \in all : rank[U] < rank[T] => g[U] = h[U]) => step[g][T] = step[h][T]
    BY <1>5
  <2>3. N \in Nat /\ rank \in [all -> 0..N] /\ zero \in F
    BY <1>2, <1>6
  <2>. HIDE DEF F, step, rank, zero, all, N
  <2>. QED  BY <2>1, <2>2, <2>3, FixedPoint
<1>9. it[{}] = base
  BY <1>8
<1>10. \A T \in SUBSET S : T # {} => it[T] = op[<<f[pick(T)], it[T \ {pick(T)}]>>]
  <2>. SUFFICES ASSUME NEW T \in SUBSET S, T # {}
                PROVE  it[T] = op[<<f[pick(T)], it[T \ {pick(T)}]>>]
    OBVIOUS
  <2>1. it[T] = step[it][T]
    BY <1>8
  <2>2. step[it][T] = op[<<f[pick(T)], it[T \ {pick(T)}]>>]
    OBVIOUS
  <2>. QED  BY <2>1, <2>2
<1>. QED  BY <1>9, <1>10 DEF FoldOver

\* The order does not matter for an operation that is commutative and associative.
OrderFree(op, D) ==
  \A a, b, c \in D : /\ op[<<a, b>>] \in D
                     /\ op[<<a, op[<<b, c>>]>>] = op[<<b, op[<<a, c>>]>>]

LEMMA FoldAnyOrder ==
  ASSUME NEW S, IsFiniteSet(S), NEW D, NEW base, NEW op, OrderFree(op, D),
         NEW f, NEW it, FoldOver(it, S, D, op, base, f)
  PROVE  \A T \in SUBSET S : \A y \in T : it[T] = op[<<f[y], it[T \ {y}]>>]
<1>. DEFINE pick(T) == CHOOSE x \in T : TRUE
            Q == {T \in SUBSET S : \A y \in T : it[T] = op[<<f[y], it[T \ {y}]>>]}
<1>1. ASSUME NEW T \in SUBSET S, \A x \in T : T \ {x} \in Q PROVE T \in Q
  <2>. SUFFICES ASSUME NEW y \in T PROVE it[T] = op[<<f[y], it[T \ {y}]>>]
    OBVIOUS
  <2>. DEFINE x == pick(T)
  <2>1. x \in T
    OBVIOUS
  <2>2. it[T] = op[<<f[x], it[T \ {x}]>>]
    BY DEF FoldOver
  <2>. HIDE DEF x
  <2>3. CASE x # y
    <3>. DEFINE U == (T \ {x}) \ {y}
    <3>1. U = (T \ {y}) \ {x} /\ U \in SUBSET S
      OBVIOUS
    <3>2. y \in T \ {x} /\ x \in T \ {y}
      BY <2>1, <2>3
    <3>3. it[T \ {x}] = op[<<f[y], it[U]>>]
      BY <1>1, <2>1, <3>2
    <3>4. it[T \ {y}] = op[<<f[x], it[U]>>]
      <4>1. T \ {y} \in Q
        BY <1>1
      <4>2. it[T \ {y}] = op[<<f[x], it[(T \ {y}) \ {x}]>>]
        BY <4>1, <3>2
      <4>. QED  BY <4>2, <3>1
    <3>5. f[x] \in D /\ f[y] \in D /\ it[U] \in D
      BY <2>1, <3>1 DEF FoldOver
    <3>6. op[<<f[x], op[<<f[y], it[U]>>]>>] = op[<<f[y], op[<<f[x], it[U]>>]>>]
      BY <3>5 DEF OrderFree
    <3>. HIDE DEF U
    <3>. QED  BY <2>2, <3>3, <3>4, <3>5, <3>6
  <2>. QED  BY <2>2, <2>3
<1>2. \A T \in SUBSET S : T \in Q
  <2>. HIDE DEF Q
  <2>. QED  BY <1>1, SubsetInduction
<1>. QED  BY <1>2
=============================================================================
