------------------------------- MODULE SlabRisk -------------------------------
(***************************************************************************)
(* The evaluation of one slab by the repair policy (evaluateSlabRisk in    *)
(* stores/repair_policy.go and IndependentSlabLossProbability in           *)
(* stores/slab_risk.go): which copies count as independent hosts, whether  *)
(* their evidence suffices, how probable it is that fewer than MinShards   *)
(* of them survive, and which number of hosts would have been safe.        *)
(*                                                                         *)
(* Probabilities are multiples of 1/Den and the products the code makes of *)
(* them are kept exact, as numerators over powers of Den.  For each host,  *)
(* the probability that it fails within a horizon (hostFailureProbability) *)
(* is an input; the horizon is the evaluation's own, and grows with the    *)
(* age of the oldest copy that counts.                                     *)
(***************************************************************************)
EXTENDS Integers, Sequences, FiniteSets, FiniteSetsExt

CONSTANTS
  Hosts,          \* numbers, in the order of the hosts' keys
  NumShards, MinShards,
  Den,            \* the denominator of the given probabilities
  EntryThreshold, \* over Den^(NumShards + 1)
  ModelTTL, MaxHorizon, MaxQueueDelay, SafetyMargin,
  Placements,     \* the sets of shards that each host may store
  Profiles,       \* failure probabilities of the hosts, for every horizon
  Ages,           \* ages of the hosts' last scans
  ScenarioSets,   \* sequences of scenarios
  Loads,          \* queue delays and repair times
  NoHost, NoRisk

Shards == 1..NumShards
Scenario == [prob : 0..Den, hosts : SUBSET Hosts]

ASSUME SlabRiskAssumption ==
  /\ NumShards \in Nat /\ MinShards \in 1..NumShards /\ Den \in Nat \ {0}
  /\ Hosts \subseteq Int /\ IsFiniteSet(Hosts) /\ NoHost \notin Hosts
  /\ Placements \subseteq [Hosts -> SUBSET Shards]
  /\ Profiles \subseteq [Hosts -> [0..MaxHorizon -> 0..Den]]
  /\ ScenarioSets \subseteq Seq(Scenario)
ASSUME HorizonAssumption ==
  /\ MaxHorizon \in Nat /\ Ages \subseteq [Hosts -> Nat]
  /\ \A l \in Loads : l.queue \in Nat /\ l.repair \in Nat
  /\ ModelTTL \in 1..MaxHorizon /\ SafetyMargin \in 0..MaxHorizon - 1

VARIABLES
  stored,     \* the shards on each host that has a good contract
  rates,      \* the failure probability of each host within each horizon
  age,
  scenarios,
  load,
  risk        \* the evaluation, NoRisk before it

given == <<stored, rates, age, scenarios, load>>
slabRiskVars == <<given, risk>>

SlabRiskInit ==
  /\ stored \in Placements
  /\ rates \in Profiles
  /\ age \in Ages
  /\ scenarios \in ScenarioSets
  /\ load \in Loads
  /\ risk = NoRisk

-----------------------------------------------------------------------------
(* Sums and powers *)

Sum(S, f) == FoldSet(LAMBDA x, sum : f[x] + sum, 0, S)

Product(S, f) == FoldSet(LAMBDA x, product : f[x] * product, 1, S)

Power[n \in 0..NumShards + 1] == IF n = 0 THEN 1 ELSE Den * Power[n - 1]

-----------------------------------------------------------------------------
(* Placement *)

\* Mutant: a host is assigned if one of its shards is free.
AssignFree(h, assigned) ==
  LET free == {i \in stored[h] : assigned[i] = NoHost} IN
  IF free = {} THEN assigned ELSE [assigned EXCEPT ![Min(free)] = h]

\* A search for a shard for one host: the assignment, and the shards visited.
Searches ==
  [host : Hosts, a : [Shards -> Hosts \cup {NoHost}], seen : SUBSET Shards, ok : BOOLEAN]

\* The next shard of the host that has not been visited: it is free, or the host
\* in the way finds another one, or the search goes on.  In which order the shards of a
\* host are tried makes no difference to which hosts get one.
Visit(search, s) ==
  IF stored[s.host] \subseteq s.seen THEN s
  ELSE LET i == Min(stored[s.host] \ s.seen)
           here == [s EXCEPT !.seen = @ \cup {i}]
           moved == IF s.a[i] = NoHost THEN [here EXCEPT !.ok = TRUE]
                    ELSE search[[here EXCEPT !.host = s.a[i]]]
       IN IF moved.ok THEN [moved EXCEPT !.a[i] = s.host]
          ELSE search[[moved EXCEPT !.host = s.host]]

\* assign: find a shard for host h, moving the hosts that are in the way.
Assign(h, assigned) ==
  LET search[s \in Searches] == Visit(search, s)
  IN search[[host |-> h, a |-> assigned, seen |-> {}, ok |-> FALSE]].a

Before(x, y, score) == score[x] < score[y] \/ (score[x] = score[y] /\ x < y)

\* The hosts of S, the best scores first.
InOrder(S, score) ==
  [k \in 1..Cardinality(S) |->
     CHOOSE x \in S : Cardinality({y \in S : Before(y, x, score)}) = k - 1]

\* The hosts that have a shard once n hosts were assigned in an order.
Assigned(order, n) ==
  LET assigned[k \in 0..n] ==
        IF k = 0 THEN [i \in Shards |-> NoHost] ELSE Assign(order[k], assigned[k - 1])
  IN {assigned[n][i] : i \in Shards} \ {NoHost}

\* Mutant: the worst scores first.
PlacedWorst(candidates, score) ==
  Assigned(InOrder(candidates, [h \in Hosts |-> -score[h]]), Cardinality(candidates))

\* independentPlacement: the hosts it selects.
Placed(candidates, score) == Assigned(InOrder(candidates, score), Cardinality(candidates))

Zero == [h \in Hosts |-> 0]

Chances == [j \in DOMAIN scenarios |-> scenarios[j].prob]

\* The failure probability of a host and that of the scenarios it is in.
Score(prob) ==
  [h \in Hosts |-> prob[h] + Sum({j \in DOMAIN scenarios : h \in scenarios[j].hosts}, Chances)]

-----------------------------------------------------------------------------
(* Loss *)

\* Mutant: the table is updated in ascending order.
AddHostAscending(dp, p) ==
  LET new[f \in DOMAIN dp] == dp[f] * (Den - p) + (IF f > 0 THEN new[f - 1] * p ELSE 0)
  IN new

\* One host more in the table of the probabilities that f hosts fail.
AddHost(dp, p) ==
  [f \in DOMAIN dp |-> dp[f] * (Den - p) + (IF f > 0 THEN dp[f - 1] * p ELSE 0)]

\* IndependentSlabLossProbability, over Den^NumShards.
LossTail(ps) ==
  LET u == Len(ps)
      dp[k \in 0..u] ==
        IF k = 0 THEN [f \in 0..u |-> IF f = 0 THEN 1 ELSE 0]
        ELSE AddHost(dp[k - 1], ps[k])
  IN Power[NumShards - u] *
       IF u < MinShards THEN Power[u] ELSE Sum(u - MinShards + 1..u, dp[u])

LossTailOf(prob, P) ==
  LET order == InOrder(P, Zero) IN LossTail([k \in 1..Cardinality(P) |-> prob[order[k]]])

\* Mixes the tail without a scenario with the tails that the scenarios leave.
Mixture(base, left) ==
  (Den - Sum(DOMAIN scenarios, Chances)) * base
    + Sum(DOMAIN scenarios, [j \in DOMAIN scenarios |-> scenarios[j].prob * left[j]])

\* correlatedSlabLoss.  Exact, it needs no clamp, as policies' scenarios have no more than
\* certainty together.
Loss(prob, P) ==
  Mixture(LossTailOf(prob, P),
          [j \in DOMAIN scenarios |-> LossTailOf(prob, P \ scenarios[j].hosts)])

\* The loss of u hosts as bad as the worst one, as many of them in each scenario
\* as are now.
Estimate(prob, P, u) ==
  LET worst == Max({0} \cup {prob[h] : h \in P})
      same(n) == LossTail([j \in 1..n |-> worst])
  IN Mixture(same(u), [j \in DOMAIN scenarios |->
                        same(u - Min({u, Cardinality(P \cap scenarios[j].hosts)}))])

\* explanatoryCutoff, as the number u* of hosts that it takes for the first safe
\* one: NumShards + 1 when there is none.
SafeCount(prob, P) ==
  Min({NumShards + 1} \cup
        {u \in MinShards..NumShards : Estimate(prob, P, u) <= EntryThreshold})

-----------------------------------------------------------------------------
(* evaluateSlabRisk *)

Candidates == {h \in Hosts : stored[h] # {}}

Fresh(candidates) == {h \in candidates : age[h] < ModelTTL}

\* The fresh copies cover as many independent hosts as all copies do.
Covers(fresh, usable) ==
  /\ Cardinality(fresh) >= MinShards
  /\ Cardinality(Placed(fresh, Zero)) >= usable

Invalid(usable, reason) ==
  [valid |-> FALSE, usable |-> usable, emergency |-> usable <= MinShards, reason |-> reason]

\* The protection horizon, from the oldest scan of all the fresh copies.
Horizon(fresh) ==
  LET sum == Max({0} \cup {age[h] : h \in fresh}) + load.queue + load.repair + SafetyMargin
  IN Min({MaxHorizon, sum})

\* hostFailureProbability of every host within a horizon.
FailureProbability(horizon) == [h \in Hosts |-> rates[h][horizon]]

Affected(P) ==
  {j \in 1..Len(scenarios) : scenarios[j].prob > 0 /\ scenarios[j].hosts \cap P # {}}

Valid(horizon, prob, P) ==
  [valid |-> TRUE,
   horizon |-> horizon,
   usable |-> Cardinality(P),
   emergency |-> Cardinality(P) <= MinShards,
   reason |-> "risk-budget",
   placed |-> P,
   loss |-> Loss(prob, P),
   safe |-> SafeCount(prob, P),
   avoid |-> UNION {scenarios[j].hosts : j \in Affected(P)}
               \cup {CHOOSE h \in P : \A x \in P : prob[x] <= prob[h]}]

Evaluation(candidates) ==
  LET usable == Cardinality(Placed(candidates, Zero))
      fresh == Fresh(candidates)
      horizon == Horizon(fresh)
      prob == FailureProbability(horizon)
  IN IF usable < MinShards THEN Invalid(usable, "below-reconstruction-boundary")
     ELSE IF ~Covers(fresh, usable) THEN Invalid(usable, "missing-or-stale-evidence")
     ELSE IF load.queue > MaxQueueDelay \/ load.repair > MaxHorizon
          THEN Invalid(usable, "queue-or-repair-horizon-exceeds-bound")
     ELSE IF horizon >= MaxHorizon
          THEN Invalid(usable, "protection-horizon-exceeds-bound")
     ELSE Valid(horizon, prob, Placed(fresh, Score(prob)))

Evaluate ==
  /\ risk = NoRisk
  /\ risk' = Evaluation(Candidates)
  /\ UNCHANGED given

SlabRiskNext == Evaluate

SlabRiskSpec == SlabRiskInit /\ [][SlabRiskNext]_slabRiskVars

-----------------------------------------------------------------------------
(* Properties *)

Evaluated == risk # NoRisk /\ risk.valid

\* The probabilities the evaluation used.
Prob == FailureProbability(risk.horizon)

\* The hosts of S can store a shard each, no shard twice.
Independent(S) ==
  \E at \in [S -> Shards] :
    /\ \A h \in S : at[h] \in stored[h]
    /\ \A g, h \in S : g # h => at[g] # at[h]

\* "selects at most one host per shard and one shard per host. Prefer lower-risk
\* copies": no choice of independent hosts with fresh evidence is larger than
\* the one evaluated, and none as large has a lower total score.
PlacementIsBest ==
  Evaluated =>
    /\ Independent(risk.placed)
    /\ \A S \in SUBSET Fresh(Candidates) :
         Independent(S) =>
           \/ Cardinality(S) < risk.usable
           \/ Cardinality(S) = risk.usable /\ Sum(S, Score(Prob)) >= Sum(risk.placed, Score(Prob))

\* The probability that just the hosts of F fail among those of P.
JustFail(prob, P, F) ==
  Product(P, [h \in P |-> IF h \in F THEN prob[h] ELSE Den - prob[h]])

\* The probability that fewer than m of the hosts of P survive, over
\* Den^Cardinality(P): the sum over every set of hosts that may fail.
FewLeft(prob, P, m) ==
  Sum({F \in SUBSET P : Cardinality(P \ F) < m}, [F \in SUBSET P |-> JustFail(prob, P, F)])

Lost(prob, P) == Power[NumShards - Cardinality(P)] * FewLeft(prob, P, MinShards)

\* The loss is the probability that fewer than MinShards of the hosts survive,
\* added up over the scenarios, which exclude each other, and over every set of
\* hosts that may fail.
LossIsExact ==
  Evaluated =>
    LET P == risk.placed
        branches == DOMAIN scenarios
        left == [j \in branches |-> scenarios[j].prob * Lost(Prob, P \ scenarios[j].hosts)]
    IN risk.loss = (Den - Sum(branches, Chances)) * Lost(Prob, P) + Sum(branches, left)

\* Without scenarios, one copy more, on any host, never makes a slab look worse,
\* unless it is the oldest and lengthens the horizon for all the others: a slab
\* that stored a shard less would not count more hosts, nor have a smaller loss.
CopiesNeverHurt ==
  Evaluated /\ scenarios = <<>> =>
    \A h \in Candidates :
      LET less == Evaluation(Candidates \ {h}) IN
      less.valid /\ less.horizon = risk.horizon =>
        less.usable <= risk.usable /\ risk.loss <= less.loss
=============================================================================
