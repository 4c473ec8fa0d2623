------------------------------ MODULE MCSlabRisk ------------------------------
(***************************************************************************)
(* SlabRisk for TLC: four hosts with up to two of three shards each.  The  *)
(* hosts' numbers only break ties, so every profile lists the failure      *)
(* probabilities in one order.  Beyond the horizon of two, which an old    *)
(* copy or a queue brings about, every host is likelier to fail.           *)
(***************************************************************************)
EXTENDS SlabRisk

MCPlacements == [Hosts -> {S \in SUBSET Shards : Cardinality(S) <= 2}]

MCProfiles ==
  {[h \in Hosts |-> [t \in 0..MaxHorizon |-> IF t > 2 THEN near[h] + 1 ELSE near[h]]] :
     near \in {<<0, 1, 2, 3>>, <<1, 1, 1, 2>>, <<0, 0, 2, 2>>}}

\* The last scan of one host may be stale or old.
MCAges == {<<0, 0, 0, 0>>, <<2, 0, 0, 0>>, <<0, 0, 0, 2>>, <<0, 1, 0, 0>>}

MCScenarioSets ==
  {<<>>,
   <<[prob |-> 1, hosts |-> {1, 2}]>>,
   <<[prob |-> 1, hosts |-> {2, 3, 4}], [prob |-> 2, hosts |-> {1, 3}]>>}

MCLoads == {[queue |-> q, repair |-> 1] : q \in 0..2}
=============================================================================
