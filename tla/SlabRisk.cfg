SPECIFICATION SlabRiskSpec
CONSTANTS
  Hosts = {1, 2, 3, 4}
  NumShards = 3
  MinShards = 2
  Den = 4
  EntryThreshold = 96
  ModelTTL = 2
  MaxHorizon = 4
  MaxQueueDelay = 1
  SafetyMargin = 1
  Placements <- MCPlacements
  Profiles <- MCProfiles
  Ages <- MCAges
  ScenarioSets <- MCScenarioSets
  Loads <- MCLoads
  NoHost = NoHost
  NoRisk = NoRisk
INVARIANTS
  PlacementIsBest
  LossIsExact
  
CHECK_DEADLOCK FALSE
