SPECIFICATION Spec
CONSTANTS
  MaxMoveAboveBinSteps = 8
  StabilizationSteps = 0
  Setups <- MCSetups
  MaxPolicySteps = 7
  MaxEpisodes = 2
  MaxFaults = 2
  MaxStalls = 2
  StallsAllowedFor = 1
INVARIANTS
  RemoteTypeOK
  FinishedEpisodesSucceed
  ExportedEpisodesReplay
PROPERTIES
  EachEpisodeIsAJourney
CHECK_DEADLOCK FALSE
