SPECIFICATION Spec
CONSTANTS
  MaxMoveAboveBinSteps = 8
  StabilizationSteps = 0
  Setups <- MCSessionEnds
  MaxPolicySteps = 14
  MaxEpisodes = 2
  MaxFaults = 2
  MaxStalls = 1
  StallsAllowedFor = 1
INVARIANT FinishedEpisodesSucceed
CHECK_DEADLOCK FALSE
