SPECIFICATION Spec
CONSTANTS
  ResumeStableSteps = 2
  MaxMoveAboveBinSteps = 5
  StabilizationSteps = 2
  MaxPolicySteps = 12
  WristRefine = TRUE
  HardHazards = {FALSE}
  Faults = {}
  MaxStalls = 2
INVARIANTS
  PauseNeverFailsEpisode
CHECK_DEADLOCK FALSE
