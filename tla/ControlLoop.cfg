SPECIFICATION FairSpec
CONSTANTS
  ResumeStableSteps = 2
  MaxMoveAboveBinSteps = 5
  StabilizationSteps = 2
  MaxPolicySteps = 12
  WristRefine = TRUE
  HardHazards = {TRUE, FALSE}
  Faults = {"timeout", "policy_error"}
  MaxStalls = 2
INVARIANTS
  TypeOK
  StopsWithinOneAction
  BudgetAccounted
  HazardBlocksEpisode
  PhaseAgreesWithGrasp
  DeliversUnpaused
PROPERTIES
  PauseKeepsEverything
  RefinedOnceBeforeGrasp
  ImplementsPausedRobot
  Terminates
CHECK_DEADLOCK FALSE
