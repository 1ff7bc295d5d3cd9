SPECIFICATION FairSpec
CONSTANTS
  ObjectStart <- MCObjectStart
  Bin <- MCBin
  MaxStepSize = 6
  StabilizationStepSize = 2
  PositionTolerance = 6
  GraspOffset = 3
  CarryHeight = 36
  PlaceClearance = 10
  BinOpenDistance = 18
  GraspThreshold = 10
  PlaceThreshold = 16
  Trials <- MCTrials
  Workspace <- MCWorkspace
  MaxMoveAboveBinSteps = 15
  StabilizationSteps = 2
INVARIANTS
  TypeOK
  PhaseAgreesWithGrasp
  MoveAboveBinTimeBoxed
  CarriesAtHeight
PROPERTIES
  CloseGraspsAtOnce
  ReleaseLandsInBin
  ImplementsJourney
  Delivers
CHECK_DEADLOCK FALSE
