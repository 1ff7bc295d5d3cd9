SPECIFICATION Spec
CONSTANTS
  Configs <- MCConfigs
  Wobbles <- MCWobbles
  MaxClients = 2
CHECK_DEADLOCK FALSE
INVARIANTS
  GraspIsReal
  LayoutVerdictIsRight
