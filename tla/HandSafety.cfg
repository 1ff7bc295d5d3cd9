SPECIFICATION HandSpec
CONSTANTS
  ResumeStableSteps = 3
  MaxChecks = 12
  MockSteps = {0, 1, 2, 4, 7}
  ImagePoints = {table, roi, outside}
  ArucoPolygon = {table}
  RoiPolygon = {table, roi}
INVARIANTS
  HandTypeOK
  CountersBalance
  PausesOnlyForWatchedHand
  ScheduledPauseCost
PROPERTIES
  ActOnlyAfterStableClear
  ActsOnlyOnClearFrame
  ImplementsPromise
CHECK_DEADLOCK FALSE
