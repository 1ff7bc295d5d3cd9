SPECIFICATION FairSpec
CONSTANTS
  Threads = {t1, t2}
  LoadCallers = {t1, t2}
  NoThread = NoThread
  MaxLoads = 2
PROPERTIES
  LoadCallsReturn
CHECK_DEADLOCK FALSE
