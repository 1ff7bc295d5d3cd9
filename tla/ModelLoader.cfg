SPECIFICATION FairSpec
CONSTANTS
  Threads = {t1, t2, t3}
  LoadCallers = {t1, t2}
  NoThread = NoThread
  MaxLoads = 2
INVARIANTS
  TypeOK
  OneLoadAtATime
  AnswersSpeakOfOneModel
PROPERTIES
  LoadedForGood
  AllAnswered
CHECK_DEADLOCK FALSE
