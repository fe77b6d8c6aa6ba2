SPECIFICATION EvFairSpec
CONSTANTS
  t1 = t1
  s1 = s1
  w1 = w1
  w2 = w2
  NoTurn = NoTurn
  Turn <- OneTurn
  Session <- OneSession
  SessionOf <- TheSession
  Worker <- TwoWorkers
  Redis = TRUE
  MayStall = FALSE
  MayPause = TRUE
  MayCancel = FALSE
  MaxShutdowns = 0
  MaxCrashes = 1
  MaxFaults = 0
  MaxContent = 1
  MaxResumes = 1
CHECK_DEADLOCK FALSE
INVARIANT
  NoDurableGap
  CompletedIsDurable
  ClientToldOutcome
PROPERTY
  ImplementsLog
  
  LostTurnsSettle
