SPECIFICATION EvFairSpec
CONSTANTS
  t1 = t1
  s1 = s1
  w1 = w1
  w2 = w2
  NoTurn = NoTurn
  Turn <- OneTurn
  Session <- OneSession
  SessionOf <- TheSession
  Worker <- OneWorker
  Redis = FALSE
  MayStall = FALSE
  MayPause = FALSE
  MayCancel = TRUE
  MaxShutdowns = 1
  MaxCrashes = 0
  MaxFaults = 0
  MaxContent = 1
  MaxResumes = 1
CHECK_DEADLOCK FALSE
PROPERTY
  CancelTakesEffect
