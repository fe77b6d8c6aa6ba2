SPECIFICATION EvSpec
CONSTANTS
  t1 = t1
  s1 = s1
  w1 = w1
  w2 = w2
  NoTurn = NoTurn
  Turn <- OneTurn
  Session <- OneSession
  SessionOf <- TheSession
  Worker <- OneWorker
  Redis = TRUE
  MayStall = TRUE
  MayPause = FALSE
  MayCancel = FALSE
  MaxShutdowns = 0
  MaxCrashes = 0
  MaxFaults = 1
  MaxContent = 0
  MaxResumes = 1
CHECK_DEADLOCK FALSE
INVARIANT
  ShownAsPublished
