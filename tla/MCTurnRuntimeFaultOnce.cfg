SPECIFICATION FairSpec
CONSTANTS
  t1 = t1
  t2 = t2
  s1 = s1
  w1 = w1
  w2 = w2
  NoTurn = NoTurn
  Turn <- OneTurn
  Session <- OneSession
  SessionOf <- AllInOne
  Worker <- OneWorker
  Redis = TRUE
  MayStall = FALSE
  MayPause = FALSE
  MayCancel = FALSE
  MaxShutdowns = 0
  MaxCrashes = 0
  MaxFaults = 1
CHECK_DEADLOCK FALSE
PROPERTY
  LeaseLossSettles
