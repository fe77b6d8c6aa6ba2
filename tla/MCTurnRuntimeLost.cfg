SPECIFICATION FairSpec

CONSTANTS
  t1 = t1
  t2 = t2
  s1 = s1
  w1 = w1
  w2 = w2
  NoTurn = NoTurn
  Turn <- TwoTurns
  Session <- OneSession
  SessionOf <- AllInOne
  Worker <- OneWorker
  Redis = TRUE
  MayStall = TRUE
  MayPause = FALSE
  MayCancel = FALSE
  MaxShutdowns = 0
  MaxCrashes = 1
  MaxFaults = 0

CHECK_DEADLOCK FALSE

INVARIANTS
  OneActiveTurn
  NoStrandedTurn

PROPERTIES
  ImplementsLease
  LeaseLossSettles
  StaleOwnersStop
