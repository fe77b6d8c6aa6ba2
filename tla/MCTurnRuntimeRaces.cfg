SPECIFICATION Spec
CONSTANTS
  t1 = t1
  t2 = t2
  s1 = s1
  w1 = w1
  w2 = w2
  NoTurn = NoTurn
  Turn <- OneTurn
  Session <- OneSession
  SessionOf <- AllInOne
  Worker <- TwoWorkers
  Redis = TRUE
  MayStall = TRUE
  MayPause = TRUE
  MayCancel = TRUE
  MaxShutdowns = 1
  MaxCrashes = 1
  MaxFaults = 2
CHECK_DEADLOCK FALSE
SYMMETRY Symmetry
INVARIANTS
  RecoverySparesOwners
  DoneMatchesRow

PROPERTY
  OutcomeIsFinal
