SPECIFICATION Spec

CONSTANTS
  w1 = w1
  w2 = w2
  every = every
  hourly = hourly
  at = at
  reload = reload
  partner = partner
  broken = broken
  NoJob = NoJob
  Worker <- TwoWorkers
  Job <- TwoRepeating
  OneShot <- None
  Kind <- Reloads
  Poison <- None
  CronReload = reload
  Services = 1
  CronService = 1
  Horizon = 2
  MaxOps = 2
  MaxLog = 1
  MaxStalls = 0
  MaxFaults = 0
  MaxExits = 1
  MaxTokens = 3

CHECK_DEADLOCK FALSE

INVARIANT
  TableIsPickedUp
