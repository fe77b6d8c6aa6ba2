SPECIFICATION MishapSpec

CONSTANTS
  w1 = w1
  w2 = w2
  every = every
  hourly = hourly
  at = at
  reload = reload
  partner = partner
  broken = broken
  NoJob = NoJob
  Worker <- TwoWorkers
  Job <- OneOfEach
  OneShot <- TheOneShot
  Kind <- Reloads
  Poison <- None
  CronReload = reload
  Services = 2
  CronService = 2
  Horizon = 2
  MaxOps = 2
  MaxLog = 1
  MaxStalls = 1
  MaxFaults = 0
  MaxExits = 1
  MaxTokens = 6

CHECK_DEADLOCK FALSE

INVARIANT
  JobsRunUnderLeadership

PROPERTIES
  OneShotOnce
  AddedJobRuns
