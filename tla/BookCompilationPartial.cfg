SPECIFICATION BookSpec

CONSTANTS
  Pages = 2
  BookRuntime = {r1, r2}
  NoRuntime = NoRuntime
  Reader = Reader
  StrikeLimit = 2
  MaxFailures = 0
  MaxRequests = 2

CHECK_DEADLOCK FALSE

INVARIANT
  FinishedWasRun
