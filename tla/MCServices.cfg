SPECIFICATION SuiteSpec

CONSTANTS
  w1 = w1
  w2 = w2
  partner = partner
  broke = broke
  t1 = t1
  t2 = t2
  t3 = t3
  t4 = t4
  s1 = s1
  s2 = s2
  p1 = p1
  p2 = p2
  a1 = a1
  q1 = q1
  q2 = q2
  o1 = o1
  o2 = o2
  A = A
  B = B
  r1 = r1
  r2 = r2
  x1 = x1
  x2 = x2
  b1 = b1
  b2 = b2
  c1 = c1
  c2 = c2
  j1 = j1
  j2 = j2
  f1 = f1
  Worker <- TwoWorkers
  Kind <- Kinds
  Poison <- Broke
  Services = 2
  MaxLog = 2
  MaxStalls = 1
  MaxFaults = 1
  MaxExits = 0
  MaxTokens = 3
  NoTurn = NoTurn
  Turn <- FourTurns
  Session <- TwoSessions
  SessionOf <- LastApart
  Redis = FALSE
  Path <- TwoPaths
  Tutor <- TwoTutors
  Admin <- OneAdmin
  Nobody = Nobody
  NoPath = NoPath
  MayPark = TRUE
  MaySwitch = TRUE
  Mortal <- SomeDie
  Question <- TwoQuestions
  Objective <- TwoObjectives
  About <- OneEach
  Quizzer <- TwoTutors
  Pick <- TwoAnswers
  Prose = Prose
  NoAnswer = NoAnswer
  NoQuestion = NoQuestion
  Pages = 2
  BookRuntime <- TwoRuntimes
  NoRuntime = NoRuntime
  Reader = Reader
  StrikeLimit = 2
  MaxFailures = 2
  MaxRequests = 1
  Tab <- TwoTabs
  Asks = 2
  MaxSent = 2
  MaxBreaks = 1
  Impatient = FALSE
  Backend <- TwoBackends
  NoBackend = NoBackend
  Chat <- TwoChats
  MaxJobs = 2
  MaxMishaps = 1
  MaxReboots = 1
  Job <- TwoJobs
  LostJob <- OneLost
  Follower <- OneFollower
  NoJob = NoJob
  MaxEvents = 4
  BufferSize = 2
  QueueSize = 1
  Retained = 1
  Tombstones = 1

CHECK_DEADLOCK FALSE

INVARIANTS
  SuiteTypeOK
  SingletonServices
  NothingSkipped
  LeaseReachable
  RepliesAnswerTheirQuestion
  AcceptedCommandsArrive
  WorkersHoldPaths
  PathsGivenBack
  OneQuestionOpen
  AttemptOnce
  OneRunPerPage
  PauseHolds
  ReservedStaysIdle

PROPERTIES
  CommandsRetire
  CommandsSettle
  LeaderSettles
  GradedByItsKey
  EditsKept
  CompilationSettles
  UpdateEnds
  StreamsClose
