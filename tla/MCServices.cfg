SPECIFICATION ServicesSpec
CONSTANTS
  MaxTime = 6
  SessionIds = {s1, s2, s3}
  MaxSessions = 2
  SessionTimeout = 2
  SweepEvery = 3
  SweepCap = 1
  MaxFragments = 2
  MaxRisk = 4
  MaxCalls = 4
  Tokens = {t1, t2, t3}
  TokenLifetime = 2
  TokenSkew = 1
  MaxReplayCache = 2
  MaxStamp = 2
  MaxUses = 2
  Keys = {k1}
  MaxPerWindow = 2
  WindowTicks = 2
  PurgeEvery = 3
  MaxAllowed = 6
  CacheCalls = {c1, c2}
  Names = {"n1", "n2"}
  Inputs = {"x"}
  DefaultTtl = 2
  BlockedTtl = 1
  MaxTtl = 3
  MaxEntries = 1
  AdapterFails = TRUE
  Foreign = TRUE
  Hooks = {1, 2, 3}
  Priority <- LatestFirst
  Enabled = {1, 2}
  Executions = {e1, e2}
  MaxHookCalls = 1
  HookWindow = 1
  HookTimeout = 1
  Letters = {"a", "b", "."}
  Pieces <- Transcript
  Needles <- AllNeedles
  Critical <- CriticalNeedles
  GateChars = 2
  GateSentence = TRUE
  GateMinSentence = 1
  MaxLetters = 6
  MaxFinals = 2
  Requests = {r1, r2, r3}
  Stamps = {1, 2}
  Bodies = {"a", "b"}
  Genuine <- MCGenuine
  Window = 2
  Skew = 1
  MaxSize = 2
  Slack = 0
  Chunks <- AllChunks
  MaxChunks = 5
  MaxBufferSize = 8
  Interval = 2
  MinChars = 4
  DetectSentence = TRUE
  MinSentence = 2
  OnBlockedThrows = FALSE
  Given <- OneCollector
  Later = {"l"}
  MaxBuffered = 2
  MaxEvents = 3
  Serial = {0, 5, 9}
  r1 = r1
  r2 = r2
  r3 = r3
  s1 = s1
  s2 = s2
  s3 = s3
  t1 = t1
  t2 = t2
  t3 = t3
  k1 = k1
  c1 = c1
  c2 = c2
  e1 = e1
  e2 = e2
INVARIANTS
  StoreAgrees
  AcceptedTwiceOnlyAtEdge
  AtMostTwiceTheLimit
  VerdictsAreRecent
  HooksRunOnce
  EarlyBlockExact
  AcceptedOnce
  ReleasedWasAllowed
  ScheduleCovers
  EventsArriveOnce
  SlipsAreCaught
PROPERTIES
  FadesOnlyInSilence
CHECK_DEADLOCK FALSE
