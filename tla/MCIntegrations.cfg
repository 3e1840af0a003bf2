SPECIFICATION IntegrationsSpec
CONSTANTS
  Chunks <- GateChunks
  MaxChunks = 6
  MaxBufferSize = 7
  Interval = 2
  ChunkInterval = 3
  CharInterval = 3
  MaxText = 4
  Sizes = {0, 1, 2}
  MaxStream = 5
  MaxUpstream = 5
  MaxRows = 3
  MaxPieces = 3
  MinChars = 4
  DetectSentence = TRUE
  MinSentence = 3
  OnBlockedThrows = FALSE
  Appends = {a1, a2, a3, a4}
  Rooms = {r1, r2}
  Contents = {k1, k2}
  Policies = {"refuse-write", "drop-oldest"}
  MaxPerRoom = 2
  MaxTotal = 2
  Faulty = TRUE
  Commands = {m1, m2}
  EnvKeys = {"KEY1", "KEY2"}
  Others = {"ELSES"}
  FirstFiles <- EnvFiles
  Texts <- PartTexts
  Judges <- ChainJudges
  Refs = {"h1", "h2"}
  MaxParts = 3
  MaxShown = 2
  HardCap = 7
  MaxRaw = 1
  MaxRescans = 1
  Patterns = {"ignore", "reset", "resetSyn", "web3"}
  LevelOf <- PatternLevels
  Tame = {"web3"}
  OriginalOf <- Synonyms
  Listed <- Tables
  MaxHits = 2
  MaxFound = 1
  EscalateAt = 3
  RaiseAbove = 3
  RefuseAt = 4
  RiskThreshold <- Thresholds
  m1 = m1
  m2 = m2
  a1 = a1
  a2 = a2
  a3 = a3
  a4 = a4
  r1 = r1
  r2 = r2
  k1 = k1
  k2 = k2
SYMMETRY Interchangeable
INVARIANTS
  NoChunkLost
  LeakIsBounded
  EndIsJudged
  ReaderIsServed
  OnlyAcceptedGoesOn
  ResultsAgree
  ChainVerifies
  TotalOvershoot
  LockHandedOn
  NothingRefusedSurvives
PROPERTIES
  RefusalIsFinal
  ValidatesBeforeRelease
  ChangesItsOwnOnly
  NeverMilder
CHECK_DEADLOCK FALSE
