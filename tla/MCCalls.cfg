SPECIFICATION FairCallsSpec
CONSTANTS
  Requests = {c1, c2}
  VolumeThreshold = 2
  ErrorThreshold = 50
  RecoveryTimeout = 2
  HalfOpenMax = 2
  Timeout = 1
  Throwing = {}
  Manual = TRUE
  MaxTotal = 4
  MaxAttempts = 2
  InitialDelay = 1
  Multiplier = 2
  MaxDelay = 2
  Jitter = 1
  WebRequests = {w1, w2}
  Conversations = {s1}
  Threshold = 2
  Weights = {0, 1}
  Deployed = {"express", "fastify", "nest", "hono", "elysia", "edge", "route", "action"}
  Runs = {d1, d2}
  MaxCrashes = 1
  MaxFailures = 1
  d1 = d1
  d2 = d2
  c1 = c1
  c2 = c2
  w1 = w1
  w2 = w2
  s1 = s1
INVARIANTS
  RecoveryIsEarned
  BooksBalance
  ConversationStaysBelow
  RepliesAreJudged
  OneVerdict
PROPERTIES
  CallsEnd
  RequestsAreAnswered
  RunsEnd
CHECK_DEADLOCK FALSE
