SPECIFICATION StreamSpec
CONSTANTS
  Chunks <- AllChunks
  MaxChunks = 3
  MaxBufferSize = 8
  Interval = 2
  MinChars = 4
  DetectSentence = TRUE
  MinSentence = 2
  OnBlockedThrows = TRUE
INVARIANTS
  RefusedIsBlocked
CHECK_DEADLOCK FALSE
