SPECIFICATION RateSpec
CONSTANTS
  MaxTime = 4
  Keys = {k1}
  MaxPerWindow = 2
  WindowTicks = 2
  PurgeEvery = 3
  MaxAllowed = 6
  k1 = k1
INVARIANT AtMostTheLimit
CHECK_DEADLOCK FALSE
