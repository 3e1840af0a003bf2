SPECIFICATION SessionSpec
CONSTANTS
  MaxTime = 2
  SessionIds = {s1, s2}
  MaxSessions = 2
  SessionTimeout = 2
  SweepEvery = 3
  SweepCap = 1
  MaxFragments = 2
  MaxRisk = 4
  MaxCalls = 4
  s1 = s1
  s2 = s2
INVARIANT HalvesPerHalfLife
CHECK_DEADLOCK FALSE
