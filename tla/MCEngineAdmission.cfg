SPECIFICATION Spec
CONSTANTS
  Validators = {v1}
  Guards = {g1}
  Callbacks = {}
  Calls = {c1, c2}
  Kinds = {"content", "bypass", "input"}
  ShortCircuit = TRUE
  Parallel = TRUE
  Forced = FALSE
  Hung = {}
  Removals = FALSE
  Threshold = 2
  TimeoutMs = 2
  MaxClock = 4
  MaxViolations = 3
  c1 = c1
  c2 = c2
  g1 = g1
  v1 = v1
SYMMETRY Interchangeable
PROPERTIES
  QuietPeriod
  ClosesLate
CHECK_DEADLOCK FALSE
