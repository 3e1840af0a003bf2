SPECIFICATION Spec
CONSTANTS
  Validators = {v1, v2}
  Guards = {g1}
  Callbacks = {}
  Calls = {c1}
  Kinds = {"content", "input"}
  ShortCircuit = TRUE
  Parallel = FALSE
  Forced = FALSE
  Hung = {}
  Removals = TRUE
  Threshold = 1
  TimeoutMs = 1
  MaxClock = 0
  MaxViolations = 0
  c1 = c1
  g1 = g1
  v1 = v1
  v2 = v2
INVARIANTS
  CoversRegistry
CHECK_DEADLOCK FALSE
