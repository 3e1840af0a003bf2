SPECIFICATION FairSpec
CONSTANTS
  Validators = {v1, v2, v3}
  Guards = {g1, g2}
  Lasting = g2
  Callbacks = {f1, f2}
  Calls = {c1, c2}
  Kinds = {"content", "bypass", "input", "cached"}
  ShortCircuit = TRUE
  Parallel = FALSE
  Forced = FALSE
  Hung = {v3}
  Removals = TRUE
  Threshold = 1
  TimeoutMs = 1
  MaxClock = 0
  MaxViolations = 1
  c1 = c1
  c2 = c2
  f1 = f1
  f2 = f2
  g1 = g1
  g2 = g2
  v1 = v1
  v2 = v2
  v3 = v3
CONSTRAINT InScenario
INVARIANTS
  FailClosed
  AuditInOrder
PROPERTIES
  CallsReturn
  AuditComplete
CHECK_DEADLOCK FALSE
