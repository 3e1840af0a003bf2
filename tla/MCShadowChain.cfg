SPECIFICATION ShadowSpec
CONSTANTS
  Appends = {a1, a2, a3}
  Rooms = {r1, r2}
  Contents = {x, y}
  Policies = {"refuse-write", "drop-oldest"}
  MaxPerRoom = 3
  MaxTotal = 3
  Faulty = FALSE
  a1 = a1
  a2 = a2
  a3 = a3
  r1 = r1
  r2 = r2
  x = x
  y = y
SYMMETRY Interchangeable
INVARIANTS
  IntactVerifies
CHECK_DEADLOCK FALSE
