CONSTANTS
  Requests = {r1, r2, r3, r4, r5}
  Keys = {client, other}
  Limit = 1
  WindowSecs = 4
  Cap = 2
  MaxDelay = 1
  MaxTime = 6
SPECIFICATION Spec
SYMMETRY LimiterSymmetry
CHECK_DEADLOCK FALSE
INVARIANTS
  TypeOK
  RefusalsAreJust
  BurstIsBounded
PROPERTIES
  WindowsApart
