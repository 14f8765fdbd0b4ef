SPECIFICATION Spec
CONSTANTS
  Reqs = {r1, r2, r3}
  MaxId = 1
  MaxCrashes = 0
  Faults = {}
INVARIANT DeletedIsGone
CHECK_DEADLOCK FALSE
