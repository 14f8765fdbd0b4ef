SPECIFICATION Spec
CONSTANTS
  Reqs = {r1, r2, r3, r4}
  MaxId = 2
  MaxCrashes = 1
  Faults = {"store"}
SYMMETRY Symmetry
INVARIANT TypeOK
INVARIANT CronMatchesEntries
INVARIANT InSync
CHECK_DEADLOCK FALSE
