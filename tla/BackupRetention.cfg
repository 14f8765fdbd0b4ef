SPECIFICATION Spec
CONSTANTS
  j1 = j1
  j2 = j2
  j3 = j3
  b1 = b1
  b2 = b2
  o1 = o1
  o2 = o2
  Jobs = {j1, j2, j3}
  Configs <- DumpKeepBoth
  Contents <- NoObjects
  FirstDay = 2
  MaxDay = 3
  MaxTick = 0
  OldDates = {0, 1}
  AtomicWrite = TRUE
  ListLimit = 3
  Faults = {"dest"}
  Floor = 1
  MinAge = 1
SYMMETRY Symmetry
INVARIANT DoomedOutOfPolicy
PROPERTY RetentionPromise
