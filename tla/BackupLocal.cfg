SPECIFICATION Spec
CONSTANTS
  j1 = j1
  j2 = j2
  j3 = j3
  b1 = b1
  b2 = b2
  o1 = o1
  o2 = o2
  Jobs = {j1, j2}
  Configs <- FullKeepOne
  Contents <- OneObject
  FirstDay = 1
  MaxDay = 2
  MaxTick = 0
  OldDates = {0}
  AtomicWrite = FALSE
  ListLimit = 9
  Faults = {"source", "dest", "store", "crash"}
  Floor = 1
  MinAge = 0
SYMMETRY Symmetry
INVARIANT TypeOK
INVARIANT StoredStaysWhole
INVARIANT DatesCoverFiles
INVARIANT SuccessIsEarned
