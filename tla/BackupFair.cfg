SPECIFICATION FairSpec
CONSTANTS
  j1 = j1
  j2 = j2
  j3 = j3
  b1 = b1
  b2 = b2
  o1 = o1
  o2 = o2
  Jobs = {j1, j2}
  Configs <- FullKeepOne
  Contents <- OneObject
  FirstDay = 0
  MaxDay = 1
  MaxTick = 0
  OldDates = {0}
  AtomicWrite = TRUE
  ListLimit = 9
  Faults = {"source"}
  Floor = 1
  MinAge = 0
INVARIANT KeepLastIsApplied
INVARIANT StoredStaysWhole
PROPERTY EveryRunEnds
PROPERTY RowsAreClosed
PROPERTY DoomedGoAway
