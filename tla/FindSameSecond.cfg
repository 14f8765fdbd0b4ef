SPECIFICATION Spec
CONSTANTS
  j1 = j1
  j2 = j2
  j3 = j3
  b1 = b1
  b2 = b2
  o1 = o1
  o2 = o2
  Jobs = {j1, j2}
  Configs <- DumpsOnly
  Contents <- NoObjects
  FirstDay = 0
  MaxDay = 1
  MaxTick = 1
  OldDates = {}
  AtomicWrite = FALSE
  ListLimit = 9
  Faults = {}
  Floor = 1
  MinAge = 0
INVARIANT DumpIsKept
