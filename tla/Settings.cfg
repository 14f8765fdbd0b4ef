SPECIFICATION Spec
CONSTANTS
  Keys <- FourKeys
  Clearable = {"buckets"}
  Typed = {"keep"}
  Parsed <- KeepParsed
  DestKey = "dest"
  Values = {"a", "b"}
  Unbuildable = {"b"}
  File <- InFile
  Env <- UrlInEnv
  Reqs = {r1, r2, r3}
  Bodies <- AnyBody
  MaxCrashes = 1
  Faults = {"store", "dest"}
SYMMETRY Symmetry
INVARIANT TypeOK
INVARIANT SavedIsLoaded
PROPERTY SavedIsLive
PROPERTY FailedSwapKeepsDest
CHECK_DEADLOCK FALSE
