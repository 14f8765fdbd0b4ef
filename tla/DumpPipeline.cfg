SPECIFICATION FairSpec
CONSTANTS
  Chunks = 4
  OSPipe = 2
INVARIANT TypeOK
INVARIANT StoredIsWhole
INVARIANT CmdErrIsSettled
PROPERTY CallIsImplemented
PROPERTY RunReturns
PROPERTY NothingLeftBehind
CHECK_DEADLOCK FALSE
