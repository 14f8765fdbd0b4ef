SPECIFICATION FairSpec
CONSTANTS
  Paths <- Tree
  PageSize = 2
  MaxUploads = 1
  MaxRemovals = 1
INVARIANT TypeOK
INVARIANT MissedHasCause
INVARIANT NothingTwice
PROPERTY ListingEnds
