SPECIFICATION Spec
CONSTANTS
  MaxDay = 4
  MaxTick = 1
  MaxKeep = 3
INVARIANT LoopLeavesKeepSet
INVARIANT CutShortIsSafe
