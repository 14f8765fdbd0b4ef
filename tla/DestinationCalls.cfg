SPECIFICATION Spec
CONSTANTS
  Files <- DumpAndObject
  Left <- AnyLeft
  Writers = {w1}
  Deleters = {x1, x2}
  Readers = {r1}
  PageSize = 1
  MaxBreaks = 1
SYMMETRY Symmetry
INVARIANT TypeOK
INVARIANT OnePassFinishes
INVARIANT UntouchedIsRead
INVARIANT TornHasCause
PROPERTY DeleteIsTrue
