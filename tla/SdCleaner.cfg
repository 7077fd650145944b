CONSTANTS
  HalfInt = 8
  Dates <- OneDay
  Cleaners = {k1, k2}
  Waiters = {w1}
  Capacity = 3
  minFreeSize = 1
  cleanSize = 1
  MaxRequests = 1
  MaxMoves = 1
SPECIFICATION OnlyVideosSpec
ACTION_CONSTRAINT SmallSteps
SYMMETRY Symmetry
INVARIANT SdTypeOK
PROPERTIES OvershootBounded
CHECK_DEADLOCK FALSE
