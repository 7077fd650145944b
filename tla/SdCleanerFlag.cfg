CONSTANTS
  HalfInt = 8
  Dates <- OneDay
  Cleaners = {k1}
  Waiters = {w1}
  Capacity = 4
  minFreeSize = 1
  cleanSize = 2
  MaxRequests = 1
  MaxMoves = 0
SPECIFICATION Spec
INVARIANT FlagReset
CHECK_DEADLOCK FALSE
