CONSTANTS
  HalfInt = 8
  Dates <- FarApart
  Cleaners = {k1}
  Waiters = {w1}
  Capacity = 2
  minFreeSize = 1
  cleanSize = 1
  MaxRequests = 1
  MaxMoves = 0
SPECIFICATION Spec
PROPERTY OldestFirst
CHECK_DEADLOCK FALSE
