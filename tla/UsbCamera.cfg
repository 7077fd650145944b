CONSTANTS
  CAMERANUM = 2
  BufferCount = 2
  Failures <- AllFailures
  MaxRecords = 2
  MaxStops = 2
SPECIFICATION FairSpec
INVARIANTS TypeOK UnmapsOnce FreedOnce LiveImage StopReleases ThreadHasCamera
PROPERTY StopEndsThread
CHECK_DEADLOCK FALSE
