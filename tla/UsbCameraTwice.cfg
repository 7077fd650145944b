CONSTANTS
  CAMERANUM = 2
  BufferCount = 2
  Failures <- NoFailures
  MaxRecords = 2
  MaxStops = 1
SPECIFICATION Spec
INVARIANT StopClosesCard
CHECK_DEADLOCK FALSE
