CONSTANTS
  BufferCount = 4
  Failures <- AllFailures
  MaxSurfaces = 3
  Unpluggable = TRUE
SPECIFICATION FairSpec
INVARIANTS TypeOK AloneWithCamera MemorySafe DestroyReleases
PROPERTY StopAnswered
CHECK_DEADLOCK FALSE
