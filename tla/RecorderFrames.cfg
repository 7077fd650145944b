CONSTANTS
  Cams = {c1}
  Main = main
  BitMapHolderMax = 1
  MaxFrames = 2
  MaxRec = 3
  MaxSwitches = 1
  MaxStops = 1
  MaxFaults = 0
  NameSteps <- Apart
  Calm = FALSE
SPECIFICATION Spec
INVARIANT StrandedIsFirst
PROPERTIES FramesOnceInOrder DrainLeavesFew
CHECK_DEADLOCK FALSE
