CONSTANTS
  Cams = {c1}
  Main = main
  BitMapHolderMax = 1
  MaxFrames = 3
  MaxRec = 2
  MaxSwitches = 0
  MaxStops = 1
  MaxFaults = 0
  NameSteps <- Apart
  Calm = TRUE
SPECIFICATION FairSpec
PROPERTY StopLetsThreadExit
CHECK_DEADLOCK FALSE
