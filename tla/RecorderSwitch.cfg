CONSTANTS
  Cams = {c1}
  Main = main
  BitMapHolderMax = 1
  MaxFrames = 1
  MaxRec = 3
  MaxSwitches = 1
  MaxStops = 1
  MaxFaults = 1
  NameSteps <- MayCollide
  Calm = TRUE
SPECIFICATION FairSpec
INVARIANTS TypeOK UniqueActive OneHeir SwitchKeepsReader FileFinalised
PROPERTIES StopReachesAll Quiesce
CHECK_DEADLOCK FALSE
