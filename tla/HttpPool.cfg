SPECIFICATION FairSpec
CONSTANTS
  Requests <- MCRequests
  Kinds <- MCKinds
  MaxTeams = 2
INVARIANTS TypeOK OnePlace NoneSleeps
PROPERTIES PostThreadEnds PostDrains
CHECK_DEADLOCK FALSE
