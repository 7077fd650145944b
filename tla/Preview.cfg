SPECIFICATION Spec
CONSTANTS
  MaxTurns <- ThreePictures
  MaxViews = 2
  MaxReturns = 1
  MaxChanges = 2
INVARIANTS TypeOK ShownIsFed NoneDropped DrawsLive OutlivesPreview
CHECK_DEADLOCK FALSE
