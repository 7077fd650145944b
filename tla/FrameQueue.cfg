CONSTANTS
  Producers = {p1, p2}
  Consumers = {c1, c2}
  BitMapHolderMax = 1
  MaxFrames = 5
SPECIFICATION Spec
SYMMETRY Symmetry
INVARIANTS QTypeOK SizeIsLength BufferBound
CHECK_DEADLOCK FALSE
