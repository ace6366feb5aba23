SPECIFICATION Spec
CONSTANTS
  Keys = {k0, k1, own}
  Own = own
  MaxRing = 1
  RingSize = 2
  PageSize = 1
  BuildLimit = 1
  Flexible = FALSE
  MaxHeight = 7
  TimeoutTicks = 2
  SettleTicks = 1
  ExpectedBlocks = 4
INVARIANTS TypeOK MissingIsReal
PROPERTY WaitEnds
CHECK_DEADLOCK FALSE
