SPECIFICATION Spec
CONSTANTS
  Keys = {k0, k1, own}
  Own = own
  MaxRing = 0
  RingSize = 3
  PageSize = 3
  BuildLimit = 3
  Flexible = TRUE
  MaxHeight = 8
  TimeoutTicks = 3
  SettleTicks = 1
  ExpectedBlocks = 4
INVARIANTS LocationProvable RootViewsAgree TimeoutHonest
CHECK_DEADLOCK FALSE
SYMMETRY OtherKeys
