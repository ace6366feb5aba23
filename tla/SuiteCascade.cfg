SPECIFICATION Spec
CONSTANTS
  AttestLimit = 16
  SearchLimit = 8
  PollOvershoot = 1
  Spare = 2
  ClaimTime = 10
  TestLimit = 6
  MaxRun = 2
INVARIANTS
  OneAttestation
  OneAccount
  ProbePays
  AttributedBeforeTimeout
  CascadeHasASignal
  InclusionWaitedOnce
PROPERTIES
  DriftEndsWaits
  PersonSpec
CHECK_DEADLOCK FALSE
