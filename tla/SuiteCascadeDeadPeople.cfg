SPECIFICATION Spec
CONSTANTS
  AttestLimit = 16
  SearchLimit = 8
  PollOvershoot = 1
  Spare = 2
  ClaimTime = 10
  TestLimit = 6
  MaxRun = 1
INVARIANT NoAttestationOnDeadPeople
CHECK_DEADLOCK FALSE
