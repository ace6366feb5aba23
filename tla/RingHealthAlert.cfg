SPECIFICATION Spec
CONSTANT MaxFails = 3
INVARIANTS TypeOK RecoveryTold RoomUpToDate
PROPERTIES NoPageForOne NoNoise HeaderTrue
CHECK_DEADLOCK FALSE
