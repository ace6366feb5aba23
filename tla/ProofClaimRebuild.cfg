SPECIFICATION Spec
CONSTANTS
  Grace = 1
  Window = 2
  Deadline = 3
  MaxRevision = 5
INVARIANT OneRebuildSurvived
CHECK_DEADLOCK FALSE
