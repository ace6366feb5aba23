SPECIFICATION Spec
CONSTANTS
  Grace = 1
  Window = 2
  Deadline = 3
  MaxRevision = 7
INVARIANTS TypeOK BadProofIsARebuild PgasWithinDeadline
PROPERTY ClaimEnds
CHECK_DEADLOCK FALSE
