SPECIFICATION Spec
CONSTANTS
  alice = alice
  Accounts = {a1, a2}
  Persons = {alice, bob}
  PersonOf <- MCPersonOf
  Registered = {a2}
  MirrorWindow = 1
  MaxRevision = 1
  MaxBumps = 2
  MaxLeft = 1
INVARIANTS TypeOK SpentForGood TalliesExact MiscountNeedsTwin
PROPERTIES OnlyDriftReverts TallySpec
CHECK_DEADLOCK FALSE
