SPECIFICATION Spec
CONSTANTS
  Sites <- MCSites
  Record0 <- MCRecord0
  Live0 <- MCLive0
  Releases0 <- MCReleases0
  RELEASE_WALK = 2
  MaxSpec = 2
  MaxReleases = 4
  MaxFaults = 1
INVARIANTS PinsWereRun GreenScanTrue
PROPERTIES RecordCatchesUp LedgerSpec
