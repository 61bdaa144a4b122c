SPECIFICATION Spec

CONSTANTS
  Archives <- MCArchives
  Listings <- MCListings
  Contents <- MCContents
  Inventories <- MCInventories
  SystemIDs = {s1, s2}
  s1 = s1
  s2 = s2
  NoSystemID = NoSystemID
  MaxHistoryEntries = 2
  MaxHistoryFiles = 3
  MaxRecoveryPaths = 4
  MinimumConfigured = TRUE
  ExpectedMinimumRedundancy = 1
  PolicyConfigured = FALSE

\* The analysis returns.
CHECK_DEADLOCK FALSE

INVARIANTS
  ValidHistoriesAgree
  HealthyAncestryIsComplete
  CoverageIsExact
  GapsThatStopAreRequired
  TimelinesAreAccountedFor
  HealthyCoverageIsWhole
  RefusalsAreExplained
