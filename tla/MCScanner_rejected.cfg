SPECIFICATION Spec
CONSTANTS
  MaxObjects = 1
  PageSize = 1
  PageSlack = 1
  c1 = c1
  c2 = c2
  Cursors <- MCCursors
  NoCursor = NoCursor
  Categories = {"timeout"}
  CatalogOutcomes <- MCOneCatalog
  RecoveryOutcomes <- MCRecoveryOutcomes
  NoFacts = NoFacts
  Times <- MCTimes
  Sidecar = FALSE
  AnalyzeBarman = TRUE
  MaxGeneration = 2
CHECK_DEADLOCK FALSE
INVARIANT FailedAttemptMarksStale
