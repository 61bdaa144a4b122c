SPECIFICATION FairSpec
CONSTANTS
  MaxObjects = 3
  PageSize = 2
  PageSlack = 2
  c1 = c1
  c2 = c2
  Cursors <- MCCursors
  NoCursor = NoCursor
  Categories <- MCCategories
  CatalogOutcomes <- MCCatalogOutcomes
  RecoveryOutcomes <- MCRecoveryOutcomes
  NoFacts = NoFacts
  Times <- MCTimes
  Sidecar = FALSE
  AnalyzeBarman = FALSE
  MaxGeneration = 3
CHECK_DEADLOCK FALSE
INVARIANTS
  WithinObjectBudget
PROPERTIES
  RefreshTerminates
  ShutdownEnds
