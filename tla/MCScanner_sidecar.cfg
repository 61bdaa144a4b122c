SPECIFICATION Spec
CONSTANTS
  MaxObjects = 1
  PageSize = 1
  PageSlack = 1
  c1 = c1
  c2 = c2
  Cursors <- MCOneCursor
  NoCursor = NoCursor
  Categories <- MCCategories
  CatalogOutcomes <- MCCatalogOutcomes
  RecoveryOutcomes <- MCRecoveryOutcomes
  NoFacts = NoFacts
  Times <- MCTimes
  Sidecar = TRUE
  AnalyzeBarman = TRUE
  MaxGeneration = 3
CHECK_DEADLOCK FALSE
INVARIANTS
  TypeOK
  FailureClaimsNothing
  EngineAgreesWithCache
  SuccessIsVisible
  StateIsWorstCapability
PROPERTIES
  EvidenceIsOneCompleteScan
  ImplementsPublications
