SPECIFICATION Spec
CONSTANTS
  Objects <- MCObjects
  Lag = 1
  SegmentsPerLog = {4, 8}
  Metadata <- MCMetadata
  OldestVersion = 9
  NoContext = 0
  MaxRanges = 3
  MaxDiagnostics = 1
  MaxGeneration = 3
CHECK_DEADLOCK FALSE
INVARIANTS
  ContinuityIsExact
  RefusedOnlyForKeys
PROPERTIES
  GapLifecycle
