SPECIFICATION Spec
CONSTANTS
  Readers = {r1}
  backups = backups
  gaps = gaps
  Routes <- MCRoutes
  Limits = {0, 1, 2}
  DefaultLimit = 2
  Lengths = {0, 2, 3}
  NoCursor = NoCursor
  MaxRevision = 2
  MaxProcesses = 2
SYMMETRY MCSymmetry
INVARIANTS
  CollectionsAreWhole
  AssemblyMatchesSnapshot
  OrderlyReaderIsServed
