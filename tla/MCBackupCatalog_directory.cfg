SPECIFICATION Spec
CONSTANTS
  oid = oid
  OIDs = {oid}
  MetadataKey = MetadataKey
  Keys <- MCKeys
  Plans <- MCPlans
  Leftovers <- MCLeftovers
  Malformed = Malformed
  NoMetadata = NoMetadata
  NoState = NoState
INVARIANTS
  SettledVerdict
  HealthyIsComplete
  HealthyIsConfirmed
