SPECIFICATION Spec
CONSTANTS
  Providers <- MCProviders
  MaxKey = 5
  Root <- MCRoot
  Marker <- MCMarker
  Scope <- MCScope
  PageSize = 2
  MaxBytes = 2
  MaxChanges = 2
CHECK_DEADLOCK FALSE
INVARIANT ListingIsWhole
