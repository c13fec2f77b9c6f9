SPECIFICATION Spec
CONSTANTS
  PageSize = 16
  Regions <- MCRegions
  Requests <- MCRequests
  MaxCount = 5
INVARIANTS TypeOK PoolInside ExtentsExact
PROPERTIES FailsOnlyWhenFull
CHECK_DEADLOCK FALSE
