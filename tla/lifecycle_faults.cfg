SPECIFICATION LifeSpec
CONSTANTS
  c1 = c1
  c2 = c2
  CPU <- MCCPU
  Faults <- AllFaults
INVARIANTS
  HandlerDataLifetime
  StartedMeansAll
  UsersOutlived
CHECK_DEADLOCK FALSE
