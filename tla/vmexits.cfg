SPECIFICATION Spec
CONSTANTS
  c1 = c1
  c2 = c2
  None = None
  CPU <- MCCPU
  Locks <- MCLocks
  Size = 2
  Width = 2
  MaxExits = 1
  MaxIoctls = 2
INVARIANTS
  TypeOK
  LocksMatch
  HitOncePerEnabling
  StatsComplete
  NoVmreadAfterOff
PROPERTIES
  TopLockReleased
CHECK_DEADLOCK FALSE
