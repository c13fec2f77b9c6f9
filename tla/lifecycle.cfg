SPECIFICATION FairSpec
CONSTANTS
  c1 = c1
  c2 = c2
  CPU <- MCCPU
  Faults <- EarlyFaults
INVARIANTS
  TypeOK
  VcpuMemoryUnused
  AllocatorDiscipline
  NoUndefinedOpcode
  VcpuAssertions
PROPERTIES
  StateOrder
  BroadcastsEnd
