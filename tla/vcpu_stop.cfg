SPECIFICATION Spec
CONSTANTS
  c1 = c1
  c2 = c2
  CPU <- MCCPU
  Faults <- AllFaults
INVARIANTS
  VcpuStopAssertion
CHECK_DEADLOCK FALSE
