SPECIFICATION LifeSpec
CONSTANTS
  c1 = c1
  c2 = c2
  CPU <- MCOne
  Faults <- NoFaults
INVARIANTS
  HandlerAssertion
CHECK_DEADLOCK FALSE
