SPECIFICATION Spec
CONSTANTS
  Fanout = 2
  SelfSlot = 1
  Root = 1
  Structures <- MCStructures
  Changes <- MCChanges
  MaxChanges = 2
  Calls <- MCCalls
INVARIANTS TypeOK CopyExact Reported SkippedNearHole SelfMapAgrees
