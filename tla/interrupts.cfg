SPECIFICATION Spec
CONSTANTS
  i1 = i1
  i2 = i2
  i3 = i3
  None = None
  Id <- MCId
  Size = 2
  Fronts = {TRUE, FALSE}
INVARIANTS TypeOK WindowTracksQueue EntryFailsInShadow
PROPERTIES InOrder QueuedDelivered
CHECK_DEADLOCK FALSE
