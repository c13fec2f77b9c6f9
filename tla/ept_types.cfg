SPECIFICATION Spec
CONSTANTS
  Fanout = 2
  Tables <- MCTables
  Pages = 8
  Hosts <- MCHosts
  Rights <- MCRights
  Ranges <- MCRanges
  MemType <- MCMemType
INVARIANT MixedUncached
CHECK_DEADLOCK FALSE
