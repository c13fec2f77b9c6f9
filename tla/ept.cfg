SPECIFICATION Spec
CONSTANTS
  Fanout = 2
  Tables <- MCTables
  Pages = 8
  Hosts <- MCHosts
  Rights <- MCRights
  Ranges <- MCRanges
  MemType <- MCMemType
INVARIANTS TypeOK TableTree
PROPERTIES ImplementsMap
CHECK_DEADLOCK FALSE
