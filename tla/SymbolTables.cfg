SPECIFICATION TablesSpec
CONSTANTS
  Keys <- SevenKeys
  Junk = 3
  Room = 7
  FewKeys <- FourKeys
  FewNodes = 5
  HDR = 1
  PTR = 1
  DirBits = 4
  Size = 10
  TABLE = 1
  NODE = 1
  HostBlock = 1
INVARIANTS
  Ordered
  Balanced
  Found
  FreshInsertionCompletes
  ArrayHoldsTree
  PathFits
  EnvironmentLive
PROPERTIES
  ToArrayReturns
  ScopeGivenBack
CHECK_DEADLOCK FALSE
