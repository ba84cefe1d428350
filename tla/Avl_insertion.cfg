SPECIFICATION Spec
CONSTANTS
  Keys <- TwoKeys
  Junk = 99
  Room = 5
  FewKeys <- TwoKeys
  FewNodes = 5
INVARIANTS
  InsertionCompletes
CHECK_DEADLOCK FALSE
