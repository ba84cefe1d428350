CONSTANTS
  HDR = 1
  PTR = 2
  DirBits = 2
  Size = 11
  Requests <- SmallRequests
  MaxDirs = 3
SPECIFICATION Spec
INVARIANTS TypeOK MarkChain LiveDisjoint DirectionFaithful
PROPERTIES RewindReturnsMark ArenaSpec
CHECK_DEADLOCK FALSE
