SPECIFICATION Spec
CONSTANTS
  START = 0
  END = 80
  MAGIC = 8
  HEADER = 8
  SIZE_T = 8
  Lens <- OneLen
  Fills <- OneLetter
  MaxSaves = 4
  MaxCrashes = 0
INVARIANT
  LoadReturnsSaved
CHECK_DEADLOCK FALSE
