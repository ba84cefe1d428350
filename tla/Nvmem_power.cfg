SPECIFICATION FairSpec
CONSTANTS
  START = 0
  END = 80
  MAGIC = 8
  HEADER = 8
  SIZE_T = 8
  Lens <- OneLen
  Fills <- OneLetter
  MaxSaves = 1
  MaxCrashes = 1
PROPERTIES
  SaveReturns
CHECK_DEADLOCK FALSE
