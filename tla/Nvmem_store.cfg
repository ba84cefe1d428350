SPECIFICATION FairSpec
CONSTANTS
  START = 0
  END = 80
  MAGIC = 8
  HEADER = 8
  SIZE_T = 8
  Lens <- SomeLens
  Fills <- Letters
  MaxSaves = 4
  MaxCrashes = 1
INVARIANTS
  ChainIntact
  DataKept
  BestFitTaken
PROPERTIES
  CallsReturn
CHECK_DEADLOCK FALSE
