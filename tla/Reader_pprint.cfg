SPECIFICATION PrintSpec
CONSTANTS
  HDR = 40
  PTR = 8
  DirBits = 8
  SizeOf <- LP64
  CELL_SYMBOL_LENGTH_BITS = 6
  CELL_LIST_LENGTH_BITS = 10
  Size = 4096
  FRAMES = 3
  FRAME_BITS = 2
  Padding = {0}
  Scripts <- PrintedText
  Stale = {0}
INVARIANT
  PprintSucceeds
CHECK_DEADLOCK FALSE
