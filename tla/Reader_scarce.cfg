SPECIFICATION FairPrintSpec
CONSTANTS
  HDR = 1
  PTR = 1
  DirBits = 8
  SizeOf <- Bytes
  CELL_SYMBOL_LENGTH_BITS = 2
  CELL_LIST_LENGTH_BITS = 2
  Size = 26
  FRAMES = 3
  FRAME_BITS = 2
  Padding = {0, 1}
  Scripts <- ScarceAndNested
  Stale = {0, 1}
INVARIANTS
  TypeOK
  PrinterStacked
  HeadroomSuffices
PROPERTIES
  CallsReturn
CHECK_DEADLOCK FALSE
