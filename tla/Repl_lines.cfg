SPECIFICATION FairReplSpec
CONSTANTS
  HDR = 1
  PTR = 1
  DirBits = 8
  SizeOf <- Bytes
  CELL_SYMBOL_LENGTH_BITS = 2
  CELL_LIST_LENGTH_BITS = 2
  Size = 34
  FRAMES = 3
  FRAME_BITS = 2
  Padding = {0}
  Scripts <- LinesOnly
PROPERTIES
  PromptFirst
  LineAnswered
  EndsWithInput
CHECK_DEADLOCK FALSE
