SPECIFICATION ContainersSpec
CONSTANTS
  a = a
  b = b
  NULL = NULL
  Values <- TwoValues
  COUNT_BITS = 2
  Room = 4
  Chars = {1, 2}
  BUFSIZE = 2
  MaxLen = 6
  Numbers <- TwoValues
  Words = 18
  WORD_BITS = 4
  Size = 7
  MARK = 2
  Requests = {0, 1, 3}
INVARIANTS
  CountIsLength
  ReadsInOrder
  TextAsOnePiece
  VlistIndexed
PROPERTIES
  DequeSpec
  IterationComplete
  VlistSpec
  HeapSpec
CHECK_DEADLOCK FALSE
