SPECIFICATION TablesSpec
CONSTANTS
  PAGE = 16
  START = 16
  WORD = 512
  HEAP_MAGIC = 500
  Unwritten = 7
  Idle = Idle
  Sizes <- MCSizes
  Aligns <- MCAligns
  INITIAL_SIZE = 48
  HEAP_MIN_SIZE = 16
  LIMIT = 272
  FreeOrder = "inner"
  Growth = "tail"
  UserWords <- MCWords
  TABLE = 6
  PLACED = 1
  DEPTH = 2
INVARIANTS
  TablesHold
  FreeSpaceIndexed
PROPERTIES
  ImplementsHeap
CHECK_DEADLOCK FALSE
