SPECIFICATION Spec
CONSTANTS
  PAGE = 8
  START = 8
  WORD = 256
  HEAP_MAGIC = 171
  Unwritten = 0
  Idle = Idle
  Sizes <- SmallSizes
  Aligns <- KmallocOnly
  INITIAL_SIZE = 24
  HEAP_MIN_SIZE = 8
  LIMIT = 64
  FreeOrder = "forward"
  Growth = "tail"
  UserWords <- NoWords
INVARIANTS
  EndOnPageBoundary
CHECK_DEADLOCK FALSE
