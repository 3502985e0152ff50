SPECIFICATION Spec
CONSTANTS
  PAGE = 8
  START = 8
  WORD = 256
  HEAP_MAGIC = 171
  Unwritten = 0
  Idle = Idle
  Sizes <- SmallSizes
  Aligns <- KmallocOnly
  INITIAL_SIZE = 8
  HEAP_MIN_SIZE = 8
  LIMIT = 56
  FreeOrder = "inner"
  Growth = "tail"
  UserWords <- NoWords
INVARIANTS
  LiveBlocksDisjoint
  BoundaryTags
  FreeSpaceIndexed
PROPERTIES
  KeepsPromise
CHECK_DEADLOCK FALSE
