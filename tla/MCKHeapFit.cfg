SPECIFICATION Spec
CONSTANTS
  PAGE = 8
  START = 8
  WORD = 256
  HEAP_MAGIC = 171
  Unwritten = 0
  Idle = Idle
  Sizes <- CloseSizes
  Aligns <- KmallocOnly
  INITIAL_SIZE = 40
  HEAP_MIN_SIZE = 24
  LIMIT = 48
  FreeOrder = "forward"
  Growth = "none"
  UserWords <- Zero
INVARIANTS
  TypeOK
  HoleTags
  FreeSpaceIndexed
  Coalesced
  KeepsRunning
PROPERTIES
  PayloadIntact
