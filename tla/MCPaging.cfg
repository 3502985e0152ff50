SPECIFICATION Spec
CONSTANTS
  FRAME_SIZE = 32
  TABLE = 8
  SECTION = 4
  num_of_frames = 32
  HEAP_T = 3
  KernelEnds <- Ends
  KHEAP_PAGE = 24
  HeapPages = 4
  MinPages = 2
  MaxPages = 7
  ContractBy = 1
INVARIANTS
  TypeOK
  FramesExclusive
  IdentityMapped
  BitmapExact
  HeapBacked
PROPERTIES
  Boots
