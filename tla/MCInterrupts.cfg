SPECIFICATION Spec
CONSTANTS
  Lines <- ThreeLines
  MaskPairs <- Pairs
  Faults <- MainFaults
  Text = 1052672
  MaxEvents = 4
INVARIANTS
  TypeOK
  FramesWhole
  IrqsDoNotNest
  EndedBeforeHandler
  MasksRestored
PROPERTIES
  Served
CHECK_DEADLOCK FALSE
