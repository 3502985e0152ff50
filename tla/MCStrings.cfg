SPECIFICATION Spec
CONSTANTS
  WORD = 256
  BUF = 5
  Messages <- MCMessages
  Strings <- MCStringsCompared
  Memory <- MCMemory
  Copies <- MCCopies
INVARIANTS TypeOK Computes
CHECK_DEADLOCK FALSE
