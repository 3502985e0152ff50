SPECIFICATION Spec
CONSTANTS
  Items <- FourItems
  KeyOf <- SharedKey
  MaxSize = 4
  Foreign = Foreign
INVARIANTS
  TypeOK
  StaysInside
  SortedBetweenCalls
PROPERTIES
  ImplementsArray
