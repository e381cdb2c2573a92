CONSTANTS
  Elem = {a, b}
  Capacity = 3
  MaxCount = 4
  NumNodes = 8
  SplayNodes = 7
SPECIFICATION MCSpec
INVARIANTS FlagsMatchPositions Balanced
PROPERTIES ImplementsFifo RBIsOrderedSet SplayIsOrderedSet
