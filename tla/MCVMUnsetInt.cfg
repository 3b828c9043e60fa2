CONSTANTS
  Programs <- MCUnsetInt
  Shapes <- MCShapes
  STACK_MAX = 8
  HEAP_MAX = 12
  COUNT_LIMIT = 6
  INT_MAX = 127
  ForeignResults <- MCResults
  FloatInts <- MCFloatInts
SPECIFICATION FairSpec
INVARIANT UnsetDefaultsToZero
