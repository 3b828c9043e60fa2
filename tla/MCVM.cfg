CONSTANTS
  Programs <- MCPrograms
  Meanings <- MCMeanings
  Shapes <- MCShapes
  STACK_MAX = 16
  HEAP_MAX = 32
  COUNT_LIMIT = 8
  INT_MAX = 127
  ForeignResults <- MCResults
  FloatInts <- MCFloatInts
SPECIFICATION FairSpec
INVARIANTS
  NeverUndefined
  KindsSeparated
  HeapShaped
  LocalsDefined
  ReturnsToCaller
  CompletedClean
  MeansWhatItSays
  CodeDisciplined
  AccessesTyped
PROPERTIES
  WritesStayInObject
  Terminates
