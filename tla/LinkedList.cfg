SPECIFICATION ListSpec
CONSTANTS
  Values = {v1, v2}
  MaxNodes = 4
  v1 = v1
  v2 = v2
INVARIANT DoublyLinked
PROPERTY ImplementsSequence
