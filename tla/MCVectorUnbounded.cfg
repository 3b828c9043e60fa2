CONSTANTS
  zero = zero
  a = a
  none = none
  Values = {zero, a}
  Zero = zero
  NoValue = none
  InitCapacities <- MCInit
  MaxCapacities <- MCMaxUnbounded
  GrowMax = 3
SPECIFICATION Spec
INVARIANT ZeroMaxMeansUnbounded
CHECK_DEADLOCK FALSE
