CONSTANTS
  zero = zero
  a = a
  none = none
  Values = {zero, a}
  Zero = zero
  NoValue = none
  InitCapacities <- MCInit
  MaxCapacities <- MCMax
  GrowMax = 3
SPECIFICATION Spec
INVARIANTS TypeOK CapacityInv RefusedOnlyFull
PROPERTY ImplementsBoundedList
