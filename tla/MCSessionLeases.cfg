CONSTANTS
  MaxLeases = 4
SPECIFICATION Spec
CHECK_DEADLOCK FALSE
INVARIANTS Consistent ExclusiveExcludes HeldIfLeased
PROPERTY EveryCallReturns
