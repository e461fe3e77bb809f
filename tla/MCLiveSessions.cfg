CONSTANTS
  c1 = c1
  c2 = c2
  s1 = s1
  Conns <- TwoConns
  Sessions <- OneSession
  MaxRuntimes = 3
  MaxRequests = 3
SPECIFICATION Spec
CHECK_DEADLOCK FALSE
INVARIANTS Consistent OneRuntimePerSession DisposedWhenUnused
PROPERTIES EveryRequestAnswered CloseReturns
