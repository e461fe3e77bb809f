CONSTANTS
  c1 = c1
  c2 = c2
  Conns <- TwoConns
  Listeners = 1
  MaxChanges = 1
  MaxRequests = 1
SPECIFICATION ServerSpec
CHECK_DEADLOCK FALSE
INVARIANTS ServerConsistent UpToDate
PROPERTIES NeverBack EveryRequestHandled CloseReturns
