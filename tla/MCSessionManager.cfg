CONSTANTS
  t1 = t1
  t2 = t2
  t3 = t3
  Ids <- MCIds
  NoId = NoId
  PrimaryId = 1
  Handlers <- MCHandlers
  NoThread = NoThread
  Endpoints <- AllRoutes
  Deletes = TRUE
  MaxAdds = 4
SPECIFICATION Spec
CHECK_DEADLOCK FALSE
INVARIANTS OneBridgePerAgent UnknownNotServed
PROPERTY EveryRequestAnswered
