CONSTANTS
  c1 = c1
  c2 = c2
  e1 = e1
  e2 = e2
  Clients <- MCClients
  Emitters <- TwoEmitters
  Capacity = 1
  MaxEvents <- ThreeAndOne
  Leavers <- FirstClient
SPECIFICATION FanoutSpec
CHECK_DEADLOCK FALSE
INVARIANTS Consistent NoGap
PROPERTY EveryEventArrives
