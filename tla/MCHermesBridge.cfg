CONSTANTS
  v1 = v1
  Worker = Worker
  Visitors <- MCVisitors
  MaxTurns = 3
  MaxText = 2
  ErrorReplies <- AnyRequest
  Slow <- AllSlow
SPECIFICATION Spec
CHECK_DEADLOCK FALSE
INVARIANT Consistent
PROPERTIES PromptReturns ImplementsSession
