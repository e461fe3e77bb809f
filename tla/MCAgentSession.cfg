CONSTANTS
  MaxTexts = 2
  MaxNotes = 1
  MaxToolTurns = 1
  MaxErrors = 2
  MaxCompactions = 1
  MaxRetries = 1
  ToolCalls = 2
  DrainAll = FALSE
SPECIFICATION Spec
CHECK_DEADLOCK FALSE
INVARIANTS Consistent ResultsFollowCalls DeliveredOnce
PROPERTIES QueuedIsDelivered AbortReturns
