CONSTANTS
  MaxTexts = 3
  Prompts <- MCPrompts
  Steers <- MCSteers
  Says <- MCSays
  DrainGuard = 1
SPECIFICATION Spec
CHECK_DEADLOCK FALSE
INVARIANTS Consistent OwnResult InOnePlace
PROPERTY EveryRunEnds
