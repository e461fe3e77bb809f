CONSTANTS
  MaxPrompts = 2
  MaxGens = 2
  MaxText = 1
  MaxCuts = 1
SPECIFICATION Spec
CHECK_DEADLOCK FALSE
INVARIANTS Consistent Serialized
PROPERTIES EveryPromptTerminated NoNeedlessRetry
