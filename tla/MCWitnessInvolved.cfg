CONSTANTS
  Text <- MCText
  Blank = ""
  Trim <- MCTrim
  BaselineInput <- MCBaselineInput
  PlanInput <- MCOnePlan
  ItemInput <- MCItemInput
  MaxBatch = 2
  Person <- MCPerson
  ConfirmedInput <- MCConfirmedInput
  LayerInput <- MCLayerInput
  None = None
  MaxRevision = 11
SPECIFICATION Spec
INVARIANT WitnessNeverInvolved
CHECK_DEADLOCK FALSE
