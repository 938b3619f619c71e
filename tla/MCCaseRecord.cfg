CONSTANTS
  Text <- MCText
  Blank = ""
  Trim <- MCTrim
  BaselineInput <- MCBaselineInput
  PlanInput <- MCPlanInput
  ItemInput <- MCItemInput
  MaxBatch = 2
  Person <- MCPerson
  ConfirmedInput <- MCConfirmedInput
  LayerInput <- MCReturned
  FilterInput <- MCFilters
  None = None
  MaxRevision = 11
SPECIFICATION StoredSpec
INVARIANTS
  TypeOK
  HeldIffOpen
  SealedInOrder
  VerifiedIsComplete
  VerdictCurrent
  IndependentWitness
  ArchiveAlwaysServes
  RowsAgree
  ProgressMatchesReport
  FinishedShowsNoGap
  
  BlockedOnlyWhileHeld
  SummariesAgree
PROPERTIES
  LockedFactsKept
  AllOrNothing
  PromiseKept
CHECK_DEADLOCK FALSE
