CONSTANTS
  Text <- MCText
  Blank = ""
  Trim <- MCTrim
  Depth = 2
  PlanInput <- MCPlanInput
SPECIFICATION Spec
INVARIANTS
  LockableIffSound
  LockableIsBuildable
  DigestIsCanonical
CHECK_DEADLOCK FALSE
