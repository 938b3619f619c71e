SPECIFICATION Spec
CONSTANTS
  Case = {1}
  Instant <- MCRangeInstant
  State = {"draft"}
  Site = {"north"}
  Reader = {r1}
  FilterInput <- MCRange
  Limit = {1}
  MaxRevision = 1
  MaxAsked = 2
  None = None
CHECK_DEADLOCK FALSE
INVARIANT ShownWasCreatedInRange
