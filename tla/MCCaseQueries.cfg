SPECIFICATION FairSpec
CONSTANTS
  Case = {1, 2, 3}
  Instant <- MCInstant
  State = {"draft", "archived"}
  Site = {"north"}
  Reader = {r1}
  FilterInput <- MCFilters
  Limit = {1, 2}
  MaxRevision = 2
  MaxAsked = 1
  None = None
CHECK_DEADLOCK FALSE
INVARIANTS
  TypeOK
  WalkNeverRepeats
  WalkMissesNone
  FiguresGrow
  RangeRightToTheSecond
  SnapshotOfOneMoment
PROPERTIES
  EveryQuestionAnswered
  EveryWalkEnds
