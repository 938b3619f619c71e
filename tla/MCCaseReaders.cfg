CONSTANTS
  Case = {"c1", "c2"}
  Handler = {h1}
  Request <- MCReused
  ArchiveId <- MCArchiveId
  Moment = {1}
  MaxFaults = 2
  None = None
  Reader = {x1}
  TimelineLimit = 2
SPECIFICATION ReadersSpec
CONSTRAINT InTurn
ACTION_CONSTRAINT PutAway
INVARIANTS
  ReopensAlways
  ArchiveIsHistory
  ChecklistNotBehind
  TimelineIsWhole
  ArchiveReadVerifies
