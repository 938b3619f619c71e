CONSTANTS
  Case = {"c1"}
  Handler = {h1, h2}
  Request <- MCEarlyRelease
  ArchiveId <- MCArchiveId
  Moment <- MCMoment
  MaxFaults = 0
  None = None
SPECIFICATION Spec
INVARIANT NoneOpenOnChecklist
