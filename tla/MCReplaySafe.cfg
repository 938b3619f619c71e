CONSTANTS
  Case = {"c1"}
  Handler = {h1, h2}
  Request <- MCRelease
  ArchiveId <- MCArchiveId
  Moment <- MCMoment
  MaxFaults = 0
  None = None
SPECIFICATION Spec
INVARIANT ReplayIsSafe
