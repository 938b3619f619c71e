CONSTANTS
  Case = {"c1", "c2"}
  Handler = {h1, h2}
  Request <- MCTwoCases
  ArchiveId <- MCArchiveId
  Moment <- MCMoment
  MaxFaults = 0
  None = None
SPECIFICATION Spec
INVARIANT ReplayIsOwn
