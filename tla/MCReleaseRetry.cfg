CONSTANTS
  Case = {"c1"}
  Handler = {h1, h2}
  Request <- MCRelease
  ArchiveId <- MCArchiveId
  Moment <- MCMoment
  MaxFaults = 2
  None = None
SPECIFICATION PersistentSpec
PROPERTY ReleaseLeadsToArchive
