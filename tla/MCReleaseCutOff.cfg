CONSTANTS
  Case = {"c1"}
  Handler = {h1, h2}
  Request <- MCRelease
  ArchiveId <- MCArchiveId
  Moment <- MCMoment
  MaxFaults = 1
  None = None
SPECIFICATION FairSpec
PROPERTY ReleaseLeadsToArchive
