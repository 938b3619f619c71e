CONSTANTS
  Case = {"c1"}
  Handler = {h1, h2}
  Request <- MCRequest
  ArchiveId <- MCArchiveId
  Moment = {1}
  MaxFaults = 1
  None = None
SPECIFICATION Spec
SYMMETRY MCSymmetry
INVARIANTS
  TypeOK
  ReopensAlways
  OneWriterPerRevision
  PrefetchWasBefore
  ArchiveIsHistory
PROPERTIES
  AppendOnly
  LedgerKept
