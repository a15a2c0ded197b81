SPECIFICATION FairSpec
CONSTANTS
  NChunks = 2
  Channels = {c1, c2}
  QueueCap = 1
  MaxSessions = 1
  MaxResumes = 0
  MaxBad = 1
  MaxDrops = 1
  MaxDiskErrors = 1
  MayBreakEarly = FALSE
  MaxCrashes = 0
  MayCancel = FALSE
CHECK_DEADLOCK FALSE
INVARIANTS TypeOK PublishedIsWhole AckedIsSafe SuccessMeansPublished PublishedIsClosed
PROPERTIES TransferFinishes HandlersReturn
