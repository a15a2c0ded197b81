SPECIFICATION Spec
CONSTANTS
  NChunks = 2
  Channels = {c1, c2}
  QueueCap = 2
  MaxSessions = 1
  MaxResumes = 0
  MaxBad = 0
  MaxDrops = 1
  MaxDiskErrors = 0
  MayBreakEarly = TRUE
  MaxCrashes = 0
  MayCancel = FALSE
CHECK_DEADLOCK FALSE
INVARIANT AckedIsSafe
