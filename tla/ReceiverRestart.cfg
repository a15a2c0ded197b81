SPECIFICATION Spec
CONSTANTS
  NChunks = 2
  Channels = {c1, c2}
  QueueCap = 1
  MaxSessions = 2
  MaxResumes = 1
  MaxBad = 0
  MaxDrops = 0
  MaxDiskErrors = 0
  MayBreakEarly = FALSE
  MaxCrashes = 1
  MayCancel = FALSE
CHECK_DEADLOCK FALSE
INVARIANT ResumeIsBacked
