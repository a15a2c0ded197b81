SPECIFICATION Spec
CONSTANTS
  NChunks = 1
  Channels = {c1, c2}
  QueueCap = 1
  MaxSessions = 2
  MaxResumes = 1
  MaxBad = 0
  MaxDrops = 1
  MaxDiskErrors = 1
  MayBreakEarly = TRUE
  MaxCrashes = 1
  MayCancel = TRUE
CHECK_DEADLOCK FALSE
SYMMETRY Symmetry
INVARIANTS OneFinalizer CompletedMeansPublished
