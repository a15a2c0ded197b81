SPECIFICATION Spec
CONSTANTS
  NTransfers = 1
  NAttempts = 3
  MaxControls = 1
  MaxRestarts = 1
CHECK_DEADLOCK FALSE
INVARIANTS TypeOK  WorkerHasLiveActor CompletedIsEarned
