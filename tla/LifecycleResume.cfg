SPECIFICATION Spec
CONSTANTS
  NTransfers = 2
  NAttempts = 3
  MaxControls = 1
  MaxRestarts = 0
CHECK_DEADLOCK FALSE
INVARIANT ResumePicksIncomplete
