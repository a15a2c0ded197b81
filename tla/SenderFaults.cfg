SPECIFICATION Spec
CONSTANTS
  NChunks = 2
  NChannels = 2
  PreparedCap = 1
  MinWindow = 1
  MaxWindow = 2
  InitWindow = 1
  UserRequests = {"Paused", "InProgress"}
  MayRefuse = TRUE
  MayFailRead = TRUE
  MaxNacks = 0
  MaxDrops = 1
CHECK_DEADLOCK FALSE
INVARIANTS
  TypeOK CompleteMeansVouched AtMostOneHolder PrimaryIsHealthy
  StopsSending
PROPERTY ImplementsFileTransfer
