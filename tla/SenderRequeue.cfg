SPECIFICATION Spec
CONSTANTS
  NChunks = 2
  NChannels = 2
  PreparedCap = 1
  MinWindow = 1
  MaxWindow = 2
  InitWindow = 1
  UserRequests = {}
  MayRefuse = FALSE
  MayFailRead = FALSE
  MaxNacks = 0
  MaxDrops = 1
CHECK_DEADLOCK FALSE
INVARIANT InFlightReclaimed
