SPECIFICATION FairSpec
CONSTANTS
  NChunks = 2
  NChannels = 2
  PreparedCap = 1
  MinWindow = 1
  MaxWindow = 2
  InitWindow = 1
  UserRequests = {}
  MayRefuse = TRUE
  MayFailRead = FALSE
  MaxNacks = 1
  MaxDrops = 0
CHECK_DEADLOCK FALSE
INVARIANT NoChunkForgotten
PROPERTIES StreamingAcknowledges LoneChannelSucceeds
