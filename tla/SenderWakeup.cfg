SPECIFICATION FairSpec
CONSTANTS
  NChunks = 2
  NChannels = 2
  PreparedCap = 1
  MinWindow = 1
  MaxWindow = 2
  InitWindow = 1
  UserRequests = {}
  MayRefuse = FALSE
  MayFailRead = FALSE
  MaxNacks = 0
  MaxDrops = 0
CHECK_DEADLOCK FALSE
PROPERTY CompleteFollowsAcks
