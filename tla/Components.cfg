SPECIFICATION ComponentsSpec
CONSTANTS
  ChunkNumbers = 8
  MetaChunks = {0, 1}
  MetaSlots = {1, 2}
  MetaQueueCap = 1
  DoneBatch = 2
  Renames = {TRUE, FALSE}
  MaxWriteErrors = 1
  MaxActorLives = 2
  TrackChunks = {1, 2}
  MaxSends = 4
  MinPreset = 2
  MaxPreset = 8
  InitPreset = 9
  UsbSlots = {u1, u2}
  UsbPolls = 2
  MaxUsbOpens = 2
  MaxUnplugs = 1
  ReceivePorts = {p1, p2}
  DefaultPort = p1
  MainPorts = {p1, p2}
  Enters = {1, 2}
  Scans = {3}
  MaxLeaves = 1
  MaxAcceptErrors = 1
  HeartbeatTicks = 2
  WifiPolls = 2
  MaxWifiOpens = 2
  PrefixLen = 2
  FrameKinds <- MCFrameKinds
  MaxHeld = 4
  WireCap = 4
  MaxFrames = 3
  Addresses <- MCAddresses
  StreamCount = 2
  MaxLateHosts = 1
  Calibrations = {1, 2}
  StepsPerStage = 1
  MaxCalCancels = 2
CHECK_DEADLOCK FALSE
INVARIANTS
  SavedIsHonest LossIsBounded InFlightIsCounted ProbesByOne UsbLeavesNoRule
  ListenerCanBeStopped OneDirection OneDeadHalfStopsBoth NoProfileLeft
  FramesArriveInOrder CleanEndIsHonest ConnectFindsAChannel ProbedWifiIsOnePeer
  CancelStopsSweep
PROPERTIES NothingForgotten RecoveryIsProbed HeartbeatIsFair ProgressIsSaved
