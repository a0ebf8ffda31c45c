SPECIFICATION EspDevicesSpec
CONSTANTS
  delaysMs <- MCDelaysMs
  onlineSettleTime = 2
  deviceResetTime = 4
  MaxFaults = 3
  KeepAlive = 4
  PingInterval = 1
  RetryInterval = 1
  ReaskInterval = 2
  SocketTimeout = 1
  MaxInbound = 1
  Codes = {"short", "long"}
  FrameLength <- MCFrameLength
  rcSwitchMaxChanges = 3
  minChanges = 2
  dataCheckTime = 0
  RfCommands <- MCRfCommands
  pendingTxQueueSize = 1
  MaxPresses = 2
  MaxCommandsSent = 1
  MaxUnsent = 1
  BusOrder <- MCBusOrder
  MaxSensors = 2
  conversionDelayMs = 2
  measurePeriodMs = 1
  MaxUnplugs = 2
  MaxReboots = 1
  Byte <- MCByte
  ZeroByte = 0
  FileNames = {"cert"}
  OwnFirmware = "own"
  Uploads <- MCUploads
  Md5 <- MCMd5
  MaxFileSize = 5
  FreeSpace = 6
  CheckReadSize = 3
  UploadTimeout = 4
  UploadPieces <- MCUploadPieces
  StorageFaults = {"open", "write", "read", "rename"}
  Data <- MCData
  SendPieceSize = 2
  MaxRetries = 2
  SenderTimeout = 0
  Name = "cert"
  MaxLate = 1
  MaxRestarts = 1
INVARIANTS
  LadderSurvives
  AvailabilityTruthful
  BrokerStillWaiting
  HalfReadIsKept
  RunBelongsToSession
  DecodedWhole
  DoneMeansStored
  CycleComplete
PROPERTIES
  Recovers
  HeldReported
  UploadFinishes
CHECK_DEADLOCK FALSE
