SPECIFICATION Spec
CONSTANTS
  Byte <- MCByte
  ZeroByte = 0
  FileNames = {"cert"}
  OwnFirmware = "own"
  Uploads <- MCUploads
  Md5 <- MCMd5
  MaxFileSize = 5
  FreeSpace = 6
  CheckReadSize = 3
  UploadTimeout = 4
  UploadPieces <- MCUploadPieces
  StorageFaults = {}
  Data <- MCData
  SendPieceSize = 2
  MaxRetries = 2
  SenderTimeout = 0
  Name = "cert"
  MaxLate = 2
  MaxRestarts = 0
INVARIANTS
  DoneMeansStored
CHECK_DEADLOCK FALSE
