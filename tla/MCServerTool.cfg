SPECIFICATION ServerToolSpec
CONSTANTS
  Byte <- MCByte
  ZeroByte = 0
  FileNames <- MCFileNames
  OwnFirmware = "own"
  Uploads <- MCUploads
  Md5 <- MCMd5
  MaxFileSize = 3
  FreeSpace = 3
  CheckReadSize = 1
  UploadTimeout = 0
  UploadPieces <- MCUploadPieces
  StorageFaults = {"open", "write", "read", "rename", "update"}
  Order <- MCOrder
  NodesOf <- MCNodesOf
  WithNodeFile = {"gateway"}
  MaxMishaps = 1
INVARIANTS
  RemembersStorage
  DoneMeansRestarted
  NodesAccountedFor
PROPERTIES
  StoredAsDeclared
