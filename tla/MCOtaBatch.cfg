SPECIFICATION PatientSpec
CONSTANTS
  Byte <- MCByte
  ZeroByte = 0
  FileNames <- MCFileNames
  OwnFirmware = "own"
  Uploads <- MCUploads
  Md5 <- MCMd5
  Crc <- MCCrc
  MaxFileSize = 1
  FreeSpace = 2
  CheckReadSize = 1
  UploadTimeout = 0
  UploadPieces <- MCUploadPieces
  StorageFaults = {"open"}
  Targets = {n1, n2}
  FwFile <- MCFwFile
INVARIANTS
  OneTransferAtATime
  FileStaysForReaders
  AnnouncedFitsFile
PROPERTIES
  EveryTurnComes
