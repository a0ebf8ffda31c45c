SPECIFICATION Spec
CONSTANTS
  Byte <- MCByte
  ZeroByte = 0
  Erased = 3
  And <- MCAnd
  Capacity = 5
  PageSize = 4
  FlashFaults = {}
  PieceSize = 3
  SeqModulus = 4
  Images <- MCImages
  Crc <- MCCrc
  ProgramMemorySize = 5
  BlockSize = 5
  CheckChunkSize = 2
  StallTimeout = 1
  MaxRxFrames = 2
  JmpOpcode <- MCJmp
  Pieces <- MCPieces
  FactoryProgram <- MCFactory
  ReadBufferSize = 4
  OtaTimeout = 2
  GatewayFaults = {}
  MaxFaults = 0
  MaxResets = 0
  MaxTransfers = 1
INVARIANT TimeoutMeansNotStored
