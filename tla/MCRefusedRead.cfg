SPECIFICATION NodeSpec
CONSTANTS
  Byte <- MCByte
  ZeroByte = 0
  Erased = 3
  And <- MCAnd
  Capacity = 5
  PageSize = 4
  FlashFaults = {"read"}
  PieceSize = 3
  SeqModulus = 4
  Images <- MCImages
  Crc <- MCCrc
  ProgramMemorySize = 5
  BlockSize = 5
  CheckChunkSize = 1
  StallTimeout = 1
  MaxRxFrames = 1
  JmpOpcode <- MCJmp
  Pieces <- MCPieces
  FactoryProgram <- MCFactory
INVARIANT RefusedReadRejected
