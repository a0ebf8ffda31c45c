-------------------------------- MODULE Bytes -------------------------------
(***************************************************************************)
(* The byte values the models tell apart.                                  *)
(***************************************************************************)
CONSTANTS
  Byte,      \* the byte values
  ZeroByte   \* 0x00: padding, cleared buffers

ASSUME ZeroByteAssumption == ZeroByte \in Byte
=============================================================================
