------------------------------ MODULE OtaFrames -----------------------------
(***************************************************************************)
(* The frames of a firmware transfer over CAN: what otaCanFrame.hpp packs  *)
(* on the gateway and unpacks on the node, and the one-byte answers of the *)
(* node.  A piece carries the low byte of its offset only.                 *)
(***************************************************************************)
EXTENDS Integers, Sequences, Bytes

CONSTANTS
  PieceSize,  \* firmware bytes per OTA_SEND frame (dataPieceSize, 7)
  SeqModulus, \* the sequence is the offset modulo this (256)
  Images,     \* the firmware images a transfer may carry
  Crc(_)      \* CRC16 of a byte string

ASSUME FrameAssumption ==
  /\ PieceSize \in Nat \ {0}
  /\ SeqModulus \in Nat \ {0}
  /\ \A img \in Images : img \in Seq(Byte) /\ Len(img) > 0

CrcValues == {Crc(img) : img \in Images}

StartFrame(storage, size, crc) ==
  [cmd |-> "OTA_START", storage |-> storage, size |-> size, crc |-> crc]

SendFrame(seq, data) == [cmd |-> "OTA_SEND", seq |-> seq, data |-> data]

RestartFrame == [cmd |-> "RESTART"]

\* The data bytes of the piece at offset pos of a file, zero-padded.
PieceData(file, pos) ==
  [k \in 0 .. PieceSize - 1 |->
     IF pos + k < Len(file) THEN file[pos + k + 1] ELSE ZeroByte]

Sequence(offset) == offset % SeqModulus

Reply(cmd, resp) == [cmd |-> cmd, resp |-> resp]

NoReply == Reply("NONE", "NONE")

Replies == {Reply(c, r) : c \in {"OTA_START", "OTA_SEND", "OTA_END"},
                          r \in {"ACK", "NACK"}}
=============================================================================
