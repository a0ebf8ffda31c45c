----------------------------- MODULE GatewayOta -----------------------------
(***************************************************************************)
(* The gateway's side of a firmware transfer to one CAN node: class CanOta *)
(* of lib/canMqttGateway.  It reads the image from its file system, sends  *)
(* one piece at a time, waits for the node's answer and publishes the      *)
(* result over MQTT.                                                       *)
(*                                                                         *)
(* RunOta takes the frame it sends, if any, as its parameter `out'.        *)
(***************************************************************************)
EXTENDS OtaFrames

CONSTANTS
  ReadBufferSize, \* bytes the checksum pass reads at a time, 64
  OtaTimeout,     \* otaTimeoutTime, in ticks
  GatewayFaults   \* which of "open", "empty", "read", "tx" may go wrong

ASSUME GatewayAssumption ==
  /\ ReadBufferSize \in Nat \ {0}
  /\ OtaTimeout \in Nat
  /\ GatewayFaults \subseteq {"open", "empty", "read", "tx"}

VARIABLES
  transferState,   \* CanOta::transferState
  file,            \* receivedFile: the image being sent, << >> when closed
  filePos,         \* its read position
  frameNumber,     \* offset of the next piece
  imageCrc, imageCrcKnown,
  otaAge,          \* ticks since otaTimeoutTimer was set
  published        \* the last {"OTA":...} message: its verdict and image

gwVars == <<transferState, file, filePos, frameNumber, imageCrc,
            imageCrcKnown, otaAge, published>>

NoFrame == [cmd |-> "NONE"]
NoReport == [verdict |-> "NONE", image |-> << >>]

GatewayInit ==
  /\ transferState = "IDLE"
  /\ file = << >>
  /\ filePos = 0
  /\ frameNumber = 0
  /\ imageCrc = Crc(<< >>)
  /\ imageCrcKnown = FALSE
  /\ otaAge = 0
  /\ published = NoReport

-----------------------------------------------------------------------------
IsOtaInProgress == transferState # "IDLE"

\* startOta.  `known' says that an earlier target of the same upload already
\* left the checksum of this file.
StartOta(img, known) ==
  /\ ~IsOtaInProgress
  /\ file' = img
  /\ filePos' = 0
  /\ frameNumber' = 0
  /\ transferState' = "START"
  /\ imageCrcKnown' = known
  /\ imageCrc' = IF known THEN Crc(img) ELSE Crc(<< >>)
  /\ otaAge' = 0
  /\ published' = published

\* The file cannot be opened, or is empty: the next pass reports it.
StartOtaFails ==
  /\ ~IsOtaInProgress
  /\ GatewayFaults \cap {"open", "empty"} # {}
  /\ transferState' = "INVALID"
  /\ UNCHANGED <<file, filePos, frameNumber, imageCrc, imageCrcKnown, otaAge, published>>

\* Mutant: the answer to the last piece is taken for the verdict.
HandleOtaCanFrameEager(r) ==
  /\ transferState' =
       IF transferState # "WAIT_FOR_ACK" THEN transferState
       ELSE IF r.resp # "ACK" THEN "INVALID"
       ELSE IF r.cmd = "OTA_END" \/ filePos = Len(file) THEN "VALID" ELSE "STORE"
  /\ UNCHANGED <<file, filePos, frameNumber, imageCrc, imageCrcKnown, otaAge, published>>

\* handleOtaCanFrames: an answer counts only while one is waited for.
HandleOtaCanFrame(r) ==
  /\ transferState' =
       IF transferState # "WAIT_FOR_ACK" THEN transferState
       ELSE IF r.cmd \in {"OTA_START", "OTA_SEND"}
         THEN IF r.resp = "ACK" THEN "STORE" ELSE "INVALID"
         ELSE IF r.resp = "ACK" THEN "VALID" ELSE "INVALID"
  /\ UNCHANGED <<file, filePos, frameNumber, imageCrc, imageCrcKnown, otaAge, published>>

\* Handing a frame to the transmit queue fails when that is full.
AfterSend ==
  {"WAIT_FOR_ACK"} \cup IF "tx" \in GatewayFaults THEN {"INVALID"} ELSE {}

ShortRead ==
  /\ "read" \in GatewayFaults
  /\ transferState' = "INVALID"
  /\ UNCHANGED <<file, filePos, frameNumber, imageCrc, imageCrcKnown>>

OtaTimedOut ==
  transferState \in {"START", "STORE", "WAIT_FOR_ACK"} /\ otaAge > OtaTimeout

\* The end of a transfer: the verdict is published and the rest forgotten.
Conclude(verdict) ==
  /\ published' = [verdict |-> verdict, image |-> file]
  /\ transferState' = "IDLE"
  /\ file' = << >>
  /\ filePos' = 0
  /\ frameNumber' = 0
  /\ UNCHANGED <<imageCrc, imageCrcKnown, otaAge>>

TransferTimedOut(out) ==
  /\ OtaTimedOut
  /\ Conclude("[ERR]")
  /\ out = NoFrame

TransferDone(out) ==
  /\ transferState \in {"VALID", "INVALID"}
  /\ Conclude(IF transferState = "VALID" THEN "[OK]" ELSE "[ERR]")
  /\ out = NoFrame

TransferWaiting(out) ==
  /\ ~OtaTimedOut
  /\ \/ transferState = "IDLE" /\ otaAge' = 0
     \/ transferState = "WAIT_FOR_ACK" /\ otaAge' = otaAge
  /\ out = NoFrame
  /\ UNCHANGED <<transferState, file, filePos, frameNumber, imageCrc, imageCrcKnown, published>>

\* checksumOrSendStart, while the file is still being read.
TransferChecksum(out) ==
  /\ transferState = "START" /\ ~OtaTimedOut
  /\ ~imageCrcKnown /\ filePos < Len(file)
  /\ \/ /\ filePos' = IF filePos + ReadBufferSize <= Len(file)
                        THEN filePos + ReadBufferSize ELSE Len(file)
        /\ UNCHANGED <<transferState, file, frameNumber, imageCrc, imageCrcKnown>>
     \/ ShortRead
  /\ out = NoFrame
  /\ UNCHANGED <<otaAge, published>>

\* Mutant: the checksum announced is the one of before the file was read.
TransferSendStartStale(out) ==
  /\ transferState = "START" /\ ~OtaTimedOut
  /\ imageCrcKnown \/ filePos = Len(file)
  /\ imageCrc' = Crc(file)
  /\ imageCrcKnown' = TRUE
  /\ filePos' = 0
  /\ transferState' = "WAIT_FOR_ACK"
  /\ out = StartFrame(0, Len(file), imageCrc)
  /\ UNCHANGED <<file, frameNumber, otaAge, published>>

\* checksumOrSendStart, once the checksum is there.
TransferSendStart(out) ==
  /\ transferState = "START" /\ ~OtaTimedOut
  /\ imageCrcKnown \/ filePos = Len(file)
  /\ imageCrc' = IF imageCrcKnown THEN imageCrc ELSE Crc(file)
  /\ imageCrcKnown' = TRUE
  /\ filePos' = 0
  /\ transferState' \in AfterSend
  /\ out = IF transferState' = "WAIT_FOR_ACK"
             THEN StartFrame(0, Len(file), imageCrc') ELSE NoFrame
  /\ UNCHANGED <<file, frameNumber, otaAge, published>>

NextPieceLength ==
  IF filePos + PieceSize <= Len(file) THEN PieceSize ELSE Len(file) - filePos

\* sendNextPiece.
TransferSendPiece(out) ==
  /\ transferState = "STORE" /\ ~OtaTimedOut
  /\ otaAge' = 0
  /\ \/ /\ filePos = Len(file)
        /\ transferState' = "WAIT_FOR_ACK"
        /\ out = NoFrame
        /\ UNCHANGED <<file, filePos, frameNumber, imageCrc, imageCrcKnown>>
     \/ /\ filePos < Len(file)
        /\ filePos' = filePos + NextPieceLength
        /\ frameNumber' = frameNumber + NextPieceLength
        /\ transferState' \in AfterSend
        /\ out = IF transferState' = "WAIT_FOR_ACK"
                   THEN SendFrame(Sequence(frameNumber), PieceData(file, filePos))
                   ELSE NoFrame
        /\ UNCHANGED <<file, imageCrc, imageCrcKnown>>
     \/ /\ filePos < Len(file)
        /\ ShortRead
        /\ out = NoFrame
  /\ published' = published

RunOta(out) ==
  \/ TransferTimedOut(out) \/ TransferDone(out) \/ TransferWaiting(out)
  \/ TransferChecksum(out) \/ TransferSendStart(out) \/ TransferSendPiece(out)

\* The frames RunOta can pack: any size with any checksum, any piece of a file.
GatewayFrames ==
  {StartFrame(0, Len(img), crc) : img \in Images, crc \in CrcValues \cup {Crc(<< >>)}}
    \cup UNION {{SendFrame(Sequence(p), PieceData(img, p)) : p \in 0 .. Len(img) - 1} :
                img \in Images}
=============================================================================
