---------------------------- MODULE UploadSender ----------------------------
(***************************************************************************)
(* The server side of an upload: the state machine of _BaseTransfer in     *)
(* ota/otaUpdate.py, as FileTransfer runs it.  The device's answers carry  *)
(* no piece number; a piece whose answer is overdue is sent again.         *)
(*                                                                         *)
(* An action that publishes takes the message as its parameter `out'.      *)
(***************************************************************************)
EXTENDS Integers, Sequences

CONSTANTS
  Data,           \* what is sent
  SendPieceSize,  \* piece_size, 100
  MaxRetries,     \* max_piece_retries, 3
  SenderTimeout   \* timeout_seconds, in ticks

ASSUME SenderAssumption ==
  /\ Len(Data) \in Nat \ {0}
  /\ SendPieceSize \in Nat \ {0}
  /\ MaxRetries \in Nat
  /\ SenderTimeout \in Nat

VARIABLES
  sndState,     \* state
  pieceNumber,  \* piece_number: the next piece to send
  sentBytes,    \* size - remaining_bytes
  lastPiece,    \* _last_piece: the number and offset on the wire, {} when none
  retries,      \* _piece_retries
  resentPiece,  \* _resent_piece: {} or the number
  sndAge,       \* ticks since timer_start
  ended         \* run() has left its loop

sndVars == <<sndState, pieceNumber, sentBytes, lastPiece, retries, resentPiece, sndAge, ended>>

Waiting == {"WAIT_START_ACK", "WAIT_PIECE_ACK", "WAIT_CHECK_ACK"}

SenderInit ==
  /\ sndState = "IDLE"
  /\ pieceNumber = 0 /\ sentBytes = 0 /\ lastPiece = {}
  /\ retries = 0 /\ resentPiece = {}
  /\ sndAge = 0
  /\ ended = FALSE

\* The bytes of the piece at an offset.
PieceAt(offset) ==
  SubSeq(Data, offset + 1,
         IF offset + SendPieceSize <= Len(Data) THEN offset + SendPieceSize ELSE Len(Data))

-----------------------------------------------------------------------------
\* _on_connected: the start message goes out.
SenderStart ==
  /\ sndState = "IDLE"
  /\ sndState' = "WAIT_START_ACK"
  /\ sndAge' = 0
  /\ resentPiece' = {}
  /\ UNCHANGED <<pieceNumber, sentBytes, lastPiece, retries, ended>>

\* The connection is refused.
SenderRefused ==
  /\ sndState = "IDLE"
  /\ sndState' = "ERROR"
  /\ UNCHANGED <<pieceNumber, sentBytes, lastPiece, retries, resentPiece, sndAge, ended>>

\* The device reports the piece number only for one it already stored, so a
\* refusal that names it answers a repeat.
AnswersRepeat(r) == ~r.ack /\ resentPiece # {} /\ r.err = "wrongPiece"

\* Mutant: the refusal counts for whatever piece is on the wire.
ConfirmsAnyPiece(r) == AnswersRepeat(r) /\ sndState = "WAIT_PIECE_ACK" /\ lastPiece # {}

ConfirmsPiece(r) ==
  /\ AnswersRepeat(r)
  /\ sndState = "WAIT_PIECE_ACK"
  /\ \E p \in lastPiece : p.number \in resentPiece

\* _advance_after_piece.
Advance ==
  /\ retries' = 0
  /\ IF sentBytes < Len(Data)
       THEN sndState' = "SENDING_FW" /\ sndAge' = sndAge
       ELSE sndState' = "WAIT_CHECK_ACK" /\ sndAge' = 0

\* _process_response: one answer of the drain, in any state of the machine.
SenderReceives(r) ==
  /\ ~ended
  /\ \/ /\ sndState = "WAIT_START_ACK" /\ r.ack
        /\ sndState' = "SENDING_FW"
        /\ UNCHANGED <<retries, resentPiece, sndAge>>
     \/ /\ sndState = "WAIT_PIECE_ACK" /\ r.ack
        /\ Advance
        /\ resentPiece' = resentPiece
     \/ /\ ConfirmsPiece(r)
        /\ Advance
        /\ resentPiece' = {}
     \/ /\ sndState = "WAIT_CHECK_ACK" /\ r.ack
        /\ sndState' = "DONE"
        /\ UNCHANGED <<retries, resentPiece, sndAge>>
     \/ /\ AnswersRepeat(r) /\ ~ConfirmsPiece(r)
        /\ resentPiece' = {}
        /\ UNCHANGED <<sndState, retries, sndAge>>
     \/ /\ ~AnswersRepeat(r)
        /\ r.ack => sndState \notin Waiting
        /\ sndState' = "ERROR"
        /\ UNCHANGED <<retries, resentPiece, sndAge>>
  /\ UNCHANGED <<pieceNumber, sentBytes, lastPiece, ended>>

\* _send_piece.  (SENDING_FW always has bytes left: _advance_after_piece.)
SenderSends(out) ==
  /\ sndState = "SENDING_FW" /\ ~ended
  /\ sentBytes < Len(Data)
  /\ resentPiece' = {n \in resentPiece : pieceNumber <= n + 1}
  /\ lastPiece' = {[number |-> pieceNumber, offset |-> sentBytes]}
  /\ retries' = 0
  /\ out = [number |-> pieceNumber, data |-> PieceAt(sentBytes)]
  /\ pieceNumber' = pieceNumber + 1
  /\ sentBytes' = sentBytes + Len(PieceAt(sentBytes))
  /\ sndState' = "WAIT_PIECE_ACK"
  /\ sndAge' = 0
  /\ ended' = ended

Overdue ==
  /\ sndState \in Waiting
  /\ sndAge > SenderTimeout
  /\ ~ended

MayRepeat == sndState = "WAIT_PIECE_ACK" /\ retries < MaxRetries /\ lastPiece # {}

SenderRepeats(out) ==
  /\ Overdue /\ MayRepeat
  /\ \E p \in lastPiece :
       /\ resentPiece' = {p.number}
       /\ out = [number |-> p.number, data |-> PieceAt(p.offset)]
  /\ retries' = IF retries < MaxRetries THEN retries + 1 ELSE retries
  /\ sndAge' = 0
  /\ UNCHANGED <<sndState, pieceNumber, sentBytes, lastPiece, ended>>

SenderGivesUp ==
  /\ Overdue /\ ~MayRepeat
  /\ sndState' = "ERROR"
  /\ UNCHANGED <<pieceNumber, sentBytes, lastPiece, retries, resentPiece, sndAge, ended>>

\* The loop ends once a drain has left the machine in a final state.
SenderEnds ==
  /\ sndState \in {"DONE", "ERROR"} /\ ~ended
  /\ ended' = TRUE
  /\ UNCHANGED <<sndState, pieceNumber, sentBytes, lastPiece, retries, resentPiece, sndAge>>
=============================================================================
