----------------------------- MODULE UploadLink -----------------------------
(***************************************************************************)
(* The server tool uploading one file to a device: UploadSender and        *)
(* FileUpload joined by an MQTT broker that keeps the order of messages    *)
(* but, at the QoS both sides use, loses what is under way when a          *)
(* connection breaks.                                                      *)
(*                                                                         *)
(* A tick is the sender's answer timeout.  It passes while nothing is      *)
(* under way, and MaxLate times also while something is: the device or the *)
(* broker was slow.                                                        *)
(***************************************************************************)
EXTENDS FileUpload, UploadSender

CONSTANTS
  Name,       \* the file that is uploaded
  MaxLate,    \* bound on answers that are late but not lost
  MaxRestarts \* bound on restarts of the device

ASSUME LinkAssumption ==
  /\ <<Name, Data>> \in Uploads
  /\ {MaxLate, MaxRestarts} \subseteq Nat

VARIABLES
  toDevice, toSender, \* the messages under way
  late, restarts

linkVars == <<toDevice, toSender, late, restarts>>
vars == <<uploadVars, sndVars, linkVars>>

Init ==
  /\ UploadInit
  /\ SenderInit
  /\ toDevice = << >> /\ toSender = << >>
  /\ late = 0 /\ restarts = 0

OutPieces == {[number |-> n, data |-> PieceAt(o)] : n, o \in 0 .. Len(Data) - 1}

-----------------------------------------------------------------------------
(* The sender                                                              *)

Announcement == StartMsg(Name, Data, IF Name = OwnFirmware THEN "own" ELSE "none")

Connects ==
  /\ \/ SenderStart /\ toDevice' = Append(toDevice, Announcement)
     \/ SenderRefused /\ toDevice' = toDevice
  /\ UNCHANGED <<uploadVars, toSender, late, restarts>>

AnswerArrives ==
  /\ toSender # << >>
  /\ SenderReceives(Head(toSender))
  /\ toSender' = Tail(toSender)
  /\ UNCHANGED <<uploadVars, toDevice, late, restarts>>

Publishes ==
  /\ \E out \in OutPieces :
       /\ SenderSends(out) \/ SenderRepeats(out)
       /\ toDevice' = Append(toDevice, PieceMsg(out.number, out.data))
  /\ UNCHANGED <<uploadVars, toSender, late, restarts>>

Concludes == (SenderGivesUp \/ SenderEnds) /\ UNCHANGED <<uploadVars, linkVars>>

-----------------------------------------------------------------------------
(* The device                                                              *)

Respond(reply) == toSender' = IF reply = NoResp THEN toSender ELSE Append(toSender, reply)

DeviceReceives ==
  /\ toDevice # << >>
  /\ \E reply \in UploadReplies :
       HandleMessage(Head(toDevice), FALSE, reply) /\ Respond(reply)
  /\ toDevice' = Tail(toDevice)
  /\ UNCHANGED <<sndVars, late, restarts>>

DevicePass ==
  /\ \E reply \in UploadReplies : RunUpload(reply) /\ Respond(reply)
  /\ UNCHANGED <<sndVars, toDevice, late, restarts>>

DeviceRestarts ==
  /\ restarts < MaxRestarts
  /\ restarts' = restarts + 1
  /\ UploadRestart
  /\ toDevice' = << >>
  /\ UNCHANGED <<sndVars, toSender, late>>

-----------------------------------------------------------------------------
(* The broker and the clock                                                *)

Drop(s) == {SubSeq(s, 1, i - 1) \o SubSeq(s, i + 1, Len(s)) : i \in 1 .. Len(s)}

\* Any number of messages, either way.
MessageLost ==
  /\ \/ toDevice' \in Drop(toDevice) /\ toSender' = toSender
     \/ toSender' \in Drop(toSender) /\ toDevice' = toDevice
  /\ UNCHANGED <<uploadVars, sndVars, late, restarts>>

\* Everybody has done what there was to do and waits for the clock.
Quiet ==
  /\ toDevice = << >>
  /\ uploadState \in {"IDLE", "STORING"} /\ verdict = "none"
  /\ ended \/ (toSender = << >> /\ sndState \in Waiting /\ ~Overdue)

Tick ==
  /\ Quiet \/ late < MaxLate
  /\ late' = IF Quiet THEN late ELSE late + 1
  /\ sndAge' = IF sndAge <= SenderTimeout THEN sndAge + 1 ELSE sndAge
  /\ UploadTick
  /\ UNCHANGED <<sndState, pieceNumber, sentBytes, lastPiece, retries, resentPiece, ended,
                 toDevice, toSender, restarts>>

Next ==
  \/ Connects \/ AnswerArrives \/ Publishes \/ Concludes
  \/ DeviceReceives \/ DevicePass \/ DeviceRestarts
  \/ MessageLost \/ Tick

\* Both loops run, the broker delivers what it has not lost, and time goes on.
Fairness ==
  /\ WF_vars(Connects) /\ WF_vars(AnswerArrives) /\ WF_vars(Publishes) /\ WF_vars(Concludes)
  /\ WF_vars(DeviceReceives) /\ WF_vars(DevicePass) /\ WF_vars(Tick)

Spec == Init /\ [][Next]_vars
FairSpec == Spec /\ Fairness

-----------------------------------------------------------------------------
(* Properties                                                              *)

\* The tool reports success only for a file the device has stored, whatever
\* was lost, repeated or late on the way (_verify_after_transfer: "the
\* acknowledged MD5 already speaks for a file transfer").
DoneMeansStored ==
  ended /\ sndState = "DONE" =>
    (IF Name = OwnFirmware THEN bootFw ELSE files[Name]) = Data

\* Once it has announced a file the tool comes to an end, and the device always
\* becomes ready for the next upload, whatever either of them never hears.
UploadFinishes ==
  /\ sndState # "IDLE" ~> ended
  /\ uploadState # "IDLE" ~> uploadState = "IDLE"
=============================================================================
