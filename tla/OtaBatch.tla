------------------------------ MODULE OtaBatch ------------------------------
(***************************************************************************)
(* The gateway between an upload and its nodes: OtaRegistry, which hands   *)
(* one uploaded firmware to the nodes that expect it, the part of          *)
(* CanMqttGateway that takes a turn, and FileUpload, which replaces the    *)
(* file the transfers read.                                                *)
(*                                                                         *)
(* The tasks share one loop: a message may arrive between any two of their *)
(* passes.  Of a transfer only what the registry and the file system see   *)
(* is kept; its frames and answers are in GatewayOta.                      *)
(***************************************************************************)
EXTENDS FileUpload

CONSTANTS
  Targets,      \* the nodes behind the gateway
  FwFile,       \* the file each of them expects
  Crc(_)        \* CRC16 of a byte string

ASSUME TargetAssumption == FwFile \in [Targets -> FileNames]

VARIABLES
  otaQueued,   \* OtaTarget::otaQueued
  batchImage,  \* OtaRegistry::batchImage
  image,       \* CanMqttGateway::batchImage: a node's copy of it
  sending,     \* CanOta::transferState, as far as it matters here
  reading,     \* the content a transfer opened
  announced,   \* the checksum a transfer announces to its node
  online       \* isOtaTargetOnline

batchVars == <<otaQueued, batchImage, image, sending, reading, announced>>
vars == <<uploadVars, batchVars, online>>

\* IDLE; SUM: the checksum pass; SEND: announced and sending; END: the pass
\* that reports the result is due.
Sending == {"IDLE", "SUM", "SEND", "END"}

ImageInfo(size, crc) == [valid |-> TRUE, size |-> size, crc |-> crc]
NoImageInfo == [valid |-> FALSE, size |-> 0, crc |-> Crc(<< >>)]
BatchMemoryInit ==
  /\ otaQueued = [t \in Targets |-> FALSE]
  /\ batchImage = NoImageInfo
  /\ image = [t \in Targets |-> NoImageInfo]
  /\ sending = [t \in Targets |-> "IDLE"]
  /\ reading = [t \in Targets |-> NoFile]
  /\ announced = [t \in Targets |-> Crc(<< >>)]

Init == UploadInit /\ BatchMemoryInit /\ online = [t \in Targets |-> TRUE]

-----------------------------------------------------------------------------
(* OtaRegistry                                                             *)

IsOtaInProgress(t) == sending[t] # "IDLE"
AnyInProgress == \E t \in Targets : IsOtaInProgress(t)

\* Mutant: a node that waits for its turn does not hold the file.
IsFileInUseSending(name) == \E t \in Targets : FwFile[t] = name /\ IsOtaInProgress(t)

IsFileInUse(name) ==
  \E t \in Targets : FwFile[t] = name /\ (otaQueued[t] \/ IsOtaInProgress(t))

\* Mutant: what the batch before knew of its file is kept.
QueueForFileKeepsImage(name) ==
  /\ batchImage' = batchImage
  /\ otaQueued' = [t \in Targets |-> FwFile[t] = name]

QueueForFile(name) ==
  /\ batchImage' = NoImageInfo
  /\ otaQueued' = [t \in Targets |-> FwFile[t] = name]

\* Mutant: the bus is not checked for a transfer under way.
MayClaimAnyTime(t) == otaQueued[t]

\* Mutant: a node lets the others that wait go first.
MayClaimYields(t) ==
  otaQueued[t] /\ ~AnyInProgress /\ \A u \in Targets \ {t} : ~otaQueued[u]

\* The conditions of claimStart that leave the turn for later.
MayClaim(t) == otaQueued[t] /\ ~AnyInProgress

-----------------------------------------------------------------------------
(* CanMqttGateway::run                                                     *)

\* A turn that comes while the node is not answering is lost.
TurnLost(t) ==
  /\ MayClaim(t)
  /\ ~online[t]
  /\ otaQueued' = [otaQueued EXCEPT ![t] = FALSE]
  /\ UNCHANGED <<uploadVars, batchImage, image, sending, reading, announced, online>>

\* The turn is taken.  The file is opened, and the same pass announces it if
\* the batch knows the checksum of a file of this size, or begins to read it.
TurnTaken(t) ==
  /\ MayClaim(t)
  /\ online[t]
  /\ otaQueued' = [otaQueued EXCEPT ![t] = FALSE]
  /\ \/ LET content == files[FwFile[t]]
            known == batchImage.valid /\ batchImage.size = Len(content)
        IN /\ content # NoFile
           /\ image' = [image EXCEPT ![t] = batchImage]
           /\ reading' = [reading EXCEPT ![t] = content]
           /\ sending' = [sending EXCEPT ![t] = IF known THEN "SEND" ELSE "SUM"]
           /\ announced' = [announced EXCEPT ![t] =
                              IF known THEN batchImage.crc ELSE Crc(<< >>)]
     \/ /\ files[FwFile[t]] = NoFile \/ FALSE \in May("open")
        /\ UNCHANGED <<image, sending, reading, announced>>
  /\ UNCHANGED <<uploadVars, batchImage, online>>

\* The pass that finishes the checksum, announces it and leaves it for the
\* rest of the batch.  (batchImage.valid was FALSE before, or it was of a file
\* of another size and is replaced on this node's side only.)
SumDone(t) ==
  /\ sending[t] = "SUM"
  /\ sending' = [sending EXCEPT ![t] = "SEND"]
  /\ announced' = [announced EXCEPT ![t] = Crc(reading[t])]
  /\ image' = [image EXCEPT ![t] = ImageInfo(Len(reading[t]), Crc(reading[t]))]
  /\ batchImage' = IF image[t].valid THEN batchImage ELSE image'[t]
  /\ UNCHANGED <<uploadVars, otaQueued, reading, online>>

\* The node's last answer, a refusal, a short read or a full queue.
TransferOver(t) ==
  /\ sending[t] \in {"SUM", "SEND"}
  /\ sending' = [sending EXCEPT ![t] = "END"]
  /\ UNCHANGED <<uploadVars, otaQueued, batchImage, image, reading, announced, online>>

\* The result is published and the file closed, after an answer or a timeout.
\* The node's copy of the image facts is overwritten before it is read again.
TransferCloses(t) ==
  /\ sending[t] # "IDLE"
  /\ sending' = [sending EXCEPT ![t] = "IDLE"]
  /\ reading' = [reading EXCEPT ![t] = NoFile]
  /\ image' = [image EXCEPT ![t] = NoImageInfo]
  /\ announced' = [announced EXCEPT ![t] = Crc(<< >>)]
  /\ UNCHANGED <<uploadVars, otaQueued, batchImage, online>>

\* The node stops answering its pings, or answers again.
OnlineChanges(t) ==
  /\ online' = [online EXCEPT ![t] = ~@]
  /\ UNCHANGED <<uploadVars, batchVars>>

-----------------------------------------------------------------------------
(* The upload, on the same device                                          *)

BatchRestart ==
  /\ otaQueued' = [t \in Targets |-> FALSE]
  /\ batchImage' = NoImageInfo
  /\ image' = [t \in Targets |-> NoImageInfo]
  /\ sending' = [t \in Targets |-> "IDLE"]
  /\ reading' = [t \in Targets |-> NoFile]
  /\ announced' = [t \in Targets |-> Crc(<< >>)]

MessageArrives(m) ==
  /\ \E reply \in UploadReplies :
       HandleMessage(m, m.kind = "start" /\ IsFileInUse(m.name), reply)
  /\ IF m.kind = "cmd" /\ m.cmd = "reboot" THEN BatchRestart ELSE UNCHANGED batchVars
  /\ online' = online

\* A pass of the MqttCommon task: a file that was stored queues its nodes.
UploadPass ==
  /\ \E reply \in UploadReplies : RunUpload(reply)
  /\ IF MustRestart THEN BatchRestart
     ELSE IF QueuedFile # NoName
       THEN QueueForFile(QueuedFile) /\ UNCHANGED <<image, sending, reading, announced>>
       ELSE UNCHANGED batchVars
  /\ online' = online

PowerCycle == UploadRestart /\ BatchRestart /\ online' = online

Tick == UploadTick /\ UNCHANGED <<batchVars, online>>

GatewayStep ==
  \/ UploadPass \/ PowerCycle \/ Tick
  \/ \E t \in Targets : \/ TurnLost(t) \/ TurnTaken(t) \/ SumDone(t)
                        \/ TransferOver(t) \/ TransferCloses(t) \/ OnlineChanges(t)

\* Any number of senders: any message may arrive at any time.
Next == GatewayStep \/ \E m \in Messages : MessageArrives(m)

\* One sender that waits for the verdict on one upload before the next.
PatientNext ==
  \/ GatewayStep
  \/ \E m \in Messages :
       /\ m.kind = "start" => uploadState = "IDLE" /\ verdict = "none"
       /\ MessageArrives(m)

Spec == Init /\ [][Next]_vars

\* The loop runs the task of every node, and a transfer always ends (the
\* timeouts of CanOta; see GatewayOta).
Fairness ==
  \A t \in Targets : WF_vars(TurnLost(t) \/ TurnTaken(t)) /\ WF_vars(TransferCloses(t))

PatientSpec == Init /\ [][PatientNext]_vars /\ Fairness

-----------------------------------------------------------------------------
(* Properties                                                              *)

\* The nodes share one bus: at most one of them is being sent to, whatever is
\* uploaded meanwhile (README, "one transfer at a time").
OneTransferAtATime ==
  \A t, u \in Targets : IsOtaInProgress(t) /\ IsOtaInProgress(u) => t = u

\* A file is not replaced while a transfer reads it (begin: the reader "would
\* go on reading blocks the allocator has since handed out").
FileStaysForReaders ==
  \A t \in Targets : IsOtaInProgress(t) => files[FwFile[t]] = reading[t]

\* The checksum a node is given is the one of the file it is then sent, also
\* when it was left by another node's transfer.
AnnouncedFitsFile ==
  \A t \in Targets : sending[t] = "SEND" => announced[t] = Crc(reading[t])

\* No queued node is passed over for ever, although the order of the turns is
\* left to the loop: as long as one waits, its file cannot be uploaded again,
\* so the nodes that had their turn are not queued again before it.
EveryTurnComes == \A t \in Targets : otaQueued[t] ~> ~otaQueued[t]
=============================================================================
