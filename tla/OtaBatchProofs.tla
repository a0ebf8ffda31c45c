--------------------------- MODULE OtaBatchProofs ---------------------------
(***************************************************************************)
(* Proofs about OtaBatch, for any number of nodes, files and uploads and   *)
(* whichever steps of the storage fail.                                    *)
(***************************************************************************)
EXTENDS OtaBatch, TLAPS

-----------------------------------------------------------------------------
(* What a step of the upload does to the state the registry depends on     *)

\* A message never changes a stored file: only the check renames one.
LEMMA MessageKeepsFiles ==
  ASSUME NEW m, NEW inUse, NEW reply, HandleMessage(m, inUse, reply)
  PROVE  files' = files
<1> USE DEF uploadVars, transferVars, verdictVars, storageVars
<1>1. CASE StartRefused(m, inUse, reply)
  BY <1>1 DEF StartRefused
<1>2. CASE BeginFile(m, inUse, reply)
  BY <1>2 DEF BeginFile
<1>3. CASE BeginFirmware(m, inUse, reply)
  BY <1>3 DEF BeginFirmware
<1>4. CASE PieceRefused(m, reply)
  BY <1>4 DEF PieceRefused
<1>5. CASE PieceFails(m, reply)
  BY <1>5 DEF PieceFails
<1>6. CASE PieceFits(m)
  BY <1>6 DEF PieceFits
<1>7. CASE HandleCommand(m, reply)
  BY <1>7 DEF HandleCommand, UploadRestart
<1> QED
  BY <1>1, <1>2, <1>3, <1>4, <1>5, <1>6, <1>7
     DEF HandleMessage, PieceStored, LastFirmwarePiece, LastFilePiece

\* A start either changes neither state nor verdict, or begins an upload of a
\* file that was not in use.
LEMMA StartEffect ==
  ASSUME NEW m, NEW inUse, NEW reply, m.kind = "start", HandleMessage(m, inUse, reply)
  PROVE  /\ verdict' = verdict
         /\ \/ uploadState' = uploadState
            \/ uploadState' = "STORING" /\ request'.name = m.name /\ ~inUse
<1> USE DEF uploadVars, transferVars, verdictVars, storageVars
<1>1. CASE StartRefused(m, inUse, reply)
  BY <1>1 DEF StartRefused
<1>2. CASE BeginFile(m, inUse, reply)
  BY <1>2 DEF BeginFile, TakeOver, Begun, NotBegun, Request
<1>3. CASE BeginFirmware(m, inUse, reply)
  BY <1>3 DEF BeginFirmware, TakeOver, Begun, NotBegun, Request
<1> QED
  BY <1>1, <1>2, <1>3 DEF HandleMessage

\* A piece or a command keeps the name of the upload; the only verdict it can
\* leave is the one on a firmware, whose upload is then over.
LEMMA OtherMessageEffect ==
  ASSUME NEW m, NEW inUse, NEW reply, m.kind # "start", HandleMessage(m, inUse, reply)
  PROVE  \/ /\ request' = request
            /\ \/ verdict' = verdict /\ uploadState' = uploadState
               \/ uploadState = "STORING"
                  /\ verdict' = verdict /\ uploadState' \in {"CHECK", "CLEANUP"}
               \/ uploadState' = "CLEANUP"
         \/ uploadState' = "IDLE" /\ verdict' = "none"
<1> USE DEF uploadVars, transferVars, verdictVars, storageVars
<1>1. CASE PieceRefused(m, reply)
  BY <1>1 DEF PieceRefused
<1>2. CASE PieceFails(m, reply)
  BY <1>2 DEF PieceFails, PieceTaken
<1>3. CASE PieceStored(m, reply)
  BY <1>3 DEF PieceStored, PieceFits
<1>4. CASE LastFirmwarePiece(m, reply)
  BY <1>4 DEF LastFirmwarePiece, PieceFits
<1>5. CASE LastFilePiece(m, reply)
  BY <1>5 DEF LastFilePiece, PieceFits, PieceTaken
<1>6. CASE HandleCommand(m, reply)
  BY <1>6 DEF HandleCommand, UploadRestart
<1> QED
  BY <1>1, <1>2, <1>3, <1>4, <1>5, <1>6 DEF HandleMessage

\* A pass of the check, while no verdict waits or the upload is over: it
\* replaces only the file of an upload it was checking, leaves a good verdict
\* only with the upload over, and keeps the name otherwise.
LEMMA CheckEffect ==
  ASSUME RunValidityCheck
  PROVE  /\ request'.name = request.name
         /\ verdict' = "valid" => uploadState' = "CLEANUP"
         /\ uploadState = "CLEANUP" => uploadState' = "IDLE"
         /\ uploadState' \in {"STORING", "CHECK"} => uploadState' = uploadState
         /\ \/ files' = files
            \/ /\ uploadState = "CHECK"
               /\ files' = [n \in FileNames |->
                              IF n = request.name THEN tempFile ELSE files[n]]
<1> USE DEF uploadVars, transferVars, verdictVars, storageVars
<1>1. CASE CheckIdle
  BY <1>1 DEF CheckIdle
<1>2. CASE CheckHash
  BY <1>2 DEF CheckHash
<1>3. CASE CheckEnds
  BY <1>3 DEF CheckEnds
<1>4. CASE CheckCleanup
  BY <1>4 DEF CheckCleanup, UploadTimedOut, NoRequest, Request
<1> QED
  BY <1>1, <1>2, <1>3, <1>4 DEF RunValidityCheck

-----------------------------------------------------------------------------
(* One transfer at a time                                                  *)

\* Who is being sent to is a fact about every node.
TurnsType == sending \in [Targets -> Sending]

\* One node at a time has the bus, with any number of senders: a step takes a
\* node's transfer further, ends it, or starts one while none runs.
TurnsInv == TurnsType /\ OneTransferAtATime

\* The steps of the upload leave the transfers alone or end all of them.
LEMMA UploadKeepsTransfers ==
  ASSUME UploadPass \/ (\E m \in Messages : MessageArrives(m)) \/ PowerCycle \/ Tick
  PROVE  sending' = sending \/ sending' = [t \in Targets |-> "IDLE"]
BY DEF UploadPass, MessageArrives, PowerCycle, Tick, BatchRestart, batchVars

LEMMA TurnsStep ==
  ASSUME TurnsInv, [Next]_vars
  PROVE  TurnsInv'
<1> USE DEF TurnsInv, TurnsType, OneTransferAtATime, IsOtaInProgress, Sending
<1>1. CASE UploadPass \/ (\E m \in Messages : MessageArrives(m)) \/ PowerCycle \/ Tick
  BY <1>1, UploadKeepsTransfers
<1>2. ASSUME NEW t \in Targets, TurnLost(t) \/ OnlineChanges(t)
      PROVE  TurnsInv'
  BY <1>2 DEF TurnLost, OnlineChanges, batchVars
<1>3. ASSUME NEW t \in Targets, TurnTaken(t)
      PROVE  TurnsInv'
  BY <1>3, ZenonT(60) DEF TurnTaken, MayClaim, AnyInProgress
<1>4. ASSUME NEW t \in Targets, SumDone(t) \/ TransferOver(t) \/ TransferCloses(t)
      PROVE  TurnsInv'
  BY <1>4 DEF SumDone, TransferOver, TransferCloses
<1>5. CASE UNCHANGED vars
  BY <1>5 DEF vars, batchVars
<1> QED
  BY <1>1, <1>2, <1>3, <1>4, <1>5 DEF Next, GatewayStep

\* At most one node is being sent to, whatever is uploaded meanwhile and by
\* whom (OtaRegistry::claimStart looks at every other node first).
THEOREM OneNodeHasTheBus == Spec => []OneTransferAtATime
<1>1. Init => TurnsInv
  BY DEF Init, BatchMemoryInit, TurnsInv, TurnsType, OneTransferAtATime, IsOtaInProgress, Sending
<1>2. TurnsInv /\ [Next]_vars => TurnsInv'
  BY TurnsStep
<1>3. TurnsInv => OneTransferAtATime
  BY DEF TurnsInv
<1> QED
  BY <1>1, <1>2, <1>3, PTL DEF Spec

-----------------------------------------------------------------------------
(* The file a transfer reads                                               *)

\* A good verdict that is still to be reported belongs to an upload that is
\* over, so the pass that reports it also makes the device idle.
VerdictAtEnd == verdict = "valid" => uploadState = "CLEANUP"

\* The file of the running upload is neither being read nor about to be: what
\* begin() asked once stays true until the rename.
NoReaderOfUpload ==
  uploadState \in {"STORING", "CHECK"} =>
    \A t \in Targets : FwFile[t] = request.name => ~otaQueued[t] /\ ~IsOtaInProgress(t)

FileInv ==
  /\ TurnsType
  /\ otaQueued \in [Targets -> BOOLEAN]
  /\ DOMAIN reading = Targets
  /\ VerdictAtEnd
  /\ NoReaderOfUpload
  /\ FileStaysForReaders

LEMMA RestartFileInv ==
  ASSUME FileInv, UploadRestart, BatchRestart
  PROVE  FileInv'
BY DEF FileInv, TurnsType, VerdictAtEnd, NoReaderOfUpload, FileStaysForReaders,
       IsOtaInProgress, Sending, UploadRestart, BatchRestart

LEMMA MessageFileInv ==
  ASSUME FileInv, NEW m, MessageArrives(m),
         m.kind = "start" => uploadState = "IDLE" /\ verdict = "none"
  PROVE  FileInv'
<1>1. PICK reply \in UploadReplies :
        HandleMessage(m, m.kind = "start" /\ IsFileInUse(m.name), reply)
  BY DEF MessageArrives
<1>2. CASE m.kind = "cmd" /\ m.cmd = "reboot"
  <2>1. UploadRestart
    BY <1>1, <1>2 DEF HandleMessage, HandleCommand
  <2>2. BatchRestart
    BY <1>2 DEF MessageArrives
  <2> QED
    BY <2>1, <2>2, RestartFileInv
<1>3. CASE ~(m.kind = "cmd" /\ m.cmd = "reboot")
  <2>1. UNCHANGED batchVars
    BY <1>3 DEF MessageArrives
  <2>2. files' = files
    BY <1>1, MessageKeepsFiles
  <2> USE <2>1, <2>2 DEF FileInv, TurnsType, VerdictAtEnd, NoReaderOfUpload, FileStaysForReaders,
                         IsOtaInProgress, batchVars
  <2>3. CASE m.kind = "start"
    <3>1. /\ verdict' = verdict
          /\ \/ uploadState' = uploadState
             \/ uploadState' = "STORING" /\ request'.name = m.name /\ ~IsFileInUse(m.name)
      BY <1>1, <2>3, StartEffect
    <3> QED
      BY <2>3, <3>1 DEF IsFileInUse
  <2>4. CASE m.kind # "start"
    <3>1. \/ /\ request' = request
             /\ \/ verdict' = verdict /\ uploadState' = uploadState
                \/ uploadState = "STORING"
                   /\ verdict' = verdict /\ uploadState' \in {"CHECK", "CLEANUP"}
                \/ uploadState' = "CLEANUP"
          \/ uploadState' = "IDLE" /\ verdict' = "none"
      BY <1>1, <2>4, OtherMessageEffect
    <3> QED
      BY <3>1
  <2> QED
    BY <2>3, <2>4
<1> QED
  BY <1>2, <1>3

LEMMA PassFileInv ==
  ASSUME FileInv, UploadPass
  PROVE  FileInv'
<1>1. CASE MustRestart
  BY <1>1, RestartFileInv DEF UploadPass, RunUpload
<1>2. CASE ~MustRestart
  <2>1. RunValidityCheck
    BY <1>2 DEF UploadPass, RunUpload
  <2>2. /\ request'.name = request.name
        /\ verdict' = "valid" => uploadState' = "CLEANUP"
        /\ uploadState = "CLEANUP" => uploadState' = "IDLE"
        /\ uploadState' \in {"STORING", "CHECK"} => uploadState' = uploadState
        /\ \/ files' = files
           \/ /\ uploadState = "CHECK"
              /\ files' = [n \in FileNames |->
                             IF n = request.name THEN tempFile ELSE files[n]]
    BY <2>1, CheckEffect
  <2> USE DEF FileInv, TurnsType, VerdictAtEnd, NoReaderOfUpload, FileStaysForReaders,
              IsOtaInProgress
  <2>3. CASE QueuedFile # NoName
    <3>1. uploadState = "CLEANUP" /\ uploadState' = "IDLE"
      BY <2>2, <2>3 DEF QueuedFile
    <3>2. files' = files
      BY <2>2, <3>1
    <3>3. /\ otaQueued' = [t \in Targets |-> FwFile[t] = QueuedFile]
          /\ UNCHANGED <<sending, reading>>
      BY <1>2, <2>3 DEF UploadPass, QueueForFile
    <3> QED
      BY <2>2, <3>1, <3>2, <3>3
  <2>4. CASE QueuedFile = NoName
    <3>1. UNCHANGED <<otaQueued, sending, reading>>
      BY <1>2, <2>4 DEF UploadPass, batchVars
    <3>2. \A t \in Targets : IsOtaInProgress(t) => files'[FwFile[t]] = files[FwFile[t]]
      BY <2>2, TargetAssumption
    <3> QED
      BY <2>2, <3>1, <3>2
  <2> QED
    BY <2>3, <2>4
<1> QED
  BY <1>1, <1>2

LEMMA FileStep ==
  ASSUME FileInv, [PatientNext]_vars
  PROVE  FileInv'
<1> USE DEF FileInv, TurnsType, VerdictAtEnd, NoReaderOfUpload, FileStaysForReaders,
            IsOtaInProgress, Sending
<1>1. CASE UploadPass
  BY <1>1, PassFileInv
<1>2. CASE PowerCycle
  BY <1>2, RestartFileInv DEF PowerCycle
<1>3. CASE Tick
  BY <1>3 DEF Tick, UploadTick, batchVars, verdictVars, storageVars
<1>4. ASSUME NEW t \in Targets, TurnLost(t)
      PROVE  FileInv'
  BY <1>4 DEF TurnLost, uploadVars, transferVars, verdictVars, storageVars
<1>5. ASSUME NEW t \in Targets, TurnTaken(t)
      PROVE  FileInv'
  <2>1. /\ otaQueued' = [otaQueued EXCEPT ![t] = FALSE]
        /\ otaQueued[t]
        /\ UNCHANGED <<uploadState, request, verdict, files>>
    BY <1>5 DEF TurnTaken, MayClaim, uploadVars, transferVars, verdictVars, storageVars
  <2>2. \/ UNCHANGED <<sending, reading>>
        \/ \E s \in {"SUM", "SEND"} :
             /\ sending' = [sending EXCEPT ![t] = s]
             /\ reading' = [reading EXCEPT ![t] = files[FwFile[t]]]
    BY <1>5 DEF TurnTaken
  <2>3. TurnsType' /\ DOMAIN reading' = Targets /\ otaQueued' \in [Targets -> BOOLEAN]
    BY <2>1, <2>2
  <2>4. NoReaderOfUpload'
    BY <2>1, <2>2
  <2>5. FileStaysForReaders'
    BY <2>1, <2>2
  <2> QED
    BY <2>1, <2>3, <2>4, <2>5
<1>6. ASSUME NEW t \in Targets, SumDone(t) \/ TransferOver(t) \/ TransferCloses(t) \/ OnlineChanges(t)
      PROVE  FileInv'
  BY <1>6 DEF SumDone, TransferOver, TransferCloses, OnlineChanges, batchVars,
              uploadVars, transferVars, verdictVars, storageVars
<1>7. ASSUME NEW m \in Messages, MessageArrives(m),
             m.kind = "start" => uploadState = "IDLE" /\ verdict = "none"
      PROVE  FileInv'
  BY <1>7, MessageFileInv
<1>8. CASE UNCHANGED vars
  BY <1>8 DEF vars, batchVars, uploadVars, transferVars, verdictVars, storageVars
<1> QED
  BY <1>1, <1>2, <1>3, <1>4, <1>5, <1>6, <1>7, <1>8 DEF PatientNext, GatewayStep

\* With one sender that waits for its verdicts, the file a node is being sent
\* is never replaced: what DataTransfer::begin asks once, at the start of an
\* upload, holds until the rename at its end.
THEOREM ReadersKeepTheirFile == PatientSpec => []FileStaysForReaders
<1>1. Init => FileInv
  BY DEF Init, UploadInit, UploadMemoryInit, BatchMemoryInit, FileInv, TurnsType, VerdictAtEnd,
         NoReaderOfUpload, FileStaysForReaders, IsOtaInProgress, Sending
<1>2. FileInv /\ [PatientNext]_vars => FileInv'
  BY FileStep
<1>3. FileInv => FileStaysForReaders
  BY DEF FileInv
<1> QED
  BY <1>1, <1>2, <1>3, PTL DEF PatientSpec
-----------------------------------------------------------------------------
(* The checksum a node is given                                            *)

\* All nodes behind the gateway expect the same file, as those of the shipped
\* configurations do.
OneKind == \A t, u \in Targets : FwFile[t] = FwFile[u]

\* What the batch knows is the checksum of the file the nodes that wait, or are
\* being sent to, get.
BatchImageFits ==
  batchImage.valid =>
    \A t \in Targets : otaQueued[t] \/ IsOtaInProgress(t) => batchImage.crc = Crc(files[FwFile[t]])

AnnounceInv ==
  /\ DOMAIN announced = Targets
  /\ DOMAIN image = Targets
  /\ BatchImageFits
  /\ AnnouncedFitsFile

\* The steps of the upload: the file of a node that waits or is being sent to
\* stays, and a new batch knows nothing.
LEMMA UploadAnnounceInv ==
  ASSUME FileInv, AnnounceInv, OneKind,
         UploadPass \/ PowerCycle \/ Tick \/ (\E m \in Messages : MessageArrives(m))
  PROVE  AnnounceInv'
<1>1. CASE BatchRestart
  BY <1>1 DEF BatchRestart, AnnounceInv, BatchImageFits, AnnouncedFitsFile, NoImageInfo
<1>2. CASE UNCHANGED batchVars
  <2>1. \/ files' = files
        \/ \A t \in Targets : ~otaQueued[t] /\ ~IsOtaInProgress(t)
        \/ \A t \in Targets : files'[FwFile[t]] = files[FwFile[t]]
    <3>1. CASE UploadPass
      <4>1. CASE MustRestart
        BY <3>1, <4>1 DEF UploadPass, RunUpload, UploadRestart
      <4>2. CASE ~MustRestart
        <5>1. \/ files' = files
              \/ /\ uploadState = "CHECK"
                 /\ files' = [n \in FileNames |->
                                IF n = request.name THEN tempFile ELSE files[n]]
          BY <3>1, <4>2, CheckEffect DEF UploadPass, RunUpload
        <5> QED
          BY <5>1, TargetAssumption DEF FileInv, NoReaderOfUpload, OneKind
      <4> QED
        BY <4>1, <4>2
    <3>2. ASSUME NEW m, MessageArrives(m)
          PROVE  files' = files
      BY <3>2, MessageKeepsFiles DEF MessageArrives
    <3> QED
      BY <3>1, <3>2 DEF PowerCycle, UploadRestart, Tick, UploadTick, storageVars
  <2> QED
    BY <1>2, <2>1
       DEF AnnounceInv, BatchImageFits, AnnouncedFitsFile, IsOtaInProgress, batchVars
<1>3. CASE QueueForFile(QueuedFile) /\ UNCHANGED <<image, sending, reading, announced>>
  BY <1>3 DEF QueueForFile, AnnounceInv, BatchImageFits, AnnouncedFitsFile, NoImageInfo
<1> QED
  BY <1>1, <1>2, <1>3 DEF UploadPass, PowerCycle, Tick, MessageArrives

LEMMA TurnTakenAnnounceInv ==
  ASSUME FileInv, AnnounceInv, NEW t \in Targets, TurnTaken(t)
  PROVE  AnnounceInv'
<1>1. /\ otaQueued[t] /\ otaQueued' = [otaQueued EXCEPT ![t] = FALSE]
      /\ batchImage' = batchImage /\ files' = files
  BY DEF TurnTaken, MayClaim, uploadVars, storageVars
<1>2. CASE UNCHANGED <<image, sending, reading, announced>>
  BY <1>1, <1>2
     DEF FileInv, AnnounceInv, BatchImageFits, AnnouncedFitsFile, IsOtaInProgress
<1>3. ASSUME NEW known \in BOOLEAN,
             known => batchImage.valid,
             image' = [image EXCEPT ![t] = batchImage],
             reading' = [reading EXCEPT ![t] = files[FwFile[t]]],
             sending' = [sending EXCEPT ![t] = IF known THEN "SEND" ELSE "SUM"],
             announced' = [announced EXCEPT ![t] = IF known THEN batchImage.crc ELSE Crc(<< >>)]
      PROVE  AnnounceInv'
  <2>1. known => batchImage.crc = Crc(files[FwFile[t]])
    BY <1>1, <1>3 DEF AnnounceInv, BatchImageFits
  <2>2. AnnouncedFitsFile'
    BY <1>3, <2>1 DEF FileInv, TurnsType, AnnounceInv, AnnouncedFitsFile
  <2>3. BatchImageFits'
    BY <1>1, <1>3 DEF FileInv, TurnsType, AnnounceInv, BatchImageFits, IsOtaInProgress
  <2> QED
    BY <1>3, <2>2, <2>3 DEF AnnounceInv
<1>4. CASE LET content == files[FwFile[t]]
               known == batchImage.valid /\ batchImage.size = Len(content)
           IN /\ content # NoFile
              /\ image' = [image EXCEPT ![t] = batchImage]
              /\ reading' = [reading EXCEPT ![t] = content]
              /\ sending' = [sending EXCEPT ![t] = IF known THEN "SEND" ELSE "SUM"]
              /\ announced' = [announced EXCEPT ![t] =
                                 IF known THEN batchImage.crc ELSE Crc(<< >>)]
  <2>1. CASE batchImage.valid /\ batchImage.size = Len(files[FwFile[t]])
    BY <1>3, <1>4, <2>1
  <2>2. CASE ~(batchImage.valid /\ batchImage.size = Len(files[FwFile[t]]))
    BY <1>3, <1>4, <2>2
  <2> QED
    BY <2>1, <2>2
<1> QED
  BY <1>2, <1>4 DEF TurnTaken

LEMMA SumDoneAnnounceInv ==
  ASSUME FileInv, AnnounceInv, OneKind, NEW t \in Targets, SumDone(t)
  PROVE  AnnounceInv'
<1> DEFINE info == ImageInfo(Len(reading[t]), Crc(reading[t]))
<1>1. /\ sending[t] = "SUM" /\ sending' = [sending EXCEPT ![t] = "SEND"]
      /\ announced' = [announced EXCEPT ![t] = Crc(reading[t])]
      /\ image' = [image EXCEPT ![t] = info]
      /\ batchImage' = batchImage \/ batchImage' = info
      /\ UNCHANGED <<otaQueued, reading, files>>
  BY DEF SumDone, uploadVars, storageVars, AnnounceInv
<1>2. info.crc = Crc(files[FwFile[t]]) /\ \A u \in Targets : FwFile[u] = FwFile[t]
  BY <1>1 DEF ImageInfo, FileInv, FileStaysForReaders, IsOtaInProgress, OneKind
<1>3. AnnouncedFitsFile'
  BY <1>1 DEF FileInv, TurnsType, AnnounceInv, AnnouncedFitsFile
<1> HIDE DEF info
<1>4. BatchImageFits'
  BY <1>1, <1>2 DEF FileInv, TurnsType, AnnounceInv, BatchImageFits, IsOtaInProgress
<1> QED
  BY <1>1, <1>3, <1>4 DEF AnnounceInv

LEMMA AnnounceStep ==
  ASSUME FileInv, AnnounceInv, OneKind, [PatientNext]_vars
  PROVE  AnnounceInv'
<1> USE DEF vars, batchVars, uploadVars, storageVars
<1>1. ASSUME NEW t \in Targets, TurnLost(t) \/ OnlineChanges(t)
      PROVE  AnnounceInv'
  BY <1>1 DEF TurnLost, OnlineChanges, FileInv, AnnounceInv, BatchImageFits,
              AnnouncedFitsFile, IsOtaInProgress
<1>2. ASSUME NEW t \in Targets, TransferOver(t) \/ TransferCloses(t)
      PROVE  AnnounceInv'
  BY <1>2 DEF TransferOver, TransferCloses, FileInv, TurnsType, AnnounceInv, BatchImageFits,
              AnnouncedFitsFile, IsOtaInProgress
<1>3. CASE UNCHANGED vars
  BY <1>3 DEF AnnounceInv, BatchImageFits, AnnouncedFitsFile, IsOtaInProgress
<1> QED
  BY <1>1, <1>2, <1>3, UploadAnnounceInv, TurnTakenAnnounceInv, SumDoneAnnounceInv
     DEF PatientNext, GatewayStep

\* Every node is announced the checksum of the file it is then sent, also when
\* another node's transfer computed it, for any number of nodes of one kind
\* (CanMqttGateway::run, OtaRegistry::queueForFile).
THEOREM AnnouncedIsSent ==
  ASSUME OneKind
  PROVE  PatientSpec => []AnnouncedFitsFile
<1>1. Init => FileInv /\ AnnounceInv
  BY DEF Init, UploadInit, UploadMemoryInit, BatchMemoryInit, FileInv, TurnsType, VerdictAtEnd,
         NoReaderOfUpload, FileStaysForReaders, IsOtaInProgress, Sending, AnnounceInv,
         BatchImageFits, AnnouncedFitsFile, NoImageInfo
<1>2. FileInv /\ AnnounceInv /\ [PatientNext]_vars => FileInv' /\ AnnounceInv'
  BY FileStep, AnnounceStep
<1>3. AnnounceInv => AnnouncedFitsFile
  BY DEF AnnounceInv
<1> QED
  BY <1>1, <1>2, <1>3, PTL DEF PatientSpec
=============================================================================
