----------------------------- MODULE FileUpload -----------------------------
(***************************************************************************)
(* A device taking a file over MQTT: class DataTransfer with the handler   *)
(* and the loop pass of MqttCommon that drive it, the file system it       *)
(* writes and the updater that takes the device's own firmware.            *)
(*                                                                         *)
(* A message is handled when it arrives, between any two passes of the     *)
(* MqttCommon task.  An action that answers takes the answer as its        *)
(* parameter `reply'.                                                      *)
(***************************************************************************)
EXTENDS Integers, Sequences, Bytes

CONSTANTS
  FileNames,      \* the file names a device accepts, apart from its firmware
  OwnFirmware,    \* the name under which its own firmware is sent
  Uploads,        \* the <<name, content>> pairs the senders send
  Md5(_),         \* MD5 of a byte string
  MaxFileSize,    \* bound on what is uploaded
  FreeSpace,      \* what the file system has left for the temp file
  CheckReadSize,  \* readBufferSize: bytes hashed per pass
  UploadTimeout,  \* transferTimeoutTime, in ticks
  UploadPieces,   \* the data a piece may carry
  StorageFaults   \* which of "open", "write", "read", "rename", "update" may fail

Accepted == FileNames \cup {OwnFirmware}
Contents == {u[2] : u \in Uploads}

ASSUME UploadAssumption ==
  /\ OwnFirmware \notin FileNames
  /\ "elsewhere" \notin Accepted   \* the name of `Messages' no device accepts
  /\ Uploads \subseteq Accepted \X Seq(Byte)
  /\ MaxFileSize \in Nat
  /\ \A c \in Contents : Len(c) \in 1 .. MaxFileSize
  /\ FreeSpace \in Nat
  /\ UploadPieces \subseteq Seq(Byte)
  /\ CheckReadSize \in Nat \ {0}
  /\ UploadTimeout \in Nat
  /\ StorageFaults \subseteq {"open", "write", "read", "rename", "update"}

\* The idealised checksum: no other byte string has the MD5 of a file.
ASSUME Md5Assumption ==
  \A n \in 0 .. MaxFileSize : \A s \in [1 .. n -> Byte] :
    \A c \in Contents : Md5(s) = Md5(c) => s = c

VARIABLES
  uploadState,       \* DataTransfer::transferState
  request,           \* the name, size and MD5 of the last start
  nextPiece,         \* nextFilePieceNumberLocal
  remaining,         \* remainingFileSizeLocal
  isFwTransfer,
  uploadErr,         \* an error is held in dataTransferErrState
  uploadAge,         \* ticks since transferTimeoutTimer was set
  handle,            \* receivedFile: "closed", or the temp file open "w" or "r"
  hashed,            \* the bytes the running MD5 has taken
  verdict,           \* isFileCheckDone and isFileValid: what the next pass reports
  isRestartRequired, \* MqttCommon
  tempFile, files,   \* the file system
  fwOpen, fwImage,   \* the updater: whether an image is open, and its bytes
  bootFw             \* the firmware the next start comes up with, if a new one

transferVars == <<uploadState, request, nextPiece, remaining, isFwTransfer,
                  uploadErr, uploadAge, handle, hashed>>
verdictVars == <<verdict, isRestartRequired>>
storageVars == <<tempFile, files, fwOpen, fwImage, bootFw>>
uploadVars == <<transferVars, verdictVars, storageVars>>

NoFile == << >>
NoName == ""
InvalidPiece == -1
Request(name, size, md5) == [name |-> name, size |-> size, md5 |-> md5]
NoRequest == Request(NoName, 0, Md5(<< >>))

\* The start of a transfer: the sender computes size and MD5 from the data.
StartMsg(name, content, binId) ==
  [kind |-> "start", name |-> name, size |-> Len(content), md5 |-> Md5(content), binId |-> binId]
\* One piece; data that does not decode is << >>.
PieceMsg(number, data) == [kind |-> "piece", number |-> number, data |-> data]
CommandMsg(cmd) == [kind |-> "cmd", cmd |-> cmd]

Resp(ack, err) == [ack |-> ack, err |-> err]
NoResp == Resp(FALSE, "silent")
UploadReplies == {NoResp} \cup {Resp(TRUE, "none")}
                   \cup {Resp(FALSE, e) : e \in {"none", "wrongPiece", "other"}}

UploadMemoryInit ==
  /\ uploadState = "IDLE"
  /\ request = NoRequest
  /\ nextPiece = InvalidPiece /\ remaining = 0
  /\ isFwTransfer = FALSE /\ uploadErr = FALSE /\ uploadAge = 0
  /\ handle = "closed" /\ hashed = << >>
  /\ verdict = "none" /\ isRestartRequired = FALSE
  /\ fwOpen = FALSE /\ fwImage = NoFile

UploadInit ==
  /\ UploadMemoryInit
  /\ tempFile = NoFile
  /\ files = [n \in FileNames |-> NoFile]
  /\ bootFw = NoFile

May(fault) == IF fault \in StorageFaults THEN BOOLEAN ELSE {TRUE}

-----------------------------------------------------------------------------
(* MqttCommon::messageArrivedCallback and DataTransfer::begin              *)

Answered(reply, resp) == reply = resp /\ uploadErr' = FALSE

\* A firmware has to name the build it is for; other files need not.
BinIdFits(m) == m.binId = "own" \/ (m.name # OwnFirmware /\ m.binId = "none")

\* Refused before anything is touched: a firmware for another build, a name
\* that is not accepted, a file somebody still reads.
StartRefused(m, inUse, reply) ==
  /\ \/ /\ ~BinIdFits(m)
        /\ reply = Resp(FALSE, "none")
        /\ uploadErr' = uploadErr
     \/ /\ BinIdFits(m)
        /\ m.name \notin Accepted \/ inUse
        /\ Answered(reply, Resp(FALSE, "other"))
  /\ UNCHANGED <<uploadState, request, nextPiece, remaining, isFwTransfer,
                 uploadAge, handle, hashed, verdictVars, storageVars>>

\* What begin() does to the running transfer before it knows whether the new
\* one can start: the fields are replaced and an image left open is released.
TakeOver(m, inUse) ==
  /\ BinIdFits(m)
  /\ m.name \in Accepted
  /\ ~inUse
  /\ request' = Request(m.name, m.size, m.md5)
  /\ nextPiece' = 0
  /\ remaining' = m.size

Begun(reply) ==
  /\ uploadState' = "STORING"
  /\ uploadAge' = 0
  /\ isRestartRequired' = isFwTransfer'
  /\ Answered(reply, Resp(TRUE, "none"))

\* The file system or the updater refuses: the state is left as it was, now
\* with the fields of the transfer that did not start.
NotBegun(reply) ==
  /\ handle' = "closed"
  /\ isFwTransfer' = FALSE
  /\ Answered(reply, Resp(FALSE, "other"))
  /\ UNCHANGED <<uploadState, uploadAge, isRestartRequired>>

\* Mutant: the flag is recomputed first, and no longer tells of the image.
ReleaseImageLate == UNCHANGED <<fwOpen, fwImage>>

ReleaseImage ==
  IF isFwTransfer THEN fwOpen' = FALSE /\ fwImage' = NoFile
                  ELSE UNCHANGED <<fwOpen, fwImage>>

BeginFile(m, inUse, reply) ==
  /\ m.name # OwnFirmware
  /\ TakeOver(m, inUse)
  /\ ReleaseImage
  /\ \/ /\ m.size < FreeSpace
        /\ tempFile' = NoFile
        /\ handle' = "w"
        /\ isFwTransfer' = FALSE
        /\ Begun(reply)
     \/ /\ m.size >= FreeSpace
        /\ tempFile' = NoFile
        /\ NotBegun(reply)
     \/ /\ FALSE \in May("open")
        /\ tempFile' = tempFile
        /\ NotBegun(reply)
  /\ UNCHANGED <<hashed, verdict, files, bootFw>>

BeginFirmware(m, inUse, reply) ==
  /\ m.name = OwnFirmware
  /\ TakeOver(m, inUse)
  /\ fwImage' = NoFile
  /\ \/ /\ fwOpen' = TRUE
        /\ handle' = "closed"
        /\ isFwTransfer' = TRUE
        /\ Begun(reply)
     \/ /\ FALSE \in May("update")
        /\ fwOpen' = FALSE
        /\ NotBegun(reply)
  /\ UNCHANGED <<hashed, verdict, tempFile, files, bootFw>>

-----------------------------------------------------------------------------
(* DataTransfer::storeBase64 and finalizeTransfer                          *)

PieceRefused(m, reply) ==
  /\ \/ /\ uploadState # "STORING" /\ Answered(reply, Resp(FALSE, "other"))
     \/ /\ uploadState = "STORING" /\ m.number # nextPiece
        /\ Answered(reply, Resp(FALSE, "wrongPiece"))
     \/ /\ uploadState = "STORING" /\ m.number = nextPiece
        /\ remaining = 0 \/ m.data = << >>
        /\ Answered(reply, Resp(FALSE, "other"))
  /\ UNCHANGED <<uploadState, request, nextPiece, remaining, isFwTransfer,
                 uploadAge, handle, hashed, verdictVars, storageVars>>

PieceTaken(m) ==
  /\ uploadState = "STORING" /\ m.number = nextPiece
  /\ remaining > 0 /\ m.data # << >>

\* More data than declared, or a write that fails, ends the transfer.  What a
\* failed write left in the temp file is never looked at.
PieceFails(m, reply) ==
  /\ PieceTaken(m)
  /\ \/ Len(m.data) > remaining
     \/ ~isFwTransfer /\ handle # "w"
     \/ FALSE \in May("write")
  /\ uploadState' = "CLEANUP"
  /\ Answered(reply, Resp(FALSE, "other"))
  /\ UNCHANGED <<request, nextPiece, remaining, isFwTransfer,
                 uploadAge, handle, hashed, verdictVars, storageVars>>

PieceFits(m) ==
  /\ PieceTaken(m)
  /\ Len(m.data) <= remaining
  /\ isFwTransfer \/ handle = "w"
  /\ nextPiece' = nextPiece + 1
  /\ remaining' = remaining - Len(m.data)
  /\ uploadAge' = 0
  /\ UNCHANGED <<request, isFwTransfer, isRestartRequired, files>>

PieceStored(m, reply) ==
  /\ PieceFits(m)
  /\ Len(m.data) < remaining
  /\ IF isFwTransfer
       THEN fwImage' = fwImage \o m.data /\ tempFile' = tempFile
       ELSE tempFile' = tempFile \o m.data /\ fwImage' = fwImage
  /\ Answered(reply, Resp(TRUE, "none"))
  /\ UNCHANGED <<uploadState, handle, hashed, verdict, fwOpen, bootFw>>

\* The last piece of a firmware: the updater checks the MD5 itself and makes
\* the image the one to start.
LastFirmwarePiece(m, reply) ==
  /\ PieceFits(m)
  /\ Len(m.data) = remaining
  /\ isFwTransfer
  /\ fwOpen' = FALSE
  /\ fwImage' = NoFile
  /\ uploadState' = "CLEANUP"
  /\ \/ /\ Md5(fwImage \o m.data) = request.md5
        /\ bootFw' = fwImage \o m.data
        /\ verdict' = "valid"
        /\ Answered(reply, Resp(TRUE, "none"))
     \/ /\ Md5(fwImage \o m.data) # request.md5 \/ FALSE \in May("update")
        /\ Answered(reply, Resp(FALSE, "other"))
        /\ UNCHANGED <<bootFw, verdict>>
  /\ UNCHANGED <<handle, hashed, tempFile>>

\* The last piece of a file: it is reopened for the check.
LastFilePiece(m, reply) ==
  /\ PieceFits(m)
  /\ Len(m.data) = remaining
  /\ ~isFwTransfer
  /\ tempFile' = tempFile \o m.data
  /\ \/ /\ Len(tempFile') = request.size
        /\ uploadState' = "CHECK"
        /\ handle' = "r"
        /\ hashed' = << >>
        /\ Answered(reply, Resp(TRUE, "none"))
     \/ /\ Len(tempFile') # request.size
        /\ uploadState' = "CLEANUP"
        /\ handle' = "r"
        /\ hashed' = hashed
        /\ Answered(reply, Resp(FALSE, "other"))
     \/ /\ FALSE \in May("open")
        /\ uploadState' = "CLEANUP"
        /\ handle' = "closed"
        /\ hashed' = hashed
        /\ Answered(reply, Resp(FALSE, "other"))
  /\ UNCHANGED <<verdict, fwOpen, fwImage, bootFw>>

-----------------------------------------------------------------------------
(* DataTransfer::runValidityCheck and cleanupTransfer, MqttCommon::run     *)

\* A restart: the file system and the choice of the firmware survive.
UploadRestart ==
  /\ uploadState' = "IDLE"
  /\ request' = NoRequest
  /\ nextPiece' = InvalidPiece /\ remaining' = 0
  /\ isFwTransfer' = FALSE /\ uploadErr' = FALSE /\ uploadAge' = 0
  /\ handle' = "closed" /\ hashed' = << >>
  /\ verdict' = "none" /\ isRestartRequired' = FALSE
  /\ fwOpen' = FALSE /\ fwImage' = NoFile
  /\ UNCHANGED <<tempFile, files, bootFw>>

\* Whether the errors are still held when the check runs: reporting a verdict
\* reads them.
ErrHeld == uploadErr /\ verdict = "none"

\* Mutant: an upload that stops is waited for.
UploadTimedOutCheck == uploadState = "CHECK" /\ uploadAge > UploadTimeout

UploadTimedOut == uploadState \in {"STORING", "CHECK"} /\ uploadAge > UploadTimeout

CheckIdle ==
  /\ ~UploadTimedOut
  /\ \/ uploadState = "IDLE" /\ uploadAge' = 0
     \/ uploadState = "STORING" /\ uploadAge' = uploadAge
  /\ uploadErr' = ErrHeld
  /\ verdict' = "none"
  /\ UNCHANGED <<uploadState, request, nextPiece, remaining,
                 isFwTransfer, handle, hashed, storageVars>>

\* What a read of the temp file still has to give; nothing when it is closed.
Available == IF handle = "r" THEN Len(tempFile) - Len(hashed) ELSE 0

CheckHash ==
  /\ uploadState = "CHECK" /\ ~UploadTimedOut
  /\ Available > 0
  /\ \/ /\ hashed' = SubSeq(tempFile, 1, Len(hashed)
                       + IF Available >= CheckReadSize THEN CheckReadSize ELSE Available)
        /\ uploadErr' = ErrHeld
        /\ uploadState' = uploadState
     \/ /\ FALSE \in May("read")
        /\ hashed' = hashed
        /\ uploadErr' = TRUE
        /\ uploadState' = "CLEANUP"
  /\ verdict' = "none"
  /\ UNCHANGED <<request, nextPiece, remaining, isFwTransfer,
                 uploadAge, handle, storageVars>>

\* Mutant: the digest is not compared.
CheckEndsUnchecked ==
  /\ uploadState = "CHECK" /\ ~UploadTimedOut
  /\ Available = 0
  /\ uploadState' = "CLEANUP"
  /\ handle' = "closed"
  /\ files' = [n \in FileNames |-> IF n = request.name THEN tempFile ELSE files[n]]
  /\ tempFile' = NoFile
  /\ uploadErr' = ErrHeld
  /\ verdict' = "valid"
  /\ UNCHANGED <<request, nextPiece, remaining, isFwTransfer,
                 uploadAge, hashed, fwOpen, fwImage, bootFw>>

CheckEnds ==
  /\ uploadState = "CHECK" /\ ~UploadTimedOut
  /\ Available = 0
  /\ uploadState' = "CLEANUP"
  /\ \/ /\ Md5(hashed) # request.md5
        /\ uploadErr' = TRUE
        /\ verdict' = "none"
        /\ UNCHANGED <<handle, tempFile, files>>
     \/ /\ Md5(hashed) = request.md5
        /\ handle' = "closed"
        /\ files' = [n \in FileNames |-> IF n = request.name THEN tempFile ELSE files[n]]
        /\ tempFile' = NoFile
        /\ uploadErr' = ErrHeld
        /\ verdict' = "valid"
     \/ /\ Md5(hashed) = request.md5
        /\ FALSE \in May("rename")
        /\ handle' = "closed"
        /\ uploadErr' = TRUE
        /\ verdict' = "none"
        /\ UNCHANGED <<tempFile, files>>
  /\ UNCHANGED <<request, nextPiece, remaining, isFwTransfer,
                 uploadAge, hashed, fwOpen, fwImage, bootFw>>

\* What was hashed is not read again before the next check resets it.
CheckCleanup ==
  /\ uploadState = "CLEANUP" \/ UploadTimedOut
  /\ uploadState' = "IDLE"
  /\ request' = [NoRequest EXCEPT !.name = request.name]
  /\ nextPiece' = InvalidPiece /\ remaining' = 0
  /\ isFwTransfer' = FALSE
  /\ handle' = "closed"
  /\ hashed' = << >>
  /\ IF isFwTransfer /\ remaining > 0
       THEN fwOpen' = FALSE /\ fwImage' = NoFile ELSE UNCHANGED <<fwOpen, fwImage>>
  /\ uploadErr' = ErrHeld
  /\ verdict' = IF ErrHeld THEN "invalid" ELSE "none"
  /\ UNCHANGED <<uploadAge, tempFile, files, bootFw>>

RunValidityCheck == CheckIdle \/ CheckHash \/ CheckEnds \/ CheckCleanup

\* The verdict the pass reports first.
Verdict ==
  IF verdict = "none" THEN NoResp
  ELSE Resp(verdict = "valid", IF uploadErr THEN "other" ELSE "none")

MustRestart == verdict = "valid" /\ isRestartRequired

\* The file whose readers are queued in this pass.
QueuedFile ==
  IF verdict = "valid" /\ ~isRestartRequired THEN request.name ELSE NoName

RunUpload(reply) ==
  /\ reply = Verdict
  /\ IF MustRestart
       THEN UploadRestart
       ELSE RunValidityCheck /\ isRestartRequired' = isRestartRequired

HandleCommand(m, reply) ==
  \/ m.cmd = "reboot" /\ reply = Resp(TRUE, "none") /\ UploadRestart
  \/ m.cmd # "reboot" /\ reply = Resp(FALSE, "none") /\ UNCHANGED uploadVars

HandleMessage(m, inUse, reply) ==
  \/ /\ m.kind = "start"
     /\ \/ StartRefused(m, inUse, reply)
        \/ BeginFile(m, inUse, reply) \/ BeginFirmware(m, inUse, reply)
  \/ /\ m.kind = "piece"
     /\ \/ PieceRefused(m, reply) \/ PieceFails(m, reply) \/ PieceStored(m, reply)
        \/ LastFirmwarePiece(m, reply) \/ LastFilePiece(m, reply)
  \/ m.kind = "cmd" /\ HandleCommand(m, reply)

UploadTick ==
  /\ uploadAge' = IF uploadAge <= UploadTimeout THEN uploadAge + 1 ELSE uploadAge
  /\ UNCHANGED <<uploadState, request, nextPiece, remaining,
                 isFwTransfer, uploadErr, handle, hashed, verdictVars, storageVars>>

-----------------------------------------------------------------------------
(* A device and any number of senders                                      *)

Starts ==
  {StartMsg(u[1], u[2], IF u[1] = OwnFirmware THEN "own" ELSE "none") : u \in Uploads}
Messages ==
  Starts
    \cup {StartMsg(OwnFirmware, u[2], b) : u \in Uploads, b \in {"none", "other"}}
    \cup {StartMsg("elsewhere", u[2], "none") : u \in Uploads}
    \cup {PieceMsg(n, d) : n \in 0 .. MaxFileSize, d \in UploadPieces \cup {<< >>}}
    \cup {CommandMsg("reboot"), CommandMsg("unknown")}

UploadNext ==
  \/ \E m \in Messages, inUse \in BOOLEAN, reply \in UploadReplies :
       HandleMessage(m, inUse, reply)
  \/ \E reply \in UploadReplies : RunUpload(reply)
  \/ UploadRestart
  \/ UploadTick

UploadSpec == UploadInit /\ [][UploadNext]_uploadVars

-----------------------------------------------------------------------------
(* Properties                                                              *)

\* A start that failed has closed the file under check: the check ends where
\* it was, with the name and the MD5 of the start (begin, open failed).
CheckCutShort == uploadState = "CHECK" /\ handle = "closed"

\* What an upload leaves behind is what its sender declared: no piece, restart,
\* refused start or failed step puts anything under a final name but a whole
\* content declared for that name, nor makes a firmware the one to restart into
\* that was put together from two uploads (runValidityCheck, finalizeTransfer).
\* One case is exempt: a check cut short by a start that could not open its
\* temp file renames whatever the temp file holds once the bytes hashed by then
\* are a content declared for the new name.
StoredAsDeclared ==
  [][/\ \A n \in FileNames : files'[n] # files[n] =>
          <<n, files'[n]>> \in Uploads \/ (CheckCutShort /\ <<n, hashed>> \in Uploads)
     /\ bootFw' # bootFw => <<OwnFirmware, bootFw'>> \in Uploads]_uploadVars

\* An image the updater holds open is one the transfer still remembers, so
\* that the clean-up or the next start can release it (begin: "past that point
\* nothing remembers one was open").
OpenImageRemembered == fwOpen => isFwTransfer

\* While pieces are taken, what is stored and what is missing make up the
\* declared size, unless a start that failed has closed the file.
PositionFitsStorage ==
  uploadState = "STORING" =>
    /\ remaining > 0
    /\ isFwTransfer => fwOpen /\ Len(fwImage) + remaining = request.size
    /\ handle = "w" => Len(tempFile) + remaining = request.size

\* What the transfer remembers is what the storage holds, whichever starts,
\* pieces and failures follow each other: no image left open behind it, no
\* piece too many or too few (begin, storeBase64).
RemembersStorage == OpenImageRemembered /\ PositionFitsStorage
=============================================================================
