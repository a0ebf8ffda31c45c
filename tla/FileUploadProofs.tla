-------------------------- MODULE FileUploadProofs --------------------------
(***************************************************************************)
(* Proofs about FileUpload, for any files, contents and pieces, whichever  *)
(* starts, pieces and restarts follow each other and whichever of the      *)
(* storage's steps fail, and about UploadLink, for any file and any number *)
(* of lost messages, repeats and restarts.                                 *)
(***************************************************************************)
EXTENDS UploadLink, SequenceTheorems, TLAPS

\* A request some sender made: its size and MD5 are those of one content
\* declared for its name.
DeclaredBy(r, c) == <<r.name, c>> \in Uploads /\ r.size = Len(c) /\ r.md5 = Md5(c)
Declared(r) == \E c : DeclaredBy(r, c)

\* The length of a file that some sender declared and the device has room for.
StorableSize(n) == \E u \in Uploads : u[1] \in FileNames /\ n = Len(u[2]) /\ n < FreeSpace

-----------------------------------------------------------------------------
(* The inductive invariant                                                 *)

UploadTypes ==
  /\ tempFile \in Seq(Byte) /\ fwImage \in Seq(Byte) /\ hashed \in Seq(Byte)
  /\ remaining \in Nat
  /\ isFwTransfer \in BOOLEAN /\ fwOpen \in BOOLEAN
  /\ uploadState \in {"IDLE", "STORING", "CHECK", "CLEANUP"}

\* An open image belongs to a transfer that remembers it and still waits for
\* bytes, which is what the clean-up looks at; a firmware has no file open.
ImageOwned ==
  /\ fwOpen => isFwTransfer /\ remaining > 0
  /\ isFwTransfer => handle = "closed"

\* While pieces are taken, the sink that is open holds what is not missing.
StoringSound ==
  uploadState = "STORING" =>
    /\ Declared(request) /\ remaining > 0
    /\ isFwTransfer => /\ fwOpen /\ request.name = OwnFirmware
                       /\ Len(fwImage) + remaining = request.size
    /\ handle = "w" => /\ StorableSize(request.size)
                       /\ Len(tempFile) + remaining = request.size

\* The bytes hashed so far are the first ones of the temp file.
HashedPrefix ==
  Len(hashed) <= Len(tempFile) /\ \A i \in 1 .. Len(hashed) : hashed[i] = tempFile[i]

\* During the check the hash follows the temp file, unless a start that failed
\* has replaced the request and closed the file: then it stays where it was.
CheckSound ==
  uploadState = "CHECK" =>
    /\ Declared(request)
    /\ Len(hashed) <= MaxFileSize
    /\ handle \in {"r", "closed"}
    /\ handle = "r" => HashedPrefix /\ StorableSize(Len(tempFile))

UploadInv == UploadTypes /\ ImageOwned /\ StoringSound /\ CheckSound

-----------------------------------------------------------------------------
(* Facts about what is sent                                                *)

LEMMA UploadFacts ==
  ASSUME NEW u \in Uploads
  PROVE  /\ u = <<u[1], u[2]>> /\ u[1] \in Accepted /\ u[2] \in Seq(Byte)
         /\ Len(u[2]) \in Nat /\ Len(u[2]) > 0 /\ Len(u[2]) <= MaxFileSize
         /\ u[2] \in Contents
<1>1. u \in Accepted \X Seq(Byte) /\ u[2] \in Contents
  BY UploadAssumption DEF Contents
<1>2. Len(u[2]) \in 1 .. MaxFileSize
  BY <1>1, UploadAssumption
<1> QED
  BY <1>1, <1>2, UploadAssumption

LEMMA DeclaredFacts ==
  ASSUME NEW r, NEW c, DeclaredBy(r, c)
  PROVE  /\ c \in Seq(Byte) /\ c \in Contents /\ r.size \in Nat /\ r.size > 0
         /\ r.size <= MaxFileSize
BY UploadFacts, <<r.name, c>>[2] = c DEF DeclaredBy

\* Two byte strings with the MD5 of a declared file are that file.
LEMMA SameContent ==
  ASSUME NEW s \in Seq(Byte), NEW c \in Contents, Len(s) <= MaxFileSize, Md5(s) = Md5(c)
  PROVE  s = c
<1>1. Len(s) \in 0 .. MaxFileSize /\ s \in [1 .. Len(s) -> Byte]
  BY LenProperties, UploadAssumption
<1> QED
  BY <1>1, Md5Assumption

\* What begin() takes over was declared for an accepted name.
LEMMA StartDeclared ==
  ASSUME NEW m \in Messages, m.kind = "start", BinIdFits(m), m.name \in Accepted
  PROVE  Declared(Request(m.name, m.size, m.md5)) /\ m.size \in Nat /\ m.size > 0
<1>1. m \in Starts
  BY UploadAssumption DEF Messages, BinIdFits, StartMsg, PieceMsg, CommandMsg
<1>2. PICK u \in Uploads :
        m = StartMsg(u[1], u[2], IF u[1] = OwnFirmware THEN "own" ELSE "none")
  BY <1>1 DEF Starts
<1>3. m.name = u[1] /\ m.size = Len(u[2]) /\ m.md5 = Md5(u[2])
  BY <1>2 DEF StartMsg
<1>4. DeclaredBy(Request(m.name, m.size, m.md5), u[2])
  BY <1>3, UploadFacts DEF DeclaredBy, Request
<1> QED
  BY <1>3, <1>4, UploadFacts DEF Declared

LEMMA PieceData ==
  ASSUME NEW m \in Messages, m.kind = "piece"
  PROVE  m.data \in Seq(Byte) /\ Len(m.data) \in Nat /\ (m.data # << >> => Len(m.data) > 0)
<1>1. m.data \in UploadPieces \cup {<< >>}
  BY DEF Messages, Starts, StartMsg, PieceMsg, CommandMsg
<1>2. m.data \in Seq(Byte)
  BY <1>1, UploadAssumption, EmptySeq
<1> QED
  BY <1>2, EmptySeq
\* A file that is not there has no bytes.
LEMMA NoFileFacts == NoFile \in Seq(Byte) /\ Len(NoFile) = 0 /\ NoFile = << >>
BY EmptySeq DEF NoFile

-----------------------------------------------------------------------------
(* The invariant is kept: one lemma per handler                            *)

LEMMA InitUploadInv ==
  ASSUME UploadInit
  PROVE  UploadInv
<1>1. UploadTypes
  BY NoFileFacts DEF UploadInit, UploadMemoryInit, UploadTypes
<1> QED
  BY <1>1 DEF UploadInit, UploadMemoryInit, UploadInv, ImageOwned, StoringSound, CheckSound

LEMMA RestartUploadInv ==
  ASSUME UploadInv, UploadRestart
  PROVE  UploadInv'
BY NoFileFacts
   DEF UploadRestart, UploadInv, UploadTypes, ImageOwned, StoringSound, CheckSound

\* Steps that leave the transfer and the storage alone.
LEMMA SameTransferUploadInv ==
  ASSUME UploadInv,
         UNCHANGED <<uploadState, request, remaining, isFwTransfer, handle, hashed,
                     tempFile, fwOpen, fwImage>>
  PROVE  UploadInv'
BY DEF UploadInv, UploadTypes, ImageOwned, StoringSound, CheckSound, HashedPrefix

LEMMA BeginFileUploadInv ==
  ASSUME UploadInv, NEW m \in Messages, m.kind = "start", NEW inUse, NEW reply,
         BeginFile(m, inUse, reply)
  PROVE  UploadInv'
<1>1. /\ Declared(request') /\ m.size \in Nat /\ m.size > 0
      /\ request' = Request(m.name, m.size, m.md5) /\ remaining' = m.size
      /\ request'.name # OwnFirmware /\ request'.name \in FileNames /\ request'.size = m.size
  BY StartDeclared DEF BeginFile, TakeOver, Request, Accepted
<1>2. /\ fwImage' \in Seq(Byte) /\ fwOpen' = FALSE /\ isFwTransfer' = FALSE
      /\ hashed' = hashed
  BY NoFileFacts
     DEF BeginFile, ReleaseImage, Begun, NotBegun, UploadInv, UploadTypes, ImageOwned
<1>3. CASE /\ m.size < FreeSpace /\ tempFile' = NoFile /\ handle' = "w"
           /\ uploadState' = "STORING"
  <2>1. StorableSize(m.size)
    <3>1. PICK c : DeclaredBy(request', c)
      BY <1>1 DEF Declared
    <3> QED
      BY <1>1, <1>3, <3>1, <<request'.name, c>>[1] = request'.name,
         <<request'.name, c>>[2] = c
         DEF DeclaredBy, StorableSize
  <2>2. StoringSound'
    BY <1>1, <1>2, <1>3, <2>1, NoFileFacts DEF StoringSound
  <2> QED
    BY <1>1, <1>2, <1>3, <2>2, NoFileFacts
       DEF UploadInv, UploadTypes, ImageOwned, CheckSound
<1>4. CASE tempFile' = NoFile /\ handle' = "closed" /\ uploadState' = uploadState
  BY <1>1, <1>2, <1>4, NoFileFacts
     DEF UploadInv, UploadTypes, ImageOwned, StoringSound, CheckSound
<1>5. CASE /\ "open" \in StorageFaults /\ tempFile' = tempFile /\ handle' = "closed"
           /\ uploadState' = uploadState
  BY <1>1, <1>2, <1>5
     DEF UploadInv, UploadTypes, ImageOwned, StoringSound, CheckSound, HashedPrefix
<1> QED
  BY <1>3, <1>4, <1>5 DEF BeginFile, Begun, NotBegun, May

LEMMA BeginFirmwareUploadInv ==
  ASSUME UploadInv, NEW m \in Messages, m.kind = "start", NEW inUse, NEW reply,
         BeginFirmware(m, inUse, reply)
  PROVE  UploadInv'
<1>1. /\ Declared(request') /\ m.size \in Nat /\ m.size > 0 /\ remaining' = m.size
      /\ request'.name = OwnFirmware /\ request'.size = m.size
  BY StartDeclared DEF BeginFirmware, TakeOver, Request
<1>2. /\ fwImage' = NoFile /\ hashed' = hashed /\ tempFile' = tempFile /\ handle' = "closed"
      /\ \/ fwOpen' = TRUE /\ isFwTransfer' = TRUE /\ uploadState' = "STORING"
         \/ fwOpen' = FALSE /\ isFwTransfer' = FALSE /\ uploadState' = uploadState
  BY DEF BeginFirmware, Begun, NotBegun
<1>3. UploadTypes'
  BY <1>1, <1>2, NoFileFacts DEF UploadInv, UploadTypes
<1>4. ImageOwned' /\ StoringSound'
  BY <1>1, <1>2, NoFileFacts DEF UploadInv, ImageOwned, StoringSound
<1>5. CheckSound'
  BY <1>1, <1>2 DEF UploadInv, CheckSound, HashedPrefix
<1> QED
  BY <1>3, <1>4, <1>5 DEF UploadInv

LEMMA PieceFailsUploadInv ==
  ASSUME UploadInv, NEW m, NEW reply, PieceFails(m, reply)
  PROVE  UploadInv'
BY DEF PieceFails, storageVars, UploadInv, UploadTypes, ImageOwned, StoringSound, CheckSound

LEMMA PieceStoredUploadInv ==
  ASSUME UploadInv, NEW m \in Messages, m.kind = "piece", NEW reply, PieceStored(m, reply)
  PROVE  UploadInv'
<1>1. /\ m.data \in Seq(Byte) /\ Len(m.data) \in Nat /\ Len(m.data) < remaining
      /\ remaining' = remaining - Len(m.data) /\ uploadState = "STORING"
      /\ UNCHANGED <<uploadState, request, isFwTransfer, handle, hashed, fwOpen>>
  BY PieceData DEF PieceStored, PieceFits, PieceTaken
<1>2. PICK c : DeclaredBy(request, c)
  BY <1>1 DEF UploadInv, StoringSound, Declared
<1>3. request.size \in Nat
  BY <1>2, DeclaredFacts
<1>4. CASE isFwTransfer
  <2>1. fwImage' = fwImage \o m.data /\ tempFile' = tempFile
    BY <1>4 DEF PieceStored
  <2>2. /\ fwImage' \in Seq(Byte) /\ Len(fwImage') = Len(fwImage) + Len(m.data)
        /\ Len(fwImage) \in Nat
    BY <1>1, <2>1, ConcatProperties, LenProperties DEF UploadInv, UploadTypes
  <2> QED
    BY <1>1, <1>3, <1>4, <2>1, <2>2
       DEF UploadInv, UploadTypes, ImageOwned, StoringSound, CheckSound
<1>5. CASE ~isFwTransfer
  <2>1. tempFile' = tempFile \o m.data /\ fwImage' = fwImage /\ handle = "w"
    BY <1>5 DEF PieceStored, PieceFits
  <2>2. /\ tempFile' \in Seq(Byte) /\ Len(tempFile') = Len(tempFile) + Len(m.data)
        /\ Len(tempFile) \in Nat
    BY <1>1, <2>1, ConcatProperties, LenProperties DEF UploadInv, UploadTypes
  <2> QED
    <3>1. UploadTypes'
      BY <1>1, <2>1, <2>2 DEF UploadInv, UploadTypes
    <3>2. ImageOwned'
      BY <1>1, <1>5, <2>1 DEF UploadInv, ImageOwned
    <3>3. StoringSound'
      <4>1. /\ Declared(request) /\ StorableSize(request.size)
            /\ Len(tempFile) + remaining = request.size /\ remaining \in Nat
        BY <1>1, <2>1 DEF UploadInv, UploadTypes, StoringSound
      <4>2. Len(tempFile') + remaining' = request.size /\ remaining' > 0
        BY <1>1, <2>2, <4>1
      <4> QED
        BY <1>1, <1>5, <4>1, <4>2 DEF StoringSound
    <3> QED
      BY <1>1, <3>1, <3>2, <3>3 DEF UploadInv, CheckSound
<1> QED
  BY <1>4, <1>5

LEMMA LastFirmwarePieceUploadInv ==
  ASSUME UploadInv, NEW m, NEW reply, LastFirmwarePiece(m, reply)
  PROVE  UploadInv'
<1>1. /\ remaining' = 0
      /\ UNCHANGED <<request, isFwTransfer, handle, hashed, tempFile>>
      /\ fwOpen' = FALSE /\ fwImage' = NoFile /\ uploadState' = "CLEANUP"
  BY DEF LastFirmwarePiece, PieceFits, UploadInv, UploadTypes
<1>2. UploadTypes'
  BY <1>1, NoFileFacts DEF UploadInv, UploadTypes
<1> QED
  BY <1>1, <1>2 DEF UploadInv, ImageOwned, StoringSound, CheckSound

LEMMA LastFilePieceUploadInv ==
  ASSUME UploadInv, NEW m \in Messages, m.kind = "piece", NEW reply, LastFilePiece(m, reply)
  PROVE  UploadInv'
<1>1. /\ m.data \in Seq(Byte) /\ Len(m.data) = remaining
      /\ remaining' = 0 /\ remaining \in Nat /\ uploadState = "STORING"
      /\ UNCHANGED <<request, isFwTransfer, fwOpen, fwImage>>
      /\ ~isFwTransfer /\ handle = "w" /\ tempFile' = tempFile \o m.data
  BY PieceData DEF LastFilePiece, PieceFits, PieceTaken, UploadInv, UploadTypes
<1>2. /\ tempFile' \in Seq(Byte) /\ Len(tempFile') = Len(tempFile) + remaining
  BY <1>1, ConcatProperties DEF UploadInv, UploadTypes
<1>3. StorableSize(Len(tempFile')) /\ Declared(request')
  BY <1>1, <1>2 DEF UploadInv, StoringSound
<1>4. /\ hashed' = << >> \/ hashed' = hashed
      /\ \/ uploadState' = "CHECK" /\ handle' = "r" /\ hashed' = << >>
         \/ uploadState' = "CLEANUP"
  BY DEF LastFilePiece
<1>5. HashedPrefix' \/ uploadState' = "CLEANUP"
  BY <1>2, <1>4, NoFileFacts, LenProperties DEF HashedPrefix
<1>6. CheckSound'
  BY <1>3, <1>4, <1>5, NoFileFacts, UploadAssumption DEF CheckSound
<1>7. UploadTypes'
  BY <1>1, <1>2, <1>4, NoFileFacts DEF UploadInv, UploadTypes
<1> QED
  BY <1>1, <1>4, <1>6, <1>7 DEF UploadInv, ImageOwned, StoringSound

LEMMA CheckHashUploadInv ==
  ASSUME UploadInv, CheckHash
  PROVE  UploadInv'
<1>1. CASE hashed' = hashed /\ uploadState' = "CLEANUP"
  BY <1>1 DEF CheckHash, storageVars, UploadInv, UploadTypes, ImageOwned, StoringSound,
              CheckSound
<1>2. CASE /\ uploadState' = uploadState
           /\ hashed' = SubSeq(tempFile, 1, Len(hashed)
                          + IF Available >= CheckReadSize THEN CheckReadSize ELSE Available)
  <2> DEFINE n == Len(hashed) + IF Available >= CheckReadSize THEN CheckReadSize ELSE Available
  <2>1. /\ uploadState = "CHECK" /\ handle = "r" /\ tempFile \in Seq(Byte) /\ hashed \in Seq(Byte)
        /\ Available = Len(tempFile) - Len(hashed) /\ Available > 0
    BY DEF CheckHash, Available, UploadInv, UploadTypes
  <2>2. Len(hashed) \in Nat /\ Len(tempFile) \in Nat
    BY <2>1, LenProperties
  <2>3. n \in 1 .. Len(tempFile)
    BY <2>1, <2>2, UploadAssumption
  <2>4. \A i \in 1 .. n : tempFile[i] \in Byte
    BY <2>1, <2>3, ElementOfSeq
  <2> HIDE DEF n
  <2>5. /\ SubSeq(tempFile, 1, n) \in Seq(Byte) /\ Len(SubSeq(tempFile, 1, n)) = n
        /\ \A i \in 1 .. n : SubSeq(tempFile, 1, n)[i] = tempFile[i]
    <3>1. n \in Int /\ 1 <= n /\ n - 1 + 1 = n /\ \A i \in 1 .. n : 1 + i - 1 = i
      BY <2>3
    <3> QED
      BY <2>4, <3>1, SubSeqProperties
  <2>6. hashed' = SubSeq(tempFile, 1, n)
    BY <1>2 DEF n
  <2>7. UNCHANGED <<uploadState, request, remaining, isFwTransfer, handle, tempFile, fwOpen, fwImage>>
    BY <1>2 DEF CheckHash, storageVars
  <2>8. HashedPrefix'
    BY <2>3, <2>5, <2>6, <2>7 DEF HashedPrefix
  <2>9. Len(hashed') <= MaxFileSize
    BY <2>1, <2>2, <2>3, <2>5, <2>6, UploadFacts, UploadAssumption
       DEF UploadInv, CheckSound, StorableSize
  <2> QED
    BY <2>1, <2>5, <2>6, <2>7, <2>8, <2>9
       DEF UploadInv, UploadTypes, ImageOwned, StoringSound, CheckSound
<1> QED
  BY <1>1, <1>2 DEF CheckHash

LEMMA CheckEndsUploadInv ==
  ASSUME UploadInv, CheckEnds
  PROVE  UploadInv'
<1>1. /\ uploadState = "CHECK" /\ uploadState' = "CLEANUP"
      /\ tempFile' = tempFile \/ tempFile' = NoFile
      /\ handle' = handle \/ handle' = "closed"
      /\ UNCHANGED <<request, remaining, isFwTransfer, hashed, fwOpen, fwImage>>
  BY DEF CheckEnds
<1> QED
  BY <1>1, NoFileFacts
     DEF UploadInv, UploadTypes, ImageOwned, StoringSound, CheckSound

LEMMA CheckCleanupUploadInv ==
  ASSUME UploadInv, CheckCleanup
  PROVE  UploadInv'
BY NoFileFacts
   DEF CheckCleanup, UploadInv, UploadTypes, ImageOwned, StoringSound, CheckSound

LEMMA NextUploadInv ==
  ASSUME UploadInv, [UploadNext]_uploadVars
  PROVE  UploadInv'
<1> USE DEF uploadVars, transferVars, verdictVars, storageVars
<1>1. ASSUME NEW m \in Messages, NEW inUse \in BOOLEAN, NEW reply \in UploadReplies,
             HandleMessage(m, inUse, reply)
      PROVE  UploadInv'
  <2>1. CASE m.kind = "start" /\ BeginFile(m, inUse, reply)
    BY <2>1, BeginFileUploadInv
  <2>2. CASE m.kind = "start" /\ BeginFirmware(m, inUse, reply)
    BY <2>2, BeginFirmwareUploadInv
  <2>3. CASE m.kind = "piece" /\ PieceFails(m, reply)
    BY <2>3, PieceFailsUploadInv
  <2>4. CASE m.kind = "piece" /\ PieceStored(m, reply)
    BY <2>4, PieceStoredUploadInv
  <2>5. CASE m.kind = "piece" /\ LastFirmwarePiece(m, reply)
    BY <2>5, LastFirmwarePieceUploadInv
  <2>6. CASE m.kind = "piece" /\ LastFilePiece(m, reply)
    BY <2>6, LastFilePieceUploadInv
  <2>7. CASE StartRefused(m, inUse, reply)
    BY <2>7, SameTransferUploadInv DEF StartRefused
  <2>8. CASE PieceRefused(m, reply)
    BY <2>8, SameTransferUploadInv DEF PieceRefused
  <2>9. CASE HandleCommand(m, reply)
    BY <2>9, SameTransferUploadInv, RestartUploadInv DEF HandleCommand
  <2> QED
    BY <1>1, <2>1, <2>2, <2>3, <2>4, <2>5, <2>6, <2>7, <2>8, <2>9 DEF HandleMessage
<1>2. ASSUME NEW reply \in UploadReplies, RunUpload(reply)
      PROVE  UploadInv'
  <2>1. CASE CheckIdle
    BY <2>1, SameTransferUploadInv DEF CheckIdle
  <2> QED
    BY <1>2, <2>1, CheckHashUploadInv, CheckEndsUploadInv, CheckCleanupUploadInv,
       RestartUploadInv
       DEF RunUpload, RunValidityCheck
<1>3. CASE UploadTick
  BY <1>3, SameTransferUploadInv DEF UploadTick
<1>4. CASE UNCHANGED uploadVars
  BY <1>4, SameTransferUploadInv
<1> QED
  BY <1>1, <1>2, <1>3, <1>4, RestartUploadInv DEF UploadNext

\* The bookkeeping of DataTransfer is sound in every reachable state: an open
\* image has an owner, the sink in use holds what is not missing, and the hash
\* of the check follows the temp file (begin, storeBase64, runValidityCheck).
THEOREM UploadInvHolds == UploadSpec => []UploadInv
<1>1. UploadInit => UploadInv
  BY InitUploadInv
<1>2. UploadInv /\ [UploadNext]_uploadVars => UploadInv'
  BY NextUploadInv
<1> QED
  BY <1>1, <1>2, PTL DEF UploadSpec
-----------------------------------------------------------------------------
(* The properties                                                          *)

\* What the transfer remembers is what the storage holds: no image is left open
\* behind it, and while pieces are taken the stored and the missing bytes make
\* up the declared size, whichever starts, pieces, faults and restarts follow
\* each other (DataTransfer::begin, storeBase64, cleanupTransfer).
THEOREM RemembersStorageHolds == UploadSpec => []RemembersStorage
<1>1. UploadInv => RemembersStorage
  BY DEF UploadInv, ImageOwned, StoringSound, RemembersStorage, OpenImageRemembered,
         PositionFitsStorage
<1> QED
  BY <1>1, UploadInvHolds, PTL

\* The two halves of StoredAsDeclared, as actions.
FilesStep ==
  \A n \in FileNames : files'[n] # files[n] =>
    <<n, files'[n]>> \in Uploads \/ (CheckCutShort /\ <<n, hashed>> \in Uploads)
BootStep == bootFw' # bootFw => <<OwnFirmware, bootFw'>> \in Uploads

\* The updater makes an image the one to start when its MD5 is the declared one.
LEMMA LastFirmwarePieceStored ==
  ASSUME UploadInv, NEW m \in Messages, m.kind = "piece", NEW reply,
         LastFirmwarePiece(m, reply)
  PROVE  BootStep
<1>1. CASE bootFw' = bootFw
  BY <1>1 DEF BootStep
<1>2. CASE Md5(fwImage \o m.data) = request.md5 /\ bootFw' = fwImage \o m.data
  <2>1. /\ uploadState = "STORING" /\ isFwTransfer /\ m.data \in Seq(Byte)
        /\ Len(m.data) = remaining /\ fwImage \in Seq(Byte)
    BY PieceData DEF LastFirmwarePiece, PieceFits, PieceTaken, UploadInv, UploadTypes
  <2>2. PICK c : DeclaredBy(request, c)
    BY <2>1 DEF UploadInv, StoringSound, Declared
  <2>3. /\ request.name = OwnFirmware /\ Len(fwImage) + remaining = request.size
    BY <2>1 DEF UploadInv, StoringSound
  <2>4. /\ bootFw' \in Seq(Byte) /\ Len(bootFw') = Len(fwImage) + Len(m.data)
    BY <1>2, <2>1, ConcatProperties
  <2>5. Len(bootFw') <= MaxFileSize /\ c \in Contents /\ Md5(bootFw') = Md5(c)
    BY <1>2, <2>1, <2>2, <2>3, <2>4, DeclaredFacts DEF DeclaredBy
  <2>6. bootFw' = c
    BY <2>4, <2>5, SameContent
  <2> QED
    BY <2>2, <2>3, <2>6 DEF DeclaredBy, BootStep
<1> QED
  BY <1>1, <1>2 DEF LastFirmwarePiece

\* The check renames the temp file when what it has hashed was declared for the
\* name: all of the file, unless a start that failed has closed it.
LEMMA CheckEndsStored ==
  ASSUME UploadInv, CheckEnds
  PROVE  FilesStep
<1>1. CASE files' = files
  BY <1>1 DEF FilesStep
<1>2. CASE /\ Md5(hashed) = request.md5
           /\ files' = [n \in FileNames |-> IF n = request.name THEN tempFile ELSE files[n]]
  <2>1. SUFFICES ASSUME request.name \in FileNames
                 PROVE  \/ <<request.name, tempFile>> \in Uploads
                        \/ CheckCutShort /\ <<request.name, hashed>> \in Uploads
    BY <1>2 DEF FilesStep
  <2>2. /\ uploadState = "CHECK" /\ Available = 0 /\ Declared(request)
        /\ Len(hashed) <= MaxFileSize /\ tempFile \in Seq(Byte) /\ hashed \in Seq(Byte)
        /\ handle = "r" => HashedPrefix
        /\ handle = "r" \/ CheckCutShort
    BY DEF CheckEnds, UploadInv, UploadTypes, CheckSound, CheckCutShort
  <2>3. PICK c : DeclaredBy(request, c)
    BY <2>2 DEF Declared
  <2>4. hashed = c
    BY <1>2, <2>2, <2>3, SameContent, DeclaredFacts DEF DeclaredBy
  <2>5. <<request.name, hashed>> \in Uploads
    BY <2>3, <2>4 DEF DeclaredBy
  <2>6. ASSUME handle = "r"
        PROVE  hashed = tempFile
    <3>1. Len(tempFile) \in Nat /\ Len(hashed) \in Nat
      BY <2>2, LenProperties
    <3>2. Len(hashed) = Len(tempFile)
      BY <2>2, <2>6, <3>1 DEF Available
    <3> QED
      BY <2>2, <2>6, <3>2, SeqEqual DEF HashedPrefix
  <2> QED
    BY <2>2, <2>5, <2>6
<1> QED
  BY <1>1, <1>2 DEF CheckEnds

\* No other handler renames a file or chooses a firmware.
LEMMA StepStoresDeclared ==
  ASSUME UploadInv, [UploadNext]_uploadVars
  PROVE  FilesStep /\ BootStep
<1> USE DEF uploadVars, transferVars, verdictVars, storageVars
<1>1. CASE files' = files /\ bootFw' = bootFw
  BY <1>1 DEF FilesStep, BootStep
<1>2. ASSUME NEW m \in Messages, NEW inUse \in BOOLEAN, NEW reply \in UploadReplies,
             HandleMessage(m, inUse, reply)
      PROVE  FilesStep /\ BootStep
  <2>1. CASE m.kind = "piece" /\ LastFirmwarePiece(m, reply)
    BY <2>1, LastFirmwarePieceStored DEF FilesStep, LastFirmwarePiece, PieceFits
  <2> QED
    BY <1>1, <1>2, <2>1
       DEF HandleMessage, StartRefused, BeginFile, BeginFirmware, PieceRefused, PieceFails,
           PieceStored, PieceFits, LastFilePiece, HandleCommand, UploadRestart
<1>3. ASSUME NEW reply \in UploadReplies, RunUpload(reply)
      PROVE  FilesStep /\ BootStep
  <2>1. CASE CheckEnds
    BY <2>1, CheckEndsStored DEF BootStep, CheckEnds
  <2> QED
    BY <1>1, <1>3, <2>1
       DEF RunUpload, RunValidityCheck, CheckIdle, CheckHash, CheckCleanup, UploadRestart
<1> QED
  BY <1>1, <1>2, <1>3 DEF UploadNext, UploadRestart, UploadTick

\* Whatever a step puts under a final name, or makes the firmware to restart
\* into, is whole and was declared for that name, for any senders, pieces,
\* restarts and storage faults.  The one exemption is the property's own: a
\* check that a start which could not open its temp file has cut short, and
\* even then the bytes it compared were declared for the name
\* (DataTransfer::begin, finalizeTransfer, runValidityCheck).
THEOREM StoredAsDeclaredHolds == UploadSpec => StoredAsDeclared
<1>1. UploadInv /\ [UploadNext]_uploadVars => [FilesStep /\ BootStep]_uploadVars
  BY StepStoresDeclared
<1> QED
  BY <1>1, UploadInvHolds, PTL DEF UploadSpec, StoredAsDeclared, FilesStep, BootStep
-----------------------------------------------------------------------------
(* The upload between the tool and a device: the inductive invariant       *)

\* The device has stored what is uploaded.
Delivered == (IF Name = OwnFirmware THEN bootFw ELSE files[Name]) = Data

Receiving == uploadState \in {"STORING", "CHECK"}

\* A transfer under way is the one that was announced; what an MD5 has
\* confirmed is the whole content.
DeviceSound ==
  /\ tempFile \in Seq(Byte) /\ fwImage \in Seq(Byte) /\ hashed \in Seq(Byte)
  /\ remaining \in Nat
  /\ uploadState \in {"IDLE", "STORING", "CHECK", "CLEANUP"}
  /\ isFwTransfer \in BOOLEAN
  /\ Receiving => /\ request = Request(Name, Len(Data), Md5(Data))
                  /\ isFwTransfer <=> Name = OwnFirmware
  /\ uploadState = "STORING" =>
       nextPiece \in Nat /\ (isFwTransfer => Len(fwImage) + remaining = Len(Data))
  /\ uploadState = "CHECK" =>
       ~isFwTransfer /\ handle = "r" /\ Len(tempFile) = Len(Data) /\ HashedPrefix
  /\ verdict = "valid" => Delivered

Requests == {Announcement} \cup [kind : {"piece"}, number : Nat, data : Seq(Byte)]

LinkTypes ==
  /\ toDevice \in Seq(Requests) /\ toSender \in Seq(UploadReplies)
  /\ pieceNumber \in Nat /\ sndAge \in Nat /\ late \in 0 .. MaxLate
  /\ sndState \in Waiting \cup {"IDLE", "SENDING_FW", "DONE"}
  /\ ended => sndState = "DONE"
  /\ \A p \in lastPiece : p.number = pieceNumber - 1
  /\ sndState = "WAIT_PIECE_ACK" => lastPiece # {}
  /\ resentPiece \subseteq 0 .. pieceNumber - 1
  /\ \A i \in 1 .. Len(toDevice) :
       toDevice[i].kind = "piece" => toDevice[i].number < pieceNumber

\* The announcement is the first message and the only one of its kind.
StartOnce ==
  /\ sndState \in {"IDLE", "WAIT_START_ACK"} => pieceNumber = 0
  /\ sndState = "IDLE" => toDevice = << >> /\ ~Receiving /\ ~Delivered
  /\ \A i \in 1 .. Len(toDevice) : toDevice[i] = Announcement =>
       sndState = "WAIT_START_ACK" /\ Len(toDevice) = 1 /\ ~Receiving /\ ~Delivered

\* The answers that can carry the sender on.
Acks(r) == r.ack
NamesPiece(r) == ~r.ack /\ r.err = "wrongPiece"
Live(r) == Acks(r) \/ NamesPiece(r)

\* The device waits for the piece on the wire or for the one behind it.
InStep ==
  uploadState = "STORING" =>
    \/ nextPiece = pieceNumber
    \/ sndState = "WAIT_PIECE_ACK" /\ nextPiece = pieceNumber - 1

\* An acknowledgement under way is the one the sender waits for.
OneAck ==
  /\ \A i \in 1 .. Len(toSender) : Acks(toSender[i]) =>
       /\ sndState \in {"WAIT_START_ACK", "WAIT_PIECE_ACK"}
       /\ uploadState = "STORING" => nextPiece = pieceNumber
       /\ \A j \in 1 .. Len(toDevice) : toDevice[j] # Announcement
  /\ \A i, j \in 1 .. Len(toSender) : Acks(toSender[i]) /\ Acks(toSender[j]) => i = j

Resent == pieceNumber - 1 \in resentPiece

\* A refusal that names the piece number, while a repeat is on the wire, says
\* that the device has that piece.
Repeated ==
  sndState = "WAIT_PIECE_ACK" /\ Resent =>
    /\ \A i \in 1 .. Len(toDevice) : toDevice[i].number = pieceNumber - 1
    /\ \A i \in 1 .. Len(toSender) : NamesPiece(toSender[i]) =>
         /\ uploadState = "STORING" => nextPiece = pieceNumber
         /\ \A j \in 1 .. Len(toSender) : j > i => ~Acks(toSender[j])

\* Something of an earlier piece is still under way.
Stale ==
  \/ \E i \in 1 .. Len(toDevice) : toDevice[i].number # pieceNumber - 1
  \/ \E i \in 1 .. Len(toSender) : NamesPiece(toSender[i])

\* A piece that was not repeated is on the wire once, and only the one late
\* answer there may be leaves something behind it, before any time has passed.
SentOnce ==
  sndState = "WAIT_PIECE_ACK" /\ ~Resent =>
    /\ \A i, j \in 1 .. Len(toDevice) :
         toDevice[i].number = pieceNumber - 1 /\ toDevice[j].number = pieceNumber - 1 => i = j
    /\ \A i \in 1 .. Len(toDevice) :
         toDevice[i].number = pieceNumber - 1 /\ uploadState = "STORING" =>
           nextPiece = pieceNumber - 1
    /\ Stale => late = MaxLate /\ sndAge = 0

NothingLive == toDevice = << >> /\ \A i \in 1 .. Len(toSender) : ~Live(toSender[i])

\* Until an answer has been late there is one message under way, or none.
InTime ==
  late < MaxLate =>
    /\ Len(toDevice) <= 1
    /\ toDevice # << >> => \A i \in 1 .. Len(toSender) : ~Live(toSender[i])
    /\ \A i, j \in 1 .. Len(toSender) : Live(toSender[i]) /\ Live(toSender[j]) => i = j
    /\ sndState = "SENDING_FW" \/ (sndState = "WAIT_PIECE_ACK" /\ sndAge > 0) => NothingLive

Expected ==
  /\ InStep /\ OneAck /\ Repeated /\ SentOnce /\ InTime
  /\ sndState = "IDLE" => NothingLive

LinkSound ==
  /\ DeviceSound /\ LinkTypes /\ StartOnce
  /\ sndState = "DONE" => Delivered
  /\ Delivered \/ Expected

LinkInv == sndState = "ERROR" \/ LinkSound

-----------------------------------------------------------------------------
(* Messages under way                                                      *)

\* t is s without some of its messages.
Thinned(t, s) ==
  /\ Len(t) <= Len(s)
  /\ \E g \in [1 .. Len(t) -> Int] :
       /\ \A i \in 1 .. Len(t) : g[i] \in 1 .. Len(s) /\ t[i] = s[g[i]]
       /\ \A i, j \in 1 .. Len(t) : i < j => g[i] < g[j]

\* The answers of t that can carry the sender on are answers of s.
LiveThinned(t, s) ==
  \E g \in [1 .. Len(t) -> Int] :
    /\ \A i \in 1 .. Len(t) : Live(t[i]) => g[i] \in 1 .. Len(s) /\ t[i] = s[g[i]]
    /\ \A i, j \in 1 .. Len(t) : i < j => g[i] < g[j]

LEMMA AppendFacts ==
  ASSUME NEW S, NEW s \in Seq(S), NEW x \in S
  PROVE  /\ Append(s, x) \in Seq(S) /\ Len(Append(s, x)) = Len(s) + 1 /\ Len(s) \in Nat
         /\ \A i \in 1 .. Len(s) : Append(s, x)[i] = s[i]
         /\ Append(s, x)[Len(s) + 1] = x
BY AppendProperties, LenProperties

LEMMA TailFacts ==
  ASSUME NEW S, NEW s \in Seq(S), s # << >>
  PROVE  /\ Head(s) = s[1] /\ Head(s) \in S /\ Tail(s) \in Seq(S)
         /\ Len(s) \in Nat /\ Len(s) > 0 /\ Len(Tail(s)) = Len(s) - 1
         /\ \A i \in 1 .. Len(s) - 1 : Tail(s)[i] = s[i + 1]
BY HeadTailProperties, LenProperties, EmptySeq

LEMMA ThinnedSame ==
  ASSUME NEW S, NEW s \in Seq(S)
  PROVE  Thinned(s, s)
<1> DEFINE g == [i \in 1 .. Len(s) |-> i]
<1>1. Len(s) \in Nat
  BY LenProperties
<1>2. g \in [1 .. Len(s) -> Int] /\ \A i \in 1 .. Len(s) : g[i] = i
  BY <1>1
<1> HIDE DEF g
<1> QED
  BY <1>1, <1>2 DEF Thinned

LEMMA ThinnedNone ==
  ASSUME NEW S, NEW s \in Seq(S)
  PROVE  Thinned(<< >>, s)
<1> DEFINE t == << >>
           g == [i \in 1 .. Len(t) |-> i]
<1>1. Len(s) \in Nat /\ Len(t) = 0
  BY LenProperties, EmptySeq
<1> HIDE DEF t
<1>2. g \in [1 .. Len(t) -> Int] /\ Len(t) <= Len(s) /\ \A i \in 1 .. Len(t) : FALSE
  BY <1>1
<1> HIDE DEF g
<1>3. Thinned(t, s)
  BY <1>2, Zenon DEF Thinned
<1> QED
  BY <1>3 DEF t

LEMMA ThinnedTail ==
  ASSUME NEW S, NEW s \in Seq(S), s # << >>
  PROVE  Thinned(Tail(s), s)
<1> DEFINE t == Tail(s)
           g == [i \in 1 .. Len(t) |-> i + 1]
<1>1. Len(s) \in Nat /\ Len(t) = Len(s) - 1 /\ \A i \in 1 .. Len(t) : t[i] = s[i + 1]
  BY TailFacts
<1> HIDE DEF t
<1>2. g \in [1 .. Len(t) -> Int] /\ \A i \in 1 .. Len(t) : g[i] = i + 1
  BY <1>1
<1> HIDE DEF g
<1>3. Thinned(t, s)
  BY <1>1, <1>2 DEF Thinned
<1> QED
  BY <1>3 DEF t

LEMMA ThinnedDrop ==
  ASSUME NEW S, NEW s \in Seq(S), NEW t \in Drop(s)
  PROVE  t \in Seq(S) /\ Thinned(t, s)
<1>1. PICK k \in 1 .. Len(s) : t = SubSeq(s, 1, k - 1) \o SubSeq(s, k + 1, Len(s))
  BY DEF Drop
<1> DEFINE a == SubSeq(s, 1, k - 1)
           b == SubSeq(s, k + 1, Len(s))
           g == [i \in 1 .. Len(t) |-> IF i < k THEN i ELSE i + 1]
<1>2. Len(s) \in Nat /\ \A i \in 1 .. Len(s) : s[i] \in S
  BY LenProperties, ElementOfSeq
<1>3. a \in Seq(S) /\ Len(a) = k - 1 /\ \A i \in 1 .. k - 1 : a[i] = s[i]
  <2>1. k - 1 \in Int /\ 1 \in Int /\ \A i \in 1 .. k - 1 : s[i] \in S
    BY <1>2
  <2>2. \A i \in 1 .. k - 1 : 1 + i - 1 = i
    BY <1>2
  <2> QED
    BY <1>2, <2>1, <2>2, SubSeqProperties
<1>4. /\ b \in Seq(S) /\ Len(b) = Len(s) - k
      /\ \A i \in 1 .. Len(s) - k : b[i] = s[k + i]
  <2>1. k + 1 \in Int /\ Len(s) \in Int /\ \A i \in k + 1 .. Len(s) : s[i] \in S
    BY <1>2
  <2>2. \A i \in 1 .. Len(s) - k : k + 1 + i - 1 = k + i
    BY <1>2
  <2> QED
    BY <1>2, <2>1, <2>2, SubSeqProperties
<1> HIDE DEF a, b
<1>5. /\ t \in Seq(S) /\ Len(t) = Len(s) - 1
      /\ \A i \in 1 .. Len(t) : t[i] = IF i < k THEN s[i] ELSE s[i + 1]
  <2>1. t = a \o b
    BY <1>1 DEF a, b
  <2>2. /\ a \o b \in Seq(S) /\ Len(a \o b) = Len(a) + Len(b)
        /\ \A i \in 1 .. Len(a) + Len(b) :
             (a \o b)[i] = IF i <= Len(a) THEN a[i] ELSE b[i - Len(a)]
    BY <1>3, <1>4, ConcatProperties
  <2>3. Len(t) = Len(s) - 1 /\ t \in Seq(S)
    BY <1>2, <1>3, <1>4, <2>1, <2>2
  <2>4. ASSUME NEW i \in 1 .. Len(t) PROVE t[i] = IF i < k THEN s[i] ELSE s[i + 1]
    <3>1. t[i] = IF i <= k - 1 THEN a[i] ELSE b[i - (k - 1)]
      BY <1>2, <1>3, <1>4, <2>1, <2>2, <2>3
    <3>2. CASE i < k
      BY <1>2, <1>3, <3>1, <3>2
    <3>3. CASE ~(i < k)
      <4>1. i - (k - 1) \in 1 .. Len(s) - k /\ k + (i - (k - 1)) = i + 1 /\ ~(i <= k - 1)
        BY <1>2, <2>3, <3>3
      <4> QED
        BY <1>4, <3>1, <3>3, <4>1
    <3> QED
      BY <3>2, <3>3
  <2> QED
    BY <2>3, <2>4
<1>6. g \in [1 .. Len(t) -> Int] /\ \A i \in 1 .. Len(t) : g[i] = IF i < k THEN i ELSE i + 1
  BY <1>2, <1>5
<1> HIDE DEF g
<1>7. ASSUME NEW i \in 1 .. Len(t)
      PROVE  g[i] \in 1 .. Len(s) /\ t[i] = s[g[i]]
  <2>1. CASE i < k
    BY <1>2, <1>5, <1>6, <2>1
  <2>2. CASE ~(i < k)
    BY <1>2, <1>5, <1>6, <2>2
  <2> QED
    BY <2>1, <2>2
<1>8. ASSUME NEW i \in 1 .. Len(t), NEW j \in 1 .. Len(t), i < j
      PROVE  g[i] < g[j]
  BY <1>2, <1>5, <1>6, <1>8
<1>9. Len(t) <= Len(s)
  BY <1>2, <1>5
<1>10. Thinned(t, s)
  BY <1>6, <1>7, <1>8, <1>9 DEF Thinned
<1> QED
  BY <1>5, <1>10

LEMMA ThinnedLive ==
  ASSUME NEW t, NEW s, Thinned(t, s)
  PROVE  LiveThinned(t, s)
BY DEF Thinned, LiveThinned

LEMMA LiveThinnedAppend ==
  ASSUME NEW S, NEW s \in Seq(S), NEW x \in S, ~Live(x)
  PROVE  LiveThinned(Append(s, x), s)
<1> DEFINE t == Append(s, x)
           g == [i \in 1 .. Len(t) |-> i]
<1>1. /\ Len(t) = Len(s) + 1 /\ Len(s) \in Nat /\ t[Len(s) + 1] = x
      /\ \A i \in 1 .. Len(s) : t[i] = s[i]
  BY AppendFacts
<1> HIDE DEF t
<1>2. g \in [1 .. Len(t) -> Int] /\ \A i \in 1 .. Len(t) : g[i] = i
  BY <1>1
<1> HIDE DEF g
<1>3. \A i \in 1 .. Len(t) : Live(t[i]) => g[i] \in 1 .. Len(s) /\ t[i] = s[g[i]]
  BY <1>1, <1>2
<1>4. LiveThinned(t, s)
  BY <1>1, <1>2, <1>3 DEF LiveThinned
<1> QED
  BY <1>4 DEF t
-----------------------------------------------------------------------------
(* The device                                                              *)

LEMMA LinkFacts ==
  /\ Data \in Seq(Byte) /\ Data \in Contents /\ Name \in Accepted /\ <<Name, Data>> \in Uploads
  /\ Len(Data) \in Nat /\ Len(Data) > 0 /\ Len(Data) <= MaxFileSize
  /\ Data # NoFile /\ MaxLate \in Nat
<1>1. <<Name, Data>> \in Uploads /\ MaxLate \in Nat
  BY LinkAssumption
<1> QED
  BY <1>1, UploadFacts, NoFileFacts, <<Name, Data>>[1] = Name, <<Name, Data>>[2] = Data

LEMMA AnnouncementFacts ==
  /\ Announcement.kind = "start" /\ Announcement.name = Name /\ Announcement.size = Len(Data)
  /\ Announcement.md5 = Md5(Data) /\ BinIdFits(Announcement)
BY DEF Announcement, StartMsg, BinIdFits

LEMMA RequestFacts ==
  ASSUME NEW m \in Requests
  PROVE  \/ m = Announcement /\ m.kind = "start"
         \/ /\ m # Announcement /\ m.kind = "piece" /\ m.number \in Nat
            /\ m.data \in Seq(Byte) /\ Len(m.data) \in Nat
BY AnnouncementFacts, LenProperties DEF Requests

\* The bytes that go out as one piece.
LEMMA PieceAtFacts ==
  ASSUME NEW o \in 0 .. Len(Data) - 1
  PROVE  PieceAt(o) \in Seq(Byte)
<1> DEFINE n == IF o + SendPieceSize <= Len(Data) THEN o + SendPieceSize ELSE Len(Data)
<1>1. o + 1 \in Int /\ n \in Int /\ o + 1 >= 1 /\ n <= Len(Data)
  BY LinkFacts, SenderAssumption
<1>2. \A i \in o + 1 .. n : Data[i] \in Byte
  BY <1>1, LinkFacts, ElementOfSeq
<1> HIDE DEF n
<1>3. SubSeq(Data, o + 1, n) \in Seq(Byte)
  BY <1>1, <1>2, SubSeqProperties
<1> QED
  BY <1>3 DEF PieceAt, n

\* What the device may do without an answer that carries the sender on.
DeviceCalm ==
  /\ uploadState' = "STORING" => uploadState = "STORING" /\ nextPiece' = nextPiece
  /\ uploadState' = "CHECK" => uploadState = "CHECK"

\* The stored content is replaced by the uploaded one or not at all.
KeepsDelivered == (Delivered => Delivered') /\ (Delivered' => Delivered \/ Receiving)

LEMMA RestartDevice ==
  ASSUME DeviceSound, UploadRestart
  PROVE  DeviceSound' /\ DeviceCalm /\ KeepsDelivered
BY NoFileFacts
   DEF UploadRestart, DeviceSound, DeviceCalm, KeepsDelivered, Delivered, Receiving

LEMMA SameTransferDevice ==
  ASSUME DeviceSound, verdict' = verdict \/ verdict' # "valid",
         UNCHANGED <<uploadState, request, nextPiece, remaining, isFwTransfer, handle, hashed,
                     storageVars>>
  PROVE  DeviceSound' /\ DeviceCalm /\ KeepsDelivered
BY DEF storageVars, DeviceSound, DeviceCalm, KeepsDelivered, Delivered, Receiving, HashedPrefix

\* begin() with the announced file, while no transfer is under way.
LEMMA StartDevice ==
  ASSUME DeviceSound, ~Receiving, NEW reply, HandleMessage(Announcement, FALSE, reply)
  PROVE  /\ DeviceSound' /\ KeepsDelivered /\ ~NamesPiece(reply)
         /\ uploadState' = "STORING" => nextPiece' = 0
         /\ uploadState' # "CHECK"
<1> DEFINE m == Announcement
<1>1. /\ m.kind = "start" /\ m.name = Name /\ m.size = Len(Data) /\ m.md5 = Md5(Data)
      /\ BinIdFits(m) /\ m.name \in Accepted
  BY AnnouncementFacts, LinkFacts
<1> HIDE DEF m
<1>2. BeginFile(m, FALSE, reply) \/ BeginFirmware(m, FALSE, reply)
  BY <1>1 DEF m, HandleMessage, StartRefused
<1>3. /\ request' = Request(Name, Len(Data), Md5(Data)) /\ nextPiece' = 0
      /\ remaining' = Len(Data) /\ hashed' = hashed /\ verdict' = verdict
      /\ files' = files /\ bootFw' = bootFw
  BY <1>1, <1>2 DEF BeginFile, BeginFirmware, TakeOver
<1>4. /\ tempFile' \in {tempFile, NoFile} /\ fwImage' \in {fwImage, NoFile}
      /\ isFwTransfer' \in BOOLEAN
      /\ \/ uploadState' = uploadState
         \/ /\ uploadState' = "STORING" /\ (isFwTransfer' <=> Name = OwnFirmware)
            /\ isFwTransfer' => fwImage' = NoFile
  BY <1>1, <1>2 DEF BeginFile, BeginFirmware, ReleaseImage, Begun, NotBegun
<1>5. ~NamesPiece(reply)
  <2>1. reply = Resp(TRUE, "none") \/ reply = Resp(FALSE, "other")
    BY <1>2 DEF BeginFile, BeginFirmware, Begun, NotBegun, Answered
  <2> QED
    BY <2>1 DEF Resp, NamesPiece
<1>6. Delivered' <=> Delivered
  BY <1>3 DEF Delivered
<1>7. DeviceSound'
  <2>1. /\ tempFile' \in Seq(Byte) /\ fwImage' \in Seq(Byte) /\ hashed' \in Seq(Byte)
        /\ remaining' \in Nat
    BY <1>3, <1>4, NoFileFacts, LinkFacts DEF DeviceSound
  <2>2. /\ uploadState' = "STORING" /\ isFwTransfer' => Len(fwImage') + remaining' = Len(Data)
        /\ uploadState' = "STORING" => (isFwTransfer' <=> Name = OwnFirmware)
        /\ uploadState' \in {"IDLE", "STORING", "CLEANUP"}
    BY <1>3, <1>4, NoFileFacts, LinkFacts DEF DeviceSound, Receiving
  <2> QED
    BY <1>3, <1>4, <1>6, <2>1, <2>2 DEF DeviceSound, Receiving
<1> QED
  BY <1>3, <1>4, <1>5, <1>6, <1>7 DEF KeepsDelivered, Receiving, DeviceSound

\* storeBase64: a piece moves the device on by one, and is acknowledged, or it
\* changes nothing but the end of the transfer.
PieceEffect(m, reply) ==
  /\ Acks(reply) =>
       /\ uploadState = "STORING" /\ m.number = nextPiece
       /\ uploadState' = "STORING" => nextPiece' = nextPiece + 1
  /\ ~Acks(reply) => DeviceCalm
  /\ NamesPiece(reply) => uploadState = "STORING" /\ m.number # nextPiece
  /\ Receiving' => Receiving

LEMMA RefusedPieceDevice ==
  ASSUME DeviceSound, NEW m, NEW reply, PieceRefused(m, reply)
  PROVE  DeviceSound' /\ KeepsDelivered /\ PieceEffect(m, reply)
<1>1. DeviceSound' /\ DeviceCalm /\ KeepsDelivered
  BY SameTransferDevice DEF PieceRefused, verdictVars
<1>2. ~Acks(reply) /\ (NamesPiece(reply) => uploadState = "STORING" /\ m.number # nextPiece)
  BY DEF PieceRefused, Answered, Resp, Acks, NamesPiece
<1>3. uploadState' = uploadState
  BY DEF PieceRefused
<1> QED
  BY <1>1, <1>2, <1>3 DEF PieceEffect, Receiving

LEMMA FailedPieceDevice ==
  ASSUME DeviceSound, NEW m, NEW reply, PieceFails(m, reply)
  PROVE  DeviceSound' /\ KeepsDelivered /\ PieceEffect(m, reply)
<1>1. /\ uploadState' = "CLEANUP" /\ reply = Resp(FALSE, "other")
      /\ UNCHANGED <<remaining, isFwTransfer, hashed, verdict, tempFile, files, fwImage, bootFw>>
  BY DEF PieceFails, Answered, verdictVars, storageVars
<1>2. ~Acks(reply) /\ ~NamesPiece(reply)
  BY <1>1 DEF Resp, Acks, NamesPiece
<1>3. Delivered' <=> Delivered
  BY <1>1 DEF Delivered
<1>4. DeviceSound'
  BY <1>1, <1>3 DEF DeviceSound, Receiving
<1> QED
  BY <1>1, <1>2, <1>3, <1>4 DEF KeepsDelivered, PieceEffect, DeviceCalm, Receiving

LEMMA StoredPieceDevice ==
  ASSUME DeviceSound, NEW m, m.data \in Seq(Byte), NEW reply, PieceStored(m, reply)
  PROVE  DeviceSound' /\ KeepsDelivered /\ PieceEffect(m, reply)
<1>1. /\ uploadState = "STORING" /\ uploadState' = "STORING" /\ m.number = nextPiece
      /\ nextPiece' = nextPiece + 1 /\ remaining' = remaining - Len(m.data)
      /\ Len(m.data) < remaining /\ remaining \in Nat /\ Len(m.data) \in Nat
      /\ reply = Resp(TRUE, "none")
      /\ UNCHANGED <<request, isFwTransfer, hashed, verdict, files, bootFw>>
  BY LenProperties DEF PieceStored, PieceFits, PieceTaken, Answered, DeviceSound
<1>2. IF isFwTransfer THEN fwImage' = fwImage \o m.data /\ tempFile' = tempFile
                      ELSE tempFile' = tempFile \o m.data /\ fwImage' = fwImage
  BY DEF PieceStored
<1>3. /\ fwImage \o m.data \in Seq(Byte) /\ tempFile \o m.data \in Seq(Byte)
      /\ Len(fwImage \o m.data) = Len(fwImage) + Len(m.data) /\ Len(fwImage) \in Nat
  BY ConcatProperties, LenProperties DEF DeviceSound
<1>4. Acks(reply) /\ ~NamesPiece(reply)
  BY <1>1 DEF Resp, Acks, NamesPiece
<1>5. Delivered' <=> Delivered
  BY <1>1 DEF Delivered
<1>6. DeviceSound'
  <2>1. /\ tempFile' \in Seq(Byte) /\ fwImage' \in Seq(Byte) /\ hashed' \in Seq(Byte)
        /\ remaining' \in Nat /\ nextPiece' \in Nat
    <3>1. tempFile' \in Seq(Byte) /\ fwImage' \in Seq(Byte)
      BY <1>2, <1>3, Zenon DEF DeviceSound
    <3>2. hashed' \in Seq(Byte) /\ nextPiece \in Nat
      BY <1>1 DEF DeviceSound
    <3> QED
      BY <1>1, <3>1, <3>2
  <2>2. isFwTransfer' => Len(fwImage') + remaining' = Len(Data)
    <3>1. isFwTransfer' => /\ Len(fwImage) + remaining = Len(Data)
                           /\ Len(fwImage') = Len(fwImage) + Len(m.data)
      <4>1. isFwTransfer => fwImage' = fwImage \o m.data
        BY <1>2, Zenon
      <4>2. isFwTransfer => Len(fwImage) + remaining = Len(Data)
        BY <1>1 DEF DeviceSound
      <4> QED
        BY <1>1, <1>3, <4>1, <4>2, Zenon
    <3>2. Len(fwImage) \in Nat /\ remaining \in Nat /\ Len(m.data) \in Nat
      BY <1>1, <1>3
    <3>3. \A a, b, c \in Nat : (a + c) + (b - c) = a + b
      OBVIOUS
    <3>4. remaining' = remaining - Len(m.data)
      BY <1>1
    <3>5. (Len(fwImage) + Len(m.data)) + (remaining - Len(m.data)) = Len(fwImage) + remaining
      BY <3>2, <3>3, Zenon
    <3> QED
      BY <3>1, <3>4, <3>5, Zenon
  <2> QED
    BY <1>1, <1>5, <2>1, <2>2 DEF DeviceSound, Receiving
<1> QED
  BY <1>1, <1>4, <1>5, <1>6 DEF KeepsDelivered, PieceEffect, Receiving

LEMMA LastFirmwarePieceDevice ==
  ASSUME DeviceSound, NEW m, m.data \in Seq(Byte), NEW reply, LastFirmwarePiece(m, reply)
  PROVE  DeviceSound' /\ KeepsDelivered /\ PieceEffect(m, reply)
<1>1. /\ uploadState = "STORING" /\ uploadState' = "CLEANUP" /\ m.number = nextPiece
      /\ remaining' = 0 /\ remaining \in Nat /\ Len(m.data) = remaining
      /\ isFwTransfer /\ Name = OwnFirmware /\ fwImage' = NoFile
      /\ request.md5 = Md5(Data) /\ Len(fwImage) + remaining = Len(Data)
      /\ UNCHANGED <<isFwTransfer, hashed, tempFile, files>>
  BY LenProperties
     DEF LastFirmwarePiece, PieceFits, PieceTaken, DeviceSound, Receiving, Request
<1>2. /\ fwImage \o m.data \in Seq(Byte) /\ Len(fwImage \o m.data) = Len(Data)
  BY <1>1, ConcatProperties, LinkFacts DEF DeviceSound
<1>3. CASE /\ Md5(fwImage \o m.data) = request.md5 /\ bootFw' = fwImage \o m.data
           /\ reply = Resp(TRUE, "none")
  <2>1. bootFw' = Data
    BY <1>1, <1>2, <1>3, LinkFacts, SameContent
  <2>2. Delivered'
    BY <1>1, <2>1 DEF Delivered
  <2>3. DeviceSound'
    BY <1>1, <2>2, NoFileFacts DEF DeviceSound, Receiving
  <2>4. Acks(reply) /\ ~NamesPiece(reply)
    BY <1>3 DEF Resp, Acks, NamesPiece
  <2> QED
    BY <1>1, <2>2, <2>3, <2>4 DEF KeepsDelivered, PieceEffect, Receiving
<1>4. CASE bootFw' = bootFw /\ verdict' = verdict /\ reply = Resp(FALSE, "other")
  <2>1. Delivered' <=> Delivered
    BY <1>1, <1>4 DEF Delivered
  <2>2. DeviceSound'
    BY <1>1, <1>4, <2>1, NoFileFacts DEF DeviceSound, Receiving
  <2>3. ~Acks(reply) /\ ~NamesPiece(reply)
    BY <1>4 DEF Resp, Acks, NamesPiece
  <2> QED
    BY <1>1, <2>1, <2>2, <2>3 DEF KeepsDelivered, PieceEffect, DeviceCalm, Receiving
<1> QED
  BY <1>3, <1>4 DEF LastFirmwarePiece, Answered

LEMMA LastFilePieceDevice ==
  ASSUME DeviceSound, NEW m, m.data \in Seq(Byte), NEW reply, LastFilePiece(m, reply)
  PROVE  DeviceSound' /\ KeepsDelivered /\ PieceEffect(m, reply)
<1>1. /\ uploadState = "STORING" /\ m.number = nextPiece /\ nextPiece' = nextPiece + 1
      /\ remaining' = 0 /\ remaining \in Nat /\ Len(m.data) = remaining
      /\ ~isFwTransfer /\ request.size = Len(Data) /\ tempFile' = tempFile \o m.data
      /\ UNCHANGED <<request, isFwTransfer, verdict, fwImage, files, bootFw>>
  BY LenProperties DEF LastFilePiece, PieceFits, PieceTaken, DeviceSound, Receiving, Request
<1>2. tempFile' \in Seq(Byte) /\ Len(tempFile') \in Nat
  BY <1>1, ConcatProperties, LenProperties DEF DeviceSound
<1>3. Delivered' <=> Delivered
  BY <1>1 DEF Delivered
<1>4. CASE /\ Len(tempFile') = request.size /\ uploadState' = "CHECK" /\ handle' = "r"
           /\ hashed' = << >> /\ reply = Resp(TRUE, "none")
  <2>1. HashedPrefix' /\ hashed' \in Seq(Byte)
    BY <1>2, <1>4, EmptySeq DEF HashedPrefix
  <2>2. DeviceSound'
    BY <1>1, <1>2, <1>3, <1>4, <2>1 DEF DeviceSound, Receiving
  <2>3. Acks(reply) /\ ~NamesPiece(reply)
    BY <1>4 DEF Resp, Acks, NamesPiece
  <2> QED
    BY <1>1, <1>3, <1>4, <2>2, <2>3 DEF KeepsDelivered, PieceEffect, Receiving
<1>5. CASE uploadState' = "CLEANUP" /\ hashed' = hashed /\ reply = Resp(FALSE, "other")
  <2>1. DeviceSound'
    BY <1>1, <1>2, <1>3, <1>5 DEF DeviceSound, Receiving
  <2>2. ~Acks(reply) /\ ~NamesPiece(reply)
    BY <1>5 DEF Resp, Acks, NamesPiece
  <2> QED
    BY <1>1, <1>3, <1>5, <2>1, <2>2 DEF KeepsDelivered, PieceEffect, DeviceCalm, Receiving
<1> QED
  BY <1>4, <1>5 DEF LastFilePiece, Answered

LEMMA PieceDevice ==
  ASSUME DeviceSound, NEW m \in Requests, m.kind = "piece", NEW reply,
         HandleMessage(m, FALSE, reply)
  PROVE  DeviceSound' /\ KeepsDelivered /\ PieceEffect(m, reply)
<1>1. m.data \in Seq(Byte)
  BY RequestFacts
<1>2. \/ PieceRefused(m, reply) \/ PieceFails(m, reply) \/ PieceStored(m, reply)
      \/ LastFirmwarePiece(m, reply) \/ LastFilePiece(m, reply)
  BY DEF HandleMessage
<1> QED
  BY <1>1, <1>2, RefusedPieceDevice, FailedPieceDevice, StoredPieceDevice,
     LastFirmwarePieceDevice, LastFilePieceDevice

\* A pass of the loop: it acknowledges only what is stored.
LEMMA HashDevice ==
  ASSUME DeviceSound, CheckHash
  PROVE  DeviceSound' /\ DeviceCalm /\ KeepsDelivered
<1>1. /\ uploadState = "CHECK" /\ handle = "r" /\ handle' = handle /\ verdict' = "none"
      /\ UNCHANGED <<request, nextPiece, remaining, isFwTransfer, tempFile, files, fwImage, bootFw>>
      /\ uploadState' = "CHECK" \/ uploadState' = "CLEANUP"
  BY DEF CheckHash, DeviceSound, storageVars
<1>2. Delivered' <=> Delivered
  BY <1>1 DEF Delivered
<1>3. hashed' \in Seq(Byte) /\ (uploadState' = "CHECK" => HashedPrefix')
  <2>1. CASE hashed' = hashed /\ uploadState' = "CLEANUP"
    BY <2>1 DEF DeviceSound
  <2>2. CASE hashed' = SubSeq(tempFile, 1, Len(hashed)
                         + IF Available >= CheckReadSize THEN CheckReadSize ELSE Available)
    <3> DEFINE n == Len(hashed) + IF Available >= CheckReadSize THEN CheckReadSize ELSE Available
    <3>1. /\ tempFile \in Seq(Byte) /\ hashed \in Seq(Byte)
          /\ Available = Len(tempFile) - Len(hashed) /\ Available > 0
      BY <1>1 DEF CheckHash, Available, DeviceSound
    <3>2. Len(hashed) \in Nat /\ Len(tempFile) \in Nat
      BY <3>1, LenProperties
    <3>3. n \in 1 .. Len(tempFile)
      BY <3>1, <3>2, UploadAssumption
    <3> HIDE DEF n
    <3>4. /\ SubSeq(tempFile, 1, n) \in Seq(Byte) /\ Len(SubSeq(tempFile, 1, n)) = n
          /\ \A i \in 1 .. n : SubSeq(tempFile, 1, n)[i] = tempFile[i]
      <4>1. n \in Int /\ 1 <= n /\ n - 1 + 1 = n /\ \A i \in 1 .. n : 1 + i - 1 = i
        BY <3>3
      <4>2. \A i \in 1 .. n : tempFile[i] \in Byte
        BY <3>1, <3>3, ElementOfSeq
      <4> QED
        BY <4>1, <4>2, SubSeqProperties
    <3>5. hashed' = SubSeq(tempFile, 1, n)
      BY <2>2 DEF n
    <3> QED
      BY <1>1, <3>3, <3>4, <3>5 DEF HashedPrefix
  <2> QED
    BY <2>1, <2>2 DEF CheckHash
<1>4. DeviceSound'
  BY <1>1, <1>3 DEF DeviceSound, Receiving
<1> QED
  BY <1>1, <1>2, <1>4 DEF KeepsDelivered, DeviceCalm

LEMMA CheckEndsDevice ==
  ASSUME DeviceSound, CheckEnds
  PROVE  DeviceSound' /\ DeviceCalm /\ KeepsDelivered
<1>1. /\ uploadState = "CHECK" /\ uploadState' = "CLEANUP"
      /\ tempFile' \in {tempFile, NoFile}
      /\ UNCHANGED <<remaining, isFwTransfer, hashed, fwImage, bootFw>>
  BY DEF CheckEnds
<1>2. (Delivered => Delivered') /\ (verdict' = "valid" => Delivered')
  <2>1. CASE files' = files /\ verdict' = "none"
    BY <1>1, <2>1 DEF Delivered
  <2>2. CASE /\ Md5(hashed) = request.md5
             /\ files' = [n \in FileNames |-> IF n = request.name THEN tempFile ELSE files[n]]
    <3>1. /\ request.name = Name /\ request.md5 = Md5(Data) /\ Name # OwnFirmware
          /\ handle = "r" /\ Len(tempFile) = Len(Data) /\ HashedPrefix /\ Available = 0
          /\ hashed \in Seq(Byte) /\ tempFile \in Seq(Byte)
      BY <1>1 DEF CheckEnds, DeviceSound, Receiving, Request
    <3>2. Len(hashed) = Len(tempFile)
      BY <3>1, LenProperties DEF Available
    <3>3. hashed = tempFile
      BY <3>1, <3>2, SeqEqual DEF HashedPrefix
    <3>4. tempFile = Data
      BY <2>2, <3>1, <3>3, LinkFacts, SameContent
    <3>5. Name \in FileNames
      BY <3>1, LinkFacts DEF Accepted
    <3> QED
      BY <2>2, <3>1, <3>4, <3>5 DEF Delivered
  <2> QED
    BY <2>1, <2>2 DEF CheckEnds
<1>3. DeviceSound'
  BY <1>1, <1>2, NoFileFacts DEF DeviceSound, Receiving
<1> QED
  BY <1>1, <1>2, <1>3 DEF KeepsDelivered, DeviceCalm, Receiving

LEMMA CleanupDevice ==
  ASSUME DeviceSound, CheckCleanup
  PROVE  DeviceSound' /\ DeviceCalm /\ KeepsDelivered
<1>1. /\ uploadState' = "IDLE" /\ remaining' = 0 /\ isFwTransfer' = FALSE /\ hashed' = << >>
      /\ fwImage' \in {fwImage, NoFile} /\ verdict' # "valid"
      /\ UNCHANGED <<tempFile, files, bootFw>>
  BY DEF CheckCleanup
<1>2. Delivered' <=> Delivered
  BY <1>1 DEF Delivered
<1>3. DeviceSound'
  BY <1>1, NoFileFacts DEF DeviceSound, Receiving
<1> QED
  BY <1>1, <1>2, <1>3 DEF KeepsDelivered, DeviceCalm

LEMMA PassDevice ==
  ASSUME DeviceSound, NEW reply, RunUpload(reply)
  PROVE  /\ DeviceSound' /\ DeviceCalm /\ KeepsDelivered
         /\ ~NamesPiece(reply) /\ (Acks(reply) => Delivered)
<1>1. ~NamesPiece(reply) /\ (Acks(reply) => Delivered)
  BY DEF RunUpload, Verdict, NoResp, Resp, NamesPiece, Acks, DeviceSound
<1>2. CASE CheckIdle
  BY <1>1, <1>2, SameTransferDevice DEF CheckIdle
<1> QED
  BY <1>1, <1>2, HashDevice, CheckEndsDevice, CleanupDevice, RestartDevice
     DEF RunUpload, RunValidityCheck

-----------------------------------------------------------------------------
(* The link: steps after which less is under way                           *)

LEMMA FewerTypes ==
  ASSUME LinkTypes, StartOnce, UNCHANGED <<sndVars, late>>, KeepsDelivered, Receiving' => Receiving,
         toDevice' \in Seq(Requests), toSender' \in Seq(UploadReplies),
         Thinned(toDevice', toDevice)
  PROVE  LinkTypes' /\ StartOnce'
<1> USE DEF sndVars
<1>1. PICK g \in [1 .. Len(toDevice') -> Int] :
        \A i \in 1 .. Len(toDevice') : g[i] \in 1 .. Len(toDevice) /\ toDevice'[i] = toDevice[g[i]]
  BY DEF Thinned
<1>2. Len(toDevice') <= Len(toDevice) /\ Len(toDevice') \in Nat /\ Len(toDevice) \in Nat
  BY LenProperties DEF Thinned, LinkTypes
<1>3. toDevice = << >> => toDevice' = << >>
  BY <1>2, EmptySeq
<1>4. LinkTypes'
  <2>1. ASSUME NEW i \in 1 .. Len(toDevice'), toDevice'[i].kind = "piece"
        PROVE  toDevice'[i].number < pieceNumber
    BY <1>1, <2>1, Zenon DEF LinkTypes
  <2> QED
    BY <2>1 DEF LinkTypes
<1>5. ASSUME NEW i \in 1 .. Len(toDevice'), toDevice'[i] = Announcement
      PROVE  sndState = "WAIT_START_ACK" /\ Len(toDevice') = 1 /\ ~Receiving /\ ~Delivered
  <2>1. g[i] \in 1 .. Len(toDevice) /\ toDevice[g[i]] = Announcement
    BY <1>1, <1>5
  <2>2. sndState = "WAIT_START_ACK" /\ Len(toDevice) = 1 /\ ~Receiving /\ ~Delivered
    BY <2>1 DEF StartOnce
  <2>3. Len(toDevice') >= 1
    BY <1>2
  <2>4. Len(toDevice') = 1
    <3>1. \A a, b \in Nat : a <= b /\ b = 1 /\ a >= 1 => a = 1
      OBVIOUS
    <3> QED
      BY <1>2, <2>2, <2>3, <3>1, Zenon
  <2> QED
    BY <2>2, <2>4
<1>6. StartOnce'
  BY <1>3, <1>5 DEF StartOnce, KeepsDelivered
<1> QED
  BY <1>4, <1>6

LEMMA FewerExpected ==
  ASSUME LinkTypes, LinkTypes', Expected, UNCHANGED <<sndVars, late>>, DeviceCalm,
         Thinned(toDevice', toDevice), LiveThinned(toSender', toSender)
  PROVE  Expected'
<1> USE DEF sndVars
<1> DEFINE D == toDevice'
           S == toSender'
<1>1. PICK g \in [1 .. Len(D) -> Int] :
        /\ \A i \in 1 .. Len(D) : g[i] \in 1 .. Len(toDevice) /\ D[i] = toDevice[g[i]]
        /\ \A i, j \in 1 .. Len(D) : i < j => g[i] < g[j]
  BY DEF Thinned
<1>2. PICK h \in [1 .. Len(S) -> Int] :
        /\ \A i \in 1 .. Len(S) : Live(S[i]) => h[i] \in 1 .. Len(toSender) /\ S[i] = toSender[h[i]]
        /\ \A i, j \in 1 .. Len(S) : i < j => h[i] < h[j]
  BY DEF LiveThinned
<1>3. /\ Len(D) <= Len(toDevice) /\ Len(D) \in Nat /\ Len(toDevice) \in Nat
      /\ Len(S) \in Nat /\ Len(toSender) \in Nat
  BY LenProperties DEF Thinned, LinkTypes
<1>4. toDevice = << >> => D = << >>
  BY <1>3, EmptySeq DEF LinkTypes
<1>5. /\ \A i, j \in 1 .. Len(D) : g[i] = g[j] => i = j
      /\ \A i, j \in 1 .. Len(S) : h[i] = h[j] => i = j
  <2> HIDE DEF D, S
  <2>1. ASSUME NEW i \in 1 .. Len(D), NEW j \in 1 .. Len(D), g[i] = g[j], i # j PROVE FALSE
    <3>1. g[i] \in Int /\ g[j] \in Int /\ (i < j \/ j < i)
      BY <1>3, <2>1
    <3> QED
      BY <1>1, <2>1, <3>1
  <2>2. ASSUME NEW i \in 1 .. Len(S), NEW j \in 1 .. Len(S), h[i] = h[j], i # j PROVE FALSE
    <3>1. h[i] \in Int /\ h[j] \in Int /\ (i < j \/ j < i)
      BY <1>3, <2>2
    <3> QED
      BY <1>2, <2>2, <3>1
  <2> QED
    BY <2>1, <2>2
<1>6. /\ \A i \in 1 .. Len(S) : Acks(S[i]) =>
           h[i] \in 1 .. Len(toSender) /\ Acks(toSender[h[i]]) /\ S[i] = toSender[h[i]]
      /\ \A i \in 1 .. Len(S) : NamesPiece(S[i]) =>
           h[i] \in 1 .. Len(toSender) /\ NamesPiece(toSender[h[i]]) /\ S[i] = toSender[h[i]]
      /\ \A i \in 1 .. Len(S) : Live(S[i]) =>
           h[i] \in 1 .. Len(toSender) /\ Live(toSender[h[i]]) /\ S[i] = toSender[h[i]]
  BY <1>2 DEF Live
<1> HIDE DEF D, S
<1>7. InStep'
  BY DEF Expected, InStep, DeviceCalm
<1>8. OneAck'
  <2>1. ASSUME NEW i \in 1 .. Len(S), Acks(S[i])
        PROVE  /\ sndState \in {"WAIT_START_ACK", "WAIT_PIECE_ACK"}
               /\ uploadState = "STORING" => nextPiece = pieceNumber
               /\ \A j \in 1 .. Len(toDevice) : toDevice[j] # Announcement
    BY <1>6, <2>1 DEF Expected, OneAck
  <2>2. ASSUME NEW i \in 1 .. Len(S), Acks(S[i]), NEW j \in 1 .. Len(D)
        PROVE  D[j] # Announcement
    BY <1>1, <2>1, <2>2
  <2>3. ASSUME NEW i \in 1 .. Len(S), NEW j \in 1 .. Len(S), Acks(S[i]), Acks(S[j])
        PROVE  i = j
    BY <1>5, <1>6, <2>3 DEF Expected, OneAck
  <2> QED
    BY <2>1, <2>2, <2>3 DEF OneAck, DeviceCalm, D, S
<1>9. Repeated'
  <2>1. SUFFICES ASSUME sndState = "WAIT_PIECE_ACK", Resent
                 PROVE  /\ \A i \in 1 .. Len(D) : D[i].number = pieceNumber - 1
                        /\ \A i \in 1 .. Len(S) : NamesPiece(S[i]) =>
                             /\ uploadState' = "STORING" => nextPiece' = pieceNumber
                             /\ \A j \in 1 .. Len(S) : j > i => ~Acks(S[j])
    BY DEF Repeated, Resent, D, S
  <2>2. \A i \in 1 .. Len(D) : D[i].number = pieceNumber - 1
    BY <1>1, <2>1 DEF Expected, Repeated
  <2>3. ASSUME NEW i \in 1 .. Len(S), NamesPiece(S[i])
        PROVE  /\ uploadState' = "STORING" => nextPiece' = pieceNumber
               /\ \A j \in 1 .. Len(S) : j > i => ~Acks(S[j])
    <3>1. /\ uploadState = "STORING" => nextPiece = pieceNumber
          /\ \A j \in 1 .. Len(toSender) : j > h[i] => ~Acks(toSender[j])
      BY <1>6, <2>1, <2>3 DEF Expected, Repeated
    <3>2. ASSUME NEW j \in 1 .. Len(S), j > i, Acks(S[j]) PROVE FALSE
      BY <1>2, <1>3, <1>6, <2>3, <3>1, <3>2
    <3> QED
      BY <3>1, <3>2 DEF DeviceCalm
  <2> QED
    BY <2>2, <2>3
<1>10. SentOnce'
  <2>1. SUFFICES ASSUME sndState = "WAIT_PIECE_ACK", ~Resent
                 PROVE  /\ \A i, j \in 1 .. Len(D) :
                             D[i].number = pieceNumber - 1 /\ D[j].number = pieceNumber - 1 => i = j
                        /\ \A i \in 1 .. Len(D) :
                             D[i].number = pieceNumber - 1 /\ uploadState' = "STORING" =>
                               nextPiece' = pieceNumber - 1
                        /\ Stale' => late = MaxLate /\ sndAge = 0
    BY DEF SentOnce, Resent, D
  <2>2. ASSUME NEW i \in 1 .. Len(D), NEW j \in 1 .. Len(D),
               D[i].number = pieceNumber - 1, D[j].number = pieceNumber - 1
        PROVE  i = j
    <3>1. /\ g[i] \in 1 .. Len(toDevice) /\ toDevice[g[i]].number = pieceNumber - 1
          /\ g[j] \in 1 .. Len(toDevice) /\ toDevice[g[j]].number = pieceNumber - 1
      BY <1>1, <2>2
    <3>2. g[i] = g[j]
      BY <2>1, <3>1, Zenon DEF Expected, SentOnce
    <3> QED
      BY <1>5, <3>2
  <2>3. ASSUME NEW i \in 1 .. Len(D), D[i].number = pieceNumber - 1, uploadState' = "STORING"
        PROVE  nextPiece' = pieceNumber - 1
    BY <1>1, <2>1, <2>3 DEF Expected, SentOnce, DeviceCalm
  <2>4. Stale' => Stale
    <3>1. ASSUME NEW i \in 1 .. Len(D), D[i].number # pieceNumber - 1 PROVE Stale
      BY <1>1, <3>1, Zenon DEF Stale
    <3>2. ASSUME NEW i \in 1 .. Len(S), NamesPiece(S[i]) PROVE Stale
      BY <1>6, <3>2, Zenon DEF Stale
    <3> QED
      BY <3>1, <3>2 DEF Stale, D, S
  <2> QED
    BY <2>1, <2>2, <2>3, <2>4 DEF Expected, SentOnce
<1>11. NothingLive => NothingLive'
  BY <1>4, <1>6 DEF NothingLive, D, S
<1>12. InTime'
  <2>1. SUFFICES ASSUME late < MaxLate
                 PROVE  /\ Len(D) <= 1
                        /\ D # << >> => \A i \in 1 .. Len(S) : ~Live(S[i])
                        /\ \A i, j \in 1 .. Len(S) : Live(S[i]) /\ Live(S[j]) => i = j
                        /\ sndState = "SENDING_FW" \/ (sndState = "WAIT_PIECE_ACK" /\ sndAge > 0)
                             => NothingLive'
    BY DEF InTime, D, S
  <2>2. ASSUME NEW i \in 1 .. Len(S), NEW j \in 1 .. Len(S), Live(S[i]), Live(S[j])
        PROVE  i = j
    <3>1. /\ h[i] \in 1 .. Len(toSender) /\ Live(toSender[h[i]])
          /\ h[j] \in 1 .. Len(toSender) /\ Live(toSender[h[j]])
      BY <1>6, <2>2
    <3>2. h[i] = h[j]
      BY <2>1, <3>1, Zenon DEF Expected, InTime
    <3> QED
      BY <1>5, <3>2, Zenon
  <2>3. Len(D) <= 1 /\ (D # << >> => \A i \in 1 .. Len(S) : ~Live(S[i]))
    BY <1>3, <1>4, <1>6, <2>1 DEF Expected, InTime
  <2> QED
    BY <1>11, <2>1, <2>2, <2>3 DEF Expected, InTime
<1> QED
  BY <1>7, <1>8, <1>9, <1>10, <1>11, <1>12 DEF Expected

LEMMA FewerSound ==
  ASSUME LinkSound, UNCHANGED <<sndVars, late>>, DeviceSound', DeviceCalm, KeepsDelivered,
         toDevice' \in Seq(Requests), toSender' \in Seq(UploadReplies),
         Thinned(toDevice', toDevice), ~Delivered => LiveThinned(toSender', toSender)
  PROVE  LinkSound'
<1>1. Receiving' => Receiving
  BY DEF DeviceCalm, Receiving
<1>2. LinkTypes' /\ StartOnce'
  BY <1>1, FewerTypes DEF LinkSound
<1>3. CASE Delivered
  BY <1>2, <1>3 DEF LinkSound, KeepsDelivered
<1>4. CASE ~Delivered
  <2>1. Expected'
    BY <1>2, <1>4, FewerExpected DEF LinkSound
  <2> QED
    BY <1>2, <1>4, <2>1 DEF LinkSound, sndVars
<1> QED
  BY <1>3, <1>4

LEMMA DevicePassSound ==
  ASSUME LinkSound, DevicePass
  PROVE  LinkSound'
<1>1. PICK reply \in UploadReplies : RunUpload(reply) /\ Respond(reply)
  BY DEF DevicePass
<1>2. /\ DeviceSound' /\ DeviceCalm /\ KeepsDelivered
      /\ ~NamesPiece(reply) /\ (Acks(reply) => Delivered)
  BY <1>1, PassDevice DEF LinkSound
<1>3. /\ toDevice \in Seq(Requests) /\ toSender \in Seq(UploadReplies)
      /\ toDevice' = toDevice /\ UNCHANGED <<sndVars, late>>
      /\ toSender' = toSender \/ toSender' = Append(toSender, reply)
  BY <1>1 DEF DevicePass, Respond, LinkSound, LinkTypes
<1>4. toSender' \in Seq(UploadReplies) /\ (~Delivered => LiveThinned(toSender', toSender))
  <2>1. CASE toSender' = toSender
    BY <1>3, <2>1, ThinnedSame, ThinnedLive
  <2>2. CASE toSender' = Append(toSender, reply)
    <3>1. toSender' \in Seq(UploadReplies)
      BY <1>3, <2>2, AppendFacts
    <3>2. ~Delivered => ~Live(reply)
      BY <1>2 DEF Live
    <3>3. ~Delivered => LiveThinned(Append(toSender, reply), toSender)
      BY <1>3, <3>2, LiveThinnedAppend
    <3> QED
      BY <2>2, <3>1, <3>3
  <2> QED
    BY <1>3, <2>1, <2>2
<1> QED
  BY <1>2, <1>3, <1>4, ThinnedSame, FewerSound

LEMMA DeviceRestartsSound ==
  ASSUME LinkSound, DeviceRestarts
  PROVE  LinkSound'
<1>1. DeviceSound' /\ DeviceCalm /\ KeepsDelivered
  BY RestartDevice DEF LinkSound, DeviceRestarts
<1>2. /\ toDevice \in Seq(Requests) /\ toSender \in Seq(UploadReplies)
      /\ toDevice' = << >> /\ toSender' = toSender /\ UNCHANGED <<sndVars, late>>
  BY DEF DeviceRestarts, LinkSound, LinkTypes
<1>3. toDevice' \in Seq(Requests)
  BY <1>2, EmptySeq
<1> QED
  BY <1>1, <1>2, <1>3, ThinnedNone, ThinnedSame, ThinnedLive, FewerSound

LEMMA SameDevice ==
  ASSUME DeviceSound, UNCHANGED uploadVars
  PROVE  DeviceSound' /\ DeviceCalm /\ KeepsDelivered /\ (Delivered' <=> Delivered)
BY SameTransferDevice
   DEF uploadVars, transferVars, verdictVars, storageVars, Delivered

LEMMA MessageLostSound ==
  ASSUME LinkSound, MessageLost
  PROVE  LinkSound'
<1>1. DeviceSound' /\ DeviceCalm /\ KeepsDelivered
  BY SameDevice DEF LinkSound, MessageLost
<1>2. /\ toDevice \in Seq(Requests) /\ toSender \in Seq(UploadReplies)
      /\ UNCHANGED <<sndVars, late>>
      /\ \/ toDevice' \in Drop(toDevice) /\ toSender' = toSender
         \/ toSender' \in Drop(toSender) /\ toDevice' = toDevice
  BY DEF MessageLost, LinkSound, LinkTypes
<1>3. /\ toDevice' \in Seq(Requests) /\ toSender' \in Seq(UploadReplies)
      /\ Thinned(toDevice', toDevice) /\ Thinned(toSender', toSender)
  BY <1>2, ThinnedDrop, ThinnedSame
<1> QED
  BY <1>1, <1>2, <1>3, ThinnedLive, FewerSound

LEMMA ConcludesSound ==
  ASSUME LinkSound, Concludes, sndState' # "ERROR"
  PROVE  LinkSound'
<1>1. /\ sndState = "DONE" /\ UNCHANGED <<uploadVars, linkVars>>
      /\ UNCHANGED <<sndState, pieceNumber, sentBytes, lastPiece, retries, resentPiece, sndAge>>
  BY DEF Concludes, SenderGivesUp, SenderEnds, LinkSound, LinkTypes, Waiting
<1>2. DeviceSound' /\ (Delivered' <=> Delivered) /\ Delivered
  BY <1>1, SameDevice DEF LinkSound
<1>3. LinkTypes'
  BY <1>1 DEF LinkSound, LinkTypes, linkVars
<1>4. StartOnce'
  BY <1>1, <1>2
     DEF LinkSound, StartOnce, linkVars, uploadVars, transferVars, Receiving
<1> QED
  BY <1>2, <1>3, <1>4 DEF LinkSound

\* Time passes.  While no answer has been late, and one may be, a tick finds
\* nothing under way, or it is the one late answer.
LEMMA TickSound ==
  ASSUME MaxLate <= 1, LinkSound, Tick
  PROVE  LinkSound'
<1>1. /\ late \in 0 .. MaxLate /\ sndAge \in Nat /\ MaxLate \in Nat
      /\ toDevice \in Seq(Requests) /\ toSender \in Seq(UploadReplies)
      /\ ended => sndState = "DONE"
  BY LinkFacts DEF LinkSound, LinkTypes
<1>2. /\ UNCHANGED <<sndState, pieceNumber, lastPiece, resentPiece, ended, toDevice, toSender>>
      /\ sndAge' \in Nat /\ late' \in 0 .. MaxLate
      /\ \/ Quiet /\ late' = late
         \/ late < MaxLate /\ late' = late + 1
  BY <1>1 DEF Tick
<1>3. /\ DeviceSound' /\ DeviceCalm /\ KeepsDelivered /\ (Delivered' <=> Delivered)
      /\ uploadState' = uploadState /\ nextPiece' = nextPiece
  BY SameTransferDevice
     DEF Tick, UploadTick, LinkSound, verdictVars, storageVars, Delivered
<1>4. LinkTypes'
  BY <1>2 DEF LinkSound, LinkTypes
<1>5. StartOnce'
  BY <1>2, <1>3 DEF LinkSound, StartOnce, Receiving
<1>6. CASE Delivered
  BY <1>2, <1>3, <1>4, <1>5, <1>6 DEF LinkSound
<1>7. CASE ~Delivered
  <2>1. ~ended /\ Expected
    BY <1>1, <1>7 DEF LinkSound
  <2>2. Quiet => toDevice = << >> /\ toSender = << >> /\ Len(toSender) = 0 /\ Len(toDevice) = 0
    BY <2>1, EmptySeq DEF Quiet
  <2>3. InStep' /\ OneAck' /\ Repeated'
    BY <1>2, <1>3, <2>1 DEF Expected, InStep, OneAck, Repeated, Resent
  <2>4. NothingLive => NothingLive'
    BY <1>2 DEF NothingLive
  <2>5. Quiet => ~Stale /\ NothingLive
    BY <2>2 DEF Stale, NothingLive
  <2>6. (Stale' <=> Stale) /\ (Resent' <=> Resent)
    BY <1>2 DEF Stale, Resent
  <2>7. SentOnce'
    <3>1. ASSUME sndState = "WAIT_PIECE_ACK", ~Resent, Stale PROVE FALSE
      <4>1. late = MaxLate
        BY <2>1, <3>1 DEF Expected, SentOnce
      <4> QED
        BY <1>1, <1>2, <2>5, <3>1, <4>1
    <3> QED
      BY <1>2, <1>3, <2>1, <2>6, <3>1 DEF Expected, SentOnce
  <2>8. InTime'
    <3>1. SUFFICES ASSUME late' < MaxLate PROVE InTime'
      BY DEF InTime
    <3>2. Quiet
      BY <1>1, <1>2, <3>1
    <3>3. NothingLive'
      BY <2>4, <2>5, <3>2
    <3>4. Len(toDevice') = 0 /\ Len(toSender') = 0 /\ toDevice' = << >>
      BY <1>2, <2>2, <3>2
    <3> QED
      BY <3>3, <3>4 DEF InTime
  <2>9. Expected'
    BY <1>2, <2>1, <2>3, <2>4, <2>7, <2>8 DEF Expected
  <2> QED
    BY <1>2, <1>3, <1>4, <1>5, <1>7, <2>9 DEF LinkSound
<1> QED
  BY <1>6, <1>7

-----------------------------------------------------------------------------
(* The link: the sender's steps                                            *)

LEMMA ConnectsSound ==
  ASSUME LinkSound, Connects, sndState' # "ERROR"
  PROVE  LinkSound'
<1>1. /\ SenderStart /\ toDevice' = Append(toDevice, Announcement)
      /\ UNCHANGED <<uploadVars, toSender, late>>
  BY DEF Connects, SenderRefused
<1>2. /\ sndState = "IDLE" /\ sndState' = "WAIT_START_ACK" /\ sndAge' = 0 /\ resentPiece' = {}
      /\ UNCHANGED <<pieceNumber, lastPiece, ended>>
  BY <1>1 DEF SenderStart
<1>3. /\ DeviceSound' /\ (Delivered' <=> Delivered) /\ uploadState' = uploadState
  BY <1>1, SameDevice DEF LinkSound, uploadVars, transferVars
<1>4. /\ pieceNumber = 0 /\ toDevice = << >> /\ ~Receiving /\ ~Delivered /\ Expected /\ NothingLive
  BY <1>2 DEF LinkSound, StartOnce, Expected
<1>5. /\ toDevice' \in Seq(Requests) /\ Len(toDevice') = 1 /\ toDevice'[1] = Announcement
      /\ toDevice' # << >>
  <2>1. /\ toDevice \in Seq(Requests) /\ Announcement \in Requests /\ Len(toDevice) = 0
    BY <1>4, EmptySeq DEF LinkSound, LinkTypes, Requests
  <2> QED
    BY <1>1, <2>1, AppendFacts, EmptySeq
<1>6. \A i \in 1 .. Len(toDevice') : i = 1 /\ toDevice'[i].kind = "start"
  BY <1>5, AnnouncementFacts
<1>7. LinkTypes'
  BY <1>1, <1>2, <1>5, <1>6 DEF LinkSound, LinkTypes, Waiting
<1>8. StartOnce'
  BY <1>2, <1>3, <1>4, <1>5, <1>6 DEF StartOnce, Receiving
<1>9. Expected'
  <2>1. \A i \in 1 .. Len(toSender') : ~Live(toSender'[i]) /\ ~Acks(toSender'[i])
    BY <1>1, <1>4 DEF NothingLive, Live
  <2>2. uploadState' # "STORING"
    BY <1>3, <1>4 DEF Receiving
  <2>3. InStep' /\ OneAck' /\ Repeated' /\ SentOnce'
    BY <1>2, <2>1, <2>2 DEF InStep, OneAck, Repeated, SentOnce
  <2>4. InTime'
    BY <1>2, <1>5, <2>1 DEF InTime
  <2> QED
    BY <1>2, <2>3, <2>4 DEF Expected
<1> QED
  BY <1>2, <1>3, <1>7, <1>8, <1>9 DEF LinkSound

\* After an answer that moved the sender past the piece on the wire.
LEMMA AdvancedExpected ==
  ASSUME LinkTypes, Expected,
         toSender # << >>, toSender' = Tail(toSender), Live(Head(toSender)),
         UNCHANGED <<uploadVars, toDevice, late, pieceNumber>>,
         sndState' \in {"SENDING_FW", "WAIT_CHECK_ACK"},
         uploadState = "STORING" => nextPiece = pieceNumber,
         \A i \in 1 .. Len(toSender) : i > 1 => ~Acks(toSender[i])
  PROVE  Expected'
<1>1. /\ Head(toSender) = toSender[1] /\ Len(toSender) \in Nat /\ Len(toSender) > 0
      /\ Len(toSender') = Len(toSender) - 1
      /\ \A i \in 1 .. Len(toSender') : toSender'[i] = toSender[i + 1]
  BY TailFacts DEF LinkTypes
<1>2. \A i \in 1 .. Len(toSender') : ~Acks(toSender'[i])
  BY <1>1
<1>3. uploadState' = uploadState /\ nextPiece' = nextPiece
  BY DEF uploadVars, transferVars
<1>4. InStep' /\ OneAck' /\ Repeated' /\ SentOnce'
  BY <1>2, <1>3 DEF InStep, OneAck, Repeated, SentOnce
<1>5. InTime'
  <2>1. SUFFICES ASSUME late < MaxLate PROVE InTime'
    BY DEF InTime
  <2>2. 1 \in 1 .. Len(toSender) /\ Live(toSender[1])
    BY <1>1
  <2>3. toDevice = << >> /\ \A i \in 1 .. Len(toSender) : Live(toSender[i]) => i = 1
    BY <2>1, <2>2 DEF Expected, InTime
  <2>4. \A i \in 1 .. Len(toSender') : ~Live(toSender'[i])
    BY <1>1, <2>3
  <2>5. Len(toDevice') = 0 /\ toDevice' = << >>
    BY <2>3, EmptySeq
  <2> QED
    BY <2>4, <2>5 DEF InTime, NothingLive
<1> QED
  BY <1>4, <1>5 DEF Expected

\* _process_response, in the four ways that are not an error.
LEMMA ReceivesCases ==
  ASSUME LinkTypes, NEW r, SenderReceives(r), sndState' # "ERROR"
  PROVE  /\ ~ended /\ UNCHANGED <<pieceNumber, lastPiece, ended>>
         /\ resentPiece' \subseteq resentPiece /\ sndAge' \in Nat
         /\ \/ sndState = "WAIT_START_ACK" /\ Acks(r) /\ sndState' = "SENDING_FW"
            \/ /\ sndState = "WAIT_PIECE_ACK" /\ (Acks(r) \/ (NamesPiece(r) /\ Resent))
               /\ sndState' \in {"SENDING_FW", "WAIT_CHECK_ACK"}
            \/ sndState = "WAIT_CHECK_ACK" /\ Acks(r) /\ sndState' = "DONE"
            \/ /\ ~(sndState = "WAIT_PIECE_ACK" /\ Resent)
               /\ sndState' = sndState /\ resentPiece' = {} /\ sndAge' = sndAge
<1>1. ~ended /\ UNCHANGED <<pieceNumber, lastPiece, ended>> /\ sndAge \in Nat
  BY DEF SenderReceives, LinkTypes
<1>2. CASE /\ sndState = "WAIT_START_ACK" /\ r.ack
           /\ sndState' = "SENDING_FW"
           /\ UNCHANGED <<retries, resentPiece, sndAge>>
  BY <1>1, <1>2 DEF Acks
<1>3. CASE sndState = "WAIT_PIECE_ACK" /\ r.ack /\ Advance /\ resentPiece' = resentPiece
  BY <1>1, <1>3 DEF Acks, Advance
<1>4. CASE ConfirmsPiece(r) /\ Advance /\ resentPiece' = {}
  <2>1. sndState = "WAIT_PIECE_ACK" /\ NamesPiece(r) /\ Resent
    BY <1>4 DEF ConfirmsPiece, AnswersRepeat, NamesPiece, Resent, LinkTypes
  <2> QED
    BY <1>1, <1>4, <2>1 DEF Advance
<1>5. CASE /\ sndState = "WAIT_CHECK_ACK" /\ r.ack
           /\ sndState' = "DONE"
           /\ UNCHANGED <<retries, resentPiece, sndAge>>
  BY <1>1, <1>5 DEF Acks
<1>6. CASE /\ AnswersRepeat(r) /\ ~ConfirmsPiece(r)
           /\ resentPiece' = {}
           /\ UNCHANGED <<sndState, retries, sndAge>>
  <2>1. ~(sndState = "WAIT_PIECE_ACK" /\ Resent)
    BY <1>6 DEF ConfirmsPiece, Resent, LinkTypes
  <2> QED
    BY <1>1, <1>6, <2>1
<1> QED
  BY <1>2, <1>3, <1>4, <1>5, <1>6 DEF SenderReceives

LEMMA AnswerArrivesSound ==
  ASSUME LinkSound, AnswerArrives, sndState' # "ERROR"
  PROVE  LinkSound'
<1> DEFINE r == Head(toSender)
<1>1. /\ LinkTypes /\ StartOnce /\ SenderReceives(r) /\ toSender # << >>
      /\ toSender' = Tail(toSender) /\ UNCHANGED <<uploadVars, toDevice, late>>
  BY DEF AnswerArrives, LinkSound
<1>2. /\ r = toSender[1] /\ Len(toSender) \in Nat /\ 1 \in 1 .. Len(toSender)
      /\ toSender' \in Seq(UploadReplies) /\ Thinned(toSender', toSender)
      /\ Len(toSender') = Len(toSender) - 1
      /\ \A i \in 1 .. Len(toSender') : i + 1 \in 1 .. Len(toSender) /\ toSender'[i] = toSender[i + 1]
  BY <1>1, TailFacts, ThinnedTail DEF LinkTypes
<1> HIDE DEF r
<1>3. /\ DeviceSound' /\ DeviceCalm /\ (Delivered' <=> Delivered)
      /\ uploadState' = uploadState /\ nextPiece' = nextPiece
  BY <1>1, SameDevice DEF LinkSound, uploadVars, transferVars
<1>4. /\ ~ended /\ UNCHANGED <<pieceNumber, lastPiece, ended>>
      /\ resentPiece' \subseteq resentPiece /\ sndAge' \in Nat
      /\ \/ sndState = "WAIT_START_ACK" /\ Acks(r) /\ sndState' = "SENDING_FW"
         \/ /\ sndState = "WAIT_PIECE_ACK" /\ (Acks(r) \/ (NamesPiece(r) /\ Resent))
            /\ sndState' \in {"SENDING_FW", "WAIT_CHECK_ACK"}
         \/ sndState = "WAIT_CHECK_ACK" /\ Acks(r) /\ sndState' = "DONE"
         \/ /\ ~(sndState = "WAIT_PIECE_ACK" /\ Resent)
            /\ sndState' = sndState /\ resentPiece' = {} /\ sndAge' = sndAge
  BY <1>1, ReceivesCases
<1>5. LinkTypes'
  BY <1>1, <1>2, <1>4 DEF LinkTypes, Waiting
<1>6. ~Delivered /\ Acks(r) =>
        /\ sndState \in {"WAIT_START_ACK", "WAIT_PIECE_ACK"}
        /\ uploadState = "STORING" => nextPiece = pieceNumber
        /\ \A j \in 1 .. Len(toDevice) : toDevice[j] # Announcement
        /\ \A j \in 1 .. Len(toSender) : j > 1 => ~Acks(toSender[j])
  <2>1. SUFFICES ASSUME ~Delivered, Acks(r)
                 PROVE  /\ sndState \in {"WAIT_START_ACK", "WAIT_PIECE_ACK"}
                        /\ uploadState = "STORING" => nextPiece = pieceNumber
                        /\ \A j \in 1 .. Len(toDevice) : toDevice[j] # Announcement
                        /\ \A j \in 1 .. Len(toSender) : j > 1 => ~Acks(toSender[j])
    OBVIOUS
  <2>2. OneAck /\ Acks(toSender[1])
    BY <1>2, <2>1 DEF LinkSound, Expected
  <2>3. ASSUME NEW j \in 1 .. Len(toSender), j > 1, Acks(toSender[j]) PROVE FALSE
    <3>1. j = 1
      BY <1>2, <2>2, <2>3, Zenon DEF OneAck
    <3> QED
      BY <2>3, <3>1
  <2> QED
    BY <1>2, <2>2, <2>3 DEF OneAck
<1>7. StartOnce'
  <2>1. \A i \in 1 .. Len(toDevice) : toDevice[i] = Announcement => sndState' = "WAIT_START_ACK"
    BY <1>1, <1>4, <1>6 DEF StartOnce
  <2> QED
    BY <1>1, <1>3, <1>4, <2>1 DEF StartOnce, Receiving
<1>8. sndState' = "DONE" => Delivered
  BY <1>4, <1>6 DEF LinkSound
<1>9. CASE Delivered
  BY <1>3, <1>5, <1>7, <1>9 DEF LinkSound
<1>10. CASE ~Delivered
  <2> SUFFICES Expected'
    BY <1>3, <1>5, <1>7, <1>8, <1>10 DEF LinkSound
  <2>1. Expected
    BY <1>10 DEF LinkSound
  <2>2. CASE sndState = "WAIT_START_ACK" /\ Acks(r) /\ sndState' = "SENDING_FW"
    BY <1>1, <1>2, <1>4, <1>6, <1>10, <2>1, <2>2, AdvancedExpected DEF Live, r
  <2>3. CASE /\ sndState = "WAIT_PIECE_ACK" /\ Acks(r)
             /\ sndState' \in {"SENDING_FW", "WAIT_CHECK_ACK"}
    BY <1>1, <1>2, <1>4, <1>6, <1>10, <2>1, <2>3, AdvancedExpected DEF Live, r
  <2>4. CASE /\ sndState = "WAIT_PIECE_ACK" /\ NamesPiece(r) /\ Resent
             /\ sndState' \in {"SENDING_FW", "WAIT_CHECK_ACK"}
    <3>1. /\ uploadState = "STORING" => nextPiece = pieceNumber
          /\ \A j \in 1 .. Len(toSender) : j > 1 => ~Acks(toSender[j])
      BY <1>2, <2>1, <2>4 DEF Expected, Repeated
    <3> QED
      BY <1>1, <1>2, <1>4, <2>1, <2>4, <3>1, AdvancedExpected DEF Live, r
  <2>5. CASE /\ ~(sndState = "WAIT_PIECE_ACK" /\ Resent)
             /\ sndState' = sndState /\ resentPiece' = {} /\ sndAge' = sndAge
    <3>1. /\ \A i \in 1 .. Len(toSender') : toSender'[i] = toSender[i + 1]
          /\ \A i \in 1 .. Len(toSender') : i + 1 \in 1 .. Len(toSender)
          /\ \A i, j \in 1 .. Len(toSender') : i + 1 = j + 1 => i = j
          /\ ~Resent'
      BY <1>2, <2>5 DEF Resent
    <3>2. InStep'
      BY <1>3, <1>4, <2>1, <2>5 DEF Expected, InStep
    <3>3. OneAck'
      <4>1. ASSUME NEW i \in 1 .. Len(toSender'), NEW j \in 1 .. Len(toSender'),
                   Acks(toSender'[i]), Acks(toSender'[j])
            PROVE  i = j
        BY <2>1, <3>1, <4>1 DEF Expected, OneAck
      <4>2. ASSUME NEW i \in 1 .. Len(toSender'), Acks(toSender'[i])
            PROVE  /\ sndState \in {"WAIT_START_ACK", "WAIT_PIECE_ACK"}
                   /\ uploadState = "STORING" => nextPiece = pieceNumber
                   /\ \A j \in 1 .. Len(toDevice) : toDevice[j] # Announcement
        BY <2>1, <3>1, <4>2 DEF Expected, OneAck
      <4> QED
        BY <1>1, <1>3, <1>4, <2>5, <4>1, <4>2 DEF OneAck
    <3>4. Repeated'
      BY <3>1 DEF Repeated
    <3>5. SentOnce'
      <4>1. Stale' => Stale
        BY <1>1, <1>4, <3>1 DEF Stale
      <4> QED
        BY <1>1, <1>3, <1>4, <2>1, <2>5, <4>1 DEF Expected, SentOnce
    <3>6. NothingLive => NothingLive'
      BY <1>1, <3>1 DEF NothingLive
    <3>7. InTime'
      <4>1. ASSUME late < MaxLate,
                   NEW i \in 1 .. Len(toSender'), NEW j \in 1 .. Len(toSender'),
                   Live(toSender'[i]), Live(toSender'[j])
            PROVE  i = j /\ toDevice = << >>
        BY <2>1, <3>1, <4>1 DEF Expected, InTime
      <4> QED
        BY <1>1, <2>1, <2>5, <3>6, <4>1 DEF Expected, InTime
    <3> QED
      BY <2>1, <2>5, <3>2, <3>3, <3>4, <3>5, <3>6, <3>7 DEF Expected
  <2> QED
    BY <1>4, <1>8, <1>10, <2>2, <2>3, <2>4, <2>5
<1> QED
  BY <1>9, <1>10

\* A piece goes out: what both ways of publishing have in common.
LEMMA PublishesSound ==
  ASSUME LinkSound, Publishes
  PROVE  LinkSound'
<1>1. PICK out \in OutPieces :
        /\ SenderSends(out) \/ SenderRepeats(out)
        /\ toDevice' = Append(toDevice, PieceMsg(out.number, out.data))
  BY DEF Publishes
<1> DEFINE m == PieceMsg(out.number, out.data)
           n == Len(toDevice)
<1>2. /\ LinkTypes /\ StartOnce /\ UNCHANGED <<uploadVars, toSender, late>>
      /\ toDevice \in Seq(Requests) /\ pieceNumber \in Nat /\ sndAge \in Nat
      /\ late \in 0 .. MaxLate /\ MaxLate \in Nat
  BY LinkFacts DEF Publishes, LinkSound, LinkTypes
<1>3. /\ DeviceSound' /\ (Delivered' <=> Delivered)
      /\ uploadState' = uploadState /\ nextPiece' = nextPiece
  BY <1>2, SameDevice DEF LinkSound, uploadVars, transferVars
<1>4. /\ m \in Requests /\ m # Announcement /\ m.kind = "piece" /\ m.number = out.number
  <2>1. out.number \in Nat /\ out.data \in Seq(Byte)
    BY PieceAtFacts, LinkFacts DEF OutPieces
  <2> QED
    BY <2>1, AnnouncementFacts DEF PieceMsg, Requests
<1> HIDE DEF m
<1>5. /\ toDevice' \in Seq(Requests) /\ Len(toDevice') = n + 1 /\ n \in Nat
      /\ \A i \in 1 .. n : toDevice'[i] = toDevice[i]
      /\ toDevice'[n + 1] = m
  BY <1>1, <1>2, <1>4, AppendFacts DEF m
<1>6. /\ sndState \in {"SENDING_FW", "WAIT_PIECE_ACK"} /\ sndState' = "WAIT_PIECE_ACK"
      /\ sndAge' = 0 /\ ~ended /\ ~ended'
  BY <1>1 DEF SenderSends, SenderRepeats, Overdue, MayRepeat
<1>7. \A i \in 1 .. n : /\ toDevice[i] # Announcement /\ toDevice[i].kind = "piece"
                        /\ toDevice[i].number \in Nat /\ toDevice[i].number < pieceNumber
  <2>1. ASSUME NEW i \in 1 .. n PROVE toDevice[i] \in Requests /\ toDevice[i] # Announcement
    BY <1>2, <1>6, ElementOfSeq DEF StartOnce
  <2> QED
    BY <1>2, <2>1, RequestFacts DEF LinkTypes
<1>8. \A i \in 1 .. n + 1 : i \in 1 .. n \/ i = n + 1
  BY <1>5
<1> HIDE DEF n
<1>9. \A i \in 1 .. Len(toDevice') : toDevice'[i] # Announcement
  BY <1>4, <1>5, <1>7, <1>8
<1>10. StartOnce'
  BY <1>6, <1>9 DEF StartOnce
<1>11. CASE SenderSends(out)
  <2>1. /\ sndState = "SENDING_FW" /\ resentPiece' = {k \in resentPiece : pieceNumber <= k + 1}
        /\ lastPiece' = {[number |-> pieceNumber, offset |-> sentBytes]}
        /\ m.number = pieceNumber /\ pieceNumber' = pieceNumber + 1
    BY <1>4, <1>11 DEF SenderSends
  <2>2. /\ \A p \in lastPiece' : p.number = pieceNumber
        /\ lastPiece' # {}
        /\ resentPiece' \subseteq resentPiece /\ resentPiece \subseteq 0 .. pieceNumber - 1
    BY <1>2, <2>1 DEF LinkTypes
  <2>3. LinkTypes'
    <3>1. \A i \in 1 .. Len(toDevice') : toDevice'[i].number < pieceNumber'
      <4>1. ASSUME NEW i \in 1 .. n + 1 PROVE toDevice'[i].number < pieceNumber + 1
        BY <1>2, <1>5, <1>7, <1>8, <2>1
      <4> QED
        BY <1>5, <2>1, <4>1
    <3>2. \A i \in 0 .. pieceNumber - 1 : i \in 0 .. pieceNumber' - 1
      BY <1>2, <2>1
    <3>3. pieceNumber' \in Nat /\ pieceNumber' - 1 = pieceNumber
      BY <1>2, <2>1
    <3> QED
      BY <1>2, <1>5, <1>6, <2>2, <3>1, <3>2, <3>3 DEF LinkTypes, Waiting
  <2>4. CASE Delivered
    BY <1>3, <1>6, <1>10, <2>3, <2>4 DEF LinkSound
  <2>5. CASE ~Delivered
    <3> SUFFICES Expected'
      BY <1>3, <1>6, <1>10, <2>3, <2>5 DEF LinkSound
    <3>1. /\ Expected /\ pieceNumber' - 1 = pieceNumber
          /\ \A i \in 1 .. Len(toSender) : ~Acks(toSender[i])
          /\ uploadState = "STORING" => nextPiece = pieceNumber
      BY <1>2, <2>1, <2>5 DEF LinkSound, Expected, OneAck, InStep
    <3>2. InStep' /\ OneAck'
      BY <1>2, <1>3, <1>6, <3>1 DEF InStep, OneAck
    <3>3. ~Resent'
      <4>1. pieceNumber \notin resentPiece
        BY <1>2, <2>2
      <4> QED
        BY <2>2, <3>1, <4>1 DEF Resent
    <3>4. late < MaxLate => NothingLive
      BY <2>1, <3>1 DEF Expected, InTime
    <3>5. NothingLive => n = 0
      BY <1>2, EmptySeq DEF NothingLive, n
    <3>6. late < MaxLate => /\ Len(toDevice') = 1
                            /\ \A i \in 1 .. Len(toSender') : ~Live(toSender'[i])
      BY <1>2, <1>5, <3>4, <3>5 DEF NothingLive
    <3>7. InTime'
      <4>1. SUFFICES ASSUME late < MaxLate PROVE InTime'
        BY <1>2 DEF InTime
      <4>2. Len(toDevice') = 1 /\ \A i \in 1 .. Len(toSender') : ~Live(toSender'[i])
        BY <3>6, <4>1
      <4>3. Len(toDevice') <= 1 /\ sndState' # "SENDING_FW" /\ ~(sndAge' > 0)
        BY <1>6, <4>2
      <4> QED
        BY <4>2, <4>3 DEF InTime
    <3>8. Stale' => late = MaxLate
      <4>1. SUFFICES ASSUME late < MaxLate PROVE ~Stale'
        BY <1>2
      <4>2. n = 0
        BY <3>4, <3>5, <4>1
      <4>3. \A i \in 1 .. Len(toDevice') : toDevice'[i].number = pieceNumber
        BY <1>5, <1>8, <2>1, <4>2
      <4> QED
        BY <3>1, <3>6, <4>1, <4>3 DEF Stale, Live
    <3>9. SentOnce'
      <4>1. ASSUME NEW i \in 1 .. n + 1, toDevice'[i].number = pieceNumber PROVE i = n + 1
        BY <1>2, <1>5, <1>7, <1>8, <4>1
      <4>2. \A i, j \in 1 .. Len(toDevice') :
              toDevice'[i].number = pieceNumber /\ toDevice'[j].number = pieceNumber => i = j
        BY <1>5, <4>1
      <4> QED
        BY <1>2, <1>3, <1>6, <3>1, <3>8, <4>2 DEF SentOnce
    <3> QED
      BY <1>6, <3>2, <3>3, <3>7, <3>9 DEF Expected, Repeated
  <2> QED
    BY <2>4, <2>5
<1>12. CASE SenderRepeats(out)
  <2>1. /\ sndState = "WAIT_PIECE_ACK" /\ sndAge > SenderTimeout
        /\ UNCHANGED <<sndState, pieceNumber, lastPiece, ended>>
    BY <1>12 DEF SenderRepeats, Overdue, MayRepeat
  <2>2. PICK p \in lastPiece : resentPiece' = {p.number} /\ m.number = p.number
    BY <1>4, <1>12 DEF SenderRepeats
  <2>3. /\ sndAge > 0 /\ p.number = pieceNumber - 1 /\ lastPiece # {}
    BY <1>2, <2>1, <2>2, SenderAssumption DEF LinkTypes
  <2>4. pieceNumber - 1 \in 0 .. pieceNumber - 1
    BY <1>4, <2>2, <2>3, <1>2, RequestFacts
  <2>5. LinkTypes'
    <3>1. \A i \in 1 .. Len(toDevice') : toDevice'[i].number < pieceNumber'
      <4>1. ASSUME NEW i \in 1 .. n + 1 PROVE toDevice'[i].number < pieceNumber
        BY <1>2, <1>5, <1>7, <1>8, <2>2, <2>3
      <4> QED
        BY <1>5, <2>1, <4>1
    <3> QED
      BY <1>2, <1>5, <1>6, <2>1, <2>2, <2>3, <2>4, <3>1 DEF LinkTypes
  <2>6. CASE Delivered
    BY <1>3, <1>6, <1>10, <2>5, <2>6 DEF LinkSound
  <2>7. CASE ~Delivered
    <3> SUFFICES Expected'
      BY <1>3, <1>6, <1>10, <2>5, <2>7 DEF LinkSound
    <3>1. Expected
      BY <2>7 DEF LinkSound
    <3>2. InStep'
      BY <1>3, <1>6, <2>1, <3>1 DEF Expected, InStep
    <3>3. OneAck'
      BY <1>2, <1>3, <1>6, <1>9, <2>1, <3>1 DEF Expected, OneAck
    <3>4. Resent'
      BY <2>1, <2>2, <2>3 DEF Resent
    <3>5. /\ \A i \in 1 .. n : toDevice[i].number = pieceNumber - 1
          /\ \A i \in 1 .. Len(toSender) : NamesPiece(toSender[i]) =>
               /\ uploadState = "STORING" => nextPiece = pieceNumber
               /\ \A j \in 1 .. Len(toSender) : j > i => ~Acks(toSender[j])
      <4>1. CASE Resent
        BY <2>1, <3>1, <4>1 DEF Expected, Repeated, n
      <4>2. CASE ~Resent
        <5>1. ~Stale
          BY <2>1, <2>3, <3>1, <4>2 DEF Expected, SentOnce
        <5> QED
          BY <5>1 DEF Stale, n
      <4> QED
        BY <4>1, <4>2
    <3>6. Repeated'
      <4>1. \A i \in 1 .. Len(toDevice') : toDevice'[i].number = pieceNumber - 1
        BY <1>5, <1>8, <2>2, <2>3, <3>5
      <4> QED
        BY <1>2, <1>3, <2>1, <3>5, <4>1 DEF Repeated
    <3>7. SentOnce'
      BY <3>4 DEF SentOnce
    <3>8. late < MaxLate => NothingLive
      BY <2>1, <2>3, <3>1 DEF Expected, InTime
    <3>9. NothingLive => n = 0
      BY <1>2, EmptySeq DEF NothingLive, n
    <3>10. late < MaxLate => /\ Len(toDevice') = 1
                             /\ \A i \in 1 .. Len(toSender') : ~Live(toSender'[i])
      BY <1>2, <1>5, <3>8, <3>9 DEF NothingLive
    <3>11. InTime'
      <4>1. SUFFICES ASSUME late < MaxLate PROVE InTime'
        BY <1>2 DEF InTime
      <4>2. Len(toDevice') = 1 /\ \A i \in 1 .. Len(toSender') : ~Live(toSender'[i])
        BY <3>10, <4>1
      <4>3. Len(toDevice') <= 1 /\ sndState' # "SENDING_FW" /\ ~(sndAge' > 0)
        BY <1>6, <4>2
      <4> QED
        BY <4>2, <4>3 DEF InTime
    <3> QED
      BY <1>6, <3>2, <3>3, <3>6, <3>7, <3>11 DEF Expected
  <2> QED
    BY <2>6, <2>7
<1> QED
  BY <1>1, <1>11, <1>12

-----------------------------------------------------------------------------
(* The link: the device answers                                            *)

\* The announcement arrives.
LEMMA StartArrives ==
  ASSUME LinkSound, toDevice # << >>, Head(toDevice) = Announcement, NEW reply \in UploadReplies,
         HandleMessage(Head(toDevice), FALSE, reply), Respond(reply), toDevice' = Tail(toDevice),
         UNCHANGED <<sndVars, late>>
  PROVE  LinkSound'
<1> USE DEF sndVars
<1>1. /\ LinkTypes /\ StartOnce /\ toDevice \in Seq(Requests) /\ toSender \in Seq(UploadReplies)
  BY DEF LinkSound, LinkTypes
<1>2. 1 \in 1 .. Len(toDevice) /\ toDevice[1] = Announcement
  BY <1>1, TailFacts
<1>3. /\ sndState = "WAIT_START_ACK" /\ Len(toDevice) = 1 /\ ~Receiving /\ ~Delivered
      /\ pieceNumber = 0
  BY <1>1, <1>2 DEF StartOnce
<1>4. /\ toDevice' \in Seq(Requests) /\ toDevice' = << >> /\ Len(toDevice') <= 1
      /\ \A i \in 1 .. Len(toDevice') : FALSE
  <2>1. toDevice' \in Seq(Requests) /\ Len(toDevice') = 0
    BY <1>1, <1>3, TailFacts
  <2>2. Len(toDevice') <= 1 /\ \A i \in 1 .. Len(toDevice') : FALSE
    BY <2>1
  <2> QED
    BY <2>1, <2>2, EmptySeq
<1>5. /\ DeviceSound' /\ KeepsDelivered /\ ~NamesPiece(reply)
      /\ uploadState' = "STORING" => nextPiece' = 0
  BY <1>3, StartDevice DEF LinkSound
<1>6. ~Delivered'
  BY <1>3, <1>5 DEF KeepsDelivered
<1>7. Expected /\ \A i \in 1 .. Len(toSender) : ~Acks(toSender[i])
  BY <1>2, <1>3 DEF LinkSound, Expected, OneAck
<1>8. /\ toSender' \in Seq(UploadReplies)
      /\ \/ toSender' = toSender
         \/ /\ Len(toSender') = Len(toSender) + 1 /\ toSender'[Len(toSender) + 1] = reply
            /\ \A i \in 1 .. Len(toSender) : toSender'[i] = toSender[i]
      /\ Len(toSender) \in Nat
  BY <1>1, AppendFacts, LenProperties DEF Respond
<1>9. \A i \in 1 .. Len(toSender') :
        \/ i \in 1 .. Len(toSender) /\ toSender'[i] = toSender[i]
        \/ i = Len(toSender) + 1
  BY <1>8
<1>10. LinkTypes'
  BY <1>1, <1>4, <1>8 DEF LinkTypes
<1>11. StartOnce'
  BY <1>3, <1>4, Zenon DEF StartOnce
<1>12. InStep' /\ Repeated' /\ SentOnce'
  BY <1>3, <1>5 DEF InStep, Repeated, SentOnce
<1>13. \A i \in 1 .. Len(toSender') : Acks(toSender'[i]) => i = Len(toSender) + 1
  BY <1>7, <1>9
<1>14. OneAck'
  BY <1>3, <1>4, <1>5, <1>13, Zenon DEF OneAck
<1>15. InTime'
  <2>1. SUFFICES ASSUME late < MaxLate PROVE InTime'
    BY DEF InTime
  <2>2. \A i \in 1 .. Len(toSender) : ~Live(toSender[i])
    BY <1>7, <2>1 DEF Expected, InTime
  <2>3. \A i \in 1 .. Len(toSender') : Live(toSender'[i]) => i = Len(toSender) + 1
    BY <1>9, <2>2
  <2> QED
    BY <1>3, <1>4, <2>3 DEF InTime
<1> QED
  BY <1>3, <1>5, <1>10, <1>11, <1>12, <1>14, <1>15 DEF LinkSound, Expected

\* A piece arrives.  An acknowledgement is for the piece on the wire; a refusal
\* that names the number is, while a repeat is on the wire, for one that is
\* stored, and otherwise for the one late message.
LEMMA PieceArrives ==
  ASSUME LinkSound, toDevice # << >>, Head(toDevice).kind = "piece", NEW reply \in UploadReplies,
         HandleMessage(Head(toDevice), FALSE, reply), Respond(reply), toDevice' = Tail(toDevice),
         UNCHANGED <<sndVars, late>>
  PROVE  LinkSound'
<1> USE DEF sndVars
<1> DEFINE m == Head(toDevice)
           n == Len(toSender)
<1>1. /\ LinkTypes /\ StartOnce /\ toDevice \in Seq(Requests) /\ toSender \in Seq(UploadReplies)
      /\ pieceNumber \in Nat
  BY DEF LinkSound, LinkTypes
<1>2. /\ 1 \in 1 .. Len(toDevice) /\ m = toDevice[1] /\ m \in Requests
      /\ toDevice' \in Seq(Requests) /\ Thinned(toDevice', toDevice)
      /\ Len(toDevice) \in Nat /\ Len(toDevice') = Len(toDevice) - 1
      /\ \A i \in 1 .. Len(toDevice') : i + 1 \in 1 .. Len(toDevice) /\ toDevice'[i] = toDevice[i + 1]
  BY <1>1, TailFacts, ThinnedTail
<1>3. DeviceSound' /\ KeepsDelivered /\ PieceEffect(m, reply)
  BY <1>2, PieceDevice DEF LinkSound
<1> HIDE DEF m
<1>4. m.number \in Nat /\ m.number < pieceNumber
  BY <1>1, <1>2, RequestFacts DEF LinkTypes, m
<1>5. /\ toSender' \in Seq(UploadReplies) /\ n \in Nat
      /\ \/ toSender' = toSender
         \/ /\ Len(toSender') = n + 1 /\ toSender'[n + 1] = reply
            /\ \A i \in 1 .. n : toSender'[i] = toSender[i]
      /\ toSender' = toSender \/ toSender' = Append(toSender, reply)
  BY <1>1, AppendFacts, LenProperties DEF Respond
<1>6. \A i \in 1 .. Len(toSender') :
        \/ i \in 1 .. n /\ toSender'[i] = toSender[i]
        \/ i = n + 1 /\ toSender'[i] = reply
  BY <1>5
<1>7. LinkTypes' /\ StartOnce'
  BY <1>1, <1>2, <1>3, <1>5, FewerTypes DEF PieceEffect
<1>8. CASE Delivered
  BY <1>3, <1>7, <1>8 DEF LinkSound, KeepsDelivered
<1>9. CASE ~Delivered /\ ~Live(reply)
  <2>1. DeviceCalm
    BY <1>3, <1>9 DEF PieceEffect, Live
  <2>2. LiveThinned(toSender', toSender)
    BY <1>1, <1>5, <1>9, ThinnedSame, ThinnedLive, LiveThinnedAppend
  <2> QED
    BY <1>2, <1>3, <1>5, <2>1, <2>2, FewerSound
<1>10. CASE ~Delivered /\ Live(reply)
  <2> SUFFICES Expected'
    BY <1>3, <1>7, <1>10 DEF LinkSound
  <2>1. /\ Expected /\ uploadState = "STORING" /\ nextPiece \in Nat
    BY <1>3, <1>10 DEF LinkSound, DeviceSound, PieceEffect, Live
  <2>2. sndState # "IDLE"
    BY <1>1 DEF StartOnce
  <2>3. \A i \in 1 .. Len(toDevice') : toDevice'[i] # Announcement
    <3>1. \A i \in 1 .. Len(toDevice) : toDevice[i] # Announcement
      BY <1>1, <2>1 DEF StartOnce, Receiving
    <3> QED
      BY <1>2, <3>1
  <2>4. \A i, j \in 1 .. Len(toDevice') : i + 1 = j + 1 => i = j
    BY <1>2
  <2>5. InTime'
    <3>1. SUFFICES ASSUME late < MaxLate PROVE InTime'
      BY DEF InTime
    <3>2. /\ Len(toDevice) <= 1 /\ \A i \in 1 .. n : ~Live(toSender[i])
          /\ ~(sndState = "SENDING_FW" \/ (sndState = "WAIT_PIECE_ACK" /\ sndAge > 0))
      BY <2>1, <3>1 DEF Expected, InTime, NothingLive
    <3>3. Len(toDevice') <= 1 /\ toDevice' = << >>
      BY <1>2, <3>2, EmptySeq
    <3>4. \A i \in 1 .. Len(toSender') : Live(toSender'[i]) => i = n + 1
      BY <1>6, <3>2
    <3> QED
      BY <3>2, <3>3, <3>4 DEF InTime
  <2>6. CASE Acks(reply)
    <3>1. /\ m.number = nextPiece /\ ~NamesPiece(reply)
          /\ uploadState' = "STORING" => nextPiece' = nextPiece + 1
      BY <1>3, <2>6 DEF PieceEffect, NamesPiece, Acks
    <3>2. sndState = "WAIT_PIECE_ACK" /\ nextPiece = pieceNumber - 1
      BY <1>1, <1>4, <2>1, <3>1 DEF Expected, InStep
    <3>3. uploadState' = "STORING" => nextPiece' = pieceNumber
      BY <1>1, <3>1, <3>2
    <3>4. nextPiece # pieceNumber
      BY <1>1, <3>2
    <3>5. InStep'
      BY <3>3 DEF InStep
    <3>6. \A i \in 1 .. n : ~Acks(toSender[i])
      BY <2>1, <3>4 DEF Expected, OneAck
    <3>7. OneAck'
      <4>1. \A i \in 1 .. Len(toSender') : Acks(toSender'[i]) => i = n + 1
        BY <1>6, <3>6
      <4> QED
        BY <2>3, <3>2, <3>3, <4>1 DEF OneAck
    <3>8. Repeated'
      <4>1. SUFFICES ASSUME Resent PROVE Repeated'
        BY DEF Repeated, Resent
      <4>2. /\ \A i \in 1 .. Len(toDevice) : toDevice[i].number = pieceNumber - 1
            /\ \A i \in 1 .. n : ~NamesPiece(toSender[i])
        BY <2>1, <3>2, <3>4, <4>1 DEF Expected, Repeated
      <4>3. \A i \in 1 .. Len(toSender') : ~NamesPiece(toSender'[i])
        BY <1>6, <3>1, <4>2
      <4> QED
        BY <1>2, <4>2, <4>3 DEF Repeated
    <3>9. SentOnce'
      <4>1. SUFFICES ASSUME ~Resent PROVE SentOnce'
        BY DEF SentOnce, Resent
      <4>2. /\ \A i, j \in 1 .. Len(toDevice) :
                 toDevice[i].number = pieceNumber - 1 /\ toDevice[j].number = pieceNumber - 1 => i = j
            /\ Stale => late = MaxLate /\ sndAge = 0
        BY <2>1, <3>2, <4>1 DEF Expected, SentOnce
      <4>3. ASSUME NEW i \in 1 .. Len(toDevice'), toDevice'[i].number = pieceNumber - 1
            PROVE  FALSE
        <5>1. i + 1 = 1
          BY <1>2, <3>1, <3>2, <4>2, <4>3
        <5> QED
          BY <1>2, <5>1
      <4>4. Stale' => Stale
        BY <1>2, <1>6, <3>1 DEF Stale
      <4> QED
        BY <4>2, <4>3, <4>4 DEF SentOnce
    <3> QED
      BY <2>2, <2>5, <3>5, <3>7, <3>8, <3>9 DEF Expected
  <2>7. CASE ~Acks(reply)
    <3>1. NamesPiece(reply)
      BY <1>10, <2>7 DEF Live
    <3>2. m.number # nextPiece /\ (uploadState' = "STORING" => nextPiece' = nextPiece)
      BY <1>3, <2>7, <3>1 DEF PieceEffect, DeviceCalm
    <3>3. InStep'
      BY <2>1, <3>2 DEF Expected, InStep
    <3>4. OneAck'
      <4>1. \A i \in 1 .. Len(toSender') : Acks(toSender'[i]) =>
              i \in 1 .. n /\ Acks(toSender[i])
        BY <1>6, <2>7
      <4> QED
        BY <2>1, <2>3, <3>2, <4>1 DEF Expected, OneAck
    <3>5. Repeated'
      <4>1. SUFFICES ASSUME sndState = "WAIT_PIECE_ACK", Resent PROVE Repeated'
        BY DEF Repeated, Resent
      <4>2. /\ \A i \in 1 .. Len(toDevice) : toDevice[i].number = pieceNumber - 1
            /\ \A i \in 1 .. n : NamesPiece(toSender[i]) =>
                 \A j \in 1 .. n : j > i => ~Acks(toSender[j])
        BY <2>1, <4>1 DEF Expected, Repeated
      <4>3. nextPiece = pieceNumber
        BY <1>2, <2>1, <3>2, <4>2 DEF Expected, InStep
      <4>4. ASSUME NEW i \in 1 .. Len(toSender'), NEW j \in 1 .. Len(toSender'), j > i,
                   NamesPiece(toSender'[i]), Acks(toSender'[j])
            PROVE  FALSE
        <5>1. j \in 1 .. n /\ toSender'[j] = toSender[j]
          BY <1>6, <2>7, <4>4
        <5>2. i \in 1 .. n /\ toSender'[i] = toSender[i]
          BY <1>5, <1>6, <4>4, <5>1
        <5> QED
          BY <4>2, <4>4, <5>1, <5>2
      <4> QED
        BY <1>2, <3>2, <4>2, <4>3, <4>4 DEF Repeated
    <3>6. SentOnce'
      <4>1. SUFFICES ASSUME sndState = "WAIT_PIECE_ACK", ~Resent PROVE SentOnce'
        BY DEF SentOnce, Resent
      <4>2. /\ \A i, j \in 1 .. Len(toDevice) :
                 toDevice[i].number = pieceNumber - 1 /\ toDevice[j].number = pieceNumber - 1 => i = j
            /\ \A i \in 1 .. Len(toDevice) :
                 toDevice[i].number = pieceNumber - 1 => nextPiece = pieceNumber - 1
            /\ Stale => late = MaxLate /\ sndAge = 0
        BY <2>1, <4>1 DEF Expected, SentOnce
      <4>3. Stale
        BY <1>2, <3>2, <4>2 DEF Stale
      <4>4. \A i, j \in 1 .. Len(toDevice') :
              toDevice'[i].number = pieceNumber - 1 /\ toDevice'[j].number = pieceNumber - 1 => i = j
        BY <1>2, <2>4, <4>2
      <4>5. \A i \in 1 .. Len(toDevice') :
              toDevice'[i].number = pieceNumber - 1 => nextPiece = pieceNumber - 1
        BY <1>2, <4>2
      <4> QED
        BY <3>2, <4>2, <4>3, <4>4, <4>5 DEF SentOnce
    <3> QED
      BY <2>2, <2>5, <3>3, <3>4, <3>5, <3>6 DEF Expected
  <2> QED
    BY <2>6, <2>7
<1> QED
  BY <1>8, <1>9, <1>10

LEMMA DeviceReceivesSound ==
  ASSUME LinkSound, DeviceReceives
  PROVE  LinkSound'
<1>1. PICK reply \in UploadReplies :
        HandleMessage(Head(toDevice), FALSE, reply) /\ Respond(reply)
  BY DEF DeviceReceives
<1>2. /\ toDevice # << >> /\ toDevice' = Tail(toDevice) /\ UNCHANGED <<sndVars, late>>
      /\ Head(toDevice) \in Requests
  BY TailFacts DEF DeviceReceives, LinkSound, LinkTypes
<1>3. Head(toDevice) = Announcement \/ Head(toDevice).kind = "piece"
  BY <1>2, RequestFacts
<1> QED
  BY <1>1, <1>2, <1>3, StartArrives, PieceArrives

-----------------------------------------------------------------------------
(* The result                                                              *)

LEMMA InitLinkInv == Init => LinkInv
<1> SUFFICES ASSUME Init PROVE LinkSound
  BY DEF LinkInv
<1>1. /\ UploadInit /\ sndState = "IDLE" /\ pieceNumber = 0 /\ lastPiece = {} /\ resentPiece = {}
      /\ sndAge = 0 /\ ended = FALSE /\ toDevice = << >> /\ toSender = << >> /\ late = 0
  BY DEF Init, SenderInit
<1>2. ~Delivered /\ ~Receiving /\ uploadState = "IDLE" /\ verdict = "none"
  BY <1>1, LinkFacts DEF UploadInit, UploadMemoryInit, Delivered, Receiving, Accepted
<1>3. DeviceSound
  BY <1>1, <1>2, NoFileFacts DEF UploadInit, UploadMemoryInit, DeviceSound
<1>4. /\ toDevice \in Seq(Requests) /\ toSender \in Seq(UploadReplies)
      /\ Len(toDevice) = 0 /\ Len(toSender) = 0
  BY <1>1, EmptySeq
<1>5. LinkTypes /\ StartOnce
  BY <1>1, <1>2, <1>4, LinkFacts DEF LinkTypes, StartOnce
<1>6. NothingLive
  BY <1>1, <1>4 DEF NothingLive
<1>7. Expected
  BY <1>1, <1>2, <1>4, <1>6 DEF Expected, InStep, OneAck, Repeated, SentOnce, InTime
<1> QED
  BY <1>1, <1>3, <1>5, <1>7 DEF LinkSound

\* The tool never leaves the error state.
LEMMA ErrorStays ==
  ASSUME sndState = "ERROR", [Next]_vars
  PROVE  sndState' = "ERROR"
BY DEF Next, vars, Connects, AnswerArrives, Publishes, Concludes, DeviceReceives, DevicePass,
       DeviceRestarts, MessageLost, Tick, sndVars, SenderStart, SenderRefused, SenderReceives,
       ConfirmsPiece, SenderSends, SenderRepeats, Overdue, MayRepeat, Waiting, SenderGivesUp,
       SenderEnds

LEMMA NextLinkInv ==
  ASSUME MaxLate <= 1, LinkInv, [Next]_vars
  PROVE  LinkInv'
<1>1. CASE sndState = "ERROR"
  BY <1>1, ErrorStays DEF LinkInv
<1>2. CASE LinkSound /\ sndState' # "ERROR"
  <2>1. CASE UNCHANGED vars
    <3>1. /\ UNCHANGED <<sndVars, late, toDevice, toSender>>
          /\ DeviceSound' /\ DeviceCalm /\ KeepsDelivered
      BY <1>2, <2>1, SameDevice DEF vars, linkVars, LinkSound
    <3>2. toDevice \in Seq(Requests) /\ toSender \in Seq(UploadReplies)
      BY <1>2 DEF LinkSound, LinkTypes
    <3> QED
      BY <1>2, <3>1, <3>2, ThinnedSame, ThinnedLive, FewerSound DEF LinkInv
  <2> QED
    BY <1>2, <2>1, ConnectsSound, AnswerArrivesSound, PublishesSound, ConcludesSound,
       DeviceReceivesSound, DevicePassSound, DeviceRestartsSound, MessageLostSound, TickSound
       DEF Next, LinkInv
<1> QED
  BY <1>1, <1>2 DEF LinkInv

\* While at most one answer comes late, the tool reports success only for a
\* file the device has stored, whatever is lost, repeated or refused, however
\* often the device restarts and whichever of its storage's steps fail
\* (_process_response, _send_piece, storeBase64, runValidityCheck).  Answers
\* carry no piece number, so with a second late answer it fails.
THEOREM DoneAlwaysStored ==
  ASSUME MaxLate <= 1
  PROVE  Spec => []DoneMeansStored
<1>1. Init => LinkInv
  BY InitLinkInv
<1>2. LinkInv /\ [Next]_vars => LinkInv'
  BY NextLinkInv
<1>3. LinkInv => DoneMeansStored
  BY DEF LinkInv, LinkSound, DoneMeansStored, Delivered
<1> QED
  BY <1>1, <1>2, <1>3, PTL DEF Spec
=============================================================================
