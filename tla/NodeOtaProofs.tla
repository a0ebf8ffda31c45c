---------------------------- MODULE NodeOtaProofs ---------------------------
(***************************************************************************)
(* Proofs about NodeOta, for every size of chip, image, piece and page,    *)
(* every image set, every refusal of the chip except that of a read (see   *)
(* ReadsAnswered), and every behaviour of the bus; and about the node with *)
(* a gateway (CanOtaTransfer): that the two implement a node on an         *)
(* arbitrary bus, and what a transfer published as [OK] means.             *)
(***************************************************************************)
EXTENDS CanOtaTransfer, TLAPS

-----------------------------------------------------------------------------
(* The inductive invariant                                                 *)

Base == flashBlockBeginAddress

\* While a transfer is under way its size and checksum are those of one
\* image, and its region either is the bootloader's or stays clear of the two
\* cells the bootloader looks at.
Declared ==
  /\ otaState \in {"START", "STORE", "CHECK", "VALID"} =>
       \E img \in Images : fwSize = Len(img) /\ fwCrc = Crc(img)
  /\ Base = 0 \/ Base >= HeaderSize

\* From the end of the erase to the verdict nothing but the body of the image
\* is programmed.
ErasedOutside ==
  otaState \in {"START", "STORE", "CHECK", "INVALID"} /\ ~erasing =>
    \A a \in Addr : a < Base + HeaderSize \/ a >= Base + fwSize => flash[a] = Erased

\* While pieces arrive, nothing from the pointer on is programmed.
ErasedAhead ==
  otaState = "STORE" \/ (otaState = "START" /\ ~erasing) =>
    \A a \in Addr : a >= Base + flashPointer => flash[a] = Erased

\* The chip is ready from STORE on.
Ready == otaState \in {"STORE", "CHECK", "VALID"} => ~erasing

\* The check has fed what it passed, or less of it when a late piece moved the
\* pointer; only in the first case can it reach the length of the image.
FedMatches ==
  otaState = "CHECK" =>
    /\ Len(crc16) <= flashPointer
    /\ Len(crc16) = flashPointer =>
         \A i \in 0 .. flashPointer - 1 :
           crc16[i + 1] = IF i < HeaderSize THEN firstFwBytes[i] ELSE flash[Base + i]

StorageInv ==
  /\ OtaTypeOK
  /\ NoTransferTakesNoPiece
  /\ Declared
  /\ ErasedOutside
  /\ ErasedAhead
  /\ Ready
  /\ FedMatches
  /\ BootableImageIsWhole
  /\ ValidMeansStored

-----------------------------------------------------------------------------
(* Facts about the operators                                               *)

\* What the constants are, in the form the proofs use.
LEMMA Constants ==
  /\ HeaderSize = 2 /\ Header = 0 .. 1
  /\ PieceSize \in Nat /\ PieceSize > 0
  /\ Capacity \in Nat /\ BlockSize \in Nat /\ BlockSize >= 2
  /\ ProgramMemorySize \in Nat /\ ProgramMemorySize <= Capacity
  /\ CheckChunkSize \in Nat /\ CheckChunkSize > 0
  /\ StallTimeout \in Nat /\ MaxRxFrames \in Nat
  /\ ZeroByte \in Byte /\ Erased \in Byte
BY ZeroByteAssumption, CellAssumption, FlashAssumption, FrameAssumption, NodeAssumption
   DEF HeaderSize, Header

\* An OTA_START frame declares an image; an OTA_SEND frame carries bytes.
LEMMA FrameFacts ==
  ASSUME NEW f \in NodeFrames
  PROVE  /\ f.cmd = "OTA_START" =>
              /\ f.storage \in Nat
              /\ \E img \in Images : f.size = Len(img) /\ f.crc = Crc(img)
         /\ f.cmd = "OTA_SEND" => f.data \in [0 .. PieceSize - 1 -> Byte]
<1>1. CASE f \in StartFrames
  <2>1. PICK b \in 0 .. (Capacity \div BlockSize), img \in Images :
          f = StartFrame(b, Len(img), Crc(img))
    BY <1>1 DEF StartFrames
  <2>2. b \in Nat
    OBVIOUS
  <2> QED BY <2>1, <2>2 DEF StartFrame
<1>2. CASE f \in SendFrames
  <2>1. PICK q \in 0 .. SeqModulus - 1, d \in Pieces : f = SendFrame(q, d)
    BY <1>2 DEF SendFrames
  <2>2. d \in [0 .. PieceSize - 1 -> Byte]
    BY NodeAssumption
  <2> QED BY <2>1, <2>2 DEF SendFrame
<1>3. CASE f = RestartFrame
  BY <1>3 DEF RestartFrame
<1> QED BY <1>1, <1>2, <1>3 DEF NodeFrames

\* A program changes the cells it covers and leaves bytes in all of them.
LEMMA ProgrammedFacts ==
  ASSUME flash \in [Addr -> Byte],
         NEW addr \in Nat, NEW n \in Nat, NEW data \in [0 .. n - 1 -> Byte]
  PROVE  /\ Programmed(addr, data, n) \in [Addr -> Byte]
         /\ \A a \in Addr : a < addr \/ a >= addr + n =>
              Programmed(addr, data, n)[a] = flash[a]
         /\ \A a \in Addr : addr <= a /\ a < addr + n =>
              Programmed(addr, data, n)[a] = And(flash[a], data[a - addr])
<1>1. \A a \in Addr : a \in Int
  BY Constants DEF Addr
<1>2. \A a \in Addr : addr <= a /\ a < addr + n => a - addr \in 0 .. n - 1
  BY <1>1
<1>3. \A a \in Addr : addr <= a /\ a < addr + n => And(flash[a], data[a - addr]) \in Byte
  BY <1>2, CellAssumption
<1> QED BY <1>1, <1>3 DEF Programmed

\* Where an expected piece goes: it fits what is left of the image, its
\* header part is what lies below HeaderSize, and the rest starts above.
LEMMA PieceFacts ==
  ASSUME OtaTypeOK,
         NEW f, PieceExpected(f), f.data \in [0 .. PieceSize - 1 -> Byte]
  PROVE  /\ PieceLength \in Nat /\ PieceLength > 0 /\ PieceLength <= PieceSize
         /\ flashPointer + PieceLength <= fwSize
         /\ KeptLength \in Nat /\ KeptLength <= PieceLength
         /\ FlashLength \in Nat /\ FlashLength = PieceLength - KeptLength
         /\ FlashAddress \in Nat /\ FlashAddress = Base + flashPointer + KeptLength
         /\ FlashLength > 0 => flashPointer + KeptLength >= HeaderSize
         /\ FlashPart(f) \in [0 .. FlashLength - 1 -> Byte]
         /\ flashPointer < HeaderSize => flashPointer + KeptLength <= HeaderSize
<1>1. /\ fwSize \in Nat /\ flashPointer \in Nat /\ flashPointer < fwSize
      /\ flashBlockBeginAddress \in Nat
  BY Constants DEF OtaTypeOK, PieceExpected
<1>2. PieceLength \in Nat /\ PieceLength > 0 /\ PieceLength <= PieceSize
      /\ flashPointer + PieceLength <= fwSize
  BY <1>1, Constants DEF PieceLength, MinOf
<1>3. /\ KeptLength \in Nat /\ KeptLength <= PieceLength
      /\ PieceLength - KeptLength > 0 => flashPointer + KeptLength >= HeaderSize
      /\ flashPointer < HeaderSize => flashPointer + KeptLength <= HeaderSize
  BY <1>1, <1>2, Constants DEF KeptLength, MinOf
<1>4. FlashLength \in Nat /\ FlashLength = PieceLength - KeptLength
  BY <1>2, <1>3 DEF FlashLength
<1>5. FlashAddress \in Nat /\ FlashAddress = Base + flashPointer + KeptLength
  BY <1>1, <1>3 DEF FlashAddress, Base
<1>6. \A k \in 0 .. FlashLength - 1 : KeptLength + k \in 0 .. PieceSize - 1
  BY <1>2, <1>3, <1>4, Constants
<1>7. FlashPart(f) \in [0 .. FlashLength - 1 -> Byte]
  BY <1>6 DEF FlashPart
<1> QED BY <1>2, <1>3, <1>4, <1>5, <1>7

\* What the closing check reads in a pass: it stays within the image.
LEMMA CheckFacts ==
  ASSUME OtaTypeOK, flashPointer < fwSize, NEW readOk \in BOOLEAN
  PROVE  /\ CheckLength \in Nat /\ CheckLength > 0
         /\ flashPointer + CheckLength <= fwSize
         /\ flashPointer < HeaderSize => CheckLength = 1
         /\ CheckChunk(readOk) \in Seq(Byte)
         /\ Len(CheckChunk(readOk)) = CheckLength
<1>1. /\ fwSize \in Nat /\ flashPointer \in Nat /\ flashBlockBeginAddress \in Nat
      /\ flashBlockBeginAddress + fwSize <= Capacity
  BY Constants DEF OtaTypeOK
<1>2. /\ CheckLength \in Nat /\ CheckLength > 0
      /\ flashPointer + CheckLength <= fwSize
      /\ flashPointer < HeaderSize => CheckLength = 1
  BY <1>1, Constants DEF CheckLength, MinOf
<1>3. \A k \in 1 .. CheckLength : flashBlockBeginAddress + flashPointer + k - 1 \in Addr
  BY <1>1, <1>2, Constants DEF Addr
<1>4. flashPointer < HeaderSize => firstFwBytes[flashPointer] \in Byte
  BY <1>1, Constants DEF OtaTypeOK
<1>5. \A k \in 1 .. CheckLength : flash[flashBlockBeginAddress + flashPointer + k - 1] \in Byte
  BY <1>3 DEF OtaTypeOK, FlashTypeOK
<1>6. CheckChunk(readOk) \in [1 .. CheckLength -> Byte]
  BY <1>4, <1>5, Constants DEF CheckChunk
<1> QED BY <1>2, <1>6

\* Only bytes are kept of the header part of a piece.
LEMMA KeepHeaderFacts ==
  ASSUME OtaTypeOK, NEW f, PieceExpected(f), f.data \in [0 .. PieceSize - 1 -> Byte],
         KeepHeader(f)
  PROVE  firstFwBytes' \in [Header -> Byte]
<1>1. /\ firstFwBytes \in [Header -> Byte] /\ flashPointer \in Nat
  BY Constants DEF OtaTypeOK
<1>2. \A i \in Header : flashPointer <= i /\ i < flashPointer + KeptLength =>
        i - flashPointer \in 0 .. PieceSize - 1
  BY <1>1, PieceFacts, Constants
<1> QED BY <1>1, <1>2 DEF KeepHeader

-----------------------------------------------------------------------------
(* Type correctness                                                        *)

\* An OTA_START that is taken keeps the storage well typed.
LEMMA StartTyped ==
  ASSUME OtaTypeOK, NEW f \in NodeFrames, f.cmd = "OTA_START", OtaStart(f)
  PROVE  OtaTypeOK'
<1>1. /\ f.storage \in Nat
      /\ \E img \in Images : f.size = Len(img) /\ f.crc = Crc(img)
  BY FrameFacts
<1>2. f.size \in Nat /\ f.crc \in CrcValues
  BY <1>1, FrameAssumption DEF CrcValues
<1>3. f.storage * BlockSize \in Nat
  BY <1>1, Constants
<1>4. f.storage * BlockSize + f.size <= Capacity
  BY <1>2, <1>3, Constants DEF OtaStart, RegionFits, ReportedCapacity
<1>5. f.size <= ProgramMemorySize
  BY DEF OtaStart, RegionFits
<1> QED BY <1>2, <1>3, <1>4, <1>5, Constants
        DEF OtaStart, OtaTypeOK, FlashTypeOK, ChipErase, OtaState

\* So does a piece, stored or refused by the chip.
LEMMA StoreTyped ==
  ASSUME OtaTypeOK, NEW f \in NodeFrames, f.cmd = "OTA_SEND",
         StorePiece(f) \/ StorePieceFails(f)
  PROVE  OtaTypeOK'
<1>1. f.data \in [0 .. PieceSize - 1 -> Byte] /\ PieceExpected(f) /\ KeepHeader(f)
  BY FrameFacts DEF StorePiece, StorePieceFails
<1>2. firstFwBytes' \in [Header -> Byte]
  BY <1>1, KeepHeaderFacts
<1>3. flash \in [Addr -> Byte]
  BY DEF OtaTypeOK, FlashTypeOK
<1>4. CASE StorePiece(f)
  <2>1. flash' \in [Addr -> Byte]
    BY <1>1, <1>3, <1>4, PieceFacts, ProgrammedFacts DEF StorePiece
  <2>2. flashPointer' \in 0 .. fwSize'
    BY <1>1, <1>4, PieceFacts DEF StorePiece, OtaTypeOK
  <2> QED BY <1>2, <1>4, <2>1, <2>2, Constants DEF StorePiece, OtaTypeOK, FlashTypeOK
<1>5. CASE StorePieceFails(f)
  <2>1. PICK n \in PartialLengths(FlashAddress, FlashLength) :
          flash' = IF erasing THEN flash ELSE Programmed(FlashAddress, FlashPart(f), n)
    BY <1>5 DEF StorePieceFails
  <2>2. n \in Nat /\ n <= FlashLength
    BY <1>1, PieceFacts DEF PartialLengths
  <2>3. \A a \in Addr : FlashAddress <= a /\ a < FlashAddress + n =>
          And(flash[a], FlashPart(f)[a - FlashAddress]) \in Byte
    <3> SUFFICES ASSUME NEW a \in Addr, FlashAddress <= a, a < FlashAddress + n
                 PROVE  And(flash[a], FlashPart(f)[a - FlashAddress]) \in Byte
      OBVIOUS
    <3>1. a - FlashAddress \in 0 .. FlashLength - 1
      BY <1>1, <2>2, PieceFacts, Constants DEF Addr
    <3>2. FlashPart(f)[a - FlashAddress] \in Byte
      BY <1>1, <3>1, PieceFacts
    <3> QED BY <1>3, <3>2, CellAssumption
  <2>4. flash' \in [Addr -> Byte]
    BY <1>3, <2>1, <2>3 DEF Programmed
  <2>5. flashPointer' \in 0 .. fwSize'
    BY <1>1, <1>5, PieceFacts, SMTT(30) DEF StorePieceFails, OtaTypeOK
  <2> QED BY <1>2, <1>5, <2>4, <2>5, Constants
          DEF StorePieceFails, OtaTypeOK, FlashTypeOK, OtaState
<1> QED BY <1>4, <1>5

\* The erase of the clean-up was issued or refused: the cells are as before.
LEMMA InvalidErases ==
  ASSUME OtaTypeOK, RunInvalid
  PROVE  flash' = flash /\ erasing' \in BOOLEAN /\ (erasing => erasing')
<1>1. PICK eraseOk \in Answers("erase") :
        IF eraseOk THEN ChipErase ELSE UNCHANGED flashVars
  BY DEF RunInvalid
<1>2. CASE eraseOk
  <2>1. ChipErase
    BY <1>1, <1>2, Zenon
  <2> QED BY <2>1 DEF ChipErase
<1>3. CASE ~eraseOk
  <2>1. UNCHANGED flashVars
    BY <1>1, <1>3, Zenon
  <2> QED BY <2>1 DEF flashVars, OtaTypeOK, FlashTypeOK
<1> QED BY <1>2, <1>3

\* So does every pass of OTA::run.
LEMMA RunTyped ==
  ASSUME OtaTypeOK, OtaRun
  PROVE  OtaTypeOK'
<1> USE Constants
<1>1. CASE RunStalled
  BY <1>1 DEF RunStalled, OtaTypeOK, FlashTypeOK, flashVars, OtaState
<1>2. CASE RunIdle
  BY <1>2 DEF RunIdle, OtaTypeOK, FlashTypeOK, flashVars, otaVars
<1>3. CASE RunStart
  BY <1>3 DEF RunStart, OtaTypeOK, FlashTypeOK, flashVars, OtaState
<1>4. CASE RunStore
  BY <1>4 DEF RunStore, OtaTypeOK, FlashTypeOK, flashVars, OtaState
<1>5. CASE RunCheckChunk
  <2>1. PICK readOk \in Answers("read") : crc16' = crc16 \o CheckChunk(readOk)
    BY <1>5 DEF RunCheckChunk
  <2>2. readOk \in BOOLEAN /\ flashPointer < fwSize
    BY <1>5 DEF Answers, RunCheckChunk
  <2>3. crc16' \in Seq(Byte)
    BY <2>1, <2>2, CheckFacts DEF OtaTypeOK
  <2>4. flashPointer' \in 0 .. fwSize'
    BY <1>5, <2>2, CheckFacts DEF OtaTypeOK, RunCheckChunk
  <2> QED BY <1>5, <2>3, <2>4 DEF RunCheckChunk, OtaTypeOK, FlashTypeOK, flashVars
<1>6. CASE RunFinishCheck
  <2>1. crc16' \in Seq(Byte)
    <3>1. CASE crc16' = crc16
      BY <3>1 DEF OtaTypeOK
    <3>2. CASE /\ flashPointer < fwSize
               /\ \E readOk \in Answers("read") : crc16' = crc16 \o CheckChunk(readOk)
      <4>1. PICK readOk \in BOOLEAN : crc16' = crc16 \o CheckChunk(readOk)
        BY <3>2 DEF Answers
      <4> QED BY <3>2, <4>1, CheckFacts DEF OtaTypeOK
    <3> QED BY <1>6, <3>1, <3>2 DEF RunFinishCheck
  <2>2. Programmed(flashBlockBeginAddress, firstFwBytes, HeaderSize) \in [Addr -> Byte]
    <3>1. /\ flash \in [Addr -> Byte] /\ flashBlockBeginAddress \in Nat
          /\ firstFwBytes \in [0 .. HeaderSize - 1 -> Byte] /\ HeaderSize \in Nat
      BY DEF OtaTypeOK, FlashTypeOK
    <3> QED BY <3>1, ProgrammedFacts
  <2>3. flash' \in [Addr -> Byte] /\ otaState' \in OtaState
    BY <1>6, <2>2 DEF RunFinishCheck, FinishCheck, OtaTypeOK, FlashTypeOK, OtaState
  <2> QED BY <1>6, <2>1, <2>3 DEF RunFinishCheck, OtaTypeOK, FlashTypeOK
<1>7. CASE RunValid
  BY <1>7 DEF RunValid, OtaTypeOK, FlashTypeOK, flashVars, OtaState
<1>8. CASE RunInvalid
  <2>1. flash' = flash /\ erasing' \in BOOLEAN
    BY <1>8, InvalidErases
  <2> QED BY <1>8, <2>1 DEF RunInvalid, OtaTypeOK, FlashTypeOK, OtaState
<1> QED BY <1>1, <1>2, <1>3, <1>4, <1>5, <1>6, <1>7, <1>8 DEF OtaRun

\* A start-up leaves the storage as a fresh object does, and the cells alone.
LEMMA BootTyped ==
  ASSUME OtaTypeOK, NodeBoot
  PROVE  OtaTypeOK'
BY Constants DEF NodeBoot, OtaTypeOK, FlashTypeOK, flashVars, OtaState

\* Every step of the node keeps the type invariant.
LEMMA NodeTyped ==
  ASSUME NodeTypeOK, [NodeNext]_nodeVars
  PROVE  NodeTypeOK'
<1> USE Constants
<1>1. ASSUME NEW f \in NodeFrames, NEW reply, HandleRxFrame(f, reply)
      PROVE  NodeTypeOK'
  <2>1. OtaTypeOK'
    <3>1. CASE f.cmd = "OTA_START" /\ OtaStart(f)
      BY <3>1, StartTyped DEF NodeTypeOK
    <3>2. CASE f.cmd = "OTA_SEND" /\ (StorePiece(f) \/ StorePieceFails(f))
      BY <3>2, StoreTyped DEF NodeTypeOK
    <3>3. CASE UNCHANGED <<flashVars, otaVars>>
      BY <3>3 DEF NodeTypeOK, OtaTypeOK, FlashTypeOK, flashVars, otaVars
    <3> QED BY <1>1, <3>1, <3>2, <3>3 DEF HandleRxFrame, OtaStartRefused, StorePieceRefused
  <2>2. nodeUp' = nodeUp \/ nodeUp' = FALSE
    BY <1>1, Zenon DEF HandleRxFrame
  <2>3. rxBudget > 0 /\ rxBudget' = rxBudget - 1
    BY <1>1, Zenon DEF HandleRxFrame
  <2>4. rxBudget' \in 0 .. MaxRxFrames
    BY <2>3 DEF NodeTypeOK
  <2>5. lastOtaState' = lastOtaState /\ program' = program
    BY <1>1, Zenon DEF HandleRxFrame
  <2> QED BY <2>1, <2>2, <2>4, <2>5 DEF NodeTypeOK
<1>2. ASSUME NEW reply, OtaPass(reply)
      PROVE  NodeTypeOK'
  <2>1. OtaTypeOK'
    BY <1>2, RunTyped DEF NodeTypeOK, OtaPass
  <2>2. nodeUp' \in BOOLEAN
    <3>1. nodeUp' = ~(otaState' = "VALID" /\ IsOwnFw')
      BY <1>2, Zenon DEF OtaPass
    <3> QED BY <3>1, Zenon
  <2>3. lastOtaState' = otaState' /\ rxBudget' = MaxRxFrames /\ program' = program
    BY <1>2, Zenon DEF OtaPass
  <2>4. rxBudget' \in 0 .. MaxRxFrames /\ lastOtaState' \in OtaState
    BY <2>1, <2>3 DEF OtaTypeOK
  <2> QED BY <2>1, <2>2, <2>3, <2>4, Zenon DEF NodeTypeOK
<1>3. CASE NodeReset
  BY <1>3 DEF NodeReset, NodeTypeOK, OtaTypeOK, FlashTypeOK, flashVars, otaVars
<1>4. CASE NodeBoot
  <2>1. OtaTypeOK'
    BY <1>4, BootTyped DEF NodeTypeOK
  <2>2. BootImage \in Program
    BY DEF BootImage, Program, NodeTypeOK, OtaTypeOK, FlashTypeOK, Addr
  <2> QED BY <1>4, <2>1, <2>2 DEF NodeBoot, NodeTypeOK, OtaState
<1>5. CASE FlashStep
  BY <1>5 DEF FlashStep, EraseDone, NodeTypeOK, OtaTypeOK, FlashTypeOK, otaVars
<1>6. CASE NodeTick
  BY <1>6 DEF NodeTick, MinOf, NodeTypeOK, OtaTypeOK, FlashTypeOK, flashVars
<1>7. CASE UNCHANGED nodeVars
  BY <1>7 DEF nodeVars, NodeTypeOK, OtaTypeOK, FlashTypeOK, flashVars, otaVars
<1> QED BY <1>1, <1>2, <1>3, <1>4, <1>5, <1>6, <1>7, Zenon DEF NodeNext, NodeStep

\* A freshly started node is well typed.
LEMMA InitTyped == NodeInit => NodeTypeOK
<1> SUFFICES ASSUME NodeInit PROVE NodeTypeOK
  OBVIOUS
<1> USE Constants
<1>1. FlashTypeOK
  BY DEF NodeInit, FlashTypeOK
<1>2. OtaTypeOK
  BY <1>1 DEF NodeInit, OtaTypeOK, OtaState
<1> QED BY <1>2, NodeAssumption DEF NodeInit, NodeTypeOK, OtaState

\* Type correctness of the node on any bus: in particular the pointer of
\* storeNextData never passes the declared size and no access leaves the chip.
THEOREM NodeTypeCorrect == NodeSpec => []NodeTypeOK
BY InitTyped, NodeTyped, PTL DEF NodeSpec

-----------------------------------------------------------------------------
(* The storage invariant                                                   *)

\* The chip answers every read once it has no erase under way.  Without it
\* the closing check may take a refused block for one of zeros.
ReadsAnswered == "read" \notin FlashFaults

\* A step that leaves the storage alone, but for the stall timer, keeps all
\* the parts of the invariant.
LEMMA StorageKept ==
  ASSUME StorageInv, OtaTypeOK',
         UNCHANGED <<flash, erasing, otaState, firstFwBytes, fwSize, fwCrc,
                     flashPointer, flashBlockBeginAddress, crc16>>
  PROVE  StorageInv'
BY DEF StorageInv, NoTransferTakesNoPiece, Declared, ErasedOutside, ErasedAhead, Ready,
       FedMatches, BootableImageIsWhole, Bootable, BootImage, ValidMeansStored, Holds, Base

\* What the bootloader sees depends on the cells alone.
LEMMA BootableKept ==
  ASSUME BootableImageIsWhole, flash' = flash
  PROVE  BootableImageIsWhole'
BY DEF BootableImageIsWhole, Bootable, BootImage

\* An OTA_START keeps the storage invariant: what it starts from is erased or
\* about to be.
LEMMA StartKeeps ==
  ASSUME StorageInv, NEW f \in NodeFrames, f.cmd = "OTA_START", OtaStart(f)
  PROVE  StorageInv'
<1>1. OtaTypeOK'
  BY StartTyped DEF StorageInv
<1>2. /\ otaState' = "START" /\ erasing' = TRUE /\ flash' = flash
      /\ fwSize' = f.size /\ fwCrc' = f.crc
      /\ flashBlockBeginAddress' = f.storage * BlockSize
  BY DEF OtaStart, ChipErase
<1>3. Declared'
  <2>1. \E img \in Images : fwSize' = Len(img) /\ fwCrc' = Crc(img)
    BY <1>2, FrameFacts
  <2>2. f.storage \in Nat
    BY FrameFacts
  <2>3. f.storage * BlockSize = 0 \/ f.storage * BlockSize >= 2
    <3>1. CASE f.storage = 0
      BY <3>1, Constants
    <3>2. CASE f.storage >= 1
      <4>1. f.storage * BlockSize >= 1 * BlockSize
        BY <2>2, <3>2, Constants
      <4> QED BY <2>2, <4>1, Constants
    <3> QED BY <2>2, <3>1, <3>2
  <2> QED BY <1>2, <2>1, <2>3, Constants DEF Declared, Base
<1>4. BootableImageIsWhole'
  BY <1>2, BootableKept DEF StorageInv
<1> QED BY <1>1, <1>2, <1>3, <1>4
        DEF StorageInv, NoTransferTakesNoPiece, ErasedOutside, ErasedAhead, Ready,
            FedMatches, ValidMeansStored

\* Which cells a piece can change, taken or refused by the chip: those of the
\* body between the old pointer and the end of the piece, and none during an
\* erase.  And a piece is only looked at while a transfer is under way.
LEMMA StoreCells ==
  ASSUME StorageInv, NEW f \in NodeFrames, f.cmd = "OTA_SEND",
         StorePiece(f) \/ StorePieceFails(f)
  PROVE  /\ otaState \in {"START", "STORE", "CHECK", "INVALID"}
         /\ erasing => flash' = flash
         /\ \A a \in Addr : a < Base + HeaderSize => flash'[a] = flash[a]
         /\ \A a \in Addr : a >= Base + flashPointer + PieceLength => flash'[a] = flash[a]
<1>1. /\ OtaTypeOK /\ NoTransferTakesNoPiece
      /\ PieceExpected(f) /\ f.data \in [0 .. PieceSize - 1 -> Byte]
  BY FrameFacts DEF StorageInv, StorePiece, StorePieceFails
<1>2. /\ flash \in [Addr -> Byte] /\ fwSize \in Nat /\ flashPointer \in Nat
      /\ Base \in Nat /\ otaState \in OtaState
  BY <1>1, Constants DEF OtaTypeOK, FlashTypeOK, Base
<1>3. otaState \in {"START", "STORE", "CHECK", "INVALID"}
  BY <1>1, <1>2 DEF NoTransferTakesNoPiece, PieceExpected, OtaState
<1>4. \E n \in Nat : n <= FlashLength /\ flash' \in {flash, Programmed(FlashAddress, FlashPart(f), n)}
  <2>1. CASE StorePiece(f)
    BY <1>1, <2>1, PieceFacts DEF StorePiece
  <2>2. CASE StorePieceFails(f)
    <3>1. PICK n \in PartialLengths(FlashAddress, FlashLength) :
            flash' = IF erasing THEN flash ELSE Programmed(FlashAddress, FlashPart(f), n)
      BY <2>2 DEF StorePieceFails
    <3>2. n \in Nat /\ n <= FlashLength
      BY <1>1, PieceFacts DEF PartialLengths
    <3>3. flash' \in {flash, Programmed(FlashAddress, FlashPart(f), n)}
      BY <3>1
    <3> QED BY <3>2, <3>3
  <2> QED BY <2>1, <2>2
<1>5. PICK n \in Nat :
        n <= FlashLength /\ flash' \in {flash, Programmed(FlashAddress, FlashPart(f), n)}
  BY <1>4
<1>6. \A a \in Addr : a < FlashAddress \/ a >= FlashAddress + n =>
        Programmed(FlashAddress, FlashPart(f), n)[a] = flash[a]
  <2> SUFFICES ASSUME NEW a \in Addr, a < FlashAddress \/ a >= FlashAddress + n
               PROVE  Programmed(FlashAddress, FlashPart(f), n)[a] = flash[a]
    OBVIOUS
  <2>1. a \in Int /\ FlashAddress \in Nat
    BY <1>1, PieceFacts, Constants DEF Addr
  <2>2. ~(FlashAddress <= a /\ a < FlashAddress + n)
    BY <2>1
  <2> QED BY <2>2 DEF Programmed
<1>7. \A a \in Addr : (a < Base + HeaderSize \/ a >= Base + flashPointer + PieceLength)
                        => flash'[a] = flash[a]
  <2> SUFFICES ASSUME NEW a \in Addr,
                      a < Base + HeaderSize \/ a >= Base + flashPointer + PieceLength
               PROVE  flash'[a] = flash[a]
    OBVIOUS
  <2>1. a \in Int
    BY Constants DEF Addr
  <2>2. CASE n = 0
    <3>1. a < FlashAddress \/ a >= FlashAddress + n
      BY <1>1, <2>1, <2>2, PieceFacts
    <3> QED BY <1>5, <1>6, <3>1
  <2>3. CASE n > 0
    <3>1. /\ FlashLength \in Nat /\ FlashLength = PieceLength - KeptLength
          /\ PieceLength \in Nat /\ KeptLength \in Nat
          /\ FlashAddress = Base + flashPointer + KeptLength
          /\ FlashLength > 0 => flashPointer + KeptLength >= HeaderSize
      BY <1>1, PieceFacts
    <3>2. flashPointer + KeptLength >= HeaderSize
      BY <1>5, <2>3, <3>1
    <3>3. a < FlashAddress \/ a >= FlashAddress + n
      BY <1>2, <1>5, <2>1, <3>1, <3>2, Constants
    <3> QED BY <1>5, <1>6, <3>3
  <2> QED BY <2>2, <2>3
<1>8. erasing => flash' = flash
  <2> SUFFICES ASSUME erasing PROVE flash' = flash
    OBVIOUS
  <2>1. CASE StorePiece(f)
    <3>1. FlashLength = 0
      BY <1>1, <2>1, PieceFacts DEF StorePiece, Answers
    <3>2. flash' = Programmed(FlashAddress, FlashPart(f), 0)
      BY <2>1, <3>1 DEF StorePiece
    <3>3. \A a \in Addr : a \in Int /\ ~(FlashAddress <= a /\ a < FlashAddress + 0)
      BY <1>1, PieceFacts, Constants DEF Addr
    <3> QED BY <1>2, <3>2, <3>3 DEF Programmed
  <2>2. CASE StorePieceFails(f)
    BY <2>2 DEF StorePieceFails
  <2> QED BY <2>1, <2>2
<1> QED BY <1>3, <1>7, <1>8

\* A chip whose two first cells are erased boots nothing.
LEMMA ErasedNotBootable ==
  /\ 0 \in Addr /\ 1 \in Addr
  /\ flash[0] = Erased /\ flash[1] = Erased => ~Bootable
  /\ flash'[0] = Erased /\ flash'[1] = Erased => ~Bootable'
<1>1. 0 \in Addr /\ 1 \in Addr
  BY Constants, NodeAssumption DEF Addr
<1>2. JmpOpcode[0] # Erased \/ JmpOpcode[1] # Erased
  BY NodeAssumption, Constants
<1> QED BY <1>1, <1>2, Constants DEF Bootable

\* A piece keeps the storage invariant.
LEMMA StoreKeeps ==
  ASSUME StorageInv, NEW f \in NodeFrames, f.cmd = "OTA_SEND",
         StorePiece(f) \/ StorePieceFails(f)
  PROVE  StorageInv'
<1>1. OtaTypeOK' /\ OtaTypeOK /\ PieceExpected(f) /\ f.data \in [0 .. PieceSize - 1 -> Byte]
  BY StoreTyped, FrameFacts DEF StorageInv, StorePiece, StorePieceFails
<1>2. /\ flash \in [Addr -> Byte] /\ fwSize \in Nat /\ flashPointer \in Nat /\ Base \in Nat
      /\ \A a \in Addr : a \in Int
  BY <1>1, Constants DEF OtaTypeOK, FlashTypeOK, Base, Addr
<1>3. /\ fwSize' = fwSize /\ fwCrc' = fwCrc /\ Base' = Base /\ erasing' = erasing
      /\ crc16' = crc16
      /\ \/ otaState' = otaState /\ flashPointer' = flashPointer + PieceLength
         \/ otaState' = "INVALID"
  BY DEF StorePiece, StorePieceFails, Base
<1>4. /\ otaState \in {"START", "STORE", "CHECK", "INVALID"}
      /\ \A a \in Addr : a < Base + HeaderSize => flash'[a] = flash[a]
      /\ \A a \in Addr : a >= Base + flashPointer + PieceLength => flash'[a] = flash[a]
  BY StoreCells
<1>5. NoTransferTakesNoPiece' /\ Ready' /\ Declared' /\ ValidMeansStored'
  BY <1>3, <1>4 DEF StorageInv, NoTransferTakesNoPiece, Ready, Declared, ValidMeansStored
<1>6. ErasedOutside'
  <2> SUFFICES ASSUME ~erasing, NEW a \in Addr, a < Base + HeaderSize \/ a >= Base + fwSize
               PROVE  flash'[a] = Erased
    BY <1>3 DEF ErasedOutside
  <2>1. flash[a] = Erased
    BY <1>4 DEF StorageInv, ErasedOutside
  <2>2. a < Base + HeaderSize \/ a >= Base + flashPointer + PieceLength
    BY <1>1, <1>2, PieceFacts
  <2> QED BY <1>4, <2>1, <2>2
<1>7. ErasedAhead'
  <2> SUFFICES ASSUME otaState' = "STORE" \/ (otaState' = "START" /\ ~erasing'),
                      NEW a \in Addr, a >= Base' + flashPointer'
               PROVE  flash'[a] = Erased
    BY DEF ErasedAhead
  <2>1. a >= Base + flashPointer + PieceLength
    BY <1>1, <1>2, <1>3, PieceFacts
  <2>2. a >= Base + flashPointer
    BY <1>1, <1>2, <2>1, PieceFacts
  <2>3. flash[a] = Erased
    BY <1>3, <2>2 DEF StorageInv, ErasedAhead
  <2> QED BY <1>4, <2>1, <2>3
<1>8. FedMatches'
  <2>1. CASE otaState' = "CHECK"
    <3>1. otaState = "CHECK" /\ flashPointer' = flashPointer + PieceLength
      BY <1>3, <2>1
    <3>2. Len(crc16) \in Nat /\ Len(crc16) <= flashPointer
      BY <1>1, <3>1, Constants DEF StorageInv, OtaTypeOK, FedMatches
    <3>3. PieceLength \in Nat /\ PieceLength > 0
      BY <1>1, PieceFacts
    <3>4. Len(crc16') <= flashPointer' /\ Len(crc16') # flashPointer'
      BY <1>2, <1>3, <3>1, <3>2, <3>3
    <3> QED BY <3>4, Zenon DEF FedMatches
  <2>2. CASE otaState' # "CHECK"
    BY <2>2 DEF FedMatches
  <2> QED BY <2>1, <2>2
<1>9. BootableImageIsWhole'
  <2>1. CASE erasing
    BY <2>1, StoreCells, BootableKept DEF StorageInv
  <2>2. CASE ~erasing
    <3>1. otaState' \in {"START", "STORE", "CHECK", "INVALID"}
      BY <1>3, <1>4
    <3>2. flash'[0] = Erased /\ flash'[1] = Erased
      BY <1>2, <1>3, <1>6, <2>2, <3>1, ErasedNotBootable, Constants DEF ErasedOutside
    <3> QED BY <3>2, ErasedNotBootable DEF BootableImageIsWhole
  <2> QED BY <2>1, <2>2
<1> QED BY <1>1, <1>5, <1>6, <1>7, <1>8, <1>9 DEF StorageInv

\* What a pass of the check adds keeps what was fed in step with the pointer.
LEMMA FeedKeeps ==
  ASSUME StorageInv, ReadsAnswered, otaState = "CHECK", flashPointer < fwSize,
         NEW readOk \in Answers("read"), NEW fed, fed = crc16 \o CheckChunk(readOk),
         NEW next, next = flashPointer + CheckLength
  PROVE  /\ fed \in Seq(Byte) /\ Len(fed) <= next
         /\ Len(fed) = next =>
              \A i \in 0 .. next - 1 :
                fed[i + 1] = IF i < HeaderSize THEN firstFwBytes[i] ELSE flash[Base + i]
<1>1. OtaTypeOK /\ ~erasing
  BY DEF StorageInv, Ready
<1>2. readOk = TRUE
  BY <1>1 DEF Answers, ReadsAnswered
<1>3. /\ CheckLength \in Nat /\ CheckLength > 0
      /\ flashPointer < HeaderSize => CheckLength = 1
      /\ CheckChunk(readOk) \in Seq(Byte) /\ Len(CheckChunk(readOk)) = CheckLength
  BY <1>1, <1>2, CheckFacts
<1>4. /\ crc16 \in Seq(Byte) /\ Len(crc16) \in Nat /\ flashPointer \in Nat /\ Base \in Nat
      /\ Len(crc16) <= flashPointer
  BY <1>1, Constants DEF OtaTypeOK, StorageInv, FedMatches, Base
<1>5. fed \in Seq(Byte) /\ Len(fed) = Len(crc16) + CheckLength
  <2>1. ASSUME NEW s \in Seq(Byte), NEW t \in Seq(Byte)
        PROVE  s \o t \in Seq(Byte) /\ Len(s \o t) = Len(s) + Len(t)
    OBVIOUS
  <2>2. fed \in Seq(Byte) /\ Len(fed) = Len(crc16) + Len(CheckChunk(readOk))
    BY <1>3, <1>4, <2>1, Zenon
  <2> QED BY <1>3, <2>2
<1>6. ASSUME Len(fed) = next, NEW i \in 0 .. next - 1
      PROVE  fed[i + 1] = IF i < HeaderSize THEN firstFwBytes[i] ELSE flash[Base + i]
  <2>1. Len(crc16) = flashPointer /\ i \in Nat
    BY <1>3, <1>4, <1>5, <1>6
  <2>2. CASE i < flashPointer
    <3>1. fed[i + 1] = crc16[i + 1]
      BY <1>3, <1>4, <2>1, <2>2
    <3>2. i \in 0 .. flashPointer - 1
      BY <1>4, <2>1, <2>2
    <3>3. crc16[i + 1] = IF i < HeaderSize THEN firstFwBytes[i] ELSE flash[Base + i]
      BY <2>1, <3>2 DEF StorageInv, FedMatches
    <3> QED BY <3>1, <3>3
  <2>3. CASE i >= flashPointer
    <3>1. i + 1 - flashPointer \in 1 .. CheckLength
      BY <1>3, <1>4, <1>6, <2>1, <2>3
    <3>2. fed[i + 1] = CheckChunk(readOk)[i + 1 - flashPointer]
      BY <1>3, <1>4, <2>1, <2>3, <3>1
    <3>3. CASE flashPointer < HeaderSize
      <4>1. i = flashPointer
        BY <1>3, <1>4, <1>6, <2>3, <3>3
      <4> QED BY <3>1, <3>2, <3>3, <4>1 DEF CheckChunk
    <3>4. CASE ~(flashPointer < HeaderSize)
      <4>1. ~(i < HeaderSize)
        BY <1>4, <2>1, <2>3, <3>4, Constants
      <4>2. CheckChunk(readOk)[i + 1 - flashPointer] =
              flash[flashBlockBeginAddress + flashPointer + (i + 1 - flashPointer) - 1]
        BY <1>2, <3>1, <3>4 DEF CheckChunk
      <4>3. flashBlockBeginAddress + flashPointer + (i + 1 - flashPointer) - 1 = Base + i
        BY <1>4, <2>1 DEF Base
      <4> QED BY <3>2, <4>1, <4>2, <4>3
    <3> QED BY <3>3, <3>4
  <2>4. i < flashPointer \/ i >= flashPointer
    BY <1>4, <2>1
  <2> QED BY <2>2, <2>3, <2>4, Zenon
<1> QED BY <1>3, <1>4, <1>5, <1>6

\* The passes before the end of the check.
LEMMA CheckKeeps ==
  ASSUME StorageInv, ReadsAnswered, RunCheckChunk
  PROVE  StorageInv'
<1>1. OtaTypeOK'
  BY RunTyped DEF StorageInv, OtaRun
<1>2. PICK readOk \in Answers("read") : crc16' = crc16 \o CheckChunk(readOk)
  BY DEF RunCheckChunk
<1>3. /\ otaState = "CHECK" /\ flashPointer < fwSize
      /\ flashPointer' = flashPointer + CheckLength
      /\ otaState' = otaState /\ flash' = flash /\ erasing' = erasing
      /\ firstFwBytes' = firstFwBytes /\ fwSize' = fwSize /\ fwCrc' = fwCrc
      /\ Base' = Base
  BY DEF RunCheckChunk, flashVars, Base
<1>4. /\ Len(crc16') <= flashPointer'
      /\ Len(crc16') = flashPointer' =>
           \A i \in 0 .. flashPointer' - 1 :
             crc16'[i + 1] = IF i < HeaderSize THEN firstFwBytes[i] ELSE flash[Base + i]
  BY <1>2, <1>3, FeedKeeps
<1>5. FedMatches'
  BY <1>3, <1>4 DEF FedMatches
<1>6. BootableImageIsWhole'
  BY <1>3, BootableKept DEF StorageInv
<1> QED BY <1>1, <1>3, <1>5, <1>6
        DEF StorageInv, NoTransferTakesNoPiece, Declared, ErasedOutside, ErasedAhead,
            Ready, ValidMeansStored

\* The end of the check feeds the whole image, or less than that.
LEMMA FedAtEnd ==
  ASSUME StorageInv, ReadsAnswered, RunFinishCheck
  PROVE  /\ crc16' \in Seq(Byte) /\ Len(crc16') <= fwSize
         /\ Len(crc16') = fwSize =>
              \A i \in 0 .. fwSize - 1 :
                crc16'[i + 1] = IF i < HeaderSize THEN firstFwBytes[i] ELSE flash[Base + i]
         /\ Len(crc16) # flashPointer => Len(crc16') # fwSize
<1>1. OtaTypeOK /\ otaState = "CHECK" /\ ~erasing
  BY DEF StorageInv, Ready, RunFinishCheck
<1>2. CASE /\ flashPointer < fwSize /\ flashPointer + CheckLength = fwSize
           /\ \E readOk \in Answers("read") : crc16' = crc16 \o CheckChunk(readOk)
  <2>1. PICK readOk \in Answers("read") : crc16' = crc16 \o CheckChunk(readOk)
    BY <1>2
  <2>2. readOk \in BOOLEAN /\ crc16 \in Seq(Byte) /\ flashPointer \in Nat
    <3>1. readOk \in BOOLEAN
      BY <2>1 DEF Answers
    <3> QED BY <1>1, <3>1, Constants DEF OtaTypeOK
  <2>3. /\ CheckLength \in Nat
        /\ CheckChunk(readOk) \in Seq(Byte) /\ Len(CheckChunk(readOk)) = CheckLength
    BY <1>1, <1>2, <2>2, CheckFacts
  <2>4. Len(crc16') = Len(crc16) + CheckLength
    <3>1. \A s, t \in Seq(Byte) : Len(s \o t) = Len(s) + Len(t)
      OBVIOUS
    <3> QED BY <2>1, <2>2, <2>3, <3>1, Zenon
  <2>5. Len(crc16) \in Nat
    BY <2>2
  <2>6. Len(crc16) # flashPointer => Len(crc16') # fwSize
    BY <1>2, <2>2, <2>3, <2>4, <2>5
  <2> QED BY <1>1, <1>2, <2>1, <2>6, FeedKeeps
<1>3. CASE flashPointer = fwSize /\ crc16' = crc16
  BY <1>1, <1>3 DEF StorageInv, OtaTypeOK, FedMatches
<1> QED BY <1>2, <1>3 DEF RunFinishCheck

\* The verdict.  The checksum matches only if the image and nothing else was
\* fed, so the body is in the flash and the header, which programming erased
\* cells puts there unchanged, completes it.
LEMMA FinishKeeps ==
  ASSUME StorageInv, ReadsAnswered, RunFinishCheck
  PROVE  /\ StorageInv'
         /\ flash' = flash \/ otaState' = "VALID"
         /\ ~Bootable
<1>1. OtaTypeOK' /\ OtaTypeOK /\ otaState = "CHECK" /\ ~erasing
  BY RunTyped DEF StorageInv, OtaRun, Ready, RunFinishCheck
<1>2. /\ erasing' = erasing /\ firstFwBytes' = firstFwBytes /\ fwSize' = fwSize
      /\ fwCrc' = fwCrc /\ Base' = Base /\ flashPointer' = fwSize
      /\ FinishCheck(crc16')
  BY DEF RunFinishCheck, Base
<1>3. /\ flash \in [Addr -> Byte] /\ fwSize \in Nat /\ fwSize <= ProgramMemorySize
      /\ Base \in Nat /\ Base + fwSize <= Capacity
      /\ firstFwBytes \in [0 .. 1 -> Byte] /\ \A a \in Addr : a \in Int
  BY <1>1, Constants DEF OtaTypeOK, FlashTypeOK, Base, Addr
<1>4. /\ crc16' \in Seq(Byte) /\ Len(crc16') <= fwSize
      /\ Len(crc16') = fwSize =>
           \A i \in 0 .. fwSize - 1 :
             crc16'[i + 1] = IF i < HeaderSize THEN firstFwBytes[i] ELSE flash[Base + i]
  BY FedAtEnd
<1>5. \A a \in Addr : a < Base + HeaderSize \/ a >= Base + fwSize => flash[a] = Erased
  BY <1>1 DEF StorageInv, ErasedOutside
<1>6. PICK img \in Images : fwSize = Len(img) /\ fwCrc = Crc(img)
  BY <1>1 DEF StorageInv, Declared
<1>7. img \in Seq(Byte) /\ fwSize >= 2
  BY <1>6, FrameAssumption, NodeAssumption, Constants
<1>8. ~Bootable
  BY <1>3, <1>5, ErasedNotBootable, Constants
<1>9. CASE flash' = flash /\ otaState' = "INVALID"
  <2>1. BootableImageIsWhole'
    BY <1>9, BootableKept DEF StorageInv
  <2> QED BY <1>1, <1>2, <1>8, <1>9, <2>1
          DEF StorageInv, NoTransferTakesNoPiece, Declared, ErasedOutside, ErasedAhead,
              Ready, FedMatches, ValidMeansStored
<1>10. CASE /\ Crc(crc16') = fwCrc
            /\ flash' = Programmed(flashBlockBeginAddress, firstFwBytes, HeaderSize)
            /\ otaState' = IF \A i \in Header :
                                flash'[flashBlockBeginAddress + i] = firstFwBytes[i]
                             THEN "VALID" ELSE "INVALID"
  <2>1. crc16' = img
    <3>1. crc16' \in [1 .. Len(crc16') -> Byte] /\ Len(crc16') \in 0 .. ProgramMemorySize
      BY <1>3, <1>4, Constants
    <3>2. Crc(crc16') = Crc(img)
      BY <1>6, <1>10
    <3> QED BY <3>1, <3>2, CrcAssumption
  <2>2. \A i \in 0 .. fwSize - 1 :
          img[i + 1] = IF i < HeaderSize THEN firstFwBytes[i] ELSE flash[Base + i]
    BY <1>4, <1>6, <2>1
  <2>3. /\ \A a \in Addr : a < Base \/ a >= Base + HeaderSize => flash'[a] = flash[a]
        /\ \A a \in Addr : Base <= a /\ a < Base + HeaderSize =>
             flash'[a] = And(flash[a], firstFwBytes[a - Base])
    <3>1. /\ flashBlockBeginAddress \in Nat /\ HeaderSize \in Nat
          /\ firstFwBytes \in [0 .. HeaderSize - 1 -> Byte]
      BY <1>3, Constants DEF Base
    <3> QED BY <1>3, <1>10, <3>1, ProgrammedFacts DEF Base
  <2>4. \A i \in 0 .. 1 : flash'[Base + i] = firstFwBytes[i]
    <3> SUFFICES ASSUME NEW i \in 0 .. 1 PROVE flash'[Base + i] = firstFwBytes[i]
      OBVIOUS
    <3>1. Base + i \in Addr /\ Base <= Base + i /\ Base + i < Base + HeaderSize
          /\ (Base + i) - Base = i
      BY <1>3, <1>7, Constants DEF Addr
    <3>2. flash'[Base + i] = And(Erased, firstFwBytes[i])
      BY <1>5, <2>3, <3>1
    <3>3. firstFwBytes[i] \in Byte
      BY <1>3
    <3> QED BY <3>2, <3>3, CellAssumption
  <2>5. otaState' = "VALID"
    BY <1>10, <2>4, Constants DEF Base
  <2>6. \A i \in 0 .. fwSize - 1 : flash'[Base + i] = img[i + 1]
    <3> SUFFICES ASSUME NEW i \in 0 .. fwSize - 1 PROVE flash'[Base + i] = img[i + 1]
      OBVIOUS
    <3>1. Base + i \in Addr /\ i \in Nat
      BY <1>3, Constants DEF Addr
    <3>2. CASE i < 2
      BY <2>2, <2>4, <3>1, <3>2, Constants
    <3>3. CASE i >= 2
      BY <1>3, <2>2, <2>3, <3>1, <3>3, Constants
    <3> QED BY <3>1, <3>2, <3>3
  <2>7. ValidMeansStored'
    BY <1>2, <1>6, <2>6 DEF ValidMeansStored, Holds, Base
  <2>8. BootableImageIsWhole'
    <3>1. CASE Base = 0
      <4>1. \A i \in 0 .. ProgramMemorySize - 1 :
              flash'[i] = IF i < Len(img) THEN img[i + 1] ELSE Erased
        <5> SUFFICES ASSUME NEW i \in 0 .. ProgramMemorySize - 1
                     PROVE  flash'[i] = IF i < Len(img) THEN img[i + 1] ELSE Erased
          OBVIOUS
        <5>1. i \in Addr /\ i \in Nat
          BY Constants DEF Addr
        <5>2. CASE i < fwSize
          BY <1>3, <1>6, <2>6, <3>1, <5>1, <5>2
        <5>3. CASE i >= fwSize
          BY <1>3, <1>5, <1>6, <1>7, <2>3, <3>1, <5>1, <5>3, Constants
        <5> QED BY <1>3, <5>1, <5>2, <5>3
      <4>2. BootImage' = Padded(img)
        BY <4>1 DEF BootImage, Padded
      <4> QED BY <4>2 DEF BootableImageIsWhole, Padded
    <3>2. CASE Base >= HeaderSize
      <4>1. flash'[0] = Erased /\ flash'[1] = Erased
        BY <1>3, <1>5, <2>3, <3>2, ErasedNotBootable, Constants
      <4> QED BY <4>1, ErasedNotBootable DEF BootableImageIsWhole
    <3> QED BY <3>1, <3>2 DEF StorageInv, Declared
  <2> QED BY <1>1, <1>2, <1>8, <2>5, <2>7, <2>8
          DEF StorageInv, NoTransferTakesNoPiece, Declared, ErasedOutside, ErasedAhead,
              Ready, FedMatches
<1>11. Answers("read") = {TRUE}
  BY <1>1 DEF Answers, ReadsAnswered
<1>12. CASE Crc(crc16') # fwCrc
  BY <1>2, <1>9, <1>12 DEF FinishCheck
<1>13. CASE Crc(crc16') = fwCrc
  <2>1. PICK writeOk \in Answers("write"), readOk \in Answers("read") :
          /\ flash' = IF writeOk
                        THEN Programmed(flashBlockBeginAddress, firstFwBytes, HeaderSize)
                        ELSE flash
          /\ otaState' =
               IF /\ writeOk /\ readOk
                  /\ \A i \in Header :
                       flash'[flashBlockBeginAddress + i] = firstFwBytes[i]
                 THEN "VALID" ELSE "INVALID"
    BY <1>2, <1>13, Zenon DEF FinishCheck
  <2>2. readOk = TRUE
    BY <1>11
  <2>3. CASE writeOk
    BY <1>10, <1>13, <2>1, <2>2, <2>3
  <2>4. CASE ~writeOk
    BY <1>9, <2>1, <2>4
  <2> QED BY <2>3, <2>4
<1> QED BY <1>12, <1>13

\* The remaining passes of run() move between the states and leave the cells.
LEMMA RunKeeps ==
  ASSUME StorageInv, ReadsAnswered, OtaRun
  PROVE  StorageInv'
<1>1. OtaTypeOK' /\ OtaTypeOK
  BY RunTyped DEF StorageInv
<1>2. CASE RunStalled
  <2>1. BootableImageIsWhole'
    BY <1>2, BootableKept DEF StorageInv, RunStalled, flashVars
  <2> QED BY <1>1, <1>2, <2>1
          DEF RunStalled, Stalled, flashVars, StorageInv, NoTransferTakesNoPiece, Declared,
              ErasedOutside, ErasedAhead, Ready, FedMatches, ValidMeansStored, Base
<1>3. CASE RunIdle
  BY <1>1, <1>3, StorageKept DEF RunIdle, flashVars, otaVars
<1>4. CASE RunStart
  <2>1. BootableImageIsWhole'
    BY <1>4, BootableKept DEF StorageInv, RunStart, flashVars
  <2> QED BY <1>1, <1>4, <2>1
          DEF RunStart, Busy, flashVars, StorageInv, NoTransferTakesNoPiece, Declared,
              ErasedOutside, ErasedAhead, Ready, FedMatches, ValidMeansStored, Base
<1>5. CASE RunStore
  <2>1. BootableImageIsWhole'
    BY <1>5, BootableKept DEF StorageInv, RunStore, flashVars
  <2>2. FedMatches'
    BY <1>5 DEF RunStore, FedMatches
  <2> QED BY <1>1, <1>5, <2>1, <2>2
          DEF RunStore, flashVars, StorageInv, NoTransferTakesNoPiece, Declared,
              ErasedOutside, ErasedAhead, Ready, ValidMeansStored, Base
<1>6. CASE RunCheckChunk
  BY <1>6, CheckKeeps
<1>7. CASE RunFinishCheck
  BY <1>7, FinishKeeps
<1>8. CASE RunValid
  <2>1. BootableImageIsWhole'
    BY <1>8, BootableKept DEF StorageInv, RunValid, flashVars
  <2> QED BY <1>1, <1>8, <2>1
          DEF RunValid, flashVars, StorageInv, NoTransferTakesNoPiece, Declared,
              ErasedOutside, ErasedAhead, Ready, FedMatches, ValidMeansStored, Base
<1>9. CASE RunInvalid
  <2>1. flash' = flash
    BY <1>1, <1>9, InvalidErases
  <2>2. BootableImageIsWhole'
    BY <2>1, BootableKept DEF StorageInv
  <2>3. otaState' = "IDLE" /\ flashPointer' = 0 /\ fwSize' = 0 /\ Base' = 0
    BY <1>9 DEF RunInvalid, Base
  <2> QED BY <1>1, <2>2, <2>3
          DEF StorageInv, NoTransferTakesNoPiece, Declared, ErasedOutside, ErasedAhead,
              Ready, FedMatches, ValidMeansStored
<1> QED BY <1>2, <1>3, <1>4, <1>5, <1>6, <1>7, <1>8, <1>9 DEF OtaRun

\* An erase that ends leaves a chip with nothing on it.
LEMMA EraseKeeps ==
  ASSUME StorageInv, OtaTypeOK', EraseDone, UNCHANGED otaVars
  PROVE  StorageInv' /\ ~Bootable'
<1>1. /\ erasing /\ ~erasing' /\ flash' = [a \in Addr |-> Erased]
      /\ UNCHANGED <<otaState, fwSize, fwCrc, flashPointer, flashBlockBeginAddress>>
  BY DEF EraseDone, otaVars
<1>2. \A a \in Addr : flash'[a] = Erased
  BY <1>1
<1>3. ~Bootable'
  BY <1>2, ErasedNotBootable
<1>4. otaState \notin {"STORE", "CHECK", "VALID"}
  BY <1>1 DEF StorageInv, Ready
<1> QED BY <1>1, <1>2, <1>3, <1>4
        DEF StorageInv, NoTransferTakesNoPiece, Declared, ErasedOutside, ErasedAhead,
            Ready, FedMatches, BootableImageIsWhole, ValidMeansStored, Base

\* Every step of the node keeps the storage invariant.
LEMMA NodeKeeps ==
  ASSUME StorageInv, NodeTypeOK, NodeTypeOK', ReadsAnswered, [NodeNext]_nodeVars
  PROVE  StorageInv'
<1>0. OtaTypeOK'
  BY DEF NodeTypeOK
<1>1. ASSUME NEW f \in NodeFrames, NEW reply, HandleRxFrame(f, reply)
      PROVE  StorageInv'
  <2>1. CASE f.cmd = "OTA_START" /\ OtaStart(f)
    BY <2>1, StartKeeps
  <2>2. CASE f.cmd = "OTA_SEND" /\ (StorePiece(f) \/ StorePieceFails(f))
    BY <2>2, StoreKeeps
  <2>3. CASE UNCHANGED <<flashVars, otaVars>>
    BY <1>0, <2>3, StorageKept DEF flashVars, otaVars
  <2> QED BY <1>1, <2>1, <2>2, <2>3 DEF HandleRxFrame, OtaStartRefused, StorePieceRefused
<1>2. ASSUME NEW reply, OtaPass(reply)
      PROVE  StorageInv'
  BY <1>2, RunKeeps DEF OtaPass
<1>3. CASE NodeReset
  BY <1>0, <1>3, StorageKept DEF NodeReset, flashVars, otaVars
<1>4. CASE NodeBoot
  <2>1. BootableImageIsWhole'
    BY <1>4, BootableKept DEF StorageInv, NodeBoot, flashVars
  <2>2. otaState' = "IDLE" /\ flashPointer' = 0 /\ fwSize' = 0 /\ Base' = 0
    BY <1>4 DEF NodeBoot, Base
  <2> QED BY <1>0, <2>1, <2>2
          DEF StorageInv, NoTransferTakesNoPiece, Declared, ErasedOutside, ErasedAhead,
              Ready, FedMatches, ValidMeansStored
<1>5. CASE FlashStep
  BY <1>0, <1>5, EraseKeeps DEF FlashStep
<1>6. CASE NodeTick
  BY <1>0, <1>6, StorageKept DEF NodeTick, flashVars
<1>7. CASE UNCHANGED nodeVars
  BY <1>0, <1>7, StorageKept DEF nodeVars, flashVars, otaVars
<1> QED BY <1>1, <1>2, <1>3, <1>4, <1>5, <1>6, <1>7, Zenon DEF NodeNext, NodeStep

\* The storage invariant holds at first, with nothing to boot.
LEMMA InitStorage == NodeInit => StorageInv /\ ~Bootable
<1> SUFFICES ASSUME NodeInit PROVE StorageInv /\ ~Bootable
  OBVIOUS
<1>1. OtaTypeOK
  BY InitTyped DEF NodeTypeOK
<1>2. \A a \in Addr : flash[a] = Erased
  BY DEF NodeInit
<1>3. ~Bootable
  BY <1>2, ErasedNotBootable
<1>4. otaState = "IDLE" /\ flashPointer = 0 /\ fwSize = 0 /\ Base = 0
  BY DEF NodeInit, Base
<1> QED BY <1>1, <1>3, <1>4
        DEF StorageInv, NoTransferTakesNoPiece, Declared, ErasedOutside, ErasedAhead,
            Ready, FedMatches, BootableImageIsWhole, ValidMeansStored

\* The inductive invariant holds for the node on any bus.
THEOREM StorageInvariant ==
  ASSUME ReadsAnswered
  PROVE  NodeSpec => [](NodeTypeOK /\ StorageInv)
<1>1. NodeInit => NodeTypeOK /\ StorageInv
  BY InitTyped, InitStorage
<1>2. NodeTypeOK /\ StorageInv /\ [NodeNext]_nodeVars => (NodeTypeOK /\ StorageInv)'
  BY NodeTyped, NodeKeeps
<1> QED BY <1>1, <1>2, PTL DEF NodeSpec

\* What the bootloader would start is always one whole image: no frame, reset,
\* stall or refused command leaves a bootable fragment (the header that
\* OTA::storeNextData keeps in memory and OTA::finishCheck writes last).
THEOREM BootableAlwaysWhole ==
  ASSUME ReadsAnswered
  PROVE  NodeSpec => []BootableImageIsWhole
<1>1. StorageInv => BootableImageIsWhole
  BY DEF StorageInv
<1> QED BY <1>1, StorageInvariant, PTL

\* OTA::run answers VALID only with the declared image in the flash.
THEOREM ValidAlwaysStored ==
  ASSUME ReadsAnswered
  PROVE  NodeSpec => []ValidMeansStored
<1>1. StorageInv => ValidMeansStored
  BY DEF StorageInv
<1> QED BY <1>1, StorageInvariant, PTL

\* OTA::storeNextData does not look at the state, and need not: outside a
\* transfer its pointer is at the declared end.
THEOREM NoPieceOutsideTransfer ==
  ASSUME ReadsAnswered
  PROVE  NodeSpec => []NoTransferTakesNoPiece
<1>1. StorageInv => NoTransferTakesNoPiece
  BY DEF StorageInv
<1> QED BY <1>1, StorageInvariant, PTL

\* Where the image being stored lies, in the form the two theorems below use.
LEMMA RegionFacts ==
  ASSUME StorageInv
  PROVE  fwSize \in Nat /\ flashPointer \in Nat /\ Base \in Nat /\ Base + fwSize <= Capacity
BY Constants DEF StorageInv, OtaTypeOK, Base

\* From the first piece to the verdict of OTA::finishCheck the two cells the
\* bootloader looks at stay erased, whatever pieces arrive late or twice.
THEOREM HeaderStaysErased ==
  ASSUME ReadsAnswered
  PROVE  NodeSpec => []HeaderHeldBack
<1>1. ASSUME StorageInv
      PROVE  HeaderHeldBack
  <2> SUFFICES ASSUME otaState \in {"STORE", "CHECK"}, NEW i \in Header
               PROVE  flash[Base + i] = Erased
    BY DEF HeaderHeldBack, Base
  <2>1. fwSize >= 2
    BY <1>1, NodeAssumption, FrameAssumption, Constants DEF StorageInv, Declared
  <2>2. Base + i \in Addr /\ Base + i < Base + HeaderSize
    BY <1>1, <2>1, RegionFacts, Constants DEF Addr
  <2> QED BY <1>1, <2>2 DEF StorageInv, ErasedOutside, Ready
<1> QED BY <1>1, StorageInvariant, PTL

\* OTA::storeNextData programs erased cells only, so a NOR program never
\* merges the bits of two images.
THEOREM PiecesOnlyWriteErased ==
  ASSUME ReadsAnswered
  PROVE  NodeSpec => []WritesErasedCells
<1>1. ASSUME StorageInv
      PROVE  WritesErasedCells
  <2> SUFFICES ASSUME otaState = "STORE", NEW i \in flashPointer .. fwSize - 1
               PROVE  flash[Base + i] = Erased
    BY DEF WritesErasedCells, Base
  <2>1. Base + i \in Addr /\ Base + i >= Base + flashPointer
    BY <1>1, RegionFacts, Constants DEF Addr
  <2> QED BY <1>1, <2>1 DEF StorageInv, ErasedAhead
<1> QED BY <1>1, StorageInvariant, PTL

-----------------------------------------------------------------------------
(* The storage implements a slot                                           *)

SlotOf == IF Bootable THEN {BootImage} ELSE {}

\* A step that leaves the cells and the program alone is a stuttering step.
LEMMA SlotKept ==
  ASSUME flash' = flash, program' = program
  PROVE  SlotOf' = SlotOf /\ program' = program
BY DEF SlotOf, Bootable, BootImage

\* A piece never makes or unmakes a bootable image.
LEMMA StoreNotSeen ==
  ASSUME StorageInv, StorageInv', NEW f \in NodeFrames, f.cmd = "OTA_SEND",
         StorePiece(f) \/ StorePieceFails(f)
  PROVE  flash' = flash \/ (~Bootable /\ ~Bootable')
<1>1. CASE erasing
  BY <1>1, StoreCells
<1>2. CASE ~erasing
  <2>1. /\ otaState \in {"START", "STORE", "CHECK", "INVALID"}
        /\ erasing' = erasing /\ (otaState' = otaState \/ otaState' = "INVALID")
    BY StoreCells DEF StorePiece, StorePieceFails
  <2>2. Base \in Nat /\ Base' \in Nat
    BY DEF StorageInv, OtaTypeOK, Base
  <2>3. flash[0] = Erased /\ flash[1] = Erased
    BY <1>2, <2>1, <2>2, ErasedNotBootable, Constants DEF StorageInv, ErasedOutside
  <2>4. flash'[0] = Erased /\ flash'[1] = Erased
    BY <1>2, <2>1, <2>2, ErasedNotBootable, Constants DEF StorageInv, ErasedOutside
  <2> QED BY <2>3, <2>4, ErasedNotBootable
<1> QED BY <1>1, <1>2

\* Every step of the node is a step of the slot, or leaves the slot alone.
LEMMA SlotStep ==
  ASSUME StorageInv, StorageInv', ReadsAnswered, [NodeNext]_nodeVars
  PROVE  [Slot!Next]_<<SlotOf, program>>
<1> USE DEF SlotOf
<1>1. ASSUME flash' = flash, program' = program
      PROVE  [Slot!Next]_<<SlotOf, program>>
  BY <1>1, SlotKept
<1>2. ASSUME NEW f \in NodeFrames, NEW reply, HandleRxFrame(f, reply)
      PROVE  [Slot!Next]_<<SlotOf, program>>
  <2>1. program' = program
    BY <1>2, Zenon DEF HandleRxFrame
  <2>2. CASE f.cmd = "OTA_START" /\ OtaStart(f)
    BY <1>1, <2>1, <2>2 DEF OtaStart, ChipErase
  <2>3. CASE f.cmd = "OTA_SEND" /\ (StorePiece(f) \/ StorePieceFails(f))
    BY <1>1, <2>1, <2>3, StoreNotSeen
  <2>4. CASE UNCHANGED <<flashVars, otaVars>>
    BY <1>1, <2>1, <2>4 DEF flashVars
  <2> QED BY <1>2, <2>2, <2>3, <2>4 DEF HandleRxFrame, OtaStartRefused, StorePieceRefused
<1>3. ASSUME NEW reply, OtaPass(reply)
      PROVE  [Slot!Next]_<<SlotOf, program>>
  <2>1. program' = program /\ OtaRun
    BY <1>3, Zenon DEF OtaPass
  <2>2. CASE RunFinishCheck
    <3>1. ~Bootable
      BY <2>2, FinishKeeps
    <3>2. CASE Bootable'
      <4>1. PICK img \in Images : BootImage' = Padded(img)
        BY <3>2 DEF StorageInv, BootableImageIsWhole, Padded
      <4>2. SlotOf = {} /\ SlotOf' = {Padded(img)}
        BY <3>1, <3>2, <4>1
      <4> QED BY <2>1, <4>2 DEF Slot!Next, Slot!Commit
    <3>3. CASE ~Bootable'
      BY <2>1, <3>1, <3>3
    <3> QED BY <3>2, <3>3
  <2>3. CASE RunInvalid
    BY <1>1, <2>1, <2>3, InvalidErases DEF StorageInv
  <2>4. CASE RunStalled \/ RunIdle \/ RunStart \/ RunStore \/ RunCheckChunk \/ RunValid
    BY <1>1, <2>1, <2>4
       DEF RunStalled, RunIdle, RunStart, RunStore, RunCheckChunk, RunValid, flashVars
  <2> QED BY <2>1, <2>2, <2>3, <2>4 DEF OtaRun
<1>4. CASE NodeReset
  BY <1>1, <1>4 DEF NodeReset, flashVars
<1>5. CASE NodeBoot
  <2>1. flash' = flash /\ program' = IF Bootable THEN BootImage ELSE program
    BY <1>5 DEF NodeBoot, flashVars
  <2>2. CASE Bootable
    <3>1. SlotOf' = SlotOf /\ SlotOf = {BootImage}
      BY <2>1, <2>2 DEF Bootable, BootImage
    <3> QED BY <2>1, <2>2, <3>1 DEF Slot!Next, Slot!Install
  <2>3. CASE ~Bootable
    BY <1>1, <2>1, <2>3
  <2> QED BY <2>2, <2>3
<1>6. CASE FlashStep
  <2>1. ~Bootable' /\ program' = program
    <3>1. OtaTypeOK' /\ EraseDone /\ UNCHANGED otaVars
      BY <1>6 DEF FlashStep, StorageInv
    <3> QED BY <1>6, <3>1, EraseKeeps DEF FlashStep
  <2> QED BY <2>1 DEF Slot!Next, Slot!Clear
<1>7. CASE NodeTick
  BY <1>1, <1>7 DEF NodeTick, flashVars
<1>8. CASE UNCHANGED nodeVars
  BY <1>1, <1>8 DEF nodeVars, flashVars
<1> QED BY <1>2, <1>3, <1>4, <1>5, <1>6, <1>7, <1>8, Zenon DEF NodeNext, NodeStep

\* Seen from the bootloader, all of the frames, states, timers, resets and
\* refused commands come down to one slot that is filled with a whole image in
\* one step and emptied in one step.
THEOREM SlotRefinement ==
  ASSUME ReadsAnswered
  PROVE  NodeSpec => SlotSpec
<1>1. NodeInit => Slot!Init
  BY InitStorage DEF NodeInit, Slot!Init
<1>2. StorageInv /\ StorageInv' /\ [NodeNext]_nodeVars => [Slot!Next]_<<SlotOf, program>>
  BY SlotStep
<1> QED BY <1>1, <1>2, StorageInvariant, PTL DEF NodeSpec, SlotSpec, Slot!Spec, SlotOf

-----------------------------------------------------------------------------
(* The node on the bus of a gateway                                        *)

\* Nothing but frames of a transfer is under way to the node.
BusCarriesFrames == toNode \in Seq(NodeFrames)

\* The gateway reads an image it has opened, and the checksum it announces is
\* that image's.
GatewayReadsImage ==
  /\ file \in Images \cup {<< >>}
  /\ transferState \in {"START", "STORE", "WAIT_FOR_ACK"} => file \in Images
  /\ filePos \in 0 .. Len(file)
  /\ frameNumber \in Nat
  /\ transferState = "START" /\ imageCrcKnown => imageCrc = Crc(file)

BusInv == BusCarriesFrames /\ GatewayReadsImage

LEMMA FileLength ==
  ASSUME file \in Images \cup {<< >>}
  PROVE  Len(file) \in Nat
<1>1. CASE file \in Images
  BY <1>1, FrameAssumption
<1>2. CASE file = << >>
  BY <1>2
<1> QED BY <1>1, <1>2

\* A lost or repeated frame leaves frames on the bus.
LEMMA FaultKeepsFrames ==
  ASSUME NEW S, NEW s \in Seq(S), NEW i \in 1 .. Len(s)
  PROVE  Without(s, i) \in Seq(S) /\ Twice(s, i) \in Seq(S)
<1>1. SubSeq(s, 1, i - 1) \in Seq(S) /\ SubSeq(s, i + 1, Len(s)) \in Seq(S)
  OBVIOUS
<1>2. SubSeq(s, 1, i) \in Seq(S) /\ SubSeq(s, i, Len(s)) \in Seq(S)
  OBVIOUS
<1> QED BY <1>1, <1>2 DEF Without, Twice

\* What the gateway packs is a frame the node may find on its bus.
LEMMA PackedFrames ==
  /\ \A img \in Images : StartFrame(0, Len(img), Crc(img)) \in NodeFrames
  /\ \A img \in Images, n \in Nat : \A p \in 0 .. Len(img) - 1 :
       SendFrame(Sequence(n), PieceData(img, p)) \in NodeFrames
<1>1. 0 \in 0 .. (Capacity \div BlockSize)
  BY Constants
<1>2. \A n \in Nat : Sequence(n) \in 0 .. SeqModulus - 1
  BY FrameAssumption DEF Sequence
<1>3. \A img \in Images : StartFrame(0, Len(img), Crc(img)) \in StartFrames
  BY <1>1 DEF StartFrames
<1>4. \A img \in Images, n \in Nat : \A p \in 0 .. Len(img) - 1 :
        SendFrame(Sequence(n), PieceData(img, p)) \in SendFrames
  BY <1>2, PieceAssumption DEF SendFrames
<1> QED BY <1>3, <1>4 DEF NodeFrames

\* A pass of the gateway sends such a frame or nothing.
LEMMA GatewayPassKeeps ==
  ASSUME GatewayReadsImage, NEW out, RunOta(out)
  PROVE  GatewayReadsImage' /\ out \in NodeFrames \cup {NoFrame}
<1>1. Len(file) \in Nat /\ filePos \in Nat /\ filePos <= Len(file) /\ frameNumber \in Nat
  BY FileLength DEF GatewayReadsImage
<1>2. CASE TransferTimedOut(out) \/ TransferDone(out)
  BY <1>2 DEF TransferTimedOut, TransferDone, Conclude, GatewayReadsImage
<1>3. CASE TransferWaiting(out)
  BY <1>3 DEF TransferWaiting, GatewayReadsImage
<1>4. CASE TransferChecksum(out)
  BY <1>1, <1>4, GatewayAssumption DEF TransferChecksum, ShortRead, GatewayReadsImage
<1>5. CASE TransferSendStart(out)
  <2>1. file \in Images /\ imageCrc' = Crc(file) /\ filePos' = 0
    BY <1>5 DEF TransferSendStart, GatewayReadsImage
  <2>2. transferState' \in {"WAIT_FOR_ACK", "INVALID"}
    BY <1>5 DEF TransferSendStart, AfterSend
  <2>3. out \in NodeFrames \cup {NoFrame}
    BY <1>5, <2>1, PackedFrames DEF TransferSendStart
  <2> QED BY <1>1, <1>5, <2>1, <2>2, <2>3 DEF TransferSendStart, GatewayReadsImage
<1>6. CASE TransferSendPiece(out)
  <2>1. file \in Images
    BY <1>6 DEF TransferSendPiece, GatewayReadsImage
  <2>2. PieceSize \in Nat
    BY Constants
  <2>3. CASE filePos = Len(file)
    BY <1>1, <1>6, <2>1, <2>3 DEF TransferSendPiece, GatewayReadsImage
  <2>4. CASE filePos < Len(file)
    <3>1. filePos \in 0 .. Len(file) - 1
      BY <1>1, <2>4
    <3>2. SendFrame(Sequence(frameNumber), PieceData(file, filePos)) \in NodeFrames
      BY <1>1, <2>1, <3>1, PackedFrames
    <3>3. NextPieceLength \in Nat /\ filePos + NextPieceLength <= Len(file)
      BY <1>1, <2>2 DEF NextPieceLength
    <3>4. out \in NodeFrames \cup {NoFrame}
      BY <1>6, <2>4, <3>2, <1>1 DEF TransferSendPiece
    <3>5. transferState' \in {"WAIT_FOR_ACK", "INVALID"}
      BY <1>1, <1>6, <2>4 DEF TransferSendPiece, AfterSend, ShortRead
    <3>6. file' = file
      BY <1>6 DEF TransferSendPiece, ShortRead
    <3>7. filePos' \in 0 .. Len(file) /\ frameNumber' \in Nat
      BY <1>1, <1>6, <2>4, <3>3 DEF TransferSendPiece, ShortRead
    <3> QED BY <2>1, <3>4, <3>5, <3>6, <3>7 DEF GatewayReadsImage
  <2> QED BY <1>1, <2>3, <2>4
<1> QED BY <1>2, <1>3, <1>4, <1>5, <1>6 DEF RunOta

LEMMA BusInvInit == Init => BusInv
BY FrameAssumption DEF Init, GatewayInit, BusInv, BusCarriesFrames, GatewayReadsImage

LEMMA BusInvStep == BusInv /\ [Next]_vars => BusInv'
<1> SUFFICES ASSUME BusInv, [Next]_vars
             PROVE  BusInv'
  OBVIOUS
<1> USE DEF BusInv, BusCarriesFrames
<1>1. CASE NodeReceives
  BY <1>1 DEF NodeReceives, gwVars, GatewayReadsImage
<1>2. CASE NodeRuns \/ NodeResets \/ FlashFinishes
  BY <1>2 DEF NodeRuns, NodeResets, FlashFinishes, gwVars, busVars, GatewayReadsImage
<1>3. CASE NodeBoots
  BY <1>3 DEF NodeBoots, gwVars, GatewayReadsImage
<1>4. CASE GatewayReceives
  BY <1>4 DEF GatewayReceives, HandleOtaCanFrame, GatewayReadsImage
<1>5. CASE GatewayRuns
  <2>1. PICK out \in GatewayFrames \cup {NoFrame} :
          /\ RunOta(out)
          /\ toNode' = IF out = NoFrame THEN toNode ELSE Append(toNode, out)
    BY <1>5 DEF GatewayRuns
  <2>2. GatewayReadsImage' /\ out \in NodeFrames \cup {NoFrame}
    BY <2>1, GatewayPassKeeps
  <2>3. toNode' \in Seq(NodeFrames)
    BY <2>1, <2>2
  <2> QED BY <2>2, <2>3
<1>6. CASE GatewayStarts
  BY <1>6, FrameAssumption DEF GatewayStarts, StartOta, StartOtaFails, busVars, GatewayReadsImage
<1>7. CASE GatewayResets
  BY <1>7 DEF GatewayResets, gwVars, busVars, GatewayReadsImage
<1>8. CASE GatewayBoots
  BY <1>8 DEF GatewayBoots, GatewayReadsImage
<1>9. CASE BusFault
  BY <1>9, FaultKeepsFrames DEF BusFault, gwVars, GatewayReadsImage
<1>10. CASE Tick
  BY <1>10 DEF Tick, busVars, GatewayReadsImage
<1>11. CASE UNCHANGED vars
  BY <1>11 DEF vars, gwVars, busVars, GatewayReadsImage
<1> QED BY <1>1, <1>2, <1>3, <1>4, <1>5, <1>6, <1>7, <1>8, <1>9, <1>10, <1>11 DEF Next

\* A step of the two joined by the bus is a step of the node or none of its.
LEMMA NodeStepOrNone == BusInv /\ [Next]_vars => [NodeNext]_nodeVars
<1> SUFFICES ASSUME BusInv, [Next]_vars
             PROVE  [NodeNext]_nodeVars
  OBVIOUS
<1>1. CASE NodeReceives
  <2>1. Head(toNode) \in NodeFrames
    BY <1>1 DEF NodeReceives, BusInv, BusCarriesFrames
  <2> QED BY <1>1, <2>1 DEF NodeReceives, NodeNext, NodeStep
<1>2. CASE NodeRuns
  BY <1>2 DEF NodeRuns, NodeNext, NodeStep
<1>3. CASE NodeResets \/ NodeBoots \/ FlashFinishes \/ Tick
  BY <1>3 DEF NodeResets, NodeBoots, FlashFinishes, Tick, NodeNext, NodeStep
<1>4. CASE GatewayReceives \/ GatewayRuns \/ GatewayStarts \/ GatewayResets \/ GatewayBoots \/ BusFault
  BY <1>4 DEF GatewayReceives, GatewayRuns, GatewayStarts, GatewayResets, GatewayBoots, BusFault
<1>5. CASE UNCHANGED vars
  BY <1>5 DEF vars
<1> QED BY <1>1, <1>2, <1>3, <1>4, <1>5 DEF Next

\* Whatever a gateway sends, however often it or the node is reset, frames are
\* lost or repeated: the node behaves as on the arbitrary bus of NodeSpec, so
\* all that is proved of that holds beside a gateway too (CanOta, otaCanFrame).
THEOREM TransferImplementsNode == Spec => NodeSpec
<1>1. Init => NodeInit
  BY DEF Init
<1> QED
  BY <1>1, BusInvInit, BusInvStep, NodeStepOrNone, PTL DEF Spec, NodeSpec

\* In particular what the bootloader finds beside a gateway is a whole image.
THEOREM TransferLeavesWholeImage ==
  ASSUME ReadsAnswered
  PROVE  Spec => []BootableImageIsWhole
BY TransferImplementsNode, BootableAlwaysWhole, PTL

-----------------------------------------------------------------------------
(* The verdict of a transfer                                               *)

\* What is under way in a queue of the bus.
Carried(s) == {s[i] : i \in 1 .. Len(s)}

Running == transferState \in {"STORE", "WAIT_FOR_ACK"}
EndAck == Reply("OTA_END", "ACK")
NoAck == \A r \in Carried(toMaster) : r.resp # "ACK"

\* What the node has taken so far: the header from memory, the rest in the
\* flash.
Stored ==
  [i \in 0 .. fwSize - 1 |-> IF i < HeaderSize THEN firstFwBytes[i] ELSE flash[i]]

\* The only firmware sent is the node's own, so a good end restarts the node;
\* and a pass that finds it storing has said so before.
OwnFirmware ==
  /\ Base = 0
  /\ \A f \in Carried(toNode) : f.cmd = "OTA_START" => f.storage = 0
  /\ nodeUp => otaState # "VALID"
  /\ otaState = "STORE" => lastOtaState = "STORE"

\* Pieces are stored one after the other, and none before the erase is over.
Aligned ==
  /\ otaState = "START" /\ erasing => flashPointer = 0
  /\ otaState \in {"START", "STORE"} => flashPointer = fwSize \/ Boundary(flashPointer)

\* The gateway reads and numbers the pieces of its file in step.
SenderOk ==
  /\ toMaster \in Seq(Replies)
  /\ fileReady => transferState = "IDLE"
  /\ transferState = "START" => frameNumber = 0
  /\ Running => /\ frameNumber = filePos
                /\ filePos = Len(file) \/ Boundary(filePos)

\* When a transfer begins nothing is under way to the node, no final answer is
\* under way from it, and what it was told before is short of its last piece.
\* An answer of it that will pass for one to this transfer is from a node that
\* has stored nothing.
BeforeStart ==
  fileReady \/ transferState = "START" =>
    /\ EndAck \notin Carried(toMaster)
    /\ nodeUp =>
         /\ Carried(toNode) = {}
         /\ otaState \in {"IDLE", "START", "STORE", "INVALID"}
         /\ otaState = "START" => flashPointer = 0
         /\ otaState = "STORE" => flashPointer # fwSize /\ (flashPointer = 0 \/ NoAck)

\* While it is running only frames of its own file are under way.
FramesOfFile ==
  Running /\ nodeUp =>
    \A f \in Carried(toNode) :
      \/ f = StartFrame(0, Len(file), Crc(file))
      \/ \E q \in Offsets(Len(file)) : f = SendFrame(Sequence(q), PieceData(file, q))

\* The node holds pieces of an earlier file, and the gateway waits for an
\* answer that only the new OTA_START can bring.
Blocked ==
  /\ otaState = "STORE" /\ flashPointer # fwSize
  /\ transferState = "WAIT_FOR_ACK" /\ NoAck
  /\ \A f \in Carried(toNode) : f.cmd = "OTA_START"

\* A node that missed the OTA_START and still works on an earlier declaration
\* has nothing but pieces of the present file, or gets none.
OldDeclaration ==
  Running /\ nodeUp /\ otaState \in {"START", "STORE", "CHECK"} /\ fwCrc # Crc(file) =>
    \/ Blocked
    \/ otaState \in {"START", "STORE"} /\ Assembled(Stored, flashPointer, file)
    \/ otaState = "CHECK" /\ (Assembled(Stored, fwSize, file) \/ Len(crc16) # flashPointer)

\* From the good answer to the verdict the file is in the flash, and no frame
\* that could change this is under way.
Verdict ==
  transferState = "VALID" \/ (Running /\ EndAck \in Carried(toMaster)) =>
    /\ Holds(0, file) /\ ~erasing
    /\ nodeUp => /\ otaState = "IDLE" /\ fwSize = 0
                 /\ \A f \in Carried(toNode) : f.cmd # "OTA_START"

\* The inductive invariant of the verdict.
TransferInv ==
  /\ OwnFirmware
  /\ Aligned
  /\ SenderOk
  /\ BeforeStart
  /\ FramesOfFile
  /\ OldDeclaration
  /\ Verdict

\* What was shown of the node and of the bus alone.
Grounds == NodeTypeOK /\ StorageInv /\ BusInv

\* Where pieces begin: at 0, a piece later, and never inside another piece.
LEMMA BoundaryFacts ==
  /\ Boundary(0)
  /\ \A p \in Nat : Boundary(p) => Boundary(p + PieceSize)
  /\ \A p, b \in Nat : Boundary(p) /\ Boundary(b) /\ p < b => p + PieceSize <= b
<1>0. PieceSize \in Nat /\ PieceSize >= 1
  BY FrameAssumption
<1>1. Boundary(0)
  <2>1. 0 = 0 * PieceSize /\ 0 \in 0 .. 0
    BY <1>0
  <2> QED BY <2>1 DEF Boundary
<1>2. ASSUME NEW p \in Nat, Boundary(p)
      PROVE  Boundary(p + PieceSize)
  <2>1. PICK j \in 0 .. p : p = j * PieceSize
    BY <1>2 DEF Boundary
  <2>2. p + PieceSize = (j + 1) * PieceSize
    BY <1>0, <2>1
  <2>3. j + 1 \in 0 .. p + PieceSize
    BY <1>0
  <2> QED BY <2>2, <2>3 DEF Boundary
<1>3. ASSUME NEW p \in Nat, NEW b \in Nat, Boundary(p), Boundary(b), p < b
      PROVE  p + PieceSize <= b
  <2>1. PICK j \in 0 .. p : p = j * PieceSize
    BY <1>3 DEF Boundary
  <2>2. PICK i \in 0 .. b : b = i * PieceSize
    BY <1>3 DEF Boundary
  <2>3. \A m, n, s \in Nat : m <= n => m * s <= n * s
    <3> SUFFICES ASSUME NEW m \in Nat, NEW n \in Nat, NEW s \in Nat, m <= n
                 PROVE  m * s <= n * s
      OBVIOUS
    <3>1. n * s = m * s + (n - m) * s
      OBVIOUS
    <3>2. (n - m) * s >= 0
      OBVIOUS
    <3>3. m * s \in Nat /\ n * s \in Nat /\ (n - m) * s \in Int
      OBVIOUS
    <3> QED BY <3>1, <3>2, <3>3
  <2>4. j + 1 <= i
    <3>1. i <= j => i * PieceSize <= j * PieceSize
      BY <1>0, <2>3
    <3> QED BY <1>3, <2>1, <2>2, <3>1
  <2>5. (j + 1) * PieceSize <= i * PieceSize
    BY <1>0, <2>3, <2>4
  <2>6. (j + 1) * PieceSize = p + PieceSize
    BY <1>0, <2>1
  <2> QED BY <2>2, <2>5, <2>6
<1> QED BY <1>1, <1>2, <1>3

\* What a queue carries after each of the things that happen to it.
LEMMA CarriedFacts ==
  ASSUME NEW S, NEW s \in Seq(S)
  PROVE  /\ Carried(s) \subseteq S
         /\ s # << >> => Head(s) \in Carried(s) /\ Carried(Tail(s)) \subseteq Carried(s)
         /\ \A x \in S : Carried(Append(s, x)) = Carried(s) \cup {x}
         /\ \A i \in 1 .. Len(s) : /\ Carried(Without(s, i)) \subseteq Carried(s)
                                   /\ Carried(Twice(s, i)) \subseteq Carried(s)
<1>1. Carried(s) \subseteq S
  BY DEF Carried
<1>2. s # << >> => Head(s) \in Carried(s) /\ Carried(Tail(s)) \subseteq Carried(s)
  BY DEF Carried
<1>3. \A x \in S : Carried(Append(s, x)) = Carried(s) \cup {x}
  BY DEF Carried
<1>4. \A m, n \in Int : 1 <= m /\ n <= Len(s) =>
        /\ SubSeq(s, m, n) \in Seq(S)
        /\ Carried(SubSeq(s, m, n)) \subseteq Carried(s)
  BY DEF Carried
<1>5. \A u, v \in Seq(S) : Carried(u) \subseteq Carried(s) /\ Carried(v) \subseteq Carried(s) =>
        Carried(u \o v) \subseteq Carried(s)
  <2>1. \A u, v \in Seq(S) : Carried(u \o v) \subseteq Carried(u) \cup Carried(v)
    BY DEF Carried
  <2> QED BY <2>1
<1>6. ASSUME NEW i \in 1 .. Len(s)
      PROVE  /\ Carried(Without(s, i)) \subseteq Carried(s)
             /\ Carried(Twice(s, i)) \subseteq Carried(s)
  <2>1. Len(s) \in Nat /\ i \in Int /\ i - 1 <= Len(s) /\ 1 <= i + 1 /\ 1 <= i /\ i <= Len(s)
    OBVIOUS
  <2>2. /\ SubSeq(s, 1, i - 1) \in Seq(S) /\ Carried(SubSeq(s, 1, i - 1)) \subseteq Carried(s)
        /\ SubSeq(s, i + 1, Len(s)) \in Seq(S)
        /\ Carried(SubSeq(s, i + 1, Len(s))) \subseteq Carried(s)
    BY <1>4, <2>1
  <2>3. /\ SubSeq(s, 1, i) \in Seq(S) /\ Carried(SubSeq(s, 1, i)) \subseteq Carried(s)
        /\ SubSeq(s, i, Len(s)) \in Seq(S)
        /\ Carried(SubSeq(s, i, Len(s))) \subseteq Carried(s)
    BY <1>4, <2>1
  <2>4. Carried(SubSeq(s, 1, i - 1) \o SubSeq(s, i + 1, Len(s))) \subseteq Carried(s)
    BY <1>5, <2>2, Zenon
  <2>5. Carried(SubSeq(s, 1, i) \o SubSeq(s, i, Len(s))) \subseteq Carried(s)
    BY <1>5, <2>3, Zenon
  <2> QED BY <2>4, <2>5, Zenon DEF Without, Twice
<1> QED BY <1>1, <1>2, <1>3, <1>6

\* Pieces of b, and one more of them, are pieces of b.
LEMMA AssembledGrows ==
  ASSUME NEW at, NEW after, NEW b, NEW p \in Nat, NEW n \in Nat,
         Boundary(p), p < n, n <= p + PieceSize,
         NEW q \in Offsets(Len(b)), Sequence(q) = Sequence(p),
         Assembled(at, p, b),
         \A i \in 0 .. p - 1 : after[i] = at[i],
         \A i \in p .. n - 1 : after[i] = PieceData(b, q)[i - p]
  PROVE  Assembled(after, n, b)
<1> SUFFICES ASSUME NEW o \in Offsets(n)
             PROVE  \E r \in Offsets(Len(b)) :
                      /\ Sequence(r) = Sequence(o)
                      /\ \A k \in 0 .. PieceSize - 1 : o + k < n => after[o + k] = PieceData(b, r)[k]
  BY DEF Assembled
<1>0. o \in Nat /\ o < n /\ Boundary(o) /\ PieceSize \in Nat
  BY Constants DEF Offsets
<1>1. CASE o < p
  <2>1. o \in Offsets(p)
    BY <1>0, <1>1 DEF Offsets
  <2>2. PICK r \in Offsets(Len(b)) :
          /\ Sequence(r) = Sequence(o)
          /\ \A k \in 0 .. PieceSize - 1 : o + k < p => at[o + k] = PieceData(b, r)[k]
    BY <2>1 DEF Assembled
  <2>3. o + PieceSize <= p
    BY <1>0, <1>1, BoundaryFacts
  <2>4. \A k \in 0 .. PieceSize - 1 : o + k < p /\ o + k \in 0 .. p - 1
    BY <1>0, <2>3
  <2>5. \A k \in 0 .. PieceSize - 1 : after[o + k] = PieceData(b, r)[k]
    BY <2>2, <2>4
  <2> QED BY <2>2, <2>5
<1>2. CASE o >= p
  <2>1. o = p
    <3>1. p < o => p + PieceSize <= o
      BY <1>0, BoundaryFacts
    <3> QED BY <1>0, <1>2, <3>1
  <2>2. \A k \in 0 .. PieceSize - 1 : o + k < n => o + k \in p .. n - 1 /\ (o + k) - p = k
    BY <1>0, <2>1
  <2>3. \A k \in 0 .. PieceSize - 1 : o + k < n => after[o + k] = PieceData(b, q)[k]
    BY <2>2
  <2> QED BY <2>1, <2>3
<1> QED BY <1>0, <1>1, <1>2

\* Nothing yet is anything.
LEMMA NothingAssembled == \A at, b : Assembled(at, 0, b)
BY DEF Assembled, Offsets

\* A piece the node takes follows what it has, and leaves that as it is.
LEMMA StoredGrows ==
  ASSUME StorageInv, Base = 0, NEW f \in NodeFrames, f.cmd = "OTA_SEND", StorePiece(f),
         ~erasing, otaState \in {"START", "STORE"}
  PROVE  /\ \A i \in 0 .. flashPointer - 1 : Stored'[i] = Stored[i]
         /\ \A i \in flashPointer .. (flashPointer + PieceLength) - 1 :
              Stored'[i] = f.data[i - flashPointer]
<1>1. OtaTypeOK /\ PieceExpected(f) /\ f.data \in [0 .. PieceSize - 1 -> Byte]
  BY FrameFacts DEF StorageInv, StorePiece
<1>2. /\ flash \in [Addr -> Byte] /\ fwSize \in Nat /\ flashPointer \in Nat /\ flashPointer < fwSize
      /\ fwSize <= Capacity /\ firstFwBytes \in [0 .. 1 -> Byte]
      /\ \A a \in Addr : a \in Int
  BY <1>1, Constants DEF OtaTypeOK, FlashTypeOK, Base, Addr, PieceExpected
<1>3. /\ PieceLength \in Nat /\ PieceLength > 0 /\ PieceLength <= PieceSize
      /\ flashPointer + PieceLength <= fwSize
      /\ KeptLength \in Nat /\ KeptLength <= PieceLength
      /\ FlashLength \in Nat /\ FlashLength = PieceLength - KeptLength
      /\ FlashAddress \in Nat /\ FlashAddress = flashPointer + KeptLength
      /\ FlashPart(f) \in [0 .. FlashLength - 1 -> Byte]
      /\ flashPointer < HeaderSize => flashPointer + KeptLength <= HeaderSize
  BY <1>1, <1>2, PieceFacts, Constants
<1>4. /\ flashPointer >= HeaderSize => KeptLength = 0
      /\ \A i \in 0 .. 1 : flashPointer <= i /\ i < flashPointer + PieceLength =>
           i < flashPointer + KeptLength
  BY <1>2, <1>3, Constants DEF KeptLength, MinOf
<1>5. \A i \in 0 .. 1 : firstFwBytes'[i] =
        IF flashPointer <= i /\ i < flashPointer + KeptLength
          THEN f.data[i - flashPointer] ELSE firstFwBytes[i]
  BY Constants DEF StorePiece, KeepHeader
<1>6. /\ \A a \in Addr : a < FlashAddress \/ a >= FlashAddress + FlashLength => flash'[a] = flash[a]
      /\ \A a \in Addr : FlashAddress <= a /\ a < FlashAddress + FlashLength =>
           flash'[a] = And(flash[a], FlashPart(f)[a - FlashAddress])
  BY <1>2, <1>3, ProgrammedFacts DEF StorePiece
<1>7. \A a \in Addr : a >= flashPointer => flash[a] = Erased
  BY <1>2 DEF StorageInv, ErasedAhead
<1>8. /\ fwSize' = fwSize
      /\ \A i \in 0 .. fwSize - 1 :
           /\ Stored[i] = IF i < HeaderSize THEN firstFwBytes[i] ELSE flash[i]
           /\ Stored'[i] = IF i < HeaderSize THEN firstFwBytes'[i] ELSE flash'[i]
  BY DEF StorePiece, Stored
<1>9. ASSUME NEW i \in 0 .. flashPointer - 1
      PROVE  Stored'[i] = Stored[i]
  <2>1. i \in 0 .. fwSize - 1 /\ i \in Addr /\ i \in Nat /\ i < flashPointer
    BY <1>2, Constants DEF Addr
  <2>2. CASE i < HeaderSize
    BY <1>2, <1>5, <1>8, <2>1, <2>2, Constants
  <2>3. CASE i >= HeaderSize
    <3>1. i < FlashAddress
      BY <1>2, <1>3, <2>1
    <3>2. flash'[i] = flash[i]
      BY <1>6, <2>1, <3>1
    <3> QED BY <1>8, <2>1, <2>3, <3>2, Constants
  <2> QED BY <2>1, <2>2, <2>3, Constants
<1>10. ASSUME NEW i \in flashPointer .. (flashPointer + PieceLength) - 1
       PROVE  Stored'[i] = f.data[i - flashPointer]
  <2>1. /\ i \in 0 .. fwSize - 1 /\ i \in Addr /\ i \in Nat
        /\ flashPointer <= i /\ i < flashPointer + PieceLength
    BY <1>2, <1>3, Constants DEF Addr
  <2>2. CASE i < HeaderSize
    BY <1>4, <1>5, <1>8, <2>1, <2>2, Constants
  <2>3. CASE i >= HeaderSize
    <3>1. FlashAddress <= i /\ i < FlashAddress + FlashLength
      BY <1>2, <1>3, <1>4, <2>1, <2>3, Constants
    <3>2. i - FlashAddress \in 0 .. FlashLength - 1
          /\ KeptLength + (i - FlashAddress) = i - flashPointer
          /\ i - flashPointer \in 0 .. PieceSize - 1
      BY <1>2, <1>3, <2>1, <3>1, Constants
    <3>3. FlashPart(f)[i - FlashAddress] = f.data[i - flashPointer]
      BY <3>2 DEF FlashPart
    <3>4. flash'[i] = And(Erased, f.data[i - flashPointer])
      BY <1>6, <1>7, <2>1, <3>1, <3>3
    <3>5. f.data[i - flashPointer] \in Byte
      BY <1>1, <3>2
    <3>6. flash'[i] = f.data[i - flashPointer]
      BY <3>4, <3>5, CellAssumption
    <3> QED BY <1>8, <2>1, <2>3, <3>6, Constants
  <2> QED BY <2>1, <2>2, <2>3, Constants
<1> QED BY <1>9, <1>10

\* The first piece reaches into the flash, so none is taken during the erase.
LEMMA NoneDuringErase ==
  ASSUME StorageInv, BeyondHeader, NEW f \in NodeFrames, f.cmd = "OTA_SEND",
         otaState = "START", erasing, flashPointer = 0
  PROVE  ~StorePiece(f)
<1> SUFFICES ASSUME StorePiece(f) PROVE FALSE
  OBVIOUS
<1>1. OtaTypeOK /\ PieceExpected(f) /\ f.data \in [0 .. PieceSize - 1 -> Byte]
  BY FrameFacts DEF StorageInv, StorePiece
<1>2. fwSize \in Nat /\ fwSize > 2 /\ PieceSize > 2 /\ PieceSize \in Nat
  BY <1>1, FrameAssumption, Constants DEF StorageInv, Declared, BeyondHeader, OtaTypeOK
<1>3. PieceLength \in Nat /\ PieceLength > 2
  BY <1>2 DEF PieceLength, MinOf
<1>4. KeptLength = 2
  BY <1>3, Constants DEF KeptLength, MinOf
<1>5. FlashLength > 0
  BY <1>3, <1>4 DEF FlashLength
<1> QED BY <1>5 DEF StorePiece, Answers

\* Nothing of the invariant is lost when frames are, when the node refuses
\* something, or when it goes down.
LEMMA LessUnderWay ==
  ASSUME TransferInv,
         UNCHANGED <<flash, erasing, otaState, firstFwBytes, fwSize, fwCrc, flashPointer,
                     flashBlockBeginAddress, crc16,
                     transferState, file, filePos, frameNumber>>,
         nodeUp' => nodeUp, fileReady' => fileReady,
         otaState' = "STORE" => lastOtaState' = "STORE",
         toMaster' \in Seq(Replies),
         Carried(toNode') \subseteq Carried(toNode),
         NEW reply, reply.resp # "ACK",
         Carried(toMaster') \subseteq Carried(toMaster) \cup {reply}
  PROVE  TransferInv'
<1>1. EndAck.resp = "ACK"
  BY DEF EndAck, Reply
<1>2. OwnFirmware' /\ Aligned' /\ SenderOk'
  BY DEF TransferInv, OwnFirmware, Aligned, SenderOk, Running, Base
<1>3. NoAck => NoAck'
  BY DEF NoAck
<1>4. EndAck \in Carried(toMaster') => EndAck \in Carried(toMaster)
  BY <1>1
<1>5. BeforeStart'
  BY <1>3, <1>4 DEF TransferInv, BeforeStart, EndAck
<1>6. FramesOfFile'
  BY DEF TransferInv, FramesOfFile, Running
<1>7. OldDeclaration'
  <2>1. Stored' = Stored
    BY DEF Stored
  <2>2. Blocked => Blocked'
    BY <1>3 DEF Blocked
  <2> QED BY <2>1, <2>2 DEF TransferInv, OldDeclaration, Running
<1>8. Verdict'
  BY <1>4 DEF TransferInv, Verdict, Running, Holds, EndAck
<1> QED BY <1>2, <1>5, <1>6, <1>7, <1>8 DEF TransferInv

\* Equal checksums mean equal images, for an image that fits the memory.
LEMMA SameImage ==
  ASSUME NEW a \in Images, NEW b \in Images, Crc(a) = Crc(b), Len(a) <= ProgramMemorySize
  PROVE  a = b
<1>1. a \in Seq(Byte) /\ Len(a) \in 0 .. ProgramMemorySize
  BY FrameAssumption, Constants
<1>2. a \in [1 .. Len(a) -> Byte]
  BY <1>1
<1> QED BY <1>1, <1>2, CrcAssumption

\* A good verdict of the node is on the file being sent: what the checksum
\* accepts is the image declared, and one put together from pieces of the file
\* is the file.
LEMMA VerdictIsOnFile ==
  ASSUME StorageInv, StorageInv', ReadsAnswered, ImagesApart, Base = 0, file \in Images,
         RunFinishCheck, otaState' = "VALID",
         \/ fwCrc = Crc(file)
         \/ Assembled(Stored, fwSize, file)
         \/ Len(crc16) # flashPointer
  PROVE  \A i \in 0 .. Len(file) - 1 : flash'[0 + i] = file[i + 1]
<1>1. OtaTypeOK /\ otaState = "CHECK" /\ fwCrc' = fwCrc /\ fwSize' = fwSize /\ Base' = Base
  BY DEF StorageInv, RunFinishCheck, Base
<1>2. fwSize \in Nat /\ fwSize <= ProgramMemorySize
  BY <1>1, Constants DEF OtaTypeOK
<1>3. Crc(crc16') = fwCrc
  BY DEF RunFinishCheck, FinishCheck
<1>4. PICK img \in Images : /\ fwCrc = Crc(img) /\ fwSize = Len(img)
                            /\ \A i \in 0 .. Len(img) - 1 : flash'[0 + i] = img[i + 1]
  BY <1>1 DEF StorageInv, ValidMeansStored, Holds, Base
<1>5. img = file
  <2>1. CASE fwCrc = Crc(file)
    BY <1>2, <1>4, <2>1, SameImage
  <2>2. /\ crc16' \in Seq(Byte) /\ Len(crc16') \in 0 .. ProgramMemorySize
        /\ crc16' \in [1 .. Len(crc16') -> Byte]
    BY <1>2, FedAtEnd, Constants
  <2>3. crc16' = img
    BY <1>3, <1>4, <2>2, CrcAssumption
  <2>4. CASE Len(crc16) # flashPointer
    BY <1>4, <2>3, <2>4, FedAtEnd
  <2>5. CASE Assembled(Stored, fwSize, file)
    <3>1. \A i \in 0 .. fwSize - 1 :
            img[i + 1] = IF i < HeaderSize THEN firstFwBytes[i] ELSE flash[0 + i]
      BY <1>4, <2>3, FedAtEnd
    <3>2. \A i \in 0 .. fwSize - 1 :
            img[i + 1] = IF i < HeaderSize THEN firstFwBytes[i] ELSE flash[i]
      BY <1>2, <3>1
    <3>3. BytesOf(img) = Stored
      BY <1>4, <3>2 DEF BytesOf, Stored
    <3> QED BY <1>4, <2>5, <3>3 DEF ImagesApart
  <2> QED BY <2>1, <2>4, <2>5
<1> QED BY <1>4, <1>5

\* An answer of the node joins the ones under way.
LEMMA AnswerCarried ==
  ASSUME toMaster \in Seq(Replies), NEW reply \in Replies \cup {NoReply}, Answer(reply)
  PROVE  /\ toMaster' \in Seq(Replies)
         /\ Carried(toMaster') \subseteq Carried(toMaster) \cup {reply}
         /\ reply = NoReply => toMaster' = toMaster
<1>1. CASE reply = NoReply
  BY <1>1 DEF Answer
<1>2. CASE reply # NoReply
  <2>1. reply \in Replies /\ toMaster' = Append(toMaster, reply)
    BY <1>2 DEF Answer
  <2>2. Carried(Append(toMaster, reply)) = Carried(toMaster) \cup {reply}
    BY <2>1, CarriedFacts
  <2> QED BY <1>2, <2>1, <2>2
<1> QED BY <1>1, <1>2

\* A frame the node takes or refuses.
LEMMA ReceivesKeeps ==
  ASSUME Grounds, BeyondHeader, TransferInv, NodeReceives
  PROVE  TransferInv'
<1> DEFINE f == Head(toNode)
<1>1. PICK reply \in Replies \cup {NoReply} : HandleRxFrame(f, reply) /\ Answer(reply)
  BY DEF NodeReceives
<1>2. /\ f \in Carried(toNode) /\ f \in NodeFrames /\ Carried(toNode') \subseteq Carried(toNode)
  <2>1. toNode \in Seq(NodeFrames) /\ toNode # << >> /\ toNode' = Tail(toNode)
    BY DEF NodeReceives, Grounds, BusInv, BusCarriesFrames
  <2> QED BY <2>1, CarriedFacts
<1>3. nodeUp /\ Carried(toNode) # {}
  BY <1>1, <1>2 DEF HandleRxFrame
<1>4. /\ toMaster' \in Seq(Replies)
      /\ Carried(toMaster') \subseteq Carried(toMaster) \cup {reply}
      /\ reply = NoReply => toMaster' = toMaster
  BY <1>1, AnswerCarried DEF TransferInv, SenderOk
<1>5. /\ UNCHANGED <<transferState, file, filePos, frameNumber, fileReady>>
      /\ lastOtaState' = lastOtaState
  BY <1>1 DEF NodeReceives, gwVars, HandleRxFrame
<1>6. ~fileReady /\ transferState # "START"
  BY <1>3 DEF TransferInv, BeforeStart
<1>7. StorageInv /\ OtaTypeOK /\ Base = 0
  BY DEF Grounds, TransferInv, OwnFirmware, StorageInv
<1> HIDE DEF f
<1>8. CASE f.cmd = "OTA_START" /\ OtaStart(f) /\ reply = NoReply /\ nodeUp' = nodeUp
  <2>1. /\ otaState' = "START" /\ flashPointer' = 0 /\ fwCrc' = f.crc
        /\ flashBlockBeginAddress' = f.storage * BlockSize
    BY <1>8 DEF OtaStart
  <2>2. f.storage = 0 /\ 0 * BlockSize = 0
    BY <1>2, <1>8, Constants DEF TransferInv, OwnFirmware
  <2>3. OwnFirmware'
    BY <1>2, <2>1, <2>2 DEF TransferInv, OwnFirmware, Base
  <2>4. Aligned'
    BY <2>1, BoundaryFacts DEF Aligned
  <2>5. SenderOk' /\ BeforeStart'
    BY <1>4, <1>5, <1>6 DEF TransferInv, SenderOk, BeforeStart, Running
  <2>6. FramesOfFile'
    BY <1>2, <1>5, <1>8 DEF TransferInv, FramesOfFile, Running
  <2>7. OldDeclaration'
    <3>1. Running => f = StartFrame(0, Len(file), Crc(file))
      BY <1>2, <1>3, <1>8 DEF TransferInv, FramesOfFile, SendFrame
    <3>2. Running => fwCrc' = Crc(file)
      BY <2>1, <3>1 DEF StartFrame
    <3> QED BY <1>5, <3>2 DEF OldDeclaration, Running
  <2>8. Verdict'
    BY <1>2, <1>3, <1>4, <1>5, <1>8 DEF TransferInv, Verdict, Running
  <2> QED BY <2>3, <2>4, <2>5, <2>6, <2>7, <2>8 DEF TransferInv
<1>9. CASE /\ UNCHANGED <<flashVars, otaVars>> /\ (nodeUp' => nodeUp)
           /\ reply.resp # "ACK"
  <2>1. UNCHANGED <<flash, erasing, otaState, firstFwBytes, fwSize, fwCrc, flashPointer,
                    flashBlockBeginAddress, crc16>>
    BY <1>9 DEF flashVars, otaVars
  <2>2. otaState' = "STORE" => lastOtaState' = "STORE"
    BY <1>5, <2>1 DEF TransferInv, OwnFirmware
  <2> QED BY <1>2, <1>4, <1>5, <1>9, <2>1, <2>2, LessUnderWay
<1>10. CASE f.cmd = "OTA_SEND" /\ StorePiece(f) /\ reply = Reply("OTA_SEND", "ACK") /\ nodeUp' = nodeUp
  <2>1. /\ UNCHANGED <<otaState, erasing, fwSize, fwCrc, flashBlockBeginAddress, crc16>>
        /\ flashPointer' = flashPointer + PieceLength
        /\ PieceExpected(f) /\ Sequence(flashPointer) = f.seq
    BY <1>10 DEF StorePiece, PieceExpected
  <2>2. f.data \in [0 .. PieceSize - 1 -> Byte]
    BY <1>2, <1>10, FrameFacts
  <2>3. /\ PieceLength \in Nat /\ PieceLength > 0 /\ PieceLength <= PieceSize
        /\ flashPointer + PieceLength <= fwSize /\ fwSize \in Nat /\ flashPointer \in Nat
        /\ flashPointer < fwSize
    BY <1>7, <2>1, <2>2, PieceFacts, Constants DEF OtaTypeOK, PieceExpected
  <2>4. ~(otaState = "START" /\ erasing)
    BY <1>2, <1>7, <1>10, NoneDuringErase DEF TransferInv, Aligned
  <2>5. otaState \in {"START", "STORE"} => Boundary(flashPointer)
    BY <2>3 DEF TransferInv, Aligned
  <2>6. Aligned'
    <3>1. PieceLength = PieceSize \/ flashPointer + PieceLength = fwSize
      BY <2>3, Constants DEF PieceLength, MinOf
    <3> QED BY <2>1, <2>3, <2>4, <2>5, <3>1, BoundaryFacts DEF Aligned
  <2>7. OwnFirmware'
    BY <1>2, <1>5, <1>10, <2>1 DEF TransferInv, OwnFirmware, Base
  <2>8. SenderOk' /\ BeforeStart'
    BY <1>4, <1>5, <1>6 DEF TransferInv, SenderOk, BeforeStart, Running
  <2>9. FramesOfFile'
    BY <1>2, <1>5, <1>10 DEF TransferInv, FramesOfFile, Running
  <2>10. Verdict'
    <3>1. reply # EndAck
      BY <1>10 DEF Reply, EndAck
    <3>2. EndAck \in Carried(toMaster') => EndAck \in Carried(toMaster)
      BY <1>4, <3>1
    <3> QED BY <1>3, <1>5, <2>3, <3>2 DEF TransferInv, Verdict, Running, EndAck
  <2>11. OldDeclaration'
    <3> SUFFICES ASSUME Running, otaState \in {"START", "STORE", "CHECK"}, fwCrc # Crc(file)
                 PROVE  \/ otaState \in {"START", "STORE"} /\ Assembled(Stored, flashPointer, file)'
                        \/ otaState = "CHECK" /\ Len(crc16) # flashPointer'
      BY <1>5, <2>1 DEF OldDeclaration, Running
    <3>1. CASE otaState = "CHECK"
      <4>1. Len(crc16) \in Nat /\ Len(crc16) <= flashPointer
        BY <1>7, <3>1 DEF StorageInv, FedMatches, OtaTypeOK
      <4> QED BY <2>1, <2>3, <3>1, <4>1
    <3>2. CASE otaState \in {"START", "STORE"}
      <4>1. PICK q \in Offsets(Len(file)) : f = SendFrame(Sequence(q), PieceData(file, q))
        BY <1>2, <1>3, <1>10 DEF TransferInv, FramesOfFile, StartFrame
      <4>2. f.seq = Sequence(q) /\ f.data = PieceData(file, q)
        BY <4>1 DEF SendFrame
      <4>3. ~Blocked
        BY <1>2, <1>10 DEF Blocked
      <4>4. Assembled(Stored, flashPointer, file)
        BY <1>3, <3>2, <4>3 DEF TransferInv, OldDeclaration
      <4>5. /\ \A i \in 0 .. flashPointer - 1 : Stored'[i] = Stored[i]
            /\ \A i \in flashPointer .. (flashPointer + PieceLength) - 1 :
                 Stored'[i] = PieceData(file, q)[i - flashPointer]
        <5>1. ~erasing
          BY <1>7, <2>4, <3>2 DEF StorageInv, Ready
        <5> QED BY <1>2, <1>7, <1>10, <3>2, <4>2, <5>1, StoredGrows
      <4>6. Assembled(Stored', flashPointer + PieceLength, file)
        <5> HIDE DEF Stored
        <5>1. /\ flashPointer < flashPointer + PieceLength /\ flashPointer + PieceLength \in Nat
              /\ flashPointer + PieceLength <= flashPointer + PieceSize
          BY <2>3, Constants
        <5>2. Sequence(q) = Sequence(flashPointer)
          BY <2>1, <4>2
        <5> QED BY <2>3, <2>5, <3>2, <4>4, <4>5, <5>1, <5>2, AssembledGrows
      <4> QED BY <1>5, <2>1, <3>2, <4>6
    <3> QED BY <3>1, <3>2
  <2> QED BY <2>6, <2>7, <2>8, <2>9, <2>10, <2>11 DEF TransferInv
<1>11. CASE /\ f.cmd = "OTA_SEND" /\ StorePieceFails(f) /\ reply = Reply("OTA_SEND", "NACK")
            /\ nodeUp' = nodeUp
  <2>1. /\ otaState' = "INVALID" /\ Base' = Base /\ erasing' = erasing /\ flashPointer < fwSize
    BY <1>11 DEF StorePieceFails, PieceExpected, Base
  <2>2. OwnFirmware' /\ Aligned'
    BY <1>2, <2>1 DEF TransferInv, OwnFirmware, Aligned
  <2>3. SenderOk' /\ BeforeStart'
    BY <1>4, <1>5, <1>6 DEF TransferInv, SenderOk, BeforeStart, Running
  <2>4. FramesOfFile' /\ OldDeclaration'
    BY <1>2, <1>5, <1>11, <2>1 DEF TransferInv, FramesOfFile, OldDeclaration, Running
  <2>5. Verdict'
    <3>1. reply # EndAck /\ ~(flashPointer < 0) /\ OtaTypeOK
      BY <1>7, <1>11, Constants DEF Reply, EndAck, OtaTypeOK
    <3>2. EndAck \in Carried(toMaster') => EndAck \in Carried(toMaster)
      BY <1>4, <3>1
    <3> QED BY <1>3, <1>5, <2>1, <3>1, <3>2 DEF TransferInv, Verdict, Running, EndAck
  <2> QED BY <2>2, <2>3, <2>4, <2>5 DEF TransferInv
<1>12. \/ f.cmd = "OTA_START" /\ OtaStart(f) /\ reply = NoReply /\ nodeUp' = nodeUp
       \/ f.cmd = "OTA_SEND" /\ StorePiece(f) /\ reply = Reply("OTA_SEND", "ACK") /\ nodeUp' = nodeUp
       \/ f.cmd = "OTA_SEND" /\ StorePieceFails(f) /\ reply = Reply("OTA_SEND", "NACK") /\ nodeUp' = nodeUp
       \/ /\ UNCHANGED <<flashVars, otaVars>> /\ (nodeUp' => nodeUp)
          /\ reply \in {NoReply, Reply("OTA_START", "NACK"), Reply("OTA_SEND", "NACK")}
  BY <1>1, <1>3, Zenon DEF HandleRxFrame, OtaStartRefused, StorePieceRefused
<1>13. \A r \in {NoReply, Reply("OTA_START", "NACK"), Reply("OTA_SEND", "NACK")} : r.resp # "ACK"
  BY DEF NoReply, Reply
<1> QED BY <1>8, <1>9, <1>10, <1>11, <1>12, <1>13

\* A pass of the node.
LEMMA RunsKeeps ==
  ASSUME Grounds, StorageInv', ReadsAnswered, ImagesApart, BeyondHeader, TransferInv, NodeRuns
  PROVE  TransferInv'
<1>1. PICK reply \in Replies \cup {NoReply} : OtaPass(reply) /\ Answer(reply)
  BY DEF NodeRuns
<1>2. /\ UNCHANGED <<transferState, file, filePos, frameNumber, fileReady, toNode>>
      /\ nodeUp /\ OtaRun /\ lastOtaState' = otaState'
      /\ reply = Decide(lastOtaState, otaState')
      /\ nodeUp' = ~(otaState' = "VALID" /\ Base' = 0)
  BY <1>1 DEF NodeRuns, gwVars, OtaPass, IsOwnFw, Base
<1>3. /\ toMaster' \in Seq(Replies)
      /\ Carried(toMaster') \subseteq Carried(toMaster) \cup {reply}
      /\ reply = NoReply => toMaster' = toMaster
  BY <1>1, AnswerCarried DEF TransferInv, SenderOk
<1>4. /\ StorageInv /\ OtaTypeOK /\ Base = 0 /\ otaState \in OtaState
      /\ fwSize \in Nat /\ flashPointer \in Nat
  BY Constants DEF Grounds, TransferInv, OwnFirmware, StorageInv, OtaTypeOK
<1>5. Running => file \in Images
  BY DEF Grounds, BusInv, GatewayReadsImage, Running
<1>6. SenderOk'
  BY <1>2, <1>3 DEF TransferInv, SenderOk, Running
<1>7. FramesOfFile'
  BY <1>2 DEF TransferInv, FramesOfFile, Running
<1>8. /\ otaState # "IDLE" => transferState # "VALID" /\ ~(Running /\ EndAck \in Carried(toMaster))
      /\ otaState = "CHECK" => ~fileReady /\ transferState # "START"
  BY <1>2 DEF TransferInv, Verdict, BeforeStart
<1>9. ASSUME otaState # "IDLE", reply # EndAck
      PROVE  Verdict'
  <2>1. EndAck \in Carried(toMaster') => EndAck \in Carried(toMaster)
    BY <1>3, <1>9
  <2> QED BY <1>2, <1>8, <1>9, <2>1 DEF Verdict, Running, EndAck
<1>10. CASE RunStalled
  <2>1. /\ otaState \in {"START", "STORE"} /\ otaState' = "INVALID" /\ Base' = Base
    BY <1>10 DEF RunStalled, Stalled, Base
  <2>2. reply = Reply("OTA_END", "NACK") /\ reply # EndAck
    BY <1>2, <2>1 DEF Decide, EndAck, Reply
  <2>3. OwnFirmware' /\ Aligned' /\ OldDeclaration'
    BY <1>2, <2>1 DEF TransferInv, OwnFirmware, Aligned, OldDeclaration
  <2>4. BeforeStart'
    BY <1>2, <1>3, <2>1, <2>2 DEF TransferInv, BeforeStart, EndAck
  <2> QED BY <1>6, <1>7, <1>9, <2>1, <2>2, <2>3, <2>4 DEF TransferInv
<1>11. CASE RunIdle
  <2>1. /\ otaState \in {"IDLE", "START", "STORE"}
        /\ UNCHANGED <<flash, erasing, otaState, firstFwBytes, fwSize, fwCrc, flashPointer,
                       flashBlockBeginAddress, crc16>>
    BY <1>11 DEF RunIdle, flashVars, otaVars
  <2>2. reply = NoReply
    BY <1>2, <2>1 DEF Decide, TransferInv, OwnFirmware
  <2>3. NoReply.resp # "ACK"
    BY DEF NoReply, Reply
  <2> QED BY <1>2, <1>3, <2>1, <2>2, <2>3, LessUnderWay
<1>12. CASE RunStart
  <2>1. /\ otaState = "START" /\ otaState' = "STORE" /\ ~erasing /\ ~erasing'
        /\ UNCHANGED <<flash, firstFwBytes, fwSize, fwCrc, flashPointer,
                       flashBlockBeginAddress, crc16>>
    BY <1>12 DEF RunStart, Busy, flashVars
  <2>2. reply # EndAck
    BY <1>2, <2>1 DEF Decide, EndAck, NoReply, Reply
  <2>3. fwSize > 0
    BY <1>4, <2>1, FrameAssumption DEF StorageInv, Declared
  <2>4. OwnFirmware' /\ Aligned'
    BY <1>2, <2>1 DEF TransferInv, OwnFirmware, Aligned, Base
  <2>5. BeforeStart'
    BY <1>2, <1>3, <2>1, <2>2, <2>3 DEF TransferInv, BeforeStart, EndAck
  <2>6. OldDeclaration'
    <3>1. Stored' = Stored /\ ~Blocked
      BY <2>1 DEF Stored, Blocked
    <3> QED BY <1>2, <2>1, <3>1 DEF TransferInv, OldDeclaration, Running
  <2> QED BY <1>6, <1>7, <1>9, <2>1, <2>2, <2>4, <2>5, <2>6 DEF TransferInv
<1>13. CASE RunStore
  <2>1. /\ otaState = "STORE" /\ otaState' = "CHECK" /\ flashPointer = fwSize
        /\ UNCHANGED <<flash, erasing, firstFwBytes, fwSize, fwCrc, flashBlockBeginAddress>>
    BY <1>13 DEF RunStore, flashVars
  <2>2. reply # EndAck
    BY <1>2, <2>1 DEF Decide, EndAck, NoReply, Reply
  <2>3. OwnFirmware' /\ Aligned'
    BY <1>2, <2>1 DEF TransferInv, OwnFirmware, Aligned, Base
  <2>4. BeforeStart'
    BY <1>2, <2>1 DEF TransferInv, BeforeStart
  <2>5. OldDeclaration'
    <3>1. Stored' = Stored /\ ~Blocked
      BY <2>1 DEF Stored, Blocked
    <3> QED BY <1>2, <2>1, <3>1 DEF TransferInv, OldDeclaration, Running
  <2> QED BY <1>6, <1>7, <1>9, <2>1, <2>2, <2>3, <2>4, <2>5 DEF TransferInv
<1>14. CASE RunCheckChunk
  <2>1. /\ otaState = "CHECK" /\ otaState' = "CHECK" /\ flashPointer < fwSize
        /\ flashPointer' = flashPointer + CheckLength
        /\ UNCHANGED <<flash, erasing, firstFwBytes, fwSize, fwCrc, flashBlockBeginAddress>>
    BY <1>14 DEF RunCheckChunk, flashVars
  <2>2. reply # EndAck
    BY <1>2, <2>1 DEF Decide, EndAck, NoReply, Reply
  <2>3. OwnFirmware' /\ Aligned' /\ BeforeStart'
    BY <1>2, <1>8, <2>1 DEF TransferInv, OwnFirmware, Aligned, Base, BeforeStart
  <2>4. Len(crc16) # flashPointer => Len(crc16') # flashPointer'
    <3>1. PICK readOk \in Answers("read") : crc16' = crc16 \o CheckChunk(readOk)
      BY <1>14 DEF RunCheckChunk
    <3>2. readOk \in BOOLEAN /\ crc16 \in Seq(Byte)
      BY <1>4, <3>1 DEF Answers, OtaTypeOK
    <3>3. /\ CheckLength \in Nat
          /\ CheckChunk(readOk) \in Seq(Byte) /\ Len(CheckChunk(readOk)) = CheckLength
      BY <1>4, <2>1, <3>2, CheckFacts
    <3>4. Len(crc16') = Len(crc16) + CheckLength
      <4>1. \A s, t \in Seq(Byte) : Len(s \o t) = Len(s) + Len(t)
        OBVIOUS
      <4> QED BY <3>1, <3>2, <3>3, <4>1, Zenon
    <3>5. Len(crc16) \in Nat
      BY <3>2
    <3> QED BY <1>4, <2>1, <3>3, <3>4, <3>5
  <2>5. OldDeclaration'
    <3>1. Stored' = Stored /\ ~Blocked
      BY <2>1 DEF Stored, Blocked
    <3> QED BY <1>2, <2>1, <2>4, <3>1 DEF TransferInv, OldDeclaration, Running
  <2> QED BY <1>6, <1>7, <1>9, <2>1, <2>2, <2>3, <2>5 DEF TransferInv
<1>15. CASE RunFinishCheck
  <2>1. /\ otaState = "CHECK" /\ otaState' \in {"VALID", "INVALID"}
        /\ UNCHANGED <<erasing, flashBlockBeginAddress>> /\ ~erasing
    BY <1>4, <1>15 DEF RunFinishCheck, FinishCheck, StorageInv, Ready
  <2>2. Base' = 0
    BY <1>4, <2>1 DEF Base
  <2>3. OwnFirmware'
    BY <1>2, <2>1, <2>2 DEF TransferInv, OwnFirmware
  <2>4. Aligned' /\ BeforeStart' /\ OldDeclaration'
    BY <1>2, <1>8, <2>1 DEF Aligned, BeforeStart, OldDeclaration
  <2>5. CASE otaState' = "INVALID"
    <3>1. reply # EndAck
      BY <1>2, <2>5 DEF Decide, EndAck, Reply
    <3> QED BY <1>6, <1>7, <1>9, <2>1, <2>3, <2>4, <3>1 DEF TransferInv
  <2>6. CASE otaState' = "VALID"
    <3>1. ~nodeUp' /\ transferState # "VALID"
      BY <1>2, <1>8, <2>1, <2>2, <2>6
    <3>2. ASSUME Running
          PROVE  \A i \in 0 .. Len(file) - 1 : flash'[0 + i] = file[i + 1]
      <4>1. \/ fwCrc = Crc(file)
            \/ Assembled(Stored, fwSize, file)
            \/ Len(crc16) # flashPointer
        BY <1>2, <2>1, <3>2 DEF TransferInv, OldDeclaration, Blocked
      <4> QED BY <1>4, <1>5, <1>15, <2>6, <3>2, <4>1, VerdictIsOnFile
    <3>3. Verdict'
      BY <1>2, <2>1, <3>1, <3>2 DEF Verdict, Holds, Running
    <3> QED BY <1>6, <1>7, <2>3, <2>4, <3>3 DEF TransferInv
  <2> QED BY <2>1, <2>5, <2>6
<1>16. CASE RunValid
  BY <1>2, <1>16 DEF RunValid, TransferInv, OwnFirmware
<1>17. CASE RunInvalid
  <2>1. otaState = "INVALID" /\ otaState' = "IDLE" /\ flashBlockBeginAddress' = 0
    BY <1>17 DEF RunInvalid
  <2>2. reply # EndAck
    BY <1>2, <2>1 DEF Decide, EndAck, NoReply, Reply
  <2>3. OwnFirmware' /\ Aligned' /\ OldDeclaration'
    BY <1>2, <2>1 DEF TransferInv, OwnFirmware, Aligned, OldDeclaration, Base
  <2>4. BeforeStart'
    BY <1>2, <1>3, <2>1, <2>2 DEF TransferInv, BeforeStart, EndAck
  <2> QED BY <1>6, <1>7, <1>9, <2>1, <2>2, <2>3, <2>4 DEF TransferInv
<1> QED BY <1>2, <1>10, <1>11, <1>12, <1>13, <1>14, <1>15, <1>16, <1>17 DEF OtaRun

\* The node starts up, with nothing under way to it and nothing declared.
LEMMA BootsKeeps ==
  ASSUME Grounds, TransferInv, NodeBoots
  PROVE  TransferInv'
<1>1. /\ otaState' = "IDLE" /\ lastOtaState' = "IDLE" /\ fwSize' = 0 /\ toNode' = << >>
      /\ flashBlockBeginAddress' = 0
      /\ UNCHANGED <<flash, erasing, toMaster, transferState, file, filePos, frameNumber, fileReady>>
  BY DEF NodeBoots, NodeBoot, gwVars, flashVars
<1>2. Carried(toNode') = {}
  BY <1>1 DEF Carried
<1>3. OwnFirmware' /\ Aligned'
  BY <1>1, <1>2 DEF OwnFirmware, Aligned, Base
<1>4. SenderOk' /\ BeforeStart'
  BY <1>1, <1>2 DEF TransferInv, SenderOk, BeforeStart, Running
<1>5. FramesOfFile' /\ OldDeclaration'
  BY <1>1, <1>2 DEF FramesOfFile, OldDeclaration
<1>6. Verdict'
  BY <1>1, <1>2 DEF TransferInv, Verdict, Running, Holds
<1> QED BY <1>3, <1>4, <1>5, <1>6 DEF TransferInv

\* An erase ends: the node has stored nothing by then.
LEMMA EraseEnds ==
  ASSUME Grounds, TransferInv, FlashFinishes
  PROVE  TransferInv'
<1>1. /\ erasing /\ ~erasing'
      /\ UNCHANGED <<otaState, firstFwBytes, fwSize, fwCrc, flashPointer, flashBlockBeginAddress,
                     crc16, lastOtaState, nodeUp, toNode, toMaster, transferState, file, filePos,
                     frameNumber, fileReady>>
  BY DEF FlashFinishes, FlashStep, EraseDone, otaVars, gwVars, busVars
<1>2. otaState \notin {"STORE", "CHECK"}
  BY <1>1 DEF Grounds, StorageInv, Ready
<1>3. OwnFirmware' /\ Aligned'
  BY <1>1 DEF TransferInv, OwnFirmware, Aligned, Base
<1>4. SenderOk' /\ BeforeStart' /\ FramesOfFile'
  BY <1>1 DEF TransferInv, SenderOk, BeforeStart, FramesOfFile, Running, NoAck
<1>5. OldDeclaration'
  <2>1. otaState = "START" => flashPointer' = 0
    BY <1>1 DEF TransferInv, Aligned
  <2>2. otaState = "START" => Assembled(Stored', flashPointer', file')
    BY <2>1, NothingAssembled
  <2> QED BY <1>1, <1>2, <2>2 DEF OldDeclaration
<1>6. Verdict'
  BY <1>1 DEF TransferInv, Verdict, Running
<1> QED BY <1>3, <1>4, <1>5, <1>6 DEF TransferInv

\* An answer reaches the gateway: none is under way that it may not believe.
LEMMA AnswerKeeps ==
  ASSUME Grounds, TransferInv, GatewayReceives
  PROVE  TransferInv'
<1> DEFINE r == Head(toMaster)
<1>1. /\ UNCHANGED <<flash, erasing, otaState, firstFwBytes, fwSize, fwCrc, flashPointer,
                     flashBlockBeginAddress, crc16, lastOtaState, nodeUp, toNode, fileReady,
                     file, filePos, frameNumber>>
      /\ HandleOtaCanFrame(r)
  BY DEF GatewayReceives, HandleOtaCanFrame, nodeVars, flashVars, otaVars
<1>2. /\ toMaster' \in Seq(Replies) /\ Carried(toMaster') \subseteq Carried(toMaster)
      /\ r \in Carried(toMaster) /\ r \in Replies
  <2>1. toMaster \in Seq(Replies) /\ toMaster # << >> /\ toMaster' = Tail(toMaster)
    BY DEF GatewayReceives, TransferInv, SenderOk
  <2> QED BY <2>1, CarriedFacts
<1> HIDE DEF r
<1>3. /\ r.cmd \in {"OTA_START", "OTA_SEND"} \/ r.resp # "ACK" \/ r = EndAck
  BY <1>2 DEF Replies, Reply, EndAck
<1>4. CASE transferState' = transferState
  <2>1. NoReply.resp # "ACK" /\ (otaState' = "STORE" => lastOtaState' = "STORE")
    BY <1>1 DEF NoReply, Reply, TransferInv, OwnFirmware
  <2> QED BY <1>1, <1>2, <1>4, <2>1, LessUnderWay
<1>5. CASE transferState = "WAIT_FOR_ACK" /\ transferState' # transferState
  <2>1. ~fileReady
    BY <1>5 DEF TransferInv, SenderOk
  <2>2. OwnFirmware' /\ Aligned'
    BY <1>1 DEF TransferInv, OwnFirmware, Aligned, Base
  <2>3. CASE transferState' = "STORE" /\ r.resp = "ACK"
    <3>1. SenderOk' /\ BeforeStart' /\ FramesOfFile'
      BY <1>1, <1>2, <1>5, <2>1, <2>3 DEF TransferInv, SenderOk, BeforeStart, FramesOfFile, Running
    <3>2. ~Blocked /\ Stored' = Stored
      BY <1>1, <1>2, <2>3 DEF Blocked, NoAck, Stored
    <3>3. OldDeclaration'
      BY <1>1, <1>5, <2>3, <3>2 DEF TransferInv, OldDeclaration, Running
    <3>4. Verdict'
      BY <1>1, <1>2, <1>5, <2>3 DEF TransferInv, Verdict, Running, Holds, EndAck
    <3> QED BY <2>2, <3>1, <3>3, <3>4 DEF TransferInv
  <2>4. CASE transferState' = "VALID" /\ r = EndAck
    <3>1. SenderOk' /\ BeforeStart' /\ FramesOfFile' /\ OldDeclaration'
      BY <1>1, <1>2, <2>1, <2>4 DEF SenderOk, BeforeStart, FramesOfFile, OldDeclaration, Running
    <3>2. Verdict'
      BY <1>1, <1>2, <1>5, <2>4 DEF TransferInv, Verdict, Running, Holds
    <3> QED BY <2>2, <3>1, <3>2 DEF TransferInv
  <2>5. CASE transferState' = "INVALID"
    BY <1>1, <1>2, <2>1, <2>2, <2>5
       DEF TransferInv, SenderOk, BeforeStart, FramesOfFile, OldDeclaration, Verdict, Running
  <2> QED BY <1>1, <1>3, <1>5, <2>3, <2>4, <2>5 DEF HandleOtaCanFrame
<1> QED BY <1>1, <1>4, <1>5 DEF HandleOtaCanFrame

\* A turn is taken: what holds before a transfer holds when it begins.
LEMMA TurnKeeps ==
  ASSUME Grounds, TransferInv, GatewayStarts
  PROVE  TransferInv'
<1>1. /\ UNCHANGED <<flash, erasing, otaState, firstFwBytes, fwSize, fwCrc, flashPointer,
                     flashBlockBeginAddress, crc16, lastOtaState, nodeUp, toNode, toMaster>>
      /\ fileReady /\ ~fileReady'
      /\ transferState' = "INVALID" \/ (transferState' = "START" /\ frameNumber' = 0)
  BY DEF GatewayStarts, StartOta, StartOtaFails, nodeVars, flashVars, otaVars, busVars
<1>2. OwnFirmware' /\ Aligned'
  BY <1>1 DEF TransferInv, OwnFirmware, Aligned, Base
<1>3. SenderOk' /\ BeforeStart'
  BY <1>1 DEF TransferInv, SenderOk, BeforeStart, Running, NoAck
<1>4. FramesOfFile' /\ OldDeclaration' /\ Verdict'
  BY <1>1 DEF FramesOfFile, OldDeclaration, Verdict, Running
<1> QED BY <1>2, <1>3, <1>4 DEF TransferInv

\* The gateway comes up again with nothing to send and nothing heard.
LEMMA GatewayBootKeeps ==
  ASSUME Grounds, TransferInv, GatewayBoots
  PROVE  TransferInv'
<1>1. /\ UNCHANGED <<flash, erasing, otaState, firstFwBytes, fwSize, fwCrc, flashPointer,
                     flashBlockBeginAddress, crc16, lastOtaState, nodeUp, toNode, fileReady>>
      /\ toMaster' = << >> /\ transferState' = "IDLE"
  BY DEF GatewayBoots, nodeVars, flashVars, otaVars
<1>2. Carried(toMaster') = {} /\ toMaster' \in Seq(Replies)
  BY <1>1 DEF Carried
<1>3. OwnFirmware' /\ Aligned'
  BY <1>1 DEF TransferInv, OwnFirmware, Aligned, Base
<1>4. SenderOk' /\ BeforeStart'
  BY <1>1, <1>2 DEF TransferInv, SenderOk, BeforeStart, Running, NoAck
<1>5. FramesOfFile' /\ OldDeclaration' /\ Verdict'
  BY <1>1 DEF FramesOfFile, OldDeclaration, Verdict, Running
<1> QED BY <1>3, <1>4, <1>5 DEF TransferInv

\* A minute passes, in which an upload may queue the node: both sides are
\* quiet, so what must hold before a transfer does.
LEMMA TickKeeps ==
  ASSUME Grounds, TransferInv, Tick
  PROVE  TransferInv'
<1>1. /\ UNCHANGED <<flash, erasing, otaState, firstFwBytes, fwSize, fwCrc, flashPointer,
                     flashBlockBeginAddress, crc16, lastOtaState, nodeUp, toNode, toMaster,
                     transferState, file, filePos, frameNumber>>
      /\ toMaster = << >> /\ transferState \in {"IDLE", "WAIT_FOR_ACK"}
      /\ fileReady' => fileReady \/ transferState = "IDLE"
  BY DEF Tick, NodeTick, GatewayQuiet, flashVars, busVars
<1>2. /\ nodeUp => /\ toNode = << >>
                   /\ \/ otaState = "IDLE"
                      \/ otaState = "START" /\ erasing
                      \/ otaState = "STORE" /\ flashPointer # fwSize
  BY DEF Tick, NodeQuiet
<1>3. Carried(toMaster) = {} /\ (nodeUp => Carried(toNode) = {})
  BY <1>1, <1>2 DEF Carried
<1>4. OwnFirmware' /\ Aligned'
  BY <1>1 DEF TransferInv, OwnFirmware, Aligned, Base
<1>5. SenderOk'
  BY <1>1 DEF TransferInv, SenderOk, Running
<1>6. BeforeStart'
  BY <1>1, <1>2, <1>3 DEF TransferInv, Aligned, BeforeStart, NoAck
<1>7. FramesOfFile'
  BY <1>1 DEF TransferInv, FramesOfFile, Running
<1>8. OldDeclaration'
  <2>1. Stored' = Stored /\ (Blocked => Blocked')
    BY <1>1 DEF Stored, Blocked, NoAck
  <2> QED BY <1>1, <2>1 DEF TransferInv, OldDeclaration, Running
<1>9. Verdict'
  BY <1>1 DEF TransferInv, Verdict, Running, Holds
<1> QED BY <1>4, <1>5, <1>6, <1>7, <1>8, <1>9 DEF TransferInv

\* A pass of the gateway.
LEMMA PassKeeps ==
  ASSUME Grounds, TransferInv, GatewayRuns
  PROVE  TransferInv'
<1>1. PICK out \in GatewayFrames \cup {NoFrame} :
        /\ RunOta(out)
        /\ toNode' = IF out = NoFrame THEN toNode ELSE Append(toNode, out)
  BY DEF GatewayRuns
<1>2. UNCHANGED <<flash, erasing, otaState, firstFwBytes, fwSize, fwCrc, flashPointer,
                  flashBlockBeginAddress, crc16, lastOtaState, nodeUp, toMaster, fileReady>>
  BY DEF GatewayRuns, nodeVars, flashVars, otaVars
<1>3. GatewayReadsImage /\ Len(file) \in Nat /\ filePos \in 0 .. Len(file)
  BY FileLength DEF Grounds, BusInv, GatewayReadsImage
<1>4. /\ out = NoFrame => Carried(toNode') = Carried(toNode)
      /\ out # NoFrame => Carried(toNode') = Carried(toNode) \cup {out}
  <2>1. toNode \in Seq(NodeFrames) /\ out \in NodeFrames \cup {NoFrame}
    BY <1>1, <1>3, GatewayPassKeeps DEF Grounds, BusInv, BusCarriesFrames
  <2>2. CASE out = NoFrame
    BY <1>1, <2>2
  <2>3. CASE out # NoFrame
    BY <1>1, <2>1, <2>3, CarriedFacts
  <2> QED BY <2>2, <2>3
<1>5. Aligned'
  BY <1>2 DEF TransferInv, Aligned
<1>6. ASSUME out = NoFrame
      PROVE  OwnFirmware'
  BY <1>2, <1>4, <1>6 DEF TransferInv, OwnFirmware, Base
<1>7. ASSUME out = NoFrame, transferState # "IDLE", transferState' \in {"IDLE", "INVALID"}
      PROVE  TransferInv'
  <2>1. ~fileReady'
    BY <1>2, <1>7 DEF TransferInv, SenderOk
  <2>2. SenderOk' /\ BeforeStart' /\ FramesOfFile' /\ OldDeclaration' /\ Verdict'
    BY <1>2, <1>7, <2>1
       DEF TransferInv, SenderOk, BeforeStart, FramesOfFile, OldDeclaration, Verdict, Running
  <2> QED BY <1>5, <1>6, <1>7, <2>2 DEF TransferInv
<1>8. CASE TransferTimedOut(out) \/ TransferDone(out)
  <2>1. out = NoFrame /\ transferState # "IDLE" /\ transferState' = "IDLE"
    BY <1>8 DEF TransferTimedOut, OtaTimedOut, TransferDone, Conclude
  <2> QED BY <1>7, <2>1
<1>9. CASE TransferWaiting(out)
  <2>1. out = NoFrame /\ UNCHANGED <<transferState, file, filePos, frameNumber>>
    BY <1>9 DEF TransferWaiting
  <2>2. /\ NoReply.resp # "ACK" /\ (otaState' = "STORE" => lastOtaState' = "STORE")
        /\ toMaster' \in Seq(Replies)
    BY <1>2 DEF NoReply, Reply, TransferInv, OwnFirmware, SenderOk
  <2> QED BY <1>2, <1>4, <2>1, <2>2, LessUnderWay
<1>10. CASE TransferChecksum(out)
  <2>1. /\ out = NoFrame /\ transferState = "START" /\ frameNumber' = frameNumber
        /\ transferState' \in {"START", "INVALID"}
    BY <1>10 DEF TransferChecksum, ShortRead
  <2>2. CASE transferState' = "INVALID"
    BY <1>7, <2>1, <2>2
  <2>3. CASE transferState' = "START"
    <3>1. SenderOk' /\ BeforeStart'
      BY <1>2, <1>4, <2>1, <2>3 DEF TransferInv, SenderOk, BeforeStart, Running, NoAck
    <3>2. FramesOfFile' /\ OldDeclaration' /\ Verdict'
      BY <2>3 DEF FramesOfFile, OldDeclaration, Verdict, Running
    <3> QED BY <1>5, <1>6, <2>1, <3>1, <3>2 DEF TransferInv
  <2> QED BY <2>1, <2>2, <2>3
<1>11. CASE TransferSendStart(out)
  <2>1. /\ transferState = "START" /\ transferState' \in {"WAIT_FOR_ACK", "INVALID"}
        /\ transferState' = "INVALID" => out = NoFrame
        /\ transferState' = "WAIT_FOR_ACK" => out = StartFrame(0, Len(file), imageCrc')
        /\ filePos' = 0 /\ file' = file /\ frameNumber' = frameNumber
        /\ imageCrc' = Crc(file)
    BY <1>3, <1>11 DEF TransferSendStart, AfterSend, GatewayReadsImage
  <2>2. CASE transferState' = "INVALID"
    BY <1>7, <2>1, <2>2
  <2>3. CASE transferState' = "WAIT_FOR_ACK"
    <3>1. /\ out = StartFrame(0, Len(file), Crc(file)) /\ out # NoFrame
          /\ out.cmd = "OTA_START" /\ out.storage = 0
      BY <2>1, <2>3 DEF StartFrame, NoFrame
    <3>2. Carried(toNode') = Carried(toNode) \cup {out}
      BY <1>4, <3>1
    <3>3. ~fileReady' /\ frameNumber' = 0
      BY <1>2, <2>1 DEF TransferInv, SenderOk
    <3>4. OwnFirmware'
      BY <1>2, <3>1, <3>2 DEF TransferInv, OwnFirmware, Base
    <3>5. SenderOk' /\ BeforeStart'
      BY <1>2, <2>1, <2>3, <3>3, BoundaryFacts DEF TransferInv, SenderOk, BeforeStart, Running
    <3>6. nodeUp => Carried(toNode') = {out}
      BY <2>1, <3>2 DEF TransferInv, BeforeStart
    <3>7. FramesOfFile'
      BY <1>2, <2>1, <3>1, <3>6 DEF FramesOfFile
    <3>8. OldDeclaration'
      <4> SUFFICES ASSUME nodeUp, otaState \in {"START", "STORE", "CHECK"}
                   PROVE  \/ Blocked'
                          \/ otaState' \in {"START", "STORE"} /\ Assembled(Stored', flashPointer', file')
        BY <1>2 DEF OldDeclaration
      <4>1. CASE flashPointer = 0 /\ otaState # "CHECK"
        BY <1>2, <4>1, NothingAssembled
      <4>2. CASE otaState = "STORE" /\ flashPointer # fwSize /\ NoAck
        BY <1>2, <2>3, <3>1, <3>6, <4>2 DEF Blocked, NoAck
      <4> QED BY <2>1, <4>1, <4>2 DEF TransferInv, BeforeStart
    <3>9. Verdict'
      BY <1>2, <2>1, <2>3 DEF TransferInv, BeforeStart, Verdict
    <3> QED BY <1>5, <3>4, <3>5, <3>7, <3>8, <3>9 DEF TransferInv
  <2> QED BY <2>1, <2>2, <2>3
<1>12. CASE TransferSendPiece(out)
  <2>1. transferState = "STORE" /\ file' = file
    BY <1>12 DEF TransferSendPiece, ShortRead
  <2>2. CASE out = NoFrame /\ transferState' = "INVALID"
    BY <1>7, <2>1, <2>2
  <2>3. CASE /\ transferState' = "WAIT_FOR_ACK" /\ frameNumber' = filePos'
             /\ filePos' = Len(file) \/ Boundary(filePos')
             /\ \/ out = NoFrame
                \/ \E q \in Offsets(Len(file)) : out = SendFrame(Sequence(q), PieceData(file, q))
    <3>1. Carried(toNode') \subseteq Carried(toNode) \cup {out}
      BY <1>4
    <3>2. out # NoFrame => out.cmd = "OTA_SEND"
      BY <2>3 DEF SendFrame
    <3>3. \A f \in Carried(toNode') : f \in Carried(toNode) \/ (f = out /\ out # NoFrame)
      BY <1>4, <3>1
    <3>4. OwnFirmware'
      BY <1>2, <3>2, <3>3 DEF TransferInv, OwnFirmware, Base
    <3>5. ~fileReady'
      BY <1>2, <2>1 DEF TransferInv, SenderOk
    <3>6. SenderOk' /\ BeforeStart'
      BY <1>2, <2>1, <2>3, <3>5 DEF TransferInv, SenderOk, BeforeStart, Running
    <3>7. FramesOfFile'
      BY <1>2, <2>1, <2>3, <3>3 DEF TransferInv, FramesOfFile, Running
    <3>8. OldDeclaration'
      <4>1. ~Blocked /\ Stored' = Stored
        BY <1>2, <2>1 DEF Blocked, Stored
      <4> QED BY <1>2, <2>1, <4>1 DEF TransferInv, OldDeclaration, Running
    <3>9. Verdict'
      BY <1>2, <2>1, <2>3, <3>2, <3>3 DEF TransferInv, Verdict, Running, Holds
    <3> QED BY <1>5, <3>4, <3>6, <3>7, <3>8, <3>9 DEF TransferInv
  <2>4. frameNumber = filePos /\ (filePos = Len(file) \/ Boundary(filePos))
    BY <2>1 DEF TransferInv, SenderOk, Running
  <2>5. CASE filePos = Len(file)
    BY <1>3, <1>12, <2>1, <2>3, <2>4, <2>5 DEF TransferSendPiece
  <2>6. CASE filePos < Len(file)
    <3>1. filePos \in Offsets(Len(file)) /\ filePos \in Nat /\ PieceSize \in Nat
      BY <1>3, <2>4, <2>6, Constants DEF Offsets
    <3>2. filePos + NextPieceLength = Len(file) \/ Boundary(filePos + NextPieceLength)
      BY <1>3, <2>4, <2>6, <3>1, BoundaryFacts DEF NextPieceLength
    <3>3. CASE ShortRead /\ out = NoFrame
      BY <2>2, <3>3 DEF ShortRead
    <3>4. CASE /\ filePos' = filePos + NextPieceLength /\ frameNumber' = frameNumber + NextPieceLength
               /\ transferState' \in AfterSend
               /\ out = IF transferState' = "WAIT_FOR_ACK"
                          THEN SendFrame(Sequence(frameNumber), PieceData(file, filePos))
                          ELSE NoFrame
      <4>1. CASE transferState' = "WAIT_FOR_ACK"
        <5>1. out = SendFrame(Sequence(filePos), PieceData(file, filePos))
          BY <2>4, <3>4, <4>1
        <5>2. frameNumber' = filePos' /\ (filePos' = Len(file) \/ Boundary(filePos'))
          BY <2>4, <3>2, <3>4
        <5> QED BY <2>3, <3>1, <4>1, <5>1, <5>2
      <4>2. CASE transferState' # "WAIT_FOR_ACK"
        BY <2>2, <3>4, <4>2 DEF AfterSend
      <4> QED BY <4>1, <4>2
    <3> QED BY <1>3, <1>12, <2>6, <3>3, <3>4 DEF TransferSendPiece
  <2> QED BY <1>3, <2>5, <2>6
<1> QED BY <1>1, <1>8, <1>9, <1>10, <1>11, <1>12 DEF RunOta

\* Every step keeps what the verdict rests on.
LEMMA TransferKept ==
  ASSUME Grounds, Grounds', ReadsAnswered, ImagesApart, BeyondHeader, TransferInv, [Next]_vars
  PROVE  TransferInv'
<1>1. /\ NoReply.resp # "ACK" /\ toMaster \in Seq(Replies) /\ toNode \in Seq(NodeFrames)
      /\ otaState = "STORE" => lastOtaState = "STORE"
  BY DEF NoReply, Reply, TransferInv, OwnFirmware, SenderOk, Grounds, BusInv, BusCarriesFrames
<1>2. CASE NodeReceives
  BY <1>2, ReceivesKeeps
<1>3. CASE NodeRuns
  BY <1>3, RunsKeeps DEF Grounds
<1>4. CASE NodeResets
  <2>1. /\ UNCHANGED <<flash, erasing, otaState, firstFwBytes, fwSize, fwCrc, flashPointer,
                       flashBlockBeginAddress, crc16, lastOtaState, toNode, toMaster,
                       transferState, file, filePos, frameNumber, fileReady>>
        /\ ~nodeUp'
    BY <1>4 DEF NodeResets, NodeReset, flashVars, otaVars, gwVars, busVars
  <2> QED BY <1>1, <2>1, LessUnderWay
<1>5. CASE NodeBoots
  BY <1>5, BootsKeeps
<1>6. CASE FlashFinishes
  BY <1>6, EraseEnds
<1>7. CASE GatewayReceives
  BY <1>7, AnswerKeeps
<1>8. CASE GatewayRuns
  BY <1>8, PassKeeps
<1>9. CASE GatewayStarts
  BY <1>9, TurnKeeps
<1>10. CASE GatewayResets \/ UNCHANGED vars
  <2>1. /\ UNCHANGED <<flash, erasing, otaState, firstFwBytes, fwSize, fwCrc, flashPointer,
                       flashBlockBeginAddress, crc16, lastOtaState, nodeUp, toNode, toMaster,
                       transferState, file, filePos, frameNumber>>
        /\ fileReady' => fileReady
    BY <1>10 DEF GatewayResets, vars, nodeVars, flashVars, otaVars, gwVars, busVars
  <2> QED BY <1>1, <2>1, LessUnderWay
<1>11. CASE GatewayBoots
  BY <1>11, GatewayBootKeeps
<1>12. CASE BusFault
  <2>1. UNCHANGED <<flash, erasing, otaState, firstFwBytes, fwSize, fwCrc, flashPointer,
                    flashBlockBeginAddress, crc16, lastOtaState, nodeUp,
                    transferState, file, filePos, frameNumber, fileReady>>
    BY <1>12 DEF BusFault, nodeVars, flashVars, otaVars, gwVars
  <2>2. /\ toMaster' \in Seq(Replies)
        /\ Carried(toNode') \subseteq Carried(toNode)
        /\ Carried(toMaster') \subseteq Carried(toMaster)
    <3>1. CASE /\ \E i \in 1 .. Len(toNode) : toNode' \in {Without(toNode, i), Twice(toNode, i)}
               /\ toMaster' = toMaster
      BY <1>1, <3>1, CarriedFacts
    <3>2. CASE /\ \E i \in 1 .. Len(toMaster) :
                    toMaster' \in {Without(toMaster, i), Twice(toMaster, i)}
               /\ toNode' = toNode
      BY <1>1, <3>2, CarriedFacts, FaultKeepsFrames
    <3> QED BY <1>12, <3>1, <3>2 DEF BusFault
  <2> QED BY <1>1, <2>1, <2>2, LessUnderWay
<1>13. CASE Tick
  BY <1>13, TickKeeps
<1> QED BY <1>2, <1>3, <1>4, <1>5, <1>6, <1>7, <1>8, <1>9, <1>10, <1>11, <1>12, <1>13 DEF Next

\* The invariant holds at first: nothing is under way.
LEMMA TransferBegins == Init => TransferInv
<1> SUFFICES ASSUME Init PROVE TransferInv
  OBVIOUS
<1>1. /\ otaState = "IDLE" /\ flashBlockBeginAddress = 0 /\ transferState = "IDLE" /\ ~fileReady
      /\ toNode = << >> /\ toMaster = << >>
  BY DEF Init, NodeInit, GatewayInit
<1>2. Carried(toNode) = {} /\ toMaster \in Seq(Replies)
  BY <1>1 DEF Carried
<1> QED BY <1>1, <1>2 DEF TransferInv, OwnFirmware, Aligned, SenderOk, BeforeStart, FramesOfFile,
                          OldDeclaration, Verdict, Running, Base

\* A transfer published as [OK] is one whose file the node's flash holds: for
\* any number of lost or repeated frames, resets of both sides, refused writes
\* and earlier transfers that ended anywhere, provided no image can be put
\* together from pieces of another (handleOtaCanFrames takes any answer that
\* comes while it waits, and no answer says which transfer it is for).
THEOREM OkAlwaysInstalled ==
  ASSUME ReadsAnswered, ImagesApart, BeyondHeader
  PROVE  Spec => []OkMeansInstalled
<1>1. Spec => [](NodeTypeOK /\ StorageInv)
  BY TransferImplementsNode, StorageInvariant, PTL
<1>2. Spec => []BusInv
  BY BusInvInit, BusInvStep, PTL DEF Spec
<1>3. Spec => []Grounds
  <2>1. NodeTypeOK /\ StorageInv /\ BusInv => Grounds
    BY DEF Grounds
  <2> QED BY <1>1, <1>2, <2>1, PTL
<1>4. TransferInv /\ Grounds /\ Grounds' /\ [Next]_vars => TransferInv'
  BY TransferKept
<1>5. TransferInv => OkMeansInstalled
  BY DEF TransferInv, Verdict, OkMeansInstalled
<1> QED BY <1>3, <1>4, <1>5, TransferBegins, PTL DEF Spec
=============================================================================
