------------------------------- MODULE NodeOta ------------------------------
(***************************************************************************)
(* A CAN node taking a firmware image: the storage state machine of        *)
(* lib/ota (class OTA), the part of CanHandlerAtmega328P that feeds it and *)
(* answers the gateway, the flash it writes and the bootloader that starts *)
(* what the flash holds.                                                   *)
(*                                                                         *)
(* An action that answers takes the answer as its parameter `reply'; a     *)
(* specification that uses the module says where it goes.  NodeSpec puts   *)
(* the node on an arbitrary bus: any frame may arrive at any time, no      *)
(* matter what the node answered.                                          *)
(***************************************************************************)
EXTENDS SpiFlash, OtaFrames

CONSTANTS
  ProgramMemorySize, \* PROGRAM_MEMORY_SIZE: the largest image
  BlockSize,         \* flashBlockTobytes, 32 KB
  CheckChunkSize,    \* bytes the closing check reads per pass, 32
  StallTimeout,      \* stallTimeoutTime, in ticks
  MaxRxFrames,       \* maxRxFramesPerRun, 4
  JmpOpcode,         \* the two bytes that make the bootloader take an image
  Pieces,            \* the data a piece on the bus may carry
  FactoryProgram     \* what the node runs before its first update

HeaderSize == 2                      \* sizeof(firstFwBytes)
Header == 0 .. HeaderSize - 1
Program == [0 .. ProgramMemorySize - 1 -> Byte]

ASSUME NodeAssumption ==
  /\ ProgramMemorySize \in Nat /\ HeaderSize <= ProgramMemorySize
  /\ BlockSize \in Nat /\ ProgramMemorySize <= BlockSize
  /\ ProgramMemorySize <= Capacity
  /\ CheckChunkSize \in Nat \ {0}
  /\ StallTimeout \in Nat
  /\ MaxRxFrames \in Nat \ {0}
  /\ JmpOpcode \in [Header -> Byte] /\ \E i \in Header : JmpOpcode[i] # Erased
  /\ FactoryProgram \in Program
  /\ Pieces \subseteq [0 .. PieceSize - 1 -> Byte]
  /\ \A img \in Images : HeaderSize <= Len(img)

\* The idealised checksum: no other byte string has the CRC of an image.
ASSUME CrcAssumption ==
  \A n \in 0 .. ProgramMemorySize : \A s \in [1 .. n -> Byte] :
    \A img \in Images : Crc(s) = Crc(img) => s = img

VARIABLES
  otaState,               \* OTA::otaState
  firstFwBytes,           \* the header, kept out of the flash until the end
  fwSize, fwCrc,          \* what OTA_START declared
  flashPointer,           \* next offset to store, then to check
  flashBlockBeginAddress,
  crc16,                  \* the bytes fed to the running checksum
  stallAge,               \* ticks since stallTimer was set
  lastOtaState,           \* CanHandlerAtmega328P::lastOtaState
  rxBudget,               \* frames this pass may still take
  nodeUp,                 \* FALSE from a reset until init() is through
  program                 \* the program memory the bootloader fills

otaVars == <<otaState, firstFwBytes, fwSize, fwCrc, flashPointer,
             flashBlockBeginAddress, crc16, stallAge>>
nodeVars == <<flashVars, otaVars, lastOtaState, rxBudget, nodeUp, program>>

OtaState == {"IDLE", "START", "STORE", "CHECK", "VALID", "INVALID"}

MinOf(a, b) == IF a <= b THEN a ELSE b

-----------------------------------------------------------------------------
(* OTA::start, storeNextData, run                                          *)

\* The region check start() makes before it erases anything.
RegionFits(f) ==
  /\ f.size # 0
  /\ f.size <= ProgramMemorySize
  /\ f.storage * BlockSize + f.size <= ReportedCapacity

\* start() takes the transfer, from any state: the erase is issued.
OtaStart(f) ==
  /\ RegionFits(f)
  /\ TRUE \in Answers("erase")
  /\ ChipErase
  /\ fwSize' = f.size
  /\ fwCrc' = f.crc
  /\ flashBlockBeginAddress' = f.storage * BlockSize
  /\ flashPointer' = 0
  /\ stallAge' = 0
  /\ otaState' = "START"
  /\ UNCHANGED <<firstFwBytes, crc16>>

\* start() refuses: nothing changes.
OtaStartRefused(f) ==
  /\ RegionFits(f) => FALSE \in Answers("erase")
  /\ UNCHANGED <<flashVars, otaVars>>

\* The order checks of storeNextData.  The state is not among them.
PieceExpected(f) == flashPointer < fwSize /\ Sequence(flashPointer) = f.seq

\* Mutant: the last piece is not cut to what the image still needs.
PieceLengthUncut == PieceSize

PieceLength == MinOf(PieceSize, fwSize - flashPointer)

\* The bytes of the piece that stay in memory: the header part.
KeptLength ==
  IF flashPointer < HeaderSize
    THEN MinOf(HeaderSize - flashPointer, PieceLength) ELSE 0

KeepHeader(f) ==
  firstFwBytes' = [i \in Header |->
                     IF flashPointer <= i /\ i < flashPointer + KeptLength
                       THEN f.data[i - flashPointer] ELSE firstFwBytes[i]]

\* The part of the piece that goes to the flash, and where.
FlashAddress == flashBlockBeginAddress + flashPointer + KeptLength
FlashLength == PieceLength - KeptLength
FlashPart(f) == [k \in 0 .. FlashLength - 1 |-> f.data[KeptLength + k]]

StorePiece(f) ==
  /\ PieceExpected(f)
  /\ FlashLength > 0 => TRUE \in Answers("write")
  /\ KeepHeader(f)
  /\ flash' = Programmed(FlashAddress, FlashPart(f), FlashLength)
  /\ flashPointer' = flashPointer + PieceLength
  /\ stallAge' = 0
  /\ UNCHANGED <<erasing, otaState, fwSize, fwCrc, flashBlockBeginAddress, crc16>>

\* The chip refuses the write: what is left of the piece is dropped with the
\* transfer, but the header part was already counted.
StorePieceFails(f) ==
  /\ PieceExpected(f)
  /\ FlashLength > 0
  /\ FALSE \in Answers("write")
  /\ KeepHeader(f)
  /\ \E n \in PartialLengths(FlashAddress, FlashLength) :
       flash' = IF erasing THEN flash ELSE Programmed(FlashAddress, FlashPart(f), n)
  /\ flashPointer' = flashPointer + KeptLength
  /\ otaState' = "INVALID"
  /\ UNCHANGED <<erasing, fwSize, fwCrc, flashBlockBeginAddress, crc16, stallAge>>

StorePieceRefused(f) ==
  /\ ~PieceExpected(f)
  /\ UNCHANGED <<flashVars, otaVars>>

\* Mutant: the chip that stays busy is waited for without end.
StalledInStore == otaState = "STORE" /\ stallAge > StallTimeout

Stalled == otaState \in {"START", "STORE"} /\ stallAge > StallTimeout

RunStalled ==
  /\ Stalled
  /\ otaState' = "INVALID"
  /\ UNCHANGED <<flashVars, firstFwBytes, fwSize, fwCrc, flashPointer,
                 flashBlockBeginAddress, crc16, stallAge>>

RunIdle ==
  /\ \/ otaState = "IDLE"
     \/ otaState = "START" /\ ~Stalled /\ Busy
     \/ otaState = "STORE" /\ ~Stalled /\ flashPointer # fwSize
  /\ UNCHANGED <<flashVars, otaVars>>

\* Mutant: pieces are asked for before the erase is over.
RunStartEarly ==
  /\ otaState = "START" /\ ~Stalled
  /\ otaState' = "STORE"
  /\ UNCHANGED <<flashVars, firstFwBytes, fwSize, fwCrc, flashPointer,
                 flashBlockBeginAddress, crc16, stallAge>>

RunStart ==
  /\ otaState = "START" /\ ~Stalled
  /\ ~Busy
  /\ otaState' = "STORE"
  /\ UNCHANGED <<flashVars, firstFwBytes, fwSize, fwCrc, flashPointer,
                 flashBlockBeginAddress, crc16, stallAge>>

RunStore ==
  /\ otaState = "STORE" /\ ~Stalled
  /\ flashPointer = fwSize
  /\ flashPointer' = 0
  /\ crc16' = << >>
  /\ otaState' = "CHECK"
  /\ UNCHANGED <<flashVars, firstFwBytes, fwSize, fwCrc,
                 flashBlockBeginAddress, stallAge>>

\* readNextCheckChunk: the header comes back from memory a byte at a time,
\* the rest in blocks; a refused read is a block of zeros.
CheckLength ==
  IF flashPointer < HeaderSize THEN 1
  ELSE MinOf(CheckChunkSize, fwSize - flashPointer)

CheckChunk(readOk) ==
  [k \in 1 .. CheckLength |->
     IF flashPointer < HeaderSize THEN firstFwBytes[flashPointer]
     ELSE IF readOk THEN flash[flashBlockBeginAddress + flashPointer + k - 1]
     ELSE ZeroByte]

\* A pass of the check that does not reach the end of the image.
RunCheckChunk ==
  /\ otaState = "CHECK"
  /\ flashPointer < fwSize
  /\ flashPointer + CheckLength # fwSize
  /\ \E readOk \in Answers("read") : crc16' = crc16 \o CheckChunk(readOk)
  /\ flashPointer' = flashPointer + CheckLength
  /\ UNCHANGED <<flashVars, otaState, firstFwBytes, fwSize, fwCrc,
                 flashBlockBeginAddress, stallAge>>

\* Mutants: the verdict without the checksum, and without the read-back.
FinishCheckNoCrc(fed) ==
  /\ flash' = Programmed(flashBlockBeginAddress, firstFwBytes, HeaderSize)
  /\ otaState' = IF Crc(fed) = fwCrc THEN "VALID" ELSE "INVALID"
FinishCheckNoReadBack(fed) ==
  IF Crc(fed) # fwCrc
    THEN otaState' = "INVALID" /\ UNCHANGED flash
    ELSE /\ \E writeOk \in Answers("write") :
              flash' = IF writeOk
                         THEN Programmed(flashBlockBeginAddress, firstFwBytes, HeaderSize)
                         ELSE flash
         /\ otaState' = "VALID"

\* finishCheck: the checksum decides, then the header goes into the flash
\* and is read back.
FinishCheck(fed) ==
  \/ /\ Crc(fed) # fwCrc
     /\ otaState' = "INVALID"
     /\ UNCHANGED flash
  \/ /\ Crc(fed) = fwCrc
     /\ \E writeOk \in Answers("write"), readOk \in Answers("read") :
          /\ flash' = IF writeOk
                        THEN Programmed(flashBlockBeginAddress, firstFwBytes, HeaderSize)
                        ELSE flash
          /\ otaState' =
               IF /\ writeOk /\ readOk
                  /\ \A i \in Header :
                       flash'[flashBlockBeginAddress + i] = firstFwBytes[i]
                 THEN "VALID" ELSE "INVALID"

\* The pass that reaches the end: the last chunk, unless a late piece already
\* moved the pointer there, and the verdict.
RunFinishCheck ==
  /\ otaState = "CHECK"
  /\ \/ /\ flashPointer < fwSize
        /\ flashPointer + CheckLength = fwSize
        /\ \E readOk \in Answers("read") : crc16' = crc16 \o CheckChunk(readOk)
     \/ /\ flashPointer = fwSize
        /\ crc16' = crc16
  /\ flashPointer' = fwSize
  /\ FinishCheck(crc16')
  /\ UNCHANGED <<erasing, firstFwBytes, fwSize, fwCrc, flashBlockBeginAddress, stallAge>>

RunValid ==
  /\ otaState = "VALID"
  /\ otaState' = "IDLE"
  /\ UNCHANGED <<flashVars, firstFwBytes, fwSize, fwCrc, flashPointer,
                 flashBlockBeginAddress, crc16, stallAge>>

\* The clean-up: an erase that may be refused, and the transfer forgotten.
RunInvalid ==
  /\ otaState = "INVALID"
  /\ \E eraseOk \in Answers("erase") :
       IF eraseOk THEN ChipErase ELSE UNCHANGED flashVars
  /\ fwSize' = 0
  /\ fwCrc' = Crc(<< >>)
  /\ flashPointer' = 0
  /\ flashBlockBeginAddress' = 0
  /\ otaState' = "IDLE"
  /\ UNCHANGED <<firstFwBytes, crc16, stallAge>>

OtaRun ==
  \/ RunStalled \/ RunIdle \/ RunStart \/ RunStore
  \/ RunCheckChunk \/ RunFinishCheck \/ RunValid \/ RunInvalid

-----------------------------------------------------------------------------
(* CanHandlerAtmega328P::handleRxFrame, run, init                          *)

\* OtaCanResponse::decide.
Decide(prev, curr) ==
  IF prev = "START" /\ curr = "STORE" THEN Reply("OTA_START", "ACK")
  ELSE IF curr = "VALID" THEN Reply("OTA_END", "ACK")
  ELSE IF curr = "INVALID" THEN Reply("OTA_END", "NACK")
  ELSE NoReply

IsOwnFw == flashBlockBeginAddress = 0

\* One frame of the receive drain of a pass.
HandleRxFrame(f, reply) ==
  /\ nodeUp
  /\ rxBudget > 0
  /\ rxBudget' = rxBudget - 1
  /\ \/ /\ f.cmd = "OTA_START"
        /\ \/ OtaStart(f) /\ reply = NoReply
           \/ OtaStartRefused(f) /\ reply = Reply("OTA_START", "NACK")
        /\ nodeUp' = nodeUp
     \/ /\ f.cmd = "OTA_SEND"
        /\ \/ StorePiece(f) /\ reply = Reply("OTA_SEND", "ACK")
           \/ StorePieceFails(f) /\ reply = Reply("OTA_SEND", "NACK")
           \/ StorePieceRefused(f) /\ reply = Reply("OTA_SEND", "NACK")
        /\ nodeUp' = nodeUp
     \/ /\ f.cmd = "RESTART"
        /\ reply = NoReply
        /\ nodeUp' = FALSE
        /\ UNCHANGED <<flashVars, otaVars>>
  /\ UNCHANGED <<lastOtaState, program>>

\* The rest of a pass: one step of the storage, its answer, and the restart
\* into an image of the node's own.
OtaPass(reply) ==
  /\ nodeUp
  /\ OtaRun
  /\ reply = Decide(lastOtaState, otaState')
  /\ nodeUp' = ~(otaState' = "VALID" /\ IsOwnFw')
  /\ lastOtaState' = otaState'
  /\ rxBudget' = MaxRxFrames
  /\ program' = program

\* A reset nobody asked for: the watchdog, the supply of the controller.
NodeReset ==
  /\ nodeUp
  /\ nodeUp' = FALSE
  /\ UNCHANGED <<flashVars, otaVars, lastOtaState, rxBudget, program>>

\* The bootloader takes what starts with a jmp (external: urboot).
Bootable == \A i \in Header : flash[i] = JmpOpcode[i]
BootImage == [i \in 0 .. ProgramMemorySize - 1 |-> flash[i]]

\* Mutant: the image is taken whatever it starts with.
NodeBootUnchecked ==
  /\ ~nodeUp
  /\ ~erasing
  /\ program' = BootImage
  /\ nodeUp' = TRUE
  /\ otaState' = "IDLE"
  /\ lastOtaState' = "IDLE"
  /\ rxBudget' = MaxRxFrames
  /\ fwSize' = 0
  /\ flashPointer' = 0
  /\ UNCHANGED <<flashVars, firstFwBytes, fwCrc, flashBlockBeginAddress, crc16, stallAge>>

\* Start-up.  init() fails, and the node resets again, until the chip has
\* finished an erase that outlived the reset.
NodeBoot ==
  /\ ~nodeUp
  /\ ~erasing
  /\ program' = IF Bootable THEN BootImage ELSE program
  /\ nodeUp' = TRUE
  /\ otaState' = "IDLE"
  /\ firstFwBytes' = [i \in Header |-> ZeroByte]
  /\ fwSize' = 0
  /\ fwCrc' = Crc(<< >>)
  /\ flashPointer' = 0
  /\ flashBlockBeginAddress' = 0
  /\ crc16' = << >>
  /\ stallAge' = 0
  /\ lastOtaState' = "IDLE"
  /\ rxBudget' = MaxRxFrames
  /\ UNCHANGED flashVars

\* An erase takes seconds: it never ends within the pass that issued it.
FlashStep ==
  /\ rxBudget = MaxRxFrames \/ ~nodeUp
  /\ EraseDone
  /\ UNCHANGED <<otaVars, lastOtaState, rxBudget, nodeUp, program>>

\* Time, for the stall timer; it is read only up to the timeout.
NodeTick ==
  /\ stallAge' = MinOf(stallAge + 1, StallTimeout + 1)
  /\ UNCHANGED <<flashVars, otaState, firstFwBytes, fwSize, fwCrc, flashPointer,
                 flashBlockBeginAddress, crc16, lastOtaState, rxBudget, nodeUp, program>>

-----------------------------------------------------------------------------
(* The node on an arbitrary bus                                            *)

NodeInit ==
  /\ flash = [a \in Addr |-> Erased]
  /\ erasing = FALSE
  /\ otaState = "IDLE"
  /\ firstFwBytes = [i \in Header |-> ZeroByte]
  /\ fwSize = 0
  /\ fwCrc = Crc(<< >>)
  /\ flashPointer = 0
  /\ flashBlockBeginAddress = 0
  /\ crc16 = << >>
  /\ stallAge = 0
  /\ lastOtaState = "IDLE"
  /\ rxBudget = MaxRxFrames
  /\ nodeUp = TRUE
  /\ program = FactoryProgram

\* The OTA_START of a transfer declares the size and the checksum of an image
\* for one of the storage blocks; a piece may carry anything.
StartFrames ==
  {StartFrame(b, Len(img), Crc(img)) : b \in 0 .. (Capacity \div BlockSize), img \in Images}
SendFrames ==
  {SendFrame(s, d) : s \in 0 .. SeqModulus - 1, d \in Pieces}
NodeFrames == StartFrames \cup SendFrames \cup {RestartFrame}

NodeStep ==
  \/ \E f \in NodeFrames, reply \in Replies \cup {NoReply} : HandleRxFrame(f, reply)
  \/ \E reply \in Replies \cup {NoReply} : OtaPass(reply)
  \/ NodeReset
  \/ NodeBoot

NodeNext == NodeStep \/ FlashStep \/ NodeTick

NodeSpec == NodeInit /\ [][NodeNext]_nodeVars

-----------------------------------------------------------------------------
(* Properties                                                              *)

\* The values the storage takes.
OtaTypeOK ==
  /\ FlashTypeOK
  /\ otaState \in OtaState
  /\ firstFwBytes \in [Header -> Byte]
  /\ fwSize \in 0 .. ProgramMemorySize
  /\ fwCrc \in CrcValues \cup {Crc(<< >>)}
  /\ flashPointer \in 0 .. fwSize
  /\ flashBlockBeginAddress \in Nat
  /\ flashBlockBeginAddress + fwSize <= Capacity
  /\ crc16 \in Seq(Byte)
  /\ stallAge \in 0 .. StallTimeout + 1

\* The values each part of the node's state takes, whatever arrives: the
\* pointer never passes the size and the image never the end of the chip.
NodeTypeOK ==
  /\ OtaTypeOK
  /\ lastOtaState \in OtaState
  /\ rxBudget \in 0 .. MaxRxFrames
  /\ nodeUp \in BOOLEAN
  /\ program \in Program

\* The program memory an image fills, and the flash holding an image at base.
Padded(img) ==
  [i \in 0 .. ProgramMemorySize - 1 |-> IF i < Len(img) THEN img[i + 1] ELSE Erased]
Holds(base, img) == \A i \in 0 .. Len(img) - 1 : flash[base + i] = img[i + 1]

\* What the bootloader would start is always a complete image: it appears in
\* one step, once every byte of it was read back and checksummed, and no
\* frame, reset or refused command ever leaves a bootable fragment behind
\* (ota.cpp keeps the first two bytes in memory for this).
BootableImageIsWhole == Bootable => \E img \in Images : BootImage = Padded(img)

\* VALID, the state that acknowledges OTA_END, means that the image whose
\* checksum OTA_START declared is in the flash, header included.
ValidMeansStored ==
  otaState = "VALID" =>
    \E img \in Images : /\ fwCrc = Crc(img)
                        /\ fwSize = Len(img)
                        /\ Holds(flashBlockBeginAddress, img)

\* storeNextData does not look at the state: that a piece outside a transfer
\* cannot touch the flash rests on the pointer being at the end then.
NoTransferTakesNoPiece ==
  otaState \in {"IDLE", "VALID"} => flashPointer = fwSize

\* The header cells stay erased until the verdict: neither a piece nor a late
\* duplicate during the check programs them.
HeaderHeldBack ==
  otaState \in {"STORE", "CHECK"} =>
    \A i \in Header : flash[flashBlockBeginAddress + i] = Erased

\* A piece is only ever written to cells that are still erased while a
\* transfer is storing, so a program never merges old and new bits.
WritesErasedCells ==
  otaState = "STORE" =>
    \A i \in flashPointer .. fwSize - 1 : flash[flashBlockBeginAddress + i] = Erased

\* The checksum rejects what a refused read put in place of the image: what
\* it accepted is what the chip holds.
RefusedReadRejected ==
  otaState = "VALID" =>
    \A i \in HeaderSize .. fwSize - 1 : crc16[i + 1] = flash[flashBlockBeginAddress + i]

\* Seen from the bootloader the whole machinery is one slot that holds a
\* whole image or nothing.
Slot == INSTANCE ImageSlot WITH
          WholeImages <- {Padded(img) : img \in Images},
          InitialProgram <- FactoryProgram,
          slot <- IF Bootable THEN {BootImage} ELSE {}

SlotSpec == Slot!Spec
=============================================================================
