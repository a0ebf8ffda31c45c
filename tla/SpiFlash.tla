------------------------------ MODULE SpiFlash ------------------------------
(***************************************************************************)
(* The SPI NOR flash behind the OTA storage of a CAN node, as the driver   *)
(* in lib/SPIFlash presents it.  A program only clears bits, a chip erase  *)
(* runs on its own after it was issued, and a chip that does not come      *)
(* ready refuses the command: writes, reads and erases then report failure *)
(* instead of waiting.                                                     *)
(***************************************************************************)
EXTENDS Integers, Bytes

CONSTANTS
  Erased,      \* a cell after an erase: all bits set
  And(_, _),   \* bitwise AND of two bytes: what programming a cell leaves
  Capacity,    \* size of the chip in bytes
  PageSize,    \* a program command never crosses a page
  FlashFaults  \* the commands a chip that is not erasing may still refuse

ASSUME CellAssumption ==
  /\ Erased \in Byte
  /\ \A a, b \in Byte : And(a, b) \in Byte
  /\ \A b \in Byte : And(Erased, b) = b

ASSUME FlashAssumption ==
  /\ Capacity \in Nat \ {0}
  /\ PageSize \in Nat \ {0}
  /\ FlashFaults \subseteq {"erase", "write", "read"}

VARIABLES
  flash,    \* the cells
  erasing   \* an issued chip erase has not finished yet

flashVars == <<flash, erasing>>

Addr == 0 .. Capacity - 1

FlashTypeOK ==
  /\ flash \in [Addr -> Byte]
  /\ erasing \in BOOLEAN

\* Whether the chip takes a command: never while it erases, and not for sure
\* when it may drop off the bus.  command() waits busyTimeoutMs, far below
\* the time of an erase.
Answers(kind) ==
  IF erasing THEN {FALSE}
  ELSE IF kind \in FlashFaults THEN BOOLEAN ELSE {TRUE}

\* busy() is also what a chip that drives nothing reads as.
Busy == erasing

\* The size start() checks a region against: a chip that is erasing does not
\* answer the identification either, and counts as having no capacity.
ReportedCapacity == IF erasing THEN 0 ELSE Capacity

\* The cells after the n bytes data[0..n-1] were programmed at addr.
Programmed(addr, data, n) ==
  [a \in Addr |-> IF addr <= a /\ a < addr + n
                    THEN And(flash[a], data[a - addr]) ELSE flash[a]]

\* How many bytes of a write of n bytes at addr reach the cells before the
\* chip refuses: whole pages only.
PartialLengths(addr, n) == {k \in 0 .. n - 1 : k = 0 \/ (addr + k) % PageSize = 0}

\* A chip erase that was issued; it runs until EraseDone.
ChipErase == /\ erasing' = TRUE
             /\ flash' = flash

\* The chip finishes an erase by itself.
EraseDone == /\ erasing
             /\ erasing' = FALSE
             /\ flash' = [a \in Addr |-> Erased]
=============================================================================
