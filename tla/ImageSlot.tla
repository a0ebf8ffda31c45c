------------------------------ MODULE ImageSlot -----------------------------
(***************************************************************************)
(* What the firmware storage of a node promises its bootloader: the slot   *)
(* is either empty or holds one whole image.  An image appears in it in    *)
(* one step, is never changed in place, and is the only thing besides the  *)
(* current program the node can come up with.                              *)
(***************************************************************************)
CONSTANTS
  WholeImages,    \* the complete images, as the program memory holds them
  InitialProgram

VARIABLES
  slot,    \* {} or {image}: what the bootloader would install
  program  \* what the node runs

Init == slot = {} /\ program = InitialProgram

\* An image is complete and from now on bootable.
Commit == /\ slot = {}
          /\ \E img \in WholeImages : slot' = {img}
          /\ program' = program

\* A new transfer, or a failed one, gives the slot up.
Clear == /\ slot # {}
         /\ slot' = {}
         /\ program' = program

\* The bootloader copies the slot into the program memory.
Install == /\ \E img \in slot : program' = img
           /\ slot' = slot

Next == Commit \/ Clear \/ Install

Spec == Init /\ [][Next]_<<slot, program>>
=============================================================================
