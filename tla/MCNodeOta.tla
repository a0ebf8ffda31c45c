------------------------------ MODULE MCNodeOta -----------------------------
(***************************************************************************)
(* Small instances of NodeOta: bytes of two bits, pieces of three bytes,   *)
(* two blocks, two images that differ in one byte or in length.            *)
(***************************************************************************)
EXTENDS NodeOta

MCByte == 0 .. 3

\* Bitwise AND of two-bit values.
MCAnd(a, b) ==
  (IF a % 2 = 1 /\ b % 2 = 1 THEN 1 ELSE 0) + (IF a >= 2 /\ b >= 2 THEN 2 ELSE 0)

\* The checksum that tells everything apart.
MCCrc(s) == s

MCJmp == [i \in 0 .. 1 |-> i + 1]
MCImages == {<<1, 2, 1, 0>>, <<1, 2, 1, 2, 1>>}
MCPieces == {PieceData(img, p) : img \in MCImages, p \in {0, PieceSize}}
MCFactory == [i \in 0 .. ProgramMemorySize - 1 |-> 0]
=============================================================================
