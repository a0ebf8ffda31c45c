-------------------------- MODULE MCCanOtaTransfer --------------------------
(***************************************************************************)
(* Small instances of CanOtaTransfer.                                      *)
(***************************************************************************)
EXTENDS CanOtaTransfer

MCByte == 0 .. 3
MCAnd(a, b) ==
  (IF a % 2 = 1 /\ b % 2 = 1 THEN 1 ELSE 0) + (IF a >= 2 /\ b >= 2 THEN 2 ELSE 0)
MCCrc(s) == s
MCJmp == [i \in 0 .. 1 |-> i + 1]
MCImages == {<<1, 2, 1, 0>>, <<1, 2, 1, 2, 1>>}
MCPieces == {f.data : f \in {g \in GatewayFrames : g.cmd = "OTA_SEND"}}
MCFactory == [i \in 0 .. ProgramMemorySize - 1 |-> 0]

\* What OkAlwaysInstalled assumes of the images holds of these.
ASSUME ImagesFit == ImagesApart /\ BeyondHeader
=============================================================================
