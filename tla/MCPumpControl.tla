--------------------------- MODULE MCPumpControl ---------------------------
(***************************************************************************)
(* A small instance of PumpControl: two channels, the first with a safety  *)
(* irrigation after two idle minutes.                                      *)
(***************************************************************************)
EXTENDS PumpControl, TLC

Item(c, d, flow, current, n) ==
  [channel |-> c, duration |-> d, checkFlow |-> flow, checkCurrent |-> current, repeatNum |-> n]
MCCommands == {Item(0, 1, TRUE, FALSE, 1), Item(1, 1, FALSE, TRUE, 0)}
MCSafetyTime == (0 :> 2) @@ (1 :> 0)
MCSafetyItem == [c \in {0, 1} |-> Item(c, 0, FALSE, FALSE, 0)]
=============================================================================
