---------------------------- MODULE MCCanDevices ----------------------------
(***************************************************************************)
(* Small instances of the parts on the CAN side, one behaviour of one part *)
(* at a time: irrigation node, alert node and its sensor, the task loop,   *)
(* bus drivers and addressing keep apart state and are checked as a        *)
(* disjoint union.  `part' says which one a behaviour is of; the others    *)
(* stay where they began.                                                  *)
(***************************************************************************)
EXTENDS MCPumpControl, AlertPlayer, AmbientSensor, TaskHandler, CanBus, Addressing

CONSTANT
  Lone        \* the node that shares its provisional address with no other

VARIABLE part

devicesVars == <<part, pumpVars, alertVars, ambientVars, taskVars, canVars, addrVars>>

\* The gateway sends and the bus fails; the node sends; both do.
Load(g, n, f, b) == [gateway |-> g, node |-> n, foreign |-> f, busOffs |-> b]
MCLoads == {Load(3, 0, 0, 1), Load(0, 5, 1, 0), Load(1, 2, 0, 1)}

\* All nodes but one share a provisional address.
MCProvisionalId == [n \in Nodes |-> IF n = Lone THEN 9 ELSE 8]

\* Lists of every length up to five, all entries there or the second absent.
MCTaskLists ==
  {[taskNum |-> n, fullRoundRobin |-> full, tasks |-> (0..(n - 1)) \ absent] :
     n \in 1..5, full \in BOOLEAN, absent \in {{}, {1}}}

Parts == {"irrigation", "alert", "ambient", "loop", "bus", "addressing"}

CanDevicesInit ==
  /\ part \in Parts
  /\ PumpInit /\ AlertInit /\ AmbientInit /\ TaskInit /\ CanInit /\ AddrInit
  /\ part # "loop" => list.taskNum = 1 /\ list.fullRoundRobin
  /\ part # "bus" => trace.left = Load(3, 0, 0, 1)
  /\ part # "addressing" => \A n \in Nodes : record[n] = NoId

Stays(p, v) == part # p => UNCHANGED v

CanDevicesNext ==
  /\ UNCHANGED part
  /\ \/ part = "irrigation" /\ PumpNext
     \/ part = "alert" /\ AlertNext
     \/ part = "ambient" /\ AmbientNext
     \/ part = "loop" /\ TaskNext
     \/ part = "bus" /\ CanNext
     \/ part = "addressing" /\ AddrNext
  /\ Stays("irrigation", pumpVars) /\ Stays("alert", alertVars) /\ Stays("ambient", ambientVars)
  /\ Stays("loop", taskVars) /\ Stays("bus", canVars) /\ Stays("addressing", addrVars)

\* The fairness of the parts, each for its own behaviours.
CanDevicesFairness ==
  /\ WF_pumpVars(part = "irrigation" /\ Pass)
  /\ WF_pumpVars(part = "irrigation" /\ PumpTick)
  /\ WF_alertVars(part = "alert" /\ playerRun)
  /\ WF_alertVars(part = "alert" /\ alertTick)
  /\ WF_alertVars(part = "alert" /\ \E edge \in BOOLEAN : trackStarts(edge))
  /\ WF_canVars(part = "bus" /\ gatewayRun)
  /\ WF_canVars(part = "bus" /\ abortTakes)
  /\ WF_canVars(part = "bus" /\ recoveryEnds)
  /\ WF_canVars(part = "bus" /\ canTick)
  /\ \A n \in Nodes : /\ WF_addrVars(part = "addressing" /\ nodeStarts(n))
                      /\ WF_addrVars(part = "addressing" /\ announce(n))

CanDevicesSpec == CanDevicesInit /\ [][CanDevicesNext]_devicesVars /\ CanDevicesFairness
=============================================================================
