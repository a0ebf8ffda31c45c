---------------------------- MODULE MCEspDevices ----------------------------
(***************************************************************************)
(* Small instances of the parts on the MQTT side, one behaviour of one     *)
(* part at a time: connection, MQTT client, radio, thermometer and the     *)
(* upload between the server's sender and a device keep apart state and    *)
(* are checked as a disjoint union.  `part' says which one a behaviour is  *)
(* of; the others stay where they began.                                   *)
(***************************************************************************)
EXTENDS MCConnectivity, PubSubClient, RfHandler, Thermometer, MCUploadLink

VARIABLE part

devicesVars == <<part, netVars, mqttVars, rfVars, thermoVars, vars>>

\* A remote whose frames fit the recording, one whose do not; a command that
\* transmits and one that is refused.
MCFrameLength == [c \in Codes |-> IF c = "long" THEN 3 ELSE 2]
Command(protocol, pulse, sends) == [protocol |-> protocol, pulse |-> pulse, sends |-> sends]
MCRfCommands == {Command(TRUE, "keep", TRUE), Command(FALSE, "out of range", TRUE)}

MCBusOrder == <<"first", "second", "third">>

Parts == {"connection", "client", "radio", "thermometer", "upload"}

EspDevicesInit ==
  /\ part \in Parts
  /\ NetInit /\ MqttInit /\ RfInit /\ ThermoInit /\ Init
  /\ part # "connection" => net /\ broker

Stays(p, v) == part # p => UNCHANGED v

EspDevicesNext ==
  /\ UNCHANGED part
  /\ \/ part = "connection" /\ NetNext
     \/ part = "client" /\ MqttNext
     \/ part = "radio" /\ RfNext
     \/ part = "thermometer" /\ ThermoNext
     \/ part = "upload" /\ Next
  /\ Stays("connection", netVars) /\ Stays("client", mqttVars) /\ Stays("radio", rfVars)
  /\ Stays("thermometer", thermoVars) /\ Stays("upload", vars)

\* The fairness of the parts, each for its own behaviours.
EspDevicesFairness ==
  /\ WF_netVars(part = "connection" /\ Startup)
  /\ WF_netVars(part = "connection" /\ run)
  /\ WF_netVars(part = "connection" /\ netTick)
  /\ WF_netVars(part = "connection" /\ deviceNotices)
  /\ WF_netVars(part = "connection" /\ netReturns)
  /\ WF_netVars(part = "connection" /\ brokerReturns)
  /\ WF_rfVars(part = "radio" /\ rfPass)
  /\ WF_rfVars(part = "radio" /\ edge)
  /\ WF_vars(part = "upload" /\ Connects)
  /\ WF_vars(part = "upload" /\ AnswerArrives)
  /\ WF_vars(part = "upload" /\ Publishes)
  /\ WF_vars(part = "upload" /\ Concludes)
  /\ WF_vars(part = "upload" /\ DeviceReceives)
  /\ WF_vars(part = "upload" /\ DevicePass)
  /\ WF_vars(part = "upload" /\ Tick)

EspDevicesSpec == EspDevicesInit /\ [][EspDevicesNext]_devicesVars /\ EspDevicesFairness
=============================================================================
