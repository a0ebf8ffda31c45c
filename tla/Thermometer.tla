---------------------------- MODULE Thermometer ----------------------------
(***************************************************************************)
(* MqttThermometer over Ds18b20Reader: the probes of a 1-Wire bus, found   *)
(* once at start-up and then read in a cycle - request a conversion, let   *)
(* it run, read and publish one probe a pass, wait.  Probes are plugged in *)
(* and out meanwhile.                                                      *)
(***************************************************************************)
EXTENDS Integers, Sequences, FiniteSets

CONSTANTS
  BusOrder,            \* the probes, in the order the bus search finds them
  MaxSensors,
  conversionDelayMs,   \* a conversion takes at most this long
  measurePeriodMs,
  MaxUnplugs, MaxReboots  \* bounds of the runs

Probes == {BusOrder[i] : i \in DOMAIN BusOrder}

ASSUME ThermoAssumption ==
  /\ BusOrder \in Seq(Probes)
  /\ \A i, j \in DOMAIN BusOrder : i # j => BusOrder[i] # BusOrder[j]
  /\ MaxSensors \in Nat \ {0}
  /\ {conversionDelayMs, measurePeriodMs, MaxUnplugs, MaxReboots} \subseteq Nat

VARIABLES
  therm,      \* cached addresses, state, readIndex, the age of timer
  plugged,    \* probes on the bus
  scratch,    \* of each probe: "old" reading, "converting", "new" since the request
  cycle       \* probes there and answering since the request, how often each was
              \* published, whether one with an old reading; the bounds' counters

thermoVars == <<therm, plugged, scratch, cycle>>

Off == [addresses |-> << >>, state |-> "Off", readIndex |-> 0, age |-> 0]
NewCycle(c) == [c EXCEPT !.stayed = plugged, !.published = [p \in Probes |-> 0], !.stale = FALSE]

ThermoInit ==
  /\ therm = Off
  /\ plugged = Probes
  /\ scratch = [p \in Probes |-> "old"]
  /\ cycle = [stayed |-> {}, published |-> [p \in Probes |-> 0], stale |-> FALSE, unplugs |-> 0, reboots |-> 0]

-----------------------------------------------------------------------------
(* Ds18b20Reader                                                           *)

\* The bus search always finds p before q.
Before(p, q) == \E i, j \in DOMAIN BusOrder : i < j /\ BusOrder[i] = p /\ BusOrder[j] = q

\* The probes that are asked for their address: the first MaxSensors found.
Asked == {p \in plugged : Cardinality({q \in plugged : Before(q, p)}) < MaxSensors}

\* begin(): the probes that answer, one after the other in the order of the
\* search; one that does not is left out and the rest moves up.
readerBegin(answering) ==
  {s \in [1 .. Cardinality(answering) -> answering] :
     \A i, j \in DOMAIN s : i < j => Before(s[i], s[j])}

count == Len(therm.addresses)

\* requestConversion(): every probe on the bus, known or not.
requestConversion == scratch' = [p \in Probes |-> IF p \in plugged THEN "converting" ELSE scratch[p]]

-----------------------------------------------------------------------------
(* MqttThermometer                                                         *)

thermoInit ==
  /\ therm.state = "Off"
  /\ \E answering \in SUBSET Asked : \E addresses \in readerBegin(answering) :
       therm' = [Off EXCEPT !.addresses = addresses, !.state = "Idle"]
  /\ UNCHANGED <<plugged, scratch, cycle>>

runIdle ==
  /\ therm.state = "Idle"
  /\ requestConversion
  /\ therm' = [therm EXCEPT !.age = 0, !.state = "Converting"]
  /\ cycle' = NewCycle(cycle)

\* Mutant: the wait ends as the conversion time does, not after it.
conversionOverEarly == therm.age >= conversionDelayMs

\* hasElapsed() is strict.
conversionOver == therm.age > conversionDelayMs

runConverting ==
  /\ therm.state = "Converting"
  /\ therm' = IF conversionOver THEN [therm EXCEPT !.readIndex = 0, !.state = "Reading"] ELSE therm
  /\ UNCHANGED <<scratch, cycle>>

\* readAndPublishOne(): a probe that is gone or does not answer is skipped.
\* "published" counts the readings handed to sendSubtopicMessage, whose result
\* the code does not look at: what the MQTT client makes of one is not seen here.
readAndPublishOne(p, answers) ==
  cycle' = IF ~answers THEN [cycle EXCEPT !.stayed = @ \ {p}]
           ELSE [cycle EXCEPT !.published[p] = @ + 1,
                              !.stale = @ \/ (p \in cycle.stayed /\ scratch[p] # "new")]

runReading ==
  /\ therm.state = "Reading"
  /\ LET p == therm.addresses[therm.readIndex + 1] IN
       \E answers \in BOOLEAN : (answers => p \in plugged) /\ readAndPublishOne(p, answers)
  /\ therm' = [therm EXCEPT !.readIndex = @ + 1,
                            !.age = IF therm.readIndex + 1 >= count THEN 0 ELSE @,
                            !.state = IF therm.readIndex + 1 >= count THEN "Waiting" ELSE "Reading"]
  /\ UNCHANGED scratch

runWaiting ==
  /\ therm.state = "Waiting"
  /\ therm' = IF therm.age > measurePeriodMs THEN [therm EXCEPT !.state = "Idle"] ELSE therm
  /\ UNCHANGED <<scratch, cycle>>

\* run(): nothing to do without a probe.
thermoRun ==
  /\ count > 0
  /\ runIdle \/ runConverting \/ runReading \/ runWaiting
  /\ UNCHANGED plugged

-----------------------------------------------------------------------------
(* The probes and the clock                                                *)

converts(p) ==
  /\ scratch[p] = "converting"
  /\ scratch' = [scratch EXCEPT ![p] = "new"]
  /\ UNCHANGED <<therm, plugged, cycle>>

unplug(p) ==
  /\ p \in plugged /\ cycle.unplugs < MaxUnplugs
  /\ plugged' = plugged \ {p}
  /\ scratch' = [scratch EXCEPT ![p] = "old"]
  /\ cycle' = [cycle EXCEPT !.stayed = @ \ {p}, !.unplugs = @ + 1]
  /\ UNCHANGED therm

plugIn(p) ==
  /\ p \notin plugged
  /\ plugged' = plugged \cup {p}
  /\ UNCHANGED <<therm, scratch, cycle>>

reboot ==
  /\ therm.state # "Off" /\ cycle.reboots < MaxReboots
  /\ therm' = Off
  /\ cycle' = [NewCycle(cycle) EXCEPT !.reboots = @ + 1]
  /\ UNCHANGED <<plugged, scratch>>

Slowest == IF conversionDelayMs > measurePeriodMs THEN conversionDelayMs ELSE measurePeriodMs

\* No conversion takes longer than conversionDelayMs.
thermoTick ==
  /\ therm.state \in {"Converting", "Waiting"} /\ therm.age <= Slowest
  /\ therm.state = "Converting" /\ therm.age >= conversionDelayMs => \A p \in Probes : scratch[p] # "converting"
  /\ therm' = [therm EXCEPT !.age = @ + 1]
  /\ UNCHANGED <<plugged, scratch, cycle>>

ThermoNext ==
  \/ thermoInit \/ thermoRun \/ reboot \/ thermoTick
  \/ \E p \in Probes : converts(p) \/ unplug(p) \/ plugIn(p)

ThermoSpec == ThermoInit /\ [][ThermoNext]_thermoVars

-----------------------------------------------------------------------------
\* A cycle publishes every probe found at start-up that stayed on the bus and
\* answers, once, and never the reading of an earlier cycle as this one's:
\* whichever probes did not answer at start-up, come or go, and however late
\* the conversion ends within its time (run, readAndPublishOne).
CycleComplete ==
  /\ ~cycle.stale
  /\ therm.state = "Waiting" =>
       \A i \in DOMAIN therm.addresses :
         therm.addresses[i] \in cycle.stayed => cycle.published[therm.addresses[i]] = 1
=============================================================================
