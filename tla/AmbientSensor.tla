--------------------------- MODULE AmbientSensor ---------------------------
(***************************************************************************)
(* The sensor task of the alert node: temperature and humidity of an       *)
(* SI7021, light of an analog pin, sent over CAN when one of them has      *)
(* moved, and after kSendMaxPeriod at the latest.  Nobody confirms a frame *)
(* and the task does not look whether send() took it.                      *)
(*                                                                         *)
(* Readings are small numbers, a tick is the unit of both periods.         *)
(***************************************************************************)
EXTENDS Integers

CONSTANTS
  Temperatures, Humidities, Lights,              \* what there is to measure
  kTempTolerance, kHumTolerance, kLightTolerance,
  measurePeriod, kSendMaxPeriod,
  MaxAmbientResets                               \* bound of the runs

ASSUME AmbientAssumption ==
  /\ Temperatures \cup Humidities \cup Lights \subseteq Int
  /\ {kTempTolerance, kHumTolerance, kLightTolerance, measurePeriod, kSendMaxPeriod, MaxAmbientResets} \subseteq Nat

VARIABLES
  sensor,     \* event, the values at hand, the last ones sent, age of both timers
  judged,     \* what the last whole cycle found; empty after a sensor error
  known,      \* what the last frame of values on the bus said
  ambient     \* whether send() took the last values, whether run() came since
              \* the tick, the resets so far

ambientVars == <<sensor, judged, known, ambient>>

Values(t, h, l) == [temperature |-> t, humidity |-> h, light |-> l]

\* INT16_MIN and UINT16_MAX: away from every reading by more than a tolerance.
Sentinel == Values(-100, 100, 100)

Apart(a, b, tolerance) == (IF a > b THEN a - b ELSE b - a) > tolerance

ASSUME SentinelAssumption == \A t \in Temperatures : Apart(t, Sentinel.temperature, kTempTolerance)

\* The comparison of CHECK_SEND.
changed(v, w) ==
  \/ Apart(v.temperature, w.temperature, kTempTolerance)
  \/ Apart(v.humidity, w.humidity, kHumTolerance)
  \/ Apart(v.light, w.light, kLightTolerance)

PowerUp == [event |-> "OFF", values |-> Values(0, 0, 0), lastSent |-> Sentinel, eventAge |-> 0, sendAge |-> 0]

AmbientInit ==
  /\ sensor = PowerUp
  /\ judged = {} /\ known = Sentinel
  /\ ambient = [taken |-> FALSE, served |-> FALSE, resets |-> 0]

-----------------------------------------------------------------------------
\* init(): a chip that does not answer restarts the node, and it tries again.
ambientStarts ==
  /\ sensor.event = "OFF"
  /\ sensor' = [sensor EXCEPT !.event = "IDLE", !.eventAge = 0, !.sendAge = 0]
  /\ UNCHANGED <<judged, known, ambient>>

\* complementaryFilter10(): the result lies between the two, and stays put when
\* a rise is too small for the integer division.
complementaryFilter10(reading, old) ==
  {l \in Lights \cup {old} : (old <= l /\ l <= reading) \/ (reading <= l /\ l <= old /\ (l = old => reading = old))}

\* Every pass samples the light first.
sampled(v) ==
  {[v EXCEPT !.light = l] : l \in UNION {complementaryFilter10(r, v.light) : r \in Lights}}

\* hasElapsed() is strict.
measureDue == sensor.eventAge > measurePeriod

waitForPeriod(v) ==
  /\ sensor.event = "IDLE"
  /\ sensor' = [sensor EXCEPT !.values = v, !.eventAge = IF measureDue THEN 0 ELSE @,
                              !.event = IF measureDue THEN "READ_TEMPERATURE" ELSE "IDLE"]
  /\ UNCHANGED <<judged, known>>

\* SI7021: writing the command or reading its answer may fail.
RegisterAccess == BOOLEAN

\* A read that fails leaves the caller's value as it was.
ReadResults(readings, old) ==
  {r \in [ok : RegisterAccess, value : readings \cup {old}] :
     IF r.ok THEN r.value \in readings ELSE r.value = old}

getCelsiusHundredths(old) == ReadResults(Temperatures, old)

getHumidityPercent(old) == ReadResults(Humidities, old)

readTemperature(v) ==
  /\ sensor.event = "READ_TEMPERATURE"
  /\ \E r \in getCelsiusHundredths(v.temperature) :
       sensor' = [sensor EXCEPT !.values = [v EXCEPT !.temperature = r.value],
                                !.event = IF r.ok THEN "READ_HUMIDITY" ELSE "SENSOR_ERROR"]
  /\ UNCHANGED <<judged, known>>

readHumidity(v) ==
  /\ sensor.event = "READ_HUMIDITY"
  /\ \E r \in getHumidityPercent(v.humidity) :
       sensor' = [sensor EXCEPT !.values = [v EXCEPT !.humidity = r.value],
                                !.event = IF r.ok THEN "CHECK_SEND" ELSE "SENSOR_ERROR"]
  /\ UNCHANGED <<judged, known>>

\* Mutant: the forced send is judged by the timer of the measurements.
sendDueByEvent == sensor.eventAge > kSendMaxPeriod

sendDue == sensor.sendAge > kSendMaxPeriod

checkSend(v) ==
  /\ sensor.event = "CHECK_SEND"
  /\ sensor' = [sensor EXCEPT !.values = v,
                              !.event = IF changed(v, sensor.lastSent) \/ sendDue THEN "SEND_VALUES" ELSE "IDLE"]
  /\ judged' = {v}
  /\ UNCHANGED known

\* The values are taken for sent whether send() took them or not.
sendValues(v, taken) ==
  /\ sensor.event = "SEND_VALUES"
  /\ sensor' = [sensor EXCEPT !.values = v, !.lastSent = v, !.sendAge = 0, !.event = "IDLE"]
  /\ judged' = {v}
  /\ known' = IF taken THEN v ELSE known

sensorError(v) ==
  /\ sensor.event = "SENSOR_ERROR"
  /\ sensor' = [sensor EXCEPT !.values = v, !.event = "IDLE"]
  /\ judged' = {}
  /\ UNCHANGED known

\* One pass of run().
ambientRun ==
  /\ sensor.event # "OFF"
  /\ \E v \in sampled(sensor.values) :
       \/ /\ waitForPeriod(v) \/ readTemperature(v) \/ readHumidity(v) \/ checkSend(v) \/ sensorError(v)
          /\ ambient' = [ambient EXCEPT !.served = TRUE]
       \/ \E taken \in BOOLEAN :
            /\ sendValues(v, taken)
            /\ ambient' = [ambient EXCEPT !.served = TRUE, !.taken = taken]

-----------------------------------------------------------------------------
ambientResets ==
  /\ sensor.event # "OFF" /\ ambient.resets < MaxAmbientResets
  /\ sensor' = PowerUp
  /\ judged' = {}
  /\ ambient' = [ambient EXCEPT !.resets = @ + 1]
  /\ UNCHANGED known

\* What a refused frame may cost: the wait that was not yet over when the cycle
\* checked, and the next cycle's with the tick of a strict comparison.
RetryWithin == kSendMaxPeriod + measurePeriod + 1

\* A tick is far longer than a round of the loop.
ambientTick ==
  /\ sensor.event # "OFF" /\ ambient.served
  /\ sensor' = [sensor EXCEPT !.eventAge = IF @ <= kSendMaxPeriod + measurePeriod THEN @ + 1 ELSE @,
                              !.sendAge = IF @ <= RetryWithin THEN @ + 1 ELSE @]
  /\ ambient' = [ambient EXCEPT !.served = FALSE]
  /\ UNCHANGED <<judged, known>>

AmbientNext == ambientStarts \/ ambientRun \/ ambientResets \/ ambientTick

AmbientSpec == AmbientInit /\ [][AmbientNext]_ambientVars

-----------------------------------------------------------------------------
\* After a cycle that could read the sensor, what the bus was last told is
\* within the tolerances of what the node found; or send() refused that frame,
\* and then the node tries again after kSendMaxPeriod, however little the room
\* changes and whichever cycles in between fail (CHECK_SEND, SEND_VALUES).
ToldOrRetried ==
  sensor.event = "IDLE" /\ (\E v \in judged : changed(v, known)) =>
    ~ambient.taken /\ sensor.sendAge <= RetryWithin
=============================================================================
