----------------------------- MODULE PumpControl -----------------------------
(***************************************************************************)
(* The irrigation node: one pump, channelCount outlets chosen by an I/O    *)
(* expander, a queue of irrigations, a safety irrigation per channel, and  *)
(* the watch over the flow meter and the pump current.                     *)
(*                                                                         *)
(* Time is counted in ticks of one minute.  A timer is kept as its age,    *)
(* which stops growing once nothing can tell a larger one apart; the one   *)
(* second of the error check and the five of the calibration are both over *)
(* once a tick has passed.  The scheduler calls Pass again and again;      *)
(* commands, button presses and flow pulses come between two passes.       *)
(***************************************************************************)
EXTENDS Integers, Sequences, FiniteSets, Fifo

CONSTANTS
  channelCount,  \* outlets, and slots of the irrigation queue
  SafetyTime,    \* per channel, the ticks after which it must be watered; 0 for never
  SafetyItem,    \* per channel, the irrigation queued when that time is over
  Commands,      \* the irrigations a command may ask for
  Readings,      \* what the current sense can read
  SelectResults, \* whether writing the expander can succeed, can fail
  MaxPulses,     \* bound on the pulses counted between two clears
  MaxCommands    \* bound on the commands and button presses

Channels == 0 .. (channelCount - 1)

Irrigations == [channel : Channels, duration : 0 .. 7,
                checkFlow : BOOLEAN, checkCurrent : BOOLEAN, repeatNum : 0 .. 255]

(* What the filtered current sense reads: nothing, a working pump, too much. *)
Currents == {"standby", "working", "over"}

ASSUME PumpAssumption ==
  /\ channelCount \in Nat \ {0}
  /\ SafetyTime \in [Channels -> Nat]
  /\ SafetyItem \in [Channels -> Irrigations]
  /\ \A c \in Channels : SafetyItem[c].channel = c
  /\ Commands \subseteq Irrigations
  /\ Readings \subseteq Currents
  /\ SelectResults \subseteq BOOLEAN
  /\ MaxPulses \in Nat
  /\ MaxCommands \in Nat

Errors == {"CH_SELECT", "FLOW_STUCK", "PUMP_OC", "PUMP_UC", "QUEUE_FULL"}

VARIABLES
  irrigationState,
  irrigationQueue,
  pumpOn,              \* the PWM output drives the pump
  selectedCh,          \* the outlet the expander's register selects, -1 for none
  flowCounter,         \* incremented by the flow meter's interrupt
  prevFlowCounter,
  eventAge,            \* age of eventTimer, at most MaxEventAge
  checkDue,            \* errorCheckTime has passed since errorCheckTimer
  safetyAge,           \* per channel, age of its safety timer
  pumpErr,             \* errors not reported yet (those of a busy pump)
  stopped,             \* ghost: all irrigations were skipped and none has been called for since
  commands             \* commands and presses so far

pumpVars == <<irrigationState, irrigationQueue, pumpOn, selectedCh, flowCounter,
              prevFlowCounter, eventAge, checkDue, safetyAge, pumpErr, stopped, commands>>

queueVars == <<irrigationQueue, pumpErr>>
flowVars  == <<flowCounter, prevFlowCounter>>
timeVars  == <<eventAge, checkDue, safetyAge>>
ghostVars == <<stopped, commands>>

MaxEventAge == 8

PumpInit ==
  /\ irrigationState = "CALIBRATION"
  /\ irrigationQueue = << >>
  /\ pumpOn = FALSE
  /\ selectedCh = -1
  /\ flowCounter = 0 /\ prevFlowCounter = 0
  /\ eventAge = 0 /\ checkDue = FALSE
  /\ safetyAge = [c \in Channels |-> 0]
  /\ pumpErr = {}
  /\ stopped = FALSE
  /\ commands = 0

-----------------------------------------------------------------------------
(* Queueing *)

createIrrigation(q, item) ==
  IF isFull(q, channelCount) THEN q ELSE put(q, item, channelCount)

SafetyDue(c) == SafetyTime[c] > 0 /\ safetyAge[c] > SafetyTime[c]

(* The safety irrigations that are due, in the order of their channels: the *)
(* i-th belongs to the due channel with i - 1 due channels below it.        *)
DueItems ==
  LET due == {c \in Channels : SafetyDue(c)}
  IN  [i \in 1 .. Cardinality(due) |->
         SafetyItem[CHOOSE c \in due : Cardinality({d \in due : d < c}) = i - 1]]

(* A set of errors, as ErrorState keeps it. *)
setError(err, e) == err \cup {e}

(* Queues every overdue safety irrigation; those that do not fit are an error. *)
checkSafetyIrrigations(q, err) ==
  LET all == q \o DueItems
  IN  IF Len(all) > channelCount
      THEN [queue |-> SubSeq(all, 1, channelCount), err |-> setError(err, "QUEUE_FULL")]
      ELSE [queue |-> all, err |-> err]

-----------------------------------------------------------------------------
(* One pass of run(), by state.  handleIdle reports and forgets every error. *)

startIrrigation ==
  /\ selectedCh' = irrigationQueue[1].channel
  /\ pumpOn' = TRUE
  /\ eventAge' = 0 /\ checkDue' = FALSE
  /\ flowCounter' = 0 /\ prevFlowCounter' = 0
  /\ safetyAge' = [safetyAge EXCEPT ![irrigationQueue[1].channel] = 0]
  /\ irrigationState' = "RUN"
  /\ UNCHANGED irrigationQueue

selectFails ==
  /\ irrigationState' = "ERROR"
  /\ UNCHANGED <<irrigationQueue, pumpOn, selectedCh, flowVars, timeVars>>

watchIdle(current) ==
  /\ irrigationQueue' = checkSafetyIrrigations(irrigationQueue, {}).queue
  /\ irrigationState' = IF flowCounter > 0 \/ current # "standby" THEN "ERROR" ELSE "IDLE"
  /\ UNCHANGED <<pumpOn, selectedCh, flowVars, timeVars>>

handleIdle(selected, current) ==
  /\ irrigationState = "IDLE"
  /\ \/ irrigationQueue # << >> /\ selected /\ startIrrigation
     \/ irrigationQueue # << >> /\ ~selected /\ selectFails
     \/ irrigationQueue = << >> /\ watchIdle(current)
  /\ pumpErr' = {}
  /\ UNCHANGED ghostVars

endIrrigation ==
  /\ flowCounter' = 0 /\ prevFlowCounter' = 0
  /\ irrigationState' = "STOP"
  /\ UNCHANGED <<checkDue, pumpErr>>

checkIrrigation(current) ==
  LET item  == irrigationQueue[1]
      stuck == item.checkFlow /\ flowCounter <= prevFlowCounter
      found == {e \in Errors : \/ e = "FLOW_STUCK" /\ stuck
                               \/ e = "PUMP_UC" /\ item.checkCurrent /\ current = "standby"
                               \/ e = "PUMP_OC" /\ item.checkCurrent /\ current = "over"}
  IN  /\ checkDue' = FALSE
      /\ prevFlowCounter' = IF item.checkFlow /\ ~stuck THEN flowCounter ELSE prevFlowCounter
      /\ pumpErr' = pumpErr \cup found
      /\ irrigationState' = IF found = {} THEN "RUN" ELSE "ERROR"
      /\ UNCHANGED flowCounter

\* Mutant: the error check restarts the irrigation's own timer.
handleRunRestartsTimer(limitSwitch, current) ==
  /\ irrigationState = "RUN"
  /\ LET over == eventAge > irrigationQueue[1].duration \/ limitSwitch
     IN  \/ over /\ endIrrigation /\ UNCHANGED eventAge
         \/ ~over /\ checkDue /\ checkIrrigation(current) /\ eventAge' = 0
  /\ UNCHANGED <<irrigationQueue, pumpOn, selectedCh, safetyAge, ghostVars>>

handleRun(limitSwitch, current) ==
  /\ irrigationState = "RUN"
  /\ LET over == eventAge > irrigationQueue[1].duration \/ limitSwitch
     IN  \/ over /\ endIrrigation
         \/ ~over /\ checkDue /\ checkIrrigation(current)
  /\ UNCHANGED <<irrigationQueue, pumpOn, selectedCh, eventAge, safetyAge, ghostVars>>

\* Mutant: the safety irrigations are queued before the repeat.
afterStopSafetyFirst(item) ==
  IF item.repeatNum = 0
  THEN [queue |-> pop(irrigationQueue), err |-> pumpErr]
  ELSE LET checked == checkSafetyIrrigations(pop(irrigationQueue), pumpErr)
       IN  [checked EXCEPT !.queue = createIrrigation(@, [item EXCEPT !.repeatNum = @ - 1])]

(* The repeat takes the slot its own pop freed, before any safety irrigation. *)
afterStop(item) ==
  IF item.repeatNum = 0
  THEN [queue |-> pop(irrigationQueue), err |-> pumpErr]
  ELSE checkSafetyIrrigations(
         createIrrigation(pop(irrigationQueue), [item EXCEPT !.repeatNum = @ - 1]), pumpErr)

\* Mutant: the pump runs on for the next irrigation, whatever its channel.
handleStopRunsOn ==
  /\ irrigationState = "STOP"
  /\ irrigationQueue' = afterStop(irrigationQueue[1]).queue
  /\ pumpErr' = afterStop(irrigationQueue[1]).err
  /\ pumpOn' = (pumpOn /\ irrigationQueue' # << >>)
  /\ irrigationState' = "IDLE"
  /\ UNCHANGED <<selectedCh, flowVars, timeVars, ghostVars>>

handleStop ==
  /\ irrigationState = "STOP"
  /\ LET item == irrigationQueue[1]
     IN  /\ irrigationQueue' = afterStop(item).queue
         /\ pumpErr' = afterStop(item).err
         /\ pumpOn' = (pumpOn /\ irrigationQueue' # << >> /\ irrigationQueue'[1].channel = item.channel)
  /\ irrigationState' = "IDLE"
  /\ UNCHANGED <<selectedCh, flowVars, timeVars, ghostVars>>

handleError ==
  /\ irrigationState = "ERROR"
  /\ pumpOn' = FALSE
  /\ irrigationQueue' = pop(irrigationQueue)
  /\ irrigationState' = "IDLE"
  /\ UNCHANGED <<selectedCh, flowVars, timeVars, pumpErr, ghostVars>>

handleCalibration ==
  /\ irrigationState = "CALIBRATION"
  /\ eventAge > 0
  /\ irrigationState' = "IDLE"
  /\ UNCHANGED <<queueVars, pumpOn, selectedCh, flowVars, timeVars, ghostVars>>

Pass ==
  \/ \E selected \in SelectResults, current \in Readings : handleIdle(selected, current)
  \/ \E limitSwitch \in BOOLEAN, current \in Readings : handleRun(limitSwitch, current)
  \/ handleStop
  \/ handleError
  \/ handleCalibration

-----------------------------------------------------------------------------
(* Between two passes *)

addIrrigation(item) ==
  /\ commands < MaxCommands
  /\ commands' = commands + 1
  /\ irrigationQueue' = createIrrigation(irrigationQueue, item)
  /\ pumpErr' = IF isFull(irrigationQueue, channelCount) THEN setError(pumpErr, "QUEUE_FULL") ELSE pumpErr
  /\ stopped' = FALSE
  /\ UNCHANGED <<irrigationState, pumpOn, selectedCh, flowVars, timeVars>>

(* Backdates the timer to the end of the irrigation. *)
skipActualIrrigation ==
  /\ commands < MaxCommands
  /\ commands' = commands + 1
  /\ eventAge' = IF irrigationState = "RUN" THEN irrigationQueue[1].duration ELSE eventAge
  /\ UNCHANGED <<irrigationState, queueVars, pumpOn, selectedCh, flowVars, checkDue, safetyAge, stopped>>

\* Mutant: the safety timers keep their age.
skipAllIrrigationsKeepsTimers ==
  /\ commands < MaxCommands
  /\ commands' = commands + 1
  /\ irrigationQueue' = << >>
  /\ irrigationState' = "ERROR"
  /\ stopped' = TRUE
  /\ UNCHANGED <<pumpOn, selectedCh, flowVars, timeVars, pumpErr>>

skipAllIrrigations ==
  /\ commands < MaxCommands
  /\ commands' = commands + 1
  /\ irrigationQueue' = << >>
  /\ safetyAge' = [c \in Channels |-> 0]
  /\ irrigationState' = "ERROR"
  /\ stopped' = TRUE
  /\ UNCHANGED <<pumpOn, selectedCh, flowVars, eventAge, checkDue, pumpErr>>

irqHandler ==
  /\ flowCounter < MaxPulses
  /\ flowCounter' = flowCounter + 1
  /\ UNCHANGED <<irrigationState, queueVars, pumpOn, selectedCh, prevFlowCounter, timeVars, ghostVars>>

Older(age, most) == IF age < most THEN age + 1 ELSE age

(* A minute passes.  A channel whose safety time is over calls for water itself. *)
PumpTick ==
  /\ eventAge' = Older(eventAge, MaxEventAge)
  /\ checkDue' = TRUE
  /\ safetyAge' = [c \in Channels |-> Older(safetyAge[c], SafetyTime[c] + 1)]
  /\ stopped' = (stopped /\ \A c \in Channels : ~SafetyDue(c)')
  /\ UNCHANGED <<irrigationState, queueVars, pumpOn, selectedCh, flowVars, commands>>

PumpNext ==
  \/ Pass
  \/ \E item \in Commands : addIrrigation(item)
  \/ skipActualIrrigation
  \/ skipAllIrrigations
  \/ irqHandler
  \/ PumpTick

PumpSpec == PumpInit /\ [][PumpNext]_pumpVars

(* The main loop calls run() for ever, and time goes on. *)
PumpFairness == WF_pumpVars(Pass) /\ WF_pumpVars(PumpTick)

PumpFairSpec == PumpSpec /\ PumpFairness

-----------------------------------------------------------------------------
(* Properties *)

(* Unless an error is about to switch it off, a running pump waters the    *)
(* outlet of the irrigation at the head of the queue, and a running or     *)
(* finished irrigation is still the head: no command, repeat or safety     *)
(* irrigation slips in front of the one the pump was started for           *)
(* (handleIdle, handleRun and handleStop each peek the queue anew).        *)
PumpServesHead ==
  /\ irrigationState \in {"RUN", "STOP"} => pumpOn
  /\ pumpOn /\ irrigationState # "ERROR" =>
       /\ irrigationQueue # << >>
       /\ selectedCh = irrigationQueue[1].channel
       /\ irrigationState # "CALIBRATION"

(* Once everything is stopped no irrigation is queued or starts, and the   *)
(* pump is off by the next pass, until a command asks for water or a       *)
(* safety time runs out anew (skipAllIrrigations restarts every clock).    *)
StoppedStaysStopped ==
  stopped => irrigationQueue = << >> /\ (pumpOn => irrigationState = "ERROR")

(* An irrigation with repeats left is queued again when it ends, whatever  *)
(* commands and safety irrigations compete for the slots (handleStop).     *)
RepeatKeepsPlace ==
  [][irrigationState = "STOP" /\ irrigationState' = "IDLE" /\ irrigationQueue[1].repeatNum > 0 =>
       \E i \in DOMAIN irrigationQueue' :
         irrigationQueue'[i] = [irrigationQueue[1] EXCEPT !.repeatNum = @ - 1]]_pumpVars

(* A pump that runs is switched off again, or goes on with another         *)
(* irrigation: no irrigation waters for ever, skipped or not.              *)
IrrigationEnds == irrigationState = "RUN" ~> irrigationState # "RUN"

(* A channel whose safety time is over is watered (handleStop: one that    *)
(* loses its place `is still overdue and comes back on the next idle pass'). *)
SafetyIrrigationRuns == \A c \in Channels : SafetyDue(c) ~> ~SafetyDue(c)
=============================================================================
