-------------------------- MODULE PumpControlProofs --------------------------
(***************************************************************************)
(* Proofs about PumpControl, for any number of channels, any safety times  *)
(* and irrigations, and any interleaving of commands, button presses, flow *)
(* pulses and minutes with the passes of run().                            *)
(***************************************************************************)
EXTENDS PumpControl, FiniteSetTheorems, TLAPS

-----------------------------------------------------------------------------
(* The queue                                                               *)

\* A queue of whatever elements that fits its slots.
IsQueue(q) == (\E S : q \in Seq(S)) /\ Len(q) <= channelCount

\* The overdue safety irrigations are a sequence, empty when none is overdue.
LEMMA DueItemsSeq ==
  /\ \E S : DueItems \in Seq(S)
  /\ (\A c \in Channels : ~SafetyDue(c)) => DueItems = << >>
<1> DEFINE due == {c \in Channels : SafetyDue(c)}
           item(i) == SafetyItem[CHOOSE c \in due : Cardinality({d \in due : d < c}) = i - 1]
           S == {item(i) : i \in 1 .. Cardinality(due)}
<1>1. IsFiniteSet(due) /\ Cardinality(due) \in Nat
  <2>1. IsFiniteSet(Channels)
    BY PumpAssumption, FS_Interval DEF Channels
  <2>2. IsFiniteSet(due)
    BY <2>1, FS_Subset
  <2> QED
    BY <2>2, FS_CardinalityType
<1>2. DueItems = [i \in 1 .. Cardinality(due) |-> item(i)]
  BY DEF DueItems
<1>3. DueItems \in Seq(S)
  <2> HIDE DEF item, due
  <2> QED
    BY <1>1, <1>2
<1>4. ASSUME \A c \in Channels : ~SafetyDue(c)
      PROVE  DueItems = << >>
  <2>1. due = {}
    BY <1>4
  <2>2. Cardinality(due) = 0
    BY <2>1, FS_EmptySet
  <2> HIDE DEF item, due
  <2> QED
    BY <1>2, <2>2
<1> QED
  BY <1>3, <1>4

LEMMA PopQueue ==
  ASSUME NEW q, IsQueue(q)
  PROVE  /\ IsQueue(pop(q))
         /\ q # << >> => Len(pop(q)) < channelCount
<1>1. PICK S : q \in Seq(S)
  BY DEF IsQueue
<1>2. CASE q = << >>
  BY <1>2 DEF pop, IsQueue
<1>3. CASE q # << >>
  BY <1>1, <1>3, PumpAssumption DEF pop, IsQueue
<1> QED
  BY <1>2, <1>3

\* A full queue takes nothing; one with a slot keeps its head and gets the
\* item at its end.
LEMMA CreateQueue ==
  ASSUME NEW q, NEW item, IsQueue(q)
  PROVE  /\ IsQueue(createIrrigation(q, item))
         /\ q # << >> => /\ createIrrigation(q, item) # << >>
                         /\ createIrrigation(q, item)[1] = q[1]
         /\ Len(q) < channelCount =>
              \E i \in DOMAIN createIrrigation(q, item) : createIrrigation(q, item)[i] = item
<1>1. PICK S : q \in Seq(S)
  BY DEF IsQueue
<1>2. CASE Len(q) >= channelCount
  BY <1>1, <1>2, PumpAssumption DEF createIrrigation, isFull, IsQueue
<1>3. CASE ~(Len(q) >= channelCount)
  <2>1. createIrrigation(q, item) = Append(q, item)
    BY <1>3 DEF createIrrigation, isFull, put
  <2>2. q \in Seq(S \cup {item}) /\ item \in S \cup {item}
    BY <1>1
  <2>3. Append(q, item) \in Seq(S \cup {item}) /\ Len(Append(q, item)) = Len(q) + 1
    BY <2>2
  <2>4. IsQueue(Append(q, item))
    BY <1>3, <2>2, <2>3, PumpAssumption DEF IsQueue
  <2>5. q # << >> => Append(q, item) # << >> /\ Append(q, item)[1] = q[1]
    BY <2>2, <2>3
  <2>6. Len(q) + 1 \in DOMAIN Append(q, item) /\ Append(q, item)[Len(q) + 1] = item
    BY <2>2, <2>3
  <2> QED
    BY <2>1, <2>4, <2>5, <2>6
<1> QED
  BY <1>2, <1>3

\* Queueing the overdue safety irrigations moves nothing that has a place.
LEMMA CheckQueue ==
  ASSUME NEW q, NEW err, IsQueue(q)
  PROVE  /\ IsQueue(checkSafetyIrrigations(q, err).queue)
         /\ \A i \in DOMAIN q : /\ i \in DOMAIN checkSafetyIrrigations(q, err).queue
                                /\ checkSafetyIrrigations(q, err).queue[i] = q[i]
<1>1. PICK S : q \in Seq(S)
  BY DEF IsQueue
<1>2. PICK T : DueItems \in Seq(T)
  BY DueItemsSeq
<1> DEFINE all == q \o DueItems
<1>3. q \in Seq(S \cup T) /\ DueItems \in Seq(S \cup T)
  BY <1>1, <1>2
<1> HIDE DEF all
<1>4. /\ all \in Seq(S \cup T)
      /\ Len(all) = Len(q) + Len(DueItems)
      /\ \A i \in 1 .. Len(q) : all[i] = q[i]
  BY <1>3 DEF all
<1>5. DOMAIN q = 1 .. Len(q) /\ Len(q) \in Nat /\ Len(q) <= channelCount
  BY <1>1 DEF IsQueue
<1>6. CASE Len(all) > channelCount
  <2> DEFINE fits == SubSeq(all, 1, channelCount)
  <2>1. checkSafetyIrrigations(q, err).queue = fits
    BY <1>6 DEF checkSafetyIrrigations, all
  <2>2. /\ fits \in Seq(S \cup T)
        /\ Len(fits) = channelCount
        /\ \A i \in 1 .. channelCount : fits[i] = all[i]
    BY <1>4, <1>6, PumpAssumption
  <2> HIDE DEF fits
  <2>3. IsQueue(fits)
    BY <2>2, PumpAssumption DEF IsQueue
  <2>4. \A i \in DOMAIN q : i \in DOMAIN fits /\ fits[i] = q[i]
    BY <1>4, <1>5, <2>2, PumpAssumption
  <2> QED
    BY <2>1, <2>3, <2>4
<1>7. CASE ~(Len(all) > channelCount)
  <2>1. checkSafetyIrrigations(q, err).queue = all
    BY <1>7 DEF checkSafetyIrrigations, all
  <2>2. IsQueue(all)
    BY <1>4, <1>5, <1>7, PumpAssumption DEF IsQueue
  <2>3. Len(DueItems) \in Nat
    BY <1>2
  <2>4. \A i \in DOMAIN q : i \in DOMAIN all /\ all[i] = q[i]
    BY <1>4, <1>5, <2>3
  <2> QED
    BY <2>1, <2>2, <2>4
<1> QED
  BY <1>6, <1>7

LEMMA CheckNothingDue ==
  ASSUME NEW err, \A c \in Channels : ~SafetyDue(c)
  PROVE  checkSafetyIrrigations(<< >>, err).queue = << >>
<1>1. DueItems = << >>
  BY DueItemsSeq
<1> QED
  BY <1>1, PumpAssumption DEF checkSafetyIrrigations

-----------------------------------------------------------------------------
(* The inductive invariant                                                 *)

\* While everything is stopped no channel is overdue, so that an idle pass
\* queues nothing.
NothingDue == stopped => \A c \in Channels : ~SafetyDue(c)

PumpInv ==
  /\ IsQueue(irrigationQueue)
  /\ PumpServesHead
  /\ NothingDue
  /\ StoppedStaysStopped

LEMMA IdleStep ==
  ASSUME PumpInv, NEW selected \in BOOLEAN, NEW current, handleIdle(selected, current)
  PROVE  PumpInv'
<1> USE DEF PumpInv, PumpServesHead, NothingDue, StoppedStaysStopped
<1>1. CASE irrigationQueue # << >> /\ selected /\ startIrrigation
  BY <1>1 DEF handleIdle, startIrrigation, ghostVars
<1>2. CASE irrigationQueue # << >> /\ ~selected /\ selectFails
  BY <1>2 DEF handleIdle, selectFails, ghostVars, timeVars, SafetyDue
<1>3. CASE irrigationQueue = << >> /\ watchIdle(current)
  <2>1. /\ irrigationQueue' = checkSafetyIrrigations(irrigationQueue, {}).queue
        /\ ~pumpOn /\ ~pumpOn'
        /\ irrigationState' \in {"ERROR", "IDLE"}
        /\ UNCHANGED <<safetyAge, stopped>>
    BY <1>3 DEF handleIdle, watchIdle, ghostVars, timeVars
  <2>2. IsQueue(irrigationQueue')
    BY <2>1, CheckQueue
  <2>3. stopped => irrigationQueue' = << >>
    BY <1>3, <2>1, CheckNothingDue
  <2> QED
    BY <2>1, <2>2, <2>3 DEF SafetyDue
<1> QED
  BY <1>1, <1>2, <1>3 DEF handleIdle

LEMMA RunStep ==
  ASSUME PumpInv, NEW limitSwitch, NEW current, handleRun(limitSwitch, current)
  PROVE  PumpInv'
<1>1. /\ irrigationState = "RUN" /\ irrigationState' \in {"STOP", "RUN", "ERROR"}
      /\ UNCHANGED <<irrigationQueue, pumpOn, selectedCh, safetyAge, stopped>>
  BY DEF handleRun, endIrrigation, checkIrrigation, ghostVars
<1> QED
  BY <1>1 DEF PumpInv, PumpServesHead, NothingDue, StoppedStaysStopped, SafetyDue

\* What the end of an irrigation leaves in the queue: the repeat, if one is
\* left, has its slot.
LEMMA AfterStopQueue ==
  ASSUME IsQueue(irrigationQueue), irrigationQueue # << >>, NEW item
  PROVE  /\ IsQueue(afterStop(item).queue)
         /\ item.repeatNum # 0 =>
              \E i \in DOMAIN afterStop(item).queue :
                afterStop(item).queue[i] = [item EXCEPT !.repeatNum = @ - 1]
<1> DEFINE rest == pop(irrigationQueue)
           again == [item EXCEPT !.repeatNum = @ - 1]
           queued == createIrrigation(rest, again)
<1>1. IsQueue(rest) /\ Len(rest) < channelCount
  BY PopQueue
<1>2. CASE item.repeatNum = 0
  BY <1>1, <1>2 DEF afterStop
<1>3. CASE item.repeatNum # 0
  <2>1. afterStop(item).queue = checkSafetyIrrigations(queued, pumpErr).queue
    BY <1>3 DEF afterStop
  <2> HIDE DEF rest, again
  <2>2. IsQueue(queued) /\ \E i \in DOMAIN queued : queued[i] = again
    BY <1>1, CreateQueue
  <2> HIDE DEF queued
  <2>3. /\ IsQueue(checkSafetyIrrigations(queued, pumpErr).queue)
        /\ \E i \in DOMAIN checkSafetyIrrigations(queued, pumpErr).queue :
             checkSafetyIrrigations(queued, pumpErr).queue[i] = again
    BY <2>2, CheckQueue
  <2> QED
    BY <2>1, <2>3 DEF again
<1> QED
  BY <1>2, <1>3

LEMMA StopStep ==
  ASSUME PumpInv, handleStop
  PROVE  PumpInv'
<1> USE DEF PumpInv, PumpServesHead, NothingDue, StoppedStaysStopped
<1>1. pumpOn /\ irrigationQueue # << >> /\ ~stopped /\ selectedCh = irrigationQueue[1].channel
  BY DEF handleStop
<1>2. /\ irrigationQueue' = afterStop(irrigationQueue[1]).queue
      /\ pumpOn' => irrigationQueue' # << >> /\ irrigationQueue'[1].channel = irrigationQueue[1].channel
      /\ irrigationState' = "IDLE"
      /\ UNCHANGED <<selectedCh, stopped>>
  BY DEF handleStop, ghostVars
<1>3. IsQueue(irrigationQueue')
  BY <1>1, <1>2, AfterStopQueue
<1> QED
  BY <1>1, <1>2, <1>3

LEMMA ErrorStep ==
  ASSUME PumpInv, handleError
  PROVE  PumpInv'
<1>1. /\ irrigationQueue' = pop(irrigationQueue)
      /\ ~pumpOn' /\ irrigationState' = "IDLE"
      /\ UNCHANGED <<safetyAge, stopped>>
  BY DEF handleError, timeVars, ghostVars
<1>2. IsQueue(irrigationQueue')
  BY <1>1, PopQueue DEF PumpInv
<1>3. irrigationQueue = << >> => irrigationQueue' = << >>
  BY <1>1 DEF pop
<1> QED
  BY <1>1, <1>2, <1>3 DEF PumpInv, PumpServesHead, NothingDue, StoppedStaysStopped, SafetyDue

LEMMA AddStep ==
  ASSUME PumpInv, NEW item, addIrrigation(item)
  PROVE  PumpInv'
<1>1. /\ irrigationQueue' = createIrrigation(irrigationQueue, item)
      /\ stopped' = FALSE
      /\ UNCHANGED <<irrigationState, pumpOn, selectedCh>>
  BY DEF addIrrigation
<1>2. /\ IsQueue(irrigationQueue')
      /\ irrigationQueue # << >> => irrigationQueue' # << >> /\ irrigationQueue'[1] = irrigationQueue[1]
  BY <1>1, CreateQueue DEF PumpInv
<1> QED
  BY <1>1, <1>2 DEF PumpInv, PumpServesHead, NothingDue, StoppedStaysStopped

LEMMA PumpStep ==
  ASSUME PumpInv, [PumpNext]_pumpVars
  PROVE  PumpInv'
<1> USE DEF PumpInv, PumpServesHead, NothingDue, StoppedStaysStopped
<1>1. CASE Pass
  <2>1. CASE handleCalibration
    BY <2>1 DEF handleCalibration, queueVars, timeVars, ghostVars, SafetyDue
  <2> QED
    BY <1>1, <2>1, IdleStep, RunStep, StopStep, ErrorStep, PumpAssumption DEF Pass
<1>2. ASSUME NEW item \in Commands, addIrrigation(item)
      PROVE  PumpInv'
  BY <1>2, AddStep
<1>3. CASE skipActualIrrigation
  BY <1>3 DEF skipActualIrrigation, queueVars, SafetyDue
<1>4. CASE skipAllIrrigations
  BY <1>4, PumpAssumption DEF skipAllIrrigations, SafetyDue, IsQueue
<1>5. CASE irqHandler
  BY <1>5 DEF irqHandler, queueVars, timeVars, ghostVars, SafetyDue
<1>6. CASE PumpTick
  BY <1>6 DEF PumpTick, queueVars
<1>7. CASE UNCHANGED pumpVars
  BY <1>7 DEF pumpVars, SafetyDue
<1> QED
  BY <1>1, <1>2, <1>3, <1>4, <1>5, <1>6, <1>7 DEF PumpNext

LEMMA PumpInvariant == PumpSpec => []PumpInv
<1>1. PumpInit => PumpInv
  BY PumpAssumption DEF PumpInit, PumpInv, IsQueue, PumpServesHead, NothingDue, StoppedStaysStopped
<1>2. PumpInv /\ [PumpNext]_pumpVars => PumpInv'
  BY PumpStep
<1> QED
  BY <1>1, <1>2, PTL DEF PumpSpec

-----------------------------------------------------------------------------
\* The pump waters the outlet of the irrigation at the head of the queue,
\* however commands, repeats and safety irrigations change the queue between
\* the passes that peek it (handleIdle, handleRun, handleStop).
THEOREM PumpAlwaysServesHead == PumpSpec => []PumpServesHead
<1>1. PumpInv => PumpServesHead
  BY DEF PumpInv
<1> QED
  BY <1>1, PumpInvariant, PTL

\* After skipAllIrrigations nothing is queued and nothing runs until a command
\* asks for water or a safety time runs out.
THEOREM StopIsLasting == PumpSpec => []StoppedStaysStopped
<1>1. PumpInv => StoppedStaysStopped
  BY DEF PumpInv
<1> QED
  BY <1>1, PumpInvariant, PTL

\* A repeat keeps its place: the slot its own pop frees is there for it, and
\* the safety irrigations come after it (handleStop).
THEOREM RepeatAlwaysQueued == PumpSpec => RepeatKeepsPlace
<1> DEFINE Requeued ==
      irrigationState = "STOP" /\ irrigationState' = "IDLE" /\ irrigationQueue[1].repeatNum > 0 =>
        \E i \in DOMAIN irrigationQueue' :
          irrigationQueue'[i] = [irrigationQueue[1] EXCEPT !.repeatNum = @ - 1]
<1>1. ASSUME PumpInv, [PumpNext]_pumpVars
      PROVE  [Requeued]_pumpVars
  <2> SUFFICES ASSUME irrigationState = "STOP", irrigationState' = "IDLE",
                      irrigationQueue[1].repeatNum > 0
               PROVE  \E i \in DOMAIN irrigationQueue' :
                        irrigationQueue'[i] = [irrigationQueue[1] EXCEPT !.repeatNum = @ - 1]
    OBVIOUS
  <2>1. handleStop
    <3>1. PumpNext
      BY <1>1 DEF pumpVars
    <3> QED
      BY <3>1 DEF PumpNext, Pass, handleIdle, handleRun, handleError, handleCalibration, addIrrigation,
                  skipActualIrrigation, skipAllIrrigations, irqHandler, PumpTick
  <2>2. irrigationQueue' = afterStop(irrigationQueue[1]).queue
    BY <2>1 DEF handleStop
  <2>3. IsQueue(irrigationQueue) /\ irrigationQueue # << >>
    BY <1>1 DEF PumpInv, PumpServesHead
  <2> QED
    BY <2>2, <2>3, AfterStopQueue
<1> QED
  BY <1>1, PumpInvariant, PTL DEF PumpSpec, RepeatKeepsPlace
=============================================================================
