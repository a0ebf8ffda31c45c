----------------------------- MODULE RfHandler -----------------------------
(***************************************************************************)
(* The 433 MHz receiver and transmitter of a device: RCSwitch, whose       *)
(* interrupt records pulses and hands a frame that repeats to the task,    *)
(* and RfHandler, which reports what was decoded and sends one queued      *)
(* command per pass.                                                       *)
(*                                                                         *)
(* The interrupt comes between any two pulses the task looks at.  A pulse  *)
(* is known by the code it belongs to, a pause by its length: every remote *)
(* has its own between two frames.  The other way to tell two frames apart *)
(* (three like pulses of a preamble) and spikes are left out.              *)
(***************************************************************************)
EXTENDS Integers, Sequences, FiniteSets, Fifo

CONSTANTS
  Codes,                   \* what the remotes in reach send
  FrameLength,             \* pulses of a code's frame
  rcSwitchMaxChanges,      \* durations the recording holds
  minChanges,              \* shorter recordings are noise
  dataCheckTime,           \* a repeat within this time is no new frame
  RfCommands,              \* commands of the server
  pendingTxQueueSize,      \* commands that may wait
  MaxPresses, MaxCommandsSent, MaxUnsent  \* bounds of the runs

ASSUME RfAssumption ==
  /\ FrameLength \in [Codes -> Nat \ {0}]
  /\ {rcSwitchMaxChanges, minChanges, pendingTxQueueSize} \subseteq Nat \ {0}
  /\ RfCommands \subseteq [protocol : BOOLEAN, pulse : {"keep", "set", "out of range"}, sends : BOOLEAN]
  /\ {dataCheckTime, MaxPresses, MaxCommandsSent, MaxUnsent} \subseteq Nat

VARIABLES
  air,      \* the remote being pressed: its code, the pulse to come
  rec,      \* timings and changeCount of the interrupt
  pending,  \* pendingTimings, as many as pendingChangeCount says
  task,     \* the pass of run(): where it is, what the decoder has seen
  filter,   \* lastRfData and the age of dataCheckTimer
  tx,       \* pendingTx, the transmitter's settings
  rfDone    \* codes reported in full, and how much of each bound is used

rfVars == <<air, rec, pending, task, filter, tx, rfDone>>

Silence == "silence"
Short == "short"     \* the length of a pulse where a pause should be
NoData == [codes |-> {}, bits |-> 0]
Whole(code) == [codes |-> {code}, bits |-> FrameLength[code]]

RfInit ==
  /\ air = [code |-> Silence, pos |-> 0, paused |-> FALSE]
  /\ rec = [pause |-> Short, pulses |-> << >>]
  /\ pending = << >>
  /\ task = [at |-> "available", i |-> 0, seen |-> {}, value |-> NoData]
  /\ filter = [last |-> NoData, age |-> 0]
  /\ tx = [queue |-> << >>, pulse |-> "of protocol", deaf |-> FALSE]
  /\ rfDone = [reported |-> {}, presses |-> 0, commands |-> 0, unsent |-> 0]

-----------------------------------------------------------------------------
(* RCSwitch: the interrupt                                                 *)

\* Mutant: a frame still waiting is overwritten.
handOverRecordedAlways(pulses) ==
  IF pulses = << >> THEN pending ELSE pulses

\* The recording moves to where the task decodes it, unless a frame waits there.
handOverRecorded(pulses) ==
  IF pending # << >> \/ pulses = << >> THEN pending ELSE pulses

\* A pause ends a frame; one like the pause before it says that the frame
\* repeats.
recordPause(length) ==
  /\ pending' = IF length = rec.pause THEN handOverRecorded(rec.pulses) ELSE pending
  /\ rec' = [pause |-> length, pulses |-> << >>]

\* A recording that is full starts over with the pulse.
recordPulse(code) ==
  /\ rec' = IF Len(rec.pulses) + 1 >= rcSwitchMaxChanges THEN [pause |-> Short, pulses |-> << >>]
            ELSE [rec EXCEPT !.pulses = Append(@, code)]
  /\ UNCHANGED pending

\* The remote's signal changes: position 0 ends the pause between two frames.
\* After a silence, a detached interrupt or another remote the pause has any
\* length.
edge ==
  /\ air.code # Silence
  /\ air' = [air EXCEPT !.pos = IF @ < FrameLength[air.code] THEN @ + 1 ELSE 0,
                        !.paused = air.paused /\ tx.deaf]
  /\ \/ tx.deaf /\ UNCHANGED <<rec, pending>>
     \/ ~tx.deaf /\ air.paused /\ \E length \in Codes \cup {Silence} : recordPause(length)
     \/ ~tx.deaf /\ ~air.paused /\ air.pos = 0 /\ recordPause(air.code)
     \/ ~tx.deaf /\ ~air.paused /\ air.pos > 0 /\ recordPulse(air.code)
  /\ UNCHANGED <<task, filter, tx, rfDone>>

-----------------------------------------------------------------------------
(* RCSwitch: decoding, in the task                                         *)

\* available(): a frame is there to decode, or nothing is.
startDecoding ==
  /\ task.at = "available"
  /\ task' = [task EXCEPT !.at = IF pending = << >> THEN "transmit" ELSE "decode"]
  /\ UNCHANGED <<air, rec, pending, filter, tx, rfDone>>

receivePulse ==
  /\ task.at = "decode" /\ task.i < Len(pending)
  /\ task' = [task EXCEPT !.i = @ + 1, !.seen = @ \cup {pending[task.i + 1]}]
  /\ UNCHANGED <<air, rec, pending, filter, tx, rfDone>>

\* The frame decodes, unless it is too short to be one; then the buffer is the
\* interrupt's again.
decodeRecorded ==
  /\ task.at = "decode" /\ task.i >= Len(pending)
  /\ task' = [at |-> IF task.i < minChanges THEN "transmit" ELSE "report", i |-> 0, seen |-> {},
              value |-> IF task.i < minChanges THEN NoData ELSE [codes |-> task.seen, bits |-> task.i]]
  /\ pending' = << >>
  /\ UNCHANGED <<air, rec, filter, tx, rfDone>>

-----------------------------------------------------------------------------
(* RfHandler                                                               *)

\* lastRfData as the pass sees it: forgotten when it is old.
lastRfData == IF filter.age > dataCheckTime THEN NoData ELSE filter.last

\* Mutant: the filter is armed by a frame that could not go out too.
armFilterAnyway(value, reported) == [last |-> value, age |-> 0]

\* Only a frame that was reported arms the filter.
armFilter(value, reported) == [last |-> IF reported THEN value ELSE lastRfData, age |-> 0]

\* The receiving half of run(): resetAvailable(), and a frame that is no repeat
\* is reported.
report(sent) ==
  /\ task.at = "report"
  /\ LET new == task.value # lastRfData IN
     /\ sent \/ rfDone.unsent < MaxUnsent
     /\ ~new => sent
     /\ filter' = armFilter(task.value, new /\ sent)
     /\ rfDone' = [rfDone EXCEPT !.reported = IF new /\ sent THEN @ \cup {c \in Codes : task.value = Whole(c)} ELSE @,
                                 !.unsent = IF sent THEN @ ELSE @ + 1]
  /\ task' = [task EXCEPT !.at = "transmit", !.value = NoData]
  /\ UNCHANGED <<air, rec, pending, tx>>

\* setProtocol() brings the protocol's own pulse, setPulseLength() replaces it.
settings(command, pulse) ==
  IF command.pulse = "set" THEN "set" ELSE IF command.protocol THEN "of protocol" ELSE pulse

\* The sending half: transmitCommand() of the oldest command; send() detaches
\* the interrupt for as long as it takes.
transmitCommand ==
  /\ task.at = "transmit"
  /\ \/ /\ tx.queue = << >>
        /\ task' = [task EXCEPT !.at = "available"]
        /\ UNCHANGED tx
     \/ /\ tx.queue # << >>
        /\ tx' = [queue |-> pop(tx.queue), pulse |-> settings(Head(tx.queue), tx.pulse),
                  deaf |-> Head(tx.queue).sends]
        /\ task' = [task EXCEPT !.at = IF Head(tx.queue).sends THEN "sending" ELSE "available"]
  /\ UNCHANGED <<air, rec, pending, filter, rfDone>>

\* A frame that was handed over before is kept.
resumeReceive == UNCHANGED pending

sendEnds ==
  /\ task.at = "sending"
  /\ task' = [task EXCEPT !.at = "available"]
  /\ tx' = [tx EXCEPT !.deaf = FALSE]
  /\ air' = [air EXCEPT !.paused = TRUE]
  /\ resumeReceive
  /\ UNCHANGED <<rec, filter, rfDone>>

\* messageArrivedCallback(): out of range is ignored; a full queue loses its
\* oldest.
commandArrives ==
  /\ rfDone.commands < MaxCommandsSent
  /\ \E command \in RfCommands :
       tx' = IF command.pulse = "out of range" THEN tx
             ELSE [tx EXCEPT !.queue = put(@, command, pendingTxQueueSize)]
  /\ rfDone' = [rfDone EXCEPT !.commands = @ + 1]
  /\ UNCHANGED <<air, rec, pending, task, filter>>

-----------------------------------------------------------------------------
\* Another button, or the same one again.  A remote begins with its pause; two
\* that are on the air at once and mix their pulses inside a frame are left out:
\* the receiver gives one level, and what it shows then is noise.
press ==
  /\ rfDone.presses < MaxPresses
  /\ \E code \in Codes : air' = [code |-> code, pos |-> 1, paused |-> TRUE]
  /\ rfDone' = [rfDone EXCEPT !.presses = @ + 1]
  /\ UNCHANGED <<rec, pending, task, filter, tx>>

letGo ==
  /\ air.code # Silence
  /\ air' = [air EXCEPT !.code = Silence, !.pos = 0]
  /\ UNCHANGED <<rec, pending, task, filter, tx, rfDone>>

rfTick ==
  /\ filter.age <= dataCheckTime
  /\ filter' = [filter EXCEPT !.age = @ + 1]
  /\ UNCHANGED <<air, rec, pending, task, tx, rfDone>>

rfPass ==
  \/ startDecoding \/ receivePulse \/ decodeRecorded
  \/ \E sent \in BOOLEAN : report(sent)
  \/ transmitCommand \/ sendEnds

RfNext == edge \/ rfPass \/ commandArrives \/ press \/ letGo \/ rfTick

RfSpec == RfInit /\ [][RfNext]_rfVars

\* The task runs on; the signal of a remote held down does too.
RfFairness == WF_rfVars(rfPass) /\ WF_rfVars(edge)

RfFairSpec == RfSpec /\ RfFairness

-----------------------------------------------------------------------------
\* What was decoded is one recording: the interrupt never writes into the frame
\* the task is walking through, so no value is put together from two remotes.
DecodedWhole == Cardinality(task.seen) <= 1 /\ Cardinality(task.value.codes) <= 1

\* A button held down is reported, though a report cannot go out, though the
\* interrupt drops frames while one waits and goes deaf while a command is
\* sent: the filter for repeats does not swallow it for good.
HeldReported ==
  \A c \in Codes :
    FrameLength[c] \in minChanges..(rcSwitchMaxChanges - 1) =>
      (<>[](air.code = c) => <>(c \in rfDone.reported))
=============================================================================
