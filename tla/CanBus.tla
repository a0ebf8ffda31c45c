------------------------------- MODULE CanBus -------------------------------
(***************************************************************************)
(* Frames between the gateway and one node: CanHandlerEsp32 with its two   *)
(* queues and the SJA1000 controller it drives, and the MCP2515 driver of  *)
(* the node with the controller's three transmit and two receive buffers.  *)
(*                                                                         *)
(* The gateway's pass over the queues interleaves with the receive         *)
(* interrupt, with the bus and with the tasks that send.  A frame is known *)
(* by its number, in the order its sender handed it over; NoPayload is a   *)
(* frame of somebody else that carries nothing.                            *)
(***************************************************************************)
EXTENDS Integers, Sequences, FiniteSets

CONSTANTS
  canTxQueueSize, canRxQueueSize,  \* CanHandlerEsp32's queues
  maxFramesPerRun,                 \* frame budget of a pass and direction
  txWaitTimeout,                   \* txWaitTimeoutMs, in ticks
  RxFifo,                          \* frames the SJA1000 holds
  CounterRange,                    \* a drop counter counts modulo this
  Loads                            \* bounds of the runs: the traffic of a behaviour

ASSUME CanAssumption ==
  /\ {canTxQueueSize, canRxQueueSize, maxFramesPerRun, RxFifo} \subseteq Nat \ {0}
  /\ txWaitTimeout \in Nat
  /\ CounterRange \in Nat \ {0, 1}
  /\ Loads \subseteq [gateway : Nat, node : Nat, foreign : Nat, busOffs : Nat]

VARIABLES
  gw,     \* the gateway's handler
  sja,    \* its controller
  mcp,    \* the node's controller and the driver's count of free buffers
  trace   \* what happened to the frames, and the traffic still to come

canVars == <<gw, sja, mcp, trace>>

None == -1
NoPayload == 0
txBufferCount == 3                 \* MCP2515: TXB0..TXB2
TxBuffers == 0..(txBufferCount - 1)

\* begin() of either controller: on the bus, its buffers empty.
beginSja == [bus |-> "on", tx |-> None, pending |-> FALSE, age |-> 0, fifo |-> << >>, abandoned |-> 0]

beginMcp == [tx |-> [n \in TxBuffers |-> None], left |-> txBufferCount, rx |-> [n \in 0..1 |-> None]]

CanInit ==
  /\ gw = [at |-> "start", budget |-> 0, tx |-> << >>, rx |-> << >>,
           rxFull |-> 0, rxSeen |-> 0, txSeen |-> 0]
  /\ sja = beginSja
  /\ mcp = beginMcp
  /\ \E load \in Loads :
       trace = [left |-> load, sent |-> 0, out |-> << >>, cut |-> {}, lost |-> {},
                nodeSent |-> 0, nodeOut |-> << >>, dropped |-> 0, reported |-> 0]

-----------------------------------------------------------------------------
(* The SJA1000 of the gateway                                              *)

isBusOff == sja.bus # "on"

\* Mutant: a frame nobody takes stays in the buffer.
txBusyPatient == sja.tx # None /\ UNCHANGED <<sja, trace>>

\* txReady() with a busy buffer: past the timeout the frame is given up, and
\* the buffer is free once the controller has obeyed.
txBusy ==
  /\ sja.tx # None
  /\ IF sja.pending /\ sja.age > txWaitTimeout
     THEN /\ sja' = [sja EXCEPT !.pending = FALSE, !.abandoned = (@ + 1) % CounterRange]
          /\ trace' = [trace EXCEPT !.lost = @ \cup {sja.tx}]
     ELSE UNCHANGED <<sja, trace>>

\* endPacket() after beginExtendedPacket() and write(): the frame is in the
\* buffer and its transmission requested.
endPacket(f) == sja' = [sja EXCEPT !.tx = f, !.pending = TRUE, !.age = 0]

\* handleInterrupt() and the handler's rxInterrupt(): the oldest frame leaves
\* the controller for the queue, or is counted when that has no room.
handleInterrupt ==
  /\ sja.fifo # << >>
  /\ sja' = [sja EXCEPT !.fifo = Tail(@)]
  /\ LET f == Head(sja.fifo) IN
     \/ f = NoPayload /\ UNCHANGED <<gw, trace>>
     \/ /\ f # NoPayload
        /\ Len(gw.rx) < canRxQueueSize
        /\ gw' = [gw EXCEPT !.rx = Append(@, f)]
        /\ UNCHANGED trace
     \/ /\ f # NoPayload
        /\ Len(gw.rx) = canRxQueueSize
        /\ gw' = [gw EXCEPT !.rxFull = (@ + 1) % CounterRange]
        /\ trace' = [trace EXCEPT !.dropped = @ + 1]
  /\ UNCHANGED mcp

-----------------------------------------------------------------------------
(* CanHandlerEsp32                                                         *)

\* send() of a task: refused, and nothing queued, when the queue stays full.
canSend ==
  /\ trace.left.gateway > 0
  /\ Len(gw.tx) < canTxQueueSize
  /\ gw' = [gw EXCEPT !.tx = Append(@, trace.sent + 1)]
  /\ trace' = [trace EXCEPT !.sent = @ + 1, !.left.gateway = @ - 1]
  /\ UNCHANGED <<sja, mcp>>

\* DeltaCounter::takeGrowth
takeGrowth(current, seen) == (current - seen) % CounterRange

\* reportDroppedFrames(): both marks move up to their counters.
reportDroppedFrames(g) == [g EXCEPT !.rxSeen = g.rxFull, !.txSeen = sja.abandoned]

\* Clears the reset request; the controller then waits out its recovery.
recoverFromBusOff(s) == [s EXCEPT !.bus = IF @ = "off" THEN "recovering" ELSE @]

\* run() up to the receive queue.  Without the mutex of the device list the
\* received frames stay queued for the next pass.
runStart(locked) ==
  /\ gw.at = "start"
  /\ sja' = IF isBusOff THEN recoverFromBusOff(sja) ELSE sja
  /\ gw' = [reportDroppedFrames(gw) EXCEPT !.at = IF locked THEN "rx" ELSE "tx",
                                           !.budget = maxFramesPerRun]
  /\ trace' = [trace EXCEPT !.reported = @ + takeGrowth(gw.rxFull, gw.rxSeen)]
  /\ UNCHANGED mcp

\* One frame of the receive pass goes to dispatchRxFrame(); the pass ends with
\* the queue or the budget.
runReceive ==
  /\ gw.at = "rx"
  /\ \/ /\ gw.budget > 0 /\ gw.rx # << >>
        /\ gw' = [gw EXCEPT !.rx = Tail(@), !.budget = @ - 1]
     \/ /\ gw.budget = 0 \/ gw.rx = << >>
        /\ gw' = [gw EXCEPT !.at = "tx", !.budget = maxFramesPerRun]
  /\ UNCHANGED <<sja, mcp, trace>>

passEnds == gw' = [gw EXCEPT !.at = "start", !.budget = 0]

\* Mutant: the frame is taken off the queue before the buffer is looked at.
runTransmitEager ==
  /\ gw.at = "tx"
  /\ \/ /\ gw.budget > 0 /\ sja.tx # None /\ gw.tx # << >>
        /\ txBusy
        /\ gw' = [gw EXCEPT !.at = "start", !.budget = 0, !.tx = Tail(@)]
     \/ /\ gw.budget > 0 /\ sja.tx # None /\ gw.tx = << >>
        /\ txBusy
        /\ passEnds
     \/ /\ gw.budget > 0 /\ sja.tx = None /\ gw.tx # << >>
        /\ endPacket(Head(gw.tx))
        /\ gw' = [gw EXCEPT !.tx = Tail(@), !.budget = @ - 1]
        /\ UNCHANGED trace
     \/ /\ gw.budget = 0 \/ (sja.tx = None /\ gw.tx = << >>)
        /\ passEnds
        /\ UNCHANGED <<sja, trace>>
  /\ UNCHANGED mcp

\* One frame of the transmit pass, or its end: a busy buffer, an empty queue,
\* a spent budget.
runTransmit ==
  /\ gw.at = "tx"
  /\ \/ /\ gw.budget > 0 /\ sja.tx # None
        /\ txBusy
        /\ passEnds
     \/ /\ gw.budget > 0 /\ sja.tx = None /\ gw.tx # << >>
        /\ endPacket(Head(gw.tx))
        /\ gw' = [gw EXCEPT !.tx = Tail(@), !.budget = @ - 1]
        /\ UNCHANGED trace
     \/ /\ gw.budget = 0 \/ (sja.tx = None /\ gw.tx = << >>)
        /\ passEnds
        /\ sja' = IF gw.budget > 0 THEN [sja EXCEPT !.pending = FALSE] ELSE sja
        /\ UNCHANGED trace
  /\ UNCHANGED mcp

gatewayRun == (\E locked \in BOOLEAN : runStart(locked)) \/ runReceive \/ runTransmit

-----------------------------------------------------------------------------
(* The MCP2515 of the node                                                 *)

pendingTx == {n \in TxBuffers : mcp.tx[n] # None}

\* flushTx() that runs into its timeout: the frames still stuck are aborted.
flushTimesOut ==
  /\ pendingTx # {}
  /\ mcp' = [mcp EXCEPT !.tx = [n \in TxBuffers |-> None]]
  /\ UNCHANGED <<gw, sja, trace>>

\* Mutant: the buffers are handed out from the bottom up.
takeTxBufferUp(left) == txBufferCount - left

takeTxBuffer(left) == left - 1

\* endPacket() of the node.  With every buffer handed out it first waits, in
\* flushTx(), for the bus to empty all of them.
nodeSend ==
  /\ trace.left.node > 0
  /\ mcp.left > 0 \/ pendingTx = {}
  /\ LET left == IF mcp.left = 0 THEN txBufferCount ELSE mcp.left IN
     mcp' = [mcp EXCEPT !.tx[takeTxBuffer(left)] = trace.nodeSent + 1, !.left = left - 1]
  /\ trace' = [trace EXCEPT !.nodeSent = @ + 1, !.left.node = @ - 1]
  /\ UNCHANGED <<gw, sja>>

\* parsePacket(): receive buffer 0 first.
nodeReceives ==
  /\ \E n \in 0..1 :
       /\ mcp.rx[n] # None
       /\ n = 1 => mcp.rx[0] = None
       /\ mcp' = [mcp EXCEPT !.rx[n] = None]
  /\ UNCHANGED <<gw, sja, trace>>

-----------------------------------------------------------------------------
(* The bus and the hardware of the controllers                             *)

\* With BUKT set a frame that finds buffer 0 full rolls over into buffer 1.
rollOver(rx, f) ==
  IF rx[0] = None THEN [rx EXCEPT ![0] = f]
  ELSE IF rx[1] = None THEN [rx EXCEPT ![1] = f] ELSE rx

busTakesGateway ==
  /\ sja.bus = "on" /\ sja.tx # None
  /\ sja' = [sja EXCEPT !.tx = None]
  /\ mcp' = [mcp EXCEPT !.rx = rollOver(@, sja.tx)]
  /\ trace' = [trace EXCEPT !.out = Append(@, sja.tx)]
  /\ UNCHANGED gw

received(f) ==
  sja' = IF sja.bus = "on" /\ Len(sja.fifo) < RxFifo THEN [sja EXCEPT !.fifo = Append(@, f)] ELSE sja

\* Of buffers with one priority the controller sends the highest numbered.
busTakesNode ==
  \E n \in pendingTx :
    /\ \A m \in pendingTx : m <= n
    /\ mcp' = [mcp EXCEPT !.tx[n] = None]
    /\ received(mcp.tx[n])
    /\ trace' = [trace EXCEPT !.nodeOut = Append(@, mcp.tx[n])]
    /\ UNCHANGED gw

foreignFrame ==
  /\ trace.left.foreign > 0
  /\ received(NoPayload)
  /\ trace' = [trace EXCEPT !.left.foreign = @ - 1]
  /\ UNCHANGED <<gw, mcp>>

abortTakes ==
  /\ sja.tx # None /\ ~sja.pending
  /\ sja' = [sja EXCEPT !.tx = None]
  /\ UNCHANGED <<gw, mcp, trace>>

\* The error counter runs over: the controller resets and drops its frame.
goesBusOff ==
  /\ sja.bus = "on" /\ trace.left.busOffs > 0
  /\ sja' = [sja EXCEPT !.bus = "off", !.tx = None]
  /\ trace' = [trace EXCEPT !.left.busOffs = @ - 1,
                            !.cut = IF sja.tx = None THEN @ ELSE @ \cup {sja.tx}]
  /\ UNCHANGED <<gw, mcp>>

recoveryEnds ==
  /\ sja.bus = "recovering"
  /\ sja' = [sja EXCEPT !.bus = "on"]
  /\ UNCHANGED <<gw, mcp, trace>>

canTick ==
  /\ sja.pending /\ sja.age <= txWaitTimeout
  /\ sja' = [sja EXCEPT !.age = @ + 1]
  /\ UNCHANGED <<gw, mcp, trace>>

Hardware == abortTakes \/ recoveryEnds \/ canTick

CanNext ==
  \/ canSend \/ gatewayRun \/ handleInterrupt
  \/ nodeSend \/ flushTimesOut \/ nodeReceives
  \/ busTakesGateway \/ busTakesNode \/ foreignFrame \/ goesBusOff \/ Hardware

CanSpec == CanInit /\ [][CanNext]_canVars

\* The loop task runs on, the clock too, and the controller obeys the commands
\* it is given.  That a frame finds a node to acknowledge it is not assumed.
CanFairness == WF_canVars(gatewayRun) /\ WF_canVars(abortTakes) /\ WF_canVars(recoveryEnds) /\ WF_canVars(canTick)

CanFairSpec == CanSpec /\ CanFairness

-----------------------------------------------------------------------------
Increasing(s) == \A i \in 1..(Len(s) - 1) : s[i] < s[i + 1]

\* Frames reach the bus in the order they were handed over, on either side:
\* the gateway's queue and single buffer keep it, and so does the node's
\* cycle through three buffers the controller empties by number.
SentInOrder == Increasing(trace.out) /\ Increasing(trace.nodeOut)

\* Nothing is lost without a trace.  A frame send() accepted is still on its
\* way, went out, was counted as abandoned, or went down with a controller that
\* fell off the bus.  What the interrupt dropped and what the task reported
\* agree, whatever the interrupt does around a look at its counter and across
\* the counter's wrap.
NoSilentLoss ==
  /\ \A f \in 1..trace.sent :
       \/ \E i \in DOMAIN gw.tx : gw.tx[i] = f
       \/ sja.tx = f
       \/ \E i \in DOMAIN trace.out : trace.out[i] = f
       \/ f \in trace.lost \cup trace.cut
  /\ (trace.reported + takeGrowth(gw.rxFull, gw.rxSeen)) % CounterRange = trace.dropped % CounterRange

\* The frames the gateway queued do not stay queued, though the node they are
\* for be switched off and the controller fall off the bus: once no task sends
\* any more the queue is empty and the controller back on the bus.
QueueDrains == <>[](gw.tx = << >> /\ ~isBusOff)
=============================================================================
