---------------------------- MODULE PubSubClient ----------------------------
(***************************************************************************)
(* The MQTT session of a device: connect, the keep-alive ping, the reader  *)
(* that keeps its place between two calls of loop(), and the packets that  *)
(* are built in the same buffer the reader fills.                          *)
(*                                                                         *)
(* The client is one record, client.  An operation is a function of it and *)
(* of what the link and the broker did meanwhile: the calls one handler    *)
(* makes are composed.  Timestamps are kept as ages in ticks; a            *)
(* tick is longer than any wait inside one call, and loop() is called in   *)
(* every tick (the broker's patience is only kept by a loop that runs).    *)
(* A packet is its kind; which bytes spell it is left out, where the       *)
(* stream is cut into pieces is not.                                       *)
(***************************************************************************)
EXTENDS Integers, Sequences

CONSTANTS
  KeepAlive,      \* what the broker is told to wait for
  PingInterval,   \* quiet time before a ping is due
  RetryInterval,  \* before a ping the link refused is handed over again
  ReaskInterval,  \* before a ping on the wire is asked again
  SocketTimeout,  \* for a packet that stops half way
  MaxInbound      \* bound on the packets waiting on the socket

(* The broker is told KeepAlive; setKeepAlive and setPingInterval hold the ping at or below it. *)
ASSUME MqttAssumption ==
  /\ {KeepAlive, PingInterval, RetryInterval, ReaskInterval, SocketTimeout, MaxInbound} \subseteq Nat
  /\ PingInterval > 0 /\ PingInterval <= KeepAlive

(* Seven fifths of a keep-alive from the last traffic, less the ping interval. *)
pingAnswerBudget == ((KeepAlive * 7) \div 5) - PingInterval

(* One tick more than the broker waits. *)
MaxClock == ((3 * KeepAlive) \div 2) + 1

Packets == [kind : {"publish0", "publish1"}, id : {1}]
           \cup [kind : {"pingresp", "ignored", "forbidden", "malformed", "large"}, id : {0}]

ReadFailures == {"malformed", "large"}

(* What the link made of one write: took it all, nothing, or a part of it. *)
Taken == {"all", "none", "part"}

(* What dispatching a packet may meet: what becomes of a message the       *)
(* callback publishes, if it does, and of the acknowledgement.             *)
Dispatches(s, taking) ==
  IF taking /\ s.inbound # << >> /\ s.inbound[1].kind \in {"publish0", "publish1"}
  THEN [reply : Taken \cup {"quiet"}, ack : Taken]
  ELSE {[reply |-> "quiet", ack |-> "all"]}

(* Whether a packet half read arrives in full while it is waited for, and  *)
(* what the link makes of the packet built then: nothing without a session. *)
Finishes(s) == IF s.rx = "Idle" THEN {TRUE} ELSE BOOLEAN
Takings(s) == IF s.sock /\ s.state = "CONNECTED" THEN Taken ELSE {"none"}

VARIABLES
  client,     \* the client
  pings,      \* pings the broker has not answered
  served      \* loop() ran since the last tick

mqttVars == <<client, pings, served>>

Idle == [state |-> "DISCONNECTED", sock |-> FALSE, inbound |-> << >>,
         rx |-> "Idle", rxAge |-> 0, buf |-> "out",
         outstanding |-> FALSE, unsent |-> FALSE, dueAge |-> 0, tryAge |-> 0,
         inAge |-> 0, outAge |-> 0,
         awaits |-> FALSE,   \* inside subscribe(), which waits for its acknowledgement
         heardAge |-> 0,     \* ghost: since the broker last received a whole packet
         sessionAge |-> 0,   \* ghost: since the session was accepted
         acksMatch |-> TRUE] \* ghost: every acknowledgement named the message it answers

MqttInit == client = Idle /\ pings = 0 /\ served = TRUE

-----------------------------------------------------------------------------
(* Pieces of the client *)

(* The clocks that the next session starts again before it reads them are put back here. *)
stop(s, state) == [s EXCEPT !.state = state, !.sock = FALSE, !.inbound = << >>,
                            !.inAge = 0, !.outAge = 0, !.heardAge = 0, !.sessionAge = 0]

resetReader(s) == [s EXCEPT !.rx = "Idle"]

(* Notices a link that went away under the session. *)
noteLost(s) == IF ~s.sock /\ s.state = "CONNECTED" THEN stop(s, "CONNECTION_LOST") ELSE s

connected(s) == s.sock /\ s.state = "CONNECTED"

(* A packet is built in the buffer and handed to the link; half a packet   *)
(* cannot be taken back and ends the session, one not taken sent nothing.  *)
write(s, taken) ==
  LET built == [s EXCEPT !.buf = "out"]
  IN  CASE ~s.sock \/ taken = "none" -> built
        [] s.sock /\ taken = "all"   -> [built EXCEPT !.outAge = 0, !.heardAge = 0]
        [] s.sock /\ taken = "part"  -> stop([built EXCEPT !.outAge = 0], "CONNECTION_LOST")

(* What two bytes of the buffer spell: the packet's id until something is built over it. *)
idInBuffer(s, p) == IF s.buf = "in" THEN p.id ELSE 0

\* Mutant: the message id is read after the callback.
dispatchPublishLate(s, p, d) ==
  LET called == IF d.reply # "quiet" /\ connected(s) THEN write(s, d.reply) ELSE s
  IN  IF p.kind = "publish0" THEN called
      ELSE [write(called, d.ack) EXCEPT !.acksMatch = @ /\ idInBuffer(called, p) = p.id]

(* The message id is taken before the callback, which may publish over it. *)
dispatchPublish(s, p, d) ==
  LET msgId     == idInBuffer(s, p)
      called    == IF d.reply # "quiet" /\ connected(s) THEN write(s, d.reply) ELSE s
      answered  == write(called, d.ack)
  IN  IF p.kind = "publish0" THEN called
      ELSE [answered EXCEPT !.acksMatch = @ /\ msgId = p.id]

(* "ignored" is an acknowledgement nobody waits for any more: a late SUBACK, an UNSUBACK. *)
dispatchPacket(s, p, d) ==
  CASE p.kind \in {"publish0", "publish1"} -> dispatchPublish(s, p, d)
    [] p.kind = "pingresp"                 -> [s EXCEPT !.outstanding = FALSE]
    [] p.kind = "ignored"                  -> s
    [] OTHER                               -> stop(s, "PROTOCOL_ERROR")

readFailureState(p) == IF p.kind = "large" THEN "PACKET_TOO_LARGE" ELSE "PROTOCOL_ERROR"

(* The first packet on the socket, read to its end and answered. *)
takePacket(s, d) ==
  LET p == s.inbound[1]
  IN  IF p.kind \in ReadFailures
      THEN resetReader(stop(s, readFailureState(p)))
      ELSE dispatchPacket([resetReader(s) EXCEPT !.inbound = Tail(@), !.buf = "in"], p, d)

(* Before a packet is built, one being read is finished, or the session is given up. *)
settleReader(s, finished, d) ==
  IF ~connected(s) \/ s.rx = "Idle" THEN s
  ELSE IF finished THEN takePacket(s, d)
  ELSE resetReader(stop(s, "CONNECTION_TIMEOUT"))

-----------------------------------------------------------------------------
(* loop(): the ping, then the reader *)

keepAlivePing(s, taken) ==
  IF taken
  THEN [s EXCEPT !.tryAge = 0, !.outAge = 0, !.inAge = 0, !.heardAge = 0, !.outstanding = TRUE, !.unsent = FALSE]
  ELSE [s EXCEPT !.tryAge = 0, !.unsent = TRUE]

quietAge(s) == IF s.inAge > s.outAge THEN s.inAge ELSE s.outAge

\* Mutant: every attempt starts the deadline anew.
pingExpiredPerAttempt(s) == (s.outstanding \/ s.unsent) /\ s.tryAge >= pingAnswerBudget

(* One deadline covers the run, counted from when its ping fell due. *)
pingExpired(s) == (s.outstanding \/ s.unsent) /\ s.dueAge >= pingAnswerBudget

(* Bytes of a packet not begun are waiting; of one half read, more may be there or not. *)
servicePing(s, taken, more) ==
  LET running  == s.outstanding \/ s.unsent
      waiting  == s.outstanding /\ s.inbound # << >> /\ (s.rx = "Idle" \/ more)
      askAfter == IF s.unsent THEN RetryInterval ELSE ReaskInterval
  IN  CASE running /\ pingExpired(s)                          -> stop(s, "CONNECTION_TIMEOUT")
        [] running /\ ~pingExpired(s)                         -> IF s.tryAge >= askAfter /\ ~waiting THEN keepAlivePing(s, taken) ELSE s
        [] ~running /\ quietAge(s) > PingInterval             -> keepAlivePing([s EXCEPT !.dueAge = quietAge(s) - PingInterval], taken)
        [] OTHER                                              -> s

pinged(s, t) == t.outstanding /\ t.tryAge = 0 /\ ~t.unsent /\ t # s

(* The reader takes what is there: a part of the header, the header, the packet. *)
pumpReader(s, upto, d) ==
  LET begun == IF s.rx = "Idle" THEN [s EXCEPT !.rxAge = 0] ELSE s
      held  == [begun EXCEPT !.rx = upto, !.buf = "in"]
  IN  CASE ~connected(s) \/ (s.rx = "Idle" /\ s.inbound = << >>) -> s
        [] OTHER ->
             IF upto = "Complete" THEN takePacket([begun EXCEPT !.inAge = 0], d)
             ELSE IF upto = "Payload" /\ s.inbound[1].kind \in ReadFailures
                  THEN resetReader(stop(s, readFailureState(s.inbound[1])))
             ELSE IF held.rxAge >= SocketTimeout THEN resetReader(stop(held, "CONNECTION_TIMEOUT"))
             ELSE held

Further(s) == IF s.rx = "Payload" THEN {"Payload", "Complete"} ELSE {"Header", "Payload", "Complete"}

loop ==
  /\ ~client.awaits
  /\ \E pingTaken, more \in BOOLEAN, upto \in Further(client) : \E d \in Dispatches(client, upto = "Complete") :
       LET begun  == noteLost(client)
           asked  == IF connected(begun) THEN servicePing(begun, pingTaken, more) ELSE begun
       IN  /\ client' = pumpReader(asked, upto, d)
           /\ pings' = IF client'.sock THEN (IF pinged(begun, asked) THEN 1 ELSE pings) ELSE 0
  /\ served' = TRUE

-----------------------------------------------------------------------------
(* The other calls of the application *)

(* What becomes of a connect: the socket, the packet, the link, the answer. *)
ConnectFates == {"unreachable", "too long", "refused by the link", "accepted", "refused",
                 "silent", "other packet", "malformed", "large"}

\* Mutant: the ping of the last session is still owed an answer.
awaitConnAckKeepsPing(s, fate) ==
  IF fate = "accepted" THEN [resetReader(s) EXCEPT !.state = "CONNECTED", !.inAge = 0]
  ELSE stop(resetReader(s), "CONNECTION_TIMEOUT")

(* Clears the reader for the session, and forgets the ping of the last one. *)
awaitConnAck(s, fate) ==
  CASE fate = "accepted"                      -> [resetReader(s) EXCEPT !.state = "CONNECTED", !.inAge = 0,
                                                    !.outstanding = FALSE, !.unsent = FALSE]
    [] fate = "refused"                       -> stop(resetReader(s), "CONNECT_REFUSED")
    [] fate = "silent"                        -> stop(resetReader(s), "CONNECTION_TIMEOUT")
    [] fate \in {"other packet", "malformed"} -> stop(resetReader(s), "PROTOCOL_ERROR")
    [] fate = "large"                         -> stop(resetReader(s), "PACKET_TOO_LARGE")

connect(fate) ==
  LET begun  == noteLost(client)
      opened == [resetReader(stop(begun, begun.state)) EXCEPT !.sock = TRUE]
      sent   == [opened EXCEPT !.buf = "out", !.outAge = 0, !.inAge = 0, !.heardAge = 0, !.sessionAge = 0]
  IN  /\ ~client.awaits
      /\ client' = CASE connected(begun)                  -> begun
                [] ~connected(begun) /\ fate = "unreachable"         -> stop(begun, "CONNECT_FAILED")
                [] ~connected(begun) /\ fate = "too long"            -> stop(opened, "PACKET_TOO_LARGE")
                [] ~connected(begun) /\ fate = "refused by the link" -> stop(sent, "CONNECTION_LOST")
                [] OTHER                                             -> awaitConnAck(sent, fate)
      /\ pings' = IF connected(client) THEN pings ELSE 0
      /\ UNCHANGED served

(* A packet that fits is built once the reader is settled, and written.    *)
sendPacket(fits) ==
  /\ ~client.awaits
  /\ \E finished \in Finishes(client), taken \in Takings(client) : \E d \in Dispatches(client, finished /\ client.rx # "Idle") :
       LET settled == settleReader(noteLost(client), finished, d)
       IN  client' = IF connected(settled) /\ fits THEN write(settled, taken) ELSE settled
  /\ pings' = IF client'.sock THEN pings ELSE 0
  /\ UNCHANGED served

publish == \E fits \in BOOLEAN : sendPacket(fits)

(* Its payload is handed over in pieces from flash: it too may end half way. *)
publish_P == \E fits \in BOOLEAN : sendPacket(fits)

unsubscribe == sendPacket(TRUE)

(* A packet written whole leaves the call waiting for its acknowledgement. *)
subscribe ==
  /\ ~client.awaits
  /\ \E finished \in Finishes(client), taken \in Takings(client) : \E d \in Dispatches(client, finished /\ client.rx # "Idle") :
       LET settled == settleReader(noteLost(client), finished, d)
           sent    == IF connected(settled) THEN write(settled, taken) ELSE settled
       IN  client' = [sent EXCEPT !.awaits = connected(sent) /\ taken = "all"]
  /\ pings' = IF client'.sock THEN pings ELSE 0
  /\ UNCHANGED served

(* What the broker says before it acknowledges is dispatched, and the wait *)
(* goes on while there is time; not after a packet that ends the session.  *)
subAckOther ==
  /\ client.awaits /\ client.inbound # << >>
  /\ \E d \in Dispatches(client, TRUE), timeLeft \in BOOLEAN :
       client' = [takePacket(client, d) EXCEPT
                    !.awaits = timeLeft /\ client.inbound[1].kind \notin ReadFailures \cup {"forbidden"}]
  /\ pings' = IF client'.sock THEN pings ELSE 0
  /\ UNCHANGED served

(* How the wait ends: granted or denied, with a code no broker may use, or *)
(* with nothing more from a link that went quiet or is gone.               *)
SubAckEnds(s) == {resetReader(stop(s, "CONNECTION_TIMEOUT"))}
                 \cup (IF s.sock /\ s.inbound = << >>
                       THEN {resetReader(s), resetReader(stop(s, "PROTOCOL_ERROR"))} ELSE {})

subAckEnds ==
  /\ client.awaits
  /\ \E s \in SubAckEnds(client) : client' = [s EXCEPT !.awaits = FALSE]
  /\ pings' = IF client'.sock THEN pings ELSE 0
  /\ UNCHANGED served

awaitSubAck == subAckOther \/ subAckEnds

disconnect ==
  /\ ~client.awaits
  /\ client' = stop(client, "DISCONNECTED")
  /\ pings' = 0
  /\ UNCHANGED served

-----------------------------------------------------------------------------
(* The broker, the link and time *)

brokerSends(p) ==
  /\ client.sock /\ Len(client.inbound) < MaxInbound
  /\ p.kind = "pingresp" => pings > 0
  /\ client' = [client EXCEPT !.inbound = Append(@, p)]
  /\ pings' = IF p.kind = "pingresp" THEN 0 ELSE pings
  /\ UNCHANGED served

linkDies ==
  /\ client.sock
  /\ client' = [client EXCEPT !.sock = FALSE, !.inbound = << >>]
  /\ pings' = 0
  /\ UNCHANGED served

Later(age) == IF age < MaxClock THEN age + 1 ELSE age

tick ==
  /\ client.state = "CONNECTED" /\ served /\ ~client.awaits
  /\ client' = [client EXCEPT !.rxAge = IF client.rx = "Idle" THEN 0 ELSE Later(@),
                    !.dueAge = IF client.outstanding \/ client.unsent THEN Later(@) ELSE 0,
                    !.tryAge = IF client.outstanding \/ client.unsent THEN Later(@) ELSE 0, !.inAge = Later(@),
                    !.outAge = Later(@), !.heardAge = Later(@), !.sessionAge = Later(@)]
  /\ served' = FALSE
  /\ UNCHANGED pings

MqttNext ==
  \/ loop \/ publish \/ publish_P \/ subscribe \/ awaitSubAck \/ unsubscribe \/ disconnect
  \/ \E fate \in ConnectFates : connect(fate)
  \/ \E p \in Packets : brokerSends(p)
  \/ linkDies \/ tick

MqttSpec == MqttInit /\ [][MqttNext]_mqttVars

-----------------------------------------------------------------------------
(* Properties *)

(* An open session was heard by the broker within one and a half keep-     *)
(* alive intervals: the client proves itself or gives up first, whatever   *)
(* pings the link refuses and answers stay away (servicePing).             *)
BrokerStillWaiting == connected(client) => 2 * client.heardAge <= 3 * KeepAlive

(* The ping a session is given up for fell due in that session: nothing of *)
(* an earlier session's run, refused or unanswered, shortens this one      *)
(* (awaitConnAck).                                                         *)
RunBelongsToSession ==
  connected(client) /\ (client.outstanding \/ client.unsent) => client.dueAge + PingInterval <= client.sessionAge

(* A packet half read is still in the buffer when the reader goes on:      *)
(* nothing is built over it (settleReader), and every message is           *)
(* acknowledged under its own id.                                          *)
HalfReadIsKept == connected(client) => (client.rx # "Idle" => client.buf = "in" /\ client.inbound # << >>) /\ client.acksMatch
=============================================================================
