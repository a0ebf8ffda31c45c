--------------------------- MODULE EspDeviceProofs --------------------------
(***************************************************************************)
(* Proofs about the parts of a device on the MQTT side.                    *)
(***************************************************************************)
EXTENDS Connectivity, PubSubClient, RfHandler, Thermometer, FiniteSetTheorems, TLAPS

-----------------------------------------------------------------------------
(* Connectivity: what the calls of a pass leave alone                      *)

StageNames == {"no record", "Banner", "FileSystem", "BackoffWait", "NetworkStart", "AddressWait",
               "ClockSync", "Credentials", "Certificate", "BrokerConnect", "Subscribe",
               "Announce", "Running"}

Esp == [phase : {"off", "boot", "run"}, rtcRung : Int, rtcStage : StageNames, wdt : BOOLEAN,
        rung : Nat, netSeen : BOOLEAN, online : BOOLEAN, dropped : BOOLEAN,
        reconnectAge : Nat, onlineAge : Nat, offlineAge : Nat,
        session : BOOLEAN, brokerSession : BOOLEAN, subscribed : BOOLEAN,
        avail : {"online", "offline"}, held : Nat, failures : Nat, forgot : BOOLEAN]

\* The ladder in memory, in RTC memory and in the history is the same.
SameLadder(s, t) ==
  t.rung = s.rung /\ t.rtcRung = s.rtcRung /\ t.failures = s.failures /\ t.forgot = s.forgot

\* A rung of the ladder that counts the failures it was told of, or, once a
\* start has overwritten one it never read, some of them.
Counts(s, r) ==
  /\ r \in Nat /\ r < stepCount
  /\ IF s.forgot THEN 1 <= r /\ r <= s.failures ELSE r = s.failures

\* What the broker holds and the device believes of the session is the same.
SameLink(s, t) ==
  /\ t.session = s.session /\ t.brokerSession = s.brokerSession
  /\ t.subscribed = s.subscribed /\ t.avail = s.avail

\* The broker shows the device only with a session, and no session both ends
\* believe in is not subscribed and shown.
LinkOk(s) ==
  /\ s.avail = "online" => s.brokerSession
  /\ s.session /\ s.brokerSession => s.subscribed /\ s.avail = "online"

LEMMA SetStageFacts ==
  ASSUME NEW s \in Esp, NEW stage \in StageNames
  PROVE  /\ setStage(s, stage) \in Esp
         /\ SameLadder(s, setStage(s, stage)) /\ SameLink(s, setStage(s, stage))
         /\ setStage(s, stage).phase = s.phase /\ setStage(s, stage).rtcStage = stage
BY DEF setStage, Esp, SameLadder, SameLink

LEMMA StageLiterals ==
  {"BrokerConnect", "Subscribe", "Announce", "Running", "Banner"} \subseteq StageNames
BY DEF StageNames

LEMMA RestartFacts ==
  ASSUME NEW s \in Esp, NEW b \in BOOLEAN
  PROVE  /\ restartMCU(s, b) \in Esp
         /\ SameLadder(s, restartMCU(s, b))
         /\ restartMCU(s, b).phase = "off" /\ ~restartMCU(s, b).session
         /\ restartMCU(s, b).avail = s.avail /\ restartMCU(s, b).brokerSession = s.brokerSession
BY DEF restartMCU, Esp, SameLadder

\* What onFailure makes of a rung, or of the count.
Stepped(r) == IF r + 1 < stepCount THEN r + 1 ELSE r

\* A failure steps the rung and the count alike.
LEMMA SteppedCounts ==
  ASSUME NEW r \in Nat, NEW f \in Nat, r < stepCount
  PROVE  /\ Stepped(r) \in Nat /\ Stepped(f) \in Nat /\ Stepped(r) < stepCount
         /\ r <= f => Stepped(r) <= Stepped(f)
         /\ r = f => Stepped(r) = Stepped(f)
         /\ r <= Stepped(r)
<1>1. stepCount \in Nat
  BY ConnectivityAssumption DEF stepCount
<1> QED
  BY <1>1 DEF Stepped

LEMMA FailureFacts ==
  ASSUME NEW s \in Esp
  PROVE  LET t == storeRung(onFailure(s))
         IN  /\ t \in Esp /\ SameLink(s, t) /\ t.forgot = s.forgot
             /\ t.rung = Stepped(s.rung) /\ t.failures = Stepped(s.failures) /\ t.rtcRung = t.rung
             /\ t.phase = s.phase /\ t.rtcStage = s.rtcStage
<1>1. onFailure(s) = [s EXCEPT !.rung = Stepped(s.rung), !.failures = Stepped(s.failures)]
  BY DEF onFailure, Stepped
<1>2. Stepped(s.rung) \in Nat /\ Stepped(s.failures) \in Nat
  BY DEF Stepped, Esp
<1> DEFINE o == onFailure(s)
<1>3. /\ o \in Esp /\ SameLink(s, o) /\ o.forgot = s.forgot
      /\ o.rung = Stepped(s.rung) /\ o.failures = Stepped(s.failures)
      /\ o.phase = s.phase /\ o.rtcStage = s.rtcStage
  BY <1>1, <1>2 DEF Esp, SameLink
<1> HIDE DEF o
<1>4. LET t == storeRung(o)
      IN  /\ t \in Esp /\ SameLink(o, t) /\ t.forgot = o.forgot
          /\ t.rung = o.rung /\ t.failures = o.failures /\ t.rtcRung = o.rung
          /\ t.phase = o.phase /\ t.rtcStage = o.rtcStage
  BY <1>3 DEF storeRung, Esp, SameLink
<1> QED
  BY <1>3, <1>4 DEF SameLink, o

LEMMA StepFacts ==
  ASSUME NEW s \in Esp, Counts(s, s.rung)
  PROVE  LET t == storeRung(onFailure(s))
         IN  /\ t \in Esp /\ SameLink(s, t)
             /\ Counts(t, t.rung) /\ t.rtcRung = t.rung
             /\ t.phase = s.phase /\ t.rtcStage = s.rtcStage
<1> DEFINE t == storeRung(onFailure(s))
<1>1. /\ t \in Esp /\ SameLink(s, t) /\ t.forgot = s.forgot
      /\ t.rung = Stepped(s.rung) /\ t.failures = Stepped(s.failures) /\ t.rtcRung = t.rung
      /\ t.phase = s.phase /\ t.rtcStage = s.rtcStage
  BY FailureFacts
<1> HIDE DEF t
<1>2. /\ s.rung \in Nat /\ s.failures \in Nat /\ s.rung < stepCount
  BY DEF Counts, Esp
<1>3. /\ Stepped(s.rung) \in Nat /\ Stepped(s.failures) \in Nat /\ Stepped(s.rung) < stepCount
      /\ s.rung <= s.failures => Stepped(s.rung) <= Stepped(s.failures)
      /\ s.rung = s.failures => Stepped(s.rung) = Stepped(s.failures)
      /\ s.rung <= Stepped(s.rung)
  BY <1>2, SteppedCounts
<1>4. Counts(t, t.rung)
  BY <1>1, <1>2, <1>3 DEF Counts
<1> QED
  BY <1>1, <1>4 DEF t

LEMMA SuccessFacts ==
  ASSUME NEW s \in Esp
  PROVE  /\ onSuccess(s) \in Esp /\ SameLink(s, onSuccess(s))
         /\ onSuccess(s).rung = 0 /\ onSuccess(s).failures = 0 /\ onSuccess(s).forgot = FALSE
         /\ onSuccess(s).phase = s.phase /\ onSuccess(s).rtcStage = s.rtcStage
BY DEF onSuccess, Esp, SameLink

LEMMA StoreFacts ==
  ASSUME NEW s \in Esp
  PROVE  /\ storeRung(s) \in Esp /\ SameLink(s, storeRung(s))
         /\ storeRung(s).rung = s.rung /\ storeRung(s).failures = s.failures
         /\ storeRung(s).forgot = s.forgot /\ storeRung(s).rtcRung = s.rung
         /\ storeRung(s).phase = s.phase /\ storeRung(s).rtcStage = s.rtcStage
BY DEF storeRung, Esp, SameLink
\* However a connect ends, the ladder is untouched, and unless it hangs the link
\* is made whole or given up.
LEMMA ConnectFacts ==
  ASSUME NEW s \in Esp, NEW fate \in Fates, LinkOk(s)
  PROVE  LET t == connectToMqttServer(s, fate)
         IN  /\ t \in Esp /\ SameLadder(s, t) /\ t.phase = s.phase
             /\ t.avail = "online" => t.brokerSession
             /\ fate \notin Hangs => LinkOk(t)
<1> DEFINE c == setStage(s, "BrokerConnect")
           b == setStage(accept(c), "Subscribe")
           a == setStage([b EXCEPT !.subscribed = TRUE], "Announce")
<1>1. c \in Esp /\ SameLadder(s, c) /\ SameLink(s, c) /\ c.phase = s.phase
  BY SetStageFacts, StageLiterals
<1>2. /\ b \in Esp /\ SameLadder(s, b) /\ b.phase = s.phase
      /\ b.avail # "online" /\ b.brokerSession
  <2> HIDE DEF c
  <2>1. /\ accept(c) \in Esp /\ SameLadder(s, accept(c)) /\ accept(c).phase = s.phase
        /\ accept(c).avail # "online" /\ accept(c).brokerSession
    BY <1>1, ZenonT(60) DEF accept, Esp, SameLadder, SameLink, LinkOk
  <2> QED
    <3> DEFINE e == accept(c)
    <3>1. e \in Esp
      BY <2>1
    <3> HIDE DEF e
    <3>2. /\ setStage(e, "Subscribe") \in Esp /\ SameLadder(e, setStage(e, "Subscribe"))
          /\ SameLink(e, setStage(e, "Subscribe")) /\ setStage(e, "Subscribe").phase = e.phase
      BY <3>1, SetStageFacts, StageLiterals
    <3> QED
      BY <2>1, <3>2 DEF SameLadder, SameLink, e
<1>3. /\ a \in Esp /\ SameLadder(s, a) /\ a.phase = s.phase
      /\ a.avail # "online" /\ a.brokerSession /\ a.subscribed
  <2> HIDE DEF b
  <2> DEFINE d == [b EXCEPT !.subscribed = TRUE]
  <2>1. /\ d \in Esp /\ SameLadder(s, d) /\ d.phase = s.phase
        /\ d.avail # "online" /\ d.brokerSession /\ d.subscribed
    BY <1>2 DEF Esp, SameLadder
  <2> HIDE DEF d
  <2> QED
    <3>1. /\ setStage(d, "Announce") \in Esp /\ SameLadder(d, setStage(d, "Announce"))
          /\ SameLink(d, setStage(d, "Announce")) /\ setStage(d, "Announce").phase = d.phase
      BY <2>1, SetStageFacts, StageLiterals
    <3>2. a = setStage(d, "Announce")
      BY DEF d
    <3> HIDE DEF a
    <3> QED
      BY <2>1, <3>1, <3>2 DEF SameLadder, SameLink
<1>4. ASSUME NEW t \in Esp, SameLadder(s, t), t.phase = s.phase, t.avail # "online"
      PROVE  /\ endMqtt(t, TRUE) \in Esp /\ SameLadder(s, endMqtt(t, TRUE))
             /\ endMqtt(t, TRUE).phase = s.phase /\ LinkOk(endMqtt(t, TRUE))
  <2>1. endMqtt(t, TRUE) =
          [t EXCEPT !.session = FALSE, !.brokerSession = FALSE, !.subscribed = FALSE]
    BY DEF endMqtt
  <2> QED
    BY <1>4, <2>1, ZenonT(60) DEF Esp, SameLadder, LinkOk
<1>5. connectToMqttServer(s, fate) =
        CASE fate \in {"refused", "hangs connecting"} -> c
          [] fate = "not subscribed"                  -> endMqtt(b, TRUE)
          [] fate = "hangs subscribing"               -> b
          [] fate = "not announced"                   -> endMqtt(a, TRUE)
          [] fate = "hangs announcing"                -> a
          [] fate = "done"                            -> [a EXCEPT !.avail = "online"]
  BY DEF connectToMqttServer
<1> HIDE DEF a, b, c
<1>6. /\ [a EXCEPT !.avail = "online"] \in Esp /\ SameLadder(s, [a EXCEPT !.avail = "online"])
      /\ [a EXCEPT !.avail = "online"].phase = s.phase /\ LinkOk([a EXCEPT !.avail = "online"])
  BY <1>3 DEF Esp, SameLadder, LinkOk
<1>7. c.avail = "online" => c.brokerSession
  BY <1>1 DEF SameLink, LinkOk
<1>8. LinkOk(c)
  BY <1>1 DEF SameLink, LinkOk
<1>9. endMqtt(a, TRUE).avail = "online" => endMqtt(a, TRUE).brokerSession
  BY <1>3, <1>4 DEF LinkOk
<1> QED
  BY <1>1, <1>2, <1>3, <1>4, <1>5, <1>6, <1>7, <1>8, <1>9 DEF Fates, Hangs, LinkOk
-----------------------------------------------------------------------------
(* Connectivity: the invariant                                             *)

\* The record in RTC memory counts the failures, and no record means none.
RecordOk(s) ==
  IF s.rtcRung = NoRecord THEN s.failures = 0 /\ ~s.forgot ELSE Counts(s, s.rtcRung)

\* The rung in use is the one stored, which counts the failures.
LadderRead(s) == Counts(s, s.rung) /\ s.rtcRung = s.rung

\* The first rung counts when nothing failed.
LEMMA FirstRungCounts ==
  ASSUME NEW s, s.failures = 0, ~s.forgot
  PROVE  Counts(s, 0)
<1>1. stepCount \in Nat /\ stepCount > 0
  BY ConnectivityAssumption DEF stepCount
<1> QED
  BY <1>1 DEF Counts

\* The ladder is read back when the startup enters its wait: before that it
\* stands on its first rung, from then on it is the one in RTC memory.
LadderOk(s) ==
  /\ RecordOk(s)
  /\ s.phase = "boot" /\ s.rtcStage \in {"Banner", "FileSystem"} => s.rung = 0
  /\ s.phase = "boot" /\ s.rtcStage \notin {"Banner", "FileSystem"} => LadderRead(s)
  /\ s.phase = "run" => LadderRead(s)

EspOk(s) == s \in Esp /\ LadderOk(s) /\ LinkOk(s)

NetInv == net \in BOOLEAN /\ EspOk(esp)

\* What a cut in the middle of a connect leaves: everything but the session.
CutOk(s) == s \in Esp /\ LadderRead(s) /\ (s.avail = "online" => s.brokerSession)

\* What the calls of a pass hand to each other.
RunOk(s) == s \in Esp /\ s.phase = "run" /\ LadderRead(s) /\ LinkOk(s)

\* A rung that is stored is a record.
LEMMA ReadIsRecord ==
  ASSUME NEW s \in Esp, LadderRead(s)
  PROVE  RecordOk(s)
BY DEF LadderRead, RecordOk, Counts, NoRecord

\* A reset keeps what RTC memory and the broker hold.
LEMMA RestartOk ==
  ASSUME NEW s \in Esp, RecordOk(s), s.avail = "online" => s.brokerSession, NEW b \in BOOLEAN
  PROVE  EspOk(restartMCU(s, b))
<1> DEFINE t == restartMCU(s, b)
<1>1. /\ t \in Esp /\ SameLadder(s, t) /\ t.phase = "off" /\ ~t.session
      /\ t.avail = s.avail /\ t.brokerSession = s.brokerSession
  BY RestartFacts
<1> HIDE DEF t
<1>2. LadderOk(t)
  BY <1>1 DEF SameLadder, LadderOk, RecordOk, Counts
<1>3. LinkOk(t)
  BY <1>1 DEF LinkOk
<1>4. EspOk(t)
  BY <1>1, <1>2, <1>3 DEF EspOk
<1> QED
  BY <1>4 DEF t

LEMMA CutRestartOk ==
  ASSUME NEW s, CutOk(s), NEW b \in BOOLEAN
  PROVE  EspOk(restartMCU(s, b))
BY ReadIsRecord, RestartOk DEF CutOk

LEMMA RunIsEspOk ==
  ASSUME NEW s, RunOk(s)
  PROVE  EspOk(s) /\ CutOk(s)
BY ReadIsRecord DEF RunOk, EspOk, CutOk, LadderOk, LinkOk

LEMMA ConnectOk ==
  ASSUME NEW s, RunOk(s), NEW fate \in Fates
  PROVE  LET t == connectToMqttServer(s, fate)
         IN  CutOk(t) /\ (fate \notin Hangs => RunOk(t))
<1> DEFINE t == connectToMqttServer(s, fate)
<1>1. /\ t \in Esp /\ SameLadder(s, t) /\ t.phase = s.phase
      /\ t.avail = "online" => t.brokerSession
      /\ fate \notin Hangs => LinkOk(t)
  BY ConnectFacts DEF RunOk
<1> HIDE DEF t
<1>2. CutOk(t) /\ (fate \notin Hangs => RunOk(t))
  BY <1>1 DEF RunOk, CutOk, SameLadder, LadderRead, Counts
<1> QED
  BY <1>2 DEF t

LEMMA FailureOk ==
  ASSUME NEW s, RunOk(s)
  PROVE  RunOk(storeRung(onFailure(s)))
<1> DEFINE t == storeRung(onFailure(s))
<1>1. /\ t \in Esp /\ SameLink(s, t) /\ t.phase = s.phase
      /\ Counts(t, t.rung) /\ t.rtcRung = t.rung
  BY StepFacts DEF RunOk, LadderRead
<1> HIDE DEF t
<1>2. RunOk(t)
  BY <1>1 DEF RunOk, LadderRead, SameLink, LinkOk
<1> QED
  BY <1>2 DEF t

LEMMA FollowOk ==
  ASSUME net \in BOOLEAN, NEW s, RunOk(s), NEW fate \in Fates
  PROVE  LET t == followNetwork(s, fate)
         IN  CutOk(t) /\ (fate \notin Hangs \/ ~(net /\ ~s.netSeen) => RunOk(t))
<1>1. CASE net /\ ~s.netSeen
  <2> DEFINE u == [s EXCEPT !.netSeen = TRUE]
  <2>1. RunOk(u)
    BY DEF RunOk, Esp, LadderRead, Counts, LinkOk
  <2> HIDE DEF u
  <2>2. CutOk(connectToMqttServer(u, fate)) /\ (fate \notin Hangs => RunOk(connectToMqttServer(u, fate)))
    BY <2>1, ConnectOk
  <2> QED
    BY <1>1, <2>2 DEF followNetwork, u
<1>2. CASE ~net /\ s.netSeen
  <2> DEFINE u == [s EXCEPT !.netSeen = FALSE]
  <2>1. RunOk(u)
    BY DEF RunOk, Esp, LadderRead, Counts, LinkOk
  <2>2. shutdownMqtt(u) = endMqtt([u EXCEPT !.avail = u.avail], FALSE)
    <3>1. net = FALSE
      BY <1>2
    <3> QED
      BY <3>1 DEF shutdownMqtt
  <2> HIDE DEF u
  <2>3. [u EXCEPT !.avail = u.avail] = u
    BY <2>1 DEF RunOk, Esp
  <2>4. endMqtt(u, FALSE) = [u EXCEPT !.session = FALSE, !.brokerSession = u.brokerSession,
                                      !.subscribed = u.subscribed]
    BY DEF endMqtt
  <2>5. RunOk(endMqtt(u, FALSE))
    BY <2>1, <2>4, ZenonT(60) DEF RunOk, Esp, LadderRead, Counts, LinkOk
  <2> QED
    BY <1>2, <2>2, <2>3, <2>5, RunIsEspOk DEF followNetwork, u
<1>3. CASE ~(net /\ ~s.netSeen) /\ ~(~net /\ s.netSeen)
  BY <1>3, RunIsEspOk DEF followNetwork
<1> QED
  BY <1>1, <1>2, <1>3

LEMMA RetryOk ==
  ASSUME NEW s, RunOk(s), NEW fate \in Fates
  PROVE  LET t == retryBroker(s, fate)
         IN  CutOk(t) /\ (fate \notin Hangs => RunOk(t))
<1> DEFINE u == [s EXCEPT !.reconnectAge = 0]
<1>1. RunOk(u)
  BY DEF RunOk, Esp, LadderRead, Counts, LinkOk
<1> HIDE DEF u
<1>2. CASE s.session
  BY <1>1, <1>2, RunIsEspOk DEF retryBroker, u
<1>3. CASE ~s.session /\ ~reconnectDue(s)
  BY <1>3, RunIsEspOk DEF retryBroker
<1>4. CASE ~s.session /\ reconnectDue(s)
  <2> DEFINE t == connectToMqttServer(u, fate)
  <2>1. CutOk(t) /\ (fate \notin Hangs => RunOk(t))
    BY <1>1, ConnectOk
  <2>2. retryBroker(s, fate) =
          IF fate = "done" \/ fate \in Hangs THEN t ELSE storeRung(onFailure(t))
    BY <1>4 DEF retryBroker, u
  <2> HIDE DEF t
  <2>3. fate \notin Hangs => RunOk(storeRung(onFailure(t)))
    BY <2>1, FailureOk
  <2> QED
    BY <2>1, <2>2, <2>3, RunIsEspOk
<1> QED
  BY <1>2, <1>3, <1>4

LEMMA JudgeOk ==
  ASSUME NEW s, RunOk(s)
  PROVE  RunOk(judgeOnline(s))
<1> DEFINE up == s.netSeen /\ s.session
           settled == up /\ s.rung # 0 /\ s.onlineAge > onlineSettleTime
           cleared == IF settled THEN storeRung(onSuccess(s)) ELSE s
           timed == IF up THEN [cleared EXCEPT !.offlineAge = 0] ELSE cleared
<1>1. RunOk(storeRung(onSuccess(s)))
  <2>1. /\ onSuccess(s) \in Esp /\ SameLink(s, onSuccess(s)) /\ onSuccess(s).phase = s.phase
        /\ onSuccess(s).rung = 0 /\ onSuccess(s).failures = 0 /\ ~onSuccess(s).forgot
    BY SuccessFacts DEF RunOk
  <2> DEFINE o == onSuccess(s)
  <2> HIDE DEF o
  <2>2. /\ storeRung(o) \in Esp /\ SameLink(o, storeRung(o)) /\ storeRung(o).phase = o.phase
        /\ storeRung(o).rung = o.rung /\ storeRung(o).failures = o.failures
        /\ storeRung(o).forgot = o.forgot /\ storeRung(o).rtcRung = o.rung
    BY <2>1, StoreFacts DEF o
  <2>3. Counts(storeRung(o), 0)
    BY <2>1, <2>2, FirstRungCounts DEF o
  <2> QED
    BY <2>1, <2>2, <2>3 DEF RunOk, SameLink, LadderRead, LinkOk, o
<1>2. RunOk(cleared)
  BY <1>1
<1>3. judgeOnline(s) = CASE up /\ ~s.online -> publishDisconnectDiag([timed EXCEPT !.online = TRUE, !.onlineAge = 0])
                         [] ~up /\ s.online -> recordDisconnect([timed EXCEPT !.online = FALSE])
                         [] OTHER           -> timed
  BY DEF judgeOnline
<1> HIDE DEF cleared
<1>4. RunOk(timed)
  BY <1>2 DEF RunOk, Esp, LadderRead, Counts, LinkOk
<1> HIDE DEF timed
<1>5. RunOk(publishDisconnectDiag([timed EXCEPT !.online = TRUE, !.onlineAge = 0]))
  BY <1>4 DEF publishDisconnectDiag, RunOk, Esp, LadderRead, Counts, LinkOk
<1>6. RunOk(recordDisconnect([timed EXCEPT !.online = FALSE]))
  BY <1>4 DEF recordDisconnect, RunOk, Esp, LadderRead, Counts, LinkOk
<1> HIDE DEF up
<1> QED
  BY <1>3, <1>4, <1>5, <1>6
-----------------------------------------------------------------------------
(* Connectivity: the actions                                               *)

\* A failed start: one that has not read the ladder back overwrites the record
\* with the second rung, the others step the rung they read.
LEMMA InitFailedOk ==
  ASSUME NEW s \in Esp, s.avail = "online" => s.brokerSession,
         \/ s.rtcStage \in {"Banner", "FileSystem"} /\ s.rung = 0 /\ RecordOk(s)
         \/ s.rtcStage \notin {"Banner", "FileSystem"} /\ Counts(s, s.rung)
  PROVE  EspOk(initFailed(s))
<1> DEFINE lost == s.rtcStage \in {"Banner", "FileSystem"} /\ s.rtcRung > 0
           u == [s EXCEPT !.forgot = s.forgot \/ lost]
           t == storeRung(onFailure(u))
<1>1. /\ u \in Esp /\ SameLink(s, u) /\ u.forgot = (s.forgot \/ lost)
      /\ u.rung = s.rung /\ u.failures = s.failures /\ s.failures \in Nat /\ s.rung \in Nat
  BY DEF Esp, SameLink
<1>2. initFailed(s) = restartMCU(t, FALSE)
  BY DEF initFailed
<1> HIDE DEF u
<1>3. /\ t \in Esp /\ SameLink(u, t) /\ LadderRead(t)
  <2>1. CASE ~lost
    <3>1. Counts(u, u.rung)
      <4>1. CASE s.rtcStage \notin {"Banner", "FileSystem"}
        BY <1>1, <2>1, <4>1 DEF Counts
      <4>2. CASE s.rtcStage \in {"Banner", "FileSystem"}
        <5>1. s.failures = 0 /\ ~s.forgot
          BY <1>1, <2>1, <4>2 DEF RecordOk, Counts, NoRecord
        <5> QED
          BY <1>1, <2>1, <4>2, <5>1, FirstRungCounts
      <4> QED
        BY <4>1, <4>2
    <3> QED
      BY <1>1, <3>1, StepFacts DEF LadderRead
  <2>2. CASE lost
    <3>1. /\ t \in Esp /\ SameLink(u, t) /\ t.forgot = u.forgot
          /\ t.rung = Stepped(u.rung) /\ t.failures = Stepped(u.failures) /\ t.rtcRung = t.rung
      BY <1>1, FailureFacts
    <3>2. stepCount \in Nat
      BY ConnectivityAssumption DEF stepCount
    <3>3. s.rung = 0 /\ 1 < stepCount /\ 1 <= s.failures
      BY <1>1, <2>2, <3>2 DEF RecordOk, Counts, NoRecord
    <3>4. Stepped(0) = 1 /\ 1 <= Stepped(s.failures)
      BY <1>1, <3>2, <3>3 DEF Stepped
    <3> HIDE DEF t
    <3>5. t.rung = 1 /\ t.forgot /\ 1 <= t.failures
      BY <1>1, <2>2, <3>1, <3>3, <3>4
    <3> QED
      BY <3>1, <3>3, <3>5 DEF LadderRead, Counts
  <2> QED
    BY <2>1, <2>2
<1> HIDE DEF t
<1>4. CutOk(t)
  BY <1>1, <1>3 DEF CutOk, SameLink
<1>5. EspOk(restartMCU(t, FALSE))
  BY <1>4, CutRestartOk
<1> QED
  BY <1>2, <1>5

LEMMA BeginOk ==
  ASSUME NetInv, begin
  PROVE  EspOk(esp')
<1> DEFINE m == [Memory(esp) EXCEPT !.phase = "boot"]
<1>1. /\ m \in Esp /\ m.rung = 0 /\ m.rtcRung = esp.rtcRung /\ m.failures = esp.failures
      /\ m.forgot = esp.forgot /\ SameLink(esp, m)
  BY DEF NetInv, EspOk, Memory, Esp, SameLink
<1> HIDE DEF m
<1>2. /\ setStage(m, "Banner") \in Esp /\ SameLadder(m, setStage(m, "Banner"))
      /\ SameLink(m, setStage(m, "Banner")) /\ setStage(m, "Banner").rtcStage = "Banner"
      /\ setStage(m, "Banner").phase = m.phase
  BY <1>1, SetStageFacts, StageLiterals
<1>3. esp' = setStage(m, "Banner")
  BY DEF begin, m
<1>4. m.phase = "boot"
  BY DEF NetInv, EspOk, Memory, Esp, m
<1> QED
  BY <1>1, <1>2, <1>3, <1>4
     DEF NetInv, EspOk, LadderOk, RecordOk, Counts, LinkOk, SameLadder, SameLink

\* The wait reads the ladder back, steps it if a watchdog ended the last run,
\* and stores it.
LEMMA WaitFacts ==
  ASSUME NEW s \in Esp, RecordOk(s), s.rung = 0
  PROVE  LET t == waitOutBackoff(s)
         IN  /\ t \in Esp /\ SameLink(s, t) /\ LadderRead(t)
             /\ t.phase = s.phase /\ t.rtcStage = s.rtcStage
<1> DEFINE r == IF s.rtcRung = NoRecord THEN s ELSE [s EXCEPT !.rung = s.rtcRung]
<1>1. /\ r \in Esp /\ SameLink(s, r) /\ Counts(r, r.rung)
      /\ r.phase = s.phase /\ r.rtcStage = s.rtcStage
  <2>1. CASE s.rtcRung = NoRecord
    BY <2>1, FirstRungCounts DEF RecordOk, SameLink
  <2>2. CASE s.rtcRung # NoRecord
    <3>1. s.rtcRung \in Nat
      BY <2>2 DEF RecordOk, Counts
    <3>2. r = [s EXCEPT !.rung = s.rtcRung]
      BY <2>2
    <3> HIDE DEF r
    <3> QED
      BY <2>2, <3>1, <3>2 DEF RecordOk, Counts, Esp, SameLink
  <2> QED
    BY <2>1, <2>2
<1>2. waitOutBackoff(s) = IF s.wdt THEN storeRung(onFailure(r)) ELSE storeRung(r)
  BY DEF waitOutBackoff
<1> HIDE DEF r
<1>3. LET t == storeRung(onFailure(r))
      IN  /\ t \in Esp /\ SameLink(r, t) /\ Counts(t, t.rung) /\ t.rtcRung = t.rung
          /\ t.phase = r.phase /\ t.rtcStage = r.rtcStage
  BY <1>1, StepFacts
<1>4. /\ storeRung(r) \in Esp /\ SameLink(r, storeRung(r))
      /\ storeRung(r).rung = r.rung /\ Counts(storeRung(r), r.rung)
      /\ storeRung(r).rtcRung = r.rung
      /\ storeRung(r).phase = r.phase /\ storeRung(r).rtcStage = r.rtcStage
  BY <1>1, StoreFacts DEF Counts
<1> QED
  BY <1>1, <1>2, <1>3, <1>4 DEF SameLink, LadderRead

LEMMA InitStepOk ==
  ASSUME NetInv, initStep
  PROVE  EspOk(esp')
<1>1. PICK i \in 1 .. 7 :
        /\ esp.rtcStage = Stages[i]
        /\ esp' = LET entered == setStage(esp, Stages[i + 1])
                  IN  IF Stages[i + 1] = "BackoffWait" THEN waitOutBackoff(entered) ELSE entered
  BY DEF initStep
<1>2. /\ Stages[1] = "Banner" /\ Stages[2] = "FileSystem" /\ Stages[3] = "BackoffWait"
      /\ Stages[4] = "NetworkStart" /\ Stages[5] = "AddressWait" /\ Stages[6] = "ClockSync"
      /\ Stages[7] = "Credentials" /\ Stages[8] = "Certificate"
  BY DEF Stages
<1>3. i = 1 \/ i = 2 \/ i = 3 \/ i = 4 \/ i = 5 \/ i = 6 \/ i = 7
  OBVIOUS
<1> DEFINE e == setStage(esp, Stages[i + 1])
<1>4. /\ Stages[i + 1] \in StageNames
      /\ Stages[i + 1] = "BackoffWait" => esp.rtcStage = "FileSystem"
      /\ Stages[i + 1] # "BackoffWait" =>
           (Stages[i + 1] \in {"Banner", "FileSystem"} <=> esp.rtcStage \in {"Banner", "FileSystem"})
  <2>1. CASE i = 1
    BY <1>1, <1>2, <2>1, 1 + 1 = 2 DEF StageNames
  <2>2. CASE i = 2
    BY <1>1, <1>2, <2>2, 2 + 1 = 3 DEF StageNames
  <2>3. CASE i = 3
    BY <1>1, <1>2, <2>3, 3 + 1 = 4 DEF StageNames
  <2>4. CASE i = 4
    BY <1>1, <1>2, <2>4, 4 + 1 = 5 DEF StageNames
  <2>5. CASE i = 5
    BY <1>1, <1>2, <2>5, 5 + 1 = 6 DEF StageNames
  <2>6. CASE i = 6
    BY <1>1, <1>2, <2>6, 6 + 1 = 7 DEF StageNames
  <2>7. CASE i = 7
    BY <1>1, <1>2, <2>7, 7 + 1 = 8 DEF StageNames
  <2> QED
    BY <1>3, <2>1, <2>2, <2>3, <2>4, <2>5, <2>6, <2>7
<1>5. /\ e \in Esp /\ SameLadder(esp, e) /\ SameLink(esp, e)
      /\ e.phase = esp.phase /\ e.rtcStage = Stages[i + 1]
  BY <1>4, SetStageFacts DEF NetInv, EspOk
<1>6. esp' = IF Stages[i + 1] = "BackoffWait" THEN waitOutBackoff(e) ELSE e
  BY <1>1
<1> HIDE DEF e
<1>7. esp.phase = "boot" /\ EspOk(esp)
  BY DEF initStep, NetInv
<1>8. CASE Stages[i + 1] = "BackoffWait"
  <2>1. RecordOk(e) /\ e.rung = 0
    BY <1>4, <1>5, <1>7, <1>8 DEF EspOk, LadderOk, RecordOk, Counts, SameLadder
  <2> DEFINE t == waitOutBackoff(e)
  <2>2. /\ t \in Esp /\ SameLink(e, t) /\ LadderRead(t)
        /\ t.phase = e.phase /\ t.rtcStage = e.rtcStage
    BY <1>5, <2>1, WaitFacts
  <2>3. esp' = t
    BY <1>6, <1>8
  <2> HIDE DEF t
  <2>4. RecordOk(t) /\ LinkOk(t)
    BY <1>5, <1>7, <2>2, ReadIsRecord DEF EspOk, SameLink, LinkOk
  <2>5. t.rtcStage \notin {"Banner", "FileSystem"} /\ t.phase = "boot"
    BY <1>5, <1>7, <1>8, <2>2
  <2> QED
    BY <2>2, <2>3, <2>4, <2>5 DEF EspOk, LadderOk
<1>9. CASE Stages[i + 1] # "BackoffWait"
  <2>1. esp' = e
    BY <1>6, <1>9
  <2> QED
    BY <1>4, <1>5, <1>7, <1>9, <2>1
       DEF EspOk, LadderOk, RecordOk, LadderRead, Counts, LinkOk, SameLadder, SameLink
<1> QED
  BY <1>8, <1>9
\* However a connect ends, the startup is past its first stages.
LEMMA ConnectStage ==
  ASSUME NEW s \in Esp, NEW fate \in Fates
  PROVE  connectToMqttServer(s, fate).rtcStage \in {"BrokerConnect", "Subscribe", "Announce"}
BY DEF connectToMqttServer, setStage, accept, endMqtt, Esp, Fates

LEMMA InitConnectsOk ==
  ASSUME NetInv, initConnects
  PROVE  EspOk(esp')
<1>1. PICK fate \in Fates :
        LET s == connectToMqttServer(esp, fate)
        IN  esp' = CASE fate = "done"     -> setStage(storeRung([s EXCEPT !.phase = "run", !.onlineAge = 0]), "Running")
                     [] fate \in Hangs    -> restartMCU(s, TRUE)
                     [] OTHER             -> initFailed(s)
  BY DEF initConnects, FatesNow, Fates
<1> DEFINE s == connectToMqttServer(esp, fate)
<1>2. /\ esp \in Esp /\ LinkOk(esp) /\ LadderRead(esp) /\ esp.phase = "boot"
  BY DEF NetInv, EspOk, LadderOk, initConnects
<1>3. /\ s \in Esp /\ SameLadder(esp, s) /\ s.phase = esp.phase
      /\ s.avail = "online" => s.brokerSession
      /\ fate \notin Hangs => LinkOk(s)
  BY <1>2, ConnectFacts
<1>4. esp' = CASE fate = "done"     -> setStage(storeRung([s EXCEPT !.phase = "run", !.onlineAge = 0]), "Running")
               [] fate \in Hangs    -> restartMCU(s, TRUE)
               [] OTHER             -> initFailed(s)
  BY <1>1
<1> HIDE DEF s
<1>5. LadderRead(s) /\ CutOk(s)
  BY <1>2, <1>3 DEF SameLadder, LadderRead, Counts, CutOk
<1>6. CASE fate = "done"
  <2> DEFINE u == [s EXCEPT !.phase = "run", !.onlineAge = 0]
             v == storeRung(u)
  <2>1. u \in Esp /\ SameLink(s, u) /\ LadderRead(u) /\ u.phase = "run"
    BY <1>3, <1>5 DEF Esp, SameLink, LadderRead, Counts
  <2> HIDE DEF u
  <2>2. v \in Esp /\ SameLink(u, v) /\ LadderRead(v) /\ v.phase = "run"
    BY <2>1, StoreFacts DEF LadderRead, Counts
  <2> HIDE DEF v
  <2>3. /\ setStage(v, "Running") \in Esp /\ SameLadder(v, setStage(v, "Running"))
        /\ SameLink(v, setStage(v, "Running")) /\ setStage(v, "Running").phase = v.phase
    BY <2>2, SetStageFacts, StageLiterals
  <2>4. esp' = setStage(v, "Running")
    <3>1. esp' = setStage(storeRung([s EXCEPT !.phase = "run", !.onlineAge = 0]), "Running")
      BY <1>4, <1>6 DEF Hangs
    <3> QED
      BY <3>1 DEF u, v
  <2>5. LinkOk(s)
    BY <1>3, <1>6 DEF Hangs
  <2>6. RunOk(esp')
    BY <2>1, <2>2, <2>3, <2>4, <2>5 DEF RunOk, SameLadder, SameLink, LadderRead, Counts, LinkOk
  <2> QED
    BY <2>6, RunIsEspOk
<1>7. CASE fate \in Hangs
  <2>1. esp' = restartMCU(s, TRUE)
    BY <1>4, <1>7 DEF Hangs
  <2> QED
    BY <1>5, <2>1, CutRestartOk
<1>8. CASE fate # "done" /\ fate \notin Hangs
  <2>1. esp' = initFailed(s)
    BY <1>4, <1>8
  <2>2. s.rtcStage \notin {"Banner", "FileSystem"}
    BY <1>2, ConnectStage DEF s
  <2> QED
    BY <1>3, <1>5, <2>1, <2>2, InitFailedOk DEF LadderRead
<1> QED
  BY <1>6, <1>7, <1>8

LEMMA RunPassOk ==
  ASSUME NetInv, run
  PROVE  EspOk(esp')
<1>1. PICK first \in IF net /\ ~esp.netSeen THEN FatesNow ELSE {"done"} :
        LET followed == followNetwork(esp, first)
        IN  \E second \in IF reconnectDue(followed) THEN FatesNow ELSE {"done"} :
              LET retried == retryBroker(followed, second)
                  judged  == judgeOnline(retried)
              IN  esp' = CASE first \in Hangs                      -> restartMCU(followed, TRUE)
                           [] first \notin Hangs /\ second \in Hangs -> restartMCU(retried, TRUE)
                           [] OTHER -> IF judged.offlineAge > deviceResetTime THEN restartMCU(judged, FALSE) ELSE judged
  BY DEF run
<1> DEFINE f == followNetwork(esp, first)
<1>2. PICK second \in IF reconnectDue(f) THEN FatesNow ELSE {"done"} :
        LET retried == retryBroker(f, second)
            judged  == judgeOnline(retried)
        IN  esp' = CASE first \in Hangs                      -> restartMCU(f, TRUE)
                     [] first \notin Hangs /\ second \in Hangs -> restartMCU(retried, TRUE)
                     [] OTHER -> IF judged.offlineAge > deviceResetTime THEN restartMCU(judged, FALSE) ELSE judged
  BY <1>1
<1>3. first \in Fates /\ second \in Fates
  BY <1>1, <1>2 DEF FatesNow, Fates
<1>4. RunOk(esp) /\ net \in BOOLEAN
  BY DEF NetInv, EspOk, LadderOk, RunOk, run
<1>5. CutOk(f) /\ (first \notin Hangs => RunOk(f))
  BY <1>3, <1>4, FollowOk
<1> HIDE DEF f
<1> DEFINE r == retryBroker(f, second)
           j == judgeOnline(r)
<1>6. esp' = CASE first \in Hangs                      -> restartMCU(f, TRUE)
               [] first \notin Hangs /\ second \in Hangs -> restartMCU(r, TRUE)
               [] OTHER -> IF j.offlineAge > deviceResetTime THEN restartMCU(j, FALSE) ELSE j
  BY <1>2
<1>7. first \notin Hangs => CutOk(r) /\ (second \notin Hangs => RunOk(r))
  BY <1>3, <1>5, RetryOk
<1>8. RunOk(r) => RunOk(j)
  BY JudgeOk
<1> HIDE DEF r, j
<1>9. CASE first \in Hangs
  BY <1>5, <1>6, <1>9, CutRestartOk
<1>10. CASE first \notin Hangs /\ second \in Hangs
  BY <1>6, <1>7, <1>10, CutRestartOk
<1>11. CASE first \notin Hangs /\ second \notin Hangs
  <2>1. RunOk(j) /\ EspOk(j) /\ EspOk(restartMCU(j, FALSE))
    BY <1>7, <1>8, <1>11, RunIsEspOk, CutRestartOk
  <2>2. esp' = IF j.offlineAge > deviceResetTime THEN restartMCU(j, FALSE) ELSE j
    BY <1>6, <1>11
  <2> QED
    BY <2>1, <2>2
<1> QED
  BY <1>9, <1>10, <1>11

LEMMA WorldOk ==
  ASSUME NetInv, World
  PROVE  EspOk(esp')
<1>1. esp \in Esp /\ LadderOk(esp) /\ LinkOk(esp) /\ RecordOk(esp)
  BY DEF NetInv, EspOk, LadderOk
<1>2. CASE watchdogReset
  BY <1>1, <1>2, RestartOk DEF watchdogReset, LinkOk
<1>3. CASE powerCycle
  <2> DEFINE r == restartMCU(esp, FALSE)
  <2>1. EspOk(r) /\ r.phase = "off"
    BY <1>1, RestartOk, RestartFacts DEF LinkOk
  <2>2. esp' = [r EXCEPT !.rtcRung = NoRecord, !.rtcStage = "no record",
                         !.failures = 0, !.forgot = FALSE]
    BY <1>3 DEF powerCycle
  <2> HIDE DEF r
  <2> QED
    <3>1. NoRecord \in Int /\ "no record" \in StageNames
      BY DEF NoRecord, StageNames
    <3>2. /\ esp' \in Esp /\ esp'.phase = "off" /\ esp'.rtcRung = NoRecord /\ esp'.failures = 0
          /\ ~esp'.forgot /\ SameLink(r, esp')
      BY <2>1, <2>2, <3>1 DEF EspOk, Esp, SameLink
    <3> QED
      BY <2>1, <3>2 DEF EspOk, LadderOk, RecordOk, LinkOk, SameLink
<1>4. ASSUME esp' = endSession(esp)
      PROVE  EspOk(esp')
  BY <1>1, <1>4 DEF endSession, EspOk, Esp, LadderOk, LadderRead, RecordOk, Counts, LinkOk
<1>5. CASE brokerNotices
  BY <1>4, <1>5 DEF brokerNotices
<1>6. CASE brokerFails
  BY <1>4, <1>6 DEF brokerFails
<1>7. CASE sessionDrops
  BY <1>1, <1>7 DEF sessionDrops, EspOk, Esp, LadderOk, LadderRead, RecordOk, Counts, LinkOk
<1>8. CASE netFails
  BY <1>1, <1>8 DEF netFails, EspOk
<1>9. CASE initFails
  <2>1. \/ esp.rtcStage \in {"Banner", "FileSystem"} /\ esp.rung = 0
        \/ esp.rtcStage \notin {"Banner", "FileSystem"} /\ Counts(esp, esp.rung)
    BY <1>1, <1>9 DEF initFails, LadderOk, LadderRead
  <2> QED
    BY <1>1, <1>9, <2>1, InitFailedOk DEF initFails, LinkOk
<1> QED
  BY <1>2, <1>3, <1>5, <1>6, <1>7, <1>8, <1>9 DEF World

LEMMA NetStep ==
  ASSUME NetInv, [NetNext]_netVars
  PROVE  NetInv'
<1>1. net' \in BOOLEAN
  BY DEF NetInv, NetNext, Startup, World, begin, initStep, initConnects, addressTimeout, run,
         netTick, netReturns, brokerReturns, watchdogReset, powerCycle, brokerNotices,
         deviceNotices, sessionDrops, netFails, brokerFails, initFails, netVars
<1>2. CASE addressTimeout
  <2>1. /\ esp \in Esp /\ LinkOk(esp) /\ Counts(esp, esp.rung)
        /\ esp.rtcStage \notin {"Banner", "FileSystem"}
    BY <1>2 DEF NetInv, EspOk, LadderOk, LadderRead, addressTimeout
  <2> QED
    BY <1>1, <1>2, <2>1, InitFailedOk DEF addressTimeout, LinkOk, NetInv
<1>3. CASE netTick
  <2>1. \A n \in Nat : aged(n) \in Nat
    BY DEF aged
  <2>2. esp' = [esp EXCEPT !.reconnectAge = aged(esp.reconnectAge), !.onlineAge = aged(esp.onlineAge),
                           !.offlineAge = aged(esp.offlineAge),
                           !.held = IF esp.session THEN aged(esp.held) ELSE 0]
    BY <1>3 DEF netTick
  <2>3. /\ esp' \in Esp /\ SameLink(esp, esp') /\ SameLadder(esp, esp')
        /\ esp'.phase = esp.phase /\ esp'.rtcStage = esp.rtcStage /\ esp'.session = esp.session
    BY <2>1, <2>2 DEF NetInv, EspOk, Esp, SameLink, SameLadder
  <2>4. LadderOk(esp')
    BY <2>3 DEF NetInv, EspOk, LadderOk, LadderRead, RecordOk, Counts, SameLadder
  <2>5. LinkOk(esp')
    BY <2>3 DEF NetInv, EspOk, LinkOk, SameLink
  <2> QED
    BY <1>1, <2>3, <2>4, <2>5 DEF NetInv, EspOk
<1>4. CASE UNCHANGED esp
  BY <1>1, <1>4 DEF NetInv
<1>5. CASE deviceNotices
  BY <1>1, <1>5
     DEF NetInv, deviceNotices, EspOk, Esp, LadderOk, LadderRead, RecordOk, Counts, LinkOk
<1> QED
  BY <1>1, <1>2, <1>3, <1>4, <1>5, BeginOk, InitStepOk, InitConnectsOk, RunPassOk, WorldOk
     DEF NetNext, Startup, netReturns, brokerReturns, netVars, NetInv

LEMMA NetInitOk == NetInit => NetInv
<1> SUFFICES ASSUME NetInit
             PROVE  NetInv
  OBVIOUS
<1>1. NoRecord \in Int /\ "no record" \in StageNames
  BY DEF NoRecord, StageNames
<1>2. esp \in Esp
  BY <1>1 DEF NetInit, Esp
<1> QED
  BY <1>2 DEF NetInit, NetInv, EspOk, LadderOk, RecordOk, LinkOk

\* The ladder outlives a reset, for any ladder and any timing: wherever a start,
\* an attempt or the watchdog cuts a run short, RTC memory counts the failures
\* the ladder was told of, all of them unless a start that failed before it had
\* read the ladder back has overwritten it, and then at least one
\* (init, waitOutBackoff).
THEOREM LadderAlwaysSurvives == NetSpec => []LadderSurvives
<1>1. NetInit => NetInv
  BY NetInitOk
<1>2. NetInv /\ [NetNext]_netVars => NetInv'
  BY NetStep
<1>3. NetInv => LadderSurvives
  BY DEF NetInv, EspOk, Esp, LadderOk, RecordOk, LadderRead, Counts, LadderSurvives
<1> QED
  BY <1>1, <1>2, <1>3, PTL DEF NetSpec

\* The broker shows the device only while it holds a session of it, and a
\* running device with a session at both ends is subscribed and shown, however its connects,
\* the router and the broker fail (connectToMqttServer, shutdownMqtt).
THEOREM AvailabilityAlwaysTruthful == NetSpec => []AvailabilityTruthful
<1>1. NetInit => NetInv
  BY NetInitOk
<1>2. NetInv /\ [NetNext]_netVars => NetInv'
  BY NetStep
<1>3. NetInv => AvailabilityTruthful
  BY DEF NetInv, EspOk, LinkOk, AvailabilityTruthful
<1> QED
  BY <1>1, <1>2, <1>3, PTL DEF NetSpec
-----------------------------------------------------------------------------
(* RfHandler                                                               *)

OneCode(pulses) == \E c \in Codes : \A i \in 1 .. Len(pulses) : pulses[i] = c
AtMostOne(S) == \E c : S \subseteq {c}

RfTypes ==
  /\ air \in [code : Codes \cup {Silence}, pos : Nat, paused : BOOLEAN]
  /\ rec \in [pause : Codes \cup {Silence, Short}, pulses : Seq(Codes)]
  /\ pending \in Seq(Codes)
  /\ task \in [at : {"available", "decode", "report", "transmit", "sending"}, i : Nat,
               seen : SUBSET Codes, value : [codes : SUBSET Codes, bits : Nat]]

\* The recording is of one remote: of the one that is pressed, unless the pause
\* before its first pulse is still to come.
RecordingOk ==
  /\ rec.pulses # << >> => OneCode(rec.pulses)
  /\ air.code # Silence /\ ~air.paused =>
       \A i \in 1 .. Len(rec.pulses) : rec.pulses[i] = air.code

\* The frame that waits is one recording, and stays while the task walks it.
PendingOk ==
  /\ pending # << >> => OneCode(pending)
  /\ task.at = "decode" => pending # << >>
  /\ task.seen # {} => task.at = "decode"
  /\ \A c \in task.seen : \E i \in 1 .. Len(pending) : pending[i] = c

RfInv == RfTypes /\ RecordingOk /\ PendingOk /\ AtMostOne(task.value.codes)

LEMMA AtMostOneCardinality ==
  ASSUME NEW S, AtMostOne(S)
  PROVE  Cardinality(S) <= 1
<1>1. PICK c : S \subseteq {c}
  BY DEF AtMostOne
<1>2. S = {} \/ S = {c}
  BY <1>1
<1> QED
  <2>1. CASE S = {}
    BY <2>1, FS_EmptySet
  <2>2. CASE S = {c}
    <3>1. Cardinality({c}) = 1
      BY FS_Singleton
    <3> QED
      BY <2>2, <3>1
  <2> QED
    BY <1>2, <2>1, <2>2

\* The codes of a frame that is one recording.
LEMMA SeenIsOne ==
  ASSUME RfInv
  PROVE  AtMostOne(task.seen)
<1>1. CASE task.seen = {}
  BY <1>1 DEF AtMostOne
<1>2. CASE task.seen # {}
  <2>1. PICK c \in Codes : \A i \in 1 .. Len(pending) : pending[i] = c
    BY <1>2 DEF RfInv, PendingOk, OneCode
  <2> QED
    BY <2>1 DEF RfInv, PendingOk, AtMostOne
<1> QED
  BY <1>1, <1>2

LEMMA RecordPauseOk ==
  ASSUME RfInv, NEW length \in Codes \cup {Silence}, recordPause(length)
  PROVE  /\ rec' \in [pause : Codes \cup {Silence, Short}, pulses : Seq(Codes)]
         /\ rec'.pulses = << >>
         /\ pending' \in Seq(Codes)
         /\ pending' # << >> => OneCode(pending')
         /\ pending # << >> => pending' = pending
BY DEF recordPause, handOverRecorded, RfInv, RfTypes, RecordingOk, PendingOk

LEMMA RecordPulseOk ==
  ASSUME RfInv, air.code # Silence, ~air.paused, recordPulse(air.code)
  PROVE  /\ rec' \in [pause : Codes \cup {Silence, Short}, pulses : Seq(Codes)]
         /\ \A i \in 1 .. Len(rec'.pulses) : rec'.pulses[i] = air.code
<1>1. air.code \in Codes /\ rec.pulses \in Seq(Codes) /\ Len(rec.pulses) \in Nat
  BY DEF RfInv, RfTypes
<1>2. CASE rec' = [pause |-> Short, pulses |-> << >>]
  BY <1>2 DEF RfInv, RfTypes
<1>3. CASE rec' = [rec EXCEPT !.pulses = Append(@, air.code)]
  <2> DEFINE p == Append(rec.pulses, air.code)
  <2>1. /\ p \in Seq(Codes) /\ Len(p) = Len(rec.pulses) + 1
        /\ \A i \in 1 .. Len(p) : p[i] = IF i <= Len(rec.pulses) THEN rec.pulses[i] ELSE air.code
    BY <1>1
  <2>2. rec' \in [pause : Codes \cup {Silence, Short}, pulses : Seq(Codes)] /\ rec'.pulses = p
    BY <1>3, <2>1 DEF RfInv, RfTypes
  <2> HIDE DEF p
  <2> QED
    BY <1>1, <2>1, <2>2 DEF RfInv, RecordingOk
<1> QED
  BY <1>2, <1>3 DEF recordPulse

LEMMA EdgeOk ==
  ASSUME RfInv, edge
  PROVE  RfInv'
<1>1. /\ air.code \in Codes /\ air'.code = air.code
      /\ air' \in [code : Codes \cup {Silence}, pos : Nat, paused : BOOLEAN]
      /\ air.code # Silence /\ task' = task
      /\ ~air'.paused => ~air.paused \/ ~tx.deaf
  <2> DEFINE n == IF air.pos < FrameLength[air.code] THEN air.pos + 1 ELSE 0
             b == air.paused /\ tx.deaf
  <2>1. /\ n \in Nat /\ b \in BOOLEAN /\ (~b => ~air.paused \/ ~tx.deaf)
        /\ air' = [air EXCEPT !.pos = n, !.paused = b]
    BY DEF edge, RfInv, RfTypes
  <2> HIDE DEF n, b
  <2> QED
    BY <2>1 DEF edge, RfInv, RfTypes
<1>2. ASSUME rec' \in [pause : Codes \cup {Silence, Short}, pulses : Seq(Codes)],
             rec'.pulses = << >>,
             pending' \in Seq(Codes),
             pending' # << >> => OneCode(pending'),
             pending # << >> => pending' = pending
      PROVE  RfInv'
  <2>1. RecordingOk'
    BY <1>2 DEF RecordingOk
  <2>2. PendingOk'
    BY <1>1, <1>2 DEF RfInv, RfTypes, PendingOk
  <2> QED
    BY <1>1, <1>2, <2>1, <2>2 DEF RfInv, RfTypes
<1>3. CASE tx.deaf /\ UNCHANGED <<rec, pending>>
  BY <1>1, <1>3 DEF RfInv, RfTypes, RecordingOk, PendingOk
<1>4. CASE \E length \in Codes \cup {Silence} : recordPause(length)
  BY <1>2, <1>4, RecordPauseOk
<1>5. CASE ~air.paused /\ recordPulse(air.code)
  <2>1. /\ rec' \in [pause : Codes \cup {Silence, Short}, pulses : Seq(Codes)]
        /\ \A i \in 1 .. Len(rec'.pulses) : rec'.pulses[i] = air.code
        /\ pending' = pending
    BY <1>1, <1>5, RecordPulseOk DEF recordPulse
  <2>2. RecordingOk'
    BY <1>1, <2>1 DEF RecordingOk, OneCode
  <2> QED
    BY <1>1, <2>1, <2>2 DEF RfInv, RfTypes, PendingOk
<1>6. air.code \in Codes \cup {Silence}
  BY <1>1
<1> QED
  BY <1>3, <1>4, <1>5, <1>6 DEF edge

LEMMA ReceivePulseOk ==
  ASSUME RfInv, receivePulse
  PROVE  RfInv'
<1>1. /\ task.at = "decode" /\ task.i \in Nat /\ task.i < Len(pending) /\ Len(pending) \in Nat
      /\ task' = [task EXCEPT !.i = @ + 1, !.seen = @ \cup {pending[task.i + 1]}]
      /\ UNCHANGED <<air, rec, pending>>
  BY DEF receivePulse, RfInv, RfTypes
<1>2. task.i + 1 \in 1 .. Len(pending) /\ pending[task.i + 1] \in Codes
  BY <1>1 DEF RfInv, RfTypes
<1>3. RfTypes'
  <2> DEFINE seen == task.seen \cup {pending[task.i + 1]}
  <2>1. seen \in SUBSET Codes /\ task.i + 1 \in Nat
    BY <1>1, <1>2 DEF RfInv, RfTypes
  <2>2. task' = [task EXCEPT !.i = task.i + 1, !.seen = seen]
    BY <1>1
  <2> HIDE DEF seen
  <2>3. task' \in [at : {"available", "decode", "report", "transmit", "sending"}, i : Nat,
                  seen : SUBSET Codes, value : [codes : SUBSET Codes, bits : Nat]]
    BY <2>1, <2>2 DEF RfInv, RfTypes
  <2> QED
    BY <1>1, <2>3 DEF RfInv, RfTypes
<1>4. /\ task'.at = "decode" /\ task'.seen = task.seen \cup {pending[task.i + 1]}
      /\ task'.value = task.value
  BY <1>1 DEF RfInv, RfTypes
<1>5. PendingOk'
  BY <1>1, <1>2, <1>4 DEF RfInv, PendingOk
<1> QED
  BY <1>1, <1>3, <1>4, <1>5 DEF RfInv, RecordingOk

LEMMA DecodeRecordedOk ==
  ASSUME RfInv, decodeRecorded
  PROVE  RfInv'
<1>1. /\ task'.seen = {} /\ task'.at # "decode" /\ pending' = << >>
      /\ task'.value.codes = {} \/ task'.value.codes = task.seen
      /\ UNCHANGED <<air, rec>>
  BY DEF decodeRecorded, NoData
<1>2. RfTypes'
  BY <1>1 DEF decodeRecorded, NoData, RfInv, RfTypes
<1>3. AtMostOne(task'.value.codes)
  BY <1>1, SeenIsOne DEF AtMostOne
<1> QED
  BY <1>1, <1>2, <1>3 DEF RfInv, RecordingOk, PendingOk

LEMMA RfStep ==
  ASSUME RfInv, [RfNext]_rfVars
  PROVE  RfInv'
<1>1. CASE edge
  BY <1>1, EdgeOk
<1>2. CASE startDecoding
  BY <1>2 DEF startDecoding, RfInv, RfTypes, RecordingOk, PendingOk
<1>3. CASE receivePulse
  BY <1>3, ReceivePulseOk
<1>4. CASE decodeRecorded
  BY <1>4, DecodeRecordedOk
<1>5. ASSUME NEW sent \in BOOLEAN, report(sent)
      PROVE  RfInv'
  <2>1. /\ task.at = "report" /\ task' = [task EXCEPT !.at = "transmit", !.value = NoData]
        /\ UNCHANGED <<air, rec, pending>>
    BY <1>5 DEF report
  <2>2. RfTypes'
    BY <2>1 DEF RfInv, RfTypes, NoData
  <2>3. task'.value.codes = {} /\ task'.seen = task.seen /\ task'.at = "transmit"
    BY <2>1 DEF RfInv, RfTypes, NoData
  <2> QED
    BY <2>1, <2>2, <2>3 DEF RfInv, RecordingOk, PendingOk, AtMostOne
<1>6. CASE transmitCommand
  <2>1. /\ task.at = "transmit" /\ UNCHANGED <<air, rec, pending>>
        /\ \E at \in {"available", "sending"} : task' = [task EXCEPT !.at = at]
    BY <1>6 DEF transmitCommand
  <2> QED
    BY <2>1 DEF RfInv, RfTypes, RecordingOk, PendingOk
<1>7. CASE sendEnds
  <2>1. /\ task.at = "sending" /\ task' = [task EXCEPT !.at = "available"]
        /\ air' = [air EXCEPT !.paused = TRUE] /\ UNCHANGED <<rec, pending>>
    BY <1>7 DEF sendEnds, resumeReceive
  <2> QED
    BY <2>1 DEF RfInv, RfTypes, RecordingOk, PendingOk
<1>8. CASE press
  <2>1. PICK code \in Codes : air' = [code |-> code, pos |-> 1, paused |-> TRUE]
    BY <1>8 DEF press
  <2> QED
    BY <1>8, <2>1 DEF press, RfInv, RfTypes, RecordingOk, PendingOk
<1>9. CASE letGo
  BY <1>9 DEF letGo, RfInv, RfTypes, RecordingOk, PendingOk
<1>10. CASE UNCHANGED <<air, rec, pending, task>>
  BY <1>10 DEF RfInv, RfTypes, RecordingOk, PendingOk
<1> QED
  BY <1>1, <1>2, <1>3, <1>4, <1>5, <1>6, <1>7, <1>8, <1>9, <1>10
     DEF RfNext, rfPass, commandArrives, rfTick, rfVars

\* The decoder never mixes two remotes, for any codes, frame lengths, size of
\* the recording and commands in between: the interrupt hands a recording over
\* only where none waits, and begins a new one at every pause (RCSwitch).
THEOREM DecodedAlwaysWhole == RfSpec => []DecodedWhole
<1>1. RfInit => RfInv
  <2> SUFFICES ASSUME RfInit
               PROVE  RfInv
    OBVIOUS
  <2>1. RfTypes
    <3>1. << >> \in Seq(Codes) /\ {} \in SUBSET Codes
      OBVIOUS
    <3>2. /\ air \in [code : Codes \cup {Silence}, pos : Nat, paused : BOOLEAN]
          /\ rec \in [pause : Codes \cup {Silence, Short}, pulses : Seq(Codes)]
      BY <3>1 DEF RfInit
    <3>3. task \in [at : {"available", "decode", "report", "transmit", "sending"}, i : Nat,
                   seen : SUBSET Codes, value : [codes : SUBSET Codes, bits : Nat]]
      BY <3>1 DEF RfInit, NoData
    <3> QED
      BY <3>1, <3>2, <3>3 DEF RfInit, RfTypes
  <2>2. RecordingOk /\ PendingOk
    BY DEF RfInit, RecordingOk, PendingOk
  <2> QED
    BY <2>1, <2>2 DEF RfInit, RfInv, AtMostOne, NoData
<1>2. RfInv /\ [RfNext]_rfVars => RfInv'
  BY RfStep
<1>3. RfInv => DecodedWhole
  BY SeenIsOne, AtMostOneCardinality DEF RfInv, DecodedWhole
<1> QED
  BY <1>1, <1>2, <1>3, PTL DEF RfSpec
-----------------------------------------------------------------------------
(* Thermometer                                                             *)

ThermStates == {"Off", "Idle", "Converting", "Reading", "Waiting"}

ThermoTypes ==
  /\ therm \in [addresses : Seq(Probes), state : ThermStates, readIndex : Nat, age : Nat]
  /\ \A i, j \in 1 .. Len(therm.addresses) : i # j => therm.addresses[i] # therm.addresses[j]
  /\ plugged \subseteq Probes
  /\ scratch \in [Probes -> {"old", "converting", "new"}]
  /\ cycle \in [stayed : SUBSET Probes, published : [Probes -> Nat], stale : BOOLEAN,
                unplugs : Nat, reboots : Nat]

\* From the request to the first reading nothing has been published, and the
\* probes still there convert; once the wait is over all of them are done.
ConvertingOk ==
  therm.state = "Converting" =>
    /\ \A p \in Probes : cycle.published[p] = 0
    /\ \A p \in cycle.stayed : scratch[p] # "old"
    /\ conversionOver => \A p \in cycle.stayed : scratch[p] = "new"

\* While reading, those before readIndex were published once if they are still
\* there, those from it on not at all.
ReadingOk ==
  therm.state = "Reading" =>
    /\ therm.readIndex < count
    /\ \A p \in cycle.stayed : scratch[p] = "new"
    /\ \A i \in 1 .. count :
         IF i > therm.readIndex THEN cycle.published[therm.addresses[i]] = 0
         ELSE therm.addresses[i] \in cycle.stayed => cycle.published[therm.addresses[i]] = 1

ThermoInv == ThermoTypes /\ ConvertingOk /\ ReadingOk /\ CycleComplete

LEMMA ProbesFinite == IsFiniteSet(Probes)
<1>1. BusOrder \in Seq(Probes) /\ Len(BusOrder) \in Nat /\ DOMAIN BusOrder = 1 .. Len(BusOrder)
  BY ThermoAssumption
<1>2. BusOrder \in Surjection(1 .. Len(BusOrder), Probes)
  BY <1>1 DEF Surjection, Probes
<1>3. IsFiniteSet(1 .. Len(BusOrder))
  BY <1>1, FS_Interval
<1> QED
  BY <1>2, <1>3, FS_Surjection

\* What begin() caches is a sequence of different probes.
LEMMA ReaderBeginFacts ==
  ASSUME NEW answering \in SUBSET Probes, NEW s \in readerBegin(answering)
  PROVE  /\ s \in Seq(Probes)
         /\ \A i, j \in 1 .. Len(s) : i # j => s[i] # s[j]
<1>1. Cardinality(answering) \in Nat
  BY ProbesFinite, FS_Subset, FS_CardinalityType
<1>2. s \in [1 .. Cardinality(answering) -> answering]
  BY DEF readerBegin
<1>3. s \in Seq(Probes) /\ Len(s) = Cardinality(answering)
  BY <1>1, <1>2
<1>4. \A p \in Probes : ~Before(p, p)
  BY ThermoAssumption DEF Before
<1>5. \A i, j \in 1 .. Len(s) : i < j => s[i] # s[j]
  BY <1>2, <1>3, <1>4 DEF readerBegin
<1>6. ASSUME NEW i \in 1 .. Len(s), NEW j \in 1 .. Len(s), i # j
      PROVE  s[i] # s[j]
  <2>1. i < j \/ j < i
    BY <1>1, <1>3, <1>6
  <2> QED
    BY <1>5, <2>1
<1> QED
  BY <1>3, <1>6

LEMMA ThermoInitOk ==
  ASSUME ThermoInit
  PROVE  ThermoInv
<1>1. ThermoTypes
  <2>1. therm \in [addresses : Seq(Probes), state : ThermStates, readIndex : Nat, age : Nat]
        /\ Len(therm.addresses) = 0
    BY DEF ThermoInit, Off, ThermStates
  <2>2. [p \in Probes |-> 0] \in [Probes -> Nat]
    OBVIOUS
  <2>3. cycle \in [stayed : SUBSET Probes, published : [Probes -> Nat], stale : BOOLEAN,
                   unplugs : Nat, reboots : Nat]
    BY <2>2 DEF ThermoInit
  <2> QED
    BY <2>1, <2>3 DEF ThermoInit, ThermoTypes
<1> QED
  BY <1>1 DEF ThermoInit, Off, ThermoInv, ConvertingOk, ReadingOk, CycleComplete

LEMMA StartOk ==
  ASSUME ThermoInv, thermoInit
  PROVE  ThermoInv'
<1>1. PICK answering \in SUBSET Asked : \E addresses \in readerBegin(answering) :
        therm' = [Off EXCEPT !.addresses = addresses, !.state = "Idle"]
  BY DEF thermoInit
<1>2. PICK addresses \in readerBegin(answering) :
        therm' = [Off EXCEPT !.addresses = addresses, !.state = "Idle"]
  BY <1>1
<1>3. answering \in SUBSET Probes
  BY DEF Asked, ThermoInv, ThermoTypes
<1>4. /\ addresses \in Seq(Probes)
      /\ \A i, j \in 1 .. Len(addresses) : i # j => addresses[i] # addresses[j]
  BY <1>3, ReaderBeginFacts
<1>5. /\ therm' \in [addresses : Seq(Probes), state : ThermStates, readIndex : Nat, age : Nat]
      /\ therm'.addresses = addresses /\ therm'.state = "Idle"
  BY <1>2, <1>4 DEF Off, ThermStates
<1> QED
  BY <1>4, <1>5
     DEF thermoInit, ThermoInv, ThermoTypes, ConvertingOk, ReadingOk, CycleComplete

LEMMA NewCycleFacts ==
  ASSUME ThermoInv
  PROVE  /\ NewCycle(cycle) \in [stayed : SUBSET Probes, published : [Probes -> Nat],
                                 stale : BOOLEAN, unplugs : Nat, reboots : Nat]
         /\ NewCycle(cycle).stayed = plugged /\ ~NewCycle(cycle).stale
         /\ \A p \in Probes : NewCycle(cycle).published[p] = 0
<1> DEFINE none == [p \in Probes |-> 0]
<1>1. none \in [Probes -> Nat] /\ plugged \in SUBSET Probes /\ \A p \in Probes : none[p] = 0
  BY DEF ThermoInv, ThermoTypes
<1>2. NewCycle(cycle) = [cycle EXCEPT !.stayed = plugged, !.published = none, !.stale = FALSE]
  BY DEF NewCycle
<1> HIDE DEF none
<1> QED
  BY <1>1, <1>2 DEF ThermoInv, ThermoTypes

LEMMA RunIdleOk ==
  ASSUME ThermoInv, runIdle, UNCHANGED plugged
  PROVE  ThermoInv'
<1>1. /\ therm' = [therm EXCEPT !.age = 0, !.state = "Converting"]
      /\ cycle' = NewCycle(cycle)
      /\ scratch' = [p \in Probes |-> IF p \in plugged THEN "converting" ELSE scratch[p]]
  BY DEF runIdle, requestConversion
<1>2. /\ therm' \in [addresses : Seq(Probes), state : ThermStates, readIndex : Nat, age : Nat]
      /\ therm'.addresses = therm.addresses /\ therm'.state = "Converting" /\ therm'.age = 0
  BY <1>1 DEF ThermoInv, ThermoTypes, ThermStates
<1>3. scratch' \in [Probes -> {"old", "converting", "new"}]
      /\ \A p \in plugged : scratch'[p] = "converting"
  BY <1>1 DEF ThermoInv, ThermoTypes
<1>4. ThermoTypes'
  BY <1>1, <1>2, <1>3, NewCycleFacts DEF ThermoInv, ThermoTypes
<1>5. ConvertingOk'
  BY <1>1, <1>2, <1>3, NewCycleFacts, ThermoAssumption DEF ConvertingOk, conversionOver
<1> QED
  BY <1>1, <1>2, <1>4, <1>5, NewCycleFacts DEF ThermoInv, ReadingOk, CycleComplete

LEMMA RunConvertingOk ==
  ASSUME ThermoInv, runConverting, UNCHANGED plugged, count > 0
  PROVE  ThermoInv'
<1>1. CASE therm' = therm
  BY <1>1 DEF runConverting, ThermoInv, ThermoTypes, ConvertingOk, ReadingOk, CycleComplete,
              conversionOver, count
<1>2. CASE conversionOver /\ therm' = [therm EXCEPT !.readIndex = 0, !.state = "Reading"]
  <2>1. /\ therm' \in [addresses : Seq(Probes), state : ThermStates, readIndex : Nat, age : Nat]
        /\ therm'.addresses = therm.addresses /\ therm'.state = "Reading" /\ therm'.readIndex = 0
    BY <1>2 DEF ThermoInv, ThermoTypes, ThermStates
  <2>2. UNCHANGED <<scratch, cycle>> /\ therm.state = "Converting"
    BY DEF runConverting
  <2>3. ThermoTypes'
    BY <2>1, <2>2 DEF ThermoInv, ThermoTypes
  <2>4. ASSUME NEW i \in 1 .. count
        PROVE  i > 0 /\ therm.addresses[i] \in Probes
    BY DEF ThermoInv, ThermoTypes, count
  <2>5. ReadingOk'
    BY <1>2, <2>1, <2>2, <2>4 DEF ThermoInv, ConvertingOk, ReadingOk, count
  <2> QED
    BY <2>1, <2>2, <2>3, <2>5 DEF ThermoInv, ConvertingOk, CycleComplete
<1> QED
  BY <1>1, <1>2 DEF runConverting
\* The probe whose turn it is is published or leaves the cycle; the addresses
\* differ, so no other one is touched.
LEMMA RunReadingOk ==
  ASSUME ThermoInv, runReading, UNCHANGED plugged
  PROVE  ThermoInv'
<1> DEFINE k == therm.readIndex + 1
           p == therm.addresses[k]
<1>1. /\ therm.state = "Reading" /\ therm.readIndex \in Nat /\ count \in Nat
      /\ therm.readIndex < count /\ count = Len(therm.addresses)
  BY DEF runReading, ThermoInv, ThermoTypes, ReadingOk, count
<1>2. k \in 1 .. count /\ p \in Probes
  BY <1>1 DEF ThermoInv, ThermoTypes
<1>3. /\ therm' \in [addresses : Seq(Probes), state : ThermStates, readIndex : Nat, age : Nat]
      /\ therm'.addresses = therm.addresses /\ therm'.readIndex = k
      /\ therm'.state = IF k >= count THEN "Waiting" ELSE "Reading"
  <2> DEFINE a == IF therm.readIndex + 1 >= count THEN 0 ELSE therm.age
             st == IF therm.readIndex + 1 >= count THEN "Waiting" ELSE "Reading"
  <2>1. a \in Nat /\ st \in ThermStates /\ k \in Nat
    BY <1>1 DEF ThermoInv, ThermoTypes, ThermStates
  <2>2. therm' = [therm EXCEPT !.readIndex = k, !.age = a, !.state = st]
    BY DEF runReading
  <2> HIDE DEF k, a, st
  <2>3. /\ therm' \in [addresses : Seq(Probes), state : ThermStates, readIndex : Nat, age : Nat]
        /\ therm'.addresses = therm.addresses /\ therm'.readIndex = k /\ therm'.state = st
    BY <2>1, <2>2 DEF ThermoInv, ThermoTypes
  <2> QED
    BY <2>3 DEF st, k
<1>4. /\ cycle' \in [stayed : SUBSET Probes, published : [Probes -> Nat], stale : BOOLEAN,
                     unplugs : Nat, reboots : Nat]
      /\ ~cycle'.stale /\ cycle'.stayed \subseteq cycle.stayed
      /\ \A q \in Probes \ {p} : cycle'.published[q] = cycle.published[q]
      /\ p \in cycle'.stayed => cycle'.published[p] = 1
  <2>1. cycle.published[p] = 0
    BY <1>1, <1>2 DEF ThermoInv, ReadingOk
  <2>2. PICK answers \in BOOLEAN : readAndPublishOne(p, answers)
    BY DEF runReading
  <2>3. ~cycle.stale /\ (p \in cycle.stayed => scratch[p] = "new")
    BY <1>1 DEF ThermoInv, ReadingOk, CycleComplete
  <2> HIDE DEF p
  <2>4. CASE ~answers
    <3>1. cycle' = [cycle EXCEPT !.stayed = cycle.stayed \ {p}]
      BY <2>2, <2>4 DEF readAndPublishOne
    <3>2. cycle.stayed \ {p} \in SUBSET Probes
      BY DEF ThermoInv, ThermoTypes
    <3> QED
      BY <2>3, <3>1, <3>2 DEF ThermoInv, ThermoTypes
  <2>5. CASE answers
    <3> DEFINE b == cycle.stale \/ (p \in cycle.stayed /\ scratch[p] # "new")
               pub == [cycle.published EXCEPT ![p] = @ + 1]
    <3>1. cycle' = [cycle EXCEPT !.published = pub, !.stale = b]
      BY <2>2, <2>5 DEF readAndPublishOne
    <3>2. b = FALSE
      BY <2>3
    <3>3. /\ pub \in [Probes -> Nat] /\ pub[p] = 1
          /\ \A q \in Probes \ {p} : pub[q] = cycle.published[q]
      BY <1>2, <2>1 DEF ThermoInv, ThermoTypes
    <3> HIDE DEF b, pub
    <3> QED
      BY <3>1, <3>2, <3>3 DEF ThermoInv, ThermoTypes
  <2> QED
    BY <2>4, <2>5
<1>5. ThermoTypes'
  BY <1>3, <1>4 DEF ThermoInv, ThermoTypes, runReading
<1>6. \A i \in 1 .. count :
        IF i > k THEN cycle'.published[therm.addresses[i]] = 0
        ELSE therm.addresses[i] \in cycle'.stayed => cycle'.published[therm.addresses[i]] = 1
  <2> TAKE i \in 1 .. count
  <2>1. /\ therm.addresses[i] \in Probes /\ i \in Nat
        /\ IF i > therm.readIndex THEN cycle.published[therm.addresses[i]] = 0
           ELSE therm.addresses[i] \in cycle.stayed => cycle.published[therm.addresses[i]] = 1
    BY <1>1 DEF ThermoInv, ThermoTypes, ReadingOk
  <2>2. CASE i = k
    BY <1>1, <1>4, <2>2
  <2>3. CASE i # k
    <3>1. therm.addresses[i] # p
      BY <1>1, <1>2, <2>3 DEF ThermoInv, ThermoTypes
    <3>2. cycle'.published[therm.addresses[i]] = cycle.published[therm.addresses[i]]
      BY <1>4, <2>1, <3>1
    <3>3. i > k <=> i > therm.readIndex
      BY <1>1, <2>1, <2>3
    <3> HIDE DEF k, p
    <3> QED
      BY <1>4, <2>1, <3>2, <3>3
  <2> QED
    BY <2>2, <2>3
<1>7. scratch' = scratch
  BY DEF runReading
<1> HIDE DEF k, p
<1>8. CASE k >= count
  <2>1. CycleComplete'
    <3>1. \A i \in 1 .. count : ~(i > k)
      BY <1>1, <1>2, <1>8
    <3>2. DOMAIN therm'.addresses = 1 .. count
      BY <1>1, <1>3 DEF ThermoInv, ThermoTypes
    <3> QED
      BY <1>3, <1>4, <1>6, <3>1, <3>2 DEF CycleComplete
  <2> QED
    BY <1>3, <1>5, <1>8, <2>1 DEF ThermoInv, ConvertingOk, ReadingOk
<1>9. CASE ~(k >= count)
  <2>1. ReadingOk'
    BY <1>1, <1>2, <1>3, <1>4, <1>6, <1>7, <1>9 DEF ThermoInv, ReadingOk, count
  <2> QED
    BY <1>3, <1>4, <1>5, <1>9, <2>1 DEF ThermoInv, ConvertingOk, CycleComplete
<1> QED
  BY <1>8, <1>9

LEMMA RunWaitingOk ==
  ASSUME ThermoInv, runWaiting, UNCHANGED plugged
  PROVE  ThermoInv'
<1>1. CASE therm' = therm
  BY <1>1 DEF runWaiting, ThermoInv, ThermoTypes, ConvertingOk, ReadingOk, CycleComplete,
              conversionOver, count
<1>2. CASE therm' = [therm EXCEPT !.state = "Idle"]
  <2>1. /\ therm' \in [addresses : Seq(Probes), state : ThermStates, readIndex : Nat, age : Nat]
        /\ therm'.addresses = therm.addresses /\ therm'.state = "Idle"
    BY <1>2 DEF ThermoInv, ThermoTypes, ThermStates
  <2> QED
    BY <2>1 DEF runWaiting, ThermoInv, ThermoTypes, ConvertingOk, ReadingOk, CycleComplete
<1> QED
  BY <1>1, <1>2 DEF runWaiting

LEMMA UnplugOk ==
  ASSUME ThermoInv, NEW p \in Probes, unplug(p)
  PROVE  ThermoInv'
<1> DEFINE rest == cycle.stayed \ {p}
<1>1. /\ rest \in SUBSET Probes /\ rest \subseteq cycle.stayed /\ p \notin rest
  BY DEF ThermoInv, ThermoTypes
<1>2. /\ cycle' = [cycle EXCEPT !.stayed = rest, !.unplugs = cycle.unplugs + 1]
      /\ scratch' = [scratch EXCEPT ![p] = "old"] /\ plugged' = plugged \ {p} /\ therm' = therm
  BY DEF unplug
<1> HIDE DEF rest
<1>3. /\ cycle' \in [stayed : SUBSET Probes, published : [Probes -> Nat], stale : BOOLEAN,
                     unplugs : Nat, reboots : Nat]
      /\ cycle'.stayed = rest /\ cycle'.published = cycle.published /\ cycle'.stale = cycle.stale
  <2> DEFINE n == cycle.unplugs + 1
  <2>1. n \in Nat /\ cycle' = [cycle EXCEPT !.stayed = rest, !.unplugs = n]
    BY <1>2 DEF ThermoInv, ThermoTypes
  <2> HIDE DEF n
  <2> QED
    BY <1>1, <2>1 DEF ThermoInv, ThermoTypes
<1>4. /\ scratch' \in [Probes -> {"old", "converting", "new"}]
      /\ \A q \in rest : scratch'[q] = scratch[q]
  BY <1>1, <1>2 DEF ThermoInv, ThermoTypes
<1>5. ThermoTypes'
  BY <1>2, <1>3, <1>4 DEF ThermoInv, ThermoTypes
<1>6. ConvertingOk'
  BY <1>1, <1>2, <1>3, <1>4 DEF ThermoInv, ConvertingOk, conversionOver
<1>7. ReadingOk'
  BY <1>1, <1>2, <1>3, <1>4 DEF ThermoInv, ReadingOk, count
<1>8. CycleComplete'
  BY <1>1, <1>2, <1>3 DEF ThermoInv, CycleComplete
<1> QED
  BY <1>5, <1>6, <1>7, <1>8 DEF ThermoInv

LEMMA ThermoStep ==
  ASSUME ThermoInv, [ThermoNext]_thermoVars
  PROVE  ThermoInv'
<1>1. CASE thermoRun
  BY <1>1, RunIdleOk, RunConvertingOk, RunReadingOk, RunWaitingOk DEF thermoRun
<1>2. CASE reboot
  <2> DEFINE c == NewCycle(cycle)
  <2>1. cycle' = [c EXCEPT !.reboots = @ + 1] /\ therm' = Off /\ UNCHANGED <<plugged, scratch>>
    BY <1>2 DEF reboot
  <2> HIDE DEF c
  <2>2. /\ cycle' \in [stayed : SUBSET Probes, published : [Probes -> Nat], stale : BOOLEAN,
                       unplugs : Nat, reboots : Nat]
        /\ ~cycle'.stale
    <3>1. c \in [stayed : SUBSET Probes, published : [Probes -> Nat], stale : BOOLEAN,
                 unplugs : Nat, reboots : Nat] /\ ~c.stale
      BY NewCycleFacts DEF c
    <3> QED
      BY <2>1, <3>1
  <2>3. /\ therm' \in [addresses : Seq(Probes), state : ThermStates, readIndex : Nat, age : Nat]
        /\ therm'.state = "Off" /\ Len(therm'.addresses) = 0
    BY <2>1 DEF Off, ThermStates
  <2> QED
    <3>1. \A i, j \in 1 .. Len(therm'.addresses) : i # j => therm'.addresses[i] # therm'.addresses[j]
      BY <2>3
    <3>2. ThermoTypes'
      BY <2>1, <2>2, <2>3, <3>1 DEF ThermoInv, ThermoTypes
    <3> QED
      BY <2>2, <2>3, <3>2 DEF ThermoInv, ConvertingOk, ReadingOk, CycleComplete
<1>3. CASE thermoTick
  <2>1. therm' = [therm EXCEPT !.age = therm.age + 1] /\ UNCHANGED <<plugged, scratch, cycle>>
    BY <1>3 DEF thermoTick
  <2>2. /\ therm' \in [addresses : Seq(Probes), state : ThermStates, readIndex : Nat, age : Nat]
        /\ therm'.addresses = therm.addresses /\ therm'.state = therm.state
        /\ therm'.readIndex = therm.readIndex /\ therm'.age = therm.age + 1 /\ therm.age \in Nat
    <3> DEFINE T == [addresses : Seq(Probes), state : ThermStates, readIndex : Nat, age : Nat]
    <3>1. therm \in T
      BY DEF ThermoInv, ThermoTypes
    <3>2. \A t \in T, n \in Nat :
            /\ [t EXCEPT !.age = n] \in T /\ [t EXCEPT !.age = n].age = n
            /\ [t EXCEPT !.age = n].addresses = t.addresses /\ [t EXCEPT !.age = n].state = t.state
            /\ [t EXCEPT !.age = n].readIndex = t.readIndex
      OBVIOUS
    <3>3. therm.age \in Nat
      BY <3>1
    <3>4. therm.age + 1 \in Nat
      BY <3>3
    <3> HIDE DEF T
    <3>5. therm' \in T /\ therm'.age = therm.age + 1 /\ therm'.addresses = therm.addresses
          /\ therm'.state = therm.state /\ therm'.readIndex = therm.readIndex
      BY <2>1, <3>1, <3>2, <3>4
    <3> QED
      BY <3>3, <3>5 DEF T
  <2>3. ThermoTypes'
    BY <2>1, <2>2 DEF ThermoInv, ThermoTypes
  <2>4. ConvertingOk'
    <3>1. SUFFICES ASSUME therm.state = "Converting", therm.age + 1 > conversionDelayMs,
                          NEW p \in cycle.stayed
                   PROVE  scratch[p] = "new"
      BY <2>1, <2>2 DEF ThermoInv, ConvertingOk, conversionOver
    <3>2. therm.age >= conversionDelayMs
      BY <2>2, <3>1, ThermoAssumption
    <3>3. p \in Probes /\ scratch[p] # "old" /\ scratch[p] \in {"old", "converting", "new"}
      BY <3>1 DEF ThermoInv, ThermoTypes, ConvertingOk
    <3> QED
      BY <1>3, <3>1, <3>2, <3>3 DEF thermoTick
  <2> QED
    BY <2>1, <2>2, <2>3, <2>4 DEF ThermoInv, ReadingOk, CycleComplete, count
<1>4. ASSUME NEW p \in Probes, converts(p)
      PROVE  ThermoInv'
  <2>1. /\ scratch' \in [Probes -> {"old", "converting", "new"}] /\ UNCHANGED <<therm, plugged, cycle>>
        /\ \A q \in Probes : scratch'[q] = scratch[q] \/ scratch'[q] = "new"
    BY <1>4 DEF converts, ThermoInv, ThermoTypes
  <2>2. cycle.stayed \subseteq Probes
    BY DEF ThermoInv, ThermoTypes
  <2> QED
    BY <2>1, <2>2 DEF ThermoInv, ThermoTypes, ConvertingOk, ReadingOk, CycleComplete,
                      conversionOver, count
<1>5. ASSUME NEW p \in Probes, plugIn(p)
      PROVE  ThermoInv'
  BY <1>5 DEF plugIn, ThermoInv, ThermoTypes, ConvertingOk, ReadingOk, CycleComplete,
              conversionOver, count
<1>6. CASE UNCHANGED thermoVars
  BY <1>6 DEF thermoVars, ThermoInv, ThermoTypes, ConvertingOk, ReadingOk, CycleComplete,
              conversionOver, count
<1> QED
  BY <1>1, <1>2, <1>3, <1>4, <1>5, <1>6, StartOk, UnplugOk DEF ThermoNext

\* Every cycle publishes each probe that was found and stayed exactly once and
\* never an old reading, for any number of probes and any cap, whichever of them
\* answer, come and go, and any conversion and measuring times
\* (Ds18b20Reader::begin, MqttThermometer::run).
THEOREM CycleAlwaysComplete == ThermoSpec => []CycleComplete
<1>1. ThermoInit => ThermoInv
  BY ThermoInitOk
<1>2. ThermoInv /\ [ThermoNext]_thermoVars => ThermoInv'
  BY ThermoStep
<1>3. ThermoInv => CycleComplete
  BY DEF ThermoInv
<1> QED
  BY <1>1, <1>2, <1>3, PTL DEF ThermoSpec

-----------------------------------------------------------------------------
(* PubSubClient: the reader, and the ping                                  *)

ClientStates == {"DISCONNECTED", "CONNECTED", "CONNECTION_LOST", "CONNECTION_TIMEOUT", "PROTOCOL_ERROR",
                 "PACKET_TOO_LARGE", "CONNECT_REFUSED", "CONNECT_FAILED"}

Client == [state : ClientStates, sock : BOOLEAN, inbound : Seq(Packets), rx : {"Idle", "Header", "Payload"},
           rxAge : Nat, buf : {"in", "out"}, outstanding : BOOLEAN, unsent : BOOLEAN, dueAge : Nat,
           tryAge : Nat, inAge : Nat, outAge : Nat, awaits : BOOLEAN, heardAge : Nat, sessionAge : Nat,
           acksMatch : BOOLEAN]

\* The reader of an open session keeps what it has begun.
ReaderOk(s) ==
  /\ s \in Client /\ s.acksMatch
  /\ connected(s) /\ s.rx # "Idle" => s.buf = "in" /\ s.inbound # << >>

RunOf(s) == s.outstanding \/ s.unsent

\* How old an open session's run and silence may be, e ticks after a loop().
\* While a run lasts the silence is no older than the run and the interval that
\* led to it; a ping on the wire ended the silence inside the run; and a run
\* that was answered leaves no more silence behind than it lasted.
PingOk(s, e) ==
  /\ s.heardAge = s.outAge
  /\ connected(s) =>
       /\ s.outAge <= s.sessionAge /\ s.inAge <= s.sessionAge
       /\ RunOf(s) => /\ 1 <= s.dueAge /\ s.dueAge <= pingAnswerBudget - 1 + e
                      /\ s.dueAge + PingInterval <= s.sessionAge
                      /\ s.outAge <= s.dueAge + PingInterval
       /\ s.outstanding /\ ~s.unsent => s.outAge < s.dueAge /\ s.inAge < s.dueAge
       /\ ~RunOf(s) => /\ s.outAge <= PingInterval + e \/ s.outAge <= pingAnswerBudget - 2 + e
                       /\ s.inAge <= PingInterval + e \/ s.inAge <= pingAnswerBudget - 2 + e

LEMMA MqttConstants ==
  /\ KeepAlive \in Nat /\ PingInterval \in Nat /\ PingInterval >= 1 /\ PingInterval <= KeepAlive
  /\ pingAnswerBudget \in Int /\ MaxClock \in Nat
  /\ 5 * (pingAnswerBudget + PingInterval) <= 7 * KeepAlive
  /\ pingAnswerBudget + PingInterval <= MaxClock
BY MqttAssumption DEF pingAnswerBudget, MaxClock

LEMMA PacketKinds ==
  ASSUME NEW p \in Packets
  PROVE  /\ p.kind \in {"publish0", "publish1", "pingresp", "ignored", "forbidden", "malformed", "large"}
         /\ p.id \in Nat
BY DEF Packets

\* The ages and the run of two states are the same.
SamePing(s, t) ==
  /\ t.outstanding = s.outstanding /\ t.unsent = s.unsent /\ t.dueAge = s.dueAge
  /\ t.inAge = s.inAge /\ t.outAge = s.outAge /\ t.heardAge = s.heardAge /\ t.sessionAge = s.sessionAge

LEMMA SamePingOk ==
  ASSUME NEW s, NEW t, NEW e, SamePing(s, t), connected(t) => connected(s), PingOk(s, e)
  PROVE  PingOk(t, e)
BY DEF SamePing, PingOk, RunOf

LEMMA StopFacts ==
  ASSUME NEW s \in Client, NEW state \in ClientStates
  PROVE  LET t == stop(s, state)
         IN  /\ t \in Client /\ ~connected(t) /\ t.sock = FALSE
             /\ t.acksMatch = s.acksMatch /\ t.rx = s.rx /\ t.awaits = s.awaits /\ t.buf = s.buf
             /\ t.state = state /\ t.heardAge = 0 /\ t.outAge = 0
<1> DEFINE t == stop(s, state)
<1>1. t \in Client
  <2>1. \A q \in Seq(Packets), n \in Nat, b \in BOOLEAN :
          [s EXCEPT !.state = state, !.sock = b, !.inbound = q,
                    !.inAge = n, !.outAge = n, !.heardAge = n, !.sessionAge = n] \in Client
    BY ZenonT(60) DEF Client
  <2>2. << >> \in Seq(Packets) /\ 0 \in Nat /\ FALSE \in BOOLEAN
    OBVIOUS
  <2> QED
    BY <2>1, <2>2 DEF stop
<1>2. /\ t.sock = FALSE /\ t.acksMatch = s.acksMatch /\ t.rx = s.rx /\ t.awaits = s.awaits /\ t.buf = s.buf
      /\ t.state = state /\ t.heardAge = 0 /\ t.outAge = 0
  BY DEF stop, Client
<1> QED
  BY <1>1, <1>2 DEF connected

LEMMA StopKeeps ==
  ASSUME NEW s \in Client, s.acksMatch, NEW state \in ClientStates
  PROVE  ReaderOk(stop(s, state)) /\ \A e : PingOk(stop(s, state), e)
BY StopFacts DEF ReaderOk, PingOk

LEMMA ResetFacts ==
  ASSUME NEW s \in Client
  PROVE  LET t == resetReader(s)
         IN  /\ t \in Client /\ SamePing(s, t) /\ connected(t) = connected(s) /\ t.rx = "Idle"
             /\ t.acksMatch = s.acksMatch /\ t.awaits = s.awaits /\ t.sock = s.sock /\ t.state = s.state
             /\ t.inbound = s.inbound /\ t.buf = s.buf
<1>1. resetReader(s) \in Client
  BY DEF resetReader, Client
<1> QED
  BY <1>1 DEF resetReader, Client, SamePing, connected

LEMMA ResetKeeps ==
  ASSUME NEW s \in Client, s.acksMatch
  PROVE  ReaderOk(resetReader(s)) /\ \A e : PingOk(s, e) => PingOk(resetReader(s), e)
BY ResetFacts, SamePingOk DEF ReaderOk

LEMMA NoteLostKeeps ==
  ASSUME NEW s \in Client, ReaderOk(s)
  PROVE  LET t == noteLost(s)
         IN  /\ ReaderOk(t) /\ (connected(t) => t = s) /\ (connected(s) => t = s)
             /\ t.awaits = s.awaits /\ (~connected(t) => t.state # "CONNECTED")
             /\ \A e : PingOk(s, e) => PingOk(t, e)
<1>1. CASE ~s.sock /\ s.state = "CONNECTED"
  <2>1. noteLost(s) = stop(s, "CONNECTION_LOST") /\ "CONNECTION_LOST" \in ClientStates /\ ~connected(s)
    BY <1>1 DEF noteLost, ClientStates, connected
  <2>2. ReaderOk(noteLost(s)) /\ \A e : PingOk(noteLost(s), e)
    BY <2>1, StopKeeps DEF ReaderOk
  <2>3. /\ ~connected(stop(s, "CONNECTION_LOST")) /\ stop(s, "CONNECTION_LOST").awaits = s.awaits
        /\ stop(s, "CONNECTION_LOST").state = "CONNECTION_LOST"
    BY <2>1, StopFacts
  <2> QED
    BY <2>1, <2>2, <2>3
<1>2. CASE ~(~s.sock /\ s.state = "CONNECTED")
  <2>1. noteLost(s) = s
    BY <1>2 DEF noteLost
  <2> QED
    BY <1>2, <2>1 DEF connected
<1> QED
  BY <1>1, <1>2

\* A packet was received by the broker: the silence ends, in the run or out of it.
LEMMA OutputKeeps ==
  ASSUME NEW s \in Client, NEW t \in Client, NEW e \in {0, 1}, PingOk(s, e),
         t.outstanding = s.outstanding, t.unsent = s.unsent, t.dueAge = s.dueAge,
         t.inAge = s.inAge, t.outAge = 0, t.heardAge = 0, t.sessionAge = s.sessionAge,
         connected(t) => connected(s)
  PROVE  PingOk(t, e)
<1>1. /\ s.dueAge \in Nat /\ s.inAge \in Nat /\ s.sessionAge \in Nat
      /\ s.outstanding \in BOOLEAN /\ s.unsent \in BOOLEAN
  BY DEF Client
<1>2. PingInterval \in Nat
  BY MqttConstants
<1> SUFFICES ASSUME connected(t)
             PROVE  /\ t.outAge <= t.sessionAge /\ t.inAge <= t.sessionAge
                    /\ RunOf(t) => /\ 1 <= t.dueAge /\ t.dueAge <= pingAnswerBudget - 1 + e
                                   /\ t.dueAge + PingInterval <= t.sessionAge
                                   /\ t.outAge <= t.dueAge + PingInterval
                    /\ t.outstanding /\ ~t.unsent => t.outAge < t.dueAge /\ t.inAge < t.dueAge
                    /\ ~RunOf(t) => /\ t.outAge <= PingInterval + e \/ t.outAge <= pingAnswerBudget - 2 + e
                                    /\ t.inAge <= PingInterval + e \/ t.inAge <= pingAnswerBudget - 2 + e
  BY DEF PingOk
<1> QED
  BY <1>1, <1>2 DEF PingOk, RunOf

LEMMA WriteFacts ==
  ASSUME NEW s \in Client, NEW taken \in Taken
  PROVE  /\ write(s, taken) \in Client
         /\ write(s, taken).acksMatch = s.acksMatch
         /\ write(s, taken).rx = s.rx
         /\ write(s, taken).awaits = s.awaits
         /\ connected(write(s, taken)) => connected(s)
         /\ \A e \in {0, 1} : PingOk(s, e) => PingOk(write(s, taken), e)
<1> DEFINE built == [s EXCEPT !.buf = "out"]
<1>1. built \in Client
  BY DEF Client
<1>2. /\ built.acksMatch = s.acksMatch /\ built.rx = s.rx /\ built.awaits = s.awaits
      /\ built.sock = s.sock /\ built.state = s.state /\ SamePing(s, built)
  BY DEF Client, SamePing
<1>3. connected(built) = connected(s)
  BY <1>2 DEF connected
<1>4. taken = "all" \/ taken = "none" \/ taken = "part"
  BY DEF Taken
<1>5. s.sock \in BOOLEAN
  BY DEF Client
<1>6. CASE ~s.sock \/ taken = "none"
  <2>1. write(s, taken) = built
    BY <1>6 DEF write
  <2> HIDE DEF built
  <2>2. \A e \in {0, 1} : PingOk(s, e) => PingOk(built, e)
    BY <1>2, <1>3, SamePingOk
  <2> QED
    BY <1>1, <1>2, <1>3, <2>1, <2>2
<1>7. CASE s.sock /\ taken = "all"
  <2> DEFINE t == [built EXCEPT !.outAge = 0, !.heardAge = 0]
  <2>1. write(s, taken) = t
    BY <1>7 DEF write
  <2> HIDE DEF built
  <2>2. t \in Client
    BY <1>1 DEF Client
  <2>3. /\ t.acksMatch = built.acksMatch /\ t.rx = built.rx /\ t.awaits = built.awaits
        /\ t.sock = built.sock /\ t.state = built.state
        /\ t.outstanding = built.outstanding /\ t.unsent = built.unsent /\ t.dueAge = built.dueAge
        /\ t.inAge = built.inAge /\ t.outAge = 0 /\ t.heardAge = 0 /\ t.sessionAge = built.sessionAge
    BY <1>1 DEF Client
  <2> HIDE DEF t
  <2>4. connected(t) => connected(s)
    BY <1>2, <2>3 DEF connected
  <2>5. \A e \in {0, 1} : PingOk(s, e) => PingOk(t, e)
    BY <1>2, <2>2, <2>3, <2>4, OutputKeeps DEF SamePing
  <2> QED
    BY <1>2, <2>1, <2>2, <2>3, <2>4, <2>5
<1>8. CASE s.sock /\ taken = "part"
  <2> DEFINE u == [built EXCEPT !.outAge = 0]
             t == stop(u, "CONNECTION_LOST")
  <2>1. write(s, taken) = t
    BY <1>8 DEF write
  <2> HIDE DEF built
  <2>2. u \in Client /\ u.acksMatch = built.acksMatch /\ u.rx = built.rx /\ u.awaits = built.awaits
    <3>1. u \in Client
      BY <1>1 DEF Client
    <3> QED
      BY <1>1, <3>1 DEF Client
  <2>3. "CONNECTION_LOST" \in ClientStates
    BY DEF ClientStates
  <2> HIDE DEF u
  <2>4. /\ t \in Client /\ ~connected(t) /\ t.acksMatch = u.acksMatch /\ t.rx = u.rx /\ t.awaits = u.awaits
        /\ t.heardAge = 0 /\ t.outAge = 0
    BY <2>2, <2>3, StopFacts
  <2>5. \A e \in {0, 1} : PingOk(t, e)
    BY <2>4 DEF PingOk
  <2> HIDE DEF t
  <2> QED
    BY <1>2, <2>1, <2>2, <2>4, <2>5
<1> QED
  BY <1>4, <1>5, <1>6, <1>7, <1>8

LEMMA WriteKeeps ==
  ASSUME NEW s \in Client, s.acksMatch, s.rx = "Idle", NEW taken \in Taken
  PROVE  ReaderOk(write(s, taken)) /\ write(s, taken).rx = "Idle"
BY WriteFacts DEF ReaderOk

\* What a dispatch may meet, in the terms of the writes it makes.
DispatchType == [reply : Taken \cup {"quiet"}, ack : Taken]

LEMMA DispatchesTyped ==
  ASSUME NEW s, NEW taking, NEW d \in Dispatches(s, taking)
  PROVE  d \in DispatchType
BY DEF Dispatches, DispatchType, Taken

\* The message and its acknowledgement, from a reader that is done with it.
LEMMA DispatchPublishFacts ==
  ASSUME NEW s \in Client, s.acksMatch, s.rx = "Idle", s.buf = "in", NEW p \in Packets, NEW d \in DispatchType
  PROVE  LET t == dispatchPublish(s, p, d)
         IN  /\ t \in Client /\ t.acksMatch /\ t.rx = "Idle" /\ t.awaits = s.awaits
             /\ connected(t) => connected(s)
             /\ \A e \in {0, 1} : PingOk(s, e) => PingOk(t, e)
<1> DEFINE called == IF d.reply # "quiet" /\ connected(s) THEN write(s, d.reply) ELSE s
           answered == write(called, d.ack)
           t == dispatchPublish(s, p, d)
<1>1. d.ack \in Taken /\ (d.reply # "quiet" => d.reply \in Taken)
  BY DEF DispatchType
<1>2. /\ called \in Client /\ called.acksMatch = s.acksMatch /\ called.rx = "Idle" /\ called.awaits = s.awaits
      /\ connected(called) => connected(s)
      /\ \A e \in {0, 1} : PingOk(s, e) => PingOk(called, e)
  <2>1. CASE d.reply # "quiet" /\ connected(s)
    BY <1>1, <2>1, WriteFacts
  <2>2. CASE ~(d.reply # "quiet" /\ connected(s))
    BY <2>2
  <2> QED
    BY <2>1, <2>2
<1>3. t = IF p.kind = "publish0" THEN called
          ELSE [answered EXCEPT !.acksMatch = answered.acksMatch /\ idInBuffer(s, p) = p.id]
  <2>1. answered \in Client
    <3> HIDE DEF called
    <3> QED
      BY <1>1, <1>2, WriteFacts
  <2> QED
    BY <2>1 DEF dispatchPublish, Client
<1>4. idInBuffer(s, p) = p.id
  BY DEF idInBuffer
<1> HIDE DEF called, t
<1>5. /\ answered \in Client /\ answered.acksMatch = called.acksMatch /\ answered.rx = "Idle" /\ answered.awaits = s.awaits
      /\ connected(answered) => connected(called)
      /\ \A e \in {0, 1} : PingOk(called, e) => PingOk(answered, e)
  BY <1>1, <1>2, WriteFacts
<1> HIDE DEF answered
<1>6. CASE p.kind = "publish0"
  BY <1>2, <1>3, <1>6 DEF t
<1>7. CASE p.kind # "publish0"
  <2>1. answered.acksMatch = TRUE
    BY <1>2, <1>5 DEF Client
  <2>2. t = [answered EXCEPT !.acksMatch = TRUE]
    BY <1>3, <1>4, <1>7, <2>1
  <2>3. t = answered
    BY <1>5, <2>1, <2>2 DEF Client
  <2> QED
    BY <1>2, <1>5, <2>1, <2>3 DEF t
<1> QED
  BY <1>6, <1>7

\* An answer ends the run, unless a ping is still to be handed over.
LEMMA AnswerKeeps ==
  ASSUME NEW s \in Client, NEW e \in {0, 1}, PingOk(s, e)
  PROVE  PingOk([s EXCEPT !.outstanding = FALSE], e)
<1> DEFINE t == [s EXCEPT !.outstanding = FALSE]
<1> SUFFICES PingOk(t, e)
  OBVIOUS
<1>1. /\ s.dueAge \in Nat /\ s.inAge \in Nat /\ s.sessionAge \in Nat /\ s.outAge \in Nat
      /\ s.outstanding \in BOOLEAN /\ s.unsent \in BOOLEAN
  BY DEF Client
<1>2. /\ t.outstanding = FALSE /\ t.unsent = s.unsent /\ t.dueAge = s.dueAge /\ t.inAge = s.inAge
      /\ t.outAge = s.outAge /\ t.heardAge = s.heardAge /\ t.sessionAge = s.sessionAge
      /\ t.sock = s.sock /\ t.state = s.state
  BY DEF Client
<1>3. connected(t) = connected(s)
  BY <1>2 DEF connected
<1> HIDE DEF t
<1>4. pingAnswerBudget \in Int /\ PingInterval \in Nat
  BY MqttConstants
<1>5. CASE ~connected(s)
  BY <1>2, <1>3, <1>5 DEF PingOk
<1>6. CASE connected(s) /\ s.unsent
  BY <1>1, <1>2, <1>3, <1>6 DEF PingOk, RunOf
<1>7. CASE connected(s) /\ ~s.unsent /\ s.outstanding
  <2>1. s.outAge <= pingAnswerBudget - 2 + e /\ s.inAge <= pingAnswerBudget - 2 + e
    BY <1>1, <1>4, <1>7 DEF PingOk, RunOf
  <2> QED
    BY <1>1, <1>2, <1>3, <1>7, <2>1 DEF PingOk, RunOf
<1>8. CASE connected(s) /\ ~s.unsent /\ ~s.outstanding
  BY <1>1, <1>2, <1>3, <1>8 DEF PingOk, RunOf
<1> QED
  BY <1>1, <1>5, <1>6, <1>7, <1>8

\* What a step of the reader or of a call leaves behind: a reader at rest.
AtRest(s, t) ==
  /\ ReaderOk(t) /\ t.rx = "Idle" /\ t.awaits = s.awaits
  /\ connected(t) => connected(s)
  /\ \A e \in {0, 1} : PingOk(s, e) => PingOk(t, e)

LEMMA DispatchPacketKeeps ==
  ASSUME NEW s \in Client, s.acksMatch, s.rx = "Idle", s.buf = "in", NEW p \in Packets, NEW d \in DispatchType
  PROVE  AtRest(s, dispatchPacket(s, p, d))
<1>1. CASE p.kind \in {"publish0", "publish1"}
  <2>1. dispatchPacket(s, p, d) = dispatchPublish(s, p, d)
    BY <1>1 DEF dispatchPacket
  <2> QED
    BY <2>1, DispatchPublishFacts DEF AtRest, ReaderOk
<1>2. CASE p.kind = "pingresp"
  <2> DEFINE t == [s EXCEPT !.outstanding = FALSE]
  <2>1. dispatchPacket(s, p, d) = t
    BY <1>2 DEF dispatchPacket
  <2>2. t \in Client
    BY DEF Client
  <2>3. t.acksMatch = s.acksMatch /\ t.rx = s.rx /\ t.awaits = s.awaits /\ t.sock = s.sock /\ t.state = s.state
    BY DEF Client
  <2>4. \A e \in {0, 1} : PingOk(s, e) => PingOk(t, e)
    BY AnswerKeeps
  <2> HIDE DEF t
  <2> QED
    BY <2>1, <2>2, <2>3, <2>4 DEF AtRest, ReaderOk, connected
<1>3. CASE p.kind \notin {"publish0", "publish1", "pingresp", "ignored"}
  <2> DEFINE t == stop(s, "PROTOCOL_ERROR")
  <2>1. dispatchPacket(s, p, d) = t
    BY <1>3 DEF dispatchPacket
  <2>2. "PROTOCOL_ERROR" \in ClientStates
    BY DEF ClientStates
  <2>3. ReaderOk(t) /\ \A e : PingOk(t, e)
    BY <2>2, StopKeeps
  <2>4. ~connected(t) /\ t.rx = s.rx /\ t.awaits = s.awaits
    BY <2>2, StopFacts
  <2> HIDE DEF t
  <2> QED
    BY <2>1, <2>3, <2>4 DEF AtRest
<1>4. CASE p.kind = "ignored"
  <2>1. dispatchPacket(s, p, d) = s
    BY <1>4 DEF dispatchPacket
  <2> QED
    BY <2>1 DEF AtRest, ReaderOk
<1> QED
  BY <1>1, <1>2, <1>3, <1>4

\* A session given up, its reader cleared.
LEMMA GiveUpKeeps ==
  ASSUME NEW s \in Client, s.acksMatch, NEW state \in ClientStates
  PROVE  /\ AtRest(s, resetReader(stop(s, state)))
         /\ resetReader(stop(s, state)).sock = FALSE
<1> DEFINE t == stop(s, state)
<1>1. /\ t \in Client /\ t.acksMatch /\ t.awaits = s.awaits /\ t.sock = FALSE /\ ~connected(t)
      /\ \A e : PingOk(t, e)
  BY StopFacts, StopKeeps
<1> HIDE DEF t
<1>2. /\ ReaderOk(resetReader(t)) /\ \A e : PingOk(resetReader(t), e)
      /\ resetReader(t).rx = "Idle" /\ resetReader(t).awaits = t.awaits
      /\ resetReader(t).sock = t.sock /\ connected(resetReader(t)) = connected(t)
  BY <1>1, ResetFacts, ResetKeeps
<1> QED
  BY <1>1, <1>2 DEF AtRest, t

LEMMA ReadFailureTyped ==
  ASSUME NEW p
  PROVE  readFailureState(p) \in ClientStates
BY DEF readFailureState, ClientStates

LEMMA TakePacketKeeps ==
  ASSUME NEW s \in Client, s.acksMatch, s.inbound # << >>, NEW d \in DispatchType
  PROVE  AtRest(s, takePacket(s, d))
<1> DEFINE p == s.inbound[1]
<1>1. s.inbound \in Seq(Packets) /\ Tail(s.inbound) \in Seq(Packets) /\ p \in Packets
  BY DEF Client
<1> HIDE DEF p
<1>2. CASE p.kind \in ReadFailures
  <2>1. takePacket(s, d) = resetReader(stop(s, readFailureState(p)))
    BY <1>2 DEF takePacket, p
  <2> QED
    BY <2>1, ReadFailureTyped, GiveUpKeeps
<1>3. CASE p.kind \notin ReadFailures
  <2> DEFINE r == resetReader(s)
             u == [r EXCEPT !.inbound = Tail(s.inbound), !.buf = "in"]
  <2>1. /\ r \in Client /\ SamePing(s, r) /\ r.rx = "Idle" /\ r.acksMatch /\ r.awaits = s.awaits
        /\ r.sock = s.sock /\ r.state = s.state /\ r.inbound = s.inbound
    BY ResetFacts
  <2>2. takePacket(s, d) = dispatchPacket(u, p, d)
    BY <1>3, <2>1 DEF takePacket, p, Client
  <2> HIDE DEF r
  <2>3. u \in Client
    BY <1>1, <2>1 DEF Client
  <2>4. /\ SamePing(s, u) /\ u.rx = "Idle" /\ u.acksMatch /\ u.awaits = s.awaits
        /\ u.sock = s.sock /\ u.state = s.state /\ u.buf = "in"
    BY <2>1 DEF Client, SamePing
  <2> HIDE DEF u
  <2>5. AtRest(u, dispatchPacket(u, p, d))
    BY <1>1, <2>3, <2>4, DispatchPacketKeeps
  <2>6. connected(u) = connected(s)
    BY <2>4 DEF connected
  <2>7. \A e \in {0, 1} : PingOk(s, e) => PingOk(u, e)
    BY <2>4, <2>6, SamePingOk
  <2> QED
    BY <2>2, <2>4, <2>5, <2>6, <2>7 DEF AtRest
<1> QED
  BY <1>2, <1>3

LEMMA SettleKeeps ==
  ASSUME NEW s, ReaderOk(s), NEW finished \in BOOLEAN, NEW d \in DispatchType
  PROVE  LET t == settleReader(s, finished, d)
         IN  /\ ReaderOk(t) /\ t.awaits = s.awaits
             /\ connected(t) => connected(s) /\ t.rx = "Idle"
             /\ \A e \in {0, 1} : PingOk(s, e) => PingOk(t, e)
<1>1. s \in Client /\ s.acksMatch
  BY DEF ReaderOk
<1>2. CASE ~connected(s) \/ s.rx = "Idle"
  BY <1>2 DEF settleReader
<1>3. CASE connected(s) /\ s.rx # "Idle" /\ finished
  <2>1. settleReader(s, finished, d) = takePacket(s, d) /\ s.inbound # << >>
    BY <1>3 DEF settleReader, ReaderOk
  <2> QED
    BY <1>1, <2>1, TakePacketKeeps DEF AtRest
<1>4. CASE connected(s) /\ s.rx # "Idle" /\ ~finished
  <2>1. settleReader(s, finished, d) = resetReader(stop(s, "CONNECTION_TIMEOUT"))
    BY <1>4 DEF settleReader
  <2>2. "CONNECTION_TIMEOUT" \in ClientStates
    BY DEF ClientStates
  <2>3. AtRest(s, resetReader(stop(s, "CONNECTION_TIMEOUT")))
    BY <1>1, <2>2, GiveUpKeeps
  <2> QED
    BY <2>1, <2>3 DEF AtRest
<1> QED
  BY <1>2, <1>3, <1>4

-----------------------------------------------------------------------------
(* loop(): the ping *)

\* Fields the ping never touches.
PingOnly(s, t) ==
  /\ t.rx = s.rx /\ t.buf = s.buf /\ t.inbound = s.inbound /\ t.acksMatch = s.acksMatch /\ t.awaits = s.awaits
  /\ t.sock = s.sock /\ t.state = s.state /\ t.rxAge = s.rxAge

LEMMA KeepAlivePingFacts ==
  ASSUME NEW s \in Client, NEW taken \in BOOLEAN
  PROVE  LET t == keepAlivePing(s, taken)
         IN  /\ t \in Client /\ PingOnly(s, t) /\ t.dueAge = s.dueAge /\ t.sessionAge = s.sessionAge
             /\ taken => /\ t.outstanding = TRUE /\ t.unsent = FALSE
                         /\ t.outAge = 0 /\ t.inAge = 0 /\ t.heardAge = 0
             /\ ~taken => /\ t.unsent = TRUE /\ t.outAge = s.outAge /\ t.inAge = s.inAge
                          /\ t.heardAge = s.heardAge
<1>1. CASE taken
  <2> DEFINE t == [s EXCEPT !.tryAge = 0, !.outAge = 0, !.inAge = 0, !.heardAge = 0,
                            !.outstanding = TRUE, !.unsent = FALSE]
  <2>1. keepAlivePing(s, taken) = t
    BY <1>1 DEF keepAlivePing
  <2>2. t \in Client
    <3>1. \A n \in Nat, b, c \in BOOLEAN :
            [s EXCEPT !.tryAge = n, !.outAge = n, !.inAge = n, !.heardAge = n,
                      !.outstanding = b, !.unsent = c] \in Client
      BY ZenonT(60) DEF Client
    <3>2. 0 \in Nat /\ TRUE \in BOOLEAN /\ FALSE \in BOOLEAN
      OBVIOUS
    <3> QED
      BY <3>1, <3>2
  <2>3. /\ PingOnly(s, t) /\ t.dueAge = s.dueAge /\ t.sessionAge = s.sessionAge
        /\ t.outstanding = TRUE /\ t.unsent = FALSE /\ t.outAge = 0 /\ t.inAge = 0 /\ t.heardAge = 0
    BY DEF Client, PingOnly
  <2> HIDE DEF t
  <2> QED
    BY <1>1, <2>1, <2>2, <2>3
<1>2. CASE ~taken
  <2> DEFINE t == [s EXCEPT !.tryAge = 0, !.unsent = TRUE]
  <2>1. keepAlivePing(s, taken) = t
    BY <1>2 DEF keepAlivePing
  <2>2. t \in Client
    BY DEF Client
  <2>3. /\ PingOnly(s, t) /\ t.dueAge = s.dueAge /\ t.sessionAge = s.sessionAge
        /\ t.unsent = TRUE /\ t.outAge = s.outAge /\ t.inAge = s.inAge /\ t.heardAge = s.heardAge
    BY DEF Client, PingOnly
  <2> HIDE DEF t
  <2> QED
    BY <1>2, <2>1, <2>2, <2>3
<1> QED
  BY <1>1, <1>2

LEMMA PingOnlyReader ==
  ASSUME NEW s, NEW t \in Client, ReaderOk(s), PingOnly(s, t)
  PROVE  ReaderOk(t) /\ connected(t) = connected(s)
BY DEF ReaderOk, PingOnly, connected

\* A run that goes on for at most the budget, or is started by it.
LEMMA RunKeeps ==
  ASSUME NEW s \in Client, NEW taken \in BOOLEAN, s.heardAge = s.outAge,
         1 <= s.dueAge, s.dueAge <= pingAnswerBudget - 1,
         s.dueAge + PingInterval <= s.sessionAge, s.outAge <= s.dueAge + PingInterval,
         s.outAge <= s.sessionAge, s.inAge <= s.sessionAge
  PROVE  PingOk(keepAlivePing(s, taken), 0)
<1> DEFINE t == keepAlivePing(s, taken)
<1> SUFFICES PingOk(t, 0)
  OBVIOUS
<1>1. /\ s.dueAge \in Nat /\ s.inAge \in Nat /\ s.sessionAge \in Nat /\ s.outAge \in Nat
      /\ PingInterval \in Nat /\ pingAnswerBudget \in Int
  BY MqttConstants DEF Client
<1>2. CASE taken
  <2>1. /\ t.dueAge = s.dueAge /\ t.sessionAge = s.sessionAge /\ t.outstanding = TRUE /\ t.unsent = FALSE
        /\ t.outAge = 0 /\ t.inAge = 0 /\ t.heardAge = 0
    BY <1>2, KeepAlivePingFacts
  <2> HIDE DEF t
  <2> QED
    BY <1>1, <2>1 DEF PingOk, RunOf
<1>3. CASE ~taken
  <2>1. /\ t.dueAge = s.dueAge /\ t.sessionAge = s.sessionAge /\ t.unsent = TRUE
        /\ t.outAge = s.outAge /\ t.inAge = s.inAge /\ t.heardAge = s.heardAge
    BY <1>3, KeepAlivePingFacts
  <2> HIDE DEF t
  <2> QED
    BY <1>1, <2>1 DEF PingOk, RunOf
<1> QED
  BY <1>2, <1>3

\* Each branch of servicePing as an equation.
LEMMA ServicePingCases ==
  ASSUME NEW s \in Client, NEW taken \in BOOLEAN, NEW more \in BOOLEAN
  PROVE  LET t == servicePing(s, taken, more)
         IN  \/ RunOf(s) /\ s.dueAge >= pingAnswerBudget /\ t = stop(s, "CONNECTION_TIMEOUT")
             \/ RunOf(s) /\ ~(s.dueAge >= pingAnswerBudget) /\ (t = keepAlivePing(s, taken) \/ t = s)
             \/ /\ ~RunOf(s) /\ quietAge(s) > PingInterval
                /\ t = keepAlivePing([s EXCEPT !.dueAge = quietAge(s) - PingInterval], taken)
             \/ ~RunOf(s) /\ ~(quietAge(s) > PingInterval) /\ t = s
<1>1. CASE RunOf(s) /\ s.dueAge >= pingAnswerBudget
  BY <1>1 DEF servicePing, pingExpired, RunOf
<1>2. CASE RunOf(s) /\ ~(s.dueAge >= pingAnswerBudget)
  BY <1>2 DEF servicePing, pingExpired, RunOf
<1>3. CASE ~RunOf(s) /\ quietAge(s) > PingInterval
  BY <1>3 DEF servicePing, RunOf
<1>4. CASE ~RunOf(s) /\ ~(quietAge(s) > PingInterval)
  BY <1>4 DEF servicePing, RunOf
<1> QED
  BY <1>1, <1>2, <1>3, <1>4

LEMMA ServicePingReader ==
  ASSUME NEW s, ReaderOk(s), NEW taken \in BOOLEAN, NEW more \in BOOLEAN
  PROVE  LET t == servicePing(s, taken, more)
         IN  /\ ReaderOk(t) /\ t.awaits = s.awaits
             /\ connected(t) => connected(s) /\ t.inbound = s.inbound /\ t.rx = s.rx
<1> DEFINE t == servicePing(s, taken, more)
<1>1. s \in Client /\ s.acksMatch
  BY DEF ReaderOk
<1>2. CASE t = stop(s, "CONNECTION_TIMEOUT")
  <2>1. "CONNECTION_TIMEOUT" \in ClientStates
    BY DEF ClientStates
  <2>2. ~connected(stop(s, "CONNECTION_TIMEOUT")) /\ stop(s, "CONNECTION_TIMEOUT").awaits = s.awaits
    BY <1>1, <2>1, StopFacts
  <2>3. ReaderOk(stop(s, "CONNECTION_TIMEOUT"))
    BY <1>1, <2>1, StopKeeps
  <2> QED
    BY <1>2, <2>2, <2>3
<1>3. CASE t = keepAlivePing(s, taken)
  <2>1. keepAlivePing(s, taken) \in Client /\ PingOnly(s, keepAlivePing(s, taken))
    BY <1>1, KeepAlivePingFacts
  <2> QED
    BY <1>3, <2>1, PingOnlyReader DEF PingOnly
<1>4. CASE t = s
  BY <1>4
<1>5. CASE t = keepAlivePing([s EXCEPT !.dueAge = quietAge(s) - PingInterval], taken) /\ quietAge(s) > PingInterval
  <2> DEFINE u == [s EXCEPT !.dueAge = quietAge(s) - PingInterval]
             w == keepAlivePing(u, taken)
  <2>1. quietAge(s) - PingInterval \in Nat
    BY <1>1, <1>5, MqttConstants, SMTT(30) DEF quietAge, Client
  <2>2. u \in Client
    BY <1>1, <2>1 DEF Client
  <2>3. PingOnly(s, u)
    BY <1>1 DEF Client, PingOnly
  <2> HIDE DEF u
  <2>4. w \in Client /\ PingOnly(u, w)
    BY <2>2, KeepAlivePingFacts
  <2> HIDE DEF w
  <2>5. PingOnly(s, w)
    BY <2>3, <2>4 DEF PingOnly
  <2>6. ReaderOk(w) /\ connected(w) = connected(s) /\ w.awaits = s.awaits /\ w.inbound = s.inbound /\ w.rx = s.rx
    BY <2>4, <2>5, PingOnlyReader DEF PingOnly
  <2>7. t = w
    BY <1>5 DEF w, u
  <2> QED
    BY <2>6, <2>7
<1> QED
  BY <1>1, <1>2, <1>3, <1>4, <1>5, ServicePingCases

\* loop() ran: the run is no older than the budget allows, and the silence that
\* is left is shorter than the interval or was left by an answered run.
LEMMA ServicePingOk ==
  ASSUME pingAnswerBudget >= 2, NEW s \in Client, s.acksMatch, connected(s), NEW taken \in BOOLEAN, NEW more \in BOOLEAN,
         NEW e \in {0, 1}, PingOk(s, e)
  PROVE  PingOk(servicePing(s, taken, more), 0)
<1> DEFINE t == servicePing(s, taken, more)
<1>1. /\ s.dueAge \in Nat /\ s.inAge \in Nat /\ s.sessionAge \in Nat /\ s.outAge \in Nat
      /\ s.outstanding \in BOOLEAN /\ s.unsent \in BOOLEAN
      /\ PingInterval \in Nat /\ PingInterval >= 1 /\ pingAnswerBudget \in Int
  BY MqttConstants DEF Client
<1>2. s.heardAge = s.outAge /\ s.outAge <= s.sessionAge /\ s.inAge <= s.sessionAge
  BY DEF PingOk
<1>3. CASE t = stop(s, "CONNECTION_TIMEOUT")
  <2>1. "CONNECTION_TIMEOUT" \in ClientStates
    BY DEF ClientStates
  <2>2. PingOk(stop(s, "CONNECTION_TIMEOUT"), 0)
    BY <2>1, StopKeeps
  <2> QED
    BY <1>3, <2>2
<1>4. CASE RunOf(s) /\ ~(s.dueAge >= pingAnswerBudget) /\ (t = keepAlivePing(s, taken) \/ t = s)
  <2>1. /\ 1 <= s.dueAge /\ s.dueAge <= pingAnswerBudget - 1
        /\ s.dueAge + PingInterval <= s.sessionAge /\ s.outAge <= s.dueAge + PingInterval
    BY <1>1, <1>4 DEF PingOk
  <2>2. CASE t = keepAlivePing(s, taken)
    <3>1. PingOk(keepAlivePing(s, taken), 0)
      BY <1>2, <2>1, RunKeeps
    <3> QED
      BY <2>2, <3>1
  <2>3. CASE t = s
    <3>1. PingOk(s, 0)
      BY <1>1, <1>4, <2>1 DEF PingOk
    <3> QED
      BY <2>3, <3>1
  <2> QED
    BY <1>4, <2>2, <2>3
<1>5. CASE /\ ~RunOf(s) /\ quietAge(s) > PingInterval
           /\ t = keepAlivePing([s EXCEPT !.dueAge = quietAge(s) - PingInterval], taken)
  <2>1. PICK q \in Nat : q = quietAge(s) - PingInterval /\ q >= 1
    BY <1>1, <1>5 DEF quietAge
  <2>2. s.outAge <= q + PingInterval /\ s.inAge <= q + PingInterval /\ q + PingInterval <= s.sessionAge
    BY <1>1, <1>2, <2>1 DEF quietAge
  <2>3. q <= pingAnswerBudget - 1
    <3>1. /\ s.outAge <= PingInterval + 1 \/ s.outAge <= pingAnswerBudget - 1
          /\ s.inAge <= PingInterval + 1 \/ s.inAge <= pingAnswerBudget - 1
      BY <1>1, <1>5 DEF PingOk
    <3>2. quietAge(s) <= PingInterval + 1 \/ quietAge(s) <= pingAnswerBudget - 1
      BY <1>1, <3>1 DEF quietAge
    <3>3. quietAge(s) = q + PingInterval
      BY <1>1, <2>1 DEF quietAge
    <3> QED
      BY <1>1, <3>2, <3>3
  <2> DEFINE u == [s EXCEPT !.dueAge = q]
  <2>4. /\ u \in Client /\ u.dueAge = q /\ u.heardAge = s.heardAge /\ u.outAge = s.outAge
        /\ u.inAge = s.inAge /\ u.sessionAge = s.sessionAge
    BY DEF Client
  <2>5. t = keepAlivePing(u, taken)
    BY <1>5, <2>1
  <2> HIDE DEF u, t
  <2>6. PingOk(keepAlivePing(u, taken), 0)
    BY <1>2, <2>1, <2>2, <2>3, <2>4, RunKeeps
  <2> QED
    BY <2>5, <2>6 DEF t
<1>6. CASE ~RunOf(s) /\ ~(quietAge(s) > PingInterval) /\ t = s
  <2>1. s.outAge <= PingInterval /\ s.inAge <= PingInterval
    BY <1>1, <1>6 DEF quietAge
  <2>2. PingOk(s, 0)
    BY <1>1, <1>6, <2>1 DEF PingOk, RunOf
  <2> QED
    BY <1>6, <2>2
<1> QED
  BY <1>3, <1>4, <1>5, <1>6, ServicePingCases

-----------------------------------------------------------------------------
(* loop(): the reader *)

LEMMA InputKeeps ==
  ASSUME NEW s \in Client, NEW t \in Client, NEW e \in {0, 1}, PingOk(s, e),
         t.outstanding = s.outstanding, t.unsent = s.unsent, t.dueAge = s.dueAge,
         t.inAge = 0, t.outAge = s.outAge, t.heardAge = s.heardAge, t.sessionAge = s.sessionAge,
         connected(t) => connected(s)
  PROVE  PingOk(t, e)
<1>1. /\ s.dueAge \in Nat /\ s.outAge \in Nat /\ s.sessionAge \in Nat
      /\ s.outstanding \in BOOLEAN /\ s.unsent \in BOOLEAN
  BY DEF Client
<1>2. PingInterval \in Nat
  BY MqttConstants
<1> QED
  BY <1>1, <1>2 DEF PingOk, RunOf

LEMMA PumpReaderKeeps ==
  ASSUME NEW s, ReaderOk(s), NEW upto \in {"Header", "Payload", "Complete"}, NEW d \in DispatchType
  PROVE  LET t == pumpReader(s, upto, d)
         IN  /\ ReaderOk(t) /\ t.awaits = s.awaits
             /\ \A e \in {0, 1} : PingOk(s, e) => PingOk(t, e)
<1> DEFINE t == pumpReader(s, upto, d)
           begun == IF s.rx = "Idle" THEN [s EXCEPT !.rxAge = 0] ELSE s
           held == [begun EXCEPT !.rx = upto, !.buf = "in"]
           entered == [begun EXCEPT !.inAge = 0]
<1>1. s \in Client /\ s.acksMatch
  BY DEF ReaderOk
<1>2. CASE ~connected(s) \/ (s.rx = "Idle" /\ s.inbound = << >>)
  <2>1. t = s
    BY <1>2 DEF pumpReader
  <2> QED
    BY <2>1
<1>3. CASE connected(s) /\ ~(s.rx = "Idle" /\ s.inbound = << >>)
  <2>1. s.inbound # << >>
    BY <1>3 DEF ReaderOk
  <2>2. begun \in Client
    BY <1>1 DEF Client
  <2>3. /\ SamePing(s, begun) /\ begun.inbound = s.inbound /\ begun.acksMatch = s.acksMatch
        /\ begun.awaits = s.awaits /\ begun.sock = s.sock /\ begun.state = s.state
    BY <1>1 DEF Client, SamePing
  <2>4. t = IF upto = "Complete" THEN takePacket(entered, d)
            ELSE IF upto = "Payload" /\ s.inbound[1].kind \in ReadFailures
                 THEN resetReader(stop(s, readFailureState(s.inbound[1])))
            ELSE IF held.rxAge >= SocketTimeout THEN resetReader(stop(held, "CONNECTION_TIMEOUT"))
            ELSE held
    BY <1>3 DEF pumpReader
  <2> HIDE DEF begun, t
  <2>5. /\ entered \in Client /\ entered.inAge = 0 /\ entered.inbound = s.inbound /\ entered.acksMatch
        /\ entered.awaits = s.awaits /\ entered.sock = s.sock /\ entered.state = s.state
        /\ entered.outstanding = s.outstanding /\ entered.unsent = s.unsent /\ entered.dueAge = s.dueAge
        /\ entered.outAge = s.outAge /\ entered.heardAge = s.heardAge /\ entered.sessionAge = s.sessionAge
    <3>1. entered \in Client
      BY <2>2 DEF Client
    <3> QED
      BY <1>1, <2>2, <2>3, <3>1 DEF Client, SamePing
  <2>6. CASE upto = "Complete"
    <3>1. t = takePacket(entered, d)
      BY <2>4, <2>6
    <3> HIDE DEF entered
    <3>2. \A e \in {0, 1} : PingOk(s, e) => PingOk(entered, e)
      BY <1>1, <2>5, InputKeeps DEF connected
    <3>3. AtRest(entered, takePacket(entered, d))
      BY <2>1, <2>5, TakePacketKeeps
    <3> QED
      BY <2>5, <3>1, <3>2, <3>3 DEF AtRest, t
  <2>7. CASE upto = "Payload" /\ s.inbound[1].kind \in ReadFailures
    <3> DEFINE state == readFailureState(s.inbound[1])
    <3>1. state \in ClientStates
      BY ReadFailureTyped
    <3>2. t = resetReader(stop(s, state))
      BY <2>4, <2>7
    <3> HIDE DEF state
    <3>3. AtRest(s, resetReader(stop(s, state)))
      BY <1>1, <3>1, GiveUpKeeps
    <3> QED
      BY <3>2, <3>3 DEF AtRest, t
  <2>8. CASE upto # "Complete" /\ ~(upto = "Payload" /\ s.inbound[1].kind \in ReadFailures)
    <3>1. held \in Client
      BY <2>2, <2>8 DEF Client
    <3>2. /\ SamePing(s, held) /\ held.inbound = s.inbound /\ held.acksMatch /\ held.buf = "in"
          /\ held.awaits = s.awaits /\ held.sock = s.sock /\ held.state = s.state
      BY <1>1, <2>2, <2>3 DEF Client, SamePing
    <3>3. t = resetReader(stop(held, "CONNECTION_TIMEOUT")) \/ t = held
      BY <2>4, <2>8
    <3> HIDE DEF held
    <3>4. connected(held) = connected(s)
      BY <3>2 DEF connected
    <3>5. \A e \in {0, 1} : PingOk(s, e) => PingOk(held, e)
      BY <3>2, <3>4, SamePingOk
    <3>6. ReaderOk(held)
      BY <2>1, <3>1, <3>2 DEF ReaderOk
    <3>7. "CONNECTION_TIMEOUT" \in ClientStates
      BY DEF ClientStates
    <3>8. AtRest(held, resetReader(stop(held, "CONNECTION_TIMEOUT")))
      BY <3>1, <3>2, <3>7, GiveUpKeeps
    <3>9. CASE t = held
      BY <3>2, <3>5, <3>6, <3>9 DEF t
    <3>10. CASE t = resetReader(stop(held, "CONNECTION_TIMEOUT"))
      BY <3>2, <3>5, <3>8, <3>10 DEF AtRest, t
    <3> QED
      BY <3>3, <3>9, <3>10
  <2> QED
    BY <2>6, <2>7, <2>8
<1> QED
  BY <1>2, <1>3

-----------------------------------------------------------------------------
(* The calls, the broker, the link and time *)

MqttInv == ReaderOk(client) /\ served \in BOOLEAN

\* Ticks since loop() last ran.
SinceLoop == IF served THEN 0 ELSE 1

PingInv == PingOk(client, SinceLoop)

\* What a call that is not loop() leaves behind.
CallKeeps(s, t) == ReaderOk(t) /\ \A e \in {0, 1} : PingOk(s, e) => PingOk(t, e)

LEMMA CallStep ==
  ASSUME MqttInv, CallKeeps(client, client'), UNCHANGED served
  PROVE  MqttInv' /\ (PingInv => PingInv')
<1>1. SinceLoop \in {0, 1} /\ SinceLoop' = SinceLoop
  BY DEF SinceLoop
<1> QED
  BY <1>1 DEF MqttInv, CallKeeps, PingInv

LEMMA AwaitsKeeps ==
  ASSUME NEW s, ReaderOk(s), NEW b \in BOOLEAN
  PROVE  CallKeeps(s, [s EXCEPT !.awaits = b])
<1> DEFINE t == [s EXCEPT !.awaits = b]
<1>1. s \in Client
  BY DEF ReaderOk
<1>2. t \in Client
  BY <1>1 DEF Client
<1>3. /\ SamePing(s, t) /\ t.acksMatch = s.acksMatch /\ t.rx = s.rx /\ t.buf = s.buf /\ t.inbound = s.inbound
      /\ t.sock = s.sock /\ t.state = s.state
  BY <1>1 DEF Client, SamePing
<1> HIDE DEF t
<1>4. connected(t) = connected(s)
  BY <1>3 DEF connected
<1>5. ReaderOk(t)
  BY <1>2, <1>3, <1>4 DEF ReaderOk
<1>6. \A e \in {0, 1} : PingOk(s, e) => PingOk(t, e)
  BY <1>3, <1>4, SamePingOk
<1>7. CallKeeps(s, t)
  BY <1>5, <1>6 DEF CallKeeps
<1> QED
  BY <1>7 DEF t

LEMMA LoopKeeps ==
  ASSUME MqttInv, loop
  PROVE  MqttInv' /\ (pingAnswerBudget >= 2 /\ PingInv => PingInv')
<1>1. PICK pingTaken \in BOOLEAN, more \in BOOLEAN, upto \in Further(client) : \E d \in Dispatches(client, upto = "Complete") :
        client' = pumpReader(IF connected(noteLost(client)) THEN servicePing(noteLost(client), pingTaken, more)
                             ELSE noteLost(client), upto, d)
  BY DEF loop
<1> DEFINE begun == noteLost(client)
           asked == IF connected(begun) THEN servicePing(begun, pingTaken, more) ELSE begun
<1>2. PICK d \in Dispatches(client, upto = "Complete") : client' = pumpReader(asked, upto, d)
  BY <1>1
<1>3. upto \in {"Header", "Payload", "Complete"} /\ d \in DispatchType
  BY DispatchesTyped DEF Further
<1>4. client \in Client /\ ReaderOk(client)
  BY DEF MqttInv, ReaderOk
<1>5. ReaderOk(begun) /\ \A e : PingOk(client, e) => PingOk(begun, e)
  BY <1>4, NoteLostKeeps
<1> HIDE DEF begun
<1>6. ReaderOk(asked)
  BY <1>5, ServicePingReader
<1>7. pingAnswerBudget >= 2 /\ PingInv => PingOk(asked, 0)
  <2> SUFFICES ASSUME pingAnswerBudget >= 2, PingInv PROVE PingOk(asked, 0)
    OBVIOUS
  <2>1. SinceLoop \in {0, 1}
    BY DEF SinceLoop
  <2>2. PingOk(begun, SinceLoop)
    BY <1>5 DEF PingInv
  <2>3. CASE connected(begun)
    <3>1. begun \in Client /\ begun.acksMatch
      BY <1>5 DEF ReaderOk
    <3> QED
      BY <2>1, <2>2, <2>3, <3>1, ServicePingOk
  <2>4. CASE ~connected(begun)
    BY <2>2, <2>4 DEF PingOk
  <2> QED
    BY <2>3, <2>4
<1> HIDE DEF asked
<1>8. ReaderOk(client') /\ (PingOk(asked, 0) => PingOk(client', 0))
  BY <1>2, <1>3, <1>6, PumpReaderKeeps
<1>9. served' = TRUE /\ SinceLoop' = 0
  BY DEF loop, SinceLoop
<1> QED
  BY <1>7, <1>8, <1>9 DEF MqttInv, PingInv

\* The reader is settled before a packet is built.
LEMMA SettledFacts ==
  ASSUME MqttInv, NEW finished \in BOOLEAN, NEW d \in DispatchType
  PROVE  LET t == settleReader(noteLost(client), finished, d)
         IN  /\ CallKeeps(client, t) /\ t.awaits = client.awaits
             /\ connected(t) => t.rx = "Idle"
<1> DEFINE begun == noteLost(client)
<1>1. client \in Client /\ ReaderOk(client)
  BY DEF MqttInv, ReaderOk
<1>2. ReaderOk(begun) /\ begun.awaits = client.awaits /\ \A e : PingOk(client, e) => PingOk(begun, e)
  BY <1>1, NoteLostKeeps
<1> HIDE DEF begun
<1> DEFINE t == settleReader(begun, finished, d)
<1>3. /\ ReaderOk(t) /\ t.awaits = begun.awaits /\ (connected(t) => t.rx = "Idle")
      /\ \A e \in {0, 1} : PingOk(begun, e) => PingOk(t, e)
  BY <1>2, SettleKeeps
<1> QED
  BY <1>2, <1>3 DEF CallKeeps, begun

LEMMA BuiltFacts ==
  ASSUME NEW s, NEW t, CallKeeps(s, t), connected(t), t.rx = "Idle", NEW taken \in Taken
  PROVE  CallKeeps(s, write(t, taken))
<1>1. t \in Client /\ t.acksMatch
  BY DEF CallKeeps, ReaderOk
<1>2. ReaderOk(write(t, taken))
  BY <1>1, WriteKeeps
<1>3. \A e \in {0, 1} : PingOk(t, e) => PingOk(write(t, taken), e)
  BY <1>1, WriteFacts
<1> QED
  BY <1>2, <1>3 DEF CallKeeps

LEMMA ChoicesTyped ==
  ASSUME NEW s
  PROVE  Finishes(s) \subseteq BOOLEAN /\ Takings(s) \subseteq Taken
BY DEF Finishes, Takings, Taken

LEMMA SendPacketKeeps ==
  ASSUME MqttInv, NEW fits \in BOOLEAN, sendPacket(fits)
  PROVE  MqttInv' /\ (PingInv => PingInv')
<1>1. PICK finished \in Finishes(client), taken \in Takings(client) :
        \E d \in Dispatches(client, finished /\ client.rx # "Idle") :
          client' = IF connected(settleReader(noteLost(client), finished, d)) /\ fits
                    THEN write(settleReader(noteLost(client), finished, d), taken)
                    ELSE settleReader(noteLost(client), finished, d)
  BY DEF sendPacket
<1>2. PICK d \in Dispatches(client, finished /\ client.rx # "Idle") :
        client' = IF connected(settleReader(noteLost(client), finished, d)) /\ fits
                  THEN write(settleReader(noteLost(client), finished, d), taken)
                  ELSE settleReader(noteLost(client), finished, d)
  BY <1>1
<1>3. finished \in BOOLEAN /\ taken \in Taken /\ d \in DispatchType
  BY ChoicesTyped, DispatchesTyped
<1> DEFINE t == settleReader(noteLost(client), finished, d)
<1>4. CallKeeps(client, t) /\ (connected(t) => t.rx = "Idle")
  BY <1>3, SettledFacts
<1>5. client' = IF connected(t) /\ fits THEN write(t, taken) ELSE t
  BY <1>2
<1> HIDE DEF t
<1>6. CallKeeps(client, client')
  BY <1>3, <1>4, <1>5, BuiltFacts
<1> QED
  BY <1>6, CallStep DEF sendPacket

LEMMA SubscribeKeeps ==
  ASSUME MqttInv, subscribe
  PROVE  MqttInv' /\ (PingInv => PingInv')
<1> DEFINE set(f, d) == settleReader(noteLost(client), f, d)
           out(f, k, d) == IF connected(set(f, d)) THEN write(set(f, d), k) ELSE set(f, d)
<1>1. PICK finished \in Finishes(client), taken \in Takings(client) :
        \E d \in Dispatches(client, finished /\ client.rx # "Idle") :
          client' = [out(finished, taken, d) EXCEPT !.awaits = connected(out(finished, taken, d)) /\ taken = "all"]
  BY DEF subscribe
<1>2. PICK d \in Dispatches(client, finished /\ client.rx # "Idle") :
        client' = [out(finished, taken, d) EXCEPT !.awaits = connected(out(finished, taken, d)) /\ taken = "all"]
  BY <1>1
<1>3. finished \in BOOLEAN /\ taken \in Taken /\ d \in DispatchType
  BY ChoicesTyped, DispatchesTyped
<1> DEFINE t == settleReader(noteLost(client), finished, d)
           sent == IF connected(t) THEN write(t, taken) ELSE t
<1>4. CallKeeps(client, t) /\ (connected(t) => t.rx = "Idle")
  BY <1>3, SettledFacts
<1>5. client' = [sent EXCEPT !.awaits = connected(sent) /\ taken = "all"]
  BY <1>2
<1> HIDE DEF t
<1>6. CallKeeps(client, sent)
  BY <1>3, <1>4, BuiltFacts
<1> HIDE DEF sent
<1>7. PICK b \in BOOLEAN : client' = [sent EXCEPT !.awaits = b]
  BY <1>5
<1>8. CallKeeps(sent, client')
  BY <1>6, <1>7, AwaitsKeeps DEF CallKeeps
<1>9. CallKeeps(client, client')
  BY <1>6, <1>8 DEF CallKeeps
<1> QED
  BY <1>9, CallStep DEF subscribe

LEMMA AwaitSubAckKeeps ==
  ASSUME MqttInv, awaitSubAck
  PROVE  MqttInv' /\ (PingInv => PingInv')
<1>1. client \in Client /\ client.acksMatch /\ ReaderOk(client)
  BY DEF MqttInv, ReaderOk
<1>2. PICK t \in Client, b \in BOOLEAN : CallKeeps(client, t) /\ client' = [t EXCEPT !.awaits = b]
  <2>1. CASE subAckOther
    <3>1. PICK d \in Dispatches(client, TRUE), timeLeft \in BOOLEAN :
            client' = [takePacket(client, d) EXCEPT
                         !.awaits = timeLeft /\ client.inbound[1].kind \notin ReadFailures \cup {"forbidden"}]
      BY <2>1 DEF subAckOther
    <3>2. d \in DispatchType /\ client.inbound # << >>
      BY <2>1, DispatchesTyped DEF subAckOther
    <3>3. CallKeeps(client, takePacket(client, d))
      BY <1>1, <3>2, TakePacketKeeps DEF AtRest, CallKeeps
    <3>4. PICK b \in BOOLEAN : client' = [takePacket(client, d) EXCEPT !.awaits = b]
      BY <3>1
    <3>5. takePacket(client, d) \in Client
      BY <3>3 DEF CallKeeps, ReaderOk
    <3> QED
      BY <3>3, <3>4, <3>5
  <2>2. CASE subAckEnds
    <3>1. PICK s \in SubAckEnds(client) : client' = [s EXCEPT !.awaits = FALSE]
      BY <2>2 DEF subAckEnds
    <3>2. "CONNECTION_TIMEOUT" \in ClientStates /\ "PROTOCOL_ERROR" \in ClientStates
      BY DEF ClientStates
    <3>3. /\ CallKeeps(client, resetReader(stop(client, "CONNECTION_TIMEOUT")))
          /\ CallKeeps(client, resetReader(stop(client, "PROTOCOL_ERROR")))
      BY <1>1, <3>2, GiveUpKeeps DEF AtRest, CallKeeps
    <3>4. CallKeeps(client, resetReader(client))
      BY <1>1, ResetKeeps DEF CallKeeps
    <3>5. CallKeeps(client, s)
      BY <3>3, <3>4 DEF SubAckEnds
    <3>6. s \in Client
      BY <3>5 DEF CallKeeps, ReaderOk
    <3> QED
      BY <3>1, <3>5, <3>6
  <2> QED
    BY <2>1, <2>2 DEF awaitSubAck
<1>3. CallKeeps(t, client')
  BY <1>2, AwaitsKeeps DEF CallKeeps
<1>4. CallKeeps(client, client')
  BY <1>2, <1>3 DEF CallKeeps
<1>5. UNCHANGED served
  BY DEF awaitSubAck, subAckOther, subAckEnds
<1> QED
  BY <1>4, <1>5, CallStep

LEMMA DisconnectKeeps ==
  ASSUME MqttInv, disconnect
  PROVE  MqttInv' /\ (PingInv => PingInv')
<1>1. client \in Client /\ client.acksMatch
  BY DEF MqttInv, ReaderOk
<1>2. "DISCONNECTED" \in ClientStates
  BY DEF ClientStates
<1>3. CallKeeps(client, stop(client, "DISCONNECTED"))
  BY <1>1, <1>2, StopKeeps DEF CallKeeps
<1> QED
  BY <1>3, CallStep DEF disconnect

\* A session begins with a reader at rest, no run and fresh clocks.
LEMMA AcceptedFacts ==
  ASSUME NEW s \in Client, s.acksMatch, s.outAge = 0, s.heardAge = 0, s.sessionAge = 0
  PROVE  LET t == [resetReader(s) EXCEPT !.state = "CONNECTED", !.inAge = 0, !.outstanding = FALSE, !.unsent = FALSE]
         IN  ReaderOk(t) /\ \A e \in {0, 1} : PingOk(t, e)
<1> DEFINE r == resetReader(s)
           t == [r EXCEPT !.state = "CONNECTED", !.inAge = 0, !.outstanding = FALSE, !.unsent = FALSE]
<1>1. r \in Client /\ SamePing(s, r) /\ r.rx = "Idle" /\ r.acksMatch
  BY ResetFacts
<1> HIDE DEF r
<1>2. t \in Client
  <2>1. \A st \in ClientStates, n \in Nat, b \in BOOLEAN :
          [r EXCEPT !.state = st, !.inAge = n, !.outstanding = b, !.unsent = b] \in Client
    BY <1>1 DEF Client
  <2>2. "CONNECTED" \in ClientStates /\ 0 \in Nat /\ FALSE \in BOOLEAN
    BY DEF ClientStates
  <2> QED
    BY <2>1, <2>2
<1>3. /\ t.rx = "Idle" /\ t.acksMatch /\ t.outstanding = FALSE /\ t.unsent = FALSE /\ t.inAge = 0
      /\ t.outAge = 0 /\ t.heardAge = 0 /\ t.sessionAge = 0
  BY <1>1 DEF Client, SamePing
<1> HIDE DEF t
<1>4. ReaderOk(t)
  BY <1>2, <1>3 DEF ReaderOk
<1>5. PingInterval \in Nat
  BY MqttConstants
<1>6. \A e \in {0, 1} : PingOk(t, e)
  BY <1>3, <1>5 DEF PingOk, RunOf
<1> QED
  BY <1>4, <1>6 DEF t, r

LEMMA ConnectKeeps ==
  ASSUME MqttInv, NEW fate \in ConnectFates, connect(fate)
  PROVE  MqttInv' /\ (PingInv => PingInv')
<1> DEFINE begun == noteLost(client)
           closed == stop(begun, begun.state)
           quiet == resetReader(closed)
           opened == [quiet EXCEPT !.sock = TRUE]
           sent == [opened EXCEPT !.buf = "out", !.outAge = 0, !.inAge = 0, !.heardAge = 0, !.sessionAge = 0]
<1>1. client \in Client /\ ReaderOk(client)
  BY DEF MqttInv, ReaderOk
<1>2. client' = CASE connected(begun)                                     -> begun
                  [] ~connected(begun) /\ fate = "unreachable"            -> stop(begun, "CONNECT_FAILED")
                  [] ~connected(begun) /\ fate = "too long"               -> stop(opened, "PACKET_TOO_LARGE")
                  [] ~connected(begun) /\ fate = "refused by the link"    -> stop(sent, "CONNECTION_LOST")
                  [] OTHER                                                -> awaitConnAck(sent, fate)
  BY DEF connect
<1>3. ReaderOk(begun) /\ \A e : PingOk(client, e) => PingOk(begun, e)
  BY <1>1, NoteLostKeeps
<1> HIDE DEF begun
<1>4. begun \in Client /\ begun.acksMatch /\ begun.state \in ClientStates
  BY <1>3 DEF ReaderOk, Client
<1>5. closed \in Client /\ closed.acksMatch
  BY <1>4, StopFacts
<1> HIDE DEF closed
<1>6. quiet \in Client /\ quiet.acksMatch
  BY <1>5, ResetFacts
<1> HIDE DEF quiet
<1>7. opened \in Client /\ opened.acksMatch
  <2>1. \A b \in BOOLEAN : [quiet EXCEPT !.sock = b] \in Client
    BY <1>6 DEF Client
  <2>2. opened \in Client
    BY <2>1
  <2> QED
    BY <1>6, <2>2 DEF Client
<1> HIDE DEF opened
<1>8. /\ sent \in Client /\ sent.acksMatch /\ sent.outAge = 0 /\ sent.heardAge = 0 /\ sent.sessionAge = 0
  <2>1. \A n \in Nat : [opened EXCEPT !.buf = "out", !.outAge = n, !.inAge = n, !.heardAge = n, !.sessionAge = n] \in Client
    BY <1>7 DEF Client
  <2>2. sent \in Client
    BY <2>1
  <2> QED
    BY <1>7, <2>2 DEF Client
<1> HIDE DEF sent
<1>9. {"CONNECT_FAILED", "PACKET_TOO_LARGE", "CONNECTION_LOST", "CONNECT_REFUSED", "CONNECTION_TIMEOUT",
       "PROTOCOL_ERROR"} \subseteq ClientStates
  BY DEF ClientStates
<1>10. CallKeeps(client, client')
  <2>1. CASE connected(begun)
    <3>1. client' = begun
      BY <1>2, <2>1
    <3> QED
      BY <1>3, <3>1 DEF CallKeeps
  <2>2. CASE ~connected(begun) /\ fate = "unreachable"
    <3>1. client' = stop(begun, "CONNECT_FAILED")
      BY <1>2, <2>2
    <3> QED
      BY <1>4, <1>9, <3>1, StopKeeps DEF CallKeeps
  <2>3. CASE ~connected(begun) /\ fate = "too long"
    <3>1. client' = stop(opened, "PACKET_TOO_LARGE")
      BY <1>2, <2>3
    <3> QED
      BY <1>7, <1>9, <3>1, StopKeeps DEF CallKeeps
  <2>4. CASE ~connected(begun) /\ fate = "refused by the link"
    <3>1. client' = stop(sent, "CONNECTION_LOST")
      BY <1>2, <2>4
    <3> QED
      BY <1>8, <1>9, <3>1, StopKeeps DEF CallKeeps
  <2>5. CASE ~connected(begun) /\ fate \notin {"unreachable", "too long", "refused by the link"}
    <3>1. client' = awaitConnAck(sent, fate)
      BY <1>2, <2>5
    <3>2. CASE fate = "accepted"
      <4>1. client' = [resetReader(sent) EXCEPT !.state = "CONNECTED", !.inAge = 0, !.outstanding = FALSE, !.unsent = FALSE]
        BY <3>1, <3>2 DEF awaitConnAck
      <4> QED
        BY <1>8, <4>1, AcceptedFacts DEF CallKeeps
    <3>3. CASE fate # "accepted"
      <4>1. PICK st \in ClientStates : client' = stop(resetReader(sent), st)
        BY <1>9, <2>5, <3>1, <3>3 DEF awaitConnAck, ConnectFates
      <4>2. resetReader(sent) \in Client /\ resetReader(sent).acksMatch
        BY <1>8, ResetFacts
      <4> QED
        BY <4>1, <4>2, StopKeeps DEF CallKeeps
    <3> QED
      BY <3>2, <3>3
  <2> QED
    BY <2>1, <2>2, <2>3, <2>4, <2>5
<1> QED
  BY <1>10, CallStep DEF connect

LEMMA BrokerSendsKeeps ==
  ASSUME MqttInv, NEW p \in Packets, brokerSends(p)
  PROVE  MqttInv' /\ (PingInv => PingInv')
<1>1. client \in Client /\ ReaderOk(client)
  BY DEF MqttInv, ReaderOk
<1>2. client.inbound \in Seq(Packets)
  BY <1>1 DEF Client
<1> DEFINE q == Append(client.inbound, p)
<1>3. q \in Seq(Packets) /\ q # << >>
  BY <1>2
<1>4. client' = [client EXCEPT !.inbound = q]
  BY <1>1 DEF brokerSends, Client
<1> HIDE DEF q
<1>5. client' \in Client
  BY <1>1, <1>3, <1>4 DEF Client
<1>6. /\ SamePing(client, client') /\ client'.inbound = q /\ client'.rx = client.rx /\ client'.buf = client.buf
      /\ client'.acksMatch = client.acksMatch /\ client'.sock = client.sock /\ client'.state = client.state
  BY <1>1, <1>4 DEF Client, SamePing
<1>7. connected(client') = connected(client)
  BY <1>6 DEF connected
<1>8. ReaderOk(client')
  BY <1>1, <1>3, <1>5, <1>6, <1>7 DEF ReaderOk
<1>9. \A e \in {0, 1} : PingOk(client, e) => PingOk(client', e)
  BY <1>6, <1>7, SamePingOk
<1>10. CallKeeps(client, client')
  BY <1>8, <1>9 DEF CallKeeps
<1> QED
  BY <1>10, CallStep DEF brokerSends

LEMMA LinkDiesKeeps ==
  ASSUME MqttInv, linkDies
  PROVE  MqttInv' /\ (PingInv => PingInv')
<1>1. client \in Client /\ ReaderOk(client)
  BY DEF MqttInv, ReaderOk
<1>2. client' = [client EXCEPT !.sock = FALSE, !.inbound = << >>]
  BY DEF linkDies
<1>3. client' \in Client
  <2>1. \A b \in BOOLEAN, q \in Seq(Packets) : [client EXCEPT !.sock = b, !.inbound = q] \in Client
    BY <1>1 DEF Client
  <2>2. << >> \in Seq(Packets) /\ FALSE \in BOOLEAN
    OBVIOUS
  <2> QED
    BY <1>2, <2>1, <2>2
<1>4. SamePing(client, client') /\ client'.acksMatch = client.acksMatch /\ client'.sock = FALSE
  BY <1>1, <1>2 DEF Client, SamePing
<1>5. ~connected(client')
  BY <1>4 DEF connected
<1>6. ReaderOk(client')
  BY <1>1, <1>3, <1>4, <1>5 DEF ReaderOk
<1>7. \A e \in {0, 1} : PingOk(client, e) => PingOk(client', e)
  BY <1>4, <1>5, SamePingOk
<1>8. CallKeeps(client, client')
  BY <1>6, <1>7 DEF CallKeeps
<1> QED
  BY <1>8, CallStep DEF linkDies

LEMMA LaterFacts ==
  ASSUME NEW a \in Nat
  PROVE  /\ Later(a) \in Nat /\ Later(a) <= a + 1
         /\ a < MaxClock => Later(a) = a + 1
         /\ ~(a < MaxClock) => Later(a) = a
         /\ \A b \in Nat : b <= a => Later(b) <= Later(a)
BY MqttConstants DEF Later

\* The fields of a client one tick older.
LEMMA TickFields ==
  ASSUME client \in Client, tick
  PROVE  /\ client' \in Client
         /\ client'.rx = client.rx /\ client'.buf = client.buf /\ client'.inbound = client.inbound
         /\ client'.acksMatch = client.acksMatch /\ client'.sock = client.sock /\ client'.state = client.state
         /\ client'.outstanding = client.outstanding /\ client'.unsent = client.unsent
         /\ RunOf(client) => client'.dueAge = Later(client.dueAge)
         /\ client'.inAge = Later(client.inAge) /\ client'.outAge = Later(client.outAge)
         /\ client'.heardAge = Later(client.heardAge) /\ client'.sessionAge = Later(client.sessionAge)
<1> DEFINE r == IF client.rx = "Idle" THEN 0 ELSE Later(client.rxAge)
           d == IF client.outstanding \/ client.unsent THEN Later(client.dueAge) ELSE 0
           y == IF client.outstanding \/ client.unsent THEN Later(client.tryAge) ELSE 0
           i == Later(client.inAge)
           o == Later(client.outAge)
           h == Later(client.heardAge)
           n == Later(client.sessionAge)
<1>1. client' = [client EXCEPT !.rxAge = r, !.dueAge = d, !.tryAge = y, !.inAge = i, !.outAge = o,
                               !.heardAge = h, !.sessionAge = n]
  BY DEF tick, Client
<1>2. /\ client.rxAge \in Nat /\ client.dueAge \in Nat /\ client.tryAge \in Nat /\ client.inAge \in Nat
      /\ client.outAge \in Nat /\ client.heardAge \in Nat /\ client.sessionAge \in Nat
  BY DEF Client
<1>3. r \in Nat /\ d \in Nat /\ y \in Nat
  BY <1>2, LaterFacts
<1>4. i \in Nat /\ o \in Nat /\ h \in Nat /\ n \in Nat
  BY <1>2, LaterFacts
<1>5. RunOf(client) => d = Later(client.dueAge)
  BY DEF RunOf
<1> HIDE DEF r, d, y, i, o, h, n
<1>6. client' \in Client
  BY <1>1, <1>3, <1>4 DEF Client
<1>7. /\ client'.rx = client.rx /\ client'.buf = client.buf /\ client'.inbound = client.inbound
      /\ client'.acksMatch = client.acksMatch /\ client'.sock = client.sock /\ client'.state = client.state
      /\ client'.outstanding = client.outstanding /\ client'.unsent = client.unsent
      /\ client'.dueAge = d /\ client'.inAge = i /\ client'.outAge = o /\ client'.heardAge = h /\ client'.sessionAge = n
  BY <1>1 DEF Client
<1> QED
  BY <1>5, <1>6, <1>7 DEF i, o, h, n

LEMMA TickKeeps ==
  ASSUME MqttInv, tick
  PROVE  MqttInv' /\ (PingInv => PingInv')
<1>1. client \in Client /\ ReaderOk(client)
  BY DEF MqttInv, ReaderOk
<1>2. /\ client' \in Client
      /\ client'.rx = client.rx /\ client'.buf = client.buf /\ client'.inbound = client.inbound
      /\ client'.acksMatch = client.acksMatch /\ client'.sock = client.sock /\ client'.state = client.state
      /\ client'.outstanding = client.outstanding /\ client'.unsent = client.unsent
      /\ RunOf(client) => client'.dueAge = Later(client.dueAge)
      /\ client'.inAge = Later(client.inAge) /\ client'.outAge = Later(client.outAge)
      /\ client'.heardAge = Later(client.heardAge) /\ client'.sessionAge = Later(client.sessionAge)
  BY <1>1, TickFields
<1>3. connected(client') = connected(client) /\ RunOf(client') = RunOf(client)
  BY <1>2 DEF connected, RunOf
<1>4. ReaderOk(client')
  BY <1>1, <1>2, <1>3 DEF ReaderOk
<1>5. served' = FALSE /\ SinceLoop = 0 /\ SinceLoop' = 1
  BY DEF tick, SinceLoop
<1>6. ASSUME PingOk(client, 0) PROVE PingOk(client', 1)
  <2>1. client'.heardAge = client'.outAge
    BY <1>2, <1>6 DEF PingOk
  <2> SUFFICES ASSUME connected(client)
               PROVE  /\ client'.outAge <= client'.sessionAge /\ client'.inAge <= client'.sessionAge
                      /\ RunOf(client) => /\ 1 <= client'.dueAge /\ client'.dueAge <= pingAnswerBudget - 1 + 1
                                          /\ client'.dueAge + PingInterval <= client'.sessionAge
                                          /\ client'.outAge <= client'.dueAge + PingInterval
                      /\ client.outstanding /\ ~client.unsent =>
                           client'.outAge < client'.dueAge /\ client'.inAge < client'.dueAge
                      /\ ~RunOf(client) =>
                           /\ client'.outAge <= PingInterval + 1 \/ client'.outAge <= pingAnswerBudget - 2 + 1
                           /\ client'.inAge <= PingInterval + 1 \/ client'.inAge <= pingAnswerBudget - 2 + 1
    BY <1>2, <1>3, <2>1 DEF PingOk
  <2>2. /\ client.dueAge \in Nat /\ client.inAge \in Nat /\ client.outAge \in Nat /\ client.sessionAge \in Nat
        /\ client'.inAge \in Nat /\ client'.outAge \in Nat /\ client'.sessionAge \in Nat
    BY <1>1, <1>2 DEF Client
  <2>3. /\ client.outAge <= client.sessionAge /\ client.inAge <= client.sessionAge
        /\ RunOf(client) => /\ 1 <= client.dueAge /\ client.dueAge <= pingAnswerBudget - 1
                            /\ client.dueAge + PingInterval <= client.sessionAge
                            /\ client.outAge <= client.dueAge + PingInterval
        /\ client.outstanding /\ ~client.unsent => client.outAge < client.dueAge /\ client.inAge < client.dueAge
        /\ ~RunOf(client) => /\ client.outAge <= PingInterval \/ client.outAge <= pingAnswerBudget - 2
                             /\ client.inAge <= PingInterval \/ client.inAge <= pingAnswerBudget - 2
    <3>1. pingAnswerBudget \in Int /\ PingInterval \in Nat
      BY MqttConstants
    <3> QED
      BY <1>6, <2>2, <3>1 DEF PingOk
  <2>4. client'.outAge <= client.outAge + 1 /\ client'.inAge <= client.inAge + 1
    BY <1>2, <2>2, LaterFacts
  <2>5. client'.outAge <= client'.sessionAge /\ client'.inAge <= client'.sessionAge
    BY <1>2, <2>2, <2>3, LaterFacts
  <2>6. RunOf(client) => client'.dueAge = client.dueAge + 1
    <3>1. RunOf(client) => client.dueAge < MaxClock
      BY <2>2, <2>3, MqttConstants
    <3> QED
      BY <1>2, <2>2, <3>1, LaterFacts
  <2>7. RunOf(client) => client.dueAge + 1 + PingInterval <= client'.sessionAge
    <3>1. CASE client.sessionAge < MaxClock
      <4>1. client'.sessionAge = client.sessionAge + 1
        BY <1>2, <2>2, <3>1, LaterFacts
      <4> QED
        BY <2>2, <2>3, <4>1, MqttConstants
    <3>2. CASE ~(client.sessionAge < MaxClock)
      <4>1. client'.sessionAge = client.sessionAge
        BY <1>2, <2>2, <3>2, LaterFacts
      <4> QED
        BY <2>2, <2>3, <3>2, <4>1, MqttConstants
    <3> QED
      BY <3>1, <3>2
  <2>8. RunOf(client) => /\ 1 <= client'.dueAge /\ client'.dueAge <= pingAnswerBudget - 1 + 1
                         /\ client'.dueAge + PingInterval <= client'.sessionAge
                         /\ client'.outAge <= client'.dueAge + PingInterval
    BY <2>2, <2>3, <2>4, <2>6, <2>7, MqttConstants
  <2>9. client.outstanding /\ ~client.unsent => client'.outAge < client'.dueAge /\ client'.inAge < client'.dueAge
    BY <2>2, <2>3, <2>4, <2>6 DEF RunOf
  <2>10. ~RunOf(client) =>
           /\ client'.outAge <= PingInterval + 1 \/ client'.outAge <= pingAnswerBudget - 2 + 1
           /\ client'.inAge <= PingInterval + 1 \/ client'.inAge <= pingAnswerBudget - 2 + 1
    BY <2>2, <2>3, <2>4, MqttConstants
  <2> QED
    BY <2>5, <2>8, <2>9, <2>10
<1> QED
  BY <1>4, <1>5, <1>6 DEF MqttInv, PingInv

LEMMA MqttInitially == MqttInit => MqttInv /\ PingInv
<1> SUFFICES ASSUME MqttInit PROVE MqttInv /\ PingInv
  OBVIOUS
<1>1. client = Idle /\ served = TRUE
  BY DEF MqttInit
<1>2. Idle \in Client
  BY DEF Idle, Client, ClientStates
<1>3. Idle.sock = FALSE /\ Idle.acksMatch = TRUE /\ Idle.heardAge = 0 /\ Idle.outAge = 0
  BY DEF Idle
<1>4. ~connected(Idle)
  BY <1>3 DEF connected
<1>5. ReaderOk(Idle) /\ \A e : PingOk(Idle, e)
  BY <1>2, <1>3, <1>4 DEF ReaderOk, PingOk
<1> QED
  BY <1>1, <1>5 DEF MqttInv, PingInv

LEMMA MqttStep ==
  ASSUME MqttInv, [MqttNext]_mqttVars
  PROVE  MqttInv' /\ (pingAnswerBudget >= 2 /\ PingInv => PingInv')
<1>1. CASE loop
  BY <1>1, LoopKeeps
<1>2. CASE publish \/ publish_P \/ unsubscribe
  BY <1>2, SendPacketKeeps DEF publish, publish_P, unsubscribe
<1>3. CASE subscribe \/ awaitSubAck
  BY <1>3, SubscribeKeeps, AwaitSubAckKeeps
<1>4. CASE disconnect \/ \E fate \in ConnectFates : connect(fate)
  BY <1>4, DisconnectKeeps, ConnectKeeps
<1>5. CASE \/ \E p \in Packets : brokerSends(p)
           \/ linkDies \/ tick
  BY <1>5, BrokerSendsKeeps, LinkDiesKeeps, TickKeeps
<1>6. CASE UNCHANGED mqttVars
  BY <1>6 DEF MqttInv, PingInv, SinceLoop, mqttVars
<1> QED
  BY <1>1, <1>2, <1>3, <1>4, <1>5, <1>6 DEF MqttNext

LEMMA MqttInvHolds == MqttSpec => []MqttInv
<1>1. MqttInit => MqttInv
  BY MqttInitially
<1>2. MqttInv /\ [MqttNext]_mqttVars => MqttInv'
  BY MqttStep
<1> QED
  BY <1>1, <1>2, PTL DEF MqttSpec

LEMMA PingInvHolds ==
  ASSUME pingAnswerBudget >= 2
  PROVE  MqttSpec => []PingInv
<1>1. MqttInit => PingInv
  BY MqttInitially
<1>2. MqttInv /\ PingInv /\ [MqttNext]_mqttVars => PingInv'
  BY MqttStep
<1> QED
  BY <1>1, <1>2, MqttInvHolds, PTL DEF MqttSpec

\* Nothing is built over a packet half read, and every message is acknowledged
\* under its own id, whatever the callback publishes and for every bound of
\* the socket's queue (settleReader, dispatchPublish, pumpReader).
THEOREM HalfReadAlwaysKept == MqttSpec => []HalfReadIsKept
<1>1. MqttInv => HalfReadIsKept
  BY DEF MqttInv, ReaderOk, HalfReadIsKept
<1> QED
  BY <1>1, MqttInvHolds, PTL

\* A run of pings belongs to its session: for every keep-alive and ping
\* interval that leave an answer two ticks (awaitConnAck, servicePing).
THEOREM RunAlwaysOfSession ==
  ASSUME pingAnswerBudget >= 2
  PROVE  MqttSpec => []RunBelongsToSession
<1>1. PingInv => RunBelongsToSession
  BY DEF PingInv, PingOk, RunOf, RunBelongsToSession
<1> QED
  BY <1>1, PingInvHolds, PTL

\* The broker's patience, one and a half keep-alives, is never exceeded by an
\* open session, for every keep-alive and every ping interval up to it that
\* leave an answer two ticks (pingAnswerBudgetMs, servicePing).
THEOREM BrokerAlwaysWaiting ==
  ASSUME pingAnswerBudget >= 2
  PROVE  MqttSpec => []BrokerStillWaiting
<1>1. MqttInv /\ PingInv => BrokerStillWaiting
  <2> SUFFICES ASSUME MqttInv, PingInv, connected(client)
               PROVE  2 * client.heardAge <= 3 * KeepAlive
    BY DEF BrokerStillWaiting
  <2>1. /\ client.dueAge \in Nat /\ client.outAge \in Nat /\ client.heardAge = client.outAge
    BY DEF MqttInv, ReaderOk, Client, PingInv, PingOk
  <2>2. SinceLoop \in {0, 1}
    BY DEF SinceLoop
  <2>3. client.outAge <= pingAnswerBudget + PingInterval
    <3>1. CASE RunOf(client)
      <4>1. client.dueAge <= pingAnswerBudget - 1 + SinceLoop /\ client.outAge <= client.dueAge + PingInterval
        BY <3>1 DEF PingInv, PingOk
      <4> QED
        BY <2>1, <2>2, <4>1, MqttConstants
    <3>2. CASE ~RunOf(client)
      <4>1. client.outAge <= PingInterval + SinceLoop \/ client.outAge <= pingAnswerBudget - 2 + SinceLoop
        BY <3>2 DEF PingInv, PingOk
      <4> QED
        BY <2>1, <2>2, <4>1, MqttConstants
    <3> QED
      BY <3>1, <3>2
  <2> QED
    BY <2>1, <2>3, MqttConstants
<1> QED
  BY <1>1, MqttInvHolds, PingInvHolds, PTL
=============================================================================
