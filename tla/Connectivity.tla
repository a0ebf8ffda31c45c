---------------------------- MODULE Connectivity ----------------------------
(***************************************************************************)
(* How an ESP device gets onto the broker, stays there and comes back:     *)
(* the startup with its stages, the passes of Connectivity::run, the       *)
(* backoff ladder that outlives a reset in RTC memory, the retained        *)
(* availability at the broker and its will.                                *)
(*                                                                         *)
(* Device, RTC memory and broker are one record esp: the calls of one      *)
(* pass compose.  Timestamps are kept as ages in ticks.  The fields held,  *)
(* failures and forgot are history: how long the session is up, how many   *)
(* failures the ladder was told of since it was last cleared (counted up   *)
(* to its top), and whether a start has overwritten a rung since then that *)
(* it never read.                                                          *)
(***************************************************************************)
EXTENDS Integers, Sequences

CONSTANTS
  delaysMs,          \* the wait on each rung of the ladder, 0 .. top
  onlineSettleTime,  \* a link must hold this long
  deviceResetTime,   \* offline this long, the device restarts
  MaxFaults          \* bound on what goes wrong

stepCount == Len(delaysMs)

ASSUME ConnectivityAssumption ==
  /\ delaysMs \in Seq(Nat) /\ delaysMs # << >>
  /\ {onlineSettleTime, deviceResetTime, MaxFaults} \subseteq Nat

VARIABLES
  esp,     \* the device, its RTC memory and what the broker holds of it
  net,     \* the router answers
  broker,  \* the broker answers
  faults   \* how much went wrong

netVars == <<esp, net, broker, faults>>

(* A slot of RTC memory no run has written since the power came. *)
NoRecord == -1

Stages == <<"Banner", "FileSystem", "BackoffWait", "NetworkStart", "AddressWait", "ClockSync",
            "Credentials", "Certificate", "BrokerConnect", "Subscribe", "Announce", "Running">>

-----------------------------------------------------------------------------
(* RTC memory, boot progress and the ladder *)

setStage(s, stage) == [s EXCEPT !.rtcStage = stage]

getDelay(s) == delaysMs[s.rung + 1]

storeRung(s) == [s EXCEPT !.rtcRung = s.rung]

onFailure(s) == [s EXCEPT !.rung = IF @ + 1 < stepCount THEN @ + 1 ELSE @, !.failures = IF @ + 1 < stepCount THEN @ + 1 ELSE @]

onSuccess(s) == [s EXCEPT !.rung = 0, !.failures = 0, !.forgot = FALSE]

(* A reset: memory is lost, RTC memory and what the broker holds are not. *)
restartMCU(s, byWatchdog) ==
  [s EXCEPT !.phase = "off", !.wdt = byWatchdog, !.session = FALSE]

-----------------------------------------------------------------------------
(* The broker's side of a session *)

(* A clean session is accepted; one still held for the device ends with its will. *)
accept(s) == [s EXCEPT !.session = TRUE, !.held = 0, !.brokerSession = TRUE, !.subscribed = FALSE,
                       !.avail = IF s.brokerSession THEN "offline" ELSE @]

(* A DISCONNECT that arrives ends the session without its will. *)
endMqtt(s, arrives) ==
  [s EXCEPT !.session = FALSE,
            !.brokerSession = IF arrives THEN FALSE ELSE @, !.subscribed = IF arrives THEN FALSE ELSE @]

(* How a connect can end; where it hangs the watchdog ends it. *)
Fates == {"done", "refused", "not subscribed", "not announced",
          "hangs connecting", "hangs subscribing", "hangs announcing"}
Hangs == {"hangs connecting", "hangs subscribing", "hangs announcing"}

(* What the world allows: without router or broker there is no session. *)
FatesNow == IF net /\ broker THEN (IF faults < MaxFaults THEN Fates ELSE {"done"})
            ELSE IF faults < MaxFaults THEN {"refused", "hangs connecting"} ELSE {"refused"}

\* Mutant: a session without its subscription is kept.
connectToMqttServerKeeps(s, fate) ==
  LET subscribing == setStage(accept(setStage(s, "BrokerConnect")), "Subscribe")
      announcing  == setStage([subscribing EXCEPT !.subscribed = TRUE], "Announce")
  IN  CASE fate \in {"refused", "hangs connecting"}             -> setStage(s, "BrokerConnect")
        [] fate \in {"not subscribed", "hangs subscribing"}     -> subscribing
        [] fate \in {"not announced", "hangs announcing"}       -> announcing
        [] fate = "done"                                        -> [announcing EXCEPT !.avail = "online"]

connectToMqttServer(s, fate) ==
  LET connecting  == setStage(s, "BrokerConnect")
      subscribing == setStage(accept(connecting), "Subscribe")
      announcing  == setStage([subscribing EXCEPT !.subscribed = TRUE], "Announce")
  IN  CASE fate \in {"refused", "hangs connecting"} -> connecting
        [] fate = "not subscribed"                  -> endMqtt(subscribing, TRUE)
        [] fate = "hangs subscribing"               -> subscribing
        [] fate = "not announced"                   -> endMqtt(announcing, TRUE)
        [] fate = "hangs announcing"                -> announcing
        [] fate = "done"                            -> [announcing EXCEPT !.avail = "online"]

-----------------------------------------------------------------------------
(* Startup *)

Memory(s) == [s EXCEPT !.rung = 0, !.netSeen = TRUE, !.online = TRUE, !.dropped = FALSE,
                       !.reconnectAge = 0, !.onlineAge = 0, !.offlineAge = 0]

begin ==
  /\ esp.phase = "off"
  /\ esp' = setStage([Memory(esp) EXCEPT !.phase = "boot"], "Banner")
  /\ UNCHANGED <<net, broker, faults>>

\* Mutant: the rung stepped for the watchdog is not stored.
waitOutBackoffUnstored(s) ==
  LET restored == IF s.rtcRung = NoRecord THEN s ELSE [s EXCEPT !.rung = s.rtcRung]
  IN  IF s.wdt THEN onFailure(restored) ELSE restored

(* The rung is stored before the attempt: one that hangs runs nothing more. *)
waitOutBackoff(s) ==
  LET restored == IF s.rtcRung = NoRecord THEN s ELSE [s EXCEPT !.rung = s.rtcRung]
  IN  storeRung(IF s.wdt THEN onFailure(restored) ELSE restored)

(* One step of initOnce done, the next one entered. *)
initStep ==
  /\ esp.phase = "boot"
  /\ \E i \in 1 .. 7 :
       /\ esp.rtcStage = Stages[i]
       /\ Stages[i] = "AddressWait" => net
       /\ esp' = LET entered == setStage(esp, Stages[i + 1])
               IN  IF Stages[i + 1] = "BackoffWait" THEN waitOutBackoff(entered) ELSE entered
  /\ UNCHANGED <<net, broker, faults>>

(* Every failed start steps the ladder it has in memory, stores it and     *)
(* restarts.  Before waitOutBackoff has read the ladder back that is the   *)
(* first rung, and what RTC memory held is overwritten.                    *)
initFailed(s) ==
  LET early == s.rtcStage \in {"Banner", "FileSystem"}
  IN  restartMCU(storeRung(onFailure([s EXCEPT !.forgot = @ \/ (early /\ s.rtcRung > 0)])), FALSE)

initFails ==
  /\ esp.phase = "boot"
  /\ faults < MaxFaults /\ faults' = faults + 1
  /\ esp' = initFailed(esp)
  /\ UNCHANGED <<net, broker>>

addressTimeout ==
  /\ esp.phase = "boot" /\ esp.rtcStage = "AddressWait" /\ ~net
  /\ esp' = initFailed(esp)
  /\ UNCHANGED <<net, broker, faults>>

(* The last steps of the startup: the broker, then the main loop. *)
initConnects ==
  /\ esp.phase = "boot" /\ esp.rtcStage = "Certificate"
  /\ \E fate \in FatesNow :
       LET s == connectToMqttServer(esp, fate)
       IN  /\ esp' = CASE fate = "done"     -> setStage(storeRung([s EXCEPT !.phase = "run", !.onlineAge = 0]), "Running")
                     [] fate \in Hangs    -> restartMCU(s, TRUE)
                     [] OTHER             -> initFailed(s)
           /\ faults' = IF (net /\ broker /\ fate # "done") \/ fate \in Hangs THEN faults + 1 ELSE faults
  /\ UNCHANGED <<net, broker>>

-----------------------------------------------------------------------------
(* A pass of run() *)

(* The offline notice and the DISCONNECT do not get past a link that is gone. *)
shutdownMqtt(s) == endMqtt([s EXCEPT !.avail = IF net THEN "offline" ELSE @], net)

followNetwork(s, fate) ==
  CASE net /\ ~s.netSeen -> connectToMqttServer([s EXCEPT !.netSeen = TRUE], fate)
    [] ~net /\ s.netSeen -> shutdownMqtt([s EXCEPT !.netSeen = FALSE])
    [] OTHER             -> s

reconnectDue(s) == ~s.session /\ s.netSeen /\ s.reconnectAge > getDelay(s)

retryBroker(s, fate) ==
  IF s.session THEN [s EXCEPT !.reconnectAge = 0]
  ELSE IF ~reconnectDue(s) THEN s
  ELSE LET tried == connectToMqttServer([s EXCEPT !.reconnectAge = 0], fate)
       IN  IF fate = "done" \/ fate \in Hangs THEN tried ELSE storeRung(onFailure(tried))

(* An outage is on record from the pass that sees it to the report, made   *)
(* once, of the pass that is back online.                                  *)
recordDisconnect(s) == [s EXCEPT !.dropped = TRUE]

publishDisconnectDiag(s) == [s EXCEPT !.dropped = FALSE]

\* Mutant: being online does not restart the reset timer.
judgeOnlineKeepsTimer(s) ==
  LET up    == s.netSeen /\ s.session
      timed == IF up /\ s.rung # 0 /\ s.onlineAge > onlineSettleTime THEN storeRung(onSuccess(s)) ELSE s
  IN  [timed EXCEPT !.online = up, !.onlineAge = IF up /\ ~s.online THEN 0 ELSE @]

(* The ladder is cleared by the time since the link came up, before a link *)
(* that came up in this pass is stamped.                                   *)
judgeOnline(s) ==
  LET up      == s.netSeen /\ s.session
      settled == up /\ s.rung # 0 /\ s.onlineAge > onlineSettleTime
      cleared == IF settled THEN storeRung(onSuccess(s)) ELSE s
      timed   == IF up THEN [cleared EXCEPT !.offlineAge = 0] ELSE cleared
  IN  CASE up /\ ~s.online -> publishDisconnectDiag([timed EXCEPT !.online = TRUE, !.onlineAge = 0])
        [] ~up /\ s.online -> recordDisconnect([timed EXCEPT !.online = FALSE])
        [] OTHER           -> timed

run ==
  /\ esp.phase = "run"
  /\ \E first \in IF net /\ ~esp.netSeen THEN FatesNow ELSE {"done"} :
       LET followed == followNetwork(esp, first)
       IN  \E second \in IF reconnectDue(followed) THEN FatesNow ELSE {"done"} :
             LET retried == retryBroker(followed, second)
                 judged  == judgeOnline(retried)
                 wrong   == {first, second} \ {"done"}
             IN  /\ esp' = CASE first \in Hangs                      -> restartMCU(followed, TRUE)
                           [] first \notin Hangs /\ second \in Hangs -> restartMCU(retried, TRUE)
                           [] OTHER -> IF judged.offlineAge > deviceResetTime THEN restartMCU(judged, FALSE) ELSE judged
                 /\ faults' = IF wrong # {} /\ ((net /\ broker) \/ wrong \cap Hangs # {}) THEN faults + 1 ELSE faults
  /\ UNCHANGED <<net, broker>>

-----------------------------------------------------------------------------
(* The world *)

(* The watchdog ends a run at any point; a power cycle blanks RTC memory. *)
watchdogReset ==
  /\ esp.phase # "off" /\ faults < MaxFaults /\ faults' = faults + 1
  /\ esp' = restartMCU(esp, TRUE)
  /\ UNCHANGED <<net, broker>>

powerCycle ==
  /\ faults < MaxFaults /\ faults' = faults + 1
  /\ esp' = [restartMCU(esp, FALSE) EXCEPT !.rtcRung = NoRecord, !.rtcStage = "no record",
                                              !.failures = 0, !.forgot = FALSE]
  /\ UNCHANGED <<net, broker>>

(* A session the broker no longer hears of ends with its will; the device  *)
(* goes on with it until a write fails or the keep-alive runs out.         *)
endSession(s) == [s EXCEPT !.brokerSession = FALSE, !.subscribed = FALSE,
                           !.avail = IF s.brokerSession THEN "offline" ELSE @]

brokerNotices ==
  /\ esp.brokerSession /\ (~esp.session \/ ~net)
  /\ esp' = endSession(esp)
  /\ UNCHANGED <<net, broker, faults>>

deviceNotices ==
  /\ esp.session /\ ~esp.brokerSession
  /\ esp' = [esp EXCEPT !.session = FALSE]
  /\ UNCHANGED <<net, broker, faults>>

sessionDrops ==
  /\ esp.session /\ faults < MaxFaults /\ faults' = faults + 1
  /\ esp' = [esp EXCEPT !.session = FALSE]
  /\ UNCHANGED <<net, broker>>

netFails ==
  /\ net /\ faults < MaxFaults /\ faults' = faults + 1
  /\ net' = FALSE
  /\ UNCHANGED <<esp, broker>>

brokerFails ==
  /\ broker /\ faults < MaxFaults /\ faults' = faults + 1
  /\ broker' = FALSE /\ esp' = endSession(esp)
  /\ UNCHANGED net

netReturns == ~net /\ net' = TRUE /\ UNCHANGED <<esp, broker, faults>>

brokerReturns == ~broker /\ broker' = TRUE /\ UNCHANGED <<esp, net, faults>>

(* Clocks stop where no comparison tells them apart. *)
MaxNetAge == deviceResetTime + 1
aged(age) == IF age < MaxNetAge THEN age + 1 ELSE age

netTick ==
  /\ esp.phase = "run"
  /\ esp' = [esp EXCEPT !.reconnectAge = aged(@), !.onlineAge = aged(@), !.offlineAge = aged(@),
                    !.held = IF esp.session THEN aged(@) ELSE 0]
  /\ UNCHANGED <<net, broker, faults>>

NetInit ==
  /\ esp = [phase |-> "off", rtcRung |-> NoRecord, rtcStage |-> "no record", wdt |-> FALSE,
          rung |-> 0, netSeen |-> TRUE, online |-> TRUE, dropped |-> FALSE,
          reconnectAge |-> 0, onlineAge |-> 0, offlineAge |-> 0,
          session |-> FALSE, brokerSession |-> FALSE, subscribed |-> FALSE, avail |-> "offline",
          held |-> 0, failures |-> 0, forgot |-> FALSE]
  /\ net \in BOOLEAN /\ broker \in BOOLEAN /\ faults = 0

Startup == begin \/ initStep \/ initConnects \/ addressTimeout

World == watchdogReset \/ powerCycle \/ brokerNotices \/ sessionDrops \/ netFails \/ brokerFails \/ initFails

NetNext == Startup \/ run \/ netTick \/ deviceNotices \/ netReturns \/ brokerReturns \/ World

NetFairness ==
  /\ WF_netVars(Startup) /\ WF_netVars(run) /\ WF_netVars(netTick) /\ WF_netVars(deviceNotices)
  /\ WF_netVars(netReturns) /\ WF_netVars(brokerReturns)

NetSpec == NetInit /\ [][NetNext]_netVars

NetFairSpec == NetSpec /\ NetFairness

-----------------------------------------------------------------------------
(* Properties *)

(* The rung outlives a reset: whatever step a start, an attempt or the     *)
(* watchdog cuts short, the ladder in RTC memory counts the failures it    *)
(* was told of since it was cleared or the power came, and the rung in use *)
(* is the one stored.  One case is exempt, forgot: a start that fails      *)
(* before waitOutBackoff overwrites a rung it never read (init).  The      *)
(* ladder then counts fewer failures, but is never back on its first rung. *)
LadderSurvives ==
  /\ esp.rtcRung # NoRecord =>
       IF esp.forgot THEN esp.rtcRung \in 1 .. esp.failures ELSE esp.rtcRung = esp.failures
  /\ esp.phase = "run" => esp.rtcRung = esp.rung

(* The broker shows the device as available only while it holds a session  *)
(* of it, and a running device with a session at both ends is subscribed   *)
(* and shown: no half-made connection is kept (connectToMqttServer).       *)
AvailabilityTruthful ==
  /\ esp.avail = "online" => esp.brokerSession
  /\ esp.phase = "run" /\ esp.session /\ esp.brokerSession => esp.subscribed /\ esp.avail = "online"

(* Whatever fails, hangs or restarts: once router and broker answer and    *)
(* nothing more goes wrong a device that was switched on is online for     *)
(* good, and the broker shows it.                                          *)
Recovers ==
  [](esp.phase # "off" => <>[](esp.phase = "run" /\ esp.session /\ esp.online /\ esp.avail = "online"))

(* "A connection must hold this long before the backoff ladder is cleared" *)
(* (connectivity.hpp, onlineSettleTime).                                   *)
ClearedOnlyWhenSettled ==
  [][esp.phase = "run" /\ esp.rung > 0 /\ esp'.rung = 0 /\ esp'.phase = "run" => esp.held > onlineSettleTime]_netVars
=============================================================================
