---------------------------- MODULE FleetRollout ----------------------------
(***************************************************************************)
(* A fleet rollout of the server tool: the plan, and for each device in    *)
(* its order the node firmware a gateway hands on (FileTransfer), the      *)
(* device's own (OTAUpdater), the soak after each (SoakWatcher) and the    *)
(* return of the CAN nodes (CanNodePresence).  The tool learns everything  *)
(* from the retained topics of Connectivity and, for a node, of            *)
(* CanMqttGateway: availability, info and diag.                            *)
(*                                                                         *)
(* Every wait of the tool has a deadline, which may come at any time here. *)
(* How a file gets to a device is in UploadLink, how an image gets to a    *)
(* node in CanOtaTransfer.                                                 *)
(***************************************************************************)
EXTENDS Naturals, Sequences, SequencesExt, FiniteSets

CONSTANTS
  Order,         \* the devices, in the order of the rollout
  NodesOf,       \* per device: the CAN nodes behind it
  WithNodeFile,  \* devices whose step sends a node firmware first
  MaxMishaps     \* bound: drops, crashes, lost frames, failed starts

Fleet == ToSet(Order)
CanNodes == UNION {NodesOf[d] : d \in Fleet}
Subjects == Fleet \cup CanNodes
GatewayOf(n) == CHOOSE d \in Fleet : n \in NodesOf[d]

ASSUME FleetAssumption ==
  /\ Order \in Seq(Fleet) /\ \A i, j \in DOMAIN Order : Order[i] = Order[j] => i = j
  /\ IsFiniteSet(CanNodes)
  /\ NodesOf \in [Fleet -> SUBSET CanNodes] /\ CanNodes \cap Fleet = {}
  /\ \A d, e \in Fleet : NodesOf[d] \cap NodesOf[e] # {} => d = e
  /\ WithNodeFile \subseteq Fleet /\ MaxMishaps \in Nat

VARIABLES
  build,           \* per device or node: what it runs
  image,           \* what it will run after its next start
  live, linked,    \* who runs; which devices have an MQTT session
  clientOnline, clientEverSeen,   \* CanMqttGateway, per node
  canFrames,       \* per node: frames on their way to the gateway
  queued,          \* nodes with a turn in the gateway's cascade
  receiving,       \* devices that store an upload of the tool
  restartDue,      \* devices that stored a firmware and are about to restart
  retained,        \* the broker's retained availability and info
  wire,            \* messages on their way to the tool, in order
  session,         \* topics the tool is subscribed to
  phase, step,     \* what the tool waits for, and for which device
  seen, failed,    \* what the session's callbacks noted
  targets, confirmed,   \* nodes to watch, nodes found on the new build
  status, planned, \* the plan: per device its status and the nodes found live
  restarted, back, unsaid,   \* ghosts, see the properties
  mishaps

fleetVars == <<build, image, live, linked, clientOnline, clientEverSeen, canFrames, queued,
               receiving, restartDue, restarted, back, unsaid, mishaps>>
brokerVars == <<retained, wire>>
toolVars == <<session, phase, step, seen, failed, targets, confirmed, status, planned>>
rolloutVars == <<fleetVars, brokerVars, toolVars>>

-----------------------------------------------------------------------------
(* The broker                                                              *)

Message(from, field, value) == [from |-> from, field |-> field, value |-> value]
Topic(m) == <<m.from, m.field>>
Availability(s, value) == Message(s, "availability", value)
Info(s, b) == Message(s, "info", b)

Retained == Subjects \X {"availability", "info"}

\* Published with the retain flag where the topic has one, and handed to the tool
\* where it subscribed.
Keep(kept, m) == IF Topic(m) \in Retained THEN [kept EXCEPT ![Topic(m)] = m.value] ELSE kept
Handed(m) == IF Topic(m) \in session THEN <<m>> ELSE << >>

Publish(m) ==
  /\ retained' = Keep(retained, m)
  /\ wire' = wire \o Handed(m)

PublishBoth(m, next) ==
  /\ retained' = Keep(Keep(retained, m), next)
  /\ wire' = wire \o Handed(m) \o Handed(next)

Mishap == mishaps < MaxMishaps /\ mishaps' = mishaps + 1

\* Frames of a node.
Restart == [cmd |-> "RESTART"]
Version(n) == [cmd |-> "FW_VERSION", git |-> build[n]]

-----------------------------------------------------------------------------
(* The devices                                                             *)

\* A session that breaks ends with its will.
deviceDrops(d) ==
  /\ Mishap /\ d \in linked
  /\ linked' = linked \ {d}
  /\ Publish(Availability(d, "offline"))
  /\ UNCHANGED <<build, image, live, clientOnline, clientEverSeen, canFrames, queued,
                 receiving, restartDue, restarted, back, unsaid, toolVars>>

\* Connectivity::run: the new session announces the device, and tells of the
\* drop; only a start publishes info.
deviceReconnects(d) ==
  /\ d \in live \ linked
  /\ linked' = linked \cup {d}
  /\ PublishBoth(Availability(d, "online"), Message(d, "diag", "drop"))
  /\ UNCHANGED <<build, image, live, clientOnline, clientEverSeen, canFrames, queued,
                 receiving, restartDue, restarted, back, unsaid, mishaps, toolVars>>

\* The restart after a stored firmware (shutdownMqtt says offline), or a crash
\* (the will does): either way the topic says so if a session was up.
deviceStops(d) ==
  /\ d \in live
  /\ IF d \in restartDue THEN UNCHANGED mishaps ELSE Mishap
  /\ live' = live \ {d} /\ linked' = linked \ {d} /\ receiving' = receiving \ {d}
  /\ IF d \in linked THEN Publish(Availability(d, "offline")) ELSE UNCHANGED brokerVars
  /\ UNCHANGED <<build, image, clientOnline, clientEverSeen, canFrames, queued,
                 restartDue, restarted, back, unsaid, toolVars>>

\* CanMqttGateway::init of every node behind d.
nodesOffline(d) == {Availability(n, "offline") : n \in NodesOf[d]}

\* A start takes seconds, a turn of the tool's loop one at most: by then the tool
\* has read what was published before.
toolKeepsUp == wire = << >>

\* A start: the session with the device's announcement and info, then init() of
\* the drivers, which asks every node for its version.  An image that does not
\* start leaves the one before it; a session that breaks before the drivers'
\* turn swallows what they publish, and they do not say it again.
announces(d, running, said) ==
  LET own   == <<Availability(d, "online"), Info(d, running)>>
      after == IF said THEN nodesOffline(d) ELSE {Availability(d, "offline")}
  IN
  /\ retained' = [t \in Retained |->
       IF \E m \in after : Topic(m) = t THEN "offline"
       ELSE Keep(Keep(retained, own[1]), own[2])[t]]
  /\ wire' = wire \o Handed(own[1]) \o Handed(own[2]) \o SetToSeq({m \in after : Topic(m) \in session})

deviceStarts(d, applied, said) ==
  LET running == IF applied THEN image[d] ELSE build[d] IN
  /\ d \in Fleet \ live /\ toolKeepsUp
  /\ ~applied => image[d] # build[d] /\ said
  /\ IF applied /\ said THEN UNCHANGED mishaps ELSE Mishap
  /\ live' = live \cup {d}
  /\ build' = [build EXCEPT ![d] = running] /\ image' = [image EXCEPT ![d] = running]
  /\ linked' = IF said THEN linked \cup {d} ELSE linked
  /\ announces(d, running, said)
  /\ clientOnline' = clientOnline \ NodesOf[d] /\ clientEverSeen' = clientEverSeen \ NodesOf[d]
  /\ queued' = queued \ NodesOf[d]
  /\ canFrames' = [n \in CanNodes |-> IF n \notin NodesOf[d] THEN canFrames[n]
                     ELSE IF n \in live THEN <<Version(n)>> ELSE << >>]
  /\ restartDue' = restartDue \ {d}
  /\ restarted' = IF d \in restartDue THEN restarted \cup {d} ELSE restarted
  /\ back' = IF d \in restartDue THEN back \ NodesOf[d] ELSE back
  /\ unsaid' = IF said THEN unsaid ELSE unsaid \cup NodesOf[d]
  /\ UNCHANGED <<receiving, toolVars>>

-----------------------------------------------------------------------------
(* The nodes and their drivers on the gateway                              *)

\* The node stores the image and restarts: OTA_END, or a crash.
nodeStops(n) ==
  /\ n \in live
  /\ \/ /\ n \in queued /\ GatewayOf(n) \in live
        /\ queued' = queued \ {n} /\ image' = [image EXCEPT ![n] = "new"]
        /\ UNCHANGED mishaps
     \/ Mishap /\ UNCHANGED <<queued, image>>
  /\ live' = live \ {n}
  /\ UNCHANGED <<build, linked, clientOnline, clientEverSeen, canFrames, receiving, restartDue,
                 restarted, back, unsaid, brokerVars, toolVars>>

\* init() of the node: RESTART and FW_VERSION.
nodeStarts(n) ==
  /\ n \in CanNodes \ live
  /\ live' = live \cup {n}
  /\ build' = [build EXCEPT ![n] = image[n]]
  /\ canFrames' = [canFrames EXCEPT ![n] =
       IF GatewayOf(n) \in live THEN @ \o <<Restart, [cmd |-> "FW_VERSION", git |-> image[n]]>> ELSE @]
  /\ UNCHANGED <<image, linked, clientOnline, clientEverSeen, queued, receiving, restartDue,
                 restarted, back, unsaid, mishaps, brokerVars, toolVars>>

\* A frame lost on the bus or in a full queue.
frameLost(n) ==
  /\ canFrames[n] # << >> /\ Mishap
  /\ canFrames' = [canFrames EXCEPT ![n] = Tail(@)]
  /\ UNCHANGED <<build, image, live, linked, clientOnline, clientEverSeen, queued, receiving,
                 restartDue, restarted, back, unsaid, brokerVars, toolVars>>

\* What a gateway without a session publishes is lost.
PublishVia(d, m) == IF d \in linked THEN Publish(m) ELSE UNCHANGED brokerVars
PublishBothVia(d, m, next) == IF d \in linked THEN PublishBoth(m, next) ELSE UNCHANGED brokerVars

Heard(n) == clientEverSeen' = clientEverSeen \cup {n} /\ back' = back \cup {n}

\* canFrameArrivedCallback: a RESTART shows as offline and online and asks for
\* the version, a FW_VERSION becomes the node's info.
canFrameArrived(n) ==
  /\ canFrames[n] # << >> /\ GatewayOf(n) \in live
  /\ Heard(n)
  /\ clientOnline' = clientOnline \cup {n}
  /\ \/ /\ Head(canFrames[n]) = Restart
        /\ PublishBothVia(GatewayOf(n), Availability(n, "offline"), Availability(n, "online"))
        /\ canFrames' = [canFrames EXCEPT ![n] = Tail(@) \o IF n \in live THEN <<Version(n)>> ELSE << >>]
     \/ /\ Head(canFrames[n]).cmd = "FW_VERSION"
        /\ IF n \in clientOnline THEN PublishVia(GatewayOf(n), Info(n, Head(canFrames[n]).git))
           ELSE PublishBothVia(GatewayOf(n), Info(n, Head(canFrames[n]).git), Availability(n, "online"))
        /\ canFrames' = [canFrames EXCEPT ![n] = Tail(@)]
  /\ UNCHANGED <<build, image, live, linked, queued, receiving, restartDue, restarted,
                 unsaid, mishaps, toolVars>>

\* handlePing: a node that answers the ping is online again, one that has been
\* silent for five seconds is not.
handlePing(n) ==
  /\ GatewayOf(n) \in live /\ canFrames[n] = << >>
  /\ \/ /\ n \in live \ clientOnline
        /\ Heard(n)
        /\ clientOnline' = clientOnline \cup {n}
        /\ PublishVia(GatewayOf(n), Availability(n, "online"))
        /\ UNCHANGED mishaps
     \/ /\ n \in clientOnline
        /\ IF n \in live THEN Mishap ELSE UNCHANGED mishaps
        /\ clientOnline' = clientOnline \ {n}
        /\ PublishVia(GatewayOf(n), Availability(n, "offline"))
        /\ UNCHANGED <<clientEverSeen, back>>
  /\ UNCHANGED <<build, image, live, linked, canFrames, queued, receiving, restartDue,
                 restarted, unsaid, toolVars>>

-----------------------------------------------------------------------------
(* The tool                                                                *)

Unseen == [s \in Subjects |->
             [availability |-> "none", info |-> "none", offline |-> FALSE, fresh |-> FALSE]]

\* The subscriptions of each client; "ack" is the device's verdict on an upload.
Watched(p, d) ==
  CASE p = "file"      -> NodesOf[d] \X {"availability", "info"} \cup {<<d, "ack">>}
    [] p = "preflight" -> {d} \X {"availability", "info", "ack"}
    [] p = "baseline"  -> {d} \X {"availability", "info", "diag"}
    [] p = "baseline with nodes" ->
         {d} \X {"availability", "info", "diag"} \cup NodesOf[d] \X {"availability", "info"}
    [] p = "presence"  -> NodesOf[d] \X {"availability"}

\* Connects a client of its own: the retained values come first, in any order.
\* Only OTAUpdater can tell the orders apart.
enter(p, i) ==
  LET topics == Watched(p, Order[i])
      kept   == {Message(t[1], t[2], retained[t]) : t \in topics \cap Retained}
  IN
  /\ phase' = p /\ step' = i
  /\ session' = topics
  /\ IF p = "preflight" THEN wire' \in SetToSeqs(kept) ELSE wire' = SetToSeq(kept)
  /\ seen' = Unseen /\ failed' = FALSE
  /\ UNCHANGED retained

\* The start message reaches a device that is there for it.
startUpload(d) ==
  receiving' = IF d \in live \cap linked THEN receiving \cup {d} ELSE receiving \ {d}

\* _run_rollout_step: the node firmware first, where there is one.
beginStep(i) ==
  IF Order[i] \in WithNodeFile
  THEN enter("file", i) /\ startUpload(Order[i])
  ELSE enter("preflight", i) /\ UNCHANGED receiving

rolloutOver ==
  /\ phase' = "over" /\ session' = {} /\ wire' = << >>
  /\ UNCHANGED <<step, seen, failed, retained, receiving>>

\* run_rollout: the next step that is pending.
walkOn(i, st) ==
  LET pending == {j \in DOMAIN Order : j > i /\ st[Order[j]] = "pending"}
  IN \/ pending = {} /\ rolloutOver
     \/ \E j \in pending : (\A k \in pending : j <= k) /\ beginStep(j)

fleetUnchanged == UNCHANGED <<build, image, live, linked, clientOnline, clientEverSeen, canFrames,
                              queued, restartDue, restarted, back, unsaid, mishaps>>

\* build_rollout_plan, from one snapshot of those that answer in time.
entryIsCurrent(s) == retained[<<s, "info">>] = "new"

planRollout(answered) ==
  LET online(s) == s \in answered /\ retained[<<s, "availability">>] = "online"
      nodes(d)  == {n \in NodesOf[d] : online(n)}
      state(d)  == IF ~online(d) THEN "offline"
                   ELSE IF \A s \in {d} \cup nodes(d) : entryIsCurrent(s) THEN "current"
                   ELSE "pending"
  IN
  /\ phase = "plan"
  /\ planned' = [d \in Fleet |-> IF online(d) THEN nodes(d) ELSE {}]
  /\ status' = [d \in Fleet |-> state(d)]
  /\ walkOn(0, status')
  /\ fleetUnchanged /\ UNCHANGED <<targets, confirmed>>

stepDone ==
  /\ status' = [status EXCEPT ![Order[step]] = "done"]
  /\ walkOn(step, status)
  /\ fleetUnchanged /\ UNCHANGED <<planned, targets, confirmed>>

\* The first failure ends the rollout.
stepFails ==
  /\ status' = [d \in Fleet |->
       IF d = Order[step] THEN "failed"
       ELSE IF status[d] = "pending" THEN "not reached" ELSE status[d]]
  /\ rolloutOver
  /\ fleetUnchanged /\ UNCHANGED <<planned, targets, confirmed>>

goOn(p) ==
  /\ enter(p, step)
  /\ fleetUnchanged /\ UNCHANGED <<receiving, targets, confirmed, status, planned>>

\* Another wait of the same client.
waitFor(p) ==
  /\ phase' = p
  /\ fleetUnchanged
  /\ UNCHANGED <<session, step, failed, confirmed, status, planned, brokerVars>>

\* _on_message of the three clients: what a message leaves in their fields.
noted(of, m) ==
  CASE m.field = "availability" ->
         [of EXCEPT !.availability = m.value, !.offline = @ \/ m.value = "offline"]
    [] m.field = "info" -> [of EXCEPT !.info = m.value, !.fresh = TRUE]
    [] OTHER -> of

\* SoakWatcher._record_failure.
endsSoak(m) == m.field = "availability" => m.value = "offline"

\* A wait of OTAUpdater is over in the turn of the loop that brings what it is for,
\* and one message is read in a turn.
waitIsOver ==
  LET own == seen[Order[step]] IN
  \/ phase = "preflight" /\ own.availability # "none"
  \/ phase = "draining" /\ own.fresh
  \/ phase = "verify" /\ own.offline /\ own.fresh

onMessage ==
  LET m == Head(wire) IN
  /\ wire # << >> /\ ~waitIsOver
  /\ wire' = Tail(wire)
  /\ seen' = [seen EXCEPT ![m.from] = noted(@, m)]
  /\ failed' = (failed \/ (phase \in {"soak", "soak with nodes"} /\ endsSoak(m)))
  /\ phase' = IF m.field # "ack" THEN phase
              ELSE IF phase = "file" THEN "discovery" ELSE "verify"
  /\ fleetUnchanged
  /\ UNCHANGED <<receiving, retained, session, step, targets, confirmed, status, planned>>

\* The device has the whole upload: a firmware to restart into, or a node
\* firmware, for which the registry queues the nodes that are online.
uploadStores(d) ==
  /\ phase \in {"file", "sending"} /\ d = Order[step]
  /\ d \in receiving \cap linked
  /\ receiving' = receiving \ {d}
  /\ wire' = Append(wire, Message(d, "ack", "stored"))
  /\ \/ /\ phase = "file"
        /\ queued' = queued \cup (NodesOf[d] \cap clientOnline)
        /\ UNCHANGED <<image, restartDue>>
     \/ /\ phase = "sending"
        /\ image' = [image EXCEPT ![d] = "new"] /\ restartDue' = restartDue \cup {d}
        /\ UNCHANGED queued
  /\ UNCHANGED <<build, live, linked, clientOnline, clientEverSeen, canFrames, restarted, back,
                 unsaid, mishaps, retained, toolVars>>

transferFails == phase \in {"file", "sending"} /\ stepFails

baseline(s) == [seen[s] EXCEPT !.offline = FALSE, !.fresh = FALSE]

\* FileTransfer._verify_after_transfer: the nodes found live are watched, from a
\* baseline of their own.
discovered ==
  LET found == {n \in NodesOf[Order[step]] : seen[n].availability = "online"} IN
  /\ phase = "discovery"
  /\ \/ found = {} /\ goOn("baseline with nodes")
     \/ /\ found # {} /\ targets' = found
        /\ seen' = [s \in Subjects |-> IF s \in found THEN baseline(s) ELSE seen[s]]
        /\ waitFor("nodes") /\ UNCHANGED receiving

\* Mutant: that it restarted is enough, on whichever build.
confirmsBuildAny(s) == seen[s].offline /\ seen[s].fresh

confirmsBuild(s) == seen[s].offline /\ seen[s].fresh /\ seen[s].info = "new"

nodesVerdict ==
  LET good == {n \in targets : confirmsBuild(n)} IN
  /\ phase = "nodes"
  /\ \/ /\ good = targets
        /\ confirmed' = confirmed \cup good
        /\ enter("baseline with nodes", step)
        /\ fleetUnchanged /\ UNCHANGED <<receiving, targets, status, planned>>
     \/ good # targets /\ stepFails

\* SoakWatcher.run
soakBegins ==
  /\ phase \in {"baseline", "baseline with nodes"}
  /\ \/ /\ seen[Order[step]].availability = "online"
        /\ waitFor(IF phase = "baseline" THEN "soak" ELSE "soak with nodes")
        /\ UNCHANGED <<seen, targets, receiving>>
     \/ seen[Order[step]].availability # "online" /\ stepFails

soakEnds ==
  \/ phase \in {"soak", "soak with nodes"} /\ failed /\ stepFails
  \/ phase = "soak with nodes" /\ ~failed /\ goOn("preflight")
  \/ phase = "soak" /\ ~failed /\ planned[Order[step]] # {} /\ goOn("presence")
  \/ phase = "soak" /\ ~failed /\ planned[Order[step]] = {} /\ stepDone

\* OTAUpdater._await_preflight: the first availability decides, then the info that
\* predates the upload is waited for, and the baseline taken.
preflight ==
  LET d == Order[step] IN
  \/ /\ phase = "preflight" /\ seen[d].availability = "online"
     /\ waitFor("draining") /\ UNCHANGED <<seen, targets, receiving>>
  \/ /\ phase = "draining" /\ seen[d].fresh
     /\ seen' = [seen EXCEPT ![d] = baseline(d)]
     /\ waitFor("sending") /\ startUpload(d)
     /\ UNCHANGED targets
  \/ phase = "preflight" /\ seen[d].availability # "online" /\ stepFails
  \/ phase = "draining" /\ ~seen[d].fresh /\ stepFails

\* OTAUpdater._verify_after_transfer
verify ==
  /\ phase = "verify"
  /\ \/ confirmsBuild(Order[step]) /\ goOn("baseline")
     \/ ~confirmsBuild(Order[step]) /\ stepFails

\* CanNodePresence.run
presence ==
  LET missing == {n \in planned[Order[step]] : seen[n].availability # "online"} IN
  /\ phase = "presence"
  /\ \/ missing = {} /\ stepDone
     \/ missing # {} /\ stepFails

-----------------------------------------------------------------------------
\* Some of the fleet is off; what is retained of it is what it last said.
RolloutInit ==
  /\ build \in [Subjects -> {"old", "new"}] /\ image = build
  /\ live \in SUBSET Subjects
  /\ linked = live \cap Fleet
  /\ clientOnline = {n \in CanNodes : {n, GatewayOf(n)} \subseteq live}
  /\ clientEverSeen = clientOnline
  /\ canFrames = [n \in CanNodes |-> << >>]
  /\ retained = [t \in Retained |->
       IF t[2] = "info" THEN build[t[1]] ELSE IF t[1] \in live THEN "online" ELSE "offline"]
  /\ wire = << >> /\ session = {}
  /\ phase = "plan" /\ step = 0
  /\ seen = Unseen /\ failed = FALSE
  /\ status = [d \in Fleet |-> "none"] /\ planned = [d \in Fleet |-> {}]
  /\ queued = {} /\ receiving = {} /\ restartDue = {} /\ targets = {} /\ confirmed = {}
  /\ restarted = {} /\ back = {} /\ unsaid = {}
  /\ mishaps = 0

toolStep ==
  \/ \E answered \in SUBSET Subjects : planRollout(answered)
  \/ onMessage \/ transferFails \/ discovered \/ nodesVerdict
  \/ soakBegins \/ soakEnds \/ preflight \/ verify \/ presence

fleetStep ==
  \/ \E d \in Fleet : \/ deviceDrops(d) \/ deviceReconnects(d) \/ deviceStops(d) \/ uploadStores(d)
                      \/ \E applied, said \in BOOLEAN : deviceStarts(d, applied, said)
  \/ \E n \in CanNodes : nodeStops(n) \/ nodeStarts(n) \/ frameLost(n) \/ canFrameArrived(n) \/ handlePing(n)

\* What becomes of the fleet after the rollout is not followed.
RolloutNext ==
  \/ phase # "over" /\ (toolStep \/ fleetStep)
  \/ phase = "over" /\ UNCHANGED rolloutVars

RolloutSpec == RolloutInit /\ [][RolloutNext]_rolloutVars

-----------------------------------------------------------------------------
\* A step that is reported as done is one whose device has started again since
\* its firmware was stored, on that firmware: the offline message and the info
\* the verdict rests on are of that restart and of none before it, though the
\* device may also lose its session, crash, or fail to start the image.
DoneMeansRestarted ==
  \A d \in Fleet : status[d] = "done" => d \in restarted /\ build[d] = "new"

\* Every node found live before a gateway was updated has been heard of since
\* the gateway's restart when its step is done, and every node counted as
\* reflashed runs the new build.  Where the gateway lost its session before it
\* could take back the nodes' availability (unsaid), the topic still speaks of
\* the time before.
NodesAccountedFor ==
  /\ \A d \in Fleet : status[d] = "done" => planned[d] \subseteq back \cup unsaid
  /\ \A n \in confirmed : build[n] = "new"
=============================================================================
