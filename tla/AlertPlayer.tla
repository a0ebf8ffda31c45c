----------------------------- MODULE AlertPlayer -----------------------------
(***************************************************************************)
(* The alert node: DFPlayer, the state machine that powers an MP3 module,  *)
(* hands it one queued track after the other and watches its BUSY line,    *)
(* the LED strip it borrows for a track's colour, and the commands that    *)
(* reach both, from the JSON the gateway's CanAlertDriver reads.           *)
(*                                                                         *)
(* The module answers nothing: a command may be lost, and what it does is  *)
(* seen by the level of BUSY and, once attached, by the interrupt of its   *)
(* rising edge.  A timer is only ever compared with the wait of the        *)
(* state that started it: due says that this wait is over.                 *)
(***************************************************************************)
EXTENDS Integers, Sequences, Fifo

CONSTANTS
  playQueueSize,       \* slots of playingQueue
  maxTrack,            \* the highest track the module addresses
  playStartRetries,    \* re-sends before the module is power-cycled
  moduleRestartLimit,  \* power cycles before the track is given up
  Sounds,              \* the tracks a message asks for
  MaxAlerts            \* bound on messages and button presses

ASSUME AlertAssumption ==
  /\ {playQueueSize, maxTrack} \subseteq Nat \ {0}
  /\ {playStartRetries, moduleRestartLimit, MaxAlerts} \subseteq Nat
  /\ Sounds \subseteq Nat \ {0}

VARIABLES
  mp3,     \* the state machine
  mod,     \* the module: power, the command it has taken, whether it plays
  led,     \* the colour shown, the one saved, and the button's toggle
  alerts   \* messages and presses so far

alertVars == <<mp3, mod, led, alerts>>

NoSound == 0
Unusable == -1

AlertInit ==
  /\ mp3 = [state |-> "IDLE", queue |-> << >>, track |-> NoSound, color |-> "dark", retries |-> 0,
            restarts |-> 0, enablePlay |-> FALSE, attached |-> FALSE, due |-> FALSE]
  /\ mod = [on |-> FALSE, heard |-> FALSE, playing |-> FALSE,
            begun |-> FALSE,     \* ghost: it began the track being handled
            reported |-> FALSE,  \* ghost: the track being handled was reported as failed
            overrun |-> FALSE]   \* ghost: it missed a stop since it was powered up
  /\ led = [shown |-> "dark", saved |-> "dark", toggle |-> FALSE]
  /\ alerts = 0

-----------------------------------------------------------------------------
(* The LED strip *)

setColor(l, color, save) == [l EXCEPT !.shown = color, !.saved = IF save THEN color ELSE @]

loadColor(l) == setColor(l, l.saved, FALSE)

-----------------------------------------------------------------------------
(* The pieces of a pass *)

nextState(s) == [mp3 EXCEPT !.state = s]

(* A state that starts the timer for the next one. *)
timed(s) == [nextState(s) EXCEPT !.due = FALSE]

powerDownModule(m) ==
  /\ mod' = [mod EXCEPT !.on = FALSE, !.heard = FALSE, !.playing = FALSE, !.overrun = FALSE]
  /\ mp3' = [m EXCEPT !.attached = FALSE]

takeNext(s, flag) ==
  /\ mp3' = [nextState(s) EXCEPT !.queue = pop(@), !.track = mp3.queue[1].track, !.color = mp3.queue[1].color,
                                 !.retries = 0, !.restarts = 0, !.enablePlay = flag]
  /\ mod' = [mod EXCEPT !.begun = FALSE, !.reported = FALSE]

idle ==
  /\ mp3.state = "IDLE" /\ mp3.queue # << >>
  /\ takeNext("TURN_ON", mp3.enablePlay)
  /\ UNCHANGED led

turnOn ==
  /\ mp3.state = "TURN_ON"
  /\ mp3' = timed("WAIT_FOR_BOOT")
  /\ mod' = [mod EXCEPT !.on = TRUE]
  /\ UNCHANGED led

(* The waits that end in one state. *)
waited ==
  /\ mp3.due
  /\ \/ mp3.state = "WAIT_FOR_BOOT" /\ mp3' = nextState("SET_VOLUME")
     \/ mp3.state = "WAIT_FOR_CMD" /\ mp3' = nextState("PLAY")
     \/ mp3.state = "RESTART_MODULE" /\ mp3' = nextState("TURN_ON")
  /\ UNCHANGED <<mod, led>>

(* A track without a colour leaves the strip as it is. *)
setVolume ==
  /\ mp3.state = "SET_VOLUME"
  /\ led' = IF mp3.color = "dark" THEN led ELSE setColor(led, mp3.color, FALSE)
  /\ mp3' = timed("WAIT_FOR_CMD")
  /\ UNCHANGED mod

(* attachInt() drops an edge that stood before it. *)
playTrack(heard) ==
  /\ mp3.state = "PLAY"
  /\ mp3' = [timed("WAIT_FOR_START") EXCEPT !.attached = TRUE, !.enablePlay = FALSE]
  /\ mod' = [mod EXCEPT !.heard = @ \/ heard]
  /\ UNCHANGED led

\* Mutant: a track that did not start in time is taken for one that did.
waitForStartTrusting ==
  /\ mp3.state = "WAIT_FOR_START"
  /\ \/ mp3.enablePlay /\ mp3' = [nextState("CHECK_QUEUE") EXCEPT !.enablePlay = FALSE]
     \/ ~mp3.enablePlay /\ (mod.playing \/ mp3.due) /\ mp3' = timed("WAIT_FOR_PLAY")
  /\ UNCHANGED <<mod, led>>

waitForStart ==
  /\ mp3.state = "WAIT_FOR_START"
  /\ \/ /\ mp3.enablePlay
        /\ mp3' = [nextState("CHECK_QUEUE") EXCEPT !.enablePlay = FALSE]
        /\ UNCHANGED mod
     \/ /\ ~mp3.enablePlay /\ mod.playing
        /\ mp3' = timed("WAIT_FOR_PLAY")
        /\ UNCHANGED mod
     \/ /\ ~mp3.enablePlay /\ ~mod.playing /\ mp3.due
        /\ \/ /\ mp3.retries < playStartRetries
              /\ mp3' = [nextState("PLAY") EXCEPT !.retries = @ + 1]
              /\ UNCHANGED mod
           \/ /\ mp3.retries >= playStartRetries /\ mp3.restarts < moduleRestartLimit
              /\ powerDownModule([timed("RESTART_MODULE") EXCEPT !.restarts = @ + 1, !.retries = 0])
           \/ /\ mp3.retries >= playStartRetries /\ mp3.restarts >= moduleRestartLimit
              /\ mod' = [mod EXCEPT !.reported = TRUE]
              /\ mp3' = nextState("CHECK_QUEUE")
  /\ UNCHANGED led

\* Mutant: a track is waited for without a limit.
waitForPlayPatient(heard) ==
  /\ mp3.state = "WAIT_FOR_PLAY" /\ mp3.enablePlay /\ heard
  /\ mp3' = [nextState("CHECK_QUEUE") EXCEPT !.enablePlay = FALSE]
  /\ UNCHANGED <<mod, led>>

(* Stopping raises BUSY; a stop the module misses leaves it playing. *)
waitForPlay(heard) ==
  /\ mp3.state = "WAIT_FOR_PLAY" /\ (mp3.enablePlay \/ mp3.due)
  /\ LET stops == mp3.due /\ heard /\ mod.playing
     IN  /\ mp3' = [nextState("CHECK_QUEUE") EXCEPT !.enablePlay = stops]
         /\ mod' = [mod EXCEPT !.playing = @ /\ ~stops, !.overrun = @ \/ (mod.playing /\ ~stops)]
  /\ UNCHANGED led

checkQueue ==
  /\ mp3.state = "CHECK_QUEUE"
  /\ mp3' = IF mp3.queue = << >> THEN nextState("TURN_OFF") ELSE timed("PLAYING_DELAY")
  /\ UNCHANGED <<mod, led>>

playingDelay ==
  /\ mp3.state = "PLAYING_DELAY" /\ mp3.due
  /\ takeNext("SET_VOLUME", FALSE)
  /\ UNCHANGED led

turnOff ==
  /\ mp3.state = "TURN_OFF"
  /\ powerDownModule([nextState("IDLE") EXCEPT !.enablePlay = FALSE])
  /\ led' = loadColor(led)

playerRun ==
  /\ \/ idle \/ turnOn \/ waited \/ setVolume \/ waitForStart \/ checkQueue \/ playingDelay \/ turnOff
     \/ \E heard \in BOOLEAN : playTrack(heard) \/ waitForPlay(heard)
  /\ UNCHANGED alerts

-----------------------------------------------------------------------------
(* Commands *)

(* A request of the server: what its "Sound" and "Colors" hold. *)
AlertRequests == [sound : Sounds \cup {NoSound, Unusable}, colors : {"none", "malformed", "dark", "red"}]

NoFrame == [cmd |-> "none"]

(* A request that cannot be read in full is dropped whole. *)
sendAlertCommand(r) ==
  CASE r.sound = Unusable \/ r.colors = "malformed" -> NoFrame
    [] r.sound = NoSound /\ r.colors = "none"        -> NoFrame
    [] r.sound = NoSound /\ r.colors \in {"dark", "red"} -> [cmd |-> "RGB_LED", color |-> r.colors]
    [] OTHER -> [cmd |-> "PLAY_MP3", track |-> r.sound, color |-> IF r.colors = "none" THEN "dark" ELSE r.colors]

(* A full queue drops the track. *)
play(track, color) ==
  LET item == [track |-> IF track > maxTrack THEN maxTrack ELSE track, color |-> color]
  IN  mp3' = IF isFull(mp3.queue, playQueueSize) THEN mp3 ELSE [mp3 EXCEPT !.queue = put(@, item, playQueueSize)]

canMessageArrived(f) ==
  /\ alerts < MaxAlerts /\ alerts' = alerts + 1
  /\ \/ f.cmd = "RGB_LED" /\ led' = setColor(led, f.color, TRUE) /\ UNCHANGED mp3
     \/ f.cmd = "PLAY_MP3" /\ play(f.track, f.color) /\ UNCHANGED led
  /\ UNCHANGED mod

longPress ==
  /\ alerts < MaxAlerts /\ alerts' = alerts + 1
  /\ led' = [setColor(led, IF led.toggle THEN "dark" ELSE "white", TRUE) EXCEPT !.toggle = ~@]
  /\ UNCHANGED <<mp3, mod>>

-----------------------------------------------------------------------------
(* The module and time *)

(* A track taken over another one may raise BUSY in between. *)
trackStarts(edge) ==
  /\ mod.heard
  /\ edge => mod.playing
  /\ mod' = [mod EXCEPT !.heard = FALSE, !.playing = TRUE, !.begun = TRUE]
  /\ mp3' = [mp3 EXCEPT !.enablePlay = @ \/ (edge /\ mp3.attached)]
  /\ UNCHANGED <<led, alerts>>

trackEnds ==
  /\ mod.playing
  /\ mod' = [mod EXCEPT !.playing = FALSE]
  /\ mp3' = [mp3 EXCEPT !.enablePlay = @ \/ mp3.attached]
  /\ UNCHANGED <<led, alerts>>

(* A command the module took shows on BUSY before playStartTime is over. *)
alertTick ==
  /\ ~mp3.due /\ ~mod.heard
  /\ mp3' = [mp3 EXCEPT !.due = TRUE]
  /\ UNCHANGED <<mod, led, alerts>>

AlertNext ==
  \/ playerRun
  \/ \E r \in AlertRequests : canMessageArrived(sendAlertCommand(r))
  \/ longPress
  \/ \E edge \in BOOLEAN : trackStarts(edge)
  \/ trackEnds
  \/ alertTick

AlertSpec == AlertInit /\ [][AlertNext]_alertVars

(* The node's loop and its clock run on.  That a track ends, or that any   *)
(* command is heard, is not assumed.                                       *)
AlertFairness == WF_alertVars(playerRun) /\ WF_alertVars(alertTick) /\ WF_alertVars(\E edge \in BOOLEAN : trackStarts(edge))

AlertFairSpec == AlertSpec /\ AlertFairness

-----------------------------------------------------------------------------
(* Properties *)

(* A track is let go only when the module began it or its failure was      *)
(* reported: no edge of an earlier track and no lost command passes for    *)
(* it.  A module that missed a stop is exempt until it is powered down: it *)
(* still plays an earlier track, and its BUSY line cannot tell the two     *)
(* apart, nor when the earlier one has ended.                              *)
PlayedOrReported ==
  [][mp3.state \in {"WAIT_FOR_START", "WAIT_FOR_PLAY"} /\ mp3'.state = "CHECK_QUEUE" =>
       mod.begun \/ mod'.reported \/ mod.overrun]_alertVars

(* Whatever the module misses and however long it plays: the node comes to *)
(* rest with the module off and the strip back in the colour last saved,   *)
(* also one that was set while a track had the strip.                      *)
AlertsEnd == <>[](mp3.state = "IDLE" /\ mp3.queue = << >> /\ ~mod.on /\ led.shown = led.saved)
=============================================================================
