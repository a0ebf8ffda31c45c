--------------------------- MODULE CanOtaTransfer ---------------------------
(***************************************************************************)
(* A gateway sending firmware to a CAN node: GatewayOta and NodeOta joined *)
(* by a bus that loses and repeats frames, with resets on both sides and   *)
(* the two timeouts running on one clock.                                  *)
(*                                                                         *)
(* A tick is a minute.  Loop passes, frames and the closing check take     *)
(* milliseconds to seconds, so time only advances when neither side has    *)
(* any of these left to do; an erase, a lost frame and the upload of the   *)
(* next file are what time passes for.                                     *)
(***************************************************************************)
EXTENDS NodeOta, GatewayOta

CONSTANTS
  MaxFaults,    \* bound on lost and repeated frames
  MaxResets,    \* bound on unrequested resets, of both sides together
  MaxTransfers  \* bound on the transfers the gateway starts

ASSUME BoundAssumption == {MaxFaults, MaxResets, MaxTransfers} \subseteq Nat

\* A node may find any piece of an image on the bus.
ASSUME PieceAssumption ==
  \A img \in Images : \A p \in 0 .. Len(img) - 1 : PieceData(img, p) \in Pieces

VARIABLES
  toNode, toMaster, \* the frames under way, in bus order
  gwUp,             \* FALSE from a reset of the gateway until it is up again
  fileReady,        \* an upload finished and queued the node for its turn
  faults, resets, transfers

budgetVars == <<faults, resets, transfers>>
busVars == <<toNode, toMaster>>
vars == <<nodeVars, gwVars, busVars, gwUp, fileReady, budgetVars>>

Init ==
  /\ NodeInit
  /\ GatewayInit
  /\ toNode = << >> /\ toMaster = << >>
  /\ gwUp = TRUE
  /\ fileReady = FALSE
  /\ faults = 0 /\ resets = 0 /\ transfers = 0

-----------------------------------------------------------------------------
(* The node                                                                *)

Answer(reply) == toMaster' = IF reply = NoReply THEN toMaster ELSE Append(toMaster, reply)

NodeReceives ==
  /\ toNode # << >>
  /\ \E reply \in Replies \cup {NoReply} :
       HandleRxFrame(Head(toNode), reply) /\ Answer(reply)
  /\ toNode' = Tail(toNode)
  /\ UNCHANGED <<gwVars, gwUp, fileReady, budgetVars>>

NodeRuns ==
  /\ \E reply \in Replies \cup {NoReply} : OtaPass(reply) /\ Answer(reply)
  /\ UNCHANGED <<gwVars, toNode, gwUp, fileReady, budgetVars>>

NodeResets ==
  /\ resets < MaxResets
  /\ resets' = resets + 1
  /\ NodeReset
  /\ UNCHANGED <<gwVars, busVars, gwUp, fileReady, faults, transfers>>

\* Frames sent to a node in reset are gone: its controller starts empty.
NodeBoots ==
  /\ NodeBoot
  /\ toNode' = << >>
  /\ UNCHANGED <<gwVars, toMaster, gwUp, fileReady, budgetVars>>

FlashFinishes ==
  /\ FlashStep
  /\ UNCHANGED <<gwVars, busVars, gwUp, fileReady, budgetVars>>

-----------------------------------------------------------------------------
(* The gateway                                                             *)

\* The receive drain of the CAN task: it may hand over several frames before
\* the gateway task runs again.
GatewayReceives ==
  /\ gwUp
  /\ toMaster # << >>
  /\ HandleOtaCanFrame(Head(toMaster))
  /\ toMaster' = Tail(toMaster)
  /\ UNCHANGED <<nodeVars, toNode, gwUp, fileReady, budgetVars>>

GatewayRuns ==
  /\ gwUp
  /\ \E out \in GatewayFrames \cup {NoFrame} :
       /\ RunOta(out)
       /\ toNode' = IF out = NoFrame THEN toNode ELSE Append(toNode, out)
  /\ UNCHANGED <<nodeVars, toMaster, gwUp, fileReady, budgetVars>>

\* The turn an upload queued is taken (OtaRegistry::claimStart, in OtaBatch
\* with the turns that are lost).  run() goes on with runOta in the same pass;
\* what may come between here and GatewayRuns also comes before or after it.
GatewayStarts ==
  /\ gwUp
  /\ fileReady
  /\ fileReady' = FALSE
  /\ transfers < MaxTransfers
  /\ transfers' = transfers + 1
  /\ StartOtaFails \/ \E img \in Images, known \in BOOLEAN : StartOta(img, known)
  /\ UNCHANGED <<nodeVars, busVars, gwUp, faults, resets>>

\* The queue is in memory: a turn that was not taken is lost.
GatewayResets ==
  /\ gwUp
  /\ resets < MaxResets
  /\ resets' = resets + 1
  /\ gwUp' = FALSE
  /\ fileReady' = FALSE
  /\ UNCHANGED <<nodeVars, gwVars, busVars, faults, transfers>>

GatewayBoots ==
  /\ ~gwUp
  /\ gwUp' = TRUE
  /\ toMaster' = << >>
  /\ transferState' = "IDLE"
  /\ file' = << >>
  /\ filePos' = 0
  /\ frameNumber' = 0
  /\ imageCrc' = Crc(<< >>)
  /\ imageCrcKnown' = FALSE
  /\ otaAge' = 0
  /\ published' = published
  /\ UNCHANGED <<nodeVars, toNode, fileReady, budgetVars>>

-----------------------------------------------------------------------------
(* The bus and the clock                                                   *)

Without(s, i) == SubSeq(s, 1, i - 1) \o SubSeq(s, i + 1, Len(s))
Twice(s, i) == SubSeq(s, 1, i) \o SubSeq(s, i, Len(s))

\* A full receive queue or an unsent answer loses a frame; a sender that did
\* not see the bus acknowledge repeats one that did arrive.
BusFault ==
  /\ faults < MaxFaults
  /\ faults' = faults + 1
  /\ \/ /\ \E i \in 1 .. Len(toNode) : toNode' \in {Without(toNode, i), Twice(toNode, i)}
        /\ toMaster' = toMaster
     \/ /\ \E i \in 1 .. Len(toMaster) :
             toMaster' \in {Without(toMaster, i), Twice(toMaster, i)}
        /\ toNode' = toNode
  /\ UNCHANGED <<nodeVars, gwVars, gwUp, fileReady, resets, transfers>>

NodeQuiet ==
  IF nodeUp
    THEN /\ toNode = << >>
         /\ rxBudget = MaxRxFrames
         /\ ~Stalled
         /\ \/ otaState = "IDLE"
            \/ otaState = "START" /\ erasing
            \/ otaState = "STORE" /\ flashPointer # fwSize
    ELSE erasing

GatewayQuiet ==
  /\ gwUp
  /\ toMaster = << >>
  /\ transferState \in {"IDLE", "WAIT_FOR_ACK"}
  /\ ~OtaTimedOut

\* A minute passes.  An upload takes that long at least, and isFileInUse()
\* refuses one for a node that is still queued or being sent to.
Tick ==
  /\ NodeQuiet /\ GatewayQuiet
  /\ NodeTick
  /\ otaAge' = MinOf(otaAge + 1, OtaTimeout + 1)
  /\ fileReady' \in IF transferState = "IDLE" THEN {fileReady, TRUE} ELSE {fileReady}
  /\ UNCHANGED <<transferState, file, filePos, frameNumber, imageCrc,
                 imageCrcKnown, published, busVars, gwUp, budgetVars>>

Next ==
  \/ NodeReceives \/ NodeRuns \/ NodeResets \/ NodeBoots \/ FlashFinishes
  \/ GatewayReceives \/ GatewayRuns \/ GatewayStarts \/ GatewayResets \/ GatewayBoots
  \/ BusFault \/ Tick

\* Both loops keep running, a reset board comes back, and time goes on.  The
\* erase is not assumed to end: the stall timer is there for the chip that
\* stays busy.
Fairness ==
  /\ WF_vars(NodeReceives) /\ WF_vars(NodeRuns) /\ WF_vars(NodeBoots)
  /\ WF_vars(GatewayReceives) /\ WF_vars(GatewayRuns) /\ WF_vars(GatewayBoots)
  /\ WF_vars(Tick)

Spec == Init /\ [][Next]_vars
FairSpec == Spec /\ Fairness

-----------------------------------------------------------------------------
(* What OkMeansInstalled needs of the images                               *)

\* The offsets at which pieces of a file of n bytes begin.
Boundary(p) == \E j \in 0 .. p : p = j * PieceSize
Offsets(n) == {p \in 0 .. n - 1 : Boundary(p)}

\* The first n bytes of `at' could be pieces of b taken one after the other,
\* each at a place where the node expects its sequence number.
Assembled(at, n, b) ==
  \A p \in Offsets(n) : \E q \in Offsets(Len(b)) :
    /\ Sequence(q) = Sequence(p)
    /\ \A k \in 0 .. PieceSize - 1 : p + k < n => at[p + k] = PieceData(b, q)[k]

BytesOf(img) == [i \in 0 .. Len(img) - 1 |-> img[i + 1]]

\* No image can be put together from the pieces of another one.  The answers
\* do not say which transfer they are for: when an OTA_START is lost while the
\* answer to an earlier one is under way, the pieces are stored under the
\* earlier size and checksum, and accepted if they make up the earlier image.
ImagesApart ==
  \A a, b \in Images : Assembled(BytesOf(a), Len(a), b) => a = b

\* A piece reaches beyond the header, and so does every image, so that nothing
\* of a transfer is taken before the erase is over.
BeyondHeader ==
  /\ PieceSize > HeaderSize
  /\ \A img \in Images : Len(img) > HeaderSize

-----------------------------------------------------------------------------
(* Properties                                                              *)

\* A transfer is published as [OK] only when the node's flash holds exactly
\* the image that was sent: no answer to an earlier transfer, repeated or
\* delayed, is taken for the verdict on this one.
OkMeansInstalled ==
  transferState = "VALID" => Holds(0, file)

\* Every transfer ends on both sides: at the gateway with a verdict or a reset,
\* at the node whatever became of the gateway and of the erase it waits for,
\* unless a reset took the transfer away.
TransferEnds ==
  /\ transferState # "IDLE" ~> transferState = "IDLE"
  /\ otaState # "IDLE" ~> (otaState = "IDLE" \/ ~nodeUp)

\* The answer of the node always beats the gateway's timeout: when the bus
\* loses nothing, a wait that times out never had a stored image behind it
\* (runOta: "a timeout must not overwrite an already-arrived final ACK").
TimeoutMeansNotStored ==
  OtaTimedOut => ~(file # << >> /\ Holds(0, file))
=============================================================================
