----------------------------- MODULE Addressing -----------------------------
(***************************************************************************)
(* How a node gets its CAN address: CanCommissioner on the gateway, the    *)
(* SET_CAN_ID rules of CanIdAssign both ends share, the node's handler     *)
(* (CanHandlerAtmega328P) and the CRC-protected record in its EEPROM       *)
(* (EEPROMHandler).                                                        *)
(*                                                                         *)
(* A node without a record answers on an address folded from its unique id *)
(* and announces itself there.  The bus is a broadcast: whatever node      *)
(* listens on a frame's address takes it in.  Frames get lost; power fails *)
(* anywhere, also while the record is written.                             *)
(***************************************************************************)
EXTENDS Integers, Sequences, SequencesExt, FiniteSets

CONSTANTS
  Nodes,              \* the nodes, known by their unique ids
  provisionalId,      \* CanIdAssign::provisionalId, per node
  provisionalBase,    \* first address of the provisional block
  idMask,             \* last address
  masterId,           \* the gateway's own and the nodes' master address
  Drivers,            \* addresses a driver of the gateway answers on
  maxWaiting,         \* slots of the commissioner
  AskedIds,           \* addresses the server asks for
  MaxAsks, MaxCuts    \* bounds: what the server asks, how often power fails

isProvisionalId(id) == id >= provisionalBase /\ id <= idMask

ASSUME AddressAssumption ==
  /\ {provisionalBase, idMask, masterId} \subseteq Nat
  /\ Drivers \cup AskedIds \subseteq Nat
  /\ provisionalId \in [Nodes -> {id \in 0..idMask : isProvisionalId(id)}]
  /\ masterId \in 1..(provisionalBase - 1)
  /\ \A d \in Drivers : d \in 1..(provisionalBase - 1) /\ d # masterId
  /\ maxWaiting \in Nat \ {0}
  /\ {MaxAsks, MaxCuts} \subseteq Nat

VARIABLES
  node,      \* per node: up, the address it runs on, whether that was stored
  record,    \* per node: the address in its EEPROM, or NoRecord
  inbox,     \* per node: a SET_CAN_ID its controller holds, or NoSetCanId
  waiting,   \* CanCommissioner::waiting, longest unheard first
  canTx,     \* SET_CAN_ID frames the gateway has queued
  asks, cuts

addrVars == <<node, record, inbox, waiting, canTx, asks, cuts>>

NoId == 0
NoSetCanId == [expectedLocal |-> NoId, newLocal |-> NoId]

-----------------------------------------------------------------------------
(* CanIdAssign                                                             *)

\* Mutant: the provisional block may be handed out.
isAssignableIdAny(id) == id # NoId /\ id <= idMask

isAssignableId(id) == id # NoId /\ id <= idMask /\ ~isProvisionalId(id)

\* pack() leaves the reserved bytes zero and only the gateway sends the frame,
\* so the checks on either hold for every frame of this bus.
isAcceptable(request, currentLocal) ==
  /\ request.expectedLocal = currentLocal
  /\ isAssignableId(request.newLocal)
  /\ request.newLocal # masterId

-----------------------------------------------------------------------------
(* The node                                                                *)

\* init(): the stored address, or the one derived from the unique id.
started(n, stored) ==
  IF stored # NoId THEN [up |-> TRUE, local |-> stored, addressed |-> TRUE]
  ELSE [up |-> TRUE, local |-> provisionalId[n], addressed |-> FALSE]

\* Every node is off; some were given an address before.
AddrInit ==
  /\ \E stored \in SUBSET Nodes, ids \in [Nodes -> Drivers] :
       /\ \A m, n \in stored : ids[m] = ids[n] => m = n
       /\ record = [n \in Nodes |-> IF n \in stored THEN ids[n] ELSE NoId]
       /\ \A n \in Nodes \ stored : ids[n] = CHOOSE id \in Drivers : TRUE
  /\ node = [n \in Nodes |-> [started(n, record[n]) EXCEPT !.up = FALSE]]
  /\ inbox = [n \in Nodes |-> NoSetCanId]
  /\ waiting = << >> /\ canTx = << >>
  /\ asks = 0 /\ cuts = 0

nodeStarts(n) ==
  /\ ~node[n].up
  /\ node' = [node EXCEPT ![n] = started(n, record[n])]
  /\ UNCHANGED <<record, inbox, waiting, canTx, asks, cuts>>

powerFails(n) ==
  /\ node[n].up /\ cuts < MaxCuts
  /\ node' = [node EXCEPT ![n].up = FALSE]
  /\ inbox' = [inbox EXCEPT ![n] = NoSetCanId]
  /\ cuts' = cuts + 1
  /\ UNCHANGED <<record, waiting, canTx, asks>>

\* The SET_CAN_ID case of handleRxFrame(): refused, or stored and restarted
\* into; a record that does not read back leaves the node where it was, with a
\* checksum that will not match at its next start.
Stored == {"saved", "garbled", "cut"}

storeCanIds(outcome, id) == IF outcome = "saved" THEN id ELSE NoId

setCanId(n, outcome) ==
  /\ node[n].up /\ inbox[n] # NoSetCanId
  /\ inbox' = [inbox EXCEPT ![n] = NoSetCanId]
  /\ \/ /\ ~isAcceptable(inbox[n], node[n].local)
        /\ outcome = "saved"
        /\ UNCHANGED <<node, record, cuts>>
     \/ /\ isAcceptable(inbox[n], node[n].local)
        /\ outcome # "saved" => cuts < MaxCuts
        /\ cuts' = IF outcome = "saved" THEN cuts ELSE cuts + 1
        /\ record' = [record EXCEPT ![n] = storeCanIds(outcome, inbox[n].newLocal)]
        /\ node' = [node EXCEPT ![n].up = (outcome = "garbled")]
  /\ UNCHANGED <<waiting, canTx, asks>>

-----------------------------------------------------------------------------
(* CanCommissioner                                                         *)

\* Mutant: a full list takes no further node.
makeRoomNever(list) == IF Len(list) > maxWaiting THEN Front(list) ELSE list

\* Full, and none of them is this node: the one heard from longest ago goes.
makeRoom(list) == IF Len(list) > maxWaiting THEN Tail(list) ELSE list

others(list, n) == SelectSeq(list, LAMBDA e : e.uid # n)

\* run() of a node that has no address, and noteAnnouncement() of the frame no
\* driver claims.
announce(n) ==
  /\ node[n].up /\ ~node[n].addressed
  /\ waiting' = makeRoom(Append(others(waiting, n), [uid |-> n, at |-> node[n].local]))
  /\ UNCHANGED <<node, record, inbox, canTx, asks, cuts>>

\* run(): a node not heard from for forgetTime, gone or its frames lost.
forget ==
  /\ waiting # << >>
  /\ waiting' = Tail(waiting)
  /\ UNCHANGED <<node, record, inbox, canTx, asks, cuts>>

queueRequest(expected, id) == canTx' = Append(canTx, [expectedLocal |-> expected, newLocal |-> id])

\* assign() of a message: the node must be on the list, the address free as far
\* as the gateway can see.
assign(n, id) ==
  /\ asks < MaxAsks /\ asks' = asks + 1
  /\ isAssignableId(id) /\ id # masterId /\ id \notin Drivers
  /\ \E i \in DOMAIN waiting :
       waiting[i].uid = n /\ queueRequest(waiting[i].at, id)
  /\ UNCHANGED <<node, record, inbox, waiting, cuts>>

\* CanMqttGateway::requestCanIdChange, on the driver of an address.
requestCanIdChange(d, id) ==
  /\ asks < MaxAsks /\ asks' = asks + 1
  /\ isAssignableId(id)
  /\ id = d \/ (id # masterId /\ id \notin Drivers)
  /\ queueRequest(d, id)
  /\ UNCHANGED <<node, record, inbox, waiting, cuts>>

\* filterExtended(): the acceptance filter of a node passes its own address.
listens(n, id) == node[n].up /\ node[n].local = id

\* The frame is on the bus: every node that listens on its address gets it, or
\* none does.
setCanIdFrame(taken) ==
  /\ canTx # << >>
  /\ canTx' = Tail(canTx)
  /\ inbox' = [n \in Nodes |->
       IF taken /\ listens(n, Head(canTx).expectedLocal) THEN Head(canTx) ELSE inbox[n]]
  /\ UNCHANGED <<node, record, waiting, asks, cuts>>

-----------------------------------------------------------------------------
AddrNext ==
  \/ \E n \in Nodes : nodeStarts(n) \/ powerFails(n) \/ announce(n)
  \/ \E n \in Nodes, outcome \in Stored : setCanId(n, outcome)
  \/ forget
  \/ \E n \in Nodes, id \in AskedIds : assign(n, id)
  \/ \E d \in Drivers, id \in AskedIds : requestCanIdChange(d, id)
  \/ \E taken \in BOOLEAN : setCanIdFrame(taken)

AddrSpec == AddrInit /\ [][AddrNext]_addrVars

\* A node that is switched off is switched on again; one that waits keeps
\* announcing, and some of its announcements arrive.
AddrFairness == \A n \in Nodes : WF_addrVars(nodeStarts(n)) /\ WF_addrVars(announce(n))

AddrFairSpec == AddrSpec /\ AddrFairness

-----------------------------------------------------------------------------
Listed(n) == \E i \in DOMAIN waiting : waiting[i].uid = n
Waits(n) == node[n].up /\ ~node[n].addressed

\* A node that waits for an address turns up on the list, though more of them
\* wait than the list holds.
WaiterListed == \A n \in Nodes : []<>(Waits(n) => Listed(n))

\* No node ever stores an address that is nobody's to have: the unset one, the
\* master's, or one of the block nodes give themselves, whatever the server
\* asks for, through the list or through a driver.
StoredIdUsable ==
  \A n \in Nodes :
    record[n] # NoId => record[n] \in 1..(provisionalBase - 1) /\ record[n] # masterId
=============================================================================
