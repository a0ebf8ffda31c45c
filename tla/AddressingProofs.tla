-------------------------- MODULE AddressingProofs --------------------------
(***************************************************************************)
(* Proofs about Addressing, for any number of nodes and waiting slots,     *)
(* whatever the server asks for and whichever frames and writes fail.      *)
(***************************************************************************)
EXTENDS Addressing, TLAPS

\* Every queued frame, and every frame a node holds, carries a number; which
\* one is up to the server.
FramesCarryIds ==
  /\ \E frames : canTx \in Seq(frames) /\ \A f \in frames : f.newLocal \in Nat
  /\ DOMAIN inbox = Nodes
  /\ \A n \in Nodes : inbox[n].newLocal \in Nat

\* The record is usable by the node's own test (isAcceptable): the proof does
\* not use the checks the gateway makes before it sends the frame.
RecordInv ==
  /\ DOMAIN record = Nodes
  /\ FramesCarryIds
  /\ StoredIdUsable

LEMMA AcceptableIsUsable ==
  ASSUME NEW request, NEW local, request.newLocal \in Nat, isAcceptable(request, local)
  PROVE  request.newLocal \in 1..(provisionalBase - 1) /\ request.newLocal # masterId
BY AddressAssumption DEF isAcceptable, isAssignableId, isProvisionalId, NoId

LEMMA QueueRequestKeepsIds ==
  ASSUME FramesCarryIds, NEW expected, NEW id \in AskedIds, queueRequest(expected, id),
         UNCHANGED inbox
  PROVE  FramesCarryIds'
<1> DEFINE frame == [expectedLocal |-> expected, newLocal |-> id]
<1>1. PICK frames : canTx \in Seq(frames) /\ \A f \in frames : f.newLocal \in Nat
  BY DEF FramesCarryIds
<1>2. canTx' \in Seq(frames \cup {frame})
  <2>1. canTx' = Append(canTx, frame)
    BY DEF queueRequest
  <2>2. canTx \in Seq(frames \cup {frame})
    BY <1>1
  <2> QED
    BY <2>1, <2>2
<1>3. \A f \in frames \cup {frame} : f.newLocal \in Nat
  BY <1>1, AddressAssumption
<1> QED
  BY <1>2, <1>3 DEF FramesCarryIds

LEMMA RecordStep ==
  ASSUME RecordInv, [AddrNext]_addrVars
  PROVE  RecordInv'
<1> USE DEF RecordInv
<1>1. ASSUME NEW n \in Nodes, nodeStarts(n) \/ powerFails(n) \/ announce(n)
      PROVE  RecordInv'
  <2>1. UNCHANGED <<record, canTx>>
    BY <1>1 DEF nodeStarts, powerFails, announce
  <2>2. inbox' = inbox \/ inbox' = [inbox EXCEPT ![n] = NoSetCanId]
    BY <1>1 DEF nodeStarts, powerFails, announce
  <2> QED
    BY <2>1, <2>2 DEF FramesCarryIds, StoredIdUsable, NoSetCanId, NoId
<1>2. ASSUME NEW n \in Nodes, NEW outcome \in Stored, setCanId(n, outcome)
      PROVE  RecordInv'
  <2>1. FramesCarryIds'
    BY <1>2 DEF setCanId, FramesCarryIds, NoSetCanId, NoId
  <2>2. CASE record' = record
    BY <2>1, <2>2 DEF StoredIdUsable
  <2>3. CASE /\ isAcceptable(inbox[n], node[n].local)
             /\ record' = [record EXCEPT ![n] = storeCanIds(outcome, inbox[n].newLocal)]
    <3>1. inbox[n].newLocal \in 1..(provisionalBase - 1) /\ inbox[n].newLocal # masterId
      BY <2>3, AcceptableIsUsable DEF FramesCarryIds
    <3> QED
      BY <2>1, <2>3, <3>1 DEF StoredIdUsable, storeCanIds
  <2> QED
    BY <1>2, <2>2, <2>3 DEF setCanId
<1>3. CASE forget
  BY <1>3 DEF forget, FramesCarryIds, StoredIdUsable
<1>4. ASSUME NEW n \in Nodes, NEW id \in AskedIds, assign(n, id)
      PROVE  RecordInv'
  BY <1>4, QueueRequestKeepsIds DEF assign, StoredIdUsable
<1>5. ASSUME NEW d \in Drivers, NEW id \in AskedIds, requestCanIdChange(d, id)
      PROVE  RecordInv'
  BY <1>5, QueueRequestKeepsIds DEF requestCanIdChange, StoredIdUsable
<1>6. ASSUME NEW taken \in BOOLEAN, setCanIdFrame(taken)
      PROVE  RecordInv'
  <2>1. PICK frames : canTx \in Seq(frames) /\ \A f \in frames : f.newLocal \in Nat
    BY DEF FramesCarryIds
  <2>2. canTx' \in Seq(frames) /\ Head(canTx) \in frames
    BY <1>6, <2>1 DEF setCanIdFrame
  <2>3. DOMAIN inbox' = Nodes /\ \A n \in Nodes : inbox'[n].newLocal \in Nat
    BY <1>6, <2>1, <2>2 DEF setCanIdFrame, FramesCarryIds
  <2>4. FramesCarryIds'
    BY <2>1, <2>2, <2>3 DEF FramesCarryIds
  <2> QED
    BY <1>6, <2>4 DEF setCanIdFrame, StoredIdUsable
<1>7. CASE UNCHANGED addrVars
  BY <1>7 DEF addrVars, FramesCarryIds, StoredIdUsable
<1> QED
  BY <1>1, <1>2, <1>3, <1>4, <1>5, <1>6, <1>7 DEF AddrNext

\* No node ever stores an address that is nobody's to have, whatever the server
\* asks for, however frames are lost and wherever power fails: the test of
\* CanIdAssign::isAcceptable at the node is enough.
THEOREM StoredIdAlwaysUsable == AddrSpec => []StoredIdUsable
<1>1. AddrInit => RecordInv
  <2> SUFFICES ASSUME AddrInit PROVE RecordInv
    OBVIOUS
  <2>1. PICK stored \in SUBSET Nodes, ids \in [Nodes -> Drivers] :
          record = [n \in Nodes |-> IF n \in stored THEN ids[n] ELSE NoId]
    BY DEF AddrInit
  <2>2. DOMAIN record = Nodes /\ StoredIdUsable
    BY <2>1, AddressAssumption DEF StoredIdUsable
  <2>3. canTx \in Seq({})
    BY DEF AddrInit
  <2>4. DOMAIN inbox = Nodes /\ \A n \in Nodes : inbox[n].newLocal \in Nat
    BY DEF AddrInit, NoSetCanId, NoId
  <2> QED
    BY <2>2, <2>3, <2>4 DEF RecordInv, FramesCarryIds
<1>2. RecordInv /\ [AddrNext]_addrVars => RecordInv'
  BY RecordStep
<1>3. RecordInv => StoredIdUsable
  BY DEF RecordInv
<1> QED
  BY <1>1, <1>2, <1>3, PTL DEF AddrSpec
=============================================================================
