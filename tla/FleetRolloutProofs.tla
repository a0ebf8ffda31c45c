------------------------- MODULE FleetRolloutProofs -------------------------
(***************************************************************************)
(* Proofs about FleetRollout, for every fleet, every order of it and any   *)
(* number of drops, crashes, lost frames and failed starts.                *)
(***************************************************************************)
EXTENDS FleetRollout, FiniteSetTheorems, SequenceTheorems, TLAPS

Fields == {"availability", "info", "diag", "ack"}
Values == {"online", "offline", "old", "new", "drop", "stored"}
Messages == [from : Subjects, field : Fields, value : Values]
Frames == {Restart} \cup [cmd : {"FW_VERSION"}, git : {"old", "new"}]
Notes == [availability : Values \cup {"none"}, info : Values \cup {"none"}, offline : BOOLEAN, fresh : BOOLEAN]

Statuses == {"none", "offline", "current", "pending", "done", "failed", "not reached"}

\* What the tool waits for while it is at a step.
Waits == {"file", "discovery", "nodes", "baseline with nodes", "soak with nodes", "preflight",
          "draining", "sending", "verify", "baseline", "soak", "presence"}

-----------------------------------------------------------------------------
(* The inductive invariant                                                 *)

RolloutTypeOK ==
  /\ build \in [Subjects -> {"old", "new"}] /\ image \in [Subjects -> {"old", "new"}]
  /\ live \subseteq Subjects /\ linked \subseteq Fleet
  /\ canFrames \in [CanNodes -> Seq(Frames)]
  /\ restartDue \subseteq Fleet /\ restarted \subseteq Fleet
  /\ retained \in [Retained -> Values]
  /\ wire \in Seq(Messages) /\ session \subseteq Subjects \X Fields
  /\ seen \in [Subjects -> Notes]
  /\ phase \in Waits \cup {"plan", "over"}
  /\ status \in [Fleet -> Statuses]
  /\ planned \in [Fleet -> SUBSET CanNodes]
  /\ targets \subseteq CanNodes /\ confirmed \subseteq CanNodes

\* Whoever is said to run the new build runs it, wherever that is said: a build
\* is never given up for an older one.
BuildTold ==
  /\ \A s \in Subjects : build[s] = "new" => image[s] = "new"
  /\ \A s \in Subjects : retained[<<s, "info">>] = "new" => build[s] = "new"
  /\ \A s \in Subjects : seen[s].info = "new" => build[s] = "new"
  /\ \A i \in 1..Len(wire) :
       wire[i].field = "info" /\ wire[i].value = "new" => build[wire[i].from] = "new"
  /\ \A n \in CanNodes : \A i \in 1..Len(canFrames[n]) :
       canFrames[n][i] # Restart /\ canFrames[n][i].git = "new" => build[n] = "new"
  /\ \A n \in confirmed : build[n] = "new"

\* The tool works on a step of the plan that is pending, and OTAUpdater hears of
\* its own device only.
AtStep ==
  /\ phase \in Waits => step \in DOMAIN Order /\ status[Order[step]] = "pending"
  /\ phase \in {"preflight", "draining", "sending", "verify"} =>
       session = {Order[step]} \X {"availability", "info", "ack"}

\* A device whose topic says online has a session, and only a running one has
\* a session or receives.
LinkTold ==
  /\ \A d \in Fleet : retained[<<d, "availability">>] = "online" => d \in linked
  /\ linked \subseteq live /\ receiving \subseteq live \cap Fleet

\* How many of the two retained messages the preflight has still to read.
Unread(d) == (IF seen[d].availability = "none" THEN 1 ELSE 0) + (IF seen[d].fresh THEN 0 ELSE 1)

\* The retained messages come first.  No info follows them: the device has its
\* session, or has said on the wire that it has not, and the tool reads neither
\* that nor what follows until the preflight is over, which keeps the device
\* from a start.
PreflightReads ==
  phase \in {"preflight", "draining"} =>
    LET d == Order[step] IN
    /\ phase = "draining" => seen[d].availability = "online"
    /\ seen[d].availability \in {"none", "online"} =>
         /\ Len(wire) >= Unread(d)
         /\ \A i \in 1..Len(wire) : i > Unread(d) => wire[i].field # "info"
         /\ \A i \in 1..Len(wire) : i <= Unread(d) =>
              \/ seen[d].availability = "none" /\ wire[i].field = "availability"
              \/ ~seen[d].fresh /\ wire[i].field = "info"
         /\ Unread(d) = 2 => wire[1].field # wire[2].field
         /\ \/ d \in linked \/ Len(wire) > Unread(d)
            \/ \E i \in 1..Len(wire) : i <= Unread(d) /\ wire[i].field = "availability"
                                       /\ wire[i].value # "online"

\* The device has reported itself since the upload began.
Told(d) == seen[d].fresh \/ \E i \in 1..Len(wire) : wire[i].field = "info"
\* The device has taken the firmware.
Stored == phase = "verify" \/ \E i \in 1..Len(wire) : wire[i].field = "ack"

UploadTold ==
  /\ phase \in {"sending", "verify"} =>
       LET d == Order[step] IN
       /\ d \in receiving => ~Told(d) /\ ~Stored
       /\ Stored /\ ~Told(d) => d \in restartDue
       /\ Stored /\ Told(d) => d \in restarted \ restartDue
  /\ phase \notin {"file", "sending"} => \A i \in 1..Len(wire) : wire[i].field # "ack"

\* A step whose upload was verified has its restart behind it.
DoneTold ==
  /\ phase \in {"baseline", "soak", "presence"} =>
       Order[step] \in restarted \ restartDue /\ build[Order[step]] = "new"
  /\ \A d \in Fleet : status[d] = "done" =>
       /\ d \in restarted \ restartDue /\ build[d] = "new"
       /\ planned[d] \subseteq back \cup unsaid

\* After the restart of its gateway a node is said to be online only where it was
\* heard of, or where the gateway could not take back what was said before.
NodeTold ==
  /\ \A d \in Fleet : planned[d] \subseteq NodesOf[d]
  /\ \A d \in restarted : \A n \in NodesOf[d] :
       retained[<<n, "availability">>] = "online" => n \in back \cup unsaid
  /\ phase = "presence" => \A n \in NodesOf[Order[step]] :
       /\ seen[n].availability = "online" => n \in back \cup unsaid
       /\ \A i \in 1..Len(wire) :
            wire[i].from = n /\ wire[i].field = "availability" /\ wire[i].value = "online" =>
              n \in back \cup unsaid

\* OTAUpdater reads what its own device says, and one acknowledgement at most.
WireTold ==
  /\ phase \in {"preflight", "draining", "sending", "verify"} =>
       \A i \in 1..Len(wire) : wire[i].from = Order[step]
  /\ phase \in {"file", "sending"} =>
       /\ Order[step] \in receiving => \A i \in 1..Len(wire) : wire[i].field # "ack"
       /\ \A i, j \in 1..Len(wire) : wire[i].field = "ack" /\ wire[j].field = "ack" => i = j

RolloutInv ==
  /\ RolloutTypeOK /\ BuildTold /\ AtStep /\ LinkTold
  /\ PreflightReads /\ UploadTold /\ DoneTold /\ NodeTold /\ WireTold

-----------------------------------------------------------------------------
(* Names, sets and lists                                                   *)

LEMMA FleetFacts ==
  /\ Len(Order) \in Nat /\ DOMAIN Order = 1..Len(Order)
  /\ \A i \in DOMAIN Order : Order[i] \in Fleet
  /\ \A d \in Fleet : NodesOf[d] \subseteq CanNodes
  /\ Fleet \subseteq Subjects /\ CanNodes \subseteq Subjects
  /\ \A n \in CanNodes : n \notin Fleet
BY FleetAssumption DEF Fleet, Subjects, ToSet

LEMMA GatewayFacts ==
  ASSUME NEW n \in CanNodes
  PROVE  GatewayOf(n) \in Fleet /\ n \in NodesOf[GatewayOf(n)]
<1>1. \E d \in Fleet : n \in NodesOf[d]
  BY DEF CanNodes
<1> QED BY <1>1 DEF GatewayOf

\* The nodes of two devices are not the same.
LEMMA OwnNodes ==
  ASSUME NEW d \in Fleet, NEW e \in Fleet, NEW n \in NodesOf[d], n \in NodesOf[e]
  PROVE  d = e
BY FleetAssumption

\* SetToSeq lists the elements of a finite set.
LEMMA ListOfSet ==
  ASSUME NEW S, IsFiniteSet(S)
  PROVE  SetToSeq(S) \in Seq(S)
<1> DEFINE n == Cardinality(S)
<1>1. n \in Nat /\ ExistsBijection(1..n, S)
  BY FS_CardinalityType
<1>2. PICK f : f \in Bijection(1..n, S)
  BY <1>1 DEF ExistsBijection
<1>3. f \in [1..n -> S] /\ IsInjective(f)
  BY <1>2 DEF Bijection, Injection
<1>4. SetToSeq(S) \in [1..n -> S]
  BY <1>3 DEF SetToSeq
<1> QED BY <1>1, <1>4

LEMMA FiniteImage ==
  ASSUME NEW S, IsFiniteSet(S), NEW f, DOMAIN f = S, f = [x \in S |-> f[x]]
  PROVE  IsFiniteSet({f[x] : x \in S})
<1> DEFINE T == {f[x] : x \in S}
<1>1. f \in Surjection(S, T)
  BY DEF Surjection
<1> QED BY <1>1, FS_Surjection

LEMMA FiniteRetained == IsFiniteSet(Retained) /\ IsFiniteSet(Fleet)
<1>1. IsFiniteSet(1..Len(Order))
  BY FleetFacts, FS_Interval
<1>2. IsFiniteSet({Order[i] : i \in 1..Len(Order)})
  BY <1>1, FiniteImage, FleetFacts, FleetAssumption
<1>3. Fleet = {Order[i] : i \in 1..Len(Order)}
  BY FleetFacts DEF Fleet, ToSet
<1>4. IsFiniteSet(Subjects)
  BY <1>2, <1>3, FS_Union, FleetAssumption DEF Subjects
<1>5. IsFiniteSet({"availability", "info"})
  <2>1. IsFiniteSet({"availability"})
    BY FS_Singleton
  <2>2. IsFiniteSet({"availability"} \cup {"info"})
    BY <2>1, FS_AddElement
  <2>3. {"availability"} \cup {"info"} = {"availability", "info"}
    OBVIOUS
  <2> QED BY <2>2, <2>3
<1> QED BY <1>2, <1>3, <1>4, <1>5, FS_Product DEF Retained

-----------------------------------------------------------------------------
(* What a publication does                                                 *)

\* Messages of ms join the wire, of topics the tool subscribed to.
WireGrows(ms) ==
  /\ wire' \in Seq(Messages) /\ Len(wire') >= Len(wire)
  /\ \A i \in 1..Len(wire) : wire'[i] = wire[i]
  /\ \A i \in 1..Len(wire') : i > Len(wire) => wire'[i] \in ms /\ Topic(wire'[i]) \in session

LEMMA GrowsBy ==
  ASSUME wire \in Seq(Messages), NEW ms \in SUBSET Messages, NEW w \in Seq(ms),
         wire' = wire \o w, \A i \in 1..Len(w) : Topic(w[i]) \in session
  PROVE  WireGrows(ms) /\ Len(wire') = Len(wire) + Len(w)
<1>1. w \in Seq(Messages)
  OBVIOUS
<1>2. \A i \in 1..Len(w) : w[i] \in ms
  OBVIOUS
<1>3. /\ wire' \in Seq(Messages) /\ Len(wire') = Len(wire) + Len(w)
      /\ \A i \in 1..Len(wire) : wire'[i] = wire[i]
  BY <1>1
<1>4. ASSUME NEW i \in 1..Len(wire'), i > Len(wire)
      PROVE  wire'[i] \in ms /\ Topic(wire'[i]) \in session
  <2>1. i - Len(wire) \in 1..Len(w)
    BY <1>1, <1>3, <1>4
  <2>2. wire'[i] = w[i - Len(wire)]
    BY <1>1, <1>3, <1>4
  <2> QED BY <1>2, <2>1, <2>2
<1> QED BY <1>1, <1>3, <1>4 DEF WireGrows

LEMMA HandedFacts ==
  ASSUME NEW m
  PROVE  /\ Handed(m) \in Seq({m}) /\ \A i \in 1..Len(Handed(m)) : Topic(Handed(m)[i]) \in session
         /\ Topic(m) \in session => Len(Handed(m)) = 1
<1>1. CASE Topic(m) \in session
  <2>1. Handed(m) = <<m>>
    BY <1>1 DEF Handed
  <2> QED BY <1>1, <2>1
<1>2. CASE Topic(m) \notin session
  BY <1>2 DEF Handed
<1> QED BY <1>1, <1>2

LEMMA KeepFacts ==
  ASSUME NEW kept \in [Retained -> Values], NEW m \in Messages
  PROVE  /\ Keep(kept, m) \in [Retained -> Values]
         /\ \A t \in Retained : Keep(kept, m)[t] = IF t = Topic(m) THEN m.value ELSE kept[t]
<1>1. m.value \in Values
  BY DEF Messages
<1>2. CASE Topic(m) \in Retained
  <2>1. Keep(kept, m) = [kept EXCEPT ![Topic(m)] = m.value]
    BY <1>2 DEF Keep
  <2> HIDE DEF Topic
  <2> QED BY <1>1, <1>2, <2>1
<1>3. CASE Topic(m) \notin Retained
  BY <1>3 DEF Keep
<1> QED BY <1>2, <1>3

LEMMA PublishEffect ==
  ASSUME RolloutTypeOK, NEW m \in Messages, Publish(m)
  PROVE  /\ WireGrows({m}) /\ (Topic(m) \in session => Len(wire') > Len(wire))
         /\ retained' \in [Retained -> Values]
         /\ \A s \in Subjects : \A f \in {"availability", "info"} :
              retained'[<<s, f>>] = IF s = m.from /\ f = m.field THEN m.value ELSE retained[<<s, f>>]
<1>1. wire \in Seq(Messages) /\ retained \in [Retained -> Values]
  BY DEF RolloutTypeOK
<1>2. wire' = wire \o Handed(m) /\ retained' = Keep(retained, m)
  BY DEF Publish
<1>3. {m} \in SUBSET Messages
  OBVIOUS
<1>4. WireGrows({m}) /\ Len(wire') = Len(wire) + Len(Handed(m))
  BY <1>1, <1>2, <1>3, HandedFacts, GrowsBy
<1>5. Topic(m) \in session => Len(wire') > Len(wire)
  <2>1. Topic(m) \in session => Len(Handed(m)) = 1
    BY HandedFacts
  <2>2. Len(wire) \in Nat
    BY <1>1
  <2> QED BY <1>4, <2>1, <2>2
<1>6. /\ retained' \in [Retained -> Values]
      /\ \A t \in Retained : retained'[t] = IF t = Topic(m) THEN m.value ELSE retained[t]
  BY <1>1, <1>2, KeepFacts
<1>7. \A s \in Subjects : \A f \in {"availability", "info"} :
        <<s, f>> \in Retained /\ (<<s, f>> = Topic(m) <=> s = m.from /\ f = m.field)
  BY DEF Retained, Topic
<1> QED BY <1>4, <1>5, <1>6, <1>7

LEMMA PublishBothEffect ==
  ASSUME RolloutTypeOK, NEW m \in Messages, NEW next \in Messages, PublishBoth(m, next)
  PROVE  /\ WireGrows({m, next})
         /\ retained' \in [Retained -> Values]
         /\ \A s \in Subjects : \A f \in {"availability", "info"} :
              retained'[<<s, f>>] = IF s = next.from /\ f = next.field THEN next.value
                                    ELSE IF s = m.from /\ f = m.field THEN m.value ELSE retained[<<s, f>>]
<1>1. wire \in Seq(Messages) /\ retained \in [Retained -> Values]
  BY DEF RolloutTypeOK
<1> DEFINE w == Handed(m) \o Handed(next)
<1>2. wire' = (wire \o Handed(m)) \o Handed(next) /\ retained' = Keep(Keep(retained, m), next)
  BY DEF PublishBoth
<1>3. {m, next} \in SUBSET Messages
  OBVIOUS
<1>4. Handed(m) \in Seq({m, next}) /\ Handed(next) \in Seq({m, next})
  <2>1. Handed(m) \in Seq({m}) /\ Handed(next) \in Seq({next})
    BY HandedFacts
  <2> QED BY <2>1
<1>5. Handed(m) \in Seq(Messages) /\ Handed(next) \in Seq(Messages)
  BY <1>4
<1>6. wire' = wire \o w
  BY <1>1, <1>2, <1>5
<1>7. w \in Seq({m, next}) /\ \A i \in 1..Len(w) : Topic(w[i]) \in session
  <2>1. w \in Seq({m, next}) /\ Len(w) = Len(Handed(m)) + Len(Handed(next))
    BY <1>4
  <2>2. ASSUME NEW i \in 1..Len(w)
        PROVE  Topic(w[i]) \in session
    <3>1. CASE i <= Len(Handed(m))
      <4>1. w[i] = Handed(m)[i] /\ i \in 1..Len(Handed(m))
        BY <1>4, <2>1, <3>1
      <4> QED BY <4>1, HandedFacts
    <3>2. CASE i > Len(Handed(m))
      <4>1. w[i] = Handed(next)[i - Len(Handed(m))] /\ i - Len(Handed(m)) \in 1..Len(Handed(next))
        BY <1>4, <2>1, <3>2
      <4> QED BY <4>1, HandedFacts
    <3> QED BY <1>4, <3>1, <3>2
  <2> QED BY <2>1, <2>2
<1> HIDE DEF w
<1>8. WireGrows({m, next})
  BY <1>1, <1>3, <1>6, <1>7, GrowsBy
<1>9. Keep(retained, m) \in [Retained -> Values]
  BY <1>1, KeepFacts
<1>10. \A t \in Retained : Keep(retained, m)[t] = IF t = Topic(m) THEN m.value ELSE retained[t]
  BY <1>1, KeepFacts
<1>11. /\ Keep(Keep(retained, m), next) \in [Retained -> Values]
       /\ \A t \in Retained : Keep(Keep(retained, m), next)[t] =
            IF t = Topic(next) THEN next.value ELSE Keep(retained, m)[t]
  BY <1>9, KeepFacts
<1>12. \A s \in Subjects : \A f \in {"availability", "info"} :
         /\ <<s, f>> \in Retained
         /\ <<s, f>> = Topic(m) <=> s = m.from /\ f = m.field
         /\ <<s, f>> = Topic(next) <=> s = next.from /\ f = next.field
  BY DEF Retained, Topic
<1> QED BY <1>2, <1>8, <1>10, <1>11, <1>12

\* What a start publishes.
Announced(d, running, said) ==
  {Availability(d, "online"), Info(d, running)}
    \cup (IF said THEN nodesOffline(d) ELSE {Availability(d, "offline")})

LEMMA MessageFacts ==
  ASSUME NEW s \in Subjects, NEW field \in Fields, NEW v \in Values
  PROVE  /\ Message(s, field, v) \in Messages /\ Topic(Message(s, field, v)) = <<s, field>>
         /\ Message(s, field, v).from = s /\ Message(s, field, v).field = field
         /\ Message(s, field, v).value = v
BY DEF Message, Messages, Topic

LEMMA AnnouncedFacts ==
  ASSUME NEW d \in Fleet, NEW running \in {"old", "new"}, NEW said \in BOOLEAN
  PROVE  /\ Announced(d, running, said) \in SUBSET Messages
         /\ \A m \in Announced(d, running, said) :
              /\ m.field = "info" => m.from = d /\ m.value = running
              /\ m.field # "ack"
              /\ m.field = "availability" /\ m.value = "online" => m.from = d
              /\ m.from = d \/ (said /\ m.from \in NodesOf[d])
         /\ IsFiniteSet(Announced(d, running, said))
<1>1. d \in Subjects /\ \A n \in NodesOf[d] : n \in Subjects
  BY FleetFacts
<1>2. \A m \in Announced(d, running, said) :
        \/ m = Message(d, "availability", "online") \/ m = Message(d, "info", running)
        \/ said /\ \E n \in NodesOf[d] : m = Message(n, "availability", "offline")
        \/ m = Message(d, "availability", "offline")
  BY DEF Announced, nodesOffline, Availability, Info
<1>3. /\ running \in Values /\ "online" \in Values /\ "offline" \in Values
      /\ "availability" \in Fields /\ "info" \in Fields
  BY DEF Values, Fields
<1>4. ASSUME NEW m \in Announced(d, running, said)
      PROVE  /\ m \in Messages
             /\ m.field = "info" => m.from = d /\ m.value = running
             /\ m.field # "ack"
             /\ m.field = "availability" /\ m.value = "online" => m.from = d
             /\ m.from = d \/ (said /\ m.from \in NodesOf[d])
  <2>1. CASE m = Message(d, "availability", "online")
    BY <1>1, <1>3, <2>1, MessageFacts
  <2>2. CASE m = Message(d, "info", running)
    BY <1>1, <1>3, <2>2, MessageFacts
  <2>3. CASE said /\ \E n \in NodesOf[d] : m = Message(n, "availability", "offline")
    <3>1. PICK n \in NodesOf[d] : m = Message(n, "availability", "offline")
      BY <2>3
    <3> QED BY <1>1, <1>3, <2>3, <3>1, MessageFacts
  <2>4. CASE m = Message(d, "availability", "offline")
    BY <1>1, <1>3, <2>4, MessageFacts
  <2> QED BY <1>2, <2>1, <2>2, <2>3, <2>4
<1>5. IsFiniteSet(Announced(d, running, said))
  <2>1. IsFiniteSet(NodesOf[d])
    BY FleetFacts, FleetAssumption, FS_Subset
  <2> DEFINE f == [n \in NodesOf[d] |-> Availability(n, "offline")]
  <2>2. IsFiniteSet({f[n] : n \in NodesOf[d]})
    BY <2>1, FiniteImage
  <2>3. {f[n] : n \in NodesOf[d]} = nodesOffline(d)
    BY DEF nodesOffline
  <2>4. IsFiniteSet({Availability(d, "offline")})
    BY FS_Singleton
  <2> DEFINE after == IF said THEN nodesOffline(d) ELSE {Availability(d, "offline")}
  <2>5. IsFiniteSet(after)
    BY <2>2, <2>3, <2>4
  <2>6. IsFiniteSet({Availability(d, "online"), Info(d, running)})
    <3>1. IsFiniteSet({Availability(d, "online")})
      BY FS_Singleton
    <3>2. IsFiniteSet({Availability(d, "online")} \cup {Info(d, running)})
      BY <3>1, FS_AddElement
    <3>3. {Availability(d, "online")} \cup {Info(d, running)} = {Availability(d, "online"), Info(d, running)}
      OBVIOUS
    <3> QED BY <3>2, <3>3
  <2> QED BY <2>5, <2>6, FS_Union DEF Announced
<1> QED BY <1>4, <1>5

LEMMA AnnouncesWire ==
  ASSUME RolloutTypeOK, NEW d \in Fleet, NEW running \in {"old", "new"}, NEW said \in BOOLEAN,
         announces(d, running, said), wire = << >>
  PROVE  /\ WireGrows(Announced(d, running, said))
         /\ <<d, "info">> \in session => \E i \in 1..Len(wire') : wire'[i].field = "info"
<1> DEFINE ms == Announced(d, running, said)
           S == {m \in ms : Topic(m) \in session}
           own1 == Availability(d, "online")
           own2 == Info(d, running)
           after == IF said THEN nodesOffline(d) ELSE {Availability(d, "offline")}
           A == {m \in after : Topic(m) \in session}
           w == Handed(own1) \o Handed(own2) \o SetToSeq(A)
<1>1. wire' = wire \o Handed(own1) \o Handed(own2) \o SetToSeq(A)
  BY DEF announces
<1>2. own1 \in ms /\ own2 \in ms /\ A \subseteq S
  BY DEF Announced
<1>3. Handed(own1) \in Seq(S) /\ Handed(own2) \in Seq(S)
  <2>1. ASSUME NEW m \in ms
        PROVE  Handed(m) \in Seq(S)
    <3>1. CASE Topic(m) \in session
      <4>1. m \in S /\ Handed(m) = <<m>>
        BY <3>1 DEF Handed
      <4> HIDE DEF S
      <4> QED BY <4>1
    <3>2. CASE Topic(m) \notin session
      <4> HIDE DEF S
      <4> QED BY <3>2 DEF Handed
    <3> QED BY <3>1, <3>2
  <2> QED BY <1>2, <2>1
<1>4. SetToSeq(A) \in Seq(S)
  <2>1. IsFiniteSet(ms) /\ A \in SUBSET ms
    BY <1>2, AnnouncedFacts
  <2>2. IsFiniteSet(A)
    BY <2>1, FS_Subset
  <2>3. SetToSeq(A) \in Seq(A)
    BY <2>2, ListOfSet
  <2> HIDE DEF A, S
  <2> QED BY <1>2, <2>3
<1> HIDE DEF A, own1, own2, after
<1>5. w \in Seq(S) /\ wire' = w
  BY <1>1, <1>3, <1>4
<1>6. WireGrows(ms)
  <2>1. wire \in Seq(Messages) /\ ms \in SUBSET Messages
    BY AnnouncedFacts DEF RolloutTypeOK
  <2>2. w \in Seq(ms) /\ \A i \in 1..Len(w) : Topic(w[i]) \in session
    <3>1. \A i \in 1..Len(w) : w[i] \in S
      BY <1>5
    <3>2. S \subseteq ms /\ \A m \in S : Topic(m) \in session
      OBVIOUS
    <3> HIDE DEF w, S, ms
    <3> QED BY <1>5, <3>1, <3>2
  <2>3. wire' = wire \o w
    BY <1>5, <2>1
  <2> HIDE DEF w, S, ms
  <2> QED BY <2>1, <2>2, <2>3, GrowsBy
<1>7. ASSUME <<d, "info">> \in session
      PROVE  \E i \in 1..Len(wire') : wire'[i].field = "info"
  <2>1. Handed(own2) = <<own2>> /\ own2.field = "info"
    BY <1>7 DEF own2, Handed, Info, Message, Topic
  <2>2. Len(Handed(own1)) + 1 \in 1..Len(w) /\ w[Len(Handed(own1)) + 1] = own2
    <3> HIDE DEF S
    <3>1. Handed(own1) \o Handed(own2) \in Seq(S) /\ Len(Handed(own1) \o Handed(own2)) = Len(Handed(own1)) + 1
      BY <1>3, <2>1
    <3>2. (Handed(own1) \o Handed(own2))[Len(Handed(own1)) + 1] = own2
      BY <1>3, <2>1
    <3> QED BY <1>3, <1>4, <3>1, <3>2
  <2> QED BY <1>5, <2>1, <2>2
<1> QED BY <1>6, <1>7

LEMMA AnnouncesRetained ==
  ASSUME RolloutTypeOK, NEW d \in Fleet, NEW running \in {"old", "new"}, NEW said \in BOOLEAN,
         announces(d, running, said)
  PROVE  /\ retained' \in [Retained -> Values]
         /\ retained'[<<d, "info">>] = running
         /\ \A s \in Subjects : s # d => retained'[<<s, "info">>] = retained[<<s, "info">>]
         /\ \A s \in Subjects : s \notin NodesOf[d] /\ s # d =>
              retained'[<<s, "availability">>] = retained[<<s, "availability">>]
         /\ \A n \in NodesOf[d] : retained'[<<n, "availability">>] =
              IF said THEN "offline" ELSE retained[<<n, "availability">>]
         /\ ~said => retained'[<<d, "availability">>] = "offline"
<1> DEFINE after == IF said THEN nodesOffline(d) ELSE {Availability(d, "offline")}
           own1 == Availability(d, "online")
           own2 == Info(d, running)
           kept == Keep(Keep(retained, own1), own2)
<1>1. retained' = [t \in Retained |-> IF \E m \in after : Topic(m) = t THEN "offline" ELSE kept[t]]
  BY DEF announces
<1>2. /\ running \in Values /\ "online" \in Values /\ "offline" \in Values
      /\ "availability" \in Fields /\ "info" \in Fields
  BY DEF Values, Fields
<1>3. d \in Subjects /\ NodesOf[d] \subseteq Subjects /\ d \notin NodesOf[d]
  BY FleetFacts
<1>4. /\ own1 \in Messages /\ Topic(own1) = <<d, "availability">> /\ own1.value = "online"
      /\ own2 \in Messages /\ Topic(own2) = <<d, "info">> /\ own2.value = running
  BY <1>2, <1>3, MessageFacts DEF Availability, Info
<1>5. \A t : (\E m \in after : Topic(m) = t) <=>
        IF said THEN \E n \in NodesOf[d] : t = <<n, "availability">> ELSE t = <<d, "availability">>
  <2>1. \A s \in Subjects : Topic(Availability(s, "offline")) = <<s, "availability">>
    BY <1>2, MessageFacts DEF Availability
  <2>2. CASE said
    BY <1>3, <2>1, <2>2 DEF nodesOffline
  <2>3. CASE ~said
    BY <1>3, <2>1, <2>3
  <2> QED BY <2>2, <2>3
<1>6. retained \in [Retained -> Values]
  BY DEF RolloutTypeOK
<1> HIDE DEF own1, own2, after
<1>7. /\ Keep(retained, own1) \in [Retained -> Values]
      /\ \A t \in Retained : Keep(retained, own1)[t] =
           IF t = <<d, "availability">> THEN "online" ELSE retained[t]
  BY <1>4, <1>6, KeepFacts
<1>8. /\ kept \in [Retained -> Values]
      /\ \A t \in Retained : kept[t] = IF t = <<d, "info">> THEN running ELSE Keep(retained, own1)[t]
  BY <1>4, <1>7, KeepFacts
<1> HIDE DEF kept
<1>9. retained' \in [Retained -> Values]
  BY <1>1, <1>2, <1>8
<1>10. \A s \in Subjects : <<s, "info">> \in Retained /\ <<s, "availability">> \in Retained
  BY DEF Retained
<1>11. retained'[<<d, "info">>] = running
  BY <1>1, <1>3, <1>5, <1>8, <1>10
<1>12. \A s \in Subjects : s # d => retained'[<<s, "info">>] = retained[<<s, "info">>]
  BY <1>1, <1>3, <1>5, <1>7, <1>8, <1>10
<1>13. \A s \in Subjects : s \notin NodesOf[d] /\ s # d =>
         retained'[<<s, "availability">>] = retained[<<s, "availability">>]
  BY <1>1, <1>3, <1>5, <1>7, <1>8, <1>10
<1>14. \A n \in NodesOf[d] : retained'[<<n, "availability">>] =
         IF said THEN "offline" ELSE retained[<<n, "availability">>]
  BY <1>1, <1>3, <1>5, <1>7, <1>8, <1>10
<1>15. ~said => retained'[<<d, "availability">>] = "offline"
  BY <1>1, <1>3, <1>5, <1>10
<1> QED BY <1>9, <1>11, <1>12, <1>13, <1>14, <1>15

-----------------------------------------------------------------------------
(* Steps of the fleet                                                      *)

LEMMA WireFacts ==
  ASSUME RolloutTypeOK
  PROVE  /\ wire \in Seq(Messages) /\ Len(wire) \in Nat
         /\ \A i \in 1..Len(wire) : wire[i] \in Messages /\ wire[i].from \in Subjects /\ wire[i].field \in Fields
<1>1. wire \in Seq(Messages)
  BY DEF RolloutTypeOK
<1>2. \A i \in 1..Len(wire) : wire[i] \in Messages
  BY <1>1
<1>3. \A m \in Messages : m.from \in Subjects /\ m.field \in Fields
  BY DEF Messages
<1> QED BY <1>1, <1>2, <1>3

LEMMA GrowFacts ==
  ASSUME RolloutTypeOK, NEW ms, WireGrows(ms)
  PROVE  /\ Len(wire) \in Nat /\ Len(wire') \in Nat /\ Len(wire') >= Len(wire)
         /\ \A i \in 1..Len(wire) : wire'[i] = wire[i]
         /\ \A i \in 1..Len(wire') : i > Len(wire) => wire'[i] \in ms /\ Topic(wire'[i]) \in session
<1>1. wire' \in Seq(Messages)
  BY DEF WireGrows
<1>2. Len(wire') \in Nat
  BY <1>1
<1> QED BY <1>2, WireFacts DEF WireGrows

LEMMA WireStays ==
  ASSUME RolloutTypeOK, UNCHANGED wire
  PROVE  WireGrows({})
BY WireFacts DEF WireGrows

LEMMA FleetKeepsBuild ==
  ASSUME RolloutTypeOK, BuildTold, UNCHANGED <<seen, confirmed>>, NEW ms \in SUBSET Messages, WireGrows(ms),
         \A s \in Subjects : build[s] = "new" => build'[s] = "new",
         \A s \in Subjects : build'[s] = "new" => image'[s] = "new",
         \A s \in Subjects : retained'[<<s, "info">>] = "new" => build'[s] = "new",
         \A m \in ms : m.field = "info" /\ m.value = "new" => build'[m.from] = "new",
         \A n \in CanNodes : \A i \in 1..Len(canFrames'[n]) :
           canFrames'[n][i] # Restart /\ canFrames'[n][i].git = "new" => build'[n] = "new"
  PROVE  BuildTold'
<1>1. ASSUME NEW i \in 1..Len(wire'), wire'[i].field = "info", wire'[i].value = "new"
      PROVE  build'[wire'[i].from] = "new"
  <2>1. CASE i <= Len(wire)
    <3>1. i \in 1..Len(wire) /\ wire'[i] = wire[i]
      BY <2>1, GrowFacts
    <3>2. wire[i].from \in Subjects
      BY <3>1, WireFacts
    <3> QED BY <1>1, <3>1, <3>2 DEF BuildTold
  <2>2. CASE i > Len(wire)
    BY <1>1, <2>2 DEF WireGrows
  <2>3. Len(wire) \in Nat /\ i \in Nat
    BY WireFacts
  <2> QED BY <2>1, <2>2, <2>3
<1>2. \A s \in Subjects : seen'[s].info = "new" => build'[s] = "new"
  BY DEF BuildTold
<1>3. \A n \in confirmed' : build'[n] = "new"
  BY FleetFacts DEF BuildTold, RolloutTypeOK
<1> QED BY <1>1, <1>2, <1>3 DEF BuildTold

LEMMA FleetKeepsStep ==
  ASSUME AtStep, UNCHANGED toolVars
  PROVE  AtStep'
BY DEF AtStep, toolVars

LEMMA StepFacts ==
  ASSUME RolloutTypeOK, AtStep, phase \in Waits
  PROVE  Order[step] \in Fleet /\ Order[step] \in Subjects /\ seen[Order[step]] \in Notes
BY FleetFacts DEF AtStep, RolloutTypeOK

LEMMA FleetKeepsPreflight ==
  ASSUME RolloutTypeOK, AtStep, PreflightReads, UNCHANGED toolVars, NEW ms \in SUBSET Messages, WireGrows(ms),
         phase \in {"preflight", "draining"} =>
           /\ \A m \in ms : Topic(m) \in session => m.field # "info"
           /\ Order[step] \in linked => Order[step] \in linked' \/ Len(wire') > Len(wire)
  PROVE  PreflightReads'
<1> SUFFICES ASSUME phase \in {"preflight", "draining"}
             PROVE  PreflightReads'
  BY DEF PreflightReads, toolVars
<1> DEFINE d == Order[step]
           K == Unread(d)
<1>1. K \in 0..2 /\ Unread(d)' = K /\ seen' = seen /\ phase' = phase /\ step' = step
  BY DEF Unread, toolVars
<1>2. phase = "draining" => seen[d].availability = "online"
  BY DEF PreflightReads
<1>3. CASE seen[d].availability \notin {"none", "online"}
  BY <1>1, <1>2, <1>3 DEF PreflightReads
<1>4. CASE seen[d].availability \in {"none", "online"}
  <2>1. /\ Len(wire) >= K
        /\ \A i \in 1..Len(wire) : i > K => wire[i].field # "info"
        /\ \A i \in 1..Len(wire) : i <= K =>
             \/ seen[d].availability = "none" /\ wire[i].field = "availability"
             \/ ~seen[d].fresh /\ wire[i].field = "info"
        /\ K = 2 => wire[1].field # wire[2].field
        /\ \/ d \in linked \/ Len(wire) > K
           \/ \E i \in 1..Len(wire) : i <= K /\ wire[i].field = "availability" /\ wire[i].value # "online"
    BY <1>4 DEF PreflightReads
  <2>2. /\ Len(wire) \in Nat /\ Len(wire') \in Nat /\ Len(wire') >= Len(wire)
        /\ \A i \in 1..Len(wire) : wire'[i] = wire[i]
    BY GrowFacts
  <2> HIDE DEF K
  <2>3. \A i \in 1..Len(wire') : i > K => wire'[i].field # "info"
    <3>1. ASSUME NEW i \in 1..Len(wire'), i > Len(wire)
          PROVE  wire'[i].field # "info"
      BY <3>1 DEF WireGrows
    <3> QED BY <2>1, <2>2, <3>1
  <2>4. \A i \in 1..Len(wire') : i <= K => i \in 1..Len(wire) /\ wire'[i] = wire[i]
    BY <1>1, <2>1, <2>2
  <2>5. K = 2 => wire'[1].field # wire'[2].field
    BY <2>1, <2>2
  <2>6. \/ d \in linked' \/ Len(wire') > K
        \/ \E i \in 1..Len(wire') : i <= K /\ wire'[i].field = "availability" /\ wire'[i].value # "online"
    <3>1. CASE d \in linked
      BY <1>1, <2>1, <2>2, <3>1
    <3>2. CASE Len(wire) > K
      BY <1>1, <2>2, <3>2
    <3>3. CASE \E i \in 1..Len(wire) : i <= K /\ wire[i].field = "availability" /\ wire[i].value # "online"
      BY <2>2, <3>3
    <3> QED BY <2>1, <3>1, <3>2, <3>3
  <2>7. Len(wire') >= K
    BY <1>1, <2>1, <2>2
  <2>8. \A i \in 1..Len(wire') : i <= K =>
             \/ seen[d].availability = "none" /\ wire'[i].field = "availability"
             \/ ~seen[d].fresh /\ wire'[i].field = "info"
    BY <2>1, <2>4
  <2> QED BY <1>1, <1>2, <2>3, <2>5, <2>6, <2>7, <2>8 DEF PreflightReads
<1> QED BY <1>3, <1>4

LEMMA FleetKeepsUpload ==
  ASSUME RolloutTypeOK, UploadTold, UNCHANGED toolVars, NEW ms \in SUBSET Messages, WireGrows(ms),
         receiving' \subseteq receiving, \A m \in ms : m.field # "ack",
         phase \in {"sending", "verify"} =>
           /\ \A m \in ms : Topic(m) \in session => m.field # "info"
           /\ Order[step] \in restartDue <=> Order[step] \in restartDue'
           /\ Order[step] \in restarted => Order[step] \in restarted'
  PROVE  UploadTold'
<1>1. /\ Len(wire) \in Nat /\ Len(wire') \in Nat /\ Len(wire') >= Len(wire)
      /\ \A i \in 1..Len(wire) : wire'[i] = wire[i]
      /\ \A i \in 1..Len(wire') : i > Len(wire) => wire'[i] \in ms /\ Topic(wire'[i]) \in session
  BY GrowFacts
<1>2. phase' = phase /\ step' = step /\ seen' = seen
  BY DEF toolVars
<1>3. (\E i \in 1..Len(wire') : wire'[i].field = "ack") <=> \E i \in 1..Len(wire) : wire[i].field = "ack"
  BY <1>1
<1>4. Stored' <=> Stored
  BY <1>2, <1>3 DEF Stored
<1>5. ASSUME phase \in {"sending", "verify"}
      PROVE  Told(Order[step])' <=> Told(Order[step])
  <2>1. (\E i \in 1..Len(wire') : wire'[i].field = "info") <=> \E i \in 1..Len(wire) : wire[i].field = "info"
    BY <1>1, <1>5
  <2> QED BY <1>2, <2>1 DEF Told
<1>6. phase \notin {"file", "sending"} => \A i \in 1..Len(wire') : wire'[i].field # "ack"
  BY <1>3 DEF UploadTold
<1>7. ASSUME phase \in {"sending", "verify"}
      PROVE  /\ Order[step] \in receiving' => ~Told(Order[step])' /\ ~Stored'
             /\ Stored' /\ ~Told(Order[step])' => Order[step] \in restartDue'
             /\ Stored' /\ Told(Order[step])' => Order[step] \in restarted' \ restartDue'
  BY <1>4, <1>5, <1>7 DEF UploadTold
<1> QED BY <1>2, <1>6, <1>7 DEF UploadTold

LEMMA FleetKeepsDone ==
  ASSUME RolloutTypeOK, AtStep, DoneTold, NodeTold, UNCHANGED toolVars,
         \A s \in Subjects : build[s] = "new" => build'[s] = "new",
         \A d \in restarted \ restartDue :
           /\ d \in restarted' /\ (d \in restartDue' => phase = "sending" /\ d = Order[step])
           /\ \A n \in NodesOf[d] : n \in back \cup unsaid => n \in back' \cup unsaid'
  PROVE  DoneTold'
<1>1. phase' = phase /\ step' = step /\ status' = status /\ planned' = planned
  BY DEF toolVars
<1>2. ASSUME phase \in {"baseline", "soak", "presence"}
      PROVE  Order[step] \in restarted' \ restartDue' /\ build'[Order[step]] = "new"
  <2>1. Order[step] \in Subjects
    BY <1>2, StepFacts DEF Waits
  <2> QED BY <1>2, <2>1 DEF DoneTold
<1>3. ASSUME NEW d \in Fleet, status[d] = "done"
      PROVE  /\ d \in restarted' \ restartDue' /\ build'[d] = "new"
             /\ planned[d] \subseteq back' \cup unsaid'
  <2>1. d \in restarted \ restartDue /\ build[d] = "new" /\ planned[d] \subseteq back \cup unsaid
    BY <1>3 DEF DoneTold
  <2>2. planned[d] \subseteq NodesOf[d] /\ d \in Subjects
    BY FleetFacts DEF NodeTold
  <2>3. ~(phase = "sending" /\ d = Order[step])
    BY <1>3 DEF AtStep, Waits
  <2> QED BY <2>1, <2>2, <2>3
<1> QED BY <1>1, <1>2, <1>3 DEF DoneTold

LEMMA FleetKeepsNodes ==
  ASSUME RolloutTypeOK, AtStep, NodeTold, UNCHANGED toolVars, NEW ms \in SUBSET Messages, WireGrows(ms),
         \A d \in restarted' : \A n \in NodesOf[d] :
           retained'[<<n, "availability">>] = "online" => n \in back' \cup unsaid',
         phase = "presence" => \A n \in NodesOf[Order[step]] :
           /\ n \in back \cup unsaid => n \in back' \cup unsaid'
           /\ \A m \in ms : m.from = n /\ m.field = "availability" /\ m.value = "online" => n \in back' \cup unsaid'
  PROVE  NodeTold'
<1>1. /\ Len(wire) \in Nat /\ Len(wire') \in Nat /\ Len(wire') >= Len(wire)
      /\ \A i \in 1..Len(wire) : wire'[i] = wire[i]
      /\ \A i \in 1..Len(wire') : i > Len(wire) => wire'[i] \in ms
  BY GrowFacts
<1>2. phase' = phase /\ step' = step /\ seen' = seen /\ planned' = planned
  BY DEF toolVars
<1>3. ASSUME phase = "presence", NEW n \in NodesOf[Order[step]]
      PROVE  /\ seen[n].availability = "online" => n \in back' \cup unsaid'
             /\ \A i \in 1..Len(wire') :
                  wire'[i].from = n /\ wire'[i].field = "availability" /\ wire'[i].value = "online" =>
                    n \in back' \cup unsaid'
  <2>1. /\ seen[n].availability = "online" => n \in back \cup unsaid
        /\ \A i \in 1..Len(wire) :
             wire[i].from = n /\ wire[i].field = "availability" /\ wire[i].value = "online" => n \in back \cup unsaid
    BY <1>3 DEF NodeTold
  <2> QED BY <1>1, <1>3, <2>1
<1> QED BY <1>2, <1>3 DEF NodeTold

LEMMA Named ==
  /\ {"online", "offline", "old", "new", "drop", "stored"} \subseteq Values
  /\ {"availability", "info", "diag", "ack"} \subseteq Fields
BY DEF Values, Fields

LEMMA PublishedFacts ==
  ASSUME NEW s \in Subjects
  PROVE  /\ \A v \in {"online", "offline"} :
              LET m == Availability(s, v)
              IN  m \in Messages /\ Topic(m) = <<s, "availability">> /\ m.field = "availability" /\ m.from = s /\ m.value = v
         /\ \A b \in {"old", "new"} :
              LET m == Info(s, b)
              IN  m \in Messages /\ Topic(m) = <<s, "info">> /\ m.field = "info" /\ m.from = s /\ m.value = b
         /\ LET m == Message(s, "diag", "drop")
            IN  m \in Messages /\ Topic(m) = <<s, "diag">> /\ m.field = "diag" /\ m.from = s
BY Named, MessageFacts DEF Availability, Info

LEMMA FleetTypes ==
  ASSUME RolloutTypeOK, UNCHANGED toolVars,
         build' \in [Subjects -> {"old", "new"}], image' \in [Subjects -> {"old", "new"}],
         live' \subseteq Subjects, linked' \subseteq Fleet,
         canFrames' \in [CanNodes -> Seq(Frames)],
         restartDue' \subseteq Fleet, restarted' \subseteq Fleet,
         retained' \in [Retained -> Values], wire' \in Seq(Messages)
  PROVE  RolloutTypeOK'
BY DEF RolloutTypeOK, toolVars

LEMMA TypeFacts ==
  ASSUME RolloutTypeOK
  PROVE  /\ build \in [Subjects -> {"old", "new"}] /\ image \in [Subjects -> {"old", "new"}]
         /\ live \subseteq Subjects /\ linked \subseteq Fleet
         /\ canFrames \in [CanNodes -> Seq(Frames)]
         /\ restartDue \subseteq Fleet /\ restarted \subseteq Fleet
         /\ retained \in [Retained -> Values] /\ seen \in [Subjects -> Notes]
BY DEF RolloutTypeOK

LEMMA SubscribedToOwn ==
  ASSUME AtStep, phase \in {"preflight", "draining", "sending", "verify"}
  PROVE  /\ \A s, f : <<s, f>> \in session => s = Order[step] /\ f # "diag"
         /\ \A f \in {"availability", "info", "ack"} : <<Order[step], f>> \in session
BY DEF AtStep

LEMMA FleetKeepsWire ==
  ASSUME RolloutTypeOK, AtStep, WireTold, UNCHANGED toolVars, NEW ms \in SUBSET Messages, WireGrows(ms),
         receiving' \subseteq receiving, \A m \in ms : m.field # "ack"
  PROVE  WireTold'
<1>1. /\ Len(wire) \in Nat /\ Len(wire') \in Nat /\ Len(wire') >= Len(wire)
      /\ \A i \in 1..Len(wire) : wire'[i] = wire[i]
      /\ \A i \in 1..Len(wire') : i > Len(wire) => wire'[i] \in ms /\ Topic(wire'[i]) \in session
  BY GrowFacts
<1>2. phase' = phase /\ step' = step
  BY DEF toolVars
<1>3. \A i \in 1..Len(wire') : wire'[i].field = "ack" => i \in 1..Len(wire) /\ wire[i].field = "ack"
  BY <1>1
<1>4. ASSUME phase \in {"preflight", "draining", "sending", "verify"}, NEW i \in 1..Len(wire')
      PROVE  wire'[i].from = Order[step]
  <2>1. CASE i <= Len(wire)
    BY <1>1, <1>4, <2>1 DEF WireTold
  <2>2. CASE i > Len(wire)
    <3>1. <<wire'[i].from, wire'[i].field>> \in session
      BY <1>1, <2>2 DEF Topic
    <3> QED BY <1>4, <3>1, SubscribedToOwn
  <2> QED BY <1>1, <2>1, <2>2
<1>5. ASSUME phase \in {"file", "sending"}
      PROVE  /\ Order[step] \in receiving' => \A i \in 1..Len(wire') : wire'[i].field # "ack"
             /\ \A i, j \in 1..Len(wire') : wire'[i].field = "ack" /\ wire'[j].field = "ack" => i = j
  BY <1>3, <1>5 DEF WireTold
<1> QED BY <1>2, <1>4, <1>5 DEF WireTold

\* A session that breaks.
LEMMA DropKeeps ==
  ASSUME RolloutInv, NEW d \in Fleet, deviceDrops(d)
  PROVE  RolloutInv'
<1> DEFINE m == Availability(d, "offline")
<1>1. /\ d \in linked /\ linked' = linked \ {d} /\ Publish(m)
      /\ UNCHANGED <<build, image, live, canFrames, receiving, restartDue, restarted, back, unsaid, toolVars>>
  BY DEF deviceDrops
<1>2. /\ RolloutTypeOK /\ BuildTold /\ AtStep /\ LinkTold
      /\ PreflightReads /\ UploadTold /\ DoneTold /\ NodeTold /\ WireTold
  BY DEF RolloutInv
<1>3. d \in Subjects
  BY FleetFacts
<1>4. m \in Messages /\ Topic(m) = <<d, "availability">> /\ m.field = "availability" /\ m.value = "offline" /\ m.from = d
  BY <1>3, PublishedFacts
<1> HIDE DEF m
<1>5. /\ WireGrows({m}) /\ (Topic(m) \in session => Len(wire') > Len(wire))
      /\ retained' \in [Retained -> Values]
      /\ \A s \in Subjects : \A f \in {"availability", "info"} :
           retained'[<<s, f>>] = IF s = m.from /\ f = m.field THEN m.value ELSE retained[<<s, f>>]
  BY <1>1, <1>2, <1>4, PublishEffect
<1>6. {m} \in SUBSET Messages
  BY <1>4
<1>8. RolloutTypeOK'
  <2>1. wire' \in Seq(Messages)
    BY <1>5 DEF WireGrows
  <2>2. linked' \subseteq Fleet
    BY <1>1, <1>2, TypeFacts
  <2> QED BY <1>1, <1>2, <1>5, <2>1, <2>2, TypeFacts, FleetTypes
<1>9. BuildTold'
  <2>1. \A s \in Subjects : retained'[<<s, "info">>] = retained[<<s, "info">>]
    BY <1>4, <1>5
  <2> QED BY <1>1, <1>2, <1>4, <1>5, <1>6, <2>1, FleetKeepsBuild DEF BuildTold, toolVars
<1>10. AtStep'
  BY <1>1, <1>2, FleetKeepsStep
<1>11. LinkTold'
  <2>1. ASSUME NEW e \in Fleet, retained'[<<e, "availability">>] = "online"
        PROVE  e \in linked'
    <3>1. e \in Subjects
      BY FleetFacts
    <3>2. e # d /\ retained[<<e, "availability">>] = "online"
      BY <1>4, <1>5, <2>1, <3>1
    <3> QED BY <1>1, <1>2, <3>2 DEF LinkTold
  <2> QED BY <1>1, <1>2, <2>1 DEF LinkTold
<1>12. PreflightReads'
  <2>1. ASSUME phase \in {"preflight", "draining"}
        PROVE  Order[step] \in linked => Order[step] \in linked' \/ Len(wire') > Len(wire)
    BY <1>1, <1>2, <1>4, <1>5, <2>1, SubscribedToOwn
  <2> QED BY <1>1, <1>2, <1>4, <1>5, <1>6, <2>1, FleetKeepsPreflight
<1>13. UploadTold'
  BY <1>1, <1>2, <1>4, <1>5, <1>6, FleetKeepsUpload
<1>14. DoneTold'
  BY <1>1, <1>2, FleetKeepsDone
<1>15. NodeTold'
  <2>1. ASSUME NEW e \in restarted', NEW n \in NodesOf[e], retained'[<<n, "availability">>] = "online"
        PROVE  n \in back' \cup unsaid'
    <3>1. e \in Fleet /\ n \in Subjects
      BY <1>1, <1>2, TypeFacts, FleetFacts
    <3>2. retained[<<n, "availability">>] = "online"
      BY <1>4, <1>5, <2>1, <3>1
    <3> QED BY <1>1, <1>2, <2>1, <3>2 DEF NodeTold
  <2> QED BY <1>1, <1>2, <1>4, <1>5, <1>6, <2>1, FleetKeepsNodes
<1>16. WireTold'
  BY <1>1, <1>2, <1>4, <1>5, <1>6, FleetKeepsWire
<1> QED BY <1>8, <1>9, <1>10, <1>11, <1>12, <1>13, <1>14, <1>15, <1>16 DEF RolloutInv

\* A session that comes back.
LEMMA ReconnectKeeps ==
  ASSUME RolloutInv, NEW d \in Fleet, deviceReconnects(d)
  PROVE  RolloutInv'
<1> DEFINE m == Availability(d, "online")
           next == Message(d, "diag", "drop")
<1>1. /\ d \in live /\ linked' = linked \cup {d} /\ PublishBoth(m, next)
      /\ UNCHANGED <<build, image, live, canFrames, receiving, restartDue, restarted, back, unsaid, toolVars>>
  BY DEF deviceReconnects
<1>2. /\ RolloutTypeOK /\ BuildTold /\ AtStep /\ LinkTold
      /\ PreflightReads /\ UploadTold /\ DoneTold /\ NodeTold /\ WireTold
  BY DEF RolloutInv
<1>3. d \in Subjects
  BY FleetFacts
<1>4. /\ m \in Messages /\ Topic(m) = <<d, "availability">> /\ m.field = "availability" /\ m.from = d
      /\ next \in Messages /\ Topic(next) = <<d, "diag">> /\ next.field = "diag"
  BY <1>3, PublishedFacts
<1> HIDE DEF m, next
<1>5. /\ WireGrows({m, next})
      /\ retained' \in [Retained -> Values]
      /\ \A s \in Subjects : \A f \in {"availability", "info"} :
           retained'[<<s, f>>] = IF s = next.from /\ f = next.field THEN next.value
                                 ELSE IF s = m.from /\ f = m.field THEN m.value ELSE retained[<<s, f>>]
  BY <1>1, <1>2, <1>4, PublishBothEffect
<1>6. {m, next} \in SUBSET Messages
  BY <1>4
<1>8. RolloutTypeOK'
  <2>1. wire' \in Seq(Messages)
    BY <1>5 DEF WireGrows
  <2>2. linked' \subseteq Fleet
    BY <1>1, <1>2, TypeFacts
  <2> QED BY <1>1, <1>2, <1>5, <2>1, <2>2, TypeFacts, FleetTypes
<1>9. BuildTold'
  <2>1. \A s \in Subjects : retained'[<<s, "info">>] = retained[<<s, "info">>]
    BY <1>4, <1>5
  <2> QED BY <1>1, <1>2, <1>4, <1>5, <1>6, <2>1, FleetKeepsBuild DEF BuildTold, toolVars
<1>10. AtStep'
  BY <1>1, <1>2, FleetKeepsStep
<1>11. LinkTold'
  <2>1. ASSUME NEW e \in Fleet, e # d
        PROVE  retained'[<<e, "availability">>] = retained[<<e, "availability">>]
    BY <1>4, <1>5, <2>1, FleetFacts
  <2> QED BY <1>1, <1>2, <2>1 DEF LinkTold
<1>12. PreflightReads'
  BY <1>1, <1>2, <1>4, <1>5, <1>6, FleetKeepsPreflight
<1>13. UploadTold'
  BY <1>1, <1>2, <1>4, <1>5, <1>6, FleetKeepsUpload
<1>14. DoneTold'
  BY <1>1, <1>2, FleetKeepsDone
<1>15. NodeTold'
  <2>1. ASSUME NEW e \in Fleet, NEW n \in NodesOf[e]
        PROVE  n # d /\ retained'[<<n, "availability">>] = retained[<<n, "availability">>]
    <3>1. n \in Subjects /\ n # d
      BY FleetFacts
    <3> QED BY <1>4, <1>5, <3>1
  <2>2. \A e \in restarted' : \A n \in NodesOf[e] :
           retained'[<<n, "availability">>] = "online" => n \in back' \cup unsaid'
    BY <1>1, <1>2, <2>1, TypeFacts DEF NodeTold
  <2>3. phase = "presence" => Order[step] \in Fleet
    BY <1>2, StepFacts DEF Waits
  <2> QED BY <1>1, <1>2, <1>4, <1>5, <1>6, <2>1, <2>2, <2>3, FleetKeepsNodes
<1>16. WireTold'
  BY <1>1, <1>2, <1>4, <1>5, <1>6, FleetKeepsWire
<1> QED BY <1>8, <1>9, <1>10, <1>11, <1>12, <1>13, <1>14, <1>15, <1>16 DEF RolloutInv

\* A restart, or a crash.
LEMMA StopKeeps ==
  ASSUME RolloutInv, NEW d \in Fleet, deviceStops(d)
  PROVE  RolloutInv'
<1> DEFINE m == Availability(d, "offline")
           ms == IF d \in linked THEN {m} ELSE {}
<1>1. /\ live' = live \ {d} /\ linked' = linked \ {d} /\ receiving' = receiving \ {d}
      /\ IF d \in linked THEN Publish(m) ELSE UNCHANGED brokerVars
      /\ UNCHANGED <<build, image, canFrames, restartDue, restarted, back, unsaid, toolVars>>
  BY DEF deviceStops
<1>2. /\ RolloutTypeOK /\ BuildTold /\ AtStep /\ LinkTold
      /\ PreflightReads /\ UploadTold /\ DoneTold /\ NodeTold /\ WireTold
  BY DEF RolloutInv
<1>3. d \in Subjects
  BY FleetFacts
<1>4. m \in Messages /\ Topic(m) = <<d, "availability">> /\ m.field = "availability" /\ m.value = "offline" /\ m.from = d
  BY <1>3, PublishedFacts
<1> HIDE DEF m
<1>5. /\ WireGrows(ms) /\ (d \in linked /\ Topic(m) \in session => Len(wire') > Len(wire))
      /\ retained' \in [Retained -> Values]
      /\ \A s \in Subjects : \A f \in {"availability", "info"} :
           retained'[<<s, f>>] = IF d \in linked /\ s = d /\ f = "availability" THEN "offline" ELSE retained[<<s, f>>]
  <2>1. CASE d \in linked
    BY <1>1, <1>2, <1>4, <2>1, PublishEffect
  <2>2. CASE d \notin linked
    BY <1>1, <1>2, <2>2, WireStays, TypeFacts DEF brokerVars
  <2> QED BY <2>1, <2>2
<1>6. ms \in SUBSET Messages /\ \A x \in ms : x = m
  BY <1>4
<1> HIDE DEF ms
<1>7. RolloutTypeOK'
  <2>1. wire' \in Seq(Messages)
    BY <1>5 DEF WireGrows
  <2>2. linked' \subseteq Fleet /\ live' \subseteq Subjects
    BY <1>1, <1>2, TypeFacts
  <2> QED BY <1>1, <1>2, <1>5, <2>1, <2>2, TypeFacts, FleetTypes
<1>8. BuildTold'
  <2>1. \A s \in Subjects : retained'[<<s, "info">>] = retained[<<s, "info">>]
    BY <1>5
  <2> QED BY <1>1, <1>2, <1>4, <1>5, <1>6, <2>1, FleetKeepsBuild DEF BuildTold, toolVars
<1>9. AtStep'
  BY <1>1, <1>2, FleetKeepsStep
<1>10. LinkTold'
  <2>1. ASSUME NEW e \in Fleet, retained'[<<e, "availability">>] = "online"
        PROVE  e \in linked'
    <3>1. e \in Subjects
      BY FleetFacts
    <3>2. retained[<<e, "availability">>] = "online" /\ ~(d \in linked /\ e = d)
      BY <1>5, <2>1, <3>1
    <3> QED BY <1>1, <1>2, <3>2 DEF LinkTold
  <2> QED BY <1>1, <1>2, <2>1 DEF LinkTold
<1>11. PreflightReads'
  <2>1. ASSUME phase \in {"preflight", "draining"}
        PROVE  Order[step] \in linked => Order[step] \in linked' \/ Len(wire') > Len(wire)
    BY <1>1, <1>2, <1>4, <1>5, <2>1, SubscribedToOwn
  <2> QED BY <1>1, <1>2, <1>4, <1>5, <1>6, <2>1, FleetKeepsPreflight
<1>12. UploadTold'
  BY <1>1, <1>2, <1>4, <1>5, <1>6, FleetKeepsUpload
<1>13. DoneTold'
  BY <1>1, <1>2, FleetKeepsDone
<1>14. NodeTold'
  <2>1. ASSUME NEW e \in restarted', NEW n \in NodesOf[e], retained'[<<n, "availability">>] = "online"
        PROVE  n \in back' \cup unsaid'
    <3>1. e \in Fleet /\ n \in Subjects
      BY <1>1, <1>2, TypeFacts, FleetFacts
    <3>2. retained[<<n, "availability">>] = "online"
      BY <1>5, <2>1, <3>1
    <3> QED BY <1>1, <1>2, <2>1, <3>2 DEF NodeTold
  <2> QED BY <1>1, <1>2, <1>4, <1>5, <1>6, <2>1, FleetKeepsNodes
<1>15. WireTold'
  BY <1>1, <1>2, <1>4, <1>5, <1>6, FleetKeepsWire
<1> QED BY <1>7, <1>8, <1>9, <1>10, <1>11, <1>12, <1>13, <1>14, <1>15 DEF RolloutInv

\* A start, with the image or without.
LEMMA StartKeeps ==
  ASSUME RolloutInv, NEW d \in Fleet, NEW applied \in BOOLEAN, NEW said \in BOOLEAN,
         deviceStarts(d, applied, said)
  PROVE  RolloutInv'
<1> DEFINE running == IF applied THEN image[d] ELSE build[d]
           ms == Announced(d, running, said)
<1>1. /\ d \notin live /\ wire = << >>
      /\ live' = live \cup {d}
      /\ build' = [build EXCEPT ![d] = running] /\ image' = [image EXCEPT ![d] = running]
      /\ linked' = IF said THEN linked \cup {d} ELSE linked
      /\ announces(d, running, said)
      /\ canFrames' = [n \in CanNodes |-> IF n \notin NodesOf[d] THEN canFrames[n]
                         ELSE IF n \in live THEN <<Version(n)>> ELSE << >>]
      /\ restartDue' = restartDue \ {d}
      /\ restarted' = IF d \in restartDue THEN restarted \cup {d} ELSE restarted
      /\ back' = IF d \in restartDue THEN back \ NodesOf[d] ELSE back
      /\ unsaid' = IF said THEN unsaid ELSE unsaid \cup NodesOf[d]
      /\ UNCHANGED <<receiving, toolVars>>
  BY DEF deviceStarts, toolKeepsUp
<1>2. /\ RolloutTypeOK /\ BuildTold /\ AtStep /\ LinkTold
      /\ PreflightReads /\ UploadTold /\ DoneTold /\ NodeTold /\ WireTold
  BY DEF RolloutInv
<1>3. d \in Subjects /\ running \in {"old", "new"}
  BY <1>2, FleetFacts, TypeFacts
<1>4. build[d] = "new" => running = "new"
  BY <1>2, <1>3 DEF BuildTold
<1> HIDE DEF running
<1>5. /\ WireGrows(ms)
      /\ <<d, "info">> \in session => \E i \in 1..Len(wire') : wire'[i].field = "info"
  BY <1>1, <1>2, <1>3, AnnouncesWire
<1>6. /\ retained' \in [Retained -> Values]
      /\ retained'[<<d, "info">>] = running
      /\ \A s \in Subjects : s # d => retained'[<<s, "info">>] = retained[<<s, "info">>]
      /\ \A s \in Subjects : s \notin NodesOf[d] /\ s # d =>
           retained'[<<s, "availability">>] = retained[<<s, "availability">>]
      /\ \A n \in NodesOf[d] : retained'[<<n, "availability">>] =
           IF said THEN "offline" ELSE retained[<<n, "availability">>]
      /\ ~said => retained'[<<d, "availability">>] = "offline"
  BY <1>1, <1>2, <1>3, AnnouncesRetained
<1>7. /\ ms \in SUBSET Messages
      /\ \A m \in ms : /\ m.field = "info" => m.from = d /\ m.value = running
                       /\ m.field # "ack"
                       /\ m.field = "availability" /\ m.value = "online" => m.from = d
                       /\ m.from = d \/ (said /\ m.from \in NodesOf[d])
  BY <1>3, AnnouncedFacts
<1> HIDE DEF ms
<1>8. /\ build' \in [Subjects -> {"old", "new"}] /\ image' \in [Subjects -> {"old", "new"}]
      /\ \A s \in Subjects : s # d => build'[s] = build[s] /\ image'[s] = image[s]
      /\ build'[d] = running /\ image'[d] = running
  BY <1>1, <1>2, <1>3, TypeFacts
<1>9. \A n \in CanNodes : n # d
  BY FleetFacts
<1>10. ASSUME NEW n \in CanNodes
       PROVE  Version(n) \in Frames /\ Version(n).git = build[n]
  <2>1. build[n] \in {"old", "new"}
    BY <1>2, FleetFacts, TypeFacts
  <2> QED BY <2>1 DEF Version, Frames
<1>11. RolloutTypeOK'
  <2>1. wire' \in Seq(Messages)
    BY <1>5 DEF WireGrows
  <2>2. linked' \subseteq Fleet /\ live' \subseteq Subjects /\ restartDue' \subseteq Fleet /\ restarted' \subseteq Fleet
    BY <1>1, <1>2, <1>3, TypeFacts
  <2>3. canFrames' \in [CanNodes -> Seq(Frames)]
    <3>1. canFrames \in [CanNodes -> Seq(Frames)]
      BY <1>2, TypeFacts
    <3>2. \A n \in CanNodes : <<Version(n)>> \in Seq(Frames)
      BY <1>10
    <3> QED BY <1>1, <3>1, <3>2
  <2> QED BY <1>1, <1>2, <1>6, <1>8, <2>1, <2>2, <2>3, FleetTypes
<1>12. BuildTold'
  <2>1. ASSUME NEW s \in Subjects
        PROVE  /\ build[s] = "new" => build'[s] = "new"
               /\ build'[s] = "new" => image'[s] = "new"
               /\ retained'[<<s, "info">>] = "new" => build'[s] = "new"
    BY <1>2, <1>4, <1>6, <1>8 DEF BuildTold
  <2>2. \A m \in ms : m.field = "info" /\ m.value = "new" => build'[m.from] = "new"
    BY <1>7, <1>8
  <2>3. ASSUME NEW n \in CanNodes, NEW i \in 1..Len(canFrames'[n]),
               canFrames'[n][i] # Restart, canFrames'[n][i].git = "new"
        PROVE  build'[n] = "new"
    <3>1. build'[n] = build[n] /\ n \in Subjects
      BY <1>8, <1>9, FleetFacts
    <3>2. CASE n \notin NodesOf[d]
      <4>1. canFrames'[n] = canFrames[n]
        BY <1>1, <3>2
      <4> QED BY <1>2, <2>3, <3>1, <4>1 DEF BuildTold
    <3>3. CASE n \in NodesOf[d] /\ n \in live
      <4>1. canFrames'[n] = <<Version(n)>>
        BY <1>1, <3>3
      <4>2. canFrames'[n][i] = Version(n)
        BY <4>1
      <4> QED BY <1>10, <2>3, <3>1, <4>2
    <3>4. CASE n \in NodesOf[d] /\ n \notin live
      BY <1>1, <2>3, <3>4
    <3> QED BY <3>2, <3>3, <3>4
  <2> QED BY <1>1, <1>2, <1>5, <1>7, <2>1, <2>2, <2>3, FleetKeepsBuild DEF toolVars
<1>13. AtStep'
  BY <1>1, <1>2, FleetKeepsStep
<1>14. LinkTold'
  <2>1. ASSUME NEW e \in Fleet, retained'[<<e, "availability">>] = "online"
        PROVE  e \in linked'
    <3>1. CASE e = d
      BY <1>1, <1>6, <2>1, <3>1
    <3>2. CASE e # d
      <4>1. e \in Subjects /\ e \notin NodesOf[d]
        BY FleetFacts
      <4>2. retained[<<e, "availability">>] = "online"
        BY <1>6, <2>1, <3>2, <4>1
      <4> QED BY <1>1, <1>2, <4>2 DEF LinkTold
    <3> QED BY <3>1, <3>2
  <2> QED BY <1>1, <1>2, <2>1 DEF LinkTold
<1>15. PreflightReads'
  <2>1. CASE phase \in {"preflight", "draining"} /\ seen[Order[step]].availability \in {"none", "online"}
    <3>1. Order[step] \in linked
      <4>1. /\ Len(wire) >= Unread(Order[step])
            /\ \/ Order[step] \in linked \/ Len(wire) > Unread(Order[step])
               \/ \E i \in 1..Len(wire) : i <= Unread(Order[step])
        BY <1>2, <2>1 DEF PreflightReads
      <4>2. Len(wire) = 0 /\ Unread(Order[step]) \in Nat
        BY <1>1 DEF Unread
      <4> QED BY <4>1, <4>2
    <3>2. Order[step] # d /\ Order[step] \in linked'
      BY <1>1, <1>2, <3>1 DEF LinkTold
    <3>3. Order[step] \in Fleet
      BY <1>2, <2>1, StepFacts DEF Waits
    <3>4. \A m \in ms : Topic(m) \in session => m.field # "info"
      <4>1. \A m \in ms : Topic(m) = <<m.from, m.field>>
        BY DEF Topic
      <4> QED BY <1>2, <1>7, <2>1, <3>2, <4>1, SubscribedToOwn
    <3> QED BY <1>1, <1>2, <1>5, <1>7, <3>2, <3>4, FleetKeepsPreflight
  <2>2. CASE phase \in {"preflight", "draining"} /\ seen[Order[step]].availability \notin {"none", "online"}
    BY <1>1, <1>2, <2>2 DEF PreflightReads, toolVars
  <2>3. CASE phase \notin {"preflight", "draining"}
    BY <1>1, <2>3 DEF PreflightReads, toolVars
  <2> QED BY <2>1, <2>2, <2>3
<1>16. UploadTold'
  <2>1. CASE ~(phase \in {"sending", "verify"} /\ d = Order[step])
    <3>1. ASSUME phase \in {"sending", "verify"}
          PROVE  \A m \in ms : Topic(m) \in session => m.field # "info"
      <4>1. \A m \in ms : Topic(m) = <<m.from, m.field>>
        BY DEF Topic
      <4> QED BY <1>2, <1>7, <2>1, <3>1, <4>1, SubscribedToOwn
    <3> QED BY <1>1, <1>2, <1>5, <1>7, <2>1, <3>1, FleetKeepsUpload
  <2>2. CASE phase \in {"sending", "verify"} /\ d = Order[step]
    <3>1. Told(d)'
      BY <1>2, <1>5, <2>2, SubscribedToOwn DEF Told
    <3>2. d \notin receiving'
      BY <1>1, <1>2 DEF LinkTold
    <3>3. \A i \in 1..Len(wire') : wire'[i].field # "ack"
      <4>1. Len(wire) = 0
        BY <1>1
      <4> QED BY <1>2, <1>5, <1>7, <4>1, GrowFacts
    <3>4. phase' = phase /\ step' = step
      BY <1>1 DEF toolVars
    <3>5. Stored' => phase = "verify"
      BY <3>3, <3>4 DEF Stored
    <3>6. phase = "verify" => d \in restarted' \ restartDue'
      <4>1. phase = "verify" => d \in restartDue \/ d \in restarted
        BY <1>2, <2>2 DEF UploadTold, Stored
      <4> QED BY <1>1, <4>1
    <3> QED BY <2>2, <3>1, <3>2, <3>3, <3>4, <3>5, <3>6 DEF UploadTold
  <2> QED BY <2>1, <2>2
<1>17. DoneTold'
  <2>1. ASSUME NEW e \in restarted \ restartDue
        PROVE  /\ e \in restarted' /\ e \notin restartDue'
               /\ \A n \in NodesOf[e] : n \in back \cup unsaid => n \in back' \cup unsaid'
    <3>1. e \in Fleet
      BY <1>2, TypeFacts
    <3>2. d \in restartDue => \A n \in NodesOf[e] : n \notin NodesOf[d]
      BY <2>1, <3>1, OwnNodes
    <3> QED BY <1>1, <2>1, <3>2
  <2>2. \A s \in Subjects : build[s] = "new" => build'[s] = "new"
    BY <1>4, <1>8
  <2> QED BY <1>1, <1>2, <2>1, <2>2, FleetKeepsDone
<1>18. NodeTold'
  <2>1. ASSUME NEW e \in restarted', NEW n \in NodesOf[e], retained'[<<n, "availability">>] = "online"
        PROVE  n \in back' \cup unsaid'
    <3>1. e \in Fleet /\ n \in Subjects /\ n # d
      BY <1>1, <1>2, TypeFacts, FleetFacts
    <3>2. CASE e = d
      BY <1>1, <1>6, <2>1, <3>2
    <3>3. CASE e # d
      <4>1. n \notin NodesOf[d] /\ e \in restarted
        BY <1>1, <3>1, <3>3, OwnNodes
      <4>2. retained[<<n, "availability">>] = "online"
        BY <1>6, <2>1, <3>1, <4>1
      <4> QED BY <1>1, <1>2, <4>1, <4>2 DEF NodeTold
    <3> QED BY <3>2, <3>3
  <2>2. ASSUME phase = "presence", NEW n \in NodesOf[Order[step]]
        PROVE  /\ n \in back \cup unsaid => n \in back' \cup unsaid'
               /\ \A m \in ms : m.from = n /\ m.field = "availability" /\ m.value = "online" => n \in back' \cup unsaid'
    <3>1. Order[step] \in restarted \ restartDue /\ Order[step] \in Fleet
      BY <1>2, <2>2, TypeFacts DEF DoneTold
    <3>2. n # d
      BY <3>1, FleetFacts
    <3>3. d \in restartDue => n \notin NodesOf[d]
      BY <3>1, OwnNodes
    <3> QED BY <1>1, <1>7, <3>2, <3>3
  <2> QED BY <1>1, <1>2, <1>5, <1>7, <2>1, <2>2, FleetKeepsNodes
<1>19. WireTold'
  BY <1>1, <1>2, <1>5, <1>7, FleetKeepsWire
<1> QED BY <1>11, <1>12, <1>13, <1>14, <1>15, <1>16, <1>17, <1>18, <1>19 DEF RolloutInv

\* Steps of a node that nobody hears of.
LEMMA QuietKeeps ==
  ASSUME RolloutInv, live' \subseteq Subjects, \A d \in Fleet : d \in live => d \in live',
         UNCHANGED <<linked, receiving, restartDue, restarted, back, unsaid, brokerVars, toolVars>>,
         build' \in [Subjects -> {"old", "new"}], image' \in [Subjects -> {"old", "new"}],
         canFrames' \in [CanNodes -> Seq(Frames)],
         \A s \in Subjects : build[s] = "new" => build'[s] = "new",
         \A s \in Subjects : build'[s] = "new" => image'[s] = "new",
         \A n \in CanNodes : \A i \in 1..Len(canFrames'[n]) :
           canFrames'[n][i] # Restart /\ canFrames'[n][i].git = "new" => build'[n] = "new"
  PROVE  RolloutInv'
<1>1. /\ RolloutTypeOK /\ BuildTold /\ AtStep /\ LinkTold
      /\ PreflightReads /\ UploadTold /\ DoneTold /\ NodeTold /\ WireTold
  BY DEF RolloutInv
<1>2. retained' = retained /\ wire' = wire
  BY DEF brokerVars
<1>3. WireGrows({}) /\ {} \in SUBSET Messages
  BY <1>1, <1>2, WireStays
<1>4. RolloutTypeOK'
  <2>1. wire' \in Seq(Messages)
    BY <1>3 DEF WireGrows
  <2> QED BY <1>1, <1>2, <2>1, TypeFacts, FleetTypes
<1>5. BuildTold'
  <2>1. \A s \in Subjects : retained'[<<s, "info">>] = "new" => build'[s] = "new"
    BY <1>1, <1>2 DEF BuildTold
  <2> QED BY <1>1, <1>3, <2>1, FleetKeepsBuild DEF toolVars
<1>6. AtStep'
  BY <1>1, FleetKeepsStep
<1>7. LinkTold'
  BY <1>1, <1>2, TypeFacts DEF LinkTold
<1>8. PreflightReads'
  BY <1>1, <1>3, FleetKeepsPreflight
<1>9. UploadTold'
  BY <1>1, <1>3, FleetKeepsUpload
<1>10. DoneTold'
  BY <1>1, FleetKeepsDone
<1>11. NodeTold'
  <2>1. \A d \in restarted' : \A n \in NodesOf[d] :
          retained'[<<n, "availability">>] = "online" => n \in back' \cup unsaid'
    BY <1>1, <1>2 DEF NodeTold
  <2> QED BY <1>1, <1>3, <2>1, FleetKeepsNodes
<1>12. WireTold'
  BY <1>1, <1>3, FleetKeepsWire
<1> QED BY <1>4, <1>5, <1>6, <1>7, <1>8, <1>9, <1>10, <1>11, <1>12 DEF RolloutInv

LEMMA FramesFacts ==
  ASSUME RolloutInv, NEW n \in CanNodes
  PROVE  /\ canFrames[n] \in Seq(Frames) /\ n \in Subjects
         /\ \A i \in 1..Len(canFrames[n]) : canFrames[n][i] \in Frames
         /\ Version(n) \in Frames /\ Version(n).git = build[n] /\ Restart \in Frames
<1>1. canFrames \in [CanNodes -> Seq(Frames)] /\ build \in [Subjects -> {"old", "new"}]
  BY TypeFacts DEF RolloutInv
<1>2. canFrames[n] \in Seq(Frames)
  BY <1>1
<1>3. n \in Subjects /\ build[n] \in {"old", "new"}
  BY <1>1, FleetFacts
<1>4. Version(n) \in Frames /\ Version(n).git = build[n]
  BY <1>3 DEF Version, Frames
<1> QED BY <1>2, <1>3, <1>4 DEF Frames

LEMMA NodeStopKeeps ==
  ASSUME RolloutInv, NEW n \in CanNodes, nodeStops(n)
  PROVE  RolloutInv'
<1>1. /\ live' = live \ {n}
      /\ image' = image \/ image' = [image EXCEPT ![n] = "new"]
      /\ UNCHANGED <<build, linked, canFrames, receiving, restartDue, restarted, back, unsaid, brokerVars, toolVars>>
  BY DEF nodeStops
<1>2. RolloutTypeOK /\ BuildTold
  BY DEF RolloutInv
<1>3. n \in Subjects /\ n \notin Fleet
  BY FleetFacts
<1>4. /\ image' \in [Subjects -> {"old", "new"}]
      /\ \A s \in Subjects : image[s] = "new" => image'[s] = "new"
  BY <1>1, <1>2, <1>3, TypeFacts
<1>5. \A s \in Subjects : build'[s] = "new" => image'[s] = "new"
  BY <1>1, <1>2, <1>4 DEF BuildTold
<1>6. \A m \in CanNodes : \A i \in 1..Len(canFrames'[m]) :
        canFrames'[m][i] # Restart /\ canFrames'[m][i].git = "new" => build'[m] = "new"
  BY <1>1, <1>2 DEF BuildTold
<1>7. live' \subseteq Subjects /\ \A d \in Fleet : d \in live => d \in live'
  BY <1>1, <1>2, <1>3, TypeFacts
<1> QED BY <1>1, <1>2, <1>4, <1>5, <1>6, <1>7, TypeFacts, QuietKeeps

LEMMA NodeStartKeeps ==
  ASSUME RolloutInv, NEW n \in CanNodes, nodeStarts(n)
  PROVE  RolloutInv'
<1> DEFINE version == [cmd |-> "FW_VERSION", git |-> image[n]]
           said == IF GatewayOf(n) \in live THEN canFrames[n] \o <<Restart, version>> ELSE canFrames[n]
<1>1. /\ live' = live \cup {n} /\ build' = [build EXCEPT ![n] = image[n]]
      /\ canFrames' = [canFrames EXCEPT ![n] = said]
      /\ UNCHANGED <<image, linked, receiving, restartDue, restarted, back, unsaid, brokerVars, toolVars>>
  BY DEF nodeStarts
<1>2. RolloutTypeOK /\ BuildTold
  BY DEF RolloutInv
<1>3. n \in Subjects /\ image[n] \in {"old", "new"}
  BY <1>2, FleetFacts, TypeFacts
<1>4. /\ build' \in [Subjects -> {"old", "new"}] /\ build'[n] = image[n]
      /\ \A s \in Subjects : s # n => build'[s] = build[s]
  BY <1>1, <1>2, <1>3, TypeFacts
<1>5. \A s \in Subjects : (build[s] = "new" => build'[s] = "new") /\ (build'[s] = "new" => image'[s] = "new")
  BY <1>1, <1>2, <1>4 DEF BuildTold
<1>6. version \in Frames /\ version # Restart /\ version.git = image[n]
  BY <1>3 DEF Frames, Restart
<1> HIDE DEF version
<1>7. /\ said \in Seq(Frames)
      /\ \A i \in 1..Len(said) : said[i] # Restart /\ said[i].git = "new" => build'[n] = "new"
  <2>1. canFrames[n] \in Seq(Frames) /\ <<Restart, version>> \in Seq(Frames)
    BY <1>6, FramesFacts
  <2>2. ASSUME NEW i \in 1..Len(said), said[i] # Restart, said[i].git = "new"
        PROVE  build'[n] = "new"
    <3>1. CASE i <= Len(canFrames[n])
      <4>1. i \in 1..Len(canFrames[n]) /\ said[i] = canFrames[n][i]
        BY <2>1, <3>1
      <4>2. build[n] = "new"
        BY <1>2, <2>2, <4>1 DEF BuildTold
      <4> QED BY <1>3, <1>5, <4>2
    <3>2. CASE i > Len(canFrames[n])
      <4>1. said = canFrames[n] \o <<Restart, version>> /\ i - Len(canFrames[n]) \in {1, 2}
        BY <2>1, <3>2
      <4>2. said[i] \in {Restart, version}
        BY <2>1, <3>2, <4>1
      <4> QED BY <1>4, <1>6, <2>2, <4>2
    <3> QED BY <2>1, <3>1, <3>2
  <2> QED BY <2>1, <2>2
<1> HIDE DEF said
<1>8. /\ canFrames' \in [CanNodes -> Seq(Frames)] /\ canFrames'[n] = said
      /\ \A m \in CanNodes : m # n => canFrames'[m] = canFrames[m]
  BY <1>1, <1>2, <1>7, TypeFacts
<1>9. ASSUME NEW m \in CanNodes, NEW i \in 1..Len(canFrames'[m]),
             canFrames'[m][i] # Restart, canFrames'[m][i].git = "new"
      PROVE  build'[m] = "new"
  <2>1. CASE m = n
    BY <1>7, <1>8, <1>9, <2>1
  <2>2. CASE m # n
    <3>1. m \in Subjects /\ canFrames'[m] = canFrames[m]
      BY <1>8, <2>2, FleetFacts
    <3> QED BY <1>2, <1>5, <1>9, <3>1 DEF BuildTold
  <2> QED BY <2>1, <2>2
<1>10. live' \subseteq Subjects /\ \A d \in Fleet : d \in live => d \in live'
  BY <1>1, <1>2, <1>3, TypeFacts
<1> QED BY <1>1, <1>2, <1>4, <1>5, <1>8, <1>9, <1>10, TypeFacts, QuietKeeps

\* One frame fewer.
LEMMA TailFrames ==
  ASSUME RolloutInv, NEW n \in CanNodes, canFrames[n] # << >>
  PROVE  /\ Tail(canFrames[n]) \in Seq(Frames) /\ Head(canFrames[n]) \in Frames
         /\ \A i \in 1..Len(Tail(canFrames[n])) :
              /\ i + 1 \in 1..Len(canFrames[n]) /\ Tail(canFrames[n])[i] = canFrames[n][i + 1]
         /\ \A i \in 1..Len(Tail(canFrames[n])) :
              Tail(canFrames[n])[i] # Restart /\ Tail(canFrames[n])[i].git = "new" => build[n] = "new"
         /\ Head(canFrames[n]) # Restart /\ Head(canFrames[n]).git = "new" => build[n] = "new"
<1>1. canFrames[n] \in Seq(Frames) /\ BuildTold
  BY FramesFacts DEF RolloutInv
<1>2. /\ Tail(canFrames[n]) \in Seq(Frames) /\ Head(canFrames[n]) \in Frames
      /\ Head(canFrames[n]) = canFrames[n][1] /\ 1 \in 1..Len(canFrames[n])
      /\ \A i \in 1..Len(Tail(canFrames[n])) :
           i + 1 \in 1..Len(canFrames[n]) /\ Tail(canFrames[n])[i] = canFrames[n][i + 1]
  BY <1>1
<1> QED BY <1>1, <1>2 DEF BuildTold

LEMMA FrameLostKeeps ==
  ASSUME RolloutInv, NEW n \in CanNodes, frameLost(n)
  PROVE  RolloutInv'
<1>1. /\ canFrames[n] # << >> /\ canFrames' = [canFrames EXCEPT ![n] = Tail(canFrames[n])]
      /\ UNCHANGED <<build, image, live, linked, receiving, restartDue, restarted, back, unsaid, brokerVars, toolVars>>
  BY DEF frameLost
<1>2. RolloutTypeOK /\ BuildTold
  BY DEF RolloutInv
<1>3. /\ canFrames' \in [CanNodes -> Seq(Frames)] /\ canFrames'[n] = Tail(canFrames[n])
      /\ \A m \in CanNodes : m # n => canFrames'[m] = canFrames[m]
  BY <1>1, <1>2, TypeFacts, TailFrames
<1>4. ASSUME NEW m \in CanNodes, NEW i \in 1..Len(canFrames'[m]),
             canFrames'[m][i] # Restart, canFrames'[m][i].git = "new"
      PROVE  build'[m] = "new"
  BY <1>1, <1>2, <1>3, <1>4, TailFrames DEF BuildTold
<1> QED BY <1>1, <1>2, <1>3, <1>4, TypeFacts, QuietKeeps DEF BuildTold

\* A gateway hears of a node, or no longer does.
LEMMA HeardKeeps ==
  ASSUME RolloutInv, NEW n \in CanNodes, NEW ms \in SUBSET Messages, WireGrows(ms),
         UNCHANGED <<build, image, live, linked, receiving, restartDue, restarted, unsaid, toolVars>>,
         back \subseteq back', retained' \in [Retained -> Values],
         \A m \in ms : /\ m.from = n /\ m.field # "ack"
                       /\ m.field = "info" /\ m.value = "new" => build[n] = "new"
                       /\ m.field = "availability" /\ m.value = "online" => n \in back',
         \A s \in Subjects : s # n => /\ retained'[<<s, "availability">>] = retained[<<s, "availability">>]
                                      /\ retained'[<<s, "info">>] = retained[<<s, "info">>],
         retained'[<<n, "info">>] = "new" => build[n] = "new",
         retained'[<<n, "availability">>] = "online" => n \in back' \/ retained[<<n, "availability">>] = "online",
         canFrames' \in [CanNodes -> Seq(Frames)],
         \A m \in CanNodes : \A i \in 1..Len(canFrames'[m]) :
           canFrames'[m][i] # Restart /\ canFrames'[m][i].git = "new" => build[m] = "new"
  PROVE  RolloutInv'
<1>1. /\ RolloutTypeOK /\ BuildTold /\ AtStep /\ LinkTold
      /\ PreflightReads /\ UploadTold /\ DoneTold /\ NodeTold /\ WireTold
  BY DEF RolloutInv
<1>2. n \in Subjects /\ n \notin Fleet
  BY FleetFacts
<1>3. RolloutTypeOK'
  <2>1. wire' \in Seq(Messages)
    BY DEF WireGrows
  <2> QED BY <1>1, <2>1, TypeFacts, FleetTypes
<1>4. BuildTold'
  <2>1. \A s \in Subjects : retained'[<<s, "info">>] = "new" => build'[s] = "new"
    BY <1>1 DEF BuildTold
  <2>2. \A m \in ms : m.field = "info" /\ m.value = "new" => build'[m.from] = "new"
    OBVIOUS
  <2> QED BY <1>1, <2>1, <2>2, FleetKeepsBuild DEF BuildTold, toolVars
<1>5. AtStep'
  BY <1>1, FleetKeepsStep
<1>6. LinkTold'
  <2>1. \A d \in Fleet : retained'[<<d, "availability">>] = retained[<<d, "availability">>]
    BY <1>2, FleetFacts
  <2> QED BY <1>1, <2>1 DEF LinkTold
<1>7. ASSUME phase \in {"preflight", "draining", "sending", "verify"}
      PROVE  \A m \in ms : Topic(m) \notin session
  <2>1. Order[step] \in Fleet
    BY <1>1, <1>7, StepFacts DEF Waits
  <2>2. \A m \in ms : Topic(m) = <<m.from, m.field>>
    BY DEF Topic
  <2> QED BY <1>1, <1>2, <1>7, <2>1, <2>2, SubscribedToOwn
<1>8. PreflightReads'
  BY <1>1, <1>7, FleetKeepsPreflight
<1>9. UploadTold'
  BY <1>1, <1>7, FleetKeepsUpload
<1>10. DoneTold'
  BY <1>1, FleetKeepsDone
<1>11. NodeTold'
  <2>1. ASSUME NEW d \in restarted', NEW m \in NodesOf[d], retained'[<<m, "availability">>] = "online"
        PROVE  m \in back' \cup unsaid'
    <3>1. d \in restarted /\ d \in Fleet /\ m \in Subjects
      BY <1>1, TypeFacts, FleetFacts
    <3>2. retained[<<m, "availability">>] = "online" => m \in back \cup unsaid
      BY <1>1, <3>1 DEF NodeTold
    <3> QED BY <2>1, <3>1, <3>2
  <2> QED BY <1>1, <2>1, FleetKeepsNodes
<1>12. WireTold'
  BY <1>1, <1>7, FleetKeepsWire
<1> QED BY <1>3, <1>4, <1>5, <1>6, <1>8, <1>9, <1>10, <1>11, <1>12 DEF RolloutInv

\* One message by way of the gateway.
LEMMA ViaFacts ==
  ASSUME RolloutInv, NEW d, NEW m \in Messages, PublishVia(d, m)
  PROVE  /\ WireGrows({m}) /\ retained' \in [Retained -> Values]
         /\ \A s \in Subjects : \A f \in {"availability", "info"} :
              retained'[<<s, f>>] = retained[<<s, f>>] \/ (s = m.from /\ f = m.field /\ retained'[<<s, f>>] = m.value)
<1>1. RolloutTypeOK
  BY DEF RolloutInv
<1>2. CASE d \in linked
  <2>1. Publish(m)
    BY <1>2 DEF PublishVia
  <2> QED BY <1>1, <2>1, PublishEffect
<1>3. CASE d \notin linked
  <2>1. retained' = retained /\ UNCHANGED wire
    BY <1>3 DEF PublishVia, brokerVars
  <2>2. WireGrows({m})
    BY <1>1, <2>1, WireFacts DEF WireGrows
  <2> QED BY <1>1, <2>1, <2>2, TypeFacts
<1> QED BY <1>2, <1>3

LEMMA BothViaFacts ==
  ASSUME RolloutInv, NEW d, NEW m \in Messages, NEW next \in Messages, PublishBothVia(d, m, next)
  PROVE  /\ WireGrows({m, next}) /\ retained' \in [Retained -> Values]
         /\ \A s \in Subjects : \A f \in {"availability", "info"} :
              \/ retained'[<<s, f>>] = retained[<<s, f>>]
              \/ s = m.from /\ f = m.field /\ retained'[<<s, f>>] = m.value
              \/ s = next.from /\ f = next.field /\ retained'[<<s, f>>] = next.value
<1>1. RolloutTypeOK
  BY DEF RolloutInv
<1>2. CASE d \in linked
  <2>1. PublishBoth(m, next)
    BY <1>2 DEF PublishBothVia
  <2> QED BY <1>1, <2>1, PublishBothEffect
<1>3. CASE d \notin linked
  <2>1. retained' = retained /\ UNCHANGED wire
    BY <1>3 DEF PublishBothVia, brokerVars
  <2>2. WireGrows({m, next})
    BY <1>1, <2>1, WireFacts DEF WireGrows
  <2> QED BY <1>1, <2>1, <2>2, TypeFacts
<1> QED BY <1>2, <1>3

LEMMA FrameArrivedKeeps ==
  ASSUME RolloutInv, NEW n \in CanNodes, canFrameArrived(n)
  PROVE  RolloutInv'
<1> DEFINE head == Head(canFrames[n])
           rest == Tail(canFrames[n])
           left == canFrames'[n]
           on == Availability(n, "online")
           off == Availability(n, "offline")
<1>1. /\ canFrames[n] # << >> /\ back' = back \cup {n}
      /\ UNCHANGED <<build, image, live, linked, receiving, restartDue, restarted, unsaid, toolVars>>
  BY DEF canFrameArrived, Heard
<1>2. RolloutTypeOK /\ BuildTold
  BY DEF RolloutInv
<1>3. /\ rest \in Seq(Frames) /\ head \in Frames
      /\ \A i \in 1..Len(rest) : rest[i] # Restart /\ rest[i].git = "new" => build[n] = "new"
      /\ head # Restart /\ head.git = "new" => build[n] = "new"
  BY <1>1, TailFrames
<1>4. n \in Subjects
  BY FleetFacts
<1>5. /\ on \in Messages /\ on.field = "availability" /\ on.from = n /\ on.value = "online"
      /\ off \in Messages /\ off.field = "availability" /\ off.from = n /\ off.value = "offline"
  BY <1>4, PublishedFacts
<1>6. CASE /\ head = Restart
           /\ PublishBothVia(GatewayOf(n), off, on)
           /\ canFrames' = [canFrames EXCEPT ![n] = rest \o IF n \in live THEN <<Version(n)>> ELSE << >>]
  <2> DEFINE said == rest \o IF n \in live THEN <<Version(n)>> ELSE << >>
  <2>1. Version(n) \in Frames /\ Version(n).git = build[n]
    BY FramesFacts
  <2>2. /\ said \in Seq(Frames)
        /\ \A i \in 1..Len(said) : said[i] # Restart /\ said[i].git = "new" => build[n] = "new"
    <3>1. CASE n \in live
      <4>1. said = Append(rest, Version(n))
        BY <1>3, <2>1, <3>1
      <4> HIDE DEF said, rest
      <4>2. /\ said \in Seq(Frames) /\ Len(said) = Len(rest) + 1
            /\ \A i \in 1..Len(rest) : said[i] = rest[i]
            /\ said[Len(rest) + 1] = Version(n)
        BY <1>3, <2>1, <4>1
      <4>3. \A i \in 1..Len(said) : i \in 1..Len(rest) \/ i = Len(rest) + 1
        BY <1>3, <4>2
      <4> QED BY <1>3, <2>1, <4>2, <4>3
    <3>2. CASE n \notin live
      <4>1. said = rest
        BY <1>3, <3>2
      <4> HIDE DEF said, rest
      <4> QED BY <1>3, <4>1
    <3> QED BY <3>1, <3>2
  <2> HIDE DEF said
  <2>3. /\ canFrames' \in [CanNodes -> Seq(Frames)] /\ canFrames'[n] = said
        /\ \A m \in CanNodes : m # n => canFrames'[m] = canFrames[m]
    BY <1>2, <1>6, <2>2, TypeFacts DEF said
  <2>4. ASSUME NEW m \in CanNodes, NEW i \in 1..Len(canFrames'[m]),
               canFrames'[m][i] # Restart, canFrames'[m][i].git = "new"
        PROVE  build[m] = "new"
    BY <1>2, <2>2, <2>3, <2>4 DEF BuildTold
  <2> HIDE DEF on, off
  <2>5. /\ WireGrows({off, on}) /\ retained' \in [Retained -> Values]
        /\ \A s \in Subjects : \A f \in {"availability", "info"} :
             retained'[<<s, f>>] = retained[<<s, f>>] \/ (s = n /\ f = "availability")
    <3>1. off \in Messages /\ on \in Messages /\ PublishBothVia(GatewayOf(n), off, on)
      BY <1>5, <1>6
    <3>2. /\ WireGrows({off, on}) /\ retained' \in [Retained -> Values]
          /\ \A s \in Subjects : \A f \in {"availability", "info"} :
               \/ retained'[<<s, f>>] = retained[<<s, f>>]
               \/ s = off.from /\ f = off.field /\ retained'[<<s, f>>] = off.value
               \/ s = on.from /\ f = on.field /\ retained'[<<s, f>>] = on.value
      BY <3>1, BothViaFacts
    <3> QED BY <1>5, <3>2
  <2>6. retained'[<<n, "info">>] = retained[<<n, "info">>]
    BY <1>4, <2>5
  <2> QED BY <1>1, <1>2, <1>4, <1>5, <2>3, <2>4, <2>5, <2>6, HeardKeeps, ZenonT(60) DEF BuildTold
<1>7. CASE /\ head.cmd = "FW_VERSION" /\ head # Restart
           /\ IF n \in clientOnline THEN PublishVia(GatewayOf(n), Info(n, head.git))
              ELSE PublishBothVia(GatewayOf(n), Info(n, head.git), on)
           /\ canFrames' = [canFrames EXCEPT ![n] = rest]
  <2> DEFINE info == Info(n, head.git)
             ms == IF n \in clientOnline THEN {info} ELSE {info, on}
  <2>1. head.git \in {"old", "new"}
    BY <1>3, <1>7 DEF Frames
  <2>2. info \in Messages /\ info.field = "info" /\ info.from = n /\ info.value = head.git
    BY <1>4, <2>1, PublishedFacts
  <2>3. /\ canFrames' \in [CanNodes -> Seq(Frames)] /\ canFrames'[n] = rest
        /\ \A m \in CanNodes : m # n => canFrames'[m] = canFrames[m]
    BY <1>2, <1>3, <1>7, TypeFacts
  <2> HIDE DEF on, off, info, rest
  <2>4. ASSUME NEW m \in CanNodes, NEW i \in 1..Len(canFrames'[m]),
               canFrames'[m][i] # Restart, canFrames'[m][i].git = "new"
        PROVE  build[m] = "new"
    BY <1>2, <1>3, <2>3, <2>4 DEF BuildTold
  <2>5. /\ WireGrows(ms) /\ retained' \in [Retained -> Values]
        /\ \A s \in Subjects : \A f \in {"availability", "info"} :
             \/ retained'[<<s, f>>] = retained[<<s, f>>]
             \/ s = n /\ f = "availability"
             \/ s = n /\ f = "info" /\ retained'[<<s, f>>] = head.git
    <3>1. CASE n \in clientOnline
      BY <1>7, <2>2, <3>1, ViaFacts DEF info
    <3>2. CASE n \notin clientOnline
      <4>1. info \in Messages /\ on \in Messages /\ PublishBothVia(GatewayOf(n), info, on)
        BY <1>5, <1>7, <2>2, <3>2 DEF info
      <4>2. /\ WireGrows({info, on}) /\ retained' \in [Retained -> Values]
            /\ \A s \in Subjects : \A f \in {"availability", "info"} :
                 \/ retained'[<<s, f>>] = retained[<<s, f>>]
                 \/ s = info.from /\ f = info.field /\ retained'[<<s, f>>] = info.value
                 \/ s = on.from /\ f = on.field /\ retained'[<<s, f>>] = on.value
        BY <4>1, BothViaFacts
      <4> QED BY <1>5, <2>2, <3>2, <4>2
    <3> QED BY <3>1, <3>2
  <2>6. retained'[<<n, "info">>] = "new" => build[n] = "new"
    BY <1>2, <1>3, <1>4, <1>7, <2>5 DEF BuildTold
  <2>7. ms \in SUBSET Messages /\ \A m \in ms : m = info \/ m = on
    BY <1>5, <2>2
  <2> HIDE DEF ms
  <2> QED BY <1>1, <1>2, <1>3, <1>4, <1>5, <1>7, <2>2, <2>3, <2>4, <2>5, <2>6, <2>7, HeardKeeps, ZenonT(60)
<1>8. Restart.cmd = "RESTART"
  BY DEF Restart
<1> QED BY <1>6, <1>7, <1>8 DEF canFrameArrived

LEMMA PingKeeps ==
  ASSUME RolloutInv, NEW n \in CanNodes, handlePing(n)
  PROVE  RolloutInv'
<1> DEFINE on == Availability(n, "online")
           off == Availability(n, "offline")
<1>1. /\ \/ back' = back \cup {n} /\ PublishVia(GatewayOf(n), on)
         \/ back' = back /\ PublishVia(GatewayOf(n), off)
      /\ UNCHANGED <<build, image, live, linked, canFrames, receiving, restartDue, restarted, unsaid, toolVars>>
  BY DEF handlePing, Heard
<1>2. RolloutTypeOK /\ BuildTold
  BY DEF RolloutInv
<1>3. n \in Subjects
  BY FleetFacts
<1>4. /\ on \in Messages /\ on.field = "availability" /\ on.from = n /\ on.value = "online"
      /\ off \in Messages /\ off.field = "availability" /\ off.from = n /\ off.value = "offline"
  BY <1>3, PublishedFacts
<1> HIDE DEF on, off
<1>5. PICK m \in {on, off} :
        /\ PublishVia(GatewayOf(n), m) /\ (m = on => n \in back') /\ back \subseteq back'
  BY <1>1, <1>4
<1>6. m \in Messages /\ m.field = "availability" /\ m.from = n /\ (m.value = "online" => n \in back')
  BY <1>4, <1>5
<1>7. /\ WireGrows({m}) /\ retained' \in [Retained -> Values]
      /\ \A s \in Subjects : \A f \in {"availability", "info"} :
           \/ retained'[<<s, f>>] = retained[<<s, f>>]
           \/ s = m.from /\ f = m.field /\ retained'[<<s, f>>] = m.value
  BY <1>5, <1>6, ViaFacts
<1>8. /\ retained'[<<n, "info">>] = "new" => build[n] = "new"
      /\ retained'[<<n, "availability">>] = "online" => n \in back' \/ retained[<<n, "availability">>] = "online"
  BY <1>2, <1>3, <1>6, <1>7 DEF BuildTold
<1>9. \A k \in CanNodes : \A i \in 1..Len(canFrames'[k]) :
        canFrames'[k][i] # Restart /\ canFrames'[k][i].git = "new" => build[k] = "new"
  BY <1>1, <1>2 DEF BuildTold
<1> QED BY <1>1, <1>2, <1>5, <1>6, <1>7, <1>8, <1>9, TypeFacts, HeardKeeps

\* The device has the whole upload.
LEMMA StoreKeeps ==
  ASSUME RolloutInv, NEW d \in Fleet, uploadStores(d)
  PROVE  RolloutInv'
<1> DEFINE ack == Message(d, "ack", "stored")
<1>1. /\ phase \in {"file", "sending"} /\ d = Order[step] /\ d \in receiving
      /\ receiving' = receiving \ {d} /\ wire' = Append(wire, ack)
      /\ \/ phase = "file" /\ UNCHANGED <<image, restartDue>>
         \/ phase = "sending" /\ image' = [image EXCEPT ![d] = "new"] /\ restartDue' = restartDue \cup {d}
      /\ UNCHANGED <<build, live, linked, canFrames, restarted, back, unsaid, retained, toolVars>>
  BY DEF uploadStores
<1>2. /\ RolloutTypeOK /\ BuildTold /\ AtStep /\ LinkTold
      /\ PreflightReads /\ UploadTold /\ DoneTold /\ NodeTold /\ WireTold
  BY DEF RolloutInv
<1>3. d \in Subjects
  BY FleetFacts
<1>4. ack \in Messages /\ ack.field = "ack" /\ ack.from = d
  BY <1>3, Named, MessageFacts
<1> HIDE DEF ack
<1>5. /\ wire' \in Seq(Messages) /\ Len(wire') = Len(wire) + 1 /\ Len(wire) \in Nat
      /\ \A i \in 1..Len(wire) : wire'[i] = wire[i]
      /\ wire'[Len(wire) + 1] = ack
  BY <1>1, <1>2, <1>4, WireFacts
<1>6. \A i \in 1..Len(wire') : i \in 1..Len(wire) \/ i = Len(wire) + 1
  BY <1>5
<1>7. phase' = phase /\ step' = step /\ seen' = seen
  BY <1>1 DEF toolVars
<1>8. RolloutTypeOK'
  <2>1. image' \in [Subjects -> {"old", "new"}] /\ restartDue' \subseteq Fleet
    BY <1>1, <1>2, <1>3, TypeFacts
  <2> QED BY <1>1, <1>2, <1>5, <2>1, TypeFacts, FleetTypes
<1>9. BuildTold'
  <2>1. \A s \in Subjects : image[s] = "new" => image'[s] = "new"
    BY <1>1, <1>2, TypeFacts
  <2>2. \A i \in 1..Len(wire') :
          wire'[i].field = "info" /\ wire'[i].value = "new" => build'[wire'[i].from] = "new"
    BY <1>1, <1>2, <1>4, <1>5, <1>6 DEF BuildTold
  <2>3. confirmed' = confirmed
    BY <1>1 DEF toolVars
  <2> QED BY <1>1, <1>2, <1>7, <2>1, <2>2, <2>3 DEF BuildTold
<1>10. AtStep'
  BY <1>1, <1>2, FleetKeepsStep
<1>11. LinkTold'
  BY <1>1, <1>2 DEF LinkTold
<1>12. PreflightReads'
  BY <1>1, <1>7 DEF PreflightReads
<1>13. UploadTold'
  <2>1. CASE phase = "file"
    BY <1>7, <2>1 DEF UploadTold
  <2>2. CASE phase = "sending"
    <3>1. ~Told(d)
      BY <1>1, <1>2, <2>2 DEF UploadTold
    <3>2. ~Told(d)'
      BY <1>4, <1>5, <1>6, <1>7, <3>1 DEF Told
    <3>3. d \in restartDue' /\ d \notin receiving'
      BY <1>1, <2>2
    <3> QED BY <1>1, <1>7, <2>2, <3>2, <3>3 DEF UploadTold
  <2> QED BY <1>1, <2>1, <2>2
<1>14. DoneTold'
  <2>1. \A e \in restarted \ restartDue :
           /\ e \in restarted' /\ (e \in restartDue' => phase = "sending" /\ e = Order[step])
           /\ \A n \in NodesOf[e] : n \in back \cup unsaid => n \in back' \cup unsaid'
    BY <1>1
  <2> QED BY <1>1, <1>2, <2>1, FleetKeepsDone
<1>15. NodeTold'
  <2>1. planned' = planned
    BY <1>1 DEF toolVars
  <2> QED BY <1>1, <1>2, <1>7, <2>1 DEF NodeTold
<1>16. WireTold'
  <2>1. \A i \in 1..Len(wire) : wire[i].field # "ack"
    BY <1>1, <1>2 DEF WireTold
  <2>2. \A i \in 1..Len(wire') : wire'[i].field = "ack" => i = Len(wire) + 1
    BY <1>5, <1>6, <2>1
  <2>3. phase = "sending" => \A i \in 1..Len(wire') : wire'[i].from = d
    BY <1>1, <1>2, <1>4, <1>5, <1>6 DEF WireTold
  <2> QED BY <1>1, <1>7, <2>2, <2>3 DEF WireTold
<1> QED BY <1>8, <1>9, <1>10, <1>11, <1>12, <1>13, <1>14, <1>15, <1>16 DEF RolloutInv

LEMMA FleetStepKeeps ==
  ASSUME RolloutInv, fleetStep
  PROVE  RolloutInv'
BY DropKeeps, ReconnectKeeps, StopKeeps, StoreKeeps, StartKeeps,
   NodeStopKeeps, NodeStartKeeps, FrameLostKeeps, FrameArrivedKeeps, PingKeeps DEF fleetStep

-----------------------------------------------------------------------------
(* Steps of the tool                                                       *)

Entries == {"file", "preflight", "baseline", "baseline with nodes", "presence"}

LEMMA WatchedFacts ==
  ASSUME NEW d \in Fleet, NEW p \in Entries
  PROVE  /\ Watched(p, d) \subseteq Subjects \X Fields
         /\ Watched("preflight", d) = {d} \X {"availability", "info", "ack"}
<1>1. d \in Subjects /\ NodesOf[d] \subseteq Subjects
  BY FleetFacts
<1>2. "availability" \in Fields /\ "info" \in Fields /\ "diag" \in Fields /\ "ack" \in Fields
  BY DEF Fields
<1>3. Watched("file", d) = NodesOf[d] \X {"availability", "info"} \cup {<<d, "ack">>}
  BY DEF Watched
<1>4. Watched("preflight", d) = {d} \X {"availability", "info", "ack"}
  BY DEF Watched
<1>5. Watched("baseline", d) = {d} \X {"availability", "info", "diag"}
  BY DEF Watched
<1>6. Watched("baseline with nodes", d) =
        {d} \X {"availability", "info", "diag"} \cup NodesOf[d] \X {"availability", "info"}
  BY DEF Watched
<1>7. Watched("presence", d) = NodesOf[d] \X {"availability"}
  BY DEF Watched
<1>8. Watched(p, d) \subseteq Subjects \X Fields
  <2>1. CASE p = "file"
    BY <1>1, <1>2, <1>3, <2>1
  <2>2. CASE p = "preflight"
    BY <1>1, <1>2, <1>4, <2>2
  <2>3. CASE p = "baseline"
    BY <1>1, <1>2, <1>5, <2>3
  <2>4. CASE p = "baseline with nodes"
    BY <1>1, <1>2, <1>6, <2>4
  <2>5. CASE p = "presence"
    BY <1>1, <1>2, <1>7, <2>5
  <2> QED BY <2>1, <2>2, <2>3, <2>4, <2>5 DEF Entries
<1> QED BY <1>4, <1>8

LEMMA ListFacts ==
  ASSUME NEW S, NEW n \in Nat, NEW f \in [1..n -> S]
  PROVE  f \in Seq(S) /\ Len(f) = n
OBVIOUS

\* The retained message of a topic.
KeptOn(t) == Message(t[1], t[2], retained[t])

LEMMA KeptFacts ==
  ASSUME RolloutTypeOK, NEW s \in Subjects, NEW f \in {"availability", "info"}
  PROVE  /\ KeptOn(<<s, f>>) \in Messages
         /\ KeptOn(<<s, f>>).from = s /\ KeptOn(<<s, f>>).field = f
         /\ KeptOn(<<s, f>>).value = retained[<<s, f>>]
<1>1. retained[<<s, f>>] \in Values
  BY TypeFacts DEF Retained
<1> QED BY <1>1, Named, MessageFacts DEF KeptOn

LEMMA EnterEffect ==
  ASSUME RolloutInv, NEW p \in Entries, NEW i \in DOMAIN Order, enter(p, i)
  PROVE  /\ phase' = p /\ step' = i /\ session' = Watched(p, Order[i])
         /\ seen' = Unseen /\ failed' = FALSE /\ retained' = retained
         /\ wire' \in Seq(Messages)
         /\ \A j \in 1..Len(wire') : \E s \in Subjects : \E f \in {"availability", "info"} :
              wire'[j] = KeptOn(<<s, f>>)
         /\ p = "preflight" =>
              LET avail == KeptOn(<<Order[i], "availability">>)
                  info  == KeptOn(<<Order[i], "info">>)
              IN  wire' = <<avail, info>> \/ wire' = <<info, avail>>
<1> DEFINE d == Order[i]
           T == Watched(p, d) \cap Retained
           kept == {KeptOn(t) : t \in T}
<1>1. /\ phase' = p /\ step' = i /\ session' = Watched(p, d)
      /\ seen' = Unseen /\ failed' = FALSE /\ retained' = retained
      /\ IF p = "preflight" THEN wire' \in SetToSeqs(kept) ELSE wire' = SetToSeq(kept)
  BY DEF enter, KeptOn
<1>2. RolloutTypeOK /\ d \in Fleet /\ d \in Subjects
  BY FleetFacts DEF RolloutInv
<1>3. \A m \in kept : \E s \in Subjects : \E f \in {"availability", "info"} : m = KeptOn(<<s, f>>)
  BY DEF Retained
<1>4. kept \subseteq Messages
  <2>1. \A s \in Subjects : \A f \in {"availability", "info"} : KeptOn(<<s, f>>) \in Messages
    BY <1>2, KeptFacts
  <2> HIDE DEF kept
  <2> QED BY <1>3, <2>1, ZenonT(60)
<1>5. IsFiniteSet(kept)
  <2>1. IsFiniteSet(T)
    BY FiniteRetained, FS_Subset
  <2> DEFINE f == [t \in T |-> KeptOn(t)]
  <2>2. IsFiniteSet({f[t] : t \in T})
    BY <2>1, FiniteImage
  <2>3. {f[t] : t \in T} = kept
    OBVIOUS
  <2> QED BY <2>2, <2>3
<1>6. Cardinality(kept) \in Nat
  BY <1>5, FS_CardinalityType
<1> DEFINE avail == KeptOn(<<d, "availability">>)
           info  == KeptOn(<<d, "info">>)
<1>7. ASSUME p = "preflight"
      PROVE  /\ wire' \in [1..2 -> kept] /\ wire'[1] # wire'[2] /\ kept = {avail, info}
             /\ wire' = <<avail, info>> \/ wire' = <<info, avail>>
  <2>1. T = {<<d, "availability">>, <<d, "info">>}
    <3>1. Watched(p, d) = {d} \X {"availability", "info", "ack"}
      BY <1>2, <1>7, WatchedFacts DEF Entries
    <3>2. T \subseteq {<<d, "availability">>, <<d, "info">>}
      BY <3>1 DEF Retained
    <3>3. <<d, "availability">> \in T /\ <<d, "info">> \in T
      BY <1>2, <3>1 DEF Retained
    <3> QED BY <3>2, <3>3
  <2>2. kept = {avail, info}
    BY <2>1
  <2>3. avail.field = "availability" /\ info.field = "info"
    BY <1>2, KeptFacts
  <2> HIDE DEF kept, avail, info
  <2>4. Cardinality(kept) = 2
    <3>1. IsFiniteSet({avail}) /\ Cardinality({avail}) = 1
      BY FS_Singleton
    <3>2. info \notin {avail}
      BY <2>3
    <3>3. Cardinality({avail} \cup {info}) = 2
      BY <3>1, <3>2, FS_AddElement
    <3>4. {avail} \cup {info} = kept
      BY <2>2
    <3> QED BY <3>3, <3>4
  <2>5. wire' \in [1..2 -> kept] /\ \A a, b \in 1..2 : a # b => wire'[a] # wire'[b]
    BY <1>1, <1>7, <2>4 DEF SetToSeqs
  <2>6. wire'[1] \in kept /\ wire'[2] \in kept /\ wire'[1] # wire'[2]
    BY <2>5
  <2>7. wire' = <<wire'[1], wire'[2]>>
    <3>1. wire' \in Seq(kept) /\ Len(wire') = 2
      BY <2>5, ListFacts
    <3> QED BY <3>1
  <2> QED BY <2>2, <2>5, <2>6, <2>7
<1>8. wire' \in Seq(kept)
  <2>1. CASE p = "preflight"
    <3> HIDE DEF kept
    <3> QED BY <1>7, <2>1, ListFacts
  <2>2. CASE p # "preflight"
    BY <1>1, <1>5, <2>2, ListOfSet
  <2> QED BY <2>1, <2>2
<1>9. \A j \in 1..Len(wire') : wire'[j] \in kept
  <2> HIDE DEF kept
  <2> QED BY <1>8
<1>10. wire' \in Seq(Messages)
  <2> HIDE DEF kept
  <2> QED BY <1>4, <1>8
<1>11. \A j \in 1..Len(wire') : \E s \in Subjects : \E f \in {"availability", "info"} :
         wire'[j] = KeptOn(<<s, f>>)
  BY <1>3, <1>9
<1> HIDE DEF kept
<1> QED BY <1>1, <1>7, <1>10, <1>11

\* What a step of the tool leaves in the plan.
PlanHolds ==
  /\ status' \in [Fleet -> Statuses] /\ planned' \in [Fleet -> SUBSET CanNodes]
  /\ targets' \subseteq CanNodes /\ confirmed' \subseteq CanNodes
  /\ \A n \in confirmed' : build[n] = "new"
  /\ \A d \in Fleet : planned'[d] \subseteq NodesOf[d]
  /\ \A d \in Fleet : status'[d] = "done" =>
       d \in restarted \ restartDue /\ build[d] = "new" /\ planned'[d] \subseteq back \cup unsaid

LEMMA ToolKeepsFleet ==
  ASSUME RolloutInv, fleetUnchanged
  PROVE  /\ UNCHANGED <<build, image, live, linked, canFrames, restartDue, restarted, back, unsaid>>
         /\ RolloutTypeOK /\ BuildTold /\ AtStep /\ LinkTold
         /\ PreflightReads /\ UploadTold /\ DoneTold /\ NodeTold /\ WireTold
BY DEF RolloutInv, fleetUnchanged

LEMMA UnseenFacts ==
  /\ Unseen \in [Subjects -> Notes]
  /\ \A s \in Subjects : Unseen[s].availability = "none" /\ Unseen[s].info = "none" /\ Unseen[s].fresh = FALSE
BY DEF Unseen, Notes

LEMMA EnterKeeps ==
  ASSUME RolloutInv, NEW p \in Entries, NEW i \in DOMAIN Order, enter(p, i), fleetUnchanged, PlanHolds,
         receiving' \subseteq live \cap Fleet, status'[Order[i]] = "pending",
         p \in {"baseline", "presence"} =>
           Order[i] \in restarted \ restartDue /\ build[Order[i]] = "new"
  PROVE  RolloutInv'
<1> DEFINE d == Order[i]
<1>1. /\ UNCHANGED <<build, image, live, linked, canFrames, restartDue, restarted, back, unsaid>>
      /\ RolloutTypeOK /\ BuildTold /\ LinkTold /\ DoneTold /\ NodeTold
  BY ToolKeepsFleet
<1>2. /\ phase' = p /\ step' = i /\ session' = Watched(p, d)
      /\ seen' = Unseen /\ retained' = retained
      /\ wire' \in Seq(Messages)
      /\ \A j \in 1..Len(wire') : \E s \in Subjects : \E f \in {"availability", "info"} :
           wire'[j] = KeptOn(<<s, f>>)
  BY EnterEffect
<1>3. d \in Fleet /\ d \in Subjects
  BY FleetFacts
<1>4. ASSUME NEW s \in Subjects, NEW f \in {"availability", "info"}
      PROVE  /\ KeptOn(<<s, f>>).from = s /\ KeptOn(<<s, f>>).field = f
             /\ KeptOn(<<s, f>>).value = retained[<<s, f>>]
  BY <1>1, KeptFacts
<1>5. p \in Waits
  BY DEF Entries, Waits
<1>6. RolloutTypeOK'
  <2>1. session' \subseteq Subjects \X Fields
    BY <1>2, <1>3, WatchedFacts
  <2> QED BY <1>1, <1>2, <1>5, <2>1, UnseenFacts DEF RolloutTypeOK, PlanHolds
<1>7. BuildTold'
  <2>1. ASSUME NEW j \in 1..Len(wire'), wire'[j].field = "info", wire'[j].value = "new"
        PROVE  build[wire'[j].from] = "new"
    <3>1. PICK s \in Subjects, f \in {"availability", "info"} : wire'[j] = KeptOn(<<s, f>>)
      BY <1>2
    <3> DEFINE kept == KeptOn(<<s, f>>)
    <3>2. kept.from = s /\ kept.field = f /\ kept.value = retained[<<s, f>>]
      BY <1>4, <3>1
    <3> HIDE DEF kept
    <3>3. s = wire'[j].from /\ f = "info" /\ retained[<<s, f>>] = "new"
      <4>1. wire'[j] = kept
        BY <3>1 DEF kept
      <4> QED BY <2>1, <3>2, <4>1
    <3>4. s \in Subjects /\ retained[<<s, "info">>] = "new" => build[s] = "new"
      BY <1>1 DEF BuildTold
    <3> QED BY <3>1, <3>3, <3>4
  <2>2. \A s \in Subjects : seen'[s].info # "new"
    BY <1>2, UnseenFacts
  <2> QED BY <1>1, <1>2, <2>1, <2>2 DEF BuildTold, PlanHolds
<1>8. AtStep'
  BY <1>2, <1>3, WatchedFacts DEF AtStep, Entries
<1>9. LinkTold'
  BY <1>1, <1>2 DEF LinkTold
<1>10. PreflightReads'
  <2>1. CASE p = "preflight"
    <3> DEFINE avail == KeptOn(<<d, "availability">>)
               info  == KeptOn(<<d, "info">>)
    <3>1. wire' = <<avail, info>> \/ wire' = <<info, avail>>
      BY <2>1, EnterEffect
    <3>2. /\ avail.field = "availability" /\ info.field = "info"
          /\ avail.value = "online" => d \in linked
      BY <1>1, <1>3, <1>4 DEF LinkTold
    <3> HIDE DEF avail, info
    <3>3. seen'[d].availability = "none" /\ seen'[d].fresh = FALSE
      BY <1>2, <1>3, UnseenFacts
    <3>4. Unread(d)' = 2
      BY <3>3 DEF Unread
    <3>5. /\ Len(wire') = 2
          /\ \/ wire'[1] = avail /\ wire'[2] = info
             \/ wire'[1] = info /\ wire'[2] = avail
      BY <3>1
    <3>6. \A j \in 1..Len(wire') : j = 1 \/ j = 2
      BY <3>5
    <3>7. d \in linked' \/ \E j \in 1..Len(wire') : j <= 2 /\ wire'[j].field = "availability" /\ wire'[j].value # "online"
      <4>1. 1 \in 1..Len(wire') /\ 2 \in 1..Len(wire')
        BY <3>5
      <4>2. ASSUME avail.value # "online"
            PROVE  \E j \in 1..Len(wire') : j <= 2 /\ wire'[j].field = "availability" /\ wire'[j].value # "online"
        <5>1. CASE wire'[1] = avail
          BY <3>2, <4>1, <4>2, <5>1
        <5>2. CASE wire'[2] = avail
          BY <3>2, <4>1, <4>2, <5>2
        <5> QED BY <3>5, <5>1, <5>2
      <4> QED BY <1>1, <3>2, <4>2
    <3>8. \A j \in 1..Len(wire') : j <= 2 =>
             \/ seen'[d].availability = "none" /\ wire'[j].field = "availability"
             \/ ~seen'[d].fresh /\ wire'[j].field = "info"
      BY <3>2, <3>3, <3>5, <3>6
    <3>9. wire'[1].field # wire'[2].field
      BY <3>2, <3>5
    <3>10. \A j \in 1..Len(wire') : ~(j > 2)
      BY <3>6
    <3> QED BY <1>2, <2>1, <3>4, <3>5, <3>7, <3>8, <3>9, <3>10 DEF PreflightReads
  <2>2. CASE p # "preflight"
    BY <1>2, <2>2 DEF PreflightReads, Entries
  <2> QED BY <2>1, <2>2
<1>11. UploadTold'
  <2>1. \A j \in 1..Len(wire') : wire'[j].field # "ack"
    <3>1. \A s \in Subjects : \A f \in {"availability", "info"} : KeptOn(<<s, f>>).field # "ack"
      BY <1>4
    <3> QED BY <1>2, <3>1
  <2> QED BY <1>2, <2>1 DEF UploadTold, Entries
<1>12. DoneTold'
  BY <1>1, <1>2 DEF DoneTold, PlanHolds, Entries
<1>13. NodeTold'
  <2>1. \A e \in restarted' : \A n \in NodesOf[e] :
          retained'[<<n, "availability">>] = "online" => n \in back' \cup unsaid'
    BY <1>1, <1>2 DEF NodeTold
  <2>2. ASSUME p = "presence", NEW n \in NodesOf[d]
        PROVE  /\ seen'[n].availability # "online"
               /\ \A j \in 1..Len(wire') :
                    wire'[j].from = n /\ wire'[j].field = "availability" /\ wire'[j].value = "online" =>
                      n \in back \cup unsaid
    <3>1. n \in Subjects
      BY <1>3, FleetFacts
    <3>2. ASSUME NEW j \in 1..Len(wire'), wire'[j].from = n, wire'[j].field = "availability", wire'[j].value = "online"
          PROVE  n \in back \cup unsaid
      <4>1. PICK s \in Subjects, f \in {"availability", "info"} : wire'[j] = KeptOn(<<s, f>>)
        BY <1>2
      <4> DEFINE kept == KeptOn(<<s, f>>)
      <4>2. kept.from = s /\ kept.field = f /\ kept.value = retained[<<s, f>>]
        BY <1>4, <4>1
      <4> HIDE DEF kept
      <4>3. s = n /\ f = "availability" /\ retained[<<s, f>>] = "online"
        <5>1. wire'[j] = kept
          BY <4>1 DEF kept
        <5> QED BY <3>2, <4>2, <5>1
      <4>4. d \in restarted
        BY <2>2
      <4>5. retained[<<n, "availability">>] = "online" => n \in back \cup unsaid
        BY <1>1, <2>2, <4>4 DEF NodeTold
      <4> QED BY <4>3, <4>5
    <3> QED BY <1>2, <3>1, <3>2, UnseenFacts
  <2> QED BY <1>1, <1>2, <2>1, <2>2 DEF NodeTold, PlanHolds
<1>14. WireTold'
  <2>1. \A j \in 1..Len(wire') : wire'[j].field # "ack"
    <3>1. \A s \in Subjects : \A f \in {"availability", "info"} : KeptOn(<<s, f>>).field # "ack"
      BY <1>4
    <3> QED BY <1>2, <3>1
  <2>2. ASSUME p = "preflight"
        PROVE  \A j \in 1..Len(wire') : wire'[j].from = d
    <3> DEFINE avail == KeptOn(<<d, "availability">>)
               info  == KeptOn(<<d, "info">>)
    <3>1. wire' = <<avail, info>> \/ wire' = <<info, avail>>
      BY <2>2, EnterEffect
    <3>2. avail.from = d /\ info.from = d
      BY <1>3, <1>4
    <3> HIDE DEF avail, info
    <3> QED BY <3>1, <3>2
  <2> QED BY <1>2, <2>1, <2>2 DEF WireTold, Entries
<1> QED BY <1>6, <1>7, <1>8, <1>9, <1>10, <1>11, <1>12, <1>13, <1>14 DEF RolloutInv

LEMMA OverKeeps ==
  ASSUME RolloutInv, rolloutOver, fleetUnchanged, PlanHolds
  PROVE  RolloutInv'
<1>1. /\ UNCHANGED <<build, image, live, linked, canFrames, restartDue, restarted, back, unsaid>>
      /\ RolloutTypeOK /\ BuildTold /\ LinkTold /\ DoneTold /\ NodeTold
  BY ToolKeepsFleet
<1>2. /\ phase' = "over" /\ session' = {} /\ wire' = << >>
      /\ step' = step /\ seen' = seen /\ retained' = retained /\ receiving' = receiving
  BY DEF rolloutOver
<1>3. Len(wire') = 0 /\ wire' \in Seq(Messages) /\ "over" \notin Waits
  BY <1>2 DEF Waits
<1>4. RolloutTypeOK'
  BY <1>1, <1>2, <1>3 DEF RolloutTypeOK, PlanHolds
<1>5. BuildTold'
  BY <1>1, <1>2, <1>3 DEF BuildTold, PlanHolds
<1>6. AtStep'
  BY <1>2, <1>3 DEF AtStep
<1>7. LinkTold'
  BY <1>1, <1>2 DEF LinkTold
<1>8. PreflightReads'
  BY <1>2 DEF PreflightReads
<1>9. UploadTold'
  BY <1>2, <1>3 DEF UploadTold
<1>10. DoneTold'
  BY <1>1, <1>2 DEF DoneTold, PlanHolds
<1>11. NodeTold'
  BY <1>1, <1>2 DEF NodeTold, PlanHolds
<1>12. WireTold'
  BY <1>2 DEF WireTold
<1> QED BY <1>4, <1>5, <1>6, <1>7, <1>8, <1>9, <1>10, <1>11, <1>12 DEF RolloutInv

LEMMA AtWait ==
  ASSUME RolloutInv, phase \in Waits
  PROVE  step \in DOMAIN Order /\ Order[step] \in Fleet /\ Order[step] \in Subjects
         /\ status[Order[step]] = "pending"
BY FleetFacts DEF RolloutInv, AtStep

\* The plan as it was.
LEMMA SamePlan ==
  ASSUME RolloutInv, fleetUnchanged, UNCHANGED <<confirmed, status, planned>>, targets' \subseteq CanNodes
  PROVE  PlanHolds
BY ToolKeepsFleet DEF PlanHolds, RolloutTypeOK, BuildTold, DoneTold, NodeTold

LEMMA FailKeeps ==
  ASSUME RolloutInv, stepFails
  PROVE  RolloutInv'
<1>1. /\ status' = [d \in Fleet |-> IF d = Order[step] THEN "failed"
                                    ELSE IF status[d] = "pending" THEN "not reached" ELSE status[d]]
      /\ rolloutOver /\ fleetUnchanged /\ UNCHANGED <<planned, targets, confirmed>>
  BY DEF stepFails
<1>2. RolloutTypeOK /\ BuildTold /\ DoneTold /\ NodeTold
  BY DEF RolloutInv
<1>3. status' \in [Fleet -> Statuses]
  BY <1>1, <1>2 DEF RolloutTypeOK, Statuses
<1>4. \A d \in Fleet : status'[d] = "done" => status[d] = "done"
  BY <1>1
<1>5. PlanHolds
  BY <1>1, <1>2, <1>3, <1>4 DEF PlanHolds, RolloutTypeOK, BuildTold, DoneTold, NodeTold
<1> QED BY <1>1, <1>5, OverKeeps

LEMMA BeginKeeps ==
  ASSUME RolloutInv, NEW j \in DOMAIN Order, beginStep(j), fleetUnchanged, PlanHolds,
         status'[Order[j]] = "pending"
  PROVE  RolloutInv'
<1>1. LinkTold /\ Order[j] \in Fleet
  BY FleetFacts DEF RolloutInv
<1>2. CASE Order[j] \in WithNodeFile
  <2>1. enter("file", j) /\ startUpload(Order[j])
    BY <1>2 DEF beginStep
  <2>2. receiving' \subseteq live \cap Fleet
    BY <1>1, <2>1 DEF startUpload, LinkTold
  <2> QED BY <2>1, <2>2, EnterKeeps DEF Entries
<1>3. CASE Order[j] \notin WithNodeFile
  <2>1. enter("preflight", j) /\ receiving' = receiving
    BY <1>3 DEF beginStep
  <2>2. receiving' \subseteq live \cap Fleet
    BY <1>1, <2>1 DEF LinkTold
  <2> QED BY <2>1, <2>2, EnterKeeps DEF Entries
<1> QED BY <1>2, <1>3

LEMMA WalkKeeps ==
  ASSUME RolloutInv, NEW i, NEW st, walkOn(i, st), fleetUnchanged, PlanHolds,
         \A j \in DOMAIN Order : j > i /\ st[Order[j]] = "pending" => status'[Order[j]] = "pending"
  PROVE  RolloutInv'
<1>1. CASE rolloutOver
  BY <1>1, OverKeeps
<1>2. ASSUME NEW j \in DOMAIN Order, j > i, st[Order[j]] = "pending", beginStep(j)
      PROVE  RolloutInv'
  <2>1. status'[Order[j]] = "pending"
    BY <1>2
  <2> QED BY <1>2, <2>1, BeginKeeps
<1> QED BY <1>1, <1>2 DEF walkOn

LEMMA PlanKeeps ==
  ASSUME RolloutInv, NEW answered, planRollout(answered)
  PROVE  RolloutInv'
<1> DEFINE online(s) == s \in answered /\ retained[<<s, "availability">>] = "online"
           nodes(d)  == {n \in NodesOf[d] : online(n)}
           state(d)  == IF ~online(d) THEN "offline"
                        ELSE IF \A s \in {d} \cup nodes(d) : entryIsCurrent(s) THEN "current"
                        ELSE "pending"
<1>1. /\ planned' = [d \in Fleet |-> IF online(d) THEN nodes(d) ELSE {}]
      /\ status' = [d \in Fleet |-> state(d)]
      /\ walkOn(0, status') /\ fleetUnchanged /\ UNCHANGED <<targets, confirmed>>
  BY DEF planRollout
<1>2. RolloutTypeOK /\ BuildTold
  BY DEF RolloutInv
<1>3. \A d \in Fleet : state(d) \in {"offline", "current", "pending"}
  OBVIOUS
<1>4. \A d \in Fleet : nodes(d) \subseteq NodesOf[d] /\ NodesOf[d] \subseteq CanNodes
  BY FleetFacts
<1> HIDE DEF state, nodes
<1>5. status' \in [Fleet -> Statuses] /\ \A d \in Fleet : status'[d] # "done"
  BY <1>1, <1>3 DEF Statuses
<1>6. planned' \in [Fleet -> SUBSET CanNodes] /\ \A d \in Fleet : planned'[d] \subseteq NodesOf[d]
  BY <1>1, <1>4
<1>7. PlanHolds
  BY <1>1, <1>2, <1>5, <1>6 DEF PlanHolds, RolloutTypeOK, BuildTold
<1> QED BY <1>1, <1>7, WalkKeeps

LEMMA DoneKeeps ==
  ASSUME RolloutInv, phase \in {"soak", "presence"}, stepDone, planned[Order[step]] \subseteq back \cup unsaid
  PROVE  RolloutInv'
<1> DEFINE d == Order[step]
<1>1. /\ status' = [status EXCEPT ![d] = "done"]
      /\ walkOn(step, status) /\ fleetUnchanged /\ UNCHANGED <<planned, targets, confirmed>>
  BY DEF stepDone
<1>2. RolloutTypeOK /\ BuildTold /\ DoneTold /\ NodeTold
  BY DEF RolloutInv
<1>3. step \in DOMAIN Order /\ d \in Fleet
  BY AtWait DEF Waits
<1>4. d \in restarted \ restartDue /\ build[d] = "new"
  BY <1>2 DEF DoneTold
<1>5. /\ status' \in [Fleet -> Statuses] /\ status'[d] = "done"
      /\ \A e \in Fleet : e # d => status'[e] = status[e]
  BY <1>1, <1>2, <1>3 DEF RolloutTypeOK, Statuses
<1> HIDE DEF d
<1>6. PlanHolds
  <2>1. planned'[d] \subseteq back \cup unsaid
    BY <1>1 DEF d
  <2>2. \A e \in Fleet : status'[e] = "done" =>
          e \in restarted \ restartDue /\ build[e] = "new" /\ planned'[e] \subseteq back \cup unsaid
    BY <1>1, <1>2, <1>4, <1>5, <2>1 DEF DoneTold
  <2> QED BY <1>1, <1>2, <1>5, <2>2 DEF PlanHolds, RolloutTypeOK, BuildTold, NodeTold
<1>7. ASSUME NEW j \in DOMAIN Order, j > step, status[Order[j]] = "pending"
      PROVE  status'[Order[j]] = "pending"
  <2>1. Order[j] # d
    <3>1. j # step
      BY <1>3, <1>7, FleetFacts
    <3> QED BY <1>3, <3>1, FleetAssumption DEF d
  <2> QED BY <1>5, <1>7, <2>1, FleetFacts
<1> QED BY <1>1, <1>6, <1>7, WalkKeeps

LEMMA GoOnKeeps ==
  ASSUME RolloutInv, phase \in Waits, NEW p \in Entries, goOn(p),
         p \in {"baseline", "presence"} =>
           Order[step] \in restarted \ restartDue /\ build[Order[step]] = "new"
  PROVE  RolloutInv'
<1>1. /\ enter(p, step) /\ fleetUnchanged
      /\ UNCHANGED <<receiving, targets, confirmed, status, planned>>
  BY DEF goOn
<1>2. RolloutTypeOK /\ LinkTold
  BY DEF RolloutInv
<1>3. step \in DOMAIN Order /\ status'[Order[step]] = "pending"
  BY <1>1, AtWait
<1>4. PlanHolds
  BY <1>1, <1>2, SamePlan DEF RolloutTypeOK
<1>5. receiving' \subseteq live \cap Fleet
  BY <1>1, <1>2 DEF LinkTold
<1> QED BY <1>1, <1>3, <1>4, <1>5, EnterKeeps

\* Another wait of the same client, with what its two clauses need.
LEMMA WaitKeeps ==
  ASSUME RolloutInv, phase \in Waits, NEW p \in Waits \ {"presence"}, waitFor(p),
         seen' \in [Subjects -> Notes], targets' \subseteq CanNodes, receiving' \subseteq live \cap Fleet,
         \A s \in Subjects : seen'[s].info = seen[s].info,
         p \in {"preflight", "draining", "sending", "verify"} =>
           phase \in {"preflight", "draining", "sending", "verify"},
         p \in {"baseline", "soak"} => phase \in {"baseline", "soak"},
         PreflightReads', UploadTold', WireTold'
  PROVE  RolloutInv'
<1>1. /\ phase' = p /\ fleetUnchanged
      /\ UNCHANGED <<session, step, confirmed, status, planned, wire, retained>>
  BY DEF waitFor, brokerVars
<1>2. /\ UNCHANGED <<build, image, live, linked, canFrames, restartDue, restarted, back, unsaid>>
      /\ RolloutTypeOK /\ BuildTold /\ AtStep /\ LinkTold /\ DoneTold /\ NodeTold
  BY <1>1, ToolKeepsFleet
<1>3. RolloutTypeOK'
  BY <1>1, <1>2 DEF RolloutTypeOK
<1>4. BuildTold'
  BY <1>1, <1>2 DEF BuildTold
<1>5. AtStep'
  BY <1>1, <1>2 DEF AtStep
<1>6. LinkTold'
  BY <1>1, <1>2 DEF LinkTold
<1>7. DoneTold'
  BY <1>1, <1>2 DEF DoneTold
<1>8. NodeTold'
  BY <1>1, <1>2 DEF NodeTold
<1> QED BY <1>3, <1>4, <1>5, <1>6, <1>7, <1>8 DEF RolloutInv

LEMMA FoundKeeps ==
  ASSUME RolloutInv, discovered
  PROVE  RolloutInv'
<1> DEFINE d == Order[step]
           found == {n \in NodesOf[d] : seen[n].availability = "online"}
<1>1. phase = "discovery" /\ phase \in Waits
  BY DEF discovered, Waits
<1>2. RolloutTypeOK /\ LinkTold /\ UploadTold /\ d \in Fleet
  BY <1>1, AtWait DEF RolloutInv
<1>3. CASE goOn("baseline with nodes")
  BY <1>1, <1>3, GoOnKeeps DEF Entries
<1>4. CASE /\ targets' = found
           /\ seen' = [s \in Subjects |-> IF s \in found THEN baseline(s) ELSE seen[s]]
           /\ waitFor("nodes") /\ UNCHANGED receiving
  <2>1. seen \in [Subjects -> Notes]
    BY <1>2, TypeFacts
  <2>2. \A s \in Subjects : baseline(s) \in Notes /\ baseline(s).info = seen[s].info
    <3>1. \A q \in Notes : LET r == [q EXCEPT !.offline = FALSE, !.fresh = FALSE]
                           IN  r \in Notes /\ r.info = q.info
      BY DEF Notes
    <3> QED BY <2>1, <3>1 DEF baseline
  <2>3. seen' \in [Subjects -> Notes] /\ \A s \in Subjects : seen'[s].info = seen[s].info
    BY <1>4, <2>1, <2>2
  <2>4. targets' \subseteq CanNodes
    BY <1>2, <1>4, FleetFacts
  <2>5. /\ phase' = "nodes" /\ wire' = wire /\ step' = step /\ receiving' \subseteq live \cap Fleet
    BY <1>2, <1>4 DEF waitFor, brokerVars, LinkTold
  <2>6. PreflightReads' /\ UploadTold' /\ WireTold'
    BY <1>1, <1>2, <2>5 DEF PreflightReads, UploadTold, WireTold
  <2> QED BY <1>1, <1>4, <2>3, <2>4, <2>5, <2>6, WaitKeeps DEF Waits
<1> QED BY <1>3, <1>4 DEF discovered

LEMMA VerdictKeeps ==
  ASSUME RolloutInv, nodesVerdict
  PROVE  RolloutInv'
<1> DEFINE good == {n \in targets : confirmsBuild(n)}
<1>1. phase = "nodes" /\ phase \in Waits
  BY DEF nodesVerdict, Waits
<1>2. RolloutTypeOK /\ BuildTold /\ LinkTold /\ DoneTold /\ NodeTold
  BY DEF RolloutInv
<1>3. step \in DOMAIN Order /\ status[Order[step]] = "pending"
  BY <1>1, AtWait
<1>4. CASE /\ confirmed' = confirmed \cup good
           /\ enter("baseline with nodes", step)
           /\ fleetUnchanged /\ UNCHANGED <<receiving, targets, status, planned>>
  <2>1. good \subseteq CanNodes /\ \A n \in good : build[n] = "new"
    BY <1>2, FleetFacts DEF RolloutTypeOK, BuildTold, confirmsBuild
  <2> HIDE DEF good
  <2>2. \A n \in confirmed' : build[n] = "new"
    BY <1>2, <1>4, <2>1 DEF BuildTold
  <2>3. PlanHolds
    BY <1>2, <1>4, <2>1, <2>2 DEF PlanHolds, RolloutTypeOK, DoneTold, NodeTold
  <2>4. receiving' \subseteq live \cap Fleet /\ status'[Order[step]] = "pending"
    BY <1>2, <1>3, <1>4 DEF LinkTold
  <2> QED BY <1>3, <1>4, <2>3, <2>4, EnterKeeps DEF Entries
<1>5. CASE stepFails
  BY <1>5, FailKeeps
<1> QED BY <1>4, <1>5 DEF nodesVerdict

LEMMA SoakBeginsKeeps ==
  ASSUME RolloutInv, soakBegins
  PROVE  RolloutInv'
<1> DEFINE p == IF phase = "baseline" THEN "soak" ELSE "soak with nodes"
<1>1. phase \in {"baseline", "baseline with nodes"} /\ phase \in Waits /\ p \in Waits \ {"presence"}
  BY DEF soakBegins, Waits
<1>2. RolloutTypeOK /\ LinkTold /\ UploadTold
  BY DEF RolloutInv
<1>3. CASE waitFor(p) /\ UNCHANGED <<seen, targets, receiving>>
  <2>1. p \in {"soak", "soak with nodes"} /\ (p = "soak" => phase = "baseline")
    BY <1>1
  <2> HIDE DEF p
  <2>2. phase' = p /\ wire' = wire /\ step' = step
    BY <1>3 DEF waitFor, brokerVars
  <2>3. PreflightReads' /\ UploadTold' /\ WireTold'
    BY <1>1, <1>2, <2>1, <2>2 DEF PreflightReads, UploadTold, WireTold
  <2>4. seen' \in [Subjects -> Notes] /\ targets' \subseteq CanNodes /\ receiving' \subseteq live \cap Fleet
    BY <1>2, <1>3 DEF RolloutTypeOK, LinkTold
  <2> QED BY <1>1, <1>3, <2>1, <2>3, <2>4, WaitKeeps
<1>4. CASE stepFails
  BY <1>4, FailKeeps
<1> QED BY <1>3, <1>4 DEF soakBegins

LEMMA SoakEndsKeeps ==
  ASSUME RolloutInv, soakEnds
  PROVE  RolloutInv'
<1>1. DoneTold
  BY DEF RolloutInv
<1>2. CASE stepFails
  BY <1>2, FailKeeps
<1>3. CASE phase = "soak with nodes" /\ goOn("preflight")
  BY <1>3, GoOnKeeps DEF Waits, Entries
<1>4. CASE phase = "soak" /\ goOn("presence")
  BY <1>1, <1>4, GoOnKeeps DEF Waits, Entries, DoneTold
<1>5. CASE phase = "soak" /\ planned[Order[step]] = {} /\ stepDone
  BY <1>5, DoneKeeps
<1> QED BY <1>2, <1>3, <1>4, <1>5 DEF soakEnds

LEMMA PreflightKeeps ==
  ASSUME RolloutInv, preflight
  PROVE  RolloutInv'
<1> DEFINE d == Order[step]
<1>1. phase \in {"preflight", "draining"} /\ phase \in Waits
  BY DEF preflight, Waits
<1>2. RolloutTypeOK /\ LinkTold /\ PreflightReads /\ UploadTold /\ WireTold
  BY DEF RolloutInv
<1>3. d \in Fleet /\ d \in Subjects /\ seen \in [Subjects -> Notes]
  BY <1>1, <1>2, AtWait, TypeFacts
<1>4. CASE /\ phase = "preflight" /\ seen[d].availability = "online"
           /\ waitFor("draining") /\ UNCHANGED <<seen, targets, receiving>>
  <2>1. phase' = "draining" /\ wire' = wire /\ step' = step /\ seen' = seen /\ linked' = linked
    BY <1>4 DEF waitFor, brokerVars, fleetUnchanged
  <2>2. Unread(d)' = Unread(d)
    BY <2>1 DEF Unread
  <2>3. PreflightReads'
    BY <1>2, <1>4, <2>1, <2>2 DEF PreflightReads
  <2>4. UploadTold' /\ WireTold'
    BY <1>2, <1>4, <2>1 DEF UploadTold, WireTold
  <2>5. seen' \in [Subjects -> Notes] /\ targets' \subseteq CanNodes /\ receiving' \subseteq live \cap Fleet
    BY <1>2, <1>4 DEF RolloutTypeOK, LinkTold
  <2> QED BY <1>1, <1>4, <2>1, <2>3, <2>4, <2>5, WaitKeeps DEF Waits
<1>5. CASE /\ phase = "draining" /\ seen[d].fresh
           /\ seen' = [seen EXCEPT ![d] = baseline(d)]
           /\ waitFor("sending") /\ startUpload(d) /\ targets' = targets
  <2>1. /\ baseline(d) \in Notes /\ baseline(d).info = seen[d].info /\ baseline(d).fresh = FALSE
    <3>1. \A q \in Notes : LET r == [q EXCEPT !.offline = FALSE, !.fresh = FALSE]
                           IN  r \in Notes /\ r.info = q.info /\ r.fresh = FALSE
      BY DEF Notes
    <3> QED BY <1>3, <3>1 DEF baseline
  <2>2. /\ seen' \in [Subjects -> Notes] /\ seen'[d].fresh = FALSE
        /\ \A s \in Subjects : seen'[s].info = seen[s].info
    BY <1>3, <1>5, <2>1
  <2>3. phase' = "sending" /\ wire' = wire /\ step' = step
    BY <1>5 DEF waitFor, brokerVars
  <2>4. \A i \in 1..Len(wire) : wire[i].field # "info" /\ wire[i].field # "ack"
    <3>1. seen[d].availability = "online"
      BY <1>2, <1>5 DEF PreflightReads
    <3>2. Unread(d) = 0
      BY <1>5, <3>1 DEF Unread
    <3>3. \A i \in 1..Len(wire) : i > Unread(d) => wire[i].field # "info"
      BY <1>2, <1>5, <3>1 DEF PreflightReads
    <3> QED BY <1>2, <1>5, <3>2, <3>3 DEF UploadTold
  <2>5. ~Told(d)' /\ ~Stored'
    BY <2>2, <2>3, <2>4 DEF Told, Stored
  <2>6. PreflightReads' /\ UploadTold'
    BY <2>3, <2>5 DEF PreflightReads, UploadTold
  <2>7. WireTold'
    BY <1>2, <1>5, <2>3, <2>4 DEF WireTold
  <2>8. targets' \subseteq CanNodes /\ receiving' \subseteq live \cap Fleet
    BY <1>2, <1>3, <1>5 DEF RolloutTypeOK, LinkTold, startUpload
  <2> QED BY <1>1, <1>5, <2>2, <2>6, <2>7, <2>8, WaitKeeps DEF Waits
<1>6. CASE stepFails
  BY <1>6, FailKeeps
<1> QED BY <1>4, <1>5, <1>6 DEF preflight

LEMMA VerifyKeeps ==
  ASSUME RolloutInv, verify
  PROVE  RolloutInv'
<1> DEFINE d == Order[step]
<1>1. phase = "verify" /\ phase \in Waits
  BY DEF verify, Waits
<1>2. BuildTold /\ UploadTold
  BY DEF RolloutInv
<1>3. d \in Subjects
  BY <1>1, AtWait
<1>4. CASE confirmsBuild(d) /\ goOn("baseline")
  <2>1. Told(d) /\ Stored
    BY <1>1, <1>4 DEF confirmsBuild, Told, Stored
  <2>2. d \in restarted \ restartDue
    BY <1>1, <1>2, <2>1 DEF UploadTold
  <2>3. build[d] = "new"
    BY <1>2, <1>3, <1>4 DEF confirmsBuild, BuildTold
  <2> QED BY <1>1, <1>4, <2>2, <2>3, GoOnKeeps DEF Entries
<1>5. CASE stepFails
  BY <1>5, FailKeeps
<1> QED BY <1>4, <1>5 DEF verify

LEMMA PresenceKeeps ==
  ASSUME RolloutInv, presence
  PROVE  RolloutInv'
<1> DEFINE missing == {n \in planned[Order[step]] : seen[n].availability # "online"}
<1>1. phase = "presence" /\ phase \in Waits
  BY DEF presence, Waits
<1>2. NodeTold /\ Order[step] \in Fleet
  BY <1>1, AtWait DEF RolloutInv
<1>3. CASE missing = {} /\ stepDone
  <2>1. planned[Order[step]] \subseteq back \cup unsaid
    BY <1>1, <1>2, <1>3 DEF NodeTold
  <2> QED BY <1>1, <1>3, <2>1, DoneKeeps
<1>4. CASE stepFails
  BY <1>4, FailKeeps
<1> QED BY <1>3, <1>4 DEF presence

\* What a message leaves in the notes.
LEMMA NotedFacts ==
  ASSUME NEW q \in Notes, NEW m \in Messages
  PROVE  /\ noted(q, m) \in Notes
         /\ m.field = "availability" =>
              /\ noted(q, m).availability = m.value
              /\ noted(q, m).info = q.info /\ noted(q, m).fresh = q.fresh
         /\ m.field = "info" =>
              /\ noted(q, m).info = m.value /\ noted(q, m).fresh = TRUE
              /\ noted(q, m).availability = q.availability
         /\ m.field \notin {"availability", "info"} => noted(q, m) = q
<1>1. m.value \in Values
  BY DEF Messages
<1>2. ASSUME m.field = "availability"
      PROVE  LET r == noted(q, m)
             IN  r \in Notes /\ r.availability = m.value /\ r.info = q.info /\ r.fresh = q.fresh
  <2>1. noted(q, m) = [q EXCEPT !.availability = m.value, !.offline = @ \/ m.value = "offline"]
    BY <1>2 DEF noted
  <2>2. \A v \in Values : \A b \in BOOLEAN :
          LET r == [q EXCEPT !.availability = v, !.offline = b]
          IN  r \in Notes /\ r.availability = v /\ r.info = q.info /\ r.fresh = q.fresh
    BY DEF Notes
  <2>3. (q.offline \/ m.value = "offline") \in BOOLEAN
    OBVIOUS
  <2> QED BY <1>1, <2>1, <2>2, <2>3
<1>3. ASSUME m.field = "info"
      PROVE  LET r == noted(q, m)
             IN  r \in Notes /\ r.info = m.value /\ r.fresh = TRUE /\ r.availability = q.availability
  <2>1. noted(q, m) = [q EXCEPT !.info = m.value, !.fresh = TRUE]
    BY <1>3 DEF noted
  <2>2. \A v \in Values :
          LET r == [q EXCEPT !.info = v, !.fresh = TRUE]
          IN  r \in Notes /\ r.info = v /\ r.fresh = TRUE /\ r.availability = q.availability
    BY DEF Notes
  <2> DEFINE r == [q EXCEPT !.info = m.value, !.fresh = TRUE]
  <2>3. r \in Notes /\ r.info = m.value /\ r.fresh = TRUE /\ r.availability = q.availability
    BY <1>1, <2>2
  <2> HIDE DEF r
  <2>4. noted(q, m) = r
    BY <2>1 DEF r
  <2> QED BY <2>3, <2>4
<1>4. m.field \notin {"availability", "info"} => noted(q, m) = q
  BY DEF noted
<1> QED BY <1>2, <1>3, <1>4

\* A message is read.
LEMMA ReadFacts ==
  ASSUME RolloutInv, onMessage
  PROVE  LET m == wire[1] IN
         /\ m \in Messages /\ m.from \in Subjects /\ ~waitIsOver /\ fleetUnchanged
         /\ Len(wire) \in Nat /\ Len(wire) >= 1 /\ Len(wire') = Len(wire) - 1 /\ wire' \in Seq(Messages)
         /\ \A i \in 1..Len(wire') : i + 1 \in 1..Len(wire) /\ wire'[i] = wire[i + 1]
         /\ \A i \in 1..Len(wire) : i = 1 \/ (i - 1 \in 1..Len(wire') /\ wire'[i - 1] = wire[i])
         /\ seen' \in [Subjects -> Notes]
         /\ seen'[m.from] = noted(seen[m.from], m) /\ seen[m.from] \in Notes
         /\ \A s \in Subjects : s # m.from => seen'[s] = seen[s]
         /\ m.field # "ack" => phase' = phase
         /\ m.field = "ack" => \/ phase = "file" /\ phase' = "discovery"
                               \/ phase = "sending" /\ phase' = "verify"
         /\ UNCHANGED <<receiving, retained, session, step, targets, confirmed, status, planned>>
<1>1. /\ wire # << >> /\ ~waitIsOver /\ wire' = Tail(wire)
      /\ seen' = [seen EXCEPT ![Head(wire).from] = noted(@, Head(wire))]
      /\ phase' = IF Head(wire).field # "ack" THEN phase
                  ELSE IF phase = "file" THEN "discovery" ELSE "verify"
      /\ fleetUnchanged
      /\ UNCHANGED <<receiving, retained, session, step, targets, confirmed, status, planned>>
  BY DEF onMessage
<1>2. RolloutTypeOK /\ UploadTold
  BY DEF RolloutInv
<1>3. wire \in Seq(Messages) /\ seen \in [Subjects -> Notes]
  BY <1>2, WireFacts, TypeFacts
<1>4. Len(wire) \in Nat /\ Len(wire) >= 1 /\ Head(wire) = wire[1]
  BY <1>1, <1>3
<1>5. wire[1] \in Messages /\ wire[1].from \in Subjects
  BY <1>2, <1>4, WireFacts
<1>6. Len(wire') = Len(wire) - 1 /\ wire' \in Seq(Messages)
  BY <1>1, <1>3, <1>4
<1>7. \A i \in 1..Len(wire') : wire'[i] = wire[i + 1]
  BY <1>1, <1>3, <1>4
<1>8. /\ \A i \in 1..Len(wire') : i + 1 \in 1..Len(wire)
      /\ \A i \in 1..Len(wire) : i = 1 \/ (i - 1 \in 1..Len(wire') /\ wire'[i - 1] = wire[i])
  BY <1>4, <1>6, <1>7
<1> DEFINE m == wire[1]
           r == noted(seen[m.from], m)
<1>9. r \in Notes /\ seen[m.from] \in Notes
  BY <1>3, <1>5, NotedFacts
<1>10. seen' = [seen EXCEPT ![m.from] = r]
  BY <1>1, <1>4
<1>11. m.field = "ack" => phase \in {"file", "sending"}
  BY <1>2, <1>4 DEF UploadTold
<1>12. m.from \in Subjects
  BY <1>5
<1> HIDE DEF r, m
<1>13. /\ seen' \in [Subjects -> Notes] /\ seen'[m.from] = r
       /\ \A s \in Subjects : s # m.from => seen'[s] = seen[s]
  BY <1>3, <1>9, <1>10, <1>12
<1>14. /\ m.field # "ack" => phase' = phase
       /\ m.field = "ack" => \/ phase = "file" /\ phase' = "discovery"
                             \/ phase = "sending" /\ phase' = "verify"
  BY <1>1, <1>4, <1>11 DEF m
<1> QED BY <1>1, <1>4, <1>5, <1>6, <1>7, <1>8, <1>9, <1>13, <1>14 DEF m, r

LEMMA ReadKeepsBuild ==
  ASSUME RolloutInv, onMessage
  PROVE  BuildTold'
<1> DEFINE m == wire[1]
<1>1. /\ m \in Messages /\ m.from \in Subjects /\ fleetUnchanged
      /\ Len(wire) \in Nat /\ Len(wire) >= 1
      /\ \A i \in 1..Len(wire') : i + 1 \in 1..Len(wire) /\ wire'[i] = wire[i + 1]
      /\ seen'[m.from] = noted(seen[m.from], m) /\ seen[m.from] \in Notes
      /\ \A s \in Subjects : s # m.from => seen'[s] = seen[s]
      /\ UNCHANGED <<retained, confirmed>>
  BY ReadFacts
<1>2. /\ UNCHANGED <<build, image, live, linked, canFrames, restartDue, restarted, back, unsaid>>
      /\ BuildTold
  BY <1>1, ToolKeepsFleet
<1>3. \A i \in 1..Len(wire') :
        wire'[i].field = "info" /\ wire'[i].value = "new" => build[wire'[i].from] = "new"
  BY <1>1, <1>2 DEF BuildTold
<1>4. m.field = "info" /\ m.value = "new" => build[m.from] = "new"
  <2>1. 1 \in 1..Len(wire)
    BY <1>1
  <2> QED BY <1>2, <2>1 DEF BuildTold
<1>5. seen'[m.from].info = "new" => build[m.from] = "new"
  <2>1. seen[m.from].info = "new" => build[m.from] = "new"
    BY <1>1, <1>2 DEF BuildTold
  <2>2. \/ seen'[m.from].info = seen[m.from].info
        \/ m.field = "info" /\ seen'[m.from].info = m.value
    <3> DEFINE q == seen[m.from]
    <3>1. q \in Notes /\ m \in Messages /\ m.field \in Fields
      BY <1>1 DEF Messages
    <3>2. seen'[m.from] = noted(q, m)
      BY <1>1
    <3> HIDE DEF m, q
    <3>3. \/ noted(q, m).info = q.info
          \/ m.field = "info" /\ noted(q, m).info = m.value
      BY <3>1, NotedFacts
    <3> QED BY <3>2, <3>3 DEF q
  <2> QED BY <1>4, <2>1, <2>2
<1>6. \A s \in Subjects : seen'[s].info = "new" => build[s] = "new"
  BY <1>1, <1>2, <1>5 DEF BuildTold
<1> HIDE DEF m
<1> QED BY <1>1, <1>2, <1>3, <1>6 DEF BuildTold

\* The preflight reads the retained messages one at a time.
LEMMA ReadKeepsPreflight ==
  ASSUME RolloutInv, onMessage
  PROVE  PreflightReads'
<1> DEFINE m == wire[1]
           d == Order[step]
           K == Unread(d)
<1>1. /\ m \in Messages /\ m.from \in Subjects /\ fleetUnchanged /\ ~waitIsOver
      /\ Len(wire) \in Nat /\ Len(wire) >= 1 /\ Len(wire') = Len(wire) - 1
      /\ \A i \in 1..Len(wire') : i + 1 \in 1..Len(wire) /\ wire'[i] = wire[i + 1]
      /\ \A i \in 1..Len(wire) : i = 1 \/ (i - 1 \in 1..Len(wire') /\ wire'[i - 1] = wire[i])
      /\ seen'[m.from] = noted(seen[m.from], m) /\ seen[m.from] \in Notes
      /\ m.field # "ack" => phase' = phase
      /\ m.field = "ack" => phase' \in {"discovery", "verify"}
      /\ step' = step
  BY ReadFacts
<1>2. PreflightReads /\ WireTold /\ linked' = linked
  BY <1>1, ToolKeepsFleet
<1> SUFFICES ASSUME phase \in {"preflight", "draining"}, phase' = phase
             PROVE  PreflightReads'
  BY <1>1 DEF PreflightReads
<1>3. m.from = d /\ 1 \in 1..Len(wire)
  BY <1>1, <1>2 DEF WireTold
<1>4. seen[d] \in Notes /\ seen'[d] = noted(seen[d], m)
  BY <1>1, <1>3
<1>5. /\ phase = "preflight" => seen[d].availability = "none"
      /\ phase = "draining" => seen[d].availability = "online" /\ ~seen[d].fresh
  BY <1>1, <1>2 DEF PreflightReads, waitIsOver
<1>6. /\ Len(wire) >= K
      /\ \A i \in 1..Len(wire) : i > K => wire[i].field # "info"
      /\ \A i \in 1..Len(wire) : i <= K =>
           \/ seen[d].availability = "none" /\ wire[i].field = "availability"
           \/ ~seen[d].fresh /\ wire[i].field = "info"
      /\ K = 2 => wire[1].field # wire[2].field
      /\ \/ d \in linked \/ Len(wire) > K
         \/ \E i \in 1..Len(wire) : i <= K /\ wire[i].field = "availability" /\ wire[i].value # "online"
  BY <1>2, <1>5 DEF PreflightReads
<1>7. K \in 1..2 /\ (K = 2 <=> phase = "preflight" /\ ~seen[d].fresh)
  BY <1>5 DEF Unread
<1>8. \/ m.field = "availability" /\ phase = "preflight"
      \/ m.field = "info" /\ ~seen[d].fresh
  BY <1>3, <1>5, <1>6, <1>7
<1> DEFINE q == seen[d]
<1>9. d' = d
  BY <1>1
<1> HIDE DEF m, d, K, q
<1>10. /\ seen'[d] = noted(q, m)
       /\ m.field = "availability" => noted(q, m).availability = m.value /\ noted(q, m).fresh = q.fresh
       /\ m.field = "info" => noted(q, m).availability = q.availability /\ noted(q, m).fresh = TRUE
  <2>1. q \in Notes /\ m \in Messages /\ seen'[d] = noted(q, m)
    BY <1>1, <1>4 DEF q
  <2> QED BY <2>1, NotedFacts
<1>11. ASSUME NEW k \in Nat, k = K - 1, Unread(d)' = k, phase = "draining" => seen'[d].availability = "online",
             \A i \in 1..Len(wire) : i = 2 /\ i <= K =>
               \/ seen'[d].availability = "none" /\ wire[i].field = "availability"
               \/ ~seen'[d].fresh /\ wire[i].field = "info",
             m.field = "availability" => m.value = "online"
      PROVE  PreflightReads'
  <2>1. Len(wire') >= k /\ ~(k = 2)
    BY <1>1, <1>6, <1>7, <1>11
  <2>2. \A i \in 1..Len(wire') : i > k => wire'[i].field # "info"
    BY <1>1, <1>6, <1>7, <1>11
  <2>3. \A i \in 1..Len(wire') : i <= k =>
           \/ seen'[d].availability = "none" /\ wire'[i].field = "availability"
           \/ ~seen'[d].fresh /\ wire'[i].field = "info"
    <3>1. ASSUME NEW i \in 1..Len(wire'), i <= k
          PROVE  i + 1 \in 1..Len(wire) /\ i + 1 = 2 /\ i + 1 <= K /\ wire'[i] = wire[i + 1]
      BY <1>1, <1>7, <1>11, <3>1
    <3> QED BY <1>11, <3>1
  <2>4. \/ d \in linked' \/ Len(wire') > k
        \/ \E i \in 1..Len(wire') : i <= k /\ wire'[i].field = "availability" /\ wire'[i].value # "online"
    <3>1. ASSUME NEW i \in 1..Len(wire), i <= K, wire[i].field = "availability", wire[i].value # "online"
          PROVE  \E j \in 1..Len(wire') : j <= k /\ wire'[j].field = "availability" /\ wire'[j].value # "online"
      <4>1. i # 1
        BY <1>11, <3>1 DEF m
      <4>2. i - 1 \in 1..Len(wire') /\ wire'[i - 1] = wire[i] /\ i - 1 <= k
        BY <1>1, <1>7, <1>11, <3>1, <4>1
      <4> QED BY <3>1, <4>2
    <3> QED BY <1>1, <1>2, <1>6, <1>7, <1>11, <3>1
  <2> QED BY <1>1, <1>11, <2>1, <2>2, <2>3, <2>4 DEF PreflightReads, d
<1>12. CASE m.field = "availability"
  <2>1. seen'[d].availability = m.value /\ seen'[d].fresh = seen[d].fresh
    BY <1>12, <1>10 DEF q
  <2>2. CASE m.value = "online"
    <3>1. Unread(d)' = K - 1 /\ K - 1 \in Nat
      BY <1>5, <1>7, <1>8, <1>12, <1>9, <2>1, <2>2 DEF Unread, K
    <3>2. \A i \in 1..Len(wire) : i = 2 /\ i <= K => ~seen'[d].fresh /\ wire[i].field = "info"
      BY <1>6, <1>7, <1>12, <2>1 DEF m
    <3> QED BY <1>11, <2>1, <2>2, <3>1, <3>2
  <2>3. CASE m.value # "online"
    <3>1. seen'[d].availability \notin {"none", "online"}
      <4>1. m.value # "none"
        BY <1>1 DEF Messages, Values
      <4> QED BY <2>1, <2>3, <4>1
    <3>2. phase = "preflight"
      BY <1>8, <1>12
    <3> QED BY <1>1, <3>1, <3>2 DEF PreflightReads, d
  <2> QED BY <2>2, <2>3
<1>13. CASE m.field = "info"
  <2>1. seen'[d].availability = seen[d].availability /\ seen'[d].fresh = TRUE /\ ~seen[d].fresh
    BY <1>8, <1>13, <1>10 DEF q
  <2>2. Unread(d)' = K - 1 /\ K - 1 \in Nat
    BY <1>7, <1>9, <2>1 DEF Unread, K
  <2>3. \A i \in 1..Len(wire) : i = 2 /\ i <= K =>
          seen'[d].availability = "none" /\ wire[i].field = "availability"
    BY <1>6, <1>7, <1>13, <2>1 DEF m
  <2>4. phase = "draining" => seen'[d].availability = "online"
    BY <1>5, <2>1
  <2> QED BY <1>11, <1>13, <2>2, <2>3, <2>4
<1> QED BY <1>8, <1>12, <1>13

\* Reading moves what the device told from the wire to the notes.
LEMMA ReadKeepsUpload ==
  ASSUME RolloutInv, onMessage
  PROVE  UploadTold' /\ WireTold'
<1> DEFINE m == wire[1]
           d == Order[step]
<1>1. /\ m \in Messages /\ m.from \in Subjects /\ fleetUnchanged
      /\ Len(wire) \in Nat /\ Len(wire) >= 1
      /\ \A i \in 1..Len(wire') : i + 1 \in 1..Len(wire) /\ wire'[i] = wire[i + 1]
      /\ \A i \in 1..Len(wire) : i = 1 \/ (i - 1 \in 1..Len(wire') /\ wire'[i - 1] = wire[i])
      /\ seen'[m.from] = noted(seen[m.from], m) /\ seen[m.from] \in Notes
      /\ m.field # "ack" => phase' = phase
      /\ m.field = "ack" => \/ phase = "file" /\ phase' = "discovery"
                            \/ phase = "sending" /\ phase' = "verify"
      /\ UNCHANGED <<receiving, step>>
  BY ReadFacts
<1>2. UploadTold /\ WireTold /\ UNCHANGED <<restartDue, restarted>>
  BY <1>1, ToolKeepsFleet
<1>3. 1 \in 1..Len(wire) /\ d' = d
  BY <1>1
<1>4. WireTold'
  <2>1. ASSUME phase' \in {"preflight", "draining", "sending", "verify"}, NEW i \in 1..Len(wire')
        PROVE  wire'[i].from = d
    <3>1. phase \in {"preflight", "draining", "sending", "verify"}
      BY <1>1, <2>1
    <3> QED BY <1>1, <1>2, <3>1 DEF WireTold
  <2>2. ASSUME phase' \in {"file", "sending"}
        PROVE  /\ d \in receiving => \A i \in 1..Len(wire') : wire'[i].field # "ack"
               /\ \A i, j \in 1..Len(wire') : wire'[i].field = "ack" /\ wire'[j].field = "ack" => i = j
    <3>1. phase \in {"file", "sending"}
      BY <1>1, <2>2
    <3>2. d \in receiving => \A i \in 1..Len(wire') : wire'[i].field # "ack"
      BY <1>1, <1>2, <3>1 DEF WireTold
    <3>3. ASSUME NEW i \in 1..Len(wire'), NEW j \in 1..Len(wire'), wire'[i].field = "ack", wire'[j].field = "ack"
          PROVE  i = j
      <4>1. i + 1 = j + 1
        BY <1>1, <1>2, <3>1, <3>3 DEF WireTold
      <4> QED BY <4>1
    <3> QED BY <3>2, <3>3
  <2> QED BY <1>1, <2>1, <2>2 DEF WireTold
<1>5. phase' \notin {"file", "sending"} => \A i \in 1..Len(wire') : wire'[i].field # "ack"
  <2>1. ASSUME m.field = "ack", NEW i \in 1..Len(wire'), wire'[i].field = "ack"
        PROVE  FALSE
    <3>1. phase \in {"file", "sending"} /\ wire[i + 1].field = "ack" /\ i + 1 \in 1..Len(wire)
      BY <1>1, <2>1
    <3>2. i + 1 = 1
      BY <1>2, <1>3, <2>1, <3>1 DEF WireTold
    <3> QED BY <3>2
  <2>2. CASE m.field # "ack"
    BY <1>1, <1>2, <2>2 DEF UploadTold
  <2> QED BY <2>1, <2>2
<1>6. ASSUME phase' \in {"sending", "verify"}
      PROVE  /\ d \in receiving => ~Told(d)' /\ ~Stored'
             /\ Stored' /\ ~Told(d)' => d \in restartDue
             /\ Stored' /\ Told(d)' => d \in restarted \ restartDue
  <2>1. phase \in {"sending", "verify"}
    BY <1>1, <1>6
  <2>2. m.from = d
    BY <1>2, <1>3, <2>1 DEF WireTold
  <2>3. Stored' <=> Stored
    <3>1. CASE m.field = "ack"
      BY <1>1, <1>3, <2>1, <3>1 DEF Stored
    <3>2. CASE m.field # "ack"
      <4>1. (\E i \in 1..Len(wire') : wire'[i].field = "ack") <=> \E i \in 1..Len(wire) : wire[i].field = "ack"
        BY <1>1, <3>2, ZenonT(60)
      <4>2. phase' = phase
        BY <1>1, <3>2
      <4> QED BY <4>1, <4>2 DEF Stored
    <3> QED BY <3>1, <3>2
  <2>4. Told(d)' <=> Told(d)
    <3> DEFINE q == seen[d]
    <3>1. q \in Notes /\ m \in Messages /\ seen'[d] = noted(q, m)
      BY <1>1, <2>2
    <3> HIDE DEF q, m
    <3>2. /\ m.field = "info" => noted(q, m).fresh = TRUE
          /\ m.field # "info" => noted(q, m).fresh = q.fresh
      BY <3>1, NotedFacts
    <3>3. (\E i \in 1..Len(wire) : wire[i].field = "info") <=>
            m.field = "info" \/ \E i \in 1..Len(wire') : wire'[i].field = "info"
      BY <1>1, <1>3 DEF m
    <3> HIDE DEF d
    <3> QED BY <1>3, <3>1, <3>2, <3>3 DEF Told, q
  <2> QED BY <1>2, <2>1, <2>3, <2>4 DEF UploadTold
<1> HIDE DEF m
<1> QED BY <1>1, <1>2, <1>4, <1>5, <1>6 DEF UploadTold

LEMMA MessageKeeps ==
  ASSUME RolloutInv, onMessage
  PROVE  RolloutInv'
<1> DEFINE m == wire[1]
<1>1. /\ m \in Messages /\ m.from \in Subjects /\ fleetUnchanged
      /\ Len(wire) \in Nat /\ Len(wire) >= 1 /\ wire' \in Seq(Messages)
      /\ \A i \in 1..Len(wire') : i + 1 \in 1..Len(wire) /\ wire'[i] = wire[i + 1]
      /\ seen' \in [Subjects -> Notes]
      /\ seen'[m.from] = noted(seen[m.from], m) /\ seen[m.from] \in Notes
      /\ \A s \in Subjects : s # m.from => seen'[s] = seen[s]
      /\ m.field # "ack" => phase' = phase
      /\ m.field = "ack" => \/ phase = "file" /\ phase' = "discovery"
                            \/ phase = "sending" /\ phase' = "verify"
      /\ UNCHANGED <<receiving, retained, session, step, targets, confirmed, status, planned>>
  BY ReadFacts
<1>2. /\ UNCHANGED <<build, image, live, linked, canFrames, restartDue, restarted, back, unsaid>>
      /\ RolloutTypeOK /\ AtStep /\ LinkTold /\ DoneTold /\ NodeTold
  BY <1>1, ToolKeepsFleet
<1>3. RolloutTypeOK'
  BY <1>1, <1>2 DEF RolloutTypeOK, Waits
<1>4. AtStep'
  BY <1>1, <1>2 DEF AtStep, Waits
<1>5. LinkTold'
  BY <1>1, <1>2 DEF LinkTold
<1>6. DoneTold'
  BY <1>1, <1>2 DEF DoneTold
<1>7. NodeTold'
  <2>1. ASSUME phase' = "presence", NEW n \in NodesOf[Order[step]]
        PROVE  /\ seen'[n].availability = "online" => n \in back \cup unsaid
               /\ \A i \in 1..Len(wire') :
                    wire'[i].from = n /\ wire'[i].field = "availability" /\ wire'[i].value = "online" =>
                      n \in back \cup unsaid
    <3>1. phase = "presence" /\ 1 \in 1..Len(wire)
      BY <1>1, <2>1
    <3>2. n \in Subjects
      BY <1>2, <3>1, StepFacts, FleetFacts DEF Waits
    <3>3. /\ seen[n].availability = "online" => n \in back \cup unsaid
          /\ \A i \in 1..Len(wire) :
               wire[i].from = n /\ wire[i].field = "availability" /\ wire[i].value = "online" =>
                 n \in back \cup unsaid
      BY <1>2, <2>1, <3>1 DEF NodeTold
    <3>4. CASE n # m.from
      BY <1>1, <3>2, <3>3, <3>4
    <3>5. CASE n = m.from
      <4> DEFINE q == seen[n]
      <4>1. q \in Notes /\ m \in Messages /\ m.field \in Fields /\ seen'[n] = noted(q, m)
        BY <1>1, <3>5 DEF Messages
      <4> HIDE DEF q, m
      <4>2. \/ noted(q, m).availability = q.availability
            \/ m.field = "availability" /\ noted(q, m).availability = m.value
        BY <4>1, NotedFacts
      <4>3. m.field = "availability" /\ m.value = "online" => n \in back \cup unsaid
        BY <3>1, <3>3, <3>5 DEF m
      <4>4. seen'[n].availability = "online" => n \in back \cup unsaid
        BY <3>3, <4>1, <4>2, <4>3 DEF q
      <4> QED BY <1>1, <3>3, <4>4
    <3> QED BY <3>4, <3>5
  <2> QED BY <1>1, <1>2, <2>1 DEF NodeTold
<1> QED BY <1>3, <1>4, <1>5, <1>6, <1>7, ReadKeepsBuild, ReadKeepsPreflight, ReadKeepsUpload DEF RolloutInv

LEMMA ToolStepKeeps ==
  ASSUME RolloutInv, toolStep
  PROVE  RolloutInv'
<1>1. CASE transferFails
  BY <1>1, FailKeeps DEF transferFails
<1> QED BY <1>1, PlanKeeps, MessageKeeps, FoundKeeps, VerdictKeeps, SoakBeginsKeeps, SoakEndsKeeps,
           PreflightKeeps, VerifyKeeps, PresenceKeeps DEF toolStep

-----------------------------------------------------------------------------
(* The theorems                                                            *)

LEMMA InitHolds == RolloutInit => RolloutInv
<1> SUFFICES ASSUME RolloutInit PROVE RolloutInv
  OBVIOUS
<1>1. /\ build \in [Subjects -> {"old", "new"}] /\ image = build
      /\ live \in SUBSET Subjects
      /\ linked = live \cap Fleet
      /\ canFrames = [n \in CanNodes |-> << >>]
      /\ retained = [t \in Retained |->
           IF t[2] = "info" THEN build[t[1]] ELSE IF t[1] \in live THEN "online" ELSE "offline"]
      /\ wire = << >> /\ session = {} /\ phase = "plan" /\ seen = Unseen
      /\ status = [d \in Fleet |-> "none"] /\ planned = [d \in Fleet |-> {}]
      /\ receiving = {} /\ restartDue = {} /\ targets = {} /\ confirmed = {} /\ restarted = {}
  BY DEF RolloutInit
<1>2. /\ Len(wire) = 0 /\ wire \in Seq(Messages)
      /\ \A n \in CanNodes : canFrames[n] \in Seq(Frames) /\ Len(canFrames[n]) = 0
  BY <1>1
<1>3. \A s \in Subjects :
        /\ retained[<<s, "info">>] = build[s]
        /\ retained[<<s, "availability">>] = IF s \in live THEN "online" ELSE "offline"
  BY <1>1 DEF Retained
<1>4. retained \in [Retained -> Values]
  <2>1. \A t \in Retained : t[1] \in Subjects
    BY DEF Retained
  <2>2. \A t \in Retained : build[t[1]] \in Values
    BY <1>1, <2>1 DEF Values
  <2> QED BY <1>1, <2>2 DEF Values
<1>5. canFrames \in [CanNodes -> Seq(Frames)]
  BY <1>1, <1>2
<1>6. RolloutTypeOK
  BY <1>1, <1>2, <1>4, <1>5, UnseenFacts DEF RolloutTypeOK, Statuses
<1>7. BuildTold
  <2>1. \A s \in Subjects : retained[<<s, "info">>] = "new" => build[s] = "new"
    BY <1>3
  <2>2. \A s \in Subjects : seen[s].info # "new"
    BY <1>1, UnseenFacts
  <2> QED BY <1>1, <1>2, <2>1, <2>2 DEF BuildTold
<1>8. AtStep /\ PreflightReads /\ DoneTold
  BY <1>1 DEF AtStep, PreflightReads, DoneTold, Waits
<1>9. LinkTold
  <2>1. \A d \in Fleet : retained[<<d, "availability">>] = "online" => d \in live
    BY <1>3, FleetFacts
  <2> QED BY <1>1, <2>1 DEF LinkTold
<1>10. UploadTold /\ WireTold
  BY <1>1, <1>2 DEF UploadTold, WireTold
<1>11. NodeTold
  BY <1>1 DEF NodeTold
<1> QED BY <1>6, <1>7, <1>8, <1>9, <1>10, <1>11 DEF RolloutInv

LEMMA StandstillKeeps ==
  ASSUME RolloutInv, UNCHANGED rolloutVars
  PROVE  RolloutInv'
BY DEF RolloutInv, rolloutVars, fleetVars, brokerVars, toolVars, RolloutTypeOK, BuildTold, AtStep, LinkTold,
       PreflightReads, Unread, UploadTold, Told, Stored, DoneTold, NodeTold, WireTold

\* In every rollout, of every fleet and with any number of mishaps, the tool works
\* on one pending step at a time, what it has read and what is on its way say no
\* more than the devices did, and the order in which OTAUpdater reads the retained
\* messages leaves none of them to be taken for news of the restart.
THEOREM RolloutInvHolds == RolloutSpec => []RolloutInv
<1>1. RolloutInv /\ [RolloutNext]_rolloutVars => RolloutInv'
  <2> SUFFICES ASSUME RolloutInv, [RolloutNext]_rolloutVars PROVE RolloutInv'
    OBVIOUS
  <2>1. CASE UNCHANGED rolloutVars
    BY <2>1, StandstillKeeps
  <2>2. CASE toolStep
    BY <2>2, ToolStepKeeps
  <2>3. CASE fleetStep
    BY <2>3, FleetStepKeeps
  <2> QED BY <2>1, <2>2, <2>3 DEF RolloutNext
<1> QED BY InitHolds, <1>1, PTL DEF RolloutSpec

\* A step that run_rollout reports as done is one whose device has started again
\* since its firmware was stored, on the build that was sent.
THEOREM DoneAlwaysRestarted == RolloutSpec => []DoneMeansRestarted
<1>1. RolloutInv => DoneMeansRestarted
  BY DEF RolloutInv, DoneTold, DoneMeansRestarted
<1> QED BY RolloutInvHolds, <1>1, PTL

\* The nodes found live in the plan were heard of after their gateway's restart
\* when its step is done, and a node FileTransfer confirmed runs the new build.
THEOREM NodesAlwaysAccounted == RolloutSpec => []NodesAccountedFor
<1>1. RolloutInv => NodesAccountedFor
  BY DEF RolloutInv, DoneTold, BuildTold, NodesAccountedFor
<1> QED BY RolloutInvHolds, <1>1, PTL
=============================================================================
