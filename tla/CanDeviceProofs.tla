-------------------------- MODULE CanDeviceProofs ---------------------------
(***************************************************************************)
(* Proofs about the parts on the CAN side: the frames between gateway and  *)
(* node, the sensor of the alert node, and the loop every device runs.     *)
(*                                                                         *)
(* That what went out is in order says too little for an induction.  The   *)
(* invariant orders the whole way of a frame: what is out before what the  *)
(* controller holds, that before what is queued, that before what is still *)
(* to be numbered.  On the node's side the order of the three buffers is   *)
(* the opposite of their numbers, and the driver's count of free buffers   *)
(* lies below every buffer in use.                                         *)
(***************************************************************************)
EXTENDS CanBus, AmbientSensor, AlertPlayer, TaskHandler, TLAPS

GwType == [at : {"start", "rx", "tx"}, budget : Int, tx : Seq(Int), rx : Seq(Int),
           rxFull : Int, rxSeen : Int, txSeen : Int]

SjaType == [bus : {"on", "off", "recovering"}, tx : Int, pending : BOOLEAN, age : Int,
            fifo : Seq(Int), abandoned : Int]

McpType == [tx : [TxBuffers -> Int], left : 0..txBufferCount, rx : [0..1 -> Int]]

LoadType == [gateway : Int, node : Int, foreign : Int, busOffs : Int]

TraceType == [left : LoadType, sent : Nat, out : Seq(Int), cut : SUBSET Int, lost : SUBSET Int,
              nodeSent : Nat, nodeOut : Seq(Int), dropped : Nat, reported : Nat]

CanTypeOK == gw \in GwType /\ sja \in SjaType /\ mcp \in McpType /\ trace \in TraceType

\* The frames of a queue q are numbered upwards, at most n.
QueueOrder(q, n) ==
  /\ \A i \in 1..Len(q) : q[i] \in 1..n
  /\ \A i, j \in 1..Len(q) : i < j => q[i] < q[j]

\* What is out precedes the frame in the buffer b, and both what is queued.
GatewayOrder(q, b, out, n) ==
  /\ QueueOrder(q, n)
  /\ QueueOrder(out, n)
  /\ \A i \in 1..Len(out), j \in 1..Len(q) : out[i] < q[j]
  /\ b # None => /\ b \in 1..n
                 /\ \A j \in 1..Len(q) : b < q[j]
                 /\ \A i \in 1..Len(out) : out[i] < b

\* The buffers in use are those from `left' on, the highest filled first.
NodeOrder(tx, left, out, n) ==
  /\ QueueOrder(out, n)
  /\ \A k \in TxBuffers : tx[k] # None =>
       /\ tx[k] \in 1..n /\ left <= k
       /\ \A i \in 1..Len(out) : out[i] < tx[k]
       /\ \A m \in TxBuffers : tx[m] # None /\ m < k => tx[k] < tx[m]

\* Where frame f is.
Accounted(f, q, b, out, gone) ==
  \/ \E i \in 1..Len(q) : q[i] = f
  \/ b = f
  \/ \E i \in 1..Len(out) : out[i] = f
  \/ f \in gone

\* A frame whose transmission is no longer requested has been counted.
AllAccounted(q, b, pending, out, gone, n) ==
  /\ \A f \in 1..n : Accounted(f, q, b, out, gone)
  /\ b # None /\ ~pending => b \in gone

\* The interrupt's counter and the task's mark are the true counts, wrapped.
Counted(full, seen, dropped, reported) ==
  full = dropped % CounterRange /\ seen = reported % CounterRange

CanInv ==
  /\ CanTypeOK
  /\ GatewayOrder(gw.tx, sja.tx, trace.out, trace.sent)
  /\ NodeOrder(mcp.tx, mcp.left, trace.nodeOut, trace.nodeSent)
  /\ AllAccounted(gw.tx, sja.tx, sja.pending, trace.out, trace.lost \cup trace.cut, trace.sent)
  /\ Counted(gw.rxFull, gw.rxSeen, trace.dropped, trace.reported)

-----------------------------------------------------------------------------
(* Sequences, and arithmetic modulo the range of a counter                 *)

LEMMA AppendFacts ==
  ASSUME NEW s \in Seq(Int), NEW e \in Int
  PROVE  /\ Append(s, e) \in Seq(Int) /\ Len(Append(s, e)) = Len(s) + 1
         /\ \A i \in 1..Len(s) : Append(s, e)[i] = s[i]
         /\ Append(s, e)[Len(s) + 1] = e
OBVIOUS

LEMMA TailFacts ==
  ASSUME NEW s \in Seq(Int), s # << >>
  PROVE  /\ Tail(s) \in Seq(Int) /\ Len(Tail(s)) = Len(s) - 1 /\ Len(s) >= 1
         /\ \A i \in 1..Len(Tail(s)) : Tail(s)[i] = s[i + 1]
         /\ Head(s) = s[1] /\ Head(s) \in Int
OBVIOUS

\* Division with remainder.
LEMMA DivMod ==
  ASSUME NEW a \in Int, NEW c \in Nat \ {0}
  PROVE  \E q \in Int : \E r \in 0..(c - 1) : a % c = r /\ a = c * q + r
<1>1. a % c \in 0..(c - 1) /\ a \div c \in Int /\ a = c * (a \div c) + (a % c)
  OBVIOUS
<1> QED
  BY <1>1

LEMMA RemainderUnique ==
  ASSUME NEW c \in Nat \ {0}, NEW q \in Int, NEW p \in Int,
         NEW r \in 0..(c - 1), NEW s \in 0..(c - 1), c * q + r = c * p + s
  PROVE  r = s
<1>1. CASE q = p
  BY <1>1
<1>2. CASE q < p
  <2>1. c * p >= c * (q + 1)
    BY <1>2
  <2> QED
    BY <2>1
<1>3. CASE p < q
  <2>1. c * q >= c * (p + 1)
    BY <1>3
  <2> QED
    BY <2>1
<1> QED
  BY <1>1, <1>2, <1>3

LEMMA ModMultiple ==
  ASSUME NEW a \in Int, NEW k \in Int, NEW c \in Nat \ {0}
  PROVE  (a + c * k) % c = a % c
<1>1. PICK x \in Int : x = a + c * k
  OBVIOUS
<1>2. PICK q \in Int : \E r \in 0..(c - 1) : x % c = r /\ x = c * q + r
  BY DivMod
<1>3. PICK r \in 0..(c - 1) : x % c = r /\ x = c * q + r
  BY <1>2
<1>4. PICK p \in Int : \E s \in 0..(c - 1) : a % c = s /\ a = c * p + s
  BY DivMod
<1>5. PICK s \in 0..(c - 1) : a % c = s /\ a = c * p + s
  BY <1>4
<1>6. c * (p + k) = c * p + c * k
  OBVIOUS
<1>7. c * q + r = c * (p + k) + s
  BY <1>1, <1>3, <1>5, <1>6
<1>8. r = s
  BY <1>7, RemainderUnique
<1> QED
  BY <1>1, <1>3, <1>5, <1>8

\* One more drop: the wrapped counter is the wrapped count.
LEMMA ModAdd ==
  ASSUME NEW a \in Int, NEW b \in Int, NEW c \in Nat \ {0}
  PROVE  ((a % c) + b) % c = (a + b) % c
<1>1. PICK q \in Int : \E r \in 0..(c - 1) : a % c = r /\ a = c * q + r
  BY DivMod
<1>2. PICK r \in 0..(c - 1) : a % c = r /\ a = c * q + r
  BY <1>1
<1>3. PICK y \in Int : y = r + b
  OBVIOUS
<1>4. (y + c * q) % c = y % c
  BY ModMultiple
<1>5. y + c * q = a + b
  BY <1>2, <1>3
<1> QED
  BY <1>2, <1>3, <1>4, <1>5

\* What the task adds to its report, the growth of a counter that wraps, brings
\* the report up to the drops.
LEMMA GrowthIsExact ==
  ASSUME NEW dropped \in Int, NEW reported \in Int, NEW c \in Nat \ {0}
  PROVE  /\ ((dropped % c) - (reported % c)) % c \in Nat
         /\ (reported + (((dropped % c) - (reported % c)) % c)) % c = dropped % c
<1>1. PICK d \in Int, m \in 0..(c - 1) : dropped % c = m /\ dropped = c * d + m
  BY DivMod
<1>2. PICK e \in Int, n \in 0..(c - 1) : reported % c = n /\ reported = c * e + n
  BY DivMod
<1>3. PICK x \in Int : x = m - n
  OBVIOUS
<1>4. PICK f \in Int, g \in 0..(c - 1) : x % c = g /\ x = c * f + g
  BY DivMod
<1>5. PICK k \in Int : k = e - d - f
  OBVIOUS
<1>6. c * k = c * e - c * d - c * f
  BY <1>5
<1>7. reported + g = dropped + c * k
  <2>1. reported = c * e + n /\ g = (m - n) - c * f /\ dropped = c * d + m
    BY <1>1, <1>2, <1>3, <1>4
  <2> QED
    BY <2>1, <1>6
<1>8. (dropped + c * k) % c = dropped % c
  BY ModMultiple
<1> QED
  BY <1>1, <1>2, <1>3, <1>4, <1>7, <1>8

-----------------------------------------------------------------------------
(* The way of a frame                                                      *)

\* send() queues the next number.
LEMMA OrderWhenQueued ==
  ASSUME NEW q \in Seq(Int), NEW b \in Int, NEW out \in Seq(Int), NEW n \in Nat, GatewayOrder(q, b, out, n)
  PROVE  GatewayOrder(Append(q, n + 1), b, out, n + 1)
<1> DEFINE r == Append(q, n + 1)
<1>1. /\ Len(r) = Len(q) + 1
      /\ \A i \in 1..Len(q) : r[i] = q[i]
      /\ r[Len(q) + 1] = n + 1
  BY AppendFacts
<1> HIDE DEF r
<1>2. Len(q) \in Nat /\ Len(out) \in Nat
  OBVIOUS
<1>3. \A i \in 1..Len(r) : (i \in 1..Len(q) /\ r[i] = q[i]) \/ (i = Len(q) + 1 /\ r[i] = n + 1)
  BY <1>1, <1>2
<1>4. QueueOrder(r, n + 1)
  <2>1. QueueOrder(q, n)
    BY DEF GatewayOrder
  <2>2. \A i \in 1..Len(r) : r[i] \in 1..(n + 1)
    BY <1>3, <2>1 DEF QueueOrder
  <2>3. ASSUME NEW i \in 1..Len(r), NEW j \in 1..Len(r), i < j
        PROVE  r[i] < r[j]
    <3>1. i \in 1..Len(q) /\ r[i] = q[i] /\ q[i] \in 1..n
      BY <1>1, <1>2, <2>1, <2>3 DEF QueueOrder
    <3>2. CASE j \in 1..Len(q) /\ r[j] = q[j]
      BY <2>1, <2>3, <3>1, <3>2 DEF QueueOrder
    <3>3. CASE r[j] = n + 1
      BY <3>1, <3>3
    <3> QED
      BY <1>3, <3>2, <3>3
  <2> QED
    BY <2>2, <2>3 DEF QueueOrder
<1>5. QueueOrder(out, n + 1)
  BY DEF GatewayOrder, QueueOrder
<1>6. \A i \in 1..Len(out), j \in 1..Len(r) : out[i] < r[j]
  BY <1>3, SMTT(30) DEF GatewayOrder, QueueOrder
<1>7. b # None => b \in 1..(n + 1) /\ \A j \in 1..Len(r) : b < r[j]
  BY <1>3 DEF GatewayOrder, QueueOrder
<1> QED
  BY <1>4, <1>5, <1>6, <1>7 DEF GatewayOrder, r

\* The oldest goes into the free buffer.
LEMMA OrderWhenLoaded ==
  ASSUME NEW q \in Seq(Int), NEW b, NEW out \in Seq(Int), NEW n \in Nat, GatewayOrder(q, b, out, n), q # << >>
  PROVE  GatewayOrder(Tail(q), Head(q), out, n)
<1> DEFINE r == Tail(q)
           h == Head(q)
<1>1. /\ Len(r) = Len(q) - 1 /\ Len(q) >= 1 /\ Len(q) \in Nat
      /\ \A i \in 1..Len(r) : r[i] = q[i + 1]
      /\ h = q[1]
  BY TailFacts
<1> HIDE DEF r, h
<1>2. \A i \in 1..Len(r) : i + 1 \in 1..Len(q) /\ 1 < i + 1
  BY <1>1
<1>3. 1 \in 1..Len(q)
  BY <1>1
<1>4. QueueOrder(r, n)
  <2>1. QueueOrder(q, n)
    BY DEF GatewayOrder
  <2>2. \A i \in 1..Len(r) : r[i] \in 1..n
    BY <1>1, <1>2, <2>1 DEF QueueOrder
  <2>3. ASSUME NEW i \in 1..Len(r), NEW j \in 1..Len(r), i < j
        PROVE  r[i] < r[j]
    <3>1. i + 1 \in 1..Len(q) /\ j + 1 \in 1..Len(q) /\ i + 1 < j + 1
      BY <1>2, <2>3
    <3>2. q[i + 1] < q[j + 1]
      BY <2>1, <3>1 DEF QueueOrder
    <3> QED
      BY <1>1, <3>2
  <2> QED
    BY <2>2, <2>3 DEF QueueOrder
<1>5. h \in 1..n /\ \A j \in 1..Len(r) : h < r[j]
  BY <1>1, <1>2, <1>3 DEF GatewayOrder, QueueOrder
<1>6. \A i \in 1..Len(out) : out[i] < h /\ \A j \in 1..Len(r) : out[i] < r[j]
  BY <1>1, <1>2, <1>3 DEF GatewayOrder
<1> QED
  BY <1>4, <1>5, <1>6 DEF GatewayOrder, r, h

\* A larger number at the end keeps a sequence in order.
LEMMA QueueOrderAppend ==
  ASSUME NEW out \in Seq(Int), NEW n \in Nat, NEW e \in 1..n, QueueOrder(out, n),
         \A i \in 1..Len(out) : out[i] < e
  PROVE  QueueOrder(Append(out, e), n)
<1> DEFINE r == Append(out, e)
<1>1. /\ Len(r) = Len(out) + 1 /\ Len(out) \in Nat
      /\ \A i \in 1..Len(out) : r[i] = out[i]
      /\ r[Len(out) + 1] = e
  BY AppendFacts
<1> HIDE DEF r
<1>2. \A i \in 1..Len(r) : (i \in 1..Len(out) /\ r[i] = out[i]) \/ (i = Len(out) + 1 /\ r[i] = e)
  BY <1>1
<1>3. \A i \in 1..Len(r) : r[i] \in 1..n
  BY <1>2 DEF QueueOrder
<1>4. ASSUME NEW i \in 1..Len(r), NEW j \in 1..Len(r), i < j
      PROVE  r[i] < r[j]
  <2>1. i \in 1..Len(out) /\ r[i] = out[i]
    BY <1>1, <1>4
  <2>2. CASE j \in 1..Len(out) /\ r[j] = out[j]
    BY <1>4, <2>1, <2>2 DEF QueueOrder
  <2>3. CASE r[j] = e
    BY <2>1, <2>3
  <2> QED
    BY <1>2, <2>2, <2>3
<1>5. QueueOrder(r, n)
  BY <1>3, <1>4 DEF QueueOrder
<1> QED
  BY <1>5 DEF r

\* The bus takes the frame in the buffer.
LEMMA OrderWhenOut ==
  ASSUME NEW q \in Seq(Int), NEW b \in Int, NEW out \in Seq(Int), NEW n \in Nat, GatewayOrder(q, b, out, n), b # None
  PROVE  GatewayOrder(q, None, Append(out, b), n)
<1>1. b \in 1..n /\ QueueOrder(out, n) /\ \A i \in 1..Len(out) : out[i] < b
  BY DEF GatewayOrder
<1>2. QueueOrder(Append(out, b), n)
  BY <1>1, QueueOrderAppend
<1>3. \A i \in 1..Len(Append(out, b)) : \A j \in 1..Len(q) : Append(out, b)[i] < q[j]
  <2> DEFINE r == Append(out, b)
  <2>1. \A i \in 1..Len(r) : (i \in 1..Len(out) /\ r[i] = out[i]) \/ r[i] = b
    BY AppendFacts
  <2> HIDE DEF r
  <2>2. \A i \in 1..Len(r) : \A j \in 1..Len(q) : r[i] < q[j]
    BY <2>1 DEF GatewayOrder
  <2> QED
    BY <2>2 DEF r
<1> QED
  BY <1>2, <1>3 DEF GatewayOrder

\* A frame given up leaves no trace in the order.
LEMMA OrderWhenDropped ==
  ASSUME NEW q, NEW b, NEW out, NEW n, GatewayOrder(q, b, out, n)
  PROVE  GatewayOrder(q, None, out, n)
BY DEF GatewayOrder

LEMMA AccountWhenQueued ==
  ASSUME NEW q \in Seq(Int), NEW b, NEW pending, NEW out, NEW gone, NEW n \in Nat,
         AllAccounted(q, b, pending, out, gone, n)
  PROVE  AllAccounted(Append(q, n + 1), b, pending, out, gone, n + 1)
<1> DEFINE r == Append(q, n + 1)
<1>1. /\ Len(r) = Len(q) + 1 /\ Len(q) \in Nat
      /\ \A i \in 1..Len(q) : r[i] = q[i]
      /\ r[Len(q) + 1] = n + 1
  BY AppendFacts
<1> HIDE DEF r
<1>2. \A i \in 1..Len(q) : i \in 1..Len(r)
  BY <1>1
<1>3. Len(q) + 1 \in 1..Len(r)
  BY <1>1
<1>4. SUFFICES ASSUME NEW f \in 1..(n + 1)
               PROVE  Accounted(f, r, b, out, gone)
  BY DEF AllAccounted, r
<1>5. CASE f = n + 1
  BY <1>1, <1>3, <1>5 DEF Accounted
<1>6. CASE f \in 1..n
  BY <1>1, <1>2, <1>6 DEF AllAccounted, Accounted
<1> QED
  BY <1>5, <1>6

LEMMA AccountWhenLoaded ==
  ASSUME NEW q \in Seq(Int), NEW pending, NEW out, NEW gone, NEW n \in Nat, q # << >>,
         AllAccounted(q, None, pending, out, gone, n)
  PROVE  AllAccounted(Tail(q), Head(q), TRUE, out, gone, n)
<1> DEFINE r == Tail(q)
<1>1. /\ Len(r) = Len(q) - 1 /\ Len(q) \in Nat
      /\ \A i \in 1..Len(r) : r[i] = q[i + 1]
      /\ Head(q) = q[1]
  BY TailFacts
<1> HIDE DEF r
<1>2. \A i \in 1..Len(q) : i = 1 \/ (i - 1 \in 1..Len(r) /\ r[i - 1] = q[i])
  BY <1>1
<1>3. SUFFICES ASSUME NEW f \in 1..n
               PROVE  Accounted(f, r, Head(q), out, gone)
  BY DEF AllAccounted, r
<1>4. f # None
  BY DEF None
<1> QED
  BY <1>1, <1>2, <1>4 DEF AllAccounted, Accounted

LEMMA AccountWhenOut ==
  ASSUME NEW q, NEW b \in Int, NEW pending, NEW out \in Seq(Int), NEW gone, NEW n \in Nat,
         AllAccounted(q, b, pending, out, gone, n)
  PROVE  AllAccounted(q, None, pending, Append(out, b), gone, n)
<1> DEFINE r == Append(out, b)
<1>1. /\ Len(r) = Len(out) + 1 /\ Len(out) \in Nat
      /\ \A i \in 1..Len(out) : r[i] = out[i]
      /\ r[Len(out) + 1] = b
  BY AppendFacts
<1> HIDE DEF r
<1>2. \A i \in 1..Len(out) : i \in 1..Len(r)
  BY <1>1
<1>3. Len(out) + 1 \in 1..Len(r)
  BY <1>1
<1>4. SUFFICES ASSUME NEW f \in 1..n
               PROVE  Accounted(f, q, None, r, gone)
  BY DEF AllAccounted, r
<1> QED
  BY <1>1, <1>2, <1>3 DEF AllAccounted, Accounted

\* The buffer is emptied of a frame that has been counted.
LEMMA AccountWhenDropped ==
  ASSUME NEW q, NEW b, NEW pending, NEW p, NEW out, NEW gone, NEW more, NEW n \in Nat,
         AllAccounted(q, b, pending, out, gone, n), gone \subseteq more, b \in more \/ b = None
  PROVE  AllAccounted(q, None, p, out, more, n)
<1> SUFFICES ASSUME NEW f \in 1..n
             PROVE  Accounted(f, q, None, out, more)
  BY DEF AllAccounted
<1>1. f # None
  BY DEF None
<1> QED
  BY <1>1 DEF AllAccounted, Accounted
\* The node's driver takes the next buffer down; with none left it starts again
\* from the top, all of them being empty.
LEMMA NodeOrderWhenSent ==
  ASSUME NEW tx \in [TxBuffers -> Int], NEW left \in 1..txBufferCount, NEW out \in Seq(Int), NEW n \in Nat,
         NodeOrder(tx, left, out, n)
  PROVE  NodeOrder([tx EXCEPT ![left - 1] = n + 1], left - 1, out, n + 1)
<1> DEFINE t == [tx EXCEPT ![left - 1] = n + 1]
<1>1. left - 1 \in TxBuffers /\ TxBuffers \subseteq Int
  BY DEF TxBuffers, txBufferCount
<1>2. t[left - 1] = n + 1 /\ \A k \in TxBuffers : k # left - 1 => t[k] = tx[k]
  BY <1>1
<1> HIDE DEF t
<1>3. QueueOrder(out, n + 1)
  BY DEF NodeOrder, QueueOrder
<1>4. ASSUME NEW k \in TxBuffers, t[k] # None
      PROVE  /\ t[k] \in 1..(n + 1) /\ left - 1 <= k
             /\ \A i \in 1..Len(out) : out[i] < t[k]
             /\ \A m \in TxBuffers : t[m] # None /\ m < k => t[k] < t[m]
  <2>1. CASE k = left - 1
    <3>1. \A m \in TxBuffers : t[m] # None /\ m # k => left <= m
      BY <1>2, <2>1 DEF NodeOrder
    <3>2. \A i \in 1..Len(out) : out[i] \in 1..n
      BY DEF NodeOrder, QueueOrder
    <3> QED
      BY <1>1, <1>2, <2>1, <3>1, <3>2
  <2>2. CASE k # left - 1
    <3>1. /\ tx[k] \in 1..n /\ left <= k
          /\ \A i \in 1..Len(out) : out[i] < tx[k]
          /\ \A m \in TxBuffers : tx[m] # None /\ m < k => tx[k] < tx[m]
      BY <1>2, <1>4, <2>2 DEF NodeOrder
    <3>2. ASSUME NEW m \in TxBuffers, t[m] # None, m < k
          PROVE  tx[k] < t[m]
      <4>1. CASE m = left - 1
        BY <1>2, <3>1, <4>1
      <4>2. CASE m # left - 1
        BY <1>2, <3>1, <3>2, <4>2
      <4> QED
        BY <4>1, <4>2
    <3> QED
      BY <1>1, <1>2, <2>2, <3>1, <3>2
  <2> QED
    BY <2>1, <2>2
<1> QED
  BY <1>3, <1>4 DEF NodeOrder, t

\* The controller sends the highest buffer, which holds the oldest frame.
LEMMA NodeOrderWhenOut ==
  ASSUME NEW tx \in [TxBuffers -> Int], NEW left \in 0..txBufferCount, NEW out \in Seq(Int), NEW n \in Nat,
         NodeOrder(tx, left, out, n), NEW h \in TxBuffers, tx[h] # None,
         \A m \in TxBuffers : tx[m] # None => m <= h
  PROVE  NodeOrder([tx EXCEPT ![h] = None], left, Append(out, tx[h]), n)
<1> DEFINE t == [tx EXCEPT ![h] = None]
           r == Append(out, tx[h])
<1>1. t[h] = None /\ \A k \in TxBuffers : k # h => t[k] = tx[k]
  OBVIOUS
<1>2. TxBuffers \subseteq Int
  BY DEF TxBuffers, txBufferCount
<1>3. QueueOrder(r, n)
  <2>1. tx[h] \in 1..n /\ QueueOrder(out, n) /\ \A i \in 1..Len(out) : out[i] < tx[h]
    BY DEF NodeOrder
  <2> QED
    BY <2>1, QueueOrderAppend
<1>4. \A i \in 1..Len(r) : (i \in 1..Len(out) /\ r[i] = out[i]) \/ r[i] = tx[h]
  BY AppendFacts
<1> HIDE DEF t, r
<1>5. ASSUME NEW k \in TxBuffers, t[k] # None
      PROVE  /\ t[k] \in 1..n /\ left <= k
             /\ \A i \in 1..Len(r) : r[i] < t[k]
             /\ \A m \in TxBuffers : t[m] # None /\ m < k => t[k] < t[m]
  <2>1. t[k] = tx[k] /\ k # h
    BY <1>1, <1>5
  <2>2. /\ tx[k] \in 1..n /\ left <= k
        /\ \A i \in 1..Len(out) : out[i] < tx[k]
        /\ \A m \in TxBuffers : tx[m] # None /\ m < k => tx[k] < tx[m]
    BY <1>5, <2>1 DEF NodeOrder
  <2>3. k < h
    BY <1>2, <1>5, <2>1
  <2>4. tx[h] < tx[k]
    BY <1>5, <2>1, <2>3 DEF NodeOrder
  <2>5. \A i \in 1..Len(r) : r[i] < t[k]
    BY <1>4, <2>1, <2>2, <2>4
  <2>6. \A m \in TxBuffers : t[m] # None /\ m < k => t[k] < t[m]
    BY <1>1, <2>1, <2>2
  <2> QED
    BY <2>1, <2>2, <2>5, <2>6
<1> QED
  BY <1>3, <1>5 DEF NodeOrder, t, r
-----------------------------------------------------------------------------
(* Every step keeps the invariant                                          *)

\* The five parts of the invariant, for the steps that leave some of them alone.
GatewayPart == GatewayOrder(gw.tx, sja.tx, trace.out, trace.sent)
NodePart == NodeOrder(mcp.tx, mcp.left, trace.nodeOut, trace.nodeSent)
AccountPart == AllAccounted(gw.tx, sja.tx, sja.pending, trace.out, trace.lost \cup trace.cut, trace.sent)
CountPart == Counted(gw.rxFull, gw.rxSeen, trace.dropped, trace.reported)

LEMMA CanParts == CanInv <=> CanTypeOK /\ GatewayPart /\ NodePart /\ AccountPart /\ CountPart
BY DEF CanInv, GatewayPart, NodePart, AccountPart, CountPart

\* What a step may do to a record keeps its type.
LEMMA GwUpdates ==
  ASSUME NEW g \in GwType
  PROVE  /\ \A q \in Seq(Int) : [g EXCEPT !.tx = q] \in GwType
         /\ \A q \in Seq(Int), b \in Int : [g EXCEPT !.tx = q, !.budget = b] \in GwType
         /\ \A q \in Seq(Int) : [g EXCEPT !.rx = q] \in GwType
         /\ \A q \in Seq(Int), b \in Int : [g EXCEPT !.rx = q, !.budget = b] \in GwType
         /\ \A a \in {"start", "rx", "tx"}, b \in Int : [g EXCEPT !.at = a, !.budget = b] \in GwType
         /\ \A k \in Int : [g EXCEPT !.rxFull = k] \in GwType
         /\ \A k, m \in Int : [g EXCEPT !.rxSeen = k, !.txSeen = m] \in GwType
BY DEF GwType

LEMMA TraceUpdates ==
  ASSUME NEW u \in TraceType
  PROVE  /\ \A n \in Nat, l \in LoadType : [u EXCEPT !.sent = n, !.left = l] \in TraceType
         /\ \A n \in Nat, l \in LoadType : [u EXCEPT !.nodeSent = n, !.left = l] \in TraceType
         /\ \A l \in LoadType : [u EXCEPT !.left = l] \in TraceType
         /\ \A s \in SUBSET Int, l \in LoadType : [u EXCEPT !.left = l, !.cut = s] \in TraceType
         /\ \A s \in SUBSET Int : [u EXCEPT !.lost = s] \in TraceType
         /\ \A q \in Seq(Int) : [u EXCEPT !.out = q] \in TraceType
         /\ \A q \in Seq(Int) : [u EXCEPT !.nodeOut = q] \in TraceType
         /\ \A n \in Nat : [u EXCEPT !.dropped = n] \in TraceType
         /\ \A n \in Nat : [u EXCEPT !.reported = n] \in TraceType
BY DEF TraceType

LEMMA SjaUpdates ==
  ASSUME NEW s \in SjaType
  PROVE  /\ \A k \in Int : [s EXCEPT !.pending = FALSE, !.abandoned = k] \in SjaType
         /\ \A f \in Int : [s EXCEPT !.tx = f, !.pending = TRUE, !.age = 0] \in SjaType
         /\ \A q \in Seq(Int) : [s EXCEPT !.fifo = q] \in SjaType
         /\ [s EXCEPT !.tx = None] \in SjaType
         /\ [s EXCEPT !.pending = FALSE] \in SjaType
         /\ [s EXCEPT !.bus = "off", !.tx = None] \in SjaType
         /\ [s EXCEPT !.bus = "on"] \in SjaType
         /\ \A k \in Int : [s EXCEPT !.age = k] \in SjaType
<1>1. None \in Int
  BY DEF None
<1>2. \A k \in Int : [s EXCEPT !.pending = FALSE, !.abandoned = k] \in SjaType
  BY DEF SjaType
<1>3. ASSUME NEW f \in Int
      PROVE  [s EXCEPT !.tx = f, !.pending = TRUE, !.age = 0] \in SjaType
  <2>1. PICK k \in Int : k = 0
    OBVIOUS
  <2>2. \A p \in BOOLEAN : [s EXCEPT !.tx = f, !.pending = p, !.age = k] \in SjaType
    BY DEF SjaType
  <2> QED
    BY <2>1, <2>2
<1>4. \A q \in Seq(Int) : [s EXCEPT !.fifo = q] \in SjaType
  BY DEF SjaType
<1>5. [s EXCEPT !.tx = None] \in SjaType
  BY <1>1 DEF SjaType
<1>6. [s EXCEPT !.pending = FALSE] \in SjaType
  BY DEF SjaType
<1>7. [s EXCEPT !.bus = "off", !.tx = None] \in SjaType
  BY <1>1 DEF SjaType
<1>8. [s EXCEPT !.bus = "on"] \in SjaType
  BY DEF SjaType
<1>9. \A k \in Int : [s EXCEPT !.age = k] \in SjaType
  BY DEF SjaType
<1> QED
  BY <1>2, <1>3, <1>4, <1>5, <1>6, <1>7, <1>8, <1>9

LEMMA McpUpdates ==
  ASSUME NEW m \in McpType
  PROVE  /\ \A f \in [TxBuffers -> Int] : [m EXCEPT !.tx = f] \in McpType
         /\ \A f \in [TxBuffers -> Int], l \in 0..txBufferCount : [m EXCEPT !.tx = f, !.left = l] \in McpType
         /\ \A f \in [0..1 -> Int] : [m EXCEPT !.rx = f] \in McpType
BY DEF McpType

LEMMA LoadUpdates ==
  ASSUME NEW u \in TraceType
  PROVE  /\ [u.left EXCEPT !.gateway = u.left.gateway - 1] \in LoadType
         /\ [u.left EXCEPT !.node = u.left.node - 1] \in LoadType
         /\ [u.left EXCEPT !.foreign = u.left.foreign - 1] \in LoadType
         /\ [u.left EXCEPT !.busOffs = u.left.busOffs - 1] \in LoadType
<1>1. u.left \in LoadType
  BY DEF TraceType
<1> QED
  BY <1>1 DEF LoadType

LEMMA CanInitially == CanInit => CanInv
<1> SUFFICES ASSUME CanInit PROVE CanInv
  OBVIOUS
<1>1. PICK load \in Loads :
        trace = [left |-> load, sent |-> 0, out |-> << >>, cut |-> {}, lost |-> {},
                 nodeSent |-> 0, nodeOut |-> << >>, dropped |-> 0, reported |-> 0]
  BY DEF CanInit
<1>2. load \in LoadType
  BY CanAssumption DEF LoadType
<1>3. CanTypeOK
  BY <1>1, <1>2 DEF CanInit, CanTypeOK, GwType, SjaType, McpType, TraceType, beginSja, beginMcp,
                    TxBuffers, txBufferCount, None
<1>4. gw.tx = << >> /\ sja.tx = None /\ trace.out = << >> /\ trace.sent = 0
  BY <1>1 DEF CanInit, beginSja
<1>5. GatewayPart
  BY <1>4 DEF GatewayPart, GatewayOrder, QueueOrder
<1>6. NodePart
  <2>1. trace.nodeOut = << >> /\ \A k \in TxBuffers : mcp.tx[k] = None
    BY <1>1 DEF CanInit, beginMcp
  <2> QED
    BY <2>1 DEF NodePart, NodeOrder, QueueOrder
<1>7. AccountPart
  BY <1>4 DEF AccountPart, AllAccounted
<1>8. CountPart
  <2>1. gw.rxFull = 0 /\ gw.rxSeen = 0 /\ trace.dropped = 0 /\ trace.reported = 0
    BY <1>1 DEF CanInit
  <2>2. CounterRange \in Nat \ {0}
    BY CanAssumption
  <2>3. 0 % CounterRange = 0
    BY <2>2
  <2> QED
    BY <2>1, <2>3 DEF CountPart, Counted
<1> QED
  BY <1>3, <1>5, <1>6, <1>7, <1>8, CanParts

\* Steps that touch neither the frames of the gateway nor the counters' parts.
SameFrames ==
  /\ gw'.tx = gw.tx /\ sja'.tx = sja.tx /\ sja'.pending = sja.pending
  /\ trace'.out = trace.out /\ trace'.sent = trace.sent
  /\ trace'.lost = trace.lost /\ trace'.cut = trace.cut

SameNode ==
  /\ mcp'.tx = mcp.tx /\ mcp'.left = mcp.left
  /\ trace'.nodeOut = trace.nodeOut /\ trace'.nodeSent = trace.nodeSent

SameCounters ==
  /\ gw'.rxFull = gw.rxFull /\ gw'.rxSeen = gw.rxSeen
  /\ trace'.dropped = trace.dropped /\ trace'.reported = trace.reported

LEMMA SamePartsKept ==
  ASSUME CanInv
  PROVE  /\ SameFrames => GatewayPart' /\ AccountPart'
         /\ SameNode => NodePart'
         /\ SameCounters => CountPart'
BY DEF CanInv, SameFrames, SameNode, SameCounters, GatewayPart, NodePart, AccountPart, CountPart

LEMMA PartsSuffice ==
  ASSUME CanTypeOK', GatewayPart', NodePart', AccountPart', CountPart'
  PROVE  CanInv'
BY DEF CanInv, GatewayPart, NodePart, AccountPart, CountPart

LEMMA CanSendKeeps ==
  ASSUME CanInv, canSend
  PROVE  CanInv'
<1>1. gw \in GwType /\ sja \in SjaType /\ mcp \in McpType /\ trace \in TraceType
  BY DEF CanInv, CanTypeOK
<1>2. gw.tx \in Seq(Int) /\ sja.tx \in Int /\ trace.out \in Seq(Int) /\ trace.sent \in Nat
  BY <1>1 DEF GwType, SjaType, TraceType
<1>3. /\ gw' = [gw EXCEPT !.tx = Append(gw.tx, trace.sent + 1)]
      /\ trace' = [trace EXCEPT !.sent = trace.sent + 1,
                                !.left = [trace.left EXCEPT !.gateway = trace.left.gateway - 1]]
      /\ sja' = sja /\ mcp' = mcp
  BY <1>1 DEF canSend, GwType, TraceType, LoadType
<1>4. CanTypeOK'
  <2>1. Append(gw.tx, trace.sent + 1) \in Seq(Int) /\ trace.sent + 1 \in Nat
    BY <1>2
  <2>2. gw' \in GwType
    BY <1>1, <1>3, <2>1, GwUpdates
  <2>3. trace' \in TraceType
    BY <1>1, <1>3, <2>1, TraceUpdates, LoadUpdates
  <2> QED
    BY <1>1, <1>3, <2>2, <2>3 DEF CanTypeOK
<1>5. /\ gw'.tx = Append(gw.tx, trace.sent + 1) /\ gw'.rxFull = gw.rxFull /\ gw'.rxSeen = gw.rxSeen
      /\ trace'.sent = trace.sent + 1 /\ trace'.out = trace.out
      /\ trace'.lost = trace.lost /\ trace'.cut = trace.cut
      /\ trace'.nodeOut = trace.nodeOut /\ trace'.nodeSent = trace.nodeSent
      /\ trace'.dropped = trace.dropped /\ trace'.reported = trace.reported
  BY <1>1, <1>3 DEF GwType, TraceType
<1>6. GatewayPart'
  BY <1>2, <1>3, <1>5, OrderWhenQueued DEF GatewayPart, CanInv
<1>7. AccountPart'
  BY <1>2, <1>3, <1>5, AccountWhenQueued DEF AccountPart, CanInv
<1>8. SameNode /\ SameCounters
  BY <1>3, <1>5 DEF SameNode, SameCounters
<1> QED
  BY <1>4, <1>6, <1>7, <1>8, SamePartsKept, PartsSuffice

LEMMA RunStartKeeps ==
  ASSUME CanInv, NEW locked \in BOOLEAN, runStart(locked)
  PROVE  CanInv'
<1>1. gw \in GwType /\ sja \in SjaType /\ mcp \in McpType /\ trace \in TraceType
  BY DEF CanInv, CanTypeOK
<1>2. CounterRange \in Nat \ {0} /\ maxFramesPerRun \in Int
  BY CanAssumption
<1> DEFINE growth == takeGrowth(gw.rxFull, gw.rxSeen)
<1>3. /\ gw.rxFull = trace.dropped % CounterRange /\ gw.rxSeen = trace.reported % CounterRange
      /\ trace.dropped \in Nat /\ trace.reported \in Nat /\ gw.rxFull \in Int /\ sja.abandoned \in Int
  BY <1>1 DEF CanInv, Counted, TraceType, GwType, SjaType
<1>4. growth \in Nat /\ (trace.reported + growth) % CounterRange = trace.dropped % CounterRange
  BY <1>2, <1>3, GrowthIsExact DEF takeGrowth
<1>5. trace' = [trace EXCEPT !.reported = trace.reported + growth] /\ mcp' = mcp
  BY <1>1 DEF runStart, TraceType
<1> HIDE DEF growth
<1>6. sja'.tx = sja.tx /\ sja'.pending = sja.pending /\ sja' \in SjaType
  BY <1>1 DEF runStart, recoverFromBusOff, isBusOff, SjaType
<1> DEFINE g == reportDroppedFrames(gw)
<1>7. g \in GwType /\ g.tx = gw.tx /\ g.rxFull = gw.rxFull /\ g.rxSeen = gw.rxFull
  <2>1. g \in GwType
    BY <1>1, <1>3, GwUpdates DEF reportDroppedFrames
  <2> QED
    BY <1>1, <2>1 DEF reportDroppedFrames, GwType
<1>8. PICK a \in {"start", "rx", "tx"} : gw' = [g EXCEPT !.at = a, !.budget = maxFramesPerRun]
  BY DEF runStart
<1> HIDE DEF g
<1>9. gw' \in GwType
  BY <1>2, <1>7, <1>8, GwUpdates
<1>10. gw'.tx = gw.tx /\ gw'.rxFull = gw.rxFull /\ gw'.rxSeen = gw.rxFull
  BY <1>7, <1>8 DEF GwType
<1>11. trace' \in TraceType
  <2>1. trace.reported + growth \in Nat
    BY <1>3, <1>4
  <2> QED
    BY <1>1, <1>5, <2>1, TraceUpdates
<1>12. /\ trace'.reported = trace.reported + growth /\ trace'.dropped = trace.dropped
       /\ trace'.out = trace.out /\ trace'.sent = trace.sent
       /\ trace'.lost = trace.lost /\ trace'.cut = trace.cut
       /\ trace'.nodeOut = trace.nodeOut /\ trace'.nodeSent = trace.nodeSent
  BY <1>1, <1>5 DEF TraceType
<1>13. CountPart'
  BY <1>3, <1>4, <1>10, <1>12 DEF CountPart, Counted
<1>14. SameFrames /\ SameNode
  BY <1>5, <1>6, <1>10, <1>12 DEF SameFrames, SameNode
<1>15. CanTypeOK'
  BY <1>1, <1>5, <1>6, <1>9, <1>11 DEF CanTypeOK
<1> QED
  BY <1>13, <1>14, <1>15, SamePartsKept, PartsSuffice

LEMMA RunReceiveKeeps ==
  ASSUME CanInv, runReceive
  PROVE  CanInv'
<1>1. gw \in GwType /\ sja \in SjaType /\ mcp \in McpType /\ trace \in TraceType
  BY DEF CanInv, CanTypeOK
<1>2. maxFramesPerRun \in Int /\ gw.budget - 1 \in Int /\ gw.rx \in Seq(Int)
  BY <1>1, CanAssumption DEF GwType
<1>3. \/ gw.rx # << >> /\ gw' = [gw EXCEPT !.rx = Tail(gw.rx), !.budget = gw.budget - 1]
      \/ gw' = [gw EXCEPT !.at = "tx", !.budget = maxFramesPerRun]
  BY <1>1 DEF runReceive, GwType
<1>4. gw' \in GwType
  <2>1. CASE gw.rx # << >> /\ gw' = [gw EXCEPT !.rx = Tail(gw.rx), !.budget = gw.budget - 1]
    <3>1. Tail(gw.rx) \in Seq(Int)
      BY <1>2, <2>1, TailFacts
    <3> QED
      BY <1>1, <1>2, <2>1, <3>1, GwUpdates
  <2>2. CASE gw' = [gw EXCEPT !.at = "tx", !.budget = maxFramesPerRun]
    BY <1>1, <1>2, <2>2, GwUpdates
  <2> QED
    BY <1>3, <2>1, <2>2
<1>5. gw'.tx = gw.tx /\ gw'.rxFull = gw.rxFull /\ gw'.rxSeen = gw.rxSeen
  BY <1>1, <1>3 DEF GwType
<1>6. SameFrames /\ SameNode /\ SameCounters
  BY <1>5 DEF SameFrames, SameNode, SameCounters, runReceive
<1>7. CanTypeOK'
  BY <1>1, <1>4 DEF CanTypeOK, runReceive
<1> QED
  BY <1>6, <1>7, SamePartsKept, PartsSuffice

\* A pass that ends changes nothing but its place.
LEMMA PassEndsFacts ==
  ASSUME gw \in GwType, passEnds
  PROVE  gw' \in GwType /\ gw'.tx = gw.tx /\ gw'.rxFull = gw.rxFull /\ gw'.rxSeen = gw.rxSeen
<1>1. gw' \in GwType
  <2>1. "start" \in {"start", "rx", "tx"} /\ 0 \in Int
    OBVIOUS
  <2>2. [gw EXCEPT !.at = "start", !.budget = 0] \in GwType
    BY <2>1, GwUpdates
  <2> QED
    BY <2>2 DEF passEnds
<1> QED
  BY <1>1 DEF passEnds, GwType

LEMMA RunTransmitKeeps ==
  ASSUME CanInv, runTransmit
  PROVE  CanInv'
<1>1. gw \in GwType /\ sja \in SjaType /\ mcp \in McpType /\ trace \in TraceType
  BY DEF CanInv, CanTypeOK
<1>2. /\ gw.tx \in Seq(Int) /\ gw.budget \in Int /\ sja.tx \in Int /\ sja.pending \in BOOLEAN /\ sja.abandoned \in Int
      /\ trace.out \in Seq(Int) /\ trace.sent \in Nat /\ trace.lost \in SUBSET Int
  BY <1>1 DEF GwType, SjaType, TraceType
<1>3. mcp' = mcp
  BY DEF runTransmit
<1>4. CASE gw.budget > 0 /\ sja.tx # None /\ txBusy /\ passEnds
  <2>1. gw' \in GwType /\ gw'.tx = gw.tx /\ gw'.rxFull = gw.rxFull /\ gw'.rxSeen = gw.rxSeen
    BY <1>1, <1>4, PassEndsFacts
  <2>2. CASE UNCHANGED <<sja, trace>>
    <3>1. SameFrames /\ SameNode /\ SameCounters
      BY <1>3, <2>1, <2>2 DEF SameFrames, SameNode, SameCounters
    <3>2. CanTypeOK'
      BY <1>1, <1>3, <2>1, <2>2 DEF CanTypeOK
    <3> QED
      BY <3>1, <3>2, SamePartsKept, PartsSuffice
  <2>3. CASE /\ sja' = [sja EXCEPT !.pending = FALSE, !.abandoned = (sja.abandoned + 1) % CounterRange]
             /\ trace' = [trace EXCEPT !.lost = trace.lost \cup {sja.tx}]
    <3>1. (sja.abandoned + 1) % CounterRange \in Int
      BY <1>2, CanAssumption
    <3>2. sja' \in SjaType
      BY <1>1, <2>3, <3>1, SjaUpdates
    <3>3. trace.lost \cup {sja.tx} \in SUBSET Int
      BY <1>2
    <3>4. trace' \in TraceType
      BY <1>1, <2>3, <3>3, TraceUpdates
    <3>5. sja'.tx = sja.tx /\ sja'.pending = FALSE
      BY <1>1, <2>3 DEF SjaType
    <3>6. /\ trace'.lost = trace.lost \cup {sja.tx} /\ trace'.cut = trace.cut
          /\ trace'.sent = trace.sent /\ trace'.out = trace.out
          /\ trace'.nodeOut = trace.nodeOut /\ trace'.nodeSent = trace.nodeSent
          /\ trace'.dropped = trace.dropped /\ trace'.reported = trace.reported
      BY <1>1, <2>3 DEF TraceType
    <3>7. GatewayPart'
      BY <2>1, <3>5, <3>6 DEF GatewayPart, CanInv
    <3>8. AccountPart'
      <4>1. sja.tx \in trace'.lost \cup trace'.cut
        BY <3>6
      <4>2. \A f \in 1..trace.sent : Accounted(f, gw.tx, sja.tx, trace.out, trace.lost \cup trace.cut)
        BY DEF CanInv, AllAccounted
      <4>3. \A f \in 1..trace.sent : Accounted(f, gw.tx, sja.tx, trace.out, trace'.lost \cup trace'.cut)
        BY <4>2, <3>6 DEF Accounted
      <4> QED
        BY <2>1, <3>5, <3>6, <4>1, <4>3 DEF AccountPart, AllAccounted
    <3>9. SameNode /\ SameCounters
      BY <1>3, <2>1, <3>6 DEF SameNode, SameCounters
    <3>10. CanTypeOK'
      BY <1>1, <1>3, <2>1, <3>2, <3>4 DEF CanTypeOK
    <3> QED
      BY <3>7, <3>8, <3>9, <3>10, SamePartsKept, PartsSuffice
  <2> QED
    BY <1>1, <1>4, <2>2, <2>3 DEF txBusy, SjaType, TraceType
<1>5. CASE /\ gw.budget > 0 /\ sja.tx = None /\ gw.tx # << >>
           /\ endPacket(Head(gw.tx))
           /\ gw' = [gw EXCEPT !.tx = Tail(@), !.budget = @ - 1]
           /\ UNCHANGED trace
  <2>1. Tail(gw.tx) \in Seq(Int) /\ Head(gw.tx) \in Int /\ gw.budget - 1 \in Int
    BY <1>2, <1>5, TailFacts
  <2>2. gw' = [gw EXCEPT !.tx = Tail(gw.tx), !.budget = gw.budget - 1]
    BY <1>1, <1>5 DEF GwType
  <2>3. gw' \in GwType
    BY <1>1, <2>1, <2>2, GwUpdates
  <2>4. gw'.tx = Tail(gw.tx) /\ gw'.rxFull = gw.rxFull /\ gw'.rxSeen = gw.rxSeen
    BY <1>1, <2>2 DEF GwType
  <2>5. sja' \in SjaType
    BY <1>1, <1>5, <2>1, SjaUpdates DEF endPacket
  <2>6. sja'.tx = Head(gw.tx) /\ sja'.pending = TRUE
    BY <1>1, <1>5 DEF endPacket, SjaType
  <2>7. GatewayPart'
    BY <1>2, <1>5, <2>4, <2>6, OrderWhenLoaded DEF GatewayPart, CanInv
  <2>8. AccountPart'
    <3>1. AllAccounted(gw.tx, None, sja.pending, trace.out, trace.lost \cup trace.cut, trace.sent)
      BY <1>5 DEF CanInv
    <3>2. AllAccounted(Tail(gw.tx), Head(gw.tx), TRUE, trace.out, trace.lost \cup trace.cut, trace.sent)
      BY <1>2, <1>5, <3>1, AccountWhenLoaded
    <3> QED
      BY <1>5, <2>4, <2>6, <3>2 DEF AccountPart
  <2>9. SameNode /\ SameCounters
    BY <1>3, <1>5, <2>4 DEF SameNode, SameCounters
  <2>10. CanTypeOK'
    BY <1>1, <1>3, <1>5, <2>3, <2>5 DEF CanTypeOK
  <2> QED
    BY <2>7, <2>8, <2>9, <2>10, SamePartsKept, PartsSuffice
<1>6. CASE /\ gw.budget = 0 \/ (sja.tx = None /\ gw.tx = << >>)
           /\ passEnds
           /\ sja' = IF gw.budget > 0 THEN [sja EXCEPT !.pending = FALSE] ELSE sja
           /\ UNCHANGED trace
  <2>1. gw' \in GwType /\ gw'.tx = gw.tx /\ gw'.rxFull = gw.rxFull /\ gw'.rxSeen = gw.rxSeen
    BY <1>1, <1>6, PassEndsFacts
  <2>2. sja' \in SjaType /\ sja'.tx = sja.tx /\ (sja.tx = None \/ sja'.pending = sja.pending)
    <3>1. CASE gw.budget > 0
      <4>1. sja' = [sja EXCEPT !.pending = FALSE] /\ sja.tx = None
        BY <1>2, <1>6, <3>1
      <4>2. sja' \in SjaType
        BY <1>1, <4>1, SjaUpdates
      <4> QED
        BY <1>1, <4>1, <4>2 DEF SjaType
    <3>2. CASE ~(gw.budget > 0)
      BY <1>1, <1>6, <3>2
    <3> QED
      BY <3>1, <3>2
  <2>3. GatewayPart'
    BY <1>6, <2>1, <2>2 DEF GatewayPart, CanInv
  <2>4. AccountPart'
    BY <1>6, <2>1, <2>2 DEF AccountPart, CanInv, AllAccounted
  <2>5. SameNode /\ SameCounters
    BY <1>3, <1>6, <2>1 DEF SameNode, SameCounters
  <2>6. CanTypeOK'
    BY <1>1, <1>3, <1>6, <2>1, <2>2 DEF CanTypeOK
  <2> QED
    BY <2>3, <2>4, <2>5, <2>6, SamePartsKept, PartsSuffice
<1> QED
  BY <1>4, <1>5, <1>6 DEF runTransmit

LEMMA InterruptKeeps ==
  ASSUME CanInv, handleInterrupt
  PROVE  CanInv'
<1>1. gw \in GwType /\ sja \in SjaType /\ mcp \in McpType /\ trace \in TraceType
  BY DEF CanInv, CanTypeOK
<1>2. sja.fifo \in Seq(Int) /\ sja.fifo # << >> /\ gw.rx \in Seq(Int) /\ trace.dropped \in Nat
  BY <1>1 DEF GwType, SjaType, TraceType, handleInterrupt
<1>3. Tail(sja.fifo) \in Seq(Int) /\ Head(sja.fifo) \in Int
  BY <1>2, TailFacts
<1>4. sja' = [sja EXCEPT !.fifo = Tail(sja.fifo)] /\ mcp' = mcp
  BY <1>1 DEF handleInterrupt, SjaType
<1>5. sja' \in SjaType
  BY <1>1, <1>3, <1>4, SjaUpdates
<1>6. sja'.tx = sja.tx /\ sja'.pending = sja.pending
  BY <1>1, <1>4 DEF SjaType
<1>7. CASE UNCHANGED <<gw, trace>>
  <2>1. SameFrames /\ SameNode /\ SameCounters
    BY <1>4, <1>6, <1>7 DEF SameFrames, SameNode, SameCounters
  <2>2. CanTypeOK'
    BY <1>1, <1>4, <1>5, <1>7 DEF CanTypeOK
  <2> QED
    BY <2>1, <2>2, SamePartsKept, PartsSuffice
<1>8. CASE gw' = [gw EXCEPT !.rx = Append(gw.rx, Head(sja.fifo))] /\ UNCHANGED trace
  <2>1. Append(gw.rx, Head(sja.fifo)) \in Seq(Int)
    BY <1>2, <1>3, AppendFacts
  <2>2. gw' \in GwType
    BY <1>1, <1>8, <2>1, GwUpdates
  <2>3. gw'.tx = gw.tx /\ gw'.rxFull = gw.rxFull /\ gw'.rxSeen = gw.rxSeen
    BY <1>1, <1>8 DEF GwType
  <2>4. SameFrames /\ SameNode /\ SameCounters
    BY <1>4, <1>6, <1>8, <2>3 DEF SameFrames, SameNode, SameCounters
  <2>5. CanTypeOK'
    BY <1>1, <1>4, <1>5, <1>8, <2>2 DEF CanTypeOK
  <2> QED
    BY <2>4, <2>5, SamePartsKept, PartsSuffice
<1>9. CASE /\ gw' = [gw EXCEPT !.rxFull = (gw.rxFull + 1) % CounterRange]
           /\ trace' = [trace EXCEPT !.dropped = trace.dropped + 1]
  <2>1. gw.rxFull = trace.dropped % CounterRange /\ gw.rxSeen = trace.reported % CounterRange
    BY DEF CanInv, Counted
  <2>2. CounterRange \in Nat \ {0}
    BY CanAssumption
  <2>3. (gw.rxFull + 1) % CounterRange = (trace.dropped + 1) % CounterRange
    BY <1>2, <2>1, <2>2, ModAdd
  <2>4. (gw.rxFull + 1) % CounterRange \in Int /\ trace.dropped + 1 \in Nat
    BY <1>2, <2>2, <2>3
  <2>5. gw' \in GwType
    BY <1>1, <1>9, <2>4, GwUpdates
  <2>6. trace' \in TraceType
    BY <1>1, <1>9, <2>4, TraceUpdates
  <2>7. gw'.tx = gw.tx /\ gw'.rxFull = (gw.rxFull + 1) % CounterRange /\ gw'.rxSeen = gw.rxSeen
    BY <1>1, <1>9 DEF GwType
  <2>8. /\ trace'.dropped = trace.dropped + 1 /\ trace'.reported = trace.reported
        /\ trace'.lost = trace.lost /\ trace'.cut = trace.cut
        /\ trace'.sent = trace.sent /\ trace'.out = trace.out
        /\ trace'.nodeOut = trace.nodeOut /\ trace'.nodeSent = trace.nodeSent
    BY <1>1, <1>9 DEF TraceType
  <2>9. CountPart'
    BY <2>1, <2>3, <2>7, <2>8 DEF CountPart, Counted
  <2>10. SameFrames /\ SameNode
    BY <1>4, <1>6, <2>7, <2>8 DEF SameFrames, SameNode
  <2>11. CanTypeOK'
    BY <1>1, <1>4, <1>5, <2>5, <2>6 DEF CanTypeOK
  <2> QED
    BY <2>9, <2>10, <2>11, SamePartsKept, PartsSuffice
<1> QED
  BY <1>1, <1>7, <1>8, <1>9 DEF handleInterrupt, GwType, TraceType

LEMMA NodeSendKeeps ==
  ASSUME CanInv, nodeSend
  PROVE  CanInv'
<1>1. gw \in GwType /\ sja \in SjaType /\ mcp \in McpType /\ trace \in TraceType
  BY DEF CanInv, CanTypeOK
<1>2. /\ mcp.tx \in [TxBuffers -> Int] /\ mcp.left \in 0..txBufferCount
      /\ trace.nodeOut \in Seq(Int) /\ trace.nodeSent \in Nat
  BY <1>1 DEF McpType, TraceType
<1> DEFINE left == IF mcp.left = 0 THEN txBufferCount ELSE mcp.left
<1>3. left \in 1..txBufferCount
  BY <1>2 DEF txBufferCount
<1>4. NodeOrder(mcp.tx, left, trace.nodeOut, trace.nodeSent)
  <2>1. NodeOrder(mcp.tx, mcp.left, trace.nodeOut, trace.nodeSent)
    BY DEF CanInv
  <2>2. CASE mcp.left = 0
    <3>1. \A k \in TxBuffers : mcp.tx[k] = None
      BY <1>2, <2>2 DEF nodeSend, pendingTx
    <3> QED
      BY <2>1, <3>1 DEF NodeOrder
  <2>3. CASE mcp.left # 0
    BY <2>1, <2>3
  <2> QED
    BY <2>2, <2>3
<1>5. /\ mcp' = [mcp EXCEPT !.tx = [mcp.tx EXCEPT ![left - 1] = trace.nodeSent + 1], !.left = left - 1]
      /\ trace' = [trace EXCEPT !.nodeSent = trace.nodeSent + 1,
                                !.left = [trace.left EXCEPT !.node = trace.left.node - 1]]
      /\ gw' = gw /\ sja' = sja
  BY <1>1 DEF nodeSend, takeTxBuffer, McpType, TraceType, LoadType
<1> HIDE DEF left
<1>6. left - 1 \in TxBuffers /\ left - 1 \in 0..txBufferCount
  BY <1>3 DEF TxBuffers, txBufferCount
<1>7. mcp' \in McpType
  <2>1. [mcp.tx EXCEPT ![left - 1] = trace.nodeSent + 1] \in [TxBuffers -> Int]
    BY <1>2, <1>6
  <2> QED
    BY <1>1, <1>5, <1>6, <2>1, McpUpdates
<1>8. trace' \in TraceType
  <2>1. trace.nodeSent + 1 \in Nat
    BY <1>2
  <2> QED
    BY <1>1, <1>5, <2>1, TraceUpdates, LoadUpdates
<1>9. mcp'.tx = [mcp.tx EXCEPT ![left - 1] = trace.nodeSent + 1] /\ mcp'.left = left - 1
  BY <1>1, <1>5 DEF McpType
<1>10. /\ trace'.nodeSent = trace.nodeSent + 1 /\ trace'.nodeOut = trace.nodeOut
       /\ trace'.sent = trace.sent /\ trace'.out = trace.out
       /\ trace'.lost = trace.lost /\ trace'.cut = trace.cut
       /\ trace'.dropped = trace.dropped /\ trace'.reported = trace.reported
  BY <1>1, <1>5 DEF TraceType
<1>11. NodePart'
  <2>1. NodeOrder([mcp.tx EXCEPT ![left - 1] = trace.nodeSent + 1], left - 1, trace.nodeOut, trace.nodeSent + 1)
    BY <1>2, <1>3, <1>4, NodeOrderWhenSent
  <2> QED
    BY <1>9, <1>10, <2>1 DEF NodePart
<1>12. SameFrames /\ SameCounters
  BY <1>5, <1>10 DEF SameFrames, SameCounters
<1>13. CanTypeOK'
  BY <1>1, <1>5, <1>7, <1>8 DEF CanTypeOK
<1> QED
  BY <1>11, <1>12, <1>13, SamePartsKept, PartsSuffice

LEMMA FlushKeeps ==
  ASSUME CanInv, flushTimesOut
  PROVE  CanInv'
<1>1. gw \in GwType /\ sja \in SjaType /\ mcp \in McpType /\ trace \in TraceType
  BY DEF CanInv, CanTypeOK
<1>2. [n \in TxBuffers |-> None] \in [TxBuffers -> Int]
  BY DEF None
<1>3. mcp' \in McpType
  BY <1>1, <1>2, McpUpdates DEF flushTimesOut
<1>4. mcp'.tx = [n \in TxBuffers |-> None] /\ mcp'.left = mcp.left
  BY <1>1 DEF McpType, flushTimesOut
<1>5. NodePart'
  BY <1>4 DEF NodePart, NodeOrder, CanInv, flushTimesOut
<1>6. SameFrames /\ SameCounters
  BY DEF SameFrames, SameCounters, flushTimesOut
<1>7. CanTypeOK'
  BY <1>1, <1>3 DEF CanTypeOK, flushTimesOut
<1> QED
  BY <1>5, <1>6, <1>7, SamePartsKept, PartsSuffice

LEMMA NodeReceivesKeeps ==
  ASSUME CanInv, nodeReceives
  PROVE  CanInv'
<1>1. gw \in GwType /\ sja \in SjaType /\ mcp \in McpType /\ trace \in TraceType
  BY DEF CanInv, CanTypeOK
<1>2. PICK n \in 0..1 : mcp' = [mcp EXCEPT !.rx[n] = None]
  BY DEF nodeReceives
<1>3. mcp' = [mcp EXCEPT !.rx = [mcp.rx EXCEPT ![n] = None]]
  BY <1>1, <1>2 DEF McpType
<1>4. [mcp.rx EXCEPT ![n] = None] \in [0..1 -> Int]
  BY <1>1 DEF McpType, None
<1>5. mcp' \in McpType
  BY <1>1, <1>3, <1>4, McpUpdates
<1>6. mcp'.tx = mcp.tx /\ mcp'.left = mcp.left
  BY <1>1, <1>3 DEF McpType
<1>7. SameFrames /\ SameNode /\ SameCounters
  BY <1>6 DEF SameFrames, SameNode, SameCounters, nodeReceives
<1>8. CanTypeOK'
  BY <1>1, <1>5 DEF CanTypeOK, nodeReceives
<1> QED
  BY <1>7, <1>8, SamePartsKept, PartsSuffice

LEMMA BusTakesGatewayKeeps ==
  ASSUME CanInv, busTakesGateway
  PROVE  CanInv'
<1>1. gw \in GwType /\ sja \in SjaType /\ mcp \in McpType /\ trace \in TraceType
  BY DEF CanInv, CanTypeOK
<1>2. /\ sja.tx \in Int /\ sja.tx # None /\ trace.out \in Seq(Int) /\ trace.sent \in Nat
      /\ gw.tx \in Seq(Int) /\ mcp.rx \in [0..1 -> Int]
  BY <1>1 DEF SjaType, TraceType, GwType, McpType, busTakesGateway
<1>3. /\ sja' = [sja EXCEPT !.tx = None]
      /\ mcp' = [mcp EXCEPT !.rx = rollOver(mcp.rx, sja.tx)]
      /\ trace' = [trace EXCEPT !.out = Append(trace.out, sja.tx)]
      /\ gw' = gw
  BY <1>1 DEF busTakesGateway, McpType, TraceType
<1>4. rollOver(mcp.rx, sja.tx) \in [0..1 -> Int] /\ Append(trace.out, sja.tx) \in Seq(Int)
  BY <1>2, AppendFacts DEF rollOver
<1>5. sja' \in SjaType /\ mcp' \in McpType /\ trace' \in TraceType
  BY <1>1, <1>3, <1>4, SjaUpdates, McpUpdates, TraceUpdates
<1>6. sja'.tx = None /\ sja'.pending = sja.pending /\ mcp'.tx = mcp.tx /\ mcp'.left = mcp.left
  BY <1>1, <1>3 DEF SjaType, McpType
<1>7. /\ trace'.out = Append(trace.out, sja.tx) /\ trace'.sent = trace.sent
      /\ trace'.lost = trace.lost /\ trace'.cut = trace.cut
      /\ trace'.nodeOut = trace.nodeOut /\ trace'.nodeSent = trace.nodeSent
      /\ trace'.dropped = trace.dropped /\ trace'.reported = trace.reported
  BY <1>1, <1>3 DEF TraceType
<1>8. GatewayPart'
  BY <1>2, <1>3, <1>6, <1>7, OrderWhenOut DEF GatewayPart, CanInv
<1>9. AccountPart'
  BY <1>2, <1>3, <1>6, <1>7, AccountWhenOut DEF AccountPart, CanInv
<1>10. SameNode /\ SameCounters
  BY <1>3, <1>6, <1>7 DEF SameNode, SameCounters
<1>11. CanTypeOK'
  BY <1>1, <1>3, <1>5 DEF CanTypeOK
<1> QED
  BY <1>8, <1>9, <1>10, <1>11, SamePartsKept, PartsSuffice

\* A frame for the gateway reaches its controller or nothing.
LEMMA ReceivedFacts ==
  ASSUME sja \in SjaType, NEW f \in Int, received(f)
  PROVE  sja' \in SjaType /\ sja'.tx = sja.tx /\ sja'.pending = sja.pending
<1>1. CASE sja' = sja
  BY <1>1
<1>2. CASE sja' = [sja EXCEPT !.fifo = Append(sja.fifo, f)]
  <2>1. Append(sja.fifo, f) \in Seq(Int)
    BY AppendFacts DEF SjaType
  <2>2. sja' \in SjaType
    BY <1>2, <2>1, SjaUpdates
  <2> QED
    BY <1>2, <2>2 DEF SjaType
<1> QED
  BY <1>1, <1>2 DEF received, SjaType

LEMMA BusTakesNodeKeeps ==
  ASSUME CanInv, busTakesNode
  PROVE  CanInv'
<1>1. gw \in GwType /\ sja \in SjaType /\ mcp \in McpType /\ trace \in TraceType
  BY DEF CanInv, CanTypeOK
<1>2. PICK h \in pendingTx :
        /\ \A m \in pendingTx : m <= h
        /\ mcp' = [mcp EXCEPT !.tx[h] = None]
        /\ received(mcp.tx[h])
        /\ trace' = [trace EXCEPT !.nodeOut = Append(@, mcp.tx[h])]
        /\ UNCHANGED gw
  BY DEF busTakesNode
<1>3. /\ mcp.tx \in [TxBuffers -> Int] /\ mcp.left \in 0..txBufferCount
      /\ trace.nodeOut \in Seq(Int) /\ trace.nodeSent \in Nat
  BY <1>1 DEF McpType, TraceType
<1>4. h \in TxBuffers /\ mcp.tx[h] # None /\ mcp.tx[h] \in Int /\ \A m \in TxBuffers : mcp.tx[m] # None => m <= h
  BY <1>2, <1>3 DEF pendingTx
<1>5. /\ mcp' = [mcp EXCEPT !.tx = [mcp.tx EXCEPT ![h] = None]]
      /\ trace' = [trace EXCEPT !.nodeOut = Append(trace.nodeOut, mcp.tx[h])]
  BY <1>1, <1>2 DEF McpType, TraceType
<1>6. [mcp.tx EXCEPT ![h] = None] \in [TxBuffers -> Int] /\ Append(trace.nodeOut, mcp.tx[h]) \in Seq(Int)
  BY <1>3, <1>4, AppendFacts DEF None
<1>7. mcp' \in McpType /\ trace' \in TraceType
  BY <1>1, <1>5, <1>6, McpUpdates, TraceUpdates
<1>8. sja' \in SjaType /\ sja'.tx = sja.tx /\ sja'.pending = sja.pending
  BY <1>1, <1>2, <1>4, ReceivedFacts
<1>9. mcp'.tx = [mcp.tx EXCEPT ![h] = None] /\ mcp'.left = mcp.left
  BY <1>1, <1>5 DEF McpType
<1>10. /\ trace'.nodeOut = Append(trace.nodeOut, mcp.tx[h]) /\ trace'.nodeSent = trace.nodeSent
       /\ trace'.out = trace.out /\ trace'.sent = trace.sent
       /\ trace'.lost = trace.lost /\ trace'.cut = trace.cut
       /\ trace'.dropped = trace.dropped /\ trace'.reported = trace.reported
  BY <1>1, <1>5 DEF TraceType
<1>11. NodePart'
  <2>1. NodeOrder(mcp.tx, mcp.left, trace.nodeOut, trace.nodeSent)
    BY DEF CanInv
  <2>2. NodeOrder([mcp.tx EXCEPT ![h] = None], mcp.left, Append(trace.nodeOut, mcp.tx[h]), trace.nodeSent)
    BY <1>3, <1>4, <2>1, NodeOrderWhenOut
  <2> QED
    BY <1>9, <1>10, <2>2 DEF NodePart
<1>12. SameFrames /\ SameCounters
  BY <1>2, <1>8, <1>10 DEF SameFrames, SameCounters
<1>13. CanTypeOK'
  BY <1>1, <1>2, <1>7, <1>8 DEF CanTypeOK
<1> QED
  BY <1>11, <1>12, <1>13, SamePartsKept, PartsSuffice

LEMMA ForeignKeeps ==
  ASSUME CanInv, foreignFrame
  PROVE  CanInv'
<1>1. gw \in GwType /\ sja \in SjaType /\ mcp \in McpType /\ trace \in TraceType
  BY DEF CanInv, CanTypeOK
<1>2. sja' \in SjaType /\ sja'.tx = sja.tx /\ sja'.pending = sja.pending
  BY <1>1, ReceivedFacts DEF foreignFrame, NoPayload
<1>3. trace' = [trace EXCEPT !.left = [trace.left EXCEPT !.foreign = trace.left.foreign - 1]]
  BY <1>1 DEF foreignFrame, TraceType, LoadType
<1>4. trace' \in TraceType
  BY <1>1, <1>3, TraceUpdates, LoadUpdates
<1>5. /\ trace'.nodeOut = trace.nodeOut /\ trace'.nodeSent = trace.nodeSent
      /\ trace'.out = trace.out /\ trace'.sent = trace.sent
      /\ trace'.lost = trace.lost /\ trace'.cut = trace.cut
      /\ trace'.dropped = trace.dropped /\ trace'.reported = trace.reported
  BY <1>1, <1>3 DEF TraceType
<1>6. SameFrames /\ SameNode /\ SameCounters
  BY <1>2, <1>5 DEF SameFrames, SameNode, SameCounters, foreignFrame
<1>7. CanTypeOK'
  BY <1>1, <1>2, <1>4 DEF CanTypeOK, foreignFrame
<1> QED
  BY <1>6, <1>7, SamePartsKept, PartsSuffice

LEMMA BusOffKeeps ==
  ASSUME CanInv, goesBusOff
  PROVE  CanInv'
<1>1. gw \in GwType /\ sja \in SjaType /\ mcp \in McpType /\ trace \in TraceType
  BY DEF CanInv, CanTypeOK
<1> DEFINE cut == IF sja.tx = None THEN trace.cut ELSE trace.cut \cup {sja.tx}
<1>2. /\ sja' = [sja EXCEPT !.bus = "off", !.tx = None]
      /\ trace' = [trace EXCEPT !.left = [trace.left EXCEPT !.busOffs = trace.left.busOffs - 1], !.cut = cut]
      /\ gw' = gw /\ mcp' = mcp
  BY <1>1 DEF goesBusOff, TraceType, LoadType
<1>3. /\ cut \in SUBSET Int /\ trace.cut \subseteq cut
      /\ sja.tx = None \/ sja.tx \in cut
  BY <1>1 DEF TraceType, SjaType
<1> HIDE DEF cut
<1>4. sja' \in SjaType /\ trace' \in TraceType
  BY <1>1, <1>2, <1>3, SjaUpdates, TraceUpdates, LoadUpdates
<1>5. sja'.tx = None /\ sja'.pending = sja.pending
  BY <1>1, <1>2 DEF SjaType
<1>6. /\ trace'.cut = cut /\ trace'.lost = trace.lost
      /\ trace'.out = trace.out /\ trace'.sent = trace.sent /\ trace.sent \in Nat
      /\ trace'.nodeOut = trace.nodeOut /\ trace'.nodeSent = trace.nodeSent
      /\ trace'.dropped = trace.dropped /\ trace'.reported = trace.reported
  BY <1>1, <1>2 DEF TraceType
<1>7. GatewayPart'
  BY <1>2, <1>5, <1>6, OrderWhenDropped DEF GatewayPart, CanInv
<1>8. AccountPart'
  <2>1. trace.lost \cup trace.cut \subseteq trace.lost \cup cut
    BY <1>3
  <2>2. sja.tx \in trace.lost \cup cut \/ sja.tx = None
    BY <1>3
  <2>3. AllAccounted(gw.tx, sja.tx, sja.pending, trace.out, trace.lost \cup trace.cut, trace.sent)
    BY DEF CanInv
  <2>4. AllAccounted(gw.tx, None, sja.pending, trace.out, trace.lost \cup cut, trace.sent)
    BY <1>6, <2>1, <2>2, <2>3, AccountWhenDropped
  <2> QED
    BY <1>2, <1>5, <1>6, <2>4 DEF AccountPart
<1>9. SameNode /\ SameCounters
  BY <1>2, <1>6 DEF SameNode, SameCounters
<1>10. CanTypeOK'
  BY <1>1, <1>2, <1>4 DEF CanTypeOK
<1> QED
  BY <1>7, <1>8, <1>9, <1>10, SamePartsKept, PartsSuffice

LEMMA HardwareKeeps ==
  ASSUME CanInv, Hardware
  PROVE  CanInv'
<1>1. gw \in GwType /\ sja \in SjaType /\ mcp \in McpType /\ trace \in TraceType
  BY DEF CanInv, CanTypeOK
<1>2. gw' = gw /\ mcp' = mcp /\ trace' = trace
  BY DEF Hardware, abortTakes, recoveryEnds, canTick
<1>3. SameNode /\ SameCounters
  BY <1>2 DEF SameNode, SameCounters
<1>4. CASE abortTakes
  <2>1. sja' \in SjaType
    BY <1>1, <1>4, SjaUpdates DEF abortTakes
  <2>2. sja'.tx = None /\ sja'.pending = sja.pending
    BY <1>1, <1>4 DEF abortTakes, SjaType
  <2>3. GatewayPart'
    BY <1>2, <2>2, OrderWhenDropped DEF GatewayPart, CanInv
  <2>4. AllAccounted(gw.tx, sja.tx, sja.pending, trace.out, trace.lost \cup trace.cut, trace.sent)
    BY DEF CanInv
  <2>5. sja.tx \in trace.lost \cup trace.cut
    BY <1>4, <2>4 DEF abortTakes, AllAccounted
  <2>6. trace.sent \in Nat
    BY <1>1 DEF TraceType
  <2>7. AllAccounted(gw.tx, None, sja.pending, trace.out, trace.lost \cup trace.cut, trace.sent)
    BY <2>4, <2>5, <2>6, AccountWhenDropped
  <2>8. AccountPart'
    BY <1>2, <2>2, <2>7 DEF AccountPart
  <2>9. CanTypeOK'
    BY <1>1, <1>2, <2>1 DEF CanTypeOK
  <2> QED
    BY <1>3, <2>3, <2>8, <2>9, SamePartsKept, PartsSuffice
<1>5. CASE recoveryEnds \/ canTick
  <2>1. sja.age + 1 \in Int
    BY <1>1 DEF SjaType
  <2>2. sja' = [sja EXCEPT !.bus = "on"] \/ sja' = [sja EXCEPT !.age = sja.age + 1]
    BY <1>1, <1>5 DEF recoveryEnds, canTick, SjaType
  <2>3. sja' \in SjaType
    BY <1>1, <2>1, <2>2, SjaUpdates
  <2>4. sja'.tx = sja.tx /\ sja'.pending = sja.pending
    BY <1>1, <2>2 DEF SjaType
  <2>5. SameFrames
    BY <1>2, <2>4 DEF SameFrames
  <2>6. CanTypeOK'
    BY <1>1, <1>2, <2>3 DEF CanTypeOK
  <2> QED
    BY <1>3, <2>5, <2>6, SamePartsKept, PartsSuffice
<1> QED
  BY <1>4, <1>5 DEF Hardware

LEMMA CanStutter ==
  ASSUME CanInv, UNCHANGED canVars
  PROVE  CanInv'
BY DEF CanInv, CanTypeOK, canVars

\* The invariant of the bus holds in every behaviour, for every size of the
\* queues, range of the counters and load.
THEOREM CanInvHolds == CanSpec => []CanInv
<1>1. CanInit => CanInv
  BY CanInitially
<1>2. CanInv /\ [CanNext]_canVars => CanInv'
  <2> SUFFICES ASSUME CanInv, [CanNext]_canVars PROVE CanInv'
    OBVIOUS
  <2>1. CASE canSend
    BY <2>1, CanSendKeeps
  <2>2. CASE gatewayRun
    BY <2>2, RunStartKeeps, RunReceiveKeeps, RunTransmitKeeps DEF gatewayRun
  <2>3. CASE handleInterrupt
    BY <2>3, InterruptKeeps
  <2>4. CASE nodeSend \/ flushTimesOut \/ nodeReceives
    BY <2>4, NodeSendKeeps, FlushKeeps, NodeReceivesKeeps
  <2>5. CASE busTakesGateway \/ busTakesNode
    BY <2>5, BusTakesGatewayKeeps, BusTakesNodeKeeps
  <2>6. CASE foreignFrame \/ goesBusOff \/ Hardware
    BY <2>6, ForeignKeeps, BusOffKeeps, HardwareKeeps
  <2>7. CASE UNCHANGED canVars
    BY <2>7, CanStutter
  <2> QED
    BY <2>1, <2>2, <2>3, <2>4, <2>5, <2>6, <2>7 DEF CanNext
<1> QED
  BY <1>1, <1>2, PTL DEF CanSpec

\* Frames reach the bus in the order they were handed over, on either side, for
\* every size of the queue (runTransmit; endPacket of either controller).
THEOREM SentAlwaysInOrder == CanSpec => []SentInOrder
<1>1. ASSUME NEW out \in Seq(Int), NEW n \in Nat, QueueOrder(out, n)
      PROVE  Increasing(out)
  <2> SUFFICES ASSUME NEW i \in 1..(Len(out) - 1) PROVE out[i] < out[i + 1]
    BY DEF Increasing
  <2>1. Len(out) \in Nat
    OBVIOUS
  <2>2. i \in 1..Len(out) /\ i + 1 \in 1..Len(out) /\ i < i + 1
    BY <2>1
  <2> QED
    BY <1>1, <2>2 DEF QueueOrder
<1>2. CanInv => SentInOrder
  <2> SUFFICES ASSUME CanInv PROVE SentInOrder
    OBVIOUS
  <2>1. /\ trace.out \in Seq(Int) /\ trace.sent \in Nat
        /\ trace.nodeOut \in Seq(Int) /\ trace.nodeSent \in Nat
    BY DEF CanInv, CanTypeOK, TraceType
  <2>2. QueueOrder(trace.out, trace.sent) /\ QueueOrder(trace.nodeOut, trace.nodeSent)
    BY DEF CanInv, GatewayOrder, NodeOrder
  <2> QED
    BY <1>1, <2>1, <2>2 DEF SentInOrder
<1> QED
  BY <1>2, CanInvHolds, PTL

\* No frame is lost without a trace, and the drops the task reports are the
\* drops the interrupt counted, for every range of the counter
\* (handleInterrupt, reportDroppedFrames, txReady, recoverFromBusOff).
THEOREM NeverLostSilently == CanSpec => []NoSilentLoss
<1>1. CanInv => NoSilentLoss
  <2> SUFFICES ASSUME CanInv PROVE NoSilentLoss
    OBVIOUS
  <2>1. /\ trace.dropped \in Int /\ trace.reported \in Int
        /\ gw.tx \in Seq(Int) /\ trace.out \in Seq(Int)
    BY DEF CanInv, CanTypeOK, TraceType, GwType
  <2>2. gw.rxFull = trace.dropped % CounterRange /\ gw.rxSeen = trace.reported % CounterRange
    BY DEF CanInv, Counted
  <2>3. (trace.reported + takeGrowth(gw.rxFull, gw.rxSeen)) % CounterRange = trace.dropped % CounterRange
    <3>1. CounterRange \in Nat \ {0}
      BY CanAssumption
    <3> QED
      BY <2>1, <2>2, <3>1, GrowthIsExact DEF takeGrowth
  <2>4. DOMAIN gw.tx = 1..Len(gw.tx) /\ DOMAIN trace.out = 1..Len(trace.out)
    BY <2>1
  <2>5. ASSUME NEW f \in 1..trace.sent
        PROVE  \/ \E i \in DOMAIN gw.tx : gw.tx[i] = f
               \/ sja.tx = f
               \/ \E i \in DOMAIN trace.out : trace.out[i] = f
               \/ f \in trace.lost \cup trace.cut
    BY <2>4 DEF CanInv, AllAccounted, Accounted
  <2> QED
    BY <2>3, <2>5 DEF NoSilentLoss
<1> QED
  BY <1>1, CanInvHolds, PTL

-----------------------------------------------------------------------------
(* The sensor of the alert node.  What the node last judged is within the  *)
(* tolerances of what it believes the bus knows; that belief is wrong only *)
(* when the last frame was refused.  How old the belief may get is bounded *)
(* from the side of the cycle: the timer of the forced send is looked at   *)
(* once a cycle, and a cycle begins with the first pass after its period.  *)

Events == {"OFF", "IDLE", "READ_TEMPERATURE", "READ_HUMIDITY", "CHECK_SEND", "SEND_VALUES", "SENSOR_ERROR"}

Readings == [temperature : Int, humidity : Int, light : Int]

SensorType == [event : Events, values : Readings, lastSent : Readings, eventAge : Nat, sendAge : Nat]

AmbientTypeOK ==
  /\ sensor \in SensorType
  /\ judged \subseteq Readings
  /\ known \in Readings
  /\ ambient \in [taken : BOOLEAN, served : BOOLEAN, resets : Nat]

\* Who was told what.
BeliefOk ==
  /\ ambient.taken => known = sensor.lastSent \/ sensor.lastSent = Sentinel
  /\ sensor.event \in {"READ_HUMIDITY", "CHECK_SEND", "SEND_VALUES"} => sensor.values.temperature \in Temperatures
  /\ \A v \in judged : v.temperature \in Temperatures
  /\ sensor.event # "SEND_VALUES" => \A v \in judged : ~changed(v, sensor.lastSent)
  /\ sensor.event = "OFF" => judged = {}

\* How long ago.
AgesOk ==
  sensor.event = "IDLE" /\ judged # {} =>
    /\ ambient.served /\ sensor.eventAge > measurePeriod => sensor.sendAge <= kSendMaxPeriod
    /\ sensor.eventAge <= measurePeriod => sensor.sendAge <= kSendMaxPeriod + sensor.eventAge
    /\ sensor.sendAge <= RetryWithin

AmbientInv == AmbientTypeOK /\ BeliefOk /\ AgesOk

LEMMA AmbientConstants ==
  /\ Temperatures \subseteq Int /\ Humidities \subseteq Int /\ Lights \subseteq Int
  /\ kTempTolerance \in Nat /\ kHumTolerance \in Nat /\ kLightTolerance \in Nat
  /\ measurePeriod \in Nat /\ kSendMaxPeriod \in Nat /\ RetryWithin = kSendMaxPeriod + measurePeriod + 1
  /\ Sentinel \in Readings
BY AmbientAssumption DEF RetryWithin, Sentinel, Values, Readings

LEMMA SameNotChanged ==
  ASSUME NEW v \in Readings
  PROVE  ~changed(v, v)
BY AmbientConstants DEF changed, Apart, Readings

LEMMA SentinelIsChanged ==
  ASSUME NEW v \in Readings, v.temperature \in Temperatures
  PROVE  changed(v, Sentinel)
BY SentinelAssumption DEF changed

\* A pass samples the light and leaves the rest.
LEMMA SampledFacts ==
  ASSUME NEW v \in Readings, NEW w \in sampled(v)
  PROVE  w \in Readings /\ w.temperature = v.temperature /\ w.humidity = v.humidity
<1>1. PICK r \in Lights : \E l \in complementaryFilter10(r, v.light) : w = [v EXCEPT !.light = l]
  BY DEF sampled
<1>2. PICK l \in complementaryFilter10(r, v.light) : w = [v EXCEPT !.light = l]
  BY <1>1
<1>3. l \in Int
  BY AmbientConstants DEF complementaryFilter10, Readings
<1> QED
  BY <1>2, <1>3 DEF Readings

LEMMA AmbientInitially == AmbientInit => AmbientInv
<1> SUFFICES ASSUME AmbientInit PROVE AmbientInv
  OBVIOUS
<1>1. Values(0, 0, 0) \in Readings
  BY DEF Values, Readings
<1>2. AmbientTypeOK
  BY <1>1, AmbientConstants DEF AmbientInit, PowerUp, AmbientTypeOK, SensorType, Events
<1>3. sensor.event = "OFF" /\ judged = {} /\ ambient.taken = FALSE
  BY DEF AmbientInit, PowerUp
<1> QED
  BY <1>2, <1>3 DEF AmbientInv, BeliefOk, AgesOk

LEMMA AmbientStartsKeeps ==
  ASSUME AmbientInv, ambientStarts
  PROVE  AmbientInv'
<1>1. sensor \in SensorType
  BY DEF AmbientInv, AmbientTypeOK
<1>2. sensor' \in SensorType /\ sensor'.event = "IDLE" /\ sensor'.lastSent = sensor.lastSent
  BY <1>1 DEF ambientStarts, SensorType, Events
<1>3. judged = {}
  BY DEF AmbientInv, BeliefOk, ambientStarts
<1>4. AmbientTypeOK'
  BY <1>2 DEF AmbientInv, AmbientTypeOK, ambientStarts
<1>5. BeliefOk'
  BY <1>2, <1>3 DEF AmbientInv, BeliefOk, ambientStarts
<1>6. AgesOk'
  BY <1>3 DEF AgesOk, ambientStarts
<1> QED
  BY <1>4, <1>5, <1>6 DEF AmbientInv

LEMMA AmbientResetsKeeps ==
  ASSUME AmbientInv, ambientResets
  PROVE  AmbientInv'
<1>1. ambient \in [taken : BOOLEAN, served : BOOLEAN, resets : Nat]
  BY DEF AmbientInv, AmbientTypeOK
<1>2. Values(0, 0, 0) \in Readings
  BY DEF Values, Readings
<1>3. sensor' \in SensorType /\ sensor'.event = "OFF" /\ sensor'.lastSent = Sentinel
  BY <1>2, AmbientConstants DEF ambientResets, PowerUp, SensorType, Events
<1>4. ambient' \in [taken : BOOLEAN, served : BOOLEAN, resets : Nat]
  BY <1>1 DEF ambientResets
<1>5. AmbientTypeOK'
  BY <1>3, <1>4 DEF AmbientInv, AmbientTypeOK, ambientResets
<1>6. BeliefOk'
  BY <1>3 DEF BeliefOk, ambientResets
<1>7. AgesOk'
  BY <1>3 DEF AgesOk
<1> QED
  BY <1>5, <1>6, <1>7 DEF AmbientInv

LEMMA AmbientTickKeeps ==
  ASSUME AmbientInv, ambientTick
  PROVE  AmbientInv'
<1>1. sensor \in SensorType /\ ambient \in [taken : BOOLEAN, served : BOOLEAN, resets : Nat]
  BY DEF AmbientInv, AmbientTypeOK
<1> DEFINE e == IF sensor.eventAge <= kSendMaxPeriod + measurePeriod THEN sensor.eventAge + 1 ELSE sensor.eventAge
           a == IF sensor.sendAge <= RetryWithin THEN sensor.sendAge + 1 ELSE sensor.sendAge
<1>2. sensor' = [sensor EXCEPT !.eventAge = e, !.sendAge = a]
  BY <1>1 DEF ambientTick, SensorType
<1>3. sensor.eventAge \in Nat /\ sensor.sendAge \in Nat
  BY <1>1 DEF SensorType
<1>4. /\ e \in Nat /\ a \in Nat /\ a <= sensor.sendAge + 1
      /\ sensor.eventAge <= measurePeriod => e = sensor.eventAge + 1
      /\ sensor.eventAge > measurePeriod => e > measurePeriod
  BY <1>3, AmbientConstants
<1> HIDE DEF e, a
<1>5. /\ sensor' \in SensorType /\ sensor'.event = sensor.event /\ sensor'.lastSent = sensor.lastSent
      /\ sensor'.values = sensor.values /\ sensor'.eventAge = e /\ sensor'.sendAge = a
  BY <1>1, <1>2, <1>4 DEF SensorType
<1>6. ambient' \in [taken : BOOLEAN, served : BOOLEAN, resets : Nat] /\ ambient'.taken = ambient.taken
  BY <1>1 DEF ambientTick
<1>7. ambient'.served = FALSE /\ ambient.served
  BY <1>1 DEF ambientTick
<1>8. AmbientTypeOK'
  BY <1>5, <1>6 DEF AmbientInv, AmbientTypeOK, ambientTick
<1>9. BeliefOk'
  BY <1>5, <1>6 DEF AmbientInv, BeliefOk, ambientTick
<1>10. AgesOk'
  <2> SUFFICES ASSUME sensor.event = "IDLE", judged # {}
               PROVE  /\ e <= measurePeriod => a <= kSendMaxPeriod + e
                      /\ a <= RetryWithin
    BY <1>5, <1>7 DEF AgesOk, ambientTick, RetryWithin
  <2>1. /\ sensor.eventAge > measurePeriod => sensor.sendAge <= kSendMaxPeriod
        /\ sensor.eventAge <= measurePeriod => sensor.sendAge <= kSendMaxPeriod + sensor.eventAge
    BY <1>7 DEF AmbientInv, AgesOk
  <2>2. CASE sensor.eventAge > measurePeriod
    BY <1>3, <1>4, <2>1, <2>2, AmbientConstants
  <2>3. CASE sensor.eventAge <= measurePeriod
    BY <1>3, <1>4, <2>1, <2>3, AmbientConstants
  <2> QED
    BY <1>3, <2>2, <2>3, AmbientConstants
<1> QED
  BY <1>8, <1>9, <1>10 DEF AmbientInv

\* What a pass does to the sensor's record keeps its type.
LEMMA SensorUpdates ==
  ASSUME NEW s \in SensorType
  PROVE  /\ \A v \in Readings, n \in Nat, e \in Events :
              [s EXCEPT !.values = v, !.eventAge = n, !.event = e] \in SensorType
         /\ \A v \in Readings, e \in Events : [s EXCEPT !.values = v, !.event = e] \in SensorType
         /\ \A v, w \in Readings, n \in Nat, e \in Events :
              [s EXCEPT !.values = v, !.lastSent = w, !.sendAge = n, !.event = e] \in SensorType
BY DEF SensorType

\* A step of the cycle before it judges: the belief stands, and the node is
\* not idle, or was idle before and has not waited long enough.
LEMMA CycleStepKeeps ==
  ASSUME AmbientInv, sensor' \in SensorType, sensor.event # "SEND_VALUES", sensor.event # "OFF",
         sensor'.event \notin {"SEND_VALUES", "OFF"},
         sensor'.lastSent = sensor.lastSent, sensor'.sendAge = sensor.sendAge, UNCHANGED <<judged, known>>,
         ambient' = [ambient EXCEPT !.served = TRUE],
         sensor'.event \in {"READ_HUMIDITY", "CHECK_SEND"} => sensor'.values.temperature \in Temperatures,
         sensor'.event = "IDLE" =>
           sensor.event = "IDLE" /\ sensor.eventAge <= measurePeriod /\ sensor'.eventAge = sensor.eventAge
  PROVE  AmbientInv'
<1>1. ambient \in [taken : BOOLEAN, served : BOOLEAN, resets : Nat]
  BY DEF AmbientInv, AmbientTypeOK
<1>2. ambient' \in [taken : BOOLEAN, served : BOOLEAN, resets : Nat] /\ ambient'.taken = ambient.taken
  BY <1>1
<1>3. AmbientTypeOK'
  BY <1>2 DEF AmbientInv, AmbientTypeOK
<1>4. BeliefOk'
  BY <1>2 DEF AmbientInv, BeliefOk
<1>5. AgesOk'
  <2> SUFFICES ASSUME sensor'.event = "IDLE", judged # {}
               PROVE  /\ sensor'.eventAge <= measurePeriod
                      /\ sensor'.sendAge <= kSendMaxPeriod + sensor'.eventAge
                      /\ sensor'.sendAge <= RetryWithin
    <3>1. sensor'.eventAge \in Nat /\ measurePeriod \in Nat
      BY AmbientConstants DEF SensorType
    <3> QED
      BY <3>1 DEF AgesOk, RetryWithin
  <2> QED
    BY DEF AmbientInv, AgesOk
<1> QED
  BY <1>3, <1>4, <1>5 DEF AmbientInv

LEMMA AmbientRunKeeps ==
  ASSUME AmbientInv, ambientRun
  PROVE  AmbientInv'
<1>1. /\ sensor \in SensorType /\ judged \subseteq Readings /\ known \in Readings
      /\ ambient \in [taken : BOOLEAN, served : BOOLEAN, resets : Nat]
  BY DEF AmbientInv, AmbientTypeOK
<1>2. sensor.values \in Readings /\ sensor.lastSent \in Readings /\ sensor.eventAge \in Nat /\ sensor.sendAge \in Nat
  BY <1>1 DEF SensorType
<1>3. PICK v \in sampled(sensor.values) :
        \/ /\ waitForPeriod(v) \/ readTemperature(v) \/ readHumidity(v) \/ checkSend(v) \/ sensorError(v)
           /\ ambient' = [ambient EXCEPT !.served = TRUE]
        \/ \E taken \in BOOLEAN :
             /\ sendValues(v, taken)
             /\ ambient' = [ambient EXCEPT !.served = TRUE, !.taken = taken]
  BY DEF ambientRun
<1>4. v \in Readings /\ v.temperature = sensor.values.temperature
  BY <1>2, SampledFacts
<1>5. CASE waitForPeriod(v) /\ ambient' = [ambient EXCEPT !.served = TRUE]
  <2> DEFINE n == IF measureDue THEN 0 ELSE sensor.eventAge
             e == IF measureDue THEN "READ_TEMPERATURE" ELSE "IDLE"
  <2>1. sensor' = [sensor EXCEPT !.values = v, !.eventAge = n, !.event = e]
    BY <1>1, <1>5 DEF waitForPeriod, SensorType
  <2>2. n \in Nat /\ e \in Events /\ e \in {"READ_TEMPERATURE", "IDLE"}
    BY <1>2 DEF Events
  <2>3. e = "IDLE" => sensor.eventAge <= measurePeriod /\ n = sensor.eventAge
    BY <1>2, AmbientConstants DEF measureDue
  <2> HIDE DEF n, e
  <2>4. sensor' \in SensorType
    BY <1>1, <1>4, <2>1, <2>2, SensorUpdates
  <2>5. sensor'.event = e /\ sensor'.eventAge = n /\ sensor'.lastSent = sensor.lastSent /\ sensor'.sendAge = sensor.sendAge
    BY <1>1, <2>1 DEF SensorType
  <2>6. sensor.event = "IDLE" /\ UNCHANGED <<judged, known>>
    BY <1>5 DEF waitForPeriod
  <2> QED
    BY <1>5, <2>2, <2>3, <2>4, <2>5, <2>6, CycleStepKeeps
<1>6. CASE readTemperature(v) /\ ambient' = [ambient EXCEPT !.served = TRUE]
  <2>1. PICK r \in getCelsiusHundredths(v.temperature) :
          sensor' = [sensor EXCEPT !.values = [v EXCEPT !.temperature = r.value],
                                   !.event = IF r.ok THEN "READ_HUMIDITY" ELSE "SENSOR_ERROR"]
    BY <1>6 DEF readTemperature
  <2>2. r.ok \in BOOLEAN /\ r.value \in Int /\ (r.ok => r.value \in Temperatures)
    BY <1>4, AmbientConstants DEF getCelsiusHundredths, ReadResults, RegisterAccess, Readings
  <2> DEFINE w == [v EXCEPT !.temperature = r.value]
             e == IF r.ok THEN "READ_HUMIDITY" ELSE "SENSOR_ERROR"
  <2>3. w \in Readings /\ w.temperature = r.value
    BY <1>4, <2>2 DEF Readings
  <2>4. e \in Events /\ e \in {"READ_HUMIDITY", "SENSOR_ERROR"} /\ (e = "READ_HUMIDITY" => r.ok)
    BY DEF Events
  <2>5. sensor' = [sensor EXCEPT !.values = w, !.event = e]
    BY <2>1
  <2> HIDE DEF w, e
  <2>6. sensor' \in SensorType
    BY <1>1, <2>3, <2>4, <2>5, SensorUpdates
  <2>7. sensor'.event = e /\ sensor'.values = w /\ sensor'.lastSent = sensor.lastSent /\ sensor'.sendAge = sensor.sendAge
    BY <1>1, <2>5 DEF SensorType
  <2>8. sensor.event = "READ_TEMPERATURE" /\ UNCHANGED <<judged, known>>
    BY <1>6 DEF readTemperature
  <2> QED
    BY <1>6, <2>2, <2>3, <2>4, <2>6, <2>7, <2>8, CycleStepKeeps
<1>7. CASE readHumidity(v) /\ ambient' = [ambient EXCEPT !.served = TRUE]
  <2>1. PICK r \in getHumidityPercent(v.humidity) :
          sensor' = [sensor EXCEPT !.values = [v EXCEPT !.humidity = r.value],
                                   !.event = IF r.ok THEN "CHECK_SEND" ELSE "SENSOR_ERROR"]
    BY <1>7 DEF readHumidity
  <2>2. r.ok \in BOOLEAN /\ r.value \in Int
    BY <1>4, AmbientConstants DEF getHumidityPercent, ReadResults, RegisterAccess, Readings
  <2> DEFINE w == [v EXCEPT !.humidity = r.value]
             e == IF r.ok THEN "CHECK_SEND" ELSE "SENSOR_ERROR"
  <2>3. w \in Readings /\ w.temperature = v.temperature
    BY <1>4, <2>2 DEF Readings
  <2>4. e \in Events /\ e \in {"CHECK_SEND", "SENSOR_ERROR"}
    BY DEF Events
  <2>5. sensor' = [sensor EXCEPT !.values = w, !.event = e]
    BY <2>1
  <2> HIDE DEF w, e
  <2>6. sensor' \in SensorType
    BY <1>1, <2>3, <2>4, <2>5, SensorUpdates
  <2>7. sensor'.event = e /\ sensor'.values = w /\ sensor'.lastSent = sensor.lastSent /\ sensor'.sendAge = sensor.sendAge
    BY <1>1, <2>5 DEF SensorType
  <2>8. sensor.event = "READ_HUMIDITY" /\ UNCHANGED <<judged, known>>
    BY <1>7 DEF readHumidity
  <2>9. w.temperature \in Temperatures
    BY <1>4, <2>3, <2>8 DEF AmbientInv, BeliefOk
  <2> QED
    BY <1>7, <2>4, <2>6, <2>7, <2>8, <2>9, CycleStepKeeps
<1>8. CASE checkSend(v) /\ ambient' = [ambient EXCEPT !.served = TRUE]
  <2> DEFINE e == IF changed(v, sensor.lastSent) \/ sendDue THEN "SEND_VALUES" ELSE "IDLE"
  <2>1. sensor' = [sensor EXCEPT !.values = v, !.event = e] /\ judged' = {v} /\ known' = known /\ sensor.event = "CHECK_SEND"
    BY <1>8 DEF checkSend
  <2>2. e \in Events /\ e \in {"SEND_VALUES", "IDLE"}
    BY DEF Events
  <2>3. e = "IDLE" => ~changed(v, sensor.lastSent) /\ sensor.sendAge <= kSendMaxPeriod
    BY <1>2, AmbientConstants DEF sendDue
  <2> HIDE DEF e
  <2>4. sensor' \in SensorType
    BY <1>1, <1>4, <2>1, <2>2, SensorUpdates
  <2>5. /\ sensor'.event = e /\ sensor'.values = v /\ sensor'.lastSent = sensor.lastSent
        /\ sensor'.sendAge = sensor.sendAge /\ sensor'.eventAge = sensor.eventAge
    BY <1>1, <2>1 DEF SensorType
  <2>6. ambient' \in [taken : BOOLEAN, served : BOOLEAN, resets : Nat] /\ ambient'.taken = ambient.taken
    BY <1>1, <1>8
  <2>7. v.temperature \in Temperatures
    BY <1>4, <2>1 DEF AmbientInv, BeliefOk
  <2>8. AmbientTypeOK'
    BY <1>1, <1>4, <2>1, <2>4, <2>6 DEF AmbientTypeOK
  <2>9. BeliefOk'
    BY <2>1, <2>2, <2>3, <2>5, <2>6, <2>7 DEF AmbientInv, BeliefOk
  <2>10. AgesOk'
    <3>1. e = "IDLE" => sensor.sendAge <= kSendMaxPeriod + sensor.eventAge /\ sensor.sendAge <= RetryWithin
      BY <1>2, <2>3, AmbientConstants
    <3> QED
      BY <2>3, <2>5, <3>1 DEF AgesOk, RetryWithin
  <2> QED
    BY <2>8, <2>9, <2>10 DEF AmbientInv
<1>9. CASE sensorError(v) /\ ambient' = [ambient EXCEPT !.served = TRUE]
  <2>1. sensor' = [sensor EXCEPT !.values = v, !.event = "IDLE"] /\ judged' = {} /\ known' = known
    BY <1>9 DEF sensorError
  <2>2. "IDLE" \in Events
    BY DEF Events
  <2>3. sensor' \in SensorType
    BY <1>1, <1>4, <2>1, <2>2, SensorUpdates
  <2>4. sensor'.event = "IDLE" /\ sensor'.lastSent = sensor.lastSent
    BY <1>1, <2>1 DEF SensorType
  <2>5. ambient' \in [taken : BOOLEAN, served : BOOLEAN, resets : Nat] /\ ambient'.taken = ambient.taken
    BY <1>1, <1>9
  <2>6. AmbientTypeOK'
    BY <1>1, <2>1, <2>3, <2>5 DEF AmbientTypeOK
  <2>7. BeliefOk'
    BY <2>1, <2>4, <2>5 DEF AmbientInv, BeliefOk
  <2>8. AgesOk'
    BY <2>1 DEF AgesOk
  <2> QED
    BY <2>6, <2>7, <2>8 DEF AmbientInv
<1>10. ASSUME NEW taken \in BOOLEAN, sendValues(v, taken),
              ambient' = [ambient EXCEPT !.served = TRUE, !.taken = taken]
       PROVE  AmbientInv'
  <2>1. /\ sensor' = [sensor EXCEPT !.values = v, !.lastSent = v, !.sendAge = 0, !.event = "IDLE"]
        /\ judged' = {v} /\ sensor.event = "SEND_VALUES"
        /\ known' = IF taken THEN v ELSE known
    BY <1>10 DEF sendValues
  <2>2. "IDLE" \in Events /\ 0 \in Nat
    BY DEF Events
  <2>3. sensor' \in SensorType
    BY <1>1, <1>4, <2>1, <2>2, SensorUpdates
  <2>4. sensor'.event = "IDLE" /\ sensor'.lastSent = v /\ sensor'.sendAge = 0 /\ sensor'.eventAge \in Nat
    BY <1>1, <2>1 DEF SensorType
  <2>5. ambient' \in [taken : BOOLEAN, served : BOOLEAN, resets : Nat] /\ ambient'.taken = taken
    BY <1>1, <1>10
  <2>6. v.temperature \in Temperatures
    BY <1>4, <2>1 DEF AmbientInv, BeliefOk
  <2>7. AmbientTypeOK'
    BY <1>1, <1>4, <2>1, <2>3, <2>5 DEF AmbientTypeOK
  <2>8. BeliefOk'
    BY <1>4, <2>1, <2>4, <2>5, <2>6, SameNotChanged DEF BeliefOk
  <2>9. AgesOk'
    BY <2>4, AmbientConstants DEF AgesOk, RetryWithin
  <2> QED
    BY <2>7, <2>8, <2>9 DEF AmbientInv
<1> QED
  BY <1>3, <1>5, <1>6, <1>7, <1>8, <1>9, <1>10

\* What the bus was last told is what the node judged, within the tolerances;
\* or the last frame was refused, and the node has not believed in it for
\* longer than RetryWithin: for all readings, tolerances and periods
\* (CHECK_SEND, SEND_VALUES, hasElapsed).
THEOREM AlwaysToldOrRetried == AmbientSpec => []ToldOrRetried
<1>1. AmbientInit => AmbientInv
  BY AmbientInitially
<1>2. AmbientInv /\ [AmbientNext]_ambientVars => AmbientInv'
  <2> SUFFICES ASSUME AmbientInv, [AmbientNext]_ambientVars PROVE AmbientInv'
    OBVIOUS
  <2>1. CASE AmbientNext
    BY <2>1, AmbientStartsKeeps, AmbientRunKeeps, AmbientResetsKeeps, AmbientTickKeeps DEF AmbientNext
  <2>2. CASE UNCHANGED ambientVars
    BY <2>2 DEF AmbientInv, AmbientTypeOK, BeliefOk, AgesOk, ambientVars, RetryWithin
  <2> QED
    BY <2>1, <2>2
<1>3. AmbientInv => ToldOrRetried
  <2> SUFFICES ASSUME AmbientInv, sensor.event = "IDLE", NEW v \in judged, changed(v, known)
               PROVE  ~ambient.taken /\ sensor.sendAge <= RetryWithin
    BY DEF ToldOrRetried
  <2>1. v \in Readings /\ v.temperature \in Temperatures /\ ~changed(v, sensor.lastSent)
    BY DEF AmbientInv, AmbientTypeOK, BeliefOk
  <2>2. sensor.lastSent # Sentinel
    BY <2>1, SentinelIsChanged
  <2>3. ~ambient.taken
    BY <2>1, <2>2 DEF AmbientInv, BeliefOk
  <2>4. sensor.sendAge <= RetryWithin
    BY DEF AmbientInv, AgesOk
  <2> QED
    BY <2>3, <2>4
<1> QED
  BY <1>1, <1>2, <1>3, PTL DEF AmbientSpec

-----------------------------------------------------------------------------
(* The alert node: which track an edge of BUSY belongs to                  *)

Strip == {"dark", "red", "white"}
Items == [track : Nat, color : Strip]

\* Where nothing was asked of the module, or it has been dealt with.
Settled == {"IDLE", "TURN_ON", "WAIT_FOR_BOOT", "SET_VOLUME", "WAIT_FOR_CMD", "PLAY", "RESTART_MODULE",
            "CHECK_QUEUE", "PLAYING_DELAY", "TURN_OFF"}

PlayerType == [state : Settled \cup {"WAIT_FOR_START", "WAIT_FOR_PLAY"}, queue : Seq(Items), track : Nat,
               color : Strip, retries : Nat, restarts : Nat,
               enablePlay : BOOLEAN, attached : BOOLEAN, due : BOOLEAN]
ModuleType == [on : BOOLEAN, heard : BOOLEAN, playing : BOOLEAN,
               begun : BOOLEAN, reported : BOOLEAN, overrun : BOOLEAN]

\* A module that missed no stop is silent, with no command taken, whenever
\* no answer of it is waited for; while one is, it plays nothing but the track
\* being handled, and an edge stands only for its end.
BusyIsOfTrack(p, m) ==
  /\ p.state \in Settled => ~m.playing /\ ~m.heard
  /\ p.state = "WAIT_FOR_START" =>
       /\ m.playing => m.begun /\ ~m.heard
       /\ p.enablePlay => m.begun /\ ~m.playing /\ ~m.heard
       /\ p.due => ~m.heard
  /\ p.state = "WAIT_FOR_PLAY" => m.begun /\ ~m.heard

AlertInv ==
  /\ mp3 \in PlayerType /\ mod \in ModuleType
  /\ mp3.state = "PLAYING_DELAY" => mp3.queue # << >>
  /\ ~mod.overrun => BusyIsOfTrack(mp3, mod)

LEMMA AlertInitially == AlertInit => AlertInv
BY DEF AlertInit, AlertInv, PlayerType, ModuleType, BusyIsOfTrack, Settled, Strip, Items, NoSound

\* The head of the queue is a track with its colour, and what is queued is one.
LEMMA QueueFacts ==
  ASSUME NEW q \in Seq(Items)
  PROVE  /\ q # << >> => q[1] \in Items /\ pop(q) \in Seq(Items)
         /\ \A item \in Items : /\ put(q, item, playQueueSize) \in Seq(Items)
                                /\ put(q, item, playQueueSize) # << >>
<1>1. q # << >> => q[1] \in Items /\ Tail(q) \in Seq(Items)
  OBVIOUS
<1>2. Len(q) >= playQueueSize => q # << >>
  BY AlertAssumption
<1>3. \A t \in Seq(Items), item \in Items : Append(t, item) \in Seq(Items) /\ Append(t, item) # << >>
  OBVIOUS
<1>4. q # << >> => pop(q) = Tail(q)
  BY DEF pop
<1>5. ASSUME NEW item \in Items
      PROVE  put(q, item, playQueueSize) \in Seq(Items) /\ put(q, item, playQueueSize) # << >>
  <2>1. CASE isFull(q, playQueueSize)
    BY <1>1, <1>2, <1>3, <2>1 DEF put, isFull
  <2>2. CASE ~isFull(q, playQueueSize)
    BY <1>3, <2>2 DEF put
  <2> QED BY <2>1, <2>2
<1> QED BY <1>1, <1>4, <1>5

LEMMA TakeNextKeeps ==
  ASSUME AlertInv, NEW s \in {"TURN_ON", "SET_VOLUME"}, NEW flag \in BOOLEAN, mp3.queue # << >>,
         mp3.state \in Settled, takeNext(s, flag)
  PROVE  AlertInv'
<1>1. mp3.queue[1] \in Items /\ pop(mp3.queue) \in Seq(Items)
  BY QueueFacts DEF AlertInv, PlayerType
<1>2. mp3' \in PlayerType /\ mp3'.state = s
  BY <1>1 DEF takeNext, nextState, AlertInv, PlayerType, Items, Settled
<1>3. mod' \in ModuleType /\ mod'.playing = mod.playing /\ mod'.heard = mod.heard /\ mod'.overrun = mod.overrun
  BY DEF takeNext, AlertInv, ModuleType
<1> QED BY <1>2, <1>3 DEF AlertInv, BusyIsOfTrack, Settled

\* A module without power plays nothing and has missed nothing.
LEMMA PowerDownKeeps ==
  ASSUME mod \in ModuleType, NEW m \in PlayerType, m.state \in {"IDLE", "RESTART_MODULE"}, powerDownModule(m)
  PROVE  AlertInv'
BY DEF powerDownModule, AlertInv, PlayerType, ModuleType, BusyIsOfTrack, Settled

LEMMA PlayerRunKeeps ==
  ASSUME AlertInv, playerRun
  PROVE  AlertInv'
<1> USE DEF AlertInv
<1>1. CASE idle
  BY <1>1, TakeNextKeeps DEF idle, PlayerType, Settled
<1>2. CASE turnOn
  BY <1>2 DEF turnOn, timed, nextState, PlayerType, ModuleType, BusyIsOfTrack, Settled
<1>3. CASE waited
  BY <1>3 DEF waited, nextState, PlayerType, BusyIsOfTrack, Settled
<1>4. CASE setVolume
  BY <1>4 DEF setVolume, timed, nextState, PlayerType, BusyIsOfTrack, Settled
<1>5. CASE waitForStart
  <2>1. mp3.state = "WAIT_FOR_START" /\ mp3.retries \in Nat /\ mp3.restarts \in Nat
    BY <1>5 DEF waitForStart, PlayerType
  <2>2. CASE mp3.enablePlay
    BY <1>5, <2>1, <2>2 DEF waitForStart, nextState, PlayerType, ModuleType, BusyIsOfTrack, Settled
  <2>3. CASE ~mp3.enablePlay /\ mod.playing
    BY <1>5, <2>1, <2>3, ZenonT(60) DEF waitForStart, timed, nextState, PlayerType, ModuleType, BusyIsOfTrack, Settled
  <2>4. CASE ~mp3.enablePlay /\ ~mod.playing /\ mp3.due /\ mp3.retries < playStartRetries
    <3>1. mp3' = [[mp3 EXCEPT !.state = "PLAY"] EXCEPT !.retries = mp3.retries + 1] /\ mod' = mod
      BY <1>5, <2>1, <2>4, AlertAssumption DEF waitForStart, nextState, PlayerType
    <3>2. mp3.retries + 1 \in Nat
      BY <2>1
    <3>3. \A n \in Nat : LET w == [[mp3 EXCEPT !.state = "PLAY"] EXCEPT !.retries = n]
                        IN  w \in PlayerType /\ w.state = "PLAY"
      BY DEF PlayerType, Settled
    <3>4. mp3' \in PlayerType /\ mp3'.state = "PLAY"
      BY <3>1, <3>2, <3>3
    <3> QED BY <2>1, <2>4, <3>1, <3>4 DEF BusyIsOfTrack, Settled
  <2>5. CASE ~mp3.enablePlay /\ ~mod.playing /\ mp3.due /\ mp3.retries >= playStartRetries
             /\ mp3.restarts < moduleRestartLimit
    <3> DEFINE m == [timed("RESTART_MODULE") EXCEPT !.restarts = mp3.restarts + 1, !.retries = 0]
    <3>1. powerDownModule(m)
      BY <1>5, <2>1, <2>5, AlertAssumption DEF waitForStart, timed, nextState, PlayerType
    <3>2. mp3.restarts + 1 \in Nat /\ 0 \in Nat
      BY <2>1
    <3>3. \A n, k \in Nat : LET w == [timed("RESTART_MODULE") EXCEPT !.restarts = n, !.retries = k]
                           IN  w \in PlayerType /\ w.state \in {"IDLE", "RESTART_MODULE"}
      BY DEF timed, nextState, PlayerType, Settled
    <3>4. m \in PlayerType /\ m.state \in {"IDLE", "RESTART_MODULE"}
      BY <3>2, <3>3
    <3> QED BY <3>1, <3>4, PowerDownKeeps
  <2>6. CASE ~mp3.enablePlay /\ ~mod.playing /\ mp3.due /\ mp3.retries >= playStartRetries
             /\ mp3.restarts >= moduleRestartLimit
    <3>1. mp3' = [mp3 EXCEPT !.state = "CHECK_QUEUE"] /\ mod' = [mod EXCEPT !.reported = TRUE]
      BY <1>5, <2>1, <2>6, AlertAssumption DEF waitForStart, nextState, PlayerType
    <3> QED BY <2>1, <2>6, <3>1 DEF PlayerType, ModuleType, BusyIsOfTrack, Settled
  <2> QED BY <1>5, <2>1, <2>2, <2>3, <2>4, <2>5, <2>6 DEF waitForStart
<1>6. CASE checkQueue
  BY <1>6 DEF checkQueue, timed, nextState, PlayerType, BusyIsOfTrack, Settled
<1>7. CASE playingDelay
  BY <1>7, TakeNextKeeps DEF playingDelay, PlayerType, Settled
<1>8. CASE turnOff
  <2> DEFINE m == [nextState("IDLE") EXCEPT !.enablePlay = FALSE]
  <2>1. m \in PlayerType /\ m.state \in {"IDLE", "RESTART_MODULE"}
    BY DEF nextState, PlayerType, Settled
  <2> QED BY <1>8, <2>1, PowerDownKeeps DEF turnOff
<1>9. ASSUME NEW heard \in BOOLEAN, playTrack(heard)
      PROVE  AlertInv'
  BY <1>9 DEF playTrack, timed, nextState, PlayerType, ModuleType, BusyIsOfTrack, Settled
<1>10. ASSUME NEW heard \in BOOLEAN, waitForPlay(heard)
       PROVE  AlertInv'
  BY <1>10 DEF waitForPlay, nextState, PlayerType, ModuleType, BusyIsOfTrack, Settled
<1> QED BY <1>1, <1>2, <1>3, <1>4, <1>5, <1>6, <1>7, <1>8, <1>9, <1>10 DEF playerRun

LEMMA AlertStep == AlertInv /\ [AlertNext]_alertVars => AlertInv'
<1> SUFFICES ASSUME AlertInv, [AlertNext]_alertVars
             PROVE  AlertInv'
  OBVIOUS
<1>1. CASE playerRun
  BY <1>1, PlayerRunKeeps
<1>2. ASSUME NEW r \in AlertRequests, canMessageArrived(sendAlertCommand(r))
      PROVE  AlertInv'
  <2> DEFINE f == sendAlertCommand(r)
  <2>1. f.cmd = "PLAY_MP3" => f.track \in Nat /\ f.color \in Strip
    BY AlertAssumption DEF sendAlertCommand, AlertRequests, NoFrame, NoSound, Unusable, Strip
  <2>2. CASE f.cmd = "RGB_LED"
    BY <1>2, <2>2 DEF canMessageArrived, AlertInv
  <2>3. CASE f.cmd = "PLAY_MP3" /\ play(f.track, f.color)
    <3>1. [track |-> IF f.track > maxTrack THEN maxTrack ELSE f.track, color |-> f.color] \in Items
      BY <2>1, <2>3, AlertAssumption DEF Items
    <3>2. mp3' \in PlayerType /\ mp3'.state = mp3.state /\ mp3'.enablePlay = mp3.enablePlay
          /\ mp3'.due = mp3.due /\ (mp3.queue # << >> => mp3'.queue # << >>)
      BY <2>3, <3>1, QueueFacts DEF play, AlertInv, PlayerType
    <3> QED BY <1>2, <3>2 DEF canMessageArrived, AlertInv, BusyIsOfTrack
  <2> QED BY <1>2, <2>2, <2>3 DEF canMessageArrived
<1>3. CASE longPress
  BY <1>3 DEF longPress, AlertInv
<1>4. ASSUME NEW edge \in BOOLEAN, trackStarts(edge)
      PROVE  AlertInv'
  BY <1>4 DEF trackStarts, AlertInv, PlayerType, ModuleType, BusyIsOfTrack, Settled
<1>5. CASE trackEnds
  BY <1>5 DEF trackEnds, AlertInv, PlayerType, ModuleType, BusyIsOfTrack, Settled
<1>6. CASE alertTick
  BY <1>6 DEF alertTick, AlertInv, PlayerType, ModuleType, BusyIsOfTrack, Settled
<1>7. CASE UNCHANGED alertVars
  BY <1>7 DEF alertVars, AlertInv
<1> QED BY <1>1, <1>2, <1>3, <1>4, <1>5, <1>6, <1>7 DEF AlertNext

\* A track is let go only when the module began it or its failure was reported,
\* for every number of re-sends and restarts and whichever commands are lost:
\* an edge or a level of BUSY stands for an earlier track only after a stop the
\* module missed (DFPlayer::run, attachInt).
THEOREM AlwaysPlayedOrReported == AlertSpec => PlayedOrReported
<1> DEFINE LetGo == mp3.state \in {"WAIT_FOR_START", "WAIT_FOR_PLAY"} /\ mp3'.state = "CHECK_QUEUE" =>
                      mod.begun \/ mod'.reported \/ mod.overrun
<1>1. AlertInv /\ [AlertNext]_alertVars => [LetGo]_alertVars
  <2> SUFFICES ASSUME AlertInv, AlertNext, ~mod.overrun, ~mod.begun,
                      mp3.state \in {"WAIT_FOR_START", "WAIT_FOR_PLAY"}, mp3'.state = "CHECK_QUEUE"
               PROVE  mod'.reported
    OBVIOUS
  <2>1. mp3.state = "WAIT_FOR_START" /\ ~mp3.enablePlay
    BY DEF AlertInv, BusyIsOfTrack
  <2>2. CASE playerRun
    <3>1. waitForStart
      BY <2>1, <2>2 DEF playerRun, idle, turnOn, waited, setVolume, checkQueue, playingDelay, turnOff,
                        playTrack, waitForPlay
    <3>2. CASE mod' = [mod EXCEPT !.reported = TRUE]
      BY <3>2 DEF AlertInv, ModuleType
    <3> QED BY <2>1, <3>1, <3>2 DEF waitForStart, timed, nextState, powerDownModule, AlertInv, PlayerType
  <2>3. mp3'.state = mp3.state \/ playerRun
    BY DEF AlertNext, canMessageArrived, play, longPress, trackStarts, trackEnds, alertTick,
           AlertInv, PlayerType
  <2> QED BY <2>1, <2>2, <2>3
<1> QED BY <1>1, AlertInitially, AlertStep, PTL DEF AlertSpec, PlayedOrReported

-----------------------------------------------------------------------------
(* The task loop                                                           *)
(*                                                                         *)
(* How long an entry was left out is not enough for an induction: it must  *)
(* be told how far the index is from the entry.  TurnsInv says that an     *)
(* entry behind the index was left out for as many passes as the index     *)
(* has moved on since, and one ahead of it for so few that what is left of *)
(* the round cannot exceed its patience.                                   *)

TaskTypeOK ==
  /\ list \in TaskLists
  /\ currentTask \in Entries
  /\ looping \in BOOLEAN
  /\ leftOut \in [Entries -> Nat]

\* Full round-robin: currentTask is the entry the next pass serves.
FullTurns ==
  \A i \in Entries :
    /\ i >= currentTask => leftOut[i] + (i - currentTask) <= list.taskNum - 1
    /\ i < currentTask => leftOut[i] <= currentTask - 1 - i

\* Partial round-robin: currentTask is the entry the last pass served.
PartialTurns ==
  \A i \in Entries \ {0} :
    /\ i > currentTask => leftOut[i] + (i - currentTask) <= list.taskNum - 1
    /\ i <= currentTask => leftOut[i] <= currentTask - i

TurnsInv ==
  /\ TaskTypeOK
  /\ singleTaskOnly \/ ~list.fullRoundRobin => leftOut[0] = 0
  /\ ~singleTaskOnly /\ list.fullRoundRobin => FullTurns
  /\ ~singleTaskOnly /\ ~list.fullRoundRobin => PartialTurns

-----------------------------------------------------------------------------
\* A list has entries, and they are numbered from zero.
LEMMA TaskListFacts ==
  ASSUME list \in TaskLists
  PROVE  /\ list.taskNum \in Nat \ {0}
         /\ list.fullRoundRobin \in BOOLEAN
         /\ 0 \in Entries
         /\ Entries \subseteq Nat
         /\ \A i \in Entries : i < list.taskNum
BY TaskAssumption DEF Entries

\* An entry keeps its promise as soon as the turns are accounted for.
LEMMA TurnsKeepPatience == TurnsInv => EveryTaskServed
<1> SUFFICES ASSUME TurnsInv, NEW i \in Entries
             PROVE  leftOut[i] <= patience(i)
  BY DEF EveryTaskServed
<1>1. list \in TaskLists
  BY DEF TurnsInv, TaskTypeOK
<1>2. leftOut[i] \in Nat /\ currentTask \in Entries
  BY DEF TurnsInv, TaskTypeOK
<1>3. CASE singleTaskOnly
  BY <1>1, <1>2, <1>3, TaskListFacts DEF TurnsInv, singleTaskOnly, patience, Entries
<1>4. CASE ~singleTaskOnly /\ list.fullRoundRobin
  BY <1>1, <1>2, <1>4, TaskListFacts DEF TurnsInv, FullTurns, patience, Entries
<1>5. CASE ~singleTaskOnly /\ ~list.fullRoundRobin
  BY <1>1, <1>2, <1>5, TaskListFacts DEF TurnsInv, PartialTurns, patience, singleTaskOnly, Entries
<1> QED
  BY <1>3, <1>4, <1>5

\* Nobody has waited when a device starts, or starts again.
LEMMA StartHasTurns ==
  ASSUME list \in TaskLists, currentTask = 0, looping \in BOOLEAN, leftOut = NoneLeftOut
  PROVE  TurnsInv
<1>1. TaskTypeOK
  BY TaskListFacts DEF TaskTypeOK, NoneLeftOut
<1>2. \A i \in Entries : leftOut[i] = 0
  BY DEF NoneLeftOut
<1> QED
  BY <1>1, <1>2, TaskListFacts DEF TurnsInv, FullTurns, PartialTurns, Entries

-----------------------------------------------------------------------------
\* What a pass does to the counters, entry by entry.
LEMMA ServeCounts ==
  ASSUME TaskTypeOK, UNCHANGED list, NEW served, serve(served)
  PROVE  /\ Entries' = Entries
         /\ leftOut' \in [Entries -> Nat]
         /\ \A i \in Entries : leftOut'[i] = IF i \in served THEN 0 ELSE leftOut[i] + 1
BY DEF TaskTypeOK, serve, Entries

\* A pass of full round-robin keeps the account.
LEMMA FullStep ==
  ASSUME TurnsInv, runFullRoundRobin, UNCHANGED <<list, looping>>
  PROVE  TurnsInv'
<1>1. TaskTypeOK /\ list \in TaskLists /\ ~singleTaskOnly /\ list.fullRoundRobin /\ FullTurns
  BY DEF TurnsInv, TaskTypeOK, runFullRoundRobin
<1>2. /\ Entries' = Entries
      /\ leftOut' \in [Entries -> Nat]
      /\ \A i \in Entries : leftOut'[i] = IF i = currentTask THEN 0 ELSE leftOut[i] + 1
  <2>1. serve({currentTask})
    BY DEF runFullRoundRobin
  <2> QED
    BY <1>1, <2>1, ServeCounts
<1>3. /\ currentTask \in Entries
      /\ currentTask' = IF currentTask + 1 >= list.taskNum THEN 0 ELSE currentTask + 1
  BY <1>1 DEF TaskTypeOK, runFullRoundRobin, followsInFull
<1>4. currentTask' \in Entries
  BY <1>1, <1>3, TaskListFacts DEF Entries
<1>5. FullTurns'
  <2> SUFFICES ASSUME NEW i \in Entries
               PROVE  /\ i >= currentTask' => leftOut'[i] + (i - currentTask') <= list.taskNum - 1
                      /\ i < currentTask' => leftOut'[i] <= currentTask' - 1 - i
    BY <1>2 DEF FullTurns
  <2>1. /\ i \in Nat /\ i < list.taskNum /\ list.taskNum \in Nat
        /\ currentTask \in Nat /\ currentTask < list.taskNum /\ leftOut[i] \in Nat
    BY <1>1, <1>3, TaskListFacts DEF TaskTypeOK
  <2>2. /\ i >= currentTask => leftOut[i] + (i - currentTask) <= list.taskNum - 1
        /\ i < currentTask => leftOut[i] <= currentTask - 1 - i
    BY <1>1 DEF FullTurns
  <2>3. leftOut'[i] = IF i = currentTask THEN 0 ELSE leftOut[i] + 1
    BY <1>2
  <2> QED
    BY <1>3, <2>1, <2>2, <2>3
<1>6. TaskTypeOK'
  BY <1>1, <1>2, <1>4 DEF TaskTypeOK
<1> QED
  BY <1>1, <1>5, <1>6 DEF TurnsInv, singleTaskOnly

\* A pass of partial round-robin keeps the account.
LEMMA PartialStep ==
  ASSUME TurnsInv, runPartialRoundRobin, UNCHANGED <<list, looping>>
  PROVE  TurnsInv'
<1>1. TaskTypeOK /\ list \in TaskLists /\ ~singleTaskOnly /\ ~list.fullRoundRobin /\ PartialTurns
  BY DEF TurnsInv, TaskTypeOK, runPartialRoundRobin
<1>2. /\ Entries' = Entries
      /\ leftOut' \in [Entries -> Nat]
      /\ \A i \in Entries : leftOut'[i] = IF i = 0 \/ i = currentTask' THEN 0 ELSE leftOut[i] + 1
  <2>1. serve({0, currentTask'})
    BY DEF runPartialRoundRobin
  <2> QED
    BY <1>1, <2>1, ServeCounts
<1>3. /\ currentTask \in Entries
      /\ currentTask' = IF currentTask + 1 >= list.taskNum THEN 1 ELSE currentTask + 1
  BY <1>1 DEF TaskTypeOK, runPartialRoundRobin, followsInPartial
<1>4. currentTask' \in Entries
  BY <1>1, <1>3, TaskListFacts DEF Entries, singleTaskOnly
<1>5. PartialTurns'
  <2> SUFFICES ASSUME NEW i \in Entries \ {0}
               PROVE  /\ i > currentTask' => leftOut'[i] + (i - currentTask') <= list.taskNum - 1
                      /\ i <= currentTask' => leftOut'[i] <= currentTask' - i
    BY <1>2 DEF PartialTurns
  <2>1. /\ i \in Nat \ {0} /\ i < list.taskNum /\ list.taskNum \in Nat
        /\ currentTask \in Nat /\ currentTask < list.taskNum /\ leftOut[i] \in Nat
    BY <1>1, <1>3, TaskListFacts DEF TaskTypeOK
  <2>2. /\ i > currentTask => leftOut[i] + (i - currentTask) <= list.taskNum - 1
        /\ i <= currentTask => leftOut[i] <= currentTask - i
    BY <1>1 DEF PartialTurns
  <2>3. leftOut'[i] = IF i = currentTask' THEN 0 ELSE leftOut[i] + 1
    BY <1>2, <2>1
  <2> QED
    BY <1>3, <2>1, <2>2, <2>3
<1>6. TaskTypeOK'
  BY <1>1, <1>2, <1>4 DEF TaskTypeOK
<1>7. leftOut'[0] = 0
  BY <1>1, <1>2, TaskListFacts
<1> QED
  BY <1>1, <1>5, <1>6, <1>7 DEF TurnsInv, singleTaskOnly

\* The loop of a device with one task.
LEMMA SingleStep ==
  ASSUME TurnsInv, runSingleTask, UNCHANGED <<list, looping>>
  PROVE  TurnsInv'
<1>1. TaskTypeOK /\ list \in TaskLists /\ singleTaskOnly /\ serve({0})
  BY DEF TurnsInv, TaskTypeOK, runSingleTask
<1>2. /\ Entries' = Entries
      /\ leftOut' \in [Entries -> Nat]
      /\ \A i \in Entries : leftOut'[i] = IF i \in {0} THEN 0 ELSE leftOut[i] + 1
  BY <1>1, ServeCounts
<1>3. leftOut'[0] = 0
  BY <1>1, <1>2, TaskListFacts
<1>4. TaskTypeOK'
  BY <1>1, <1>2 DEF TaskTypeOK, runSingleTask
<1> QED
  BY <1>1, <1>3, <1>4 DEF TurnsInv, singleTaskOnly

\* No task is ever left out longer than the others need for one turn each:
\* runTasks() of either discipline, with tasks that fail, are absent or hang.
THEOREM TasksAlwaysServed == TaskSpec => []EveryTaskServed
<1>1. TaskInit => TurnsInv
  BY StartHasTurns DEF TaskInit
<1>2. TurnsInv /\ [TaskNext]_taskVars => TurnsInv'
  <2> SUFFICES ASSUME TurnsInv, [TaskNext]_taskVars
               PROVE  TurnsInv'
    OBVIOUS
  <2>1. CASE initTasks
    BY <2>1 DEF initTasks, TurnsInv, TaskTypeOK, FullTurns, PartialTurns, singleTaskOnly, Entries
  <2>2. CASE runTasks
    BY <2>2, SingleStep, FullStep, PartialStep DEF runTasks
  <2>3. CASE watchdogBites
    <3>1. /\ list' \in TaskLists /\ currentTask' = 0 /\ looping' \in BOOLEAN
          /\ leftOut' = NoneLeftOut'
      BY <2>3 DEF watchdogBites, TurnsInv, TaskTypeOK, NoneLeftOut, Entries
    <3>2. TaskTypeOK' /\ \A i \in Entries' : leftOut'[i] = 0
      BY <2>3, <3>1, TaskListFacts DEF TaskTypeOK, NoneLeftOut, Entries, TurnsInv, watchdogBites
    <3> QED
      BY <2>3, <3>1, <3>2, TaskListFacts DEF TurnsInv, TaskTypeOK, FullTurns, PartialTurns, Entries, singleTaskOnly, watchdogBites
  <2>4. CASE UNCHANGED taskVars
    BY <2>4 DEF taskVars, TurnsInv, TaskTypeOK, FullTurns, PartialTurns, singleTaskOnly, Entries
  <2> QED
    BY <2>1, <2>2, <2>3, <2>4 DEF TaskNext
<1> QED
  BY <1>1, <1>2, TurnsKeepPatience, PTL DEF TaskSpec
=============================================================================
