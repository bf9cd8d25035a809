--------------------------- MODULE IbTransfer_proofs ---------------------------
(***************************************************************************)
(* The data path for every number of devices, QPs, slots, receives and     *)
(* groups.                                                                 *)
(***************************************************************************)
EXTENDS IbTransferInv, FiniteSetTheorems, SequenceTheorems, TLAPS

----------------------------------------------------------------------------
(* Striping. *)

\* Division with remainder, the one fact about \div the proofs below need.
LEMMA DivFact ==
    ASSUME NEW x \in Nat, NEW y \in Nat \ {0}
    PROVE  /\ x \div y \in Nat
           /\ x = y * (x \div y) + (x % y)
           /\ x % y \in 0 .. y - 1
OBVIOUS

\* DIVUP rounds up: y copies of it cover x, and it is 0 only for 0.
LEMMA DivUpCovers ==
    ASSUME NEW x \in Nat, NEW y \in Nat \ {0}
    PROVE  /\ DIVUP(x, y) \in Nat
           /\ DIVUP(x, y) * y >= x
           /\ x > 0 => DIVUP(x, y) > 0
<1> DEFINE n == x + y - 1
           d == n \div y
<1>1. n \in Nat /\ DIVUP(x, y) = d
  BY DEF DIVUP
<1>2. d \in Nat /\ n = y * d + (n % y) /\ n % y \in 0 .. y - 1
  BY <1>1, DivFact
<1> HIDE DEF d
<1>3. y * d = d * y /\ y * d \in Nat
  BY <1>2
<1>4. d * y >= x
  BY <1>2, <1>3
<1>5. x > 0 => d > 0
  <2>1. d = 0 => y * d = 0
    BY <1>2
  <2> QED
    BY <2>1, <1>2
<1> QED
  BY <1>1, <1>2, <1>4, <1>5

LEMMA UsedPositive == NqpsUsed \in Nat \ {0}
<1>1. QpsPerConn * NDevs \in Nat \ {0}
  BY StripingAssumption
<1> QED
  BY <1>1, StripingAssumption DEF NqpsUsed, Nqps

\* The chunks of a non-empty message are not empty and together long enough.
LEMMA ChunksCover ==
    ASSUME NEW size \in Nat \ {0}
    PROVE  /\ ChunkSize(size) \in Nat \ {0}
           /\ NqpsUsed * ChunkSize(size) >= size
<1> DEFINE u == NqpsUsed
           a == DIVUP(size, u)
           c == DIVUP(a, Align)
<1>1. u \in Nat \ {0} /\ Align \in Nat \ {0}
  BY UsedPositive, StripingAssumption
<1>2. a \in Nat /\ a * u >= size /\ a > 0
  BY <1>1, DivUpCovers
<1> HIDE DEF a, u
<1>3. c \in Nat /\ c * Align >= a /\ c > 0
  BY <1>1, <1>2, DivUpCovers
<1> HIDE DEF c
<1>4. ChunkSize(size) = c * Align
  BY DEF ChunkSize, a, c, u
<1>5. c * Align \in Nat \ {0}
  BY <1>1, <1>3
<1>6. u * (c * Align) >= u * a
  BY <1>1, <1>2, <1>3, <1>5
<1>7. u * a = a * u
  BY <1>1, <1>2
<1> QED
  BY <1>1, <1>2, <1>4, <1>5, <1>6, <1>7 DEF u

(***************************************************************************)
(* Every byte of a message travels on exactly one of the QPs a transfer    *)
(* visits: the chunks ncclIbMultiSend cuts are a partition of the message, *)
(* for every size, number of QPs and alignment.                            *)
(***************************************************************************)
THEOREM ChunksPartition ==
    ASSUME NEW size \in Nat, NEW b \in 0 .. size - 1
    PROVE  /\ \E i \in 0 .. NqpsUsed - 1 : b \in Chunk(size, i)
           /\ \A i, j \in 0 .. NqpsUsed - 1 :
                 (b \in Chunk(size, i) /\ b \in Chunk(size, j)) => i = j
<1> DEFINE u == NqpsUsed
           c == ChunkSize(size)
           k == b \div c
<1>1. u \in Nat \ {0} /\ b \in Nat /\ size \in Nat \ {0}
  BY UsedPositive
<1>2. c \in Nat \ {0} /\ u * c >= size
  BY <1>1, ChunksCover
<1>3. \A i : b \in Chunk(size, i) <=>
          (i * c <= b /\ b < (IF size - i * c < c THEN size ELSE i * c + c))
  BY DEF Chunk, ChunkFirst, ChunkEnd
<1> HIDE DEF c, u
<1>4. k \in Nat /\ b = c * k + (b % c) /\ b % c \in 0 .. c - 1
  BY <1>1, <1>2, DivFact
<1> HIDE DEF k
<1>5. c * k = k * c /\ k * c \in Nat
  BY <1>2, <1>4
<1>6. k < u
  <2> SUFFICES ASSUME k >= u PROVE FALSE
    BY <1>1, <1>4
  <2>1. k * c >= u * c
    BY <1>1, <1>2, <1>4
  <2> QED
    BY <2>1, <1>1, <1>2, <1>4, <1>5
<1>7. b \in Chunk(size, k)
  BY <1>3, <1>4, <1>5, <1>1, <1>2
<1>8. \A i \in Nat : b \in Chunk(size, i) => i = k
  <2> SUFFICES ASSUME NEW i \in Nat, b \in Chunk(size, i) PROVE i = k
    OBVIOUS
  <2>1. i * c \in Nat /\ i * c <= b /\ b < i * c + c
    <3>1. i * c \in Nat
      BY <1>2
    <3> QED
      BY <3>1, <1>1, <1>2, <1>3
  <2>2. i < k => i * c + c <= k * c
    <3> SUFFICES ASSUME i + 1 <= k PROVE i * c + c <= k * c
      BY <1>4
    <3>1. (i + 1) * c <= k * c
      BY <1>2, <1>4
    <3>2. (i + 1) * c = i * c + c
      BY <1>2
    <3> QED
      BY <3>1, <3>2
  <2>3. k < i => k * c + c <= i * c
    <3> SUFFICES ASSUME k + 1 <= i PROVE k * c + c <= i * c
      BY <1>4
    <3>1. (k + 1) * c <= i * c
      BY <1>2, <1>4
    <3>2. (k + 1) * c = k * c + c
      BY <1>2, <1>4
    <3> QED
      BY <3>1, <3>2
  <2> QED
    BY <2>1, <2>2, <2>3, <1>1, <1>2, <1>4, <1>5
<1> QED
  BY <1>1, <1>4, <1>6, <1>7, <1>8 DEF u

\* The same for negative numbers too.
LEMMA Remainder ==
    ASSUME NEW x \in Int, NEW y \in Nat \ {0}
    PROVE  /\ x \div y \in Int
           /\ x = y * (x \div y) + (x % y)
           /\ x % y \in 0 .. y - 1
OBVIOUS

\* Multiples of m are at least m apart.
LEMMA MultiplesApart ==
    ASSUME NEW m \in Nat \ {0}, NEW c \in Int, NEW d \in Int, c < d
    PROVE  m * c \in Int /\ m * d \in Int /\ m * d >= m * c + m
<1>1. m * d >= m * (c + 1)
  <2>1. d - (c + 1) \in Nat
    OBVIOUS
  <2>2. m * (d - (c + 1)) >= 0
    BY <2>1
  <2>3. m * (d - (c + 1)) = m * d - m * (c + 1)
    OBVIOUS
  <2> QED
    BY <2>2, <2>3
<1>2. m * (c + 1) = m * c + m
  OBVIOUS
<1> QED
  BY <1>1, <1>2

\* Division with remainder is unique.
LEMMA ModUnique ==
    ASSUME NEW m \in Nat \ {0}, NEW a \in Int, NEW c \in Int, NEW r \in 0 .. m - 1, a = m * c + r
    PROVE  a % m = r
<1>1. PICK d \in Int, s \in 0 .. m - 1 : a = m * d + s /\ s = a % m
  BY Remainder
<1>2. c < d => m * d >= m * c + m /\ m * c \in Int /\ m * d \in Int
  BY <1>1, MultiplesApart
<1>3. d < c => m * c >= m * d + m /\ m * c \in Int /\ m * d \in Int
  BY <1>1, MultiplesApart
<1>4. ~(c < d)
  BY <1>1, <1>2
<1>5. ~(d < c)
  BY <1>1, <1>3
<1>6. c = d
  BY <1>4, <1>5
<1>7. PICK v \in Int : v = m * c
  OBVIOUS
<1>8. a = v + r /\ a = v + s
  BY <1>1, <1>6, <1>7
<1>9. s = r
  BY <1>8
<1>10. s = a % m
  BY <1>1
<1> QED
  BY <1>9, <1>10

\* A remainder is not changed by a step before it is taken.
LEMMA ModAdd ==
    ASSUME NEW m \in Nat \ {0}, NEW x \in Int, NEW a \in Int
    PROVE  ((x % m) + a) % m = (x + a) % m
<1>1. PICK d \in Int, s \in 0 .. m - 1 : x = m * d + s /\ s = x % m
  BY Remainder
<1>2. PICK y \in Int : y = s + a
  OBVIOUS
<1>3. PICK e \in Int, t \in 0 .. m - 1 : y = m * e + t /\ t = y % m
  BY Remainder
<1>4. PICK z \in Int, f \in Int : z = x + a /\ f = d + e
  OBVIOUS
<1>5. m * f = m * d + m * e
  BY <1>4
<1>8. PICK v \in Int, w \in Int : v = m * d /\ w = m * e
  OBVIOUS
<1>9. z = v + w + t
  <2>1. x = v + s
    BY <1>1, <1>8
  <2>2. y = w + t
    BY <1>3, <1>8
  <2> QED
    BY <2>1, <2>2, <1>2, <1>4
<1>6. z = m * f + t
  BY <1>5, <1>8, <1>9
<1>7. z % m = t
  BY <1>6, ModUnique
<1> QED
  BY <1>1, <1>2, <1>3, <1>4, <1>7

\* Numbers less than m apart have different remainders.
LEMMA ModInjective ==
    ASSUME NEW m \in Nat \ {0}, NEW x \in Int, NEW y \in Int, x <= y, y - x < m, x % m = y % m
    PROVE  x = y
<1>1. PICK d \in Int, s \in 0 .. m - 1 : x = m * d + s /\ s = x % m
  BY Remainder
<1>2. PICK e \in Int : y = m * e + s
  <2>1. y \div m \in Int /\ y = m * (y \div m) + (y % m)
    BY Remainder
  <2> QED
    BY <1>1, <2>1
<1>3. d < e => m * e >= m * d + m /\ m * d \in Int /\ m * e \in Int
  BY MultiplesApart
<1>4. e < d => m * d >= m * e + m /\ m * d \in Int /\ m * e \in Int
  BY MultiplesApart
<1>5. ~(d < e)
  BY <1>1, <1>2, <1>3
<1>6. ~(e < d)
  BY <1>1, <1>2, <1>4
<1>7. d = e
  BY <1>5, <1>6
<1> QED
  BY <1>1, <1>2, <1>7

LEMMA QpCounts ==
    /\ Nqps \in Nat \ {0} /\ NqpsUsed \in Nat \ {0} /\ NqpsUsed <= Nqps
    /\ NDevs \in Nat \ {0}
<1>1. PICK n \in Nat \ {0} : n = NDevs
  BY StripingAssumption
<1>2. PICK p \in Nat \ {0} : p = QpsPerConn
  BY StripingAssumption
<1>3. p * n \in Nat \ {0} /\ p * n >= n
  <2>1. PICK j \in Nat : p = j + 1
    BY <1>2
  <2>2. j * n \in Nat /\ p * n = j * n + n
    BY <2>1
  <2> QED
    BY <2>2
<1> QED
  BY <1>1, <1>2, <1>3 DEF Nqps, NqpsUsed

\* The walk over the QPs: each transfer starts where the one before it ended.
LEMMA StartNext ==
    ASSUME NEW k \in Nat \ {0}
    PROVE  /\ StartQp(k) \in Qps
           /\ NextQpIndex(StartQp(k)) = StartQp(k + 1)
<1>1. PICK u \in Nat \ {0}, n \in Nat \ {0} : u = NqpsUsed /\ n = Nqps
  BY QpCounts
<1>2. PICK x \in Nat : x = (k - 1) * u
  OBVIOUS
<1>3. x + u = k * u
  BY <1>2
<1>4. StartQp(k) = x % n /\ StartQp(k + 1) = (x + u) % n
  BY <1>1, <1>2, <1>3 DEF StartQp
<1>5. x % n \in 0 .. n - 1
  BY Remainder
<1>6. ((x % n) + u) % n = (x + u) % n
  <2>1. x \in Int /\ u \in Int
    OBVIOUS
  <2> QED
    BY <2>1, ModAdd
<1> QED
  BY <1>1, <1>4, <1>5, <1>6 DEF Qps, NextQpIndex, QpAt

LEMMA StartFirst == StartQp(1) = 0 /\ 0 \in Qps
<1>1. PICK u \in Nat \ {0}, n \in Nat \ {0} : u = NqpsUsed /\ n = Nqps
  BY QpCounts
<1>2. (1 - 1) * u = 0 /\ 0 = n * 0 + 0 /\ 0 \in 0 .. n - 1
  OBVIOUS
<1>3. 0 % n = 0
  BY <1>2, ModUnique
<1> QED
  BY <1>1, <1>2, <1>3 DEF StartQp, Qps

\* A transfer has QPs, among those of the connection, on devices of the NIC.
LEMMA QpsOfTransfer ==
    ASSUME NEW x \in Nat
    PROVE  QpsFrom(x) \subseteq Qps /\ x % Nqps \in QpsFrom(x)
<1>1. PICK u \in Nat \ {0}, n \in Nat \ {0} : u = NqpsUsed /\ n = Nqps
  BY QpCounts
<1>2. ASSUME NEW i \in 0 .. u - 1 PROVE (x + i) % n \in 0 .. n - 1
  <2>1. PICK y \in Int : y = x + i
    OBVIOUS
  <2>2. y % n \in 0 .. n - 1
    BY Remainder
  <2> QED
    BY <2>1, <2>2
<1>3. 0 \in 0 .. u - 1 /\ x + 0 = x
  OBVIOUS
<1> QED
  BY <1>1, <1>2, <1>3 DEF QpsFrom, QpAt, Qps

LEMMA DevsOfQps ==
    ASSUME NEW q \in Qps
    PROVE  DevOf(q) \in Devs
<1>1. PICK n \in Nat \ {0} : n = NDevs
  BY QpCounts
<1>2. q \in Int
  BY QpCounts DEF Qps
<1>3. q % n \in 0 .. n - 1
  BY <1>2, Remainder
<1> QED
  BY <1>1, <1>3 DEF DevOf, Devs

----------------------------------------------------------------------------
(* Types. *)

LEMMA Limits ==
    /\ MaxRequests \in Nat \ {0} /\ Window \in Nat \ {0} /\ Window < MaxRequests
    /\ MaxRecvs \in Nat \ {0} /\ 1 \in Recvs /\ MaxOps \in Nat /\ SendSizes \subseteq Nat
    /\ \A id \in ReqIds : id \in Nat
<1>1. PICK w \in Nat \ {0}, m \in Nat \ {0, 1} : w = NetMaxRequests /\ m = MaxRecvs
  BY TransferAssumption
<1>2. w * m \in Nat /\ w * m > w
  <2>1. PICK j \in Nat \ {0} : m = j + 1
    BY <1>1
  <2>2. w * m = w * j + w
    BY <2>1
  <2>3. w * j \in Nat /\ w * j > 0
    OBVIOUS
  <2> QED
    BY <2>2, <2>3
<1>3. MaxRequests \in Nat \ {0} /\ Window \in Nat \ {0} /\ Window < MaxRequests
  BY <1>1, <1>2 DEF MaxRequests, Window
<1>4. 1 \in Recvs /\ MaxRecvs \in Nat \ {0}
  BY <1>1 DEF Recvs
<1>5. \A id \in ReqIds : id \in Nat
  BY <1>3 DEF ReqIds
<1> QED
  BY <1>3, <1>4, <1>5, TransferAssumption

LEMMA SlotOfTail ==
    ASSUME NEW t \in Nat
    PROVE  FifoSlot(t) \in Slots
<1>1. PICK m \in Nat \ {0} : m = MaxRequests
  BY Limits
<1>2. t % m \in 0 .. m - 1
  BY Remainder
<1> QED
  BY <1>1, <1>2 DEF FifoSlot, Slots

\* The buffers of a grouped receive.
LEMMA RecvFields ==
    ASSUME NEW recv \in Receives
    PROVE  /\ Len(recv) \in Nat /\ Len(recv) \in 1 .. MaxRecvs /\ DOMAIN recv = 1 .. Len(recv)
           /\ 1 \in 1 .. Len(recv)
           /\ \A r \in 1 .. Len(recv) : r \in Recvs /\ recv[r].size \in Nat /\ recv[r].tag \in Int
<1>1. recv \in Seq(Buffer) /\ Len(recv) \in 1 .. MaxRecvs
  BY TransferAssumption
<1>2. Len(recv) \in Nat /\ DOMAIN recv = 1 .. Len(recv)
  BY <1>1
<1>3. MaxRecvs \in Nat
  BY Limits
<1>4. ASSUME NEW r \in 1 .. Len(recv)
      PROVE r \in Recvs /\ recv[r].size \in Nat /\ recv[r].tag \in Int
  <2>1. recv[r] \in Buffer
    BY <1>1
  <2>2. recv[r].size \in Nat /\ recv[r].tag \in Int
    BY <2>1 DEF Buffer
  <2> QED
    BY <1>1, <1>2, <1>3, <2>2 DEF Recvs
<1> QED
  BY <1>1, <1>2, <1>3, <1>4

LEMMA ReqFields ==
    ASSUME NEW q \in Req
    PROVE  /\ q.type \in {"UNUSED", "RECV", "FLUSH", "SEND"} /\ q.events \in [Devs -> Int]
           /\ q.nreqs \in Nat /\ q.arg \in Nat /\ q.op \in Nat
BY DEF Req

LEMMA NewReq ==
    ASSUME NEW t \in {"UNUSED", "RECV", "FLUSH", "SEND"}, NEW e \in [Devs -> Int],
           NEW n \in Nat, NEW a \in Nat, NEW o \in Nat
    PROVE  [type |-> t, events |-> e, nreqs |-> n, arg |-> a, op |-> o] \in Req
BY DEF Req

LEMMA UnusedReq == Unused \in Req /\ Unused.type = "UNUSED" /\ Unused.events = NoEvents
                   /\ NoEvents \in [Devs -> Int] /\ \A d \in Devs : NoEvents[d] = 0
<1>1. NoEvents \in [Devs -> Int] /\ \A d \in Devs : NoEvents[d] = 0
  BY DEF NoEvents
<1>2. Unused \in Req
  BY <1>1, NewReq DEF Unused
<1> QED
  BY <1>1, <1>2 DEF Unused

\* A completion is counted down.
CountedDown(q, d) == [q EXCEPT !.events[d] = @ - 1]

LEMMA CountDown ==
    ASSUME NEW q \in Req, NEW d \in Devs, NEW p, p = CountedDown(q, d)
    PROVE  /\ p \in Req /\ p.type = q.type /\ p.nreqs = q.nreqs /\ p.arg = q.arg /\ p.op = q.op
           /\ \A e \in Devs : p.events[e] = IF e = d THEN q.events[e] - 1 ELSE q.events[e]
<1>1. q.events \in [Devs -> Int]
  BY ReqFields
<1>2. [q.events EXCEPT ![d] = @ - 1] \in [Devs -> Int]
  BY <1>1
<1>3. p = [q EXCEPT !.events = [q.events EXCEPT ![d] = @ - 1]]
  BY DEF CountedDown
<1>4. p.events = [q.events EXCEPT ![d] = @ - 1]
  BY <1>3 DEF Req
<1>5. p \in Req /\ p.type = q.type /\ p.nreqs = q.nreqs /\ p.arg = q.arg /\ p.op = q.op
  BY <1>2, <1>3 DEF Req
<1> QED
  BY <1>1, <1>4, <1>5

LEMMA OpFields ==
    ASSUME NEW o \in Op
    PROVE  /\ o.recv \in Receives /\ o.state \in {"posted", "done", "flushing", "retired"}
           /\ o.sent \in Seq(Int) /\ o.arrived \in Seq(SUBSET Nat) /\ o.sizes \in Seq(Nat)
BY DEF Op

\* Steps of a receive's history.
InState(o, st) == [o EXCEPT !.state = st]
Reported(o, z) == [o EXCEPT !.state = "done", !.sizes = z]
WithSent(o, s) == [o EXCEPT !.sent = s]
WithArrived(o, a) == [o EXCEPT !.arrived = a]

LEMMA OpInState ==
    ASSUME NEW o \in Op, NEW st \in {"posted", "done", "flushing", "retired"},
           NEW p, p = InState(o, st)
    PROVE  /\ p \in Op /\ p.recv = o.recv /\ p.state = st /\ p.sent = o.sent
           /\ p.arrived = o.arrived /\ p.sizes = o.sizes
BY DEF Op, InState

LEMMA OpReported ==
    ASSUME NEW o \in Op, NEW z \in Seq(Nat), NEW p, p = Reported(o, z)
    PROVE  /\ p \in Op /\ p.recv = o.recv /\ p.state = "done" /\ p.sent = o.sent
           /\ p.arrived = o.arrived /\ p.sizes = z
BY DEF Op, Reported

LEMMA OpSent ==
    ASSUME NEW o \in Op, NEW s \in Seq(Int), NEW p, p = WithSent(o, s)
    PROVE  /\ p \in Op /\ p.recv = o.recv /\ p.state = o.state /\ p.sent = s
           /\ p.arrived = o.arrived /\ p.sizes = o.sizes
BY DEF Op, WithSent

LEMMA OpArrived ==
    ASSUME NEW o \in Op, NEW a \in Seq(SUBSET Nat), NEW p, p = WithArrived(o, a)
    PROVE  /\ p \in Op /\ p.recv = o.recv /\ p.state = o.state /\ p.sent = o.sent
           /\ p.arrived = a /\ p.sizes = o.sizes
BY DEF Op, WithArrived

LEMMA ElemFields ==
    ASSUME NEW e \in Elem
    PROVE  e.idx \in Nat /\ e.nreqs \in Nat /\ e.size \in Nat /\ e.tag \in Int
BY DEF Elem

LEMMA EmptyElem == Empty \in Elem /\ Empty.idx = 0
BY DEF Elem, Empty

LEMMA MsgFields ==
    ASSUME NEW m \in Msg
    PROVE  /\ m.dst \in Seq(Nat) /\ m.chunks \in Seq(SUBSET Nat) /\ m.sizes \in Seq(Nat)
           /\ m.imm \in Nat /\ m.slot \in Slots /\ m.ids \in Seq(ReqIds)
           /\ Len(m.chunks) = Len(m.dst) /\ Len(m.sizes) = Len(m.dst) /\ Len(m.ids) = Len(m.dst)
BY DEF Msg

LEMMA CqeFields ==
    ASSUME NEW c \in RecvCqe
    PROVE  /\ c.dev \in Devs /\ c.qp \in Qps /\ c.wr_id \in ReqIds /\ c.imm \in Nat /\ c.op \in Nat
           /\ c.opcode \in {"RECV_RDMA_WITH_IMM", "RDMA_WRITE", "RDMA_READ"}
BY DEF RecvCqe

LEMMA NewCqe ==
    ASSUME NEW d \in Devs, NEW q \in Qps, NEW o \in {"RECV_RDMA_WITH_IMM", "RDMA_WRITE", "RDMA_READ"},
           NEW w \in ReqIds, NEW i \in Nat, NEW k \in Nat
    PROVE  [dev |-> d, qp |-> q, opcode |-> o, wr_id |-> w, imm |-> i, op |-> k] \in RecvCqe
BY DEF RecvCqe

LEMMA SendCqeFields ==
    ASSUME NEW c \in SendCqe
    PROVE  c.dev \in Devs /\ c.qp \in Qps /\ c.ids \in Seq(ReqIds) /\ c.op \in Nat
BY DEF SendCqe

LEMMA CtsFields ==
    ASSUME NEW e \in CtsElem
    PROVE  e.slot \in Slots /\ e.r \in Recvs /\ e.elem \in Elem
BY DEF CtsElem

----------------------------------------------------------------------------
(* The request pool and the counts. *)

\* Every non-empty set of naturals has a least element.
LEMMA LeastNatural ==
    ASSUME NEW S \in SUBSET Nat, S # {}
    PROVE  \E m \in S : \A k \in S : m <= k
<1> DEFINE R == OpToRel(<, Nat)
<1>1. IsWellFoundedOn(R, Nat)
  BY NatLessThanWellFounded, Zenon
<1>2. \A x, y \in Nat : <<x, y>> \in R <=> x < y
  BY DEF OpToRel
<1> HIDE DEF R
<1>3. PICK x \in S : \A y \in S : ~(<<y, x>> \in R)
  BY <1>1, WFMin
<1>4. \A y \in S : ~(y < x)
  BY <1>2, <1>3
<1>5. \A y \in S : x <= y
  BY <1>4
<1> QED
  BY <1>5

LEMMA MinOf ==
    ASSUME NEW S \in SUBSET Nat, S # {}
    PROVE  Min(S) \in S /\ \A k \in S : Min(S) <= k
<1>1. \E m \in S : \A k \in S : m <= k
  BY LeastNatural
<1> QED
  BY <1>1 DEF Min

LEMMA FreeGiven ==
    ASSUME NEW reqs, FreeReqs(reqs) # {}
    PROVE  GetRequest(reqs) \in ReqIds /\ reqs[GetRequest(reqs)].type = "UNUSED"
<1>1. FreeReqs(reqs) \in SUBSET Nat
  BY Limits DEF FreeReqs
<1>2. GetRequest(reqs) \in FreeReqs(reqs)
  BY <1>1, MinOf DEF GetRequest
<1> QED
  BY <1>2 DEF FreeReqs

LEMMA QpSets ==
    ASSUME NEW S \in SUBSET Qps
    PROVE  IsFiniteSet(S) /\ Cardinality(S) \in Nat /\ (Cardinality(S) = 0 => S = {})
<1>1. IsFiniteSet(Qps)
  <2>1. PICK n \in Int : n = Nqps - 1
    BY QpCounts
  <2>2. IsFiniteSet(0 .. n)
    BY FS_Interval
  <2> QED
    BY <2>1, <2>2 DEF Qps
<1>2. IsFiniteSet(S)
  BY <1>1, FS_Subset
<1>3. Cardinality(S) \in Nat
  BY <1>2, FS_CardinalityType
<1>4. Cardinality(S) = 0 => S = {}
  BY <1>2, FS_EmptySet
<1> QED
  BY <1>2, <1>3, <1>4

LEMMA EventsFromType ==
    ASSUME NEW x \in Nat
    PROVE  /\ EventsFrom(x) \in [Devs -> Nat]
           /\ \A d \in Devs : EventsFrom(x)[d] = Cardinality({q \in QpsFrom(x) : DevOf(q) = d})
<1>1. ASSUME NEW d \in Devs PROVE Cardinality({q \in QpsFrom(x) : DevOf(q) = d}) \in Nat
  <2>1. {q \in QpsFrom(x) : DevOf(q) = d} \in SUBSET Qps
    BY QpsOfTransfer
  <2> QED
    BY <2>1, QpSets
<1> QED
  BY <1>1 DEF EventsFrom

LEMMA RecvTypes ==
    ASSUME TypeOK
    PROVE  /\ \A id \in ReqIds : rreqs[id] \in Req
           /\ \A q \in Qps : /\ recvQueue[q] \in Seq(ReqIds) /\ dataWire[q] \in Seq(Msg)
                             /\ Len(recvQueue[q]) \in Nat /\ Len(dataWire[q]) \in Nat
                             /\ \A i \in 1 .. Len(recvQueue[q]) : recvQueue[q][i] \in ReqIds /\ QueuedOp(q, i) \in Nat
           /\ Consumed \in Nat /\ fifoTail \in Nat /\ fifoHead \in Nat
           /\ ops \in Seq(Op) /\ Len(ops) \in Nat /\ \A k \in 1 .. Len(ops) : ops[k] \in Op
<1>1. \A id \in ReqIds : rreqs[id] \in Req
  BY DEF TypeOK
<1>2. ASSUME NEW q \in Qps
      PROVE /\ recvQueue[q] \in Seq(ReqIds) /\ dataWire[q] \in Seq(Msg)
            /\ Len(recvQueue[q]) \in Nat /\ Len(dataWire[q]) \in Nat
            /\ \A i \in 1 .. Len(recvQueue[q]) : recvQueue[q][i] \in ReqIds
  BY DEF TypeOK
<1>3. \A q \in Qps : \A i \in 1 .. Len(recvQueue[q]) : QueuedOp(q, i) \in Nat
  BY <1>1, <1>2, ReqFields DEF QueuedOp
<1>4. Consumed \in Nat /\ fifoTail \in Nat /\ fifoHead \in Nat
  BY DEF TypeOK, Consumed
<1>5. ops \in Seq(Op) /\ Len(ops) \in Nat /\ \A k \in 1 .. Len(ops) : ops[k] \in Op
  BY DEF TypeOK
<1> QED
  BY <1>1, <1>2, <1>3, <1>4, <1>5

\* A request without events is in no queue and no completion names it.
LEMMA NothingLeft ==
    ASSUME RecvInv, NEW id \in ReqIds, rreqs[id].events = NoEvents
    PROVE  /\ \A c \in rcq : c.wr_id # id
           /\ \A q \in Qps : \A i \in 1 .. Len(recvQueue[q]) : recvQueue[q][i] # id
<1>1. ASSUME NEW d \in Devs
      PROVE  CqesOf(id, d) = {} /\ QpsWith(id, d) = {}
  <2>1. RecvEventsOk(id, d)
    BY DEF RecvInv
  <2>2. rreqs[id].events[d] = 0
    BY UnusedReq
  <2>3. Cardinality(CqesOf(id, d)) \in Nat
    BY <2>1, FS_CardinalityType DEF RecvEventsOk
  <2>4. QpsWith(id, d) \in SUBSET Qps
    BY DEF QpsWith
  <2>5. Cardinality(QpsWith(id, d)) \in Nat
    BY <2>4, QpSets
  <2>6. Cardinality(CqesOf(id, d)) = 0 /\ Cardinality(QpsWith(id, d)) = 0
    BY <2>1, <2>2, <2>3, <2>5 DEF RecvEventsOk
  <2> QED
    BY <2>1, <2>4, <2>6, QpSets, FS_EmptySet DEF RecvEventsOk
<1>2. ASSUME NEW c \in rcq PROVE c.wr_id # id
  <2>1. c.dev \in Devs
    BY CqeFields DEF RecvInv, TypeOK
  <2> QED
    BY <2>1, <1>1 DEF CqesOf
<1>3. ASSUME NEW q \in Qps, NEW i \in 1 .. Len(recvQueue[q]) PROVE recvQueue[q][i] # id
  <2>1. DevOf(q) \in Devs
    BY DevsOfQps
  <2> QED
    BY <2>1, <1>1 DEF QpsWith
<1> QED
  BY <1>2, <1>3

----------------------------------------------------------------------------
(* What a step leaves alone. *)

\* No receive is posted, and none changes its state.
SameOps ==
    /\ fifoTail' = fifoTail /\ Len(ops') = Len(ops)
    /\ \A k \in 1 .. Len(ops) : ops'[k].recv = ops[k].recv /\ ops'[k].state = ops[k].state

LEMMA AnnouncesFrame ==
    ASSUME TypeOK, InStep, NEW s, NEW r, NEW e \in Elem, Announces(s, r, e),
           fifoTail' \in Nat, fifoTail' >= fifoTail,
           \A k \in 1 .. fifoTail : ops'[k].recv = ops[k].recv
    PROVE  /\ e.idx \in 1 .. fifoTail' /\ s = FifoSlot(e.idx - 1)
           /\ r \in 1 .. Len(ops'[e.idx].recv)
           /\ e.nreqs = Len(ops'[e.idx].recv)
           /\ e.size = ops'[e.idx].recv[r].size /\ e.tag = ops'[e.idx].recv[r].tag
<1>1. fifoTail \in Nat /\ e.idx \in 1 .. fifoTail
  BY DEF TypeOK, Announces
<1>2. ops'[e.idx].recv = ops[e.idx].recv /\ e.idx \in 1 .. fifoTail'
  BY <1>1
<1> QED
  BY <1>2 DEF Announces

LEMMA CtsFrame ==
    ASSUME TypeOK, InStep, CtsRight, fifoTail' \in Nat, fifoTail' >= fifoTail,
           \A k \in 1 .. fifoTail : ops'[k].recv = ops[k].recv,
           \A e \in ctsWire' : e \in ctsWire \/ (e \in CtsElem /\ Announces(e.slot, e.r, e.elem)'),
           \A s \in Slots, r \in Recvs :
              \/ fifo'[s][r] = fifo[s][r] \/ fifo'[s][r] = Empty
              \/ fifo'[s][r] \in Elem /\ Announces(s, r, fifo'[s][r])
    PROVE  CtsRight'
<1>1. \A s, r : \A e \in Elem : Announces(s, r, e) =>
            /\ e.idx \in 1 .. fifoTail' /\ s = FifoSlot(e.idx - 1)
            /\ r \in 1 .. Len(ops'[e.idx].recv)
            /\ e.nreqs = Len(ops'[e.idx].recv)
            /\ e.size = ops'[e.idx].recv[r].size /\ e.tag = ops'[e.idx].recv[r].tag
  BY AnnouncesFrame
<1>2. ASSUME NEW e \in ctsWire' PROVE Announces(e.slot, e.r, e.elem)'
  <2>1. CASE e \in ctsWire
    <3>1. e \in CtsElem /\ Announces(e.slot, e.r, e.elem)
      BY <2>1 DEF TypeOK, CtsRight
    <3>2. e.elem \in Elem
      BY <3>1, CtsFields
    <3> QED
      BY <3>1, <3>2, <1>1, Zenon DEF Announces
  <2> QED
    BY <2>1
<1>3. ASSUME NEW s \in Slots, NEW r \in Recvs, fifo'[s][r].idx # 0
      PROVE  Announces(s, r, fifo'[s][r]) /\ fifo'[s][r] \in Elem
  <2>1. fifo'[s][r] # Empty
    BY <1>3, EmptyElem
  <2>2. CASE fifo'[s][r] = fifo[s][r]
    BY <1>3, <2>2 DEF CtsRight, TypeOK
  <2> QED
    BY <2>1, <2>2
<1>4. ASSUME NEW s \in Slots, NEW r \in Recvs, fifo'[s][r].idx # 0 PROVE Announces(s, r, fifo[s][r])'
  <2>1. PICK e \in Elem : e = fifo'[s][r] /\ Announces(s, r, e)
    BY <1>3, <1>4
  <2>2. Announces(s, r, e)'
    BY <1>1, <2>1, Zenon DEF Announces
  <2> QED
    BY <2>1, <2>2, Zenon DEF Announces
<1> QED
  BY <1>2, <1>4 DEF CtsRight

LEMMA ReqFrame ==
    ASSUME TypeOK, InStep, SameOps, NEW id \in ReqIds, RecvReqOk(id),
           \A j \in ReqIds : /\ rreqs'[j].type = rreqs[j].type /\ rreqs'[j].op = rreqs[j].op
                             /\ rreqs'[j].nreqs = rreqs[j].nreqs /\ rreqs'[j].arg = rreqs[j].arg,
           rreqs[id].type = "UNUSED" => rreqs'[id].events = rreqs[id].events
    PROVE  RecvReqOk(id)'
<1>1. fifoTail' = fifoTail /\ \A k \in 1 .. fifoTail : ops'[k].recv = ops[k].recv /\ ops'[k].state = ops[k].state
  BY DEF SameOps, InStep
<1> QED
  BY <1>1 DEF RecvReqOk

LEMMA StateFrame ==
    ASSUME TypeOK, InStep, SameOps, NEW k \in 1 .. Len(ops), StateOk(k), Consumed' >= Consumed, Consumed' \in Nat
    PROVE  StateOk(k)'
<1>1. fifoTail' = fifoTail /\ ops'[k].state = ops[k].state /\ Consumed \in Nat /\ k \in Nat
  BY RecvTypes DEF SameOps
<1> QED
  BY <1>1 DEF StateOk

LEMMA QpFrame ==
    ASSUME TypeOK, NEW q \in Qps, QpOk(q), fifoTail' = fifoTail, Consumed' = Consumed,
           recvQueue'[q] = recvQueue[q], dataWire'[q] = dataWire[q],
           \A i \in 1 .. Len(recvQueue[q]) :
              /\ rreqs'[recvQueue[q][i]].type = rreqs[recvQueue[q][i]].type
              /\ rreqs'[recvQueue[q][i]].op = rreqs[recvQueue[q][i]].op
    PROVE  QpOk(q)'
<1>1. \A i \in 1 .. Len(recvQueue[q]) : QueuedOp(q, i)' = QueuedOp(q, i)
  BY DEF QueuedOp
<1> HIDE DEF QueuedOp
<1> QED
  BY <1>1 DEF QpOk

LEMMA CqeFrame ==
    ASSUME TypeOK, NEW c \in rcq, RecvCqeOk(c), recvQueue' = recvQueue,
           rreqs'[c.wr_id].type = rreqs[c.wr_id].type, rreqs'[c.wr_id].op = rreqs[c.wr_id].op
    PROVE  RecvCqeOk(c)'
BY DEF RecvCqeOk

LEMMA EventsFrame ==
    ASSUME NEW id \in ReqIds, NEW d \in Devs, RecvEventsOk(id, d),
           rreqs'[id].events[d] = rreqs[id].events[d],
           \A c : c.wr_id = id /\ c.dev = d => (c \in rcq' <=> c \in rcq),
           recvQueue' = recvQueue
    PROVE  RecvEventsOk(id, d)'
<1>1. CqesOf(id, d)' = CqesOf(id, d)
  BY DEF CqesOf
<1>2. QpsWith(id, d)' = QpsWith(id, d)
  BY DEF QpsWith
<1> QED
  BY <1>1, <1>2 DEF RecvEventsOk

\* Steps of the sender that post nothing.
LEMMA QuietStep ==
    ASSUME RecvInv, TypeOK', SameOps,
           rreqs' = rreqs, rqpIndex' = rqpIndex, sqpIndex' = sqpIndex,
           fifoHead' = fifoHead, multiSent' = multiSent,
           fifo' = fifo, ctsWire' = ctsWire, recvQueue' = recvQueue, dataWire' = dataWire, rcq' = rcq
    PROVE  RecvInv'
<1>1. TypeOK /\ InStep /\ CtsRight /\ Consumed' = Consumed /\ Consumed \in Nat /\ fifoTail \in Nat
      /\ fifoTail = Len(ops) /\ fifoTail' = fifoTail
  BY RecvTypes DEF RecvInv, Consumed, InStep, SameOps
<1>2. InStep'
  BY <1>1 DEF InStep, SameOps
<1>3. CtsRight'
  BY <1>1, CtsFrame DEF SameOps
<1>4. \A id \in ReqIds : RecvReqOk(id)'
  BY <1>1, ReqFrame DEF RecvInv
<1>5. \A k \in DOMAIN ops' : StateOk(k)'
  <2>1. DOMAIN ops' = 1 .. Len(ops) /\ DOMAIN ops = 1 .. Len(ops)
    BY <1>1 DEF TypeOK, SameOps
  <2> QED
    BY <1>1, <2>1, StateFrame DEF RecvInv
<1>6. \A q \in Qps : QpOk(q)'
  BY <1>1, QpFrame DEF RecvInv
<1>7. \A c \in rcq' : RecvCqeOk(c)'
  BY <1>1, CqeFrame DEF RecvInv
<1>8. \A id \in ReqIds, d \in Devs : RecvEventsOk(id, d)'
  BY EventsFrame DEF RecvInv
<1> QED
  BY <1>2, <1>3, <1>4, <1>5, <1>6, <1>7, <1>8 DEF RecvInv

----------------------------------------------------------------------------
(* The receive side, action by action: first the steps of the sender that  *)
(* post nothing.                                                           *)

LEMMA SendTestDoneRecv ==
    ASSUME RecvInv, NEW id \in ReqIds, SendTestDone(id)
    PROVE  RecvInv'
<1>1. sreqs' \in [ReqIds -> Req]
  BY UnusedReq DEF SendTestDone, FreeRequest, RecvInv, TypeOK
<1>2. TypeOK'
  BY <1>1 DEF SendTestDone, rvars, fabric, RecvInv, TypeOK
<1> QED
  BY <1>2, QuietStep DEF SendTestDone, rvars, fabric, SameOps

LEMMA SendTestPollRecv ==
    ASSUME RecvInv, NEW cqe \in scq, SendTestPoll(cqe)
    PROVE  RecvInv'
<1>1. sreqs' \in [ReqIds -> Req]
  <2>1. cqe.dev \in Devs
    BY SendCqeFields DEF RecvInv, TypeOK
  <2>2. ASSUME NEW id \in ReqIds PROVE CountedDown(sreqs[id], cqe.dev) \in Req
    BY <2>1, CountDown DEF RecvInv, TypeOK
  <2> QED
    BY <2>2 DEF SendTestPoll, RecvInv, TypeOK, CountedDown
<1>2. scq' \subseteq SendCqe
  BY DEF SendTestPoll, RecvInv, TypeOK
<1>3. TypeOK'
  BY <1>1, <1>2 DEF SendTestPoll, rvars, RecvInv, TypeOK
<1> QED
  BY <1>3, QuietStep DEF SendTestPoll, rvars, SameOps

LEMMA IsendReturnRecv ==
    ASSUME RecvInv, IsendReturn
    PROVE  RecvInv'
<1>1. TypeOK /\ InStep /\ CtsRight /\ fifoHead \in Nat /\ fifoTail \in Nat
  BY DEF RecvInv, TypeOK
<1>2. Consumed' = Consumed /\ Consumed \in Nat
  BY <1>1 DEF IsendReturn, Consumed
<1>3. SameOps
  BY DEF IsendReturn, SameOps, rvars
<1>4. fifo' \in [Slots -> [Recvs -> Elem]] /\
      \A s \in Slots, r \in Recvs : fifo'[s][r] = fifo[s][r] \/ fifo'[s][r] = Empty
  <2>1. FifoSlot(fifoHead) \in Slots /\ 1 \in Recvs
    BY <1>1, SlotOfTail, Limits
  <2>2. [fifo[FifoSlot(fifoHead)] EXCEPT ![1] = Empty] \in [Recvs -> Elem]
    BY <1>1, <2>1, EmptyElem DEF TypeOK
  <2> QED
    BY <1>1, <2>1, <2>2 DEF IsendReturn, TypeOK
<1>5. fifoReqs' \in [Slots -> [Recvs -> ReqIds \cup {NoReq}]]
  BY <1>1 DEF IsendReturn, TypeOK
<1>6. TypeOK'
  <2>1. multiSent' \in BOOLEAN
    BY Zenon DEF IsendReturn
  <2>2. fifoHead' \in Nat
    BY <1>1 DEF IsendReturn
  <2> QED
    BY <1>1, <1>4, <1>5, <2>1, <2>2 DEF IsendReturn, TypeOK, rvars, fabric
<1>7. InStep'
  BY <1>1, <1>2 DEF IsendReturn, InStep, rvars
<1>8. CtsRight'
  BY <1>1, <1>3, <1>4, CtsFrame DEF IsendReturn, rvars, fabric
<1>9. \A id \in ReqIds : RecvReqOk(id)'
  BY <1>1, <1>3, ReqFrame DEF RecvInv, IsendReturn, rvars
<1>10. \A k \in DOMAIN ops' : StateOk(k)'
  <2>1. DOMAIN ops' = 1 .. Len(ops) /\ DOMAIN ops = 1 .. Len(ops)
    BY <1>1 DEF TypeOK, IsendReturn
  <2> QED
    BY <1>1, <1>2, <1>3, <2>1, StateFrame DEF RecvInv
<1>11. \A q \in Qps : QpOk(q)'
  BY <1>1, <1>2, QpFrame DEF RecvInv, IsendReturn, rvars, fabric
<1>12. \A c \in rcq' : RecvCqeOk(c)'
  BY <1>1, CqeFrame DEF RecvInv, IsendReturn, rvars, fabric
<1>13. \A id \in ReqIds, d \in Devs : RecvEventsOk(id, d)'
  BY EventsFrame DEF RecvInv, IsendReturn, rvars, fabric
<1> QED
  BY <1>6, <1>7, <1>8, <1>9, <1>10, <1>11, <1>12, <1>13 DEF RecvInv

LEMMA LandCtsRecv ==
    ASSUME RecvInv, NEW e \in ctsWire, LandCts(e)
    PROVE  RecvInv'
<1>1. TypeOK /\ InStep /\ CtsRight /\ fifoTail \in Nat /\ Consumed \in Nat
  BY RecvTypes DEF RecvInv
<1>2. Consumed' = Consumed /\ SameOps
  BY DEF LandCts, Consumed, SameOps, rvars
<1>3. e.slot \in Slots /\ e.r \in Recvs /\ e.elem \in Elem /\ Announces(e.slot, e.r, e.elem)
  BY <1>1, CtsFields DEF TypeOK, CtsRight
<1>4. /\ fifo' \in [Slots -> [Recvs -> Elem]]
      /\ \A s \in Slots, r \in Recvs :
            fifo'[s][r] = IF s = e.slot /\ r = e.r THEN e.elem ELSE fifo[s][r]
  <2>1. [fifo[e.slot] EXCEPT ![e.r] = e.elem] \in [Recvs -> Elem]
    BY <1>1, <1>3 DEF TypeOK
  <2> QED
    BY <1>1, <1>3, <2>1 DEF LandCts, TypeOK
<1>5. TypeOK'
  BY <1>1, <1>4 DEF LandCts, TypeOK, rvars
<1>6. InStep'
  BY <1>1, <1>2 DEF LandCts, InStep, rvars
<1>7. CtsRight'
  <2>1. \A s \in Slots, r \in Recvs :
              \/ fifo'[s][r] = fifo[s][r] \/ fifo'[s][r] = Empty
              \/ fifo'[s][r] \in Elem /\ Announces(s, r, fifo'[s][r])
    BY <1>3, <1>4
  <2>2. \A c \in ctsWire' : c \in ctsWire
    BY DEF LandCts
  <2>3. ops' = ops /\ fifoTail' = fifoTail
    BY DEF LandCts, rvars
  <2> QED
    BY <1>1, <2>1, <2>2, <2>3, CtsFrame
<1>8. \A id \in ReqIds : RecvReqOk(id)'
  BY <1>1, <1>2, ReqFrame DEF RecvInv, LandCts, rvars
<1>9. \A k \in DOMAIN ops' : StateOk(k)'
  <2>1. DOMAIN ops' = 1 .. Len(ops) /\ DOMAIN ops = 1 .. Len(ops)
    BY <1>1 DEF TypeOK, LandCts
  <2> QED
    BY <1>1, <1>2, <2>1, StateFrame DEF RecvInv
<1>10. \A q \in Qps : QpOk(q)'
  BY <1>1, <1>2, QpFrame DEF RecvInv, LandCts, rvars
<1>11. \A c \in rcq' : RecvCqeOk(c)'
  BY <1>1, CqeFrame DEF RecvInv, LandCts, rvars
<1>12. \A id \in ReqIds, d \in Devs : RecvEventsOk(id, d)'
  BY EventsFrame DEF RecvInv, LandCts, rvars
<1> QED
  BY <1>5, <1>6, <1>7, <1>8, <1>9, <1>10, <1>11, <1>12 DEF RecvInv

----------------------------------------------------------------------------
(* ncclIbTest and ncclIbIflush on the receive communicator. *)

LEMMA OpsKnown ==
    ASSUME RecvInv
    PROVE  /\ TypeOK /\ InStep /\ CtsRight
           /\ fifoTail = Len(ops) /\ DOMAIN ops = 1 .. fifoTail
           /\ fifoTail \in Nat /\ Consumed \in Nat /\ Consumed <= fifoTail
           /\ \A k \in 1 .. fifoTail : StateOk(k) /\ ops[k] \in Op
<1>1. TypeOK /\ InStep /\ CtsRight
  BY DEF RecvInv
<1>2. fifoTail = Len(ops) /\ Consumed <= fifoTail /\ fifoTail \in Nat /\ Consumed \in Nat
  BY <1>1, RecvTypes DEF InStep
<1>3. DOMAIN ops = 1 .. fifoTail /\ \A k \in 1 .. fifoTail : ops[k] \in Op
  BY <1>1, <1>2 DEF TypeOK
<1>4. \A k \in 1 .. fifoTail : StateOk(k)
  BY <1>3 DEF RecvInv
<1> QED
  BY <1>1, <1>2, <1>3, <1>4

\* A request that waits for completions, or a flush, has its receive.
LEMMA ReqKnown ==
    ASSUME RecvInv, NEW id \in ReqIds, rreqs[id].type # "UNUSED"
    PROVE  /\ rreqs[id] \in Req /\ rreqs[id].op \in 1 .. fifoTail /\ rreqs[id].op \in Nat
           /\ rreqs[id].type \in {"RECV", "FLUSH"}
           /\ rreqs[id].type = "RECV" =>
                 /\ ops[rreqs[id].op].state = "posted"
                 /\ rreqs[id].nreqs = Len(ops[rreqs[id].op].recv)
                 /\ rreqs[id].arg = FifoSlot(rreqs[id].op - 1) /\ rreqs[id].arg \in Slots
           /\ rreqs[id].type = "FLUSH" => ops[rreqs[id].op].state = "flushing"
           /\ \A j \in ReqIds : rreqs[j].type # "UNUSED" /\ rreqs[j].op = rreqs[id].op => j = id
<1>1. RecvReqOk(id) /\ rreqs[id] \in Req /\ fifoTail \in Nat
  BY DEF RecvInv, TypeOK
<1>2. rreqs[id].op \in 1 .. fifoTail
  BY <1>1 DEF RecvReqOk
<1>3. rreqs[id].op \in Nat /\ rreqs[id].op - 1 \in Nat
  BY <1>1, <1>2
<1>4. FifoSlot(rreqs[id].op - 1) \in Slots
  BY <1>3, SlotOfTail
<1> QED
  BY <1>1, <1>2, <1>3, <1>4 DEF RecvReqOk

LEMMA RecvTestPollRecv ==
    ASSUME RecvInv, NEW cqe \in rcq, RecvTestPoll(cqe)
    PROVE  RecvInv'
<1> DEFINE w == cqe.wr_id
           d == cqe.dev
<1>1. /\ TypeOK /\ InStep /\ CtsRight /\ Consumed' = Consumed /\ SameOps
      /\ fifoTail \in Nat /\ fifoTail = Len(ops) /\ DOMAIN ops = 1 .. Len(ops) /\ Consumed \in Nat
  BY OpsKnown DEF RecvTestPoll, Consumed, svars, SameOps
<1>2. w \in ReqIds /\ d \in Devs /\ cqe.imm \in Nat /\ RecvCqeOk(cqe)
  BY CqeFields DEF RecvInv, TypeOK
<1>3. rreqs[w].type \in {"RECV", "FLUSH"} /\ (cqe.opcode = "RECV_RDMA_WITH_IMM" => rreqs[w].type = "RECV")
  BY <1>2 DEF RecvCqeOk
<1>4. rreqs[w] \in Req
  BY <1>1, <1>2 DEF TypeOK
<1> DEFINE p == CountedDown(rreqs[w], d)
<1>5. /\ p \in Req
      /\ p.type = rreqs[w].type /\ p.nreqs = rreqs[w].nreqs /\ p.arg = rreqs[w].arg /\ p.op = rreqs[w].op
      /\ \A e \in Devs : p.events[e] = IF e = d THEN rreqs[w].events[e] - 1 ELSE rreqs[w].events[e]
  BY <1>2, <1>4, CountDown
<1>6. rreqs' = [rreqs EXCEPT ![w] = p]
  BY DEF RecvTestPoll, CountedDown
<1> HIDE DEF p
<1>7. /\ rreqs' \in [ReqIds -> Req]
      /\ \A j \in ReqIds : rreqs'[j] = IF j = w THEN p ELSE rreqs[j]
  BY <1>1, <1>2, <1>5, <1>6 DEF TypeOK
<1> HIDE DEF w, d
<1>8. TypeOK'
  <2>1. rcq' \subseteq RecvCqe
    BY <1>1 DEF RecvTestPoll, TypeOK
  <2>2. ctsRetired' \in [Devs -> Nat]
    <3>1. [ctsRetired EXCEPT ![cqe.dev] = cqe.imm] \in [Devs -> Nat]
      BY <1>1, <1>2 DEF TypeOK
    <3> QED
      BY <1>1, <3>1 DEF RecvTestPoll, TypeOK
  <2>3. sizesFifo' \in [Slots -> [Recvs -> Nat]]
    <3>1. CASE ImmIsSize(cqe, rreqs[w])
      <4>1. rreqs[w].arg \in Slots
        BY <1>2, <1>3, <3>1, ReqKnown DEF ImmIsSize
      <4>2. [sizesFifo[rreqs[w].arg] EXCEPT ![1] = cqe.imm] \in [Recvs -> Nat]
        BY <1>1, <1>2, <4>1, Limits DEF TypeOK
      <4> QED
        BY <1>1, <3>1, <4>1, <4>2 DEF RecvTestPoll, TypeOK, w
    <3> QED
      BY <1>1, <3>1 DEF RecvTestPoll, TypeOK, w
  <2> QED
    BY <1>1, <1>7, <2>1, <2>2, <2>3 DEF RecvTestPoll, TypeOK, svars
<1>9. InStep'
  BY <1>1 DEF RecvTestPoll, InStep, svars
<1>10. CtsRight'
  BY <1>1, CtsFrame DEF RecvTestPoll, svars
<1>11. \A id \in ReqIds : RecvReqOk(id)'
  BY <1>1, <1>3, <1>5, <1>7, ReqFrame DEF RecvInv
<1>12. \A k \in DOMAIN ops' : StateOk(k)'
  <2>1. ops' = ops
    BY DEF RecvTestPoll
  <2> QED
    BY <1>1, <2>1, StateFrame DEF RecvInv
<1>13. \A q \in Qps : QpOk(q)'
  <2>1. \A q \in Qps : \A i \in 1 .. Len(recvQueue[q]) : recvQueue[q][i] \in ReqIds
    BY <1>1, RecvTypes
  <2>2. recvQueue' = recvQueue /\ dataWire' = dataWire /\ fifoTail' = fifoTail
    BY DEF RecvTestPoll
  <2> QED
    BY <1>1, <1>5, <1>7, <2>1, <2>2, QpFrame DEF RecvInv
<1>14. \A c \in rcq' : RecvCqeOk(c)'
  <2>1. recvQueue' = recvQueue /\ \A c \in rcq' : c \in rcq
    BY DEF RecvTestPoll
  <2>2. \A c \in rcq : c.wr_id \in ReqIds
    BY <1>1, CqeFields DEF TypeOK
  <2> QED
    BY <1>1, <1>5, <1>7, <2>1, <2>2, CqeFrame DEF RecvInv
<1>15. ASSUME NEW id \in ReqIds, NEW e \in Devs PROVE RecvEventsOk(id, e)'
  <2>1. RecvEventsOk(id, e) /\ recvQueue' = recvQueue /\ rcq' = rcq \ {cqe}
    BY DEF RecvInv, RecvTestPoll
  <2>2. CASE id = w /\ e = d
    <3>1. CqesOf(id, e)' = CqesOf(id, e) \ {cqe} /\ cqe \in CqesOf(id, e)
      BY <2>1, <2>2 DEF CqesOf, w, d
    <3>2. QpsWith(id, e)' = QpsWith(id, e)
      BY <2>1 DEF QpsWith
    <3>3. IsFiniteSet(CqesOf(id, e)') /\ Cardinality(CqesOf(id, e)') = Cardinality(CqesOf(id, e)) - 1
      BY <2>1, <3>1, FS_RemoveElement DEF RecvEventsOk
    <3>4. rreqs'[id].events[e] = rreqs[id].events[e] - 1
      BY <1>5, <1>7, <2>2
    <3>5. Cardinality(CqesOf(id, e)) \in Nat
      BY <2>1, FS_CardinalityType DEF RecvEventsOk
    <3>6. QpsWith(id, e) \in SUBSET Qps
      BY DEF QpsWith
    <3>7. Cardinality(QpsWith(id, e)) \in Nat
      BY <3>6, QpSets
    <3> QED
      BY <2>1, <3>2, <3>3, <3>4, <3>5, <3>7 DEF RecvEventsOk
  <2>3. CASE ~(id = w /\ e = d)
    <3>1. rreqs'[id].events[e] = rreqs[id].events[e]
      BY <1>5, <1>7, <2>3
    <3>2. \A c : c.wr_id = id /\ c.dev = e => (c \in rcq' <=> c \in rcq)
      BY <2>1, <2>3 DEF w, d
    <3> QED
      BY <2>1, <3>1, <3>2, EventsFrame
  <2> QED
    BY <2>2, <2>3
<1> QED
  BY <1>8, <1>9, <1>10, <1>11, <1>12, <1>13, <1>14, <1>15 DEF RecvInv

\* A receive all of whose completions were polled is one the sender has posted:
\* until then its work requests wait in the queues.
LEMMA PolledAfterPosted ==
    ASSUME RecvInv, NEW id \in ReqIds, rreqs[id].type = "RECV", rreqs[id].events = NoEvents
    PROVE  rreqs[id].op <= Consumed
<1> DEFINE k == rreqs[id].op
<1>1. k \in 1 .. fifoTail /\ k \in Nat /\ fifoTail \in Nat /\ Consumed \in Nat
      /\ \A j \in ReqIds : rreqs[j].type # "UNUSED" /\ rreqs[j].op = k => j = id
  BY ReqKnown, OpsKnown
<1> HIDE DEF k
<1>2. SUFFICES ASSUME k > Consumed PROVE FALSE
  BY <1>1 DEF k
<1>3. k \in Nat \ {0} /\ k \in Consumed + 1 .. fifoTail
  BY <1>1, <1>2
<1>4. PICK x \in Nat : x = StartQp(k)
  BY <1>3, StartNext DEF Qps
<1>5. PICK q \in Qps : q \in QpsOf(k)
  BY <1>4, QpsOfTransfer DEF QpsOf
<1>6. QpOk(q)
  BY DEF RecvInv
<1>7. PICK i \in 1 .. Len(recvQueue[q]) : QueuedOp(q, i) = k
  BY <1>3, <1>5, <1>6 DEF QpOk
<1>8. recvQueue[q][i] \in ReqIds /\ rreqs[recvQueue[q][i]].type = "RECV" /\ rreqs[recvQueue[q][i]].op = k
  BY <1>6, <1>7, RecvTypes DEF QpOk, QueuedOp, RecvInv
<1>9. recvQueue[q][i] = id
  BY <1>1, <1>8
<1> QED
  BY <1>9, NothingLeft

\* A request is replaced that nothing refers to: one that was free, or has
\* just been found complete.
LEMMA OtherReqs ==
    ASSUME RecvInv, NEW id \in ReqIds, rreqs[id].events = NoEvents, NEW p \in Req,
           rreqs' = [rreqs EXCEPT ![id] = p], recvQueue' = recvQueue, dataWire' = dataWire,
           fifoTail' = fifoTail, Consumed' = Consumed,
           \A c \in rcq : c \in rcq',
           \A c \in rcq' \ rcq : c \in RecvCqe /\ c.wr_id = id
    PROVE  /\ rreqs' \in [ReqIds -> Req] /\ rreqs'[id] = p
           /\ \A j \in ReqIds \ {id} : rreqs'[j] = rreqs[j]
           /\ \A q \in Qps : QpOk(q)'
           /\ \A c \in rcq : RecvCqeOk(c)'
           /\ \A j \in ReqIds \ {id}, d \in Devs : RecvEventsOk(j, d)'
           /\ \A d \in Devs : QpsWith(id, d)' = {} /\ CqesOf(id, d)' = {c \in rcq' \ rcq : c.dev = d}
<1>1. TypeOK
  BY DEF RecvInv
<1>2. rreqs' \in [ReqIds -> Req] /\ rreqs'[id] = p /\ \A j \in ReqIds \ {id} : rreqs'[j] = rreqs[j]
  BY <1>1 DEF TypeOK
<1>3. /\ \A c \in rcq : c.wr_id # id /\ c.wr_id \in ReqIds
      /\ \A q \in Qps : \A i \in 1 .. Len(recvQueue[q]) : recvQueue[q][i] # id /\ recvQueue[q][i] \in ReqIds
  BY <1>1, NothingLeft, RecvTypes, CqeFields DEF TypeOK
<1>4. ASSUME NEW q \in Qps PROVE QpOk(q)'
  BY <1>1, <1>2, <1>3, QpFrame DEF RecvInv
<1>5. ASSUME NEW c \in rcq PROVE RecvCqeOk(c)'
  BY <1>1, <1>2, <1>3, CqeFrame DEF RecvInv
<1>6. ASSUME NEW j \in ReqIds \ {id}, NEW d \in Devs PROVE RecvEventsOk(j, d)'
  <2>1. \A c : c.wr_id = j /\ c.dev = d => (c \in rcq' <=> c \in rcq)
    OBVIOUS
  <2> QED
    BY <1>2, <2>1, EventsFrame DEF RecvInv
<1>7. ASSUME NEW d \in Devs
      PROVE QpsWith(id, d)' = {} /\ CqesOf(id, d)' = {c \in rcq' \ rcq : c.dev = d}
  <2>1. QpsWith(id, d)' = {}
    BY <1>3 DEF QpsWith
  <2>2. CqesOf(id, d)' = {c \in rcq' \ rcq : c.dev = d}
    BY <1>3 DEF CqesOf
  <2> QED
    BY <2>1, <2>2
<1> QED
  BY <1>2, <1>4, <1>5, <1>6, <1>7

\* The state of one receive changes after its data is posted.
LEMMA OpStep ==
    ASSUME RecvInv, NEW k \in 1 .. fifoTail, NEW o \in Op, o.recv = ops[k].recv,
           ops' = [ops EXCEPT ![k] = o], fifoTail' = fifoTail, Consumed' = Consumed,
           k <= Consumed, k + Window <= fifoTail => o.state = "retired"
    PROVE  /\ ops' \in Seq(Op) /\ Len(ops') = Len(ops) /\ DOMAIN ops' = 1 .. fifoTail
           /\ ops'[k] = o /\ \A j \in 1 .. fifoTail : j # k => ops'[j] = ops[j]
           /\ \A j \in 1 .. fifoTail : ops'[j].recv = ops[j].recv
           /\ \A j \in DOMAIN ops' : StateOk(j)'
<1>1. /\ fifoTail = Len(ops) /\ ops \in Seq(Op) /\ fifoTail \in Nat /\ Consumed \in Nat
      /\ \A j \in 1 .. fifoTail : StateOk(j)
  BY OpsKnown DEF TypeOK
<1>2. /\ ops' \in Seq(Op) /\ Len(ops') = Len(ops)
      /\ \A j \in 1 .. Len(ops) : ops'[j] = IF j = k THEN o ELSE ops[j]
  BY <1>1, ExceptSeq
<1>3. DOMAIN ops' = 1 .. fifoTail
  BY <1>1, <1>2
<1>4. \A j \in 1 .. fifoTail : StateOk(j)'
  BY <1>1, <1>2 DEF StateOk
<1> QED
  BY <1>1, <1>2, <1>3, <1>4

LEMMA RecvTestDoneRecv ==
    ASSUME RecvInv, NEW id \in ReqIds, RecvTestDone(id)
    PROVE  RecvInv'
<1> DEFINE req == rreqs[id]
           k == req.op
           z == [r \in 1 .. req.nreqs |-> sizesFifo[req.arg][r]]
           o == IF req.type = "RECV" THEN Reported(ops[k], z) ELSE InState(ops[k], "retired")
<1>1. /\ TypeOK /\ InStep /\ CtsRight /\ fifoTail = Len(ops) /\ fifoTail \in Nat
      /\ Consumed \in Nat /\ \A j \in 1 .. fifoTail : StateOk(j) /\ ops[j] \in Op
  BY OpsKnown
<1>2. req.type # "UNUSED" /\ req.events = NoEvents
  BY DEF RecvTestDone, Active, AllPolled
<1>3. /\ k \in 1 .. fifoTail /\ req.type \in {"RECV", "FLUSH"}
      /\ req.type = "RECV" => ops[k].state = "posted" /\ req.arg \in Slots /\ req.nreqs = Len(ops[k].recv)
      /\ req.type = "FLUSH" => ops[k].state = "flushing"
      /\ \A j \in ReqIds : rreqs[j].type # "UNUSED" /\ rreqs[j].op = k => j = id
  BY <1>2, ReqKnown
<1>4. k <= Consumed
  BY <1>1, <1>2, <1>3, PolledAfterPosted DEF StateOk
<1>5. req.type = "RECV" => z \in Seq(Nat)
  <2> SUFFICES ASSUME req.type = "RECV" PROVE z \in Seq(Nat)
    OBVIOUS
  <2>1. ops[k].recv \in Receives
    BY <1>1, <1>3, OpFields
  <2>2. PICK n \in Nat : n = req.nreqs /\ \A r \in 1 .. n : r \in Recvs
    BY <1>3, <2>1, RecvFields
  <2>3. sizesFifo[req.arg] \in [Recvs -> Nat]
    BY <1>1, <1>3 DEF TypeOK
  <2>4. \A r \in 1 .. n : sizesFifo[req.arg][r] \in Nat
    BY <2>2, <2>3
  <2> QED
    BY <2>2, <2>4, IsASeq
<1>6. /\ ops' = [ops EXCEPT ![k] = o] /\ rreqs' = [rreqs EXCEPT ![id] = Unused]
      /\ UNCHANGED <<rqpIndex, devIndex, fifoTail, sizesFifo, svars, fabric>>
  BY DEF RecvTestDone, FreeRequest, Reported, InState
<1>7. /\ o \in Op /\ o.recv = ops[k].recv
      /\ o.state = IF req.type = "RECV" THEN "done" ELSE "retired"
  <2>1. ops[k] \in Op /\ <<>> \in Seq(Nat)
    BY <1>1, <1>3
  <2>2. CASE req.type = "RECV"
    BY <1>5, <2>1, <2>2, OpReported
  <2>3. CASE req.type = "FLUSH"
    BY <2>1, <2>3, OpInState
  <2> QED
    BY <1>3, <2>2, <2>3
<1> HIDE DEF o, z
<1>8. Consumed' = Consumed /\ fifoTail' = fifoTail
  BY <1>6 DEF Consumed, svars
<1>9. k + Window <= fifoTail => o.state = "retired"
  BY <1>1, <1>3, <1>7 DEF StateOk
<1>10. /\ ops' \in Seq(Op) /\ Len(ops') = Len(ops) /\ DOMAIN ops' = 1 .. fifoTail
       /\ ops'[k] = o /\ \A j \in 1 .. fifoTail : j # k => ops'[j] = ops[j]
       /\ \A j \in 1 .. fifoTail : ops'[j].recv = ops[j].recv
       /\ \A j \in DOMAIN ops' : StateOk(j)'
  BY <1>3, <1>4, <1>6, <1>7, <1>8, <1>9, OpStep
<1>11. /\ rreqs' \in [ReqIds -> Req] /\ rreqs'[id] = Unused
       /\ \A j \in ReqIds \ {id} : rreqs'[j] = rreqs[j]
       /\ \A q \in Qps : QpOk(q)'
       /\ \A c \in rcq : RecvCqeOk(c)'
       /\ \A j \in ReqIds \ {id}, d \in Devs : RecvEventsOk(j, d)'
       /\ \A d \in Devs : QpsWith(id, d)' = {} /\ CqesOf(id, d)' = {c \in rcq' \ rcq : c.dev = d}
  BY <1>2, <1>6, <1>8, OtherReqs, UnusedReq DEF fabric
<1>12. TypeOK'
  BY <1>1, <1>6, <1>10, <1>11 DEF TypeOK, svars, fabric
<1>13. InStep'
  BY <1>1, <1>6, <1>8, <1>10 DEF InStep, svars
<1>14. CtsRight'
  BY <1>1, <1>6, <1>8, <1>10, CtsFrame DEF svars, fabric
<1>15. ASSUME NEW j \in ReqIds PROVE RecvReqOk(j)'
  <2>1. CASE j = id
    BY <1>11, <2>1, UnusedReq DEF RecvReqOk
  <2>2. CASE j # id
    <3>1. RecvReqOk(j) /\ rreqs'[j] = rreqs[j]
      BY <1>11, <2>2 DEF RecvInv
    <3>2. CASE rreqs[j].type = "UNUSED"
      BY <3>1, <3>2 DEF RecvReqOk
    <3>3. CASE rreqs[j].type # "UNUSED"
      <4>1. rreqs[j].op \in 1 .. fifoTail /\ rreqs[j].op # k
        BY <1>3, <2>2, <3>3, ReqKnown
      <4>2. ops'[rreqs[j].op] = ops[rreqs[j].op]
        BY <1>10, <4>1
      <4>3. \A i \in ReqIds : rreqs'[i].type # "UNUSED" => rreqs'[i] = rreqs[i]
        BY <1>11, UnusedReq
      <4> QED
        BY <1>8, <3>1, <3>3, <4>2, <4>3 DEF RecvReqOk
    <3> QED
      BY <3>2, <3>3
  <2> QED
    BY <2>1, <2>2
<1>16. \A d \in Devs : RecvEventsOk(id, d)'
  <2>1. ASSUME NEW d \in Devs PROVE CqesOf(id, d)' = {} /\ QpsWith(id, d)' = {} /\ rreqs'[id].events[d] = 0
    BY <1>6, <1>11, UnusedReq DEF fabric
  <2> QED
    BY <2>1, FS_EmptySet DEF RecvEventsOk
<1>17. \A c \in rcq' : RecvCqeOk(c)'
  BY <1>6, <1>11 DEF fabric
<1> QED
  BY <1>10, <1>11, <1>12, <1>13, <1>14, <1>15, <1>16, <1>17 DEF RecvInv

FlushOf(k, e) == [Unused EXCEPT !.type = "FLUSH", !.events = e, !.op = k]

LEMMA FlushReq ==
    ASSUME NEW k \in Nat, NEW e \in [Devs -> Int], NEW p, p = FlushOf(k, e)
    PROVE  p \in Req /\ p.type = "FLUSH" /\ p.events = e /\ p.op = k
<1>1. Unused \in Req
  BY UnusedReq
<1> QED
  BY <1>1 DEF Req, FlushOf

LEMMA DevsAreQps == Devs \subseteq Qps
<1>1. PICK d \in Nat, n \in Nat : d = NDevs /\ n = Nqps /\ d <= n
  <2>1. PICK d \in Nat \ {0} : d = NDevs
    BY StripingAssumption
  <2>2. PICK p \in Nat \ {0} : p = QpsPerConn
    BY StripingAssumption
  <2>3. PICK j \in Nat : p = j + 1
    BY <2>2
  <2>4. j * d \in Nat /\ p * d = j * d + d
    BY <2>3
  <2>5. p * d \in Nat /\ d <= p * d
    BY <2>4
  <2> QED
    BY <2>1, <2>2, <2>5 DEF Nqps
<1> QED
  BY <1>1 DEF Devs, Qps

\* The request a receive or a flush is given.
LEMMA RecvReqGiven ==
    ASSUME RecvInv, FreeReqs(rreqs) # {}
    PROVE  /\ GetRequest(rreqs) \in ReqIds /\ rreqs[GetRequest(rreqs)].type = "UNUSED"
           /\ rreqs[GetRequest(rreqs)].events = NoEvents
<1>1. GetRequest(rreqs) \in ReqIds /\ rreqs[GetRequest(rreqs)].type = "UNUSED"
  BY FreeGiven
<1>2. RecvReqOk(GetRequest(rreqs))
  BY <1>1 DEF RecvInv
<1> QED
  BY <1>1, <1>2 DEF RecvReqOk

LEMMA IflushRecv ==
    ASSUME RecvInv, NEW k \in DOMAIN ops, Iflush(k)
    PROVE  RecvInv'
<1>1. /\ TypeOK /\ InStep /\ CtsRight /\ fifoTail = Len(ops) /\ fifoTail \in Nat /\ Consumed \in Nat
      /\ k \in 1 .. fifoTail /\ ops[k].state = "done" /\ ops[k] \in Op /\ StateOk(k)
  BY OpsKnown DEF Iflush
<1>2. k <= Consumed /\ ~(k + Window <= fifoTail)
  BY <1>1 DEF StateOk
<1>3. Consumed' = Consumed /\ fifoTail' = fifoTail
  BY DEF Iflush, Consumed, svars
<1>4. ASSUME NEW j \in ReqIds, rreqs[j].type # "UNUSED"
      PROVE rreqs[j].op \in 1 .. fifoTail /\ rreqs[j].op # k
  BY <1>1, <1>4, ReqKnown
<1>5. ASSUME NEW st \in {"flushing", "retired"}, ops' = [ops EXCEPT ![k].state = st]
      PROVE  /\ ops' \in Seq(Op) /\ Len(ops') = Len(ops) /\ DOMAIN ops' = 1 .. fifoTail
             /\ ops'[k].state = st /\ \A j \in 1 .. fifoTail : j # k => ops'[j] = ops[j]
             /\ \A j \in 1 .. fifoTail : ops'[j].recv = ops[j].recv
             /\ \A j \in DOMAIN ops' : StateOk(j)'
  <2> DEFINE o == InState(ops[k], st)
  <2>1. o \in Op /\ o.recv = ops[k].recv /\ o.state = st
    BY <1>1, <1>5, OpInState
  <2>2. ops' = [ops EXCEPT ![k] = o]
    BY <1>5 DEF InState
  <2> HIDE DEF o
  <2> QED
    BY <1>1, <1>2, <1>3, <2>1, <2>2, OpStep
<1>6. InStep' /\ CtsRight'
  <2>1. Len(ops') = Len(ops) /\ \A j \in 1 .. fifoTail : ops'[j].recv = ops[j].recv
    BY <1>5 DEF Iflush
  <2>2. InStep'
    BY <1>1, <1>3, <2>1 DEF InStep, Iflush, svars
  <2> QED
    BY <1>1, <1>3, <2>1, <2>2, CtsFrame DEF Iflush, svars
<1>7. CASE ~FlushEnabled \/ \A r \in DOMAIN ops[k].sizes : ops[k].sizes[r] = 0
  <2>1. ops' = [ops EXCEPT ![k].state = "retired"] /\ rreqs' = rreqs /\ rcq' = rcq
        /\ recvQueue' = recvQueue /\ dataWire' = dataWire
    BY <1>7 DEF Iflush
  <2>2. /\ ops' \in Seq(Op) /\ DOMAIN ops' = 1 .. fifoTail
        /\ \A j \in 1 .. fifoTail : j # k => ops'[j] = ops[j]
        /\ \A j \in DOMAIN ops' : StateOk(j)'
    BY <1>5, <2>1
  <2>3. TypeOK'
    BY <1>1, <2>1, <2>2 DEF TypeOK, Iflush, svars
  <2>4. ASSUME NEW j \in ReqIds PROVE RecvReqOk(j)'
    <3>1. RecvReqOk(j)
      BY DEF RecvInv
    <3>2. rreqs[j].type # "UNUSED" => ops'[rreqs[j].op] = ops[rreqs[j].op]
      BY <1>4, <2>2
    <3> QED
      BY <1>3, <2>1, <3>1, <3>2 DEF RecvReqOk
  <2>5. \A q \in Qps : QpOk(q)'
    BY <1>1, <1>3, <2>1, QpFrame DEF RecvInv
  <2>6. \A c \in rcq' : RecvCqeOk(c)'
    BY <1>1, <2>1, CqeFrame DEF RecvInv
  <2>7. \A id \in ReqIds, d \in Devs : RecvEventsOk(id, d)'
    BY <2>1, EventsFrame DEF RecvInv
  <2> QED
    BY <1>6, <2>2, <2>3, <2>4, <2>5, <2>6, <2>7 DEF RecvInv
<1>8. CASE ~(~FlushEnabled \/ \A r \in DOMAIN ops[k].sizes : ops[k].sizes[r] = 0)
  <2>0. PICK id \in ReqIds : id = GetRequest(rreqs)
    BY <1>8, FreeGiven DEF Iflush
  <2> DEFINE p == [Unused EXCEPT !.type = "FLUSH", !.events = [d \in Devs |-> 1], !.op = k]
             cqe(d) == [dev |-> d, qp |-> d, opcode |-> "RDMA_READ", wr_id |-> id, imm |-> 0, op |-> k]
             new == {cqe(d) : d \in Devs}
  <2>1. /\ FreeReqs(rreqs) # {} /\ rreqs' = [rreqs EXCEPT ![id] = p] /\ rcq' = rcq \cup new
        /\ ops' = [ops EXCEPT ![k].state = "flushing"]
        /\ recvQueue' = recvQueue /\ dataWire' = dataWire
    BY <1>8, <2>0 DEF Iflush
  <2>2. id \in ReqIds /\ rreqs[id].type = "UNUSED" /\ rreqs[id].events = NoEvents
    BY <2>0, <2>1, RecvReqGiven
  <2>3. /\ p \in Req /\ p.type = "FLUSH" /\ p.op = k /\ \A d \in Devs : p.events[d] = 1
    <3> DEFINE e == [d \in Devs |-> 1]
    <3>1. e \in [Devs -> Int] /\ \A d \in Devs : e[d] = 1
      OBVIOUS
    <3>2. k \in Nat /\ p = FlushOf(k, e)
      BY <1>1 DEF FlushOf
    <3> HIDE DEF p, e
    <3>3. p \in Req /\ p.type = "FLUSH" /\ p.events = e /\ p.op = k
      BY <3>1, <3>2, FlushReq
    <3> QED
      BY <3>1, <3>3
  <2>4. \A d \in Devs : /\ cqe(d) \in RecvCqe /\ cqe(d).wr_id = id /\ cqe(d).dev = d
                        /\ cqe(d).opcode = "RDMA_READ" /\ cqe(d).op = k
    <3>1. k \in Nat /\ 0 \in Nat
      BY <1>1
    <3>2. \A d \in Devs : cqe(d) \in RecvCqe
      BY <2>2, <3>1, DevsAreQps, NewCqe
    <3> QED
      BY <3>2
  <2> HIDE DEF p, cqe
  <2>5. \A c \in new : c \in RecvCqe /\ c.wr_id = id /\ c.opcode = "RDMA_READ" /\ c.op = k
    BY <2>4
  <2>6. rcq \cap new = {}
    BY <2>2, <2>5, NothingLeft
  <2> HIDE DEF new
  <2>7. /\ rreqs' \in [ReqIds -> Req] /\ rreqs'[id] = p
        /\ \A j \in ReqIds \ {id} : rreqs'[j] = rreqs[j]
        /\ \A q \in Qps : QpOk(q)'
        /\ \A c \in rcq : RecvCqeOk(c)'
        /\ \A j \in ReqIds \ {id}, d \in Devs : RecvEventsOk(j, d)'
        /\ \A d \in Devs : QpsWith(id, d)' = {} /\ CqesOf(id, d)' = {c \in rcq' \ rcq : c.dev = d}
    <3>1. (\A c \in rcq : c \in rcq') /\ \A c \in rcq' \ rcq : c \in RecvCqe /\ c.wr_id = id
      BY <2>1, <2>5
    <3> QED
      BY <1>3, <2>1, <2>2, <2>3, <3>1, OtherReqs
  <2>8. /\ ops' \in Seq(Op) /\ DOMAIN ops' = 1 .. fifoTail /\ ops'[k].state = "flushing"
        /\ \A j \in 1 .. fifoTail : j # k => ops'[j] = ops[j]
        /\ \A j \in DOMAIN ops' : StateOk(j)'
    BY <1>5, <2>1
  <2>9. TypeOK'
    <3>1. rcq' \subseteq RecvCqe
      BY <1>1, <2>1, <2>5 DEF TypeOK
    <3> QED
      BY <1>1, <2>1, <2>7, <2>8, <3>1 DEF TypeOK, Iflush, svars
  <2>10. ASSUME NEW j \in ReqIds PROVE RecvReqOk(j)'
    <3>1. CASE j = id
      <4>1. \A i \in ReqIds : rreqs'[i].type # "UNUSED" /\ rreqs'[i].op = k => i = id
        BY <1>4, <2>7
      <4> QED
        BY <1>1, <1>3, <2>3, <2>7, <2>8, <3>1, <4>1 DEF RecvReqOk
    <3>2. CASE j # id
      <4>1. RecvReqOk(j) /\ rreqs'[j] = rreqs[j]
        BY <2>7, <3>2 DEF RecvInv
      <4>2. CASE rreqs[j].type = "UNUSED"
        BY <4>1, <4>2 DEF RecvReqOk
      <4>3. CASE rreqs[j].type # "UNUSED"
        <5>1. rreqs[j].op # k /\ ops'[rreqs[j].op] = ops[rreqs[j].op]
          BY <1>4, <2>8, <4>3
        <5>2. \A i \in ReqIds : rreqs'[i].op = rreqs[j].op => rreqs'[i] = rreqs[i]
          BY <2>3, <2>7, <5>1
        <5> QED
          BY <1>3, <4>1, <4>3, <5>1, <5>2 DEF RecvReqOk
      <4> QED
        BY <4>2, <4>3
    <3> QED
      BY <3>1, <3>2
  <2>11. \A c \in rcq' : RecvCqeOk(c)'
    <3>1. ASSUME NEW c \in new PROVE RecvCqeOk(c)'
      BY <2>3, <2>5, <2>7 DEF RecvCqeOk
    <3> QED
      BY <2>1, <2>7, <3>1
  <2>12. ASSUME NEW d \in Devs PROVE RecvEventsOk(id, d)'
    <3>1. CqesOf(id, d)' = {cqe(d)}
      <4>1. {c \in rcq' \ rcq : c.dev = d} = {c \in new : c.dev = d}
        BY <2>1, <2>6
      <4>2. {c \in new : c.dev = d} = {cqe(d)}
        BY <2>4 DEF new
      <4> QED
        BY <2>7, <4>1, <4>2
    <3>2. IsFiniteSet({cqe(d)}) /\ Cardinality({cqe(d)}) = 1
      BY FS_Singleton
    <3>3. QpsWith(id, d)' = {} /\ Cardinality({}) = 0 /\ rreqs'[id].events[d] = 1
      BY <2>3, <2>7, FS_EmptySet
    <3> QED
      BY <3>1, <3>2, <3>3 DEF RecvEventsOk
  <2> QED
    BY <1>6, <2>7, <2>8, <2>9, <2>10, <2>11, <2>12 DEF RecvInv
<1> QED
  BY <1>7, <1>8

----------------------------------------------------------------------------
(* ncclIbIrecv. *)

NewOp(recv) == [recv |-> recv, state |-> "posted", sent |-> [r \in DOMAIN recv |-> NotSent],
                arrived |-> [r \in DOMAIN recv |-> {}], sizes |-> <<>>]

LEMMA NewOpType ==
    ASSUME NEW recv \in Receives
    PROVE  /\ NewOp(recv) \in Op /\ NewOp(recv).recv = recv /\ NewOp(recv).state = "posted"
           /\ NewOp(recv).sent = [r \in 1 .. Len(recv) |-> NotSent]
           /\ NewOp(recv).arrived = [r \in 1 .. Len(recv) |-> {}]
           /\ NewOp(recv).sizes = <<>>
<1>1. PICK n \in Nat : n = Len(recv) /\ DOMAIN recv = 1 .. n
  BY RecvFields
<1>2. PICK s \in Seq(Int) : s = [r \in 1 .. n |-> NotSent]
  <2>1. NotSent \in Int
    BY DEF NotSent
  <2>2. [r \in 1 .. n |-> NotSent] \in Seq(Int)
    BY <2>1
  <2> QED
    BY <2>2
<1>3. PICK a \in Seq(SUBSET Nat) : a = [r \in 1 .. n |-> {}]
  <2>1. [r \in 1 .. n |-> {}] \in Seq(SUBSET Nat)
    OBVIOUS
  <2> QED
    BY <2>1
<1>4. NewOp(recv) = [recv |-> recv, state |-> "posted", sent |-> s, arrived |-> a, sizes |-> <<>>]
  BY <1>1, <1>2, <1>3 DEF NewOp
<1>5. <<>> \in Seq(Nat)
  OBVIOUS
<1> QED
  BY <1>1, <1>2, <1>3, <1>4, <1>5 DEF Op

\* What ncclIbIrecv and ncclIbPostFifo do, with the request, the device and the
\* QP at which they start named.
Posting(recv, id, t, x, dv, ev, N) ==
    /\ rreqs[id].type = "UNUSED" /\ rreqs[id].events = NoEvents
    /\ t = fifoTail /\ x = rqpIndex /\ x = StartQp(t + 1)
    /\ \A k \in 1 .. t : k + Window <= t + 1 => ops[k].state = "retired"
    /\ ev \in [Devs -> Int]
    /\ \A c \in N : c \in RecvCqe /\ c.wr_id = id /\ c.op = t + 1 /\ c.opcode = "RDMA_WRITE" /\ c.dev = dv
    /\ \A d \in Devs : /\ IsFiniteSet({c \in N : c.dev = d})
                       /\ ev[d] = Cardinality({c \in N : c.dev = d}) + Cardinality({q \in QpsFrom(x) : DevOf(q) = d})
    /\ rreqs' = [rreqs EXCEPT ![id] = [type |-> "RECV", events |-> ev, nreqs |-> Len(recv),
                                       arg |-> FifoSlot(t), op |-> t + 1]]
    /\ recvQueue' = [q \in Qps |-> IF q \in QpsFrom(x) THEN Append(recvQueue[q], id) ELSE recvQueue[q]]
    /\ rqpIndex' = NextQpIndex(x)
    /\ ctsWire' = ctsWire \cup {[slot |-> FifoSlot(t), r |-> r,
                                 elem |-> [idx |-> t + 1, nreqs |-> Len(recv), size |-> recv[r].size,
                                           tag |-> recv[r].tag]] : r \in DOMAIN recv}
    /\ rcq' = rcq \cup N
    /\ fifoTail' = t + 1
    /\ ops' = Append(ops, NewOp(recv))

LEMMA IrecvPosts ==
    ASSUME RecvInv, NEW recv \in Receives, Irecv(recv)
    PROVE  \E id \in ReqIds, t \in Nat, x \in Nat, dv \in Devs,
              ev \in [Devs -> Int], N \in SUBSET RecvCqe : Posting(recv, id, t, x, dv, ev, N)
<1>1. /\ TypeOK /\ InStep /\ fifoTail = Len(ops) /\ fifoTail \in Nat /\ DOMAIN ops = 1 .. fifoTail
  BY OpsKnown
<1>2. FreeReqs(rreqs) # {}
  BY DEF Irecv
<1>3. PICK id \in ReqIds : id = GetRequest(rreqs) /\ rreqs[id].type = "UNUSED" /\ rreqs[id].events = NoEvents
  BY <1>2, RecvReqGiven
<1>4. PICK t \in Nat : t = fifoTail
  BY <1>1
<1>5. PICK x \in Nat : x = rqpIndex /\ x = StartQp(t + 1)
  <2>1. rqpIndex \in Nat
    BY <1>1, QpCounts DEF TypeOK, Qps
  <2> QED
    BY <1>1, <1>4, <2>1 DEF InStep
<1>6. devIndex \in Qps /\ devIndex \in Devs
  BY <1>1, DevsAreQps DEF TypeOK
<1>7. PICK dv \in Devs : dv = DevOf(devIndex)
  BY <1>6, DevsOfQps
<1>8. PICK i \in Nat : i = ctsPosted[dv] + 1
  BY <1>1 DEF TypeOK
<1> DEFINE cqe == [dev |-> dv, qp |-> devIndex, opcode |-> "RDMA_WRITE", wr_id |-> id, imm |-> i, op |-> t + 1]
           N == IF CtsSignaled THEN {cqe} ELSE {}
           ev == RecvEvents
           E(d) == {q \in QpsFrom(x) : DevOf(q) = d}
<1>9. cqe \in RecvCqe /\ cqe.wr_id = id /\ cqe.op = t + 1 /\ cqe.opcode = "RDMA_WRITE" /\ cqe.dev = dv
  <2>1. t + 1 \in Nat
    OBVIOUS
  <2>2. cqe \in RecvCqe
    BY <1>6, <2>1, NewCqe
  <2> QED
    BY <2>2
<1>10. /\ EventsFrom(x) \in [Devs -> Nat]
       /\ \A d \in Devs : EventsFrom(x)[d] = Cardinality(E(d))
  BY EventsFromType
<1>11. \A d \in Devs : ev[d] = EventsFrom(x)[d] + IF CtsSignaled /\ d = dv THEN 1 ELSE 0
  BY <1>5, <1>7 DEF RecvEvents
<1>12. ev \in [Devs -> Int]
  <2>1. \A d \in Devs : EventsFrom(x)[d] + (IF CtsSignaled /\ d = dv THEN 1 ELSE 0) \in Int
    BY <1>10
  <2> QED
    BY <1>5, <1>7, <2>1 DEF RecvEvents
<1> HIDE DEF ev, cqe
<1>13. ASSUME NEW d \in Devs
       PROVE /\ IsFiniteSet({c \in N : c.dev = d})
             /\ ev[d] = Cardinality({c \in N : c.dev = d}) + Cardinality(E(d))
  <2>1. Cardinality(E(d)) \in Nat /\ ev[d] = Cardinality(E(d)) + IF CtsSignaled /\ d = dv THEN 1 ELSE 0
    BY <1>10, <1>11
  <2> HIDE DEF E
  <2>2. CASE CtsSignaled /\ d = dv
    <3>1. {c \in N : c.dev = d} = {cqe}
      BY <1>9, <2>2
    <3>2. IsFiniteSet({cqe}) /\ Cardinality({cqe}) = 1
      BY FS_Singleton
    <3>3. ev[d] = Cardinality(E(d)) + 1
      BY <2>1, <2>2
    <3>4. ev[d] = 1 + Cardinality(E(d))
      BY <2>1, <3>3
    <3> QED
      BY <3>1, <3>2, <3>4
  <2>3. CASE ~(CtsSignaled /\ d = dv)
    <3>1. {c \in N : c.dev = d} = {}
      BY <1>9, <2>3
    <3>2. IsFiniteSet({}) /\ Cardinality({}) = 0
      BY FS_EmptySet
    <3>3. ev[d] = Cardinality(E(d)) + 0
      BY <2>1, <2>3
    <3>4. ev[d] = 0 + Cardinality(E(d))
      BY <2>1, <3>3
    <3> QED
      BY <3>1, <3>2, <3>4
  <2> QED
    BY <2>2, <2>3
<1>14. \A c \in N : c \in RecvCqe /\ c.wr_id = id /\ c.op = t + 1 /\ c.opcode = "RDMA_WRITE" /\ c.dev = dv
  BY <1>9
<1>15. rcq' = rcq \cup N
  BY <1>3, <1>4, <1>7, <1>8 DEF Irecv, cqe
<1> HIDE DEF N
<1>16. \A k \in 1 .. t : k + Window <= t + 1 => ops[k].state = "retired"
  BY <1>1, <1>4 DEF Irecv, RecvWindowOpen
<1>17. rreqs' = [rreqs EXCEPT ![id] = [type |-> "RECV", events |-> ev, nreqs |-> Len(recv),
                                       arg |-> FifoSlot(t), op |-> t + 1]]
  BY <1>3, <1>4 DEF Irecv, ev
<1>18. recvQueue' = [q \in Qps |-> IF q \in QpsFrom(x) THEN Append(recvQueue[q], id) ELSE recvQueue[q]]
  BY <1>3, <1>5 DEF Irecv, RecvPosts
<1>19. ctsWire' = ctsWire \cup {[slot |-> FifoSlot(t), r |-> r,
                                 elem |-> [idx |-> t + 1, nreqs |-> Len(recv), size |-> recv[r].size,
                                           tag |-> recv[r].tag]] : r \in DOMAIN recv}
  BY <1>4 DEF Irecv, CtsElements
<1>20. rqpIndex' = NextQpIndex(x) /\ fifoTail' = t + 1 /\ ops' = Append(ops, NewOp(recv))
  BY <1>4, <1>5 DEF Irecv, NewOp
<1>21. Posting(recv, id, t, x, dv, ev, N)
  BY <1>3, <1>4, <1>5, <1>12, <1>13, <1>14, <1>15, <1>16, <1>17, <1>18, <1>19, <1>20 DEF Posting
<1>22. N \in SUBSET RecvCqe
  BY <1>14
<1> QED
  BY <1>12, <1>21, <1>22

LEMMA NewElem ==
    ASSUME NEW i \in Nat, NEW n \in Nat, NEW s \in Nat, NEW t \in Int
    PROVE  [idx |-> i, nreqs |-> n, size |-> s, tag |-> t] \in Elem
BY DEF Elem

LEMMA NewCtsElem ==
    ASSUME NEW s \in Slots, NEW r \in Recvs, NEW e \in Elem
    PROVE  [slot |-> s, r |-> r, elem |-> e] \in CtsElem
BY DEF CtsElem

LEMMA IrecvTypes ==
    ASSUME RecvInv, NEW recv \in Receives, Irecv(recv),
           NEW id \in ReqIds, NEW t \in Nat, NEW x \in Nat, NEW dv \in Devs,
           NEW ev \in [Devs -> Int], NEW N \in SUBSET RecvCqe, Posting(recv, id, t, x, dv, ev, N)
    PROVE  TypeOK'
<1>1. TypeOK /\ t = Len(ops) /\ t = fifoTail
  BY OpsKnown DEF Posting
<1>2. recvQueue' \in [Qps -> Seq(ReqIds)]
  <2>1. ASSUME NEW q \in Qps PROVE Append(recvQueue[q], id) \in Seq(ReqIds) /\ recvQueue[q] \in Seq(ReqIds)
    BY <1>1, RecvTypes
  <2> QED
    BY <2>1 DEF Posting
<1>3. rreqs' \in [ReqIds -> Req]
  <2>1. Len(recv) \in Nat /\ FifoSlot(t) \in Nat /\ t + 1 \in Nat
    BY RecvFields, SlotOfTail, Limits DEF Slots
  <2>2. [type |-> "RECV", events |-> ev, nreqs |-> Len(recv), arg |-> FifoSlot(t), op |-> t + 1] \in Req
    BY <2>1, NewReq
  <2> QED
    BY <1>1, <2>2 DEF Posting, TypeOK
<1>4. rqpIndex' \in Qps /\ fifoTail' \in Nat
  <2>1. t + 1 \in Nat \ {0} /\ t + 1 + 1 \in Nat \ {0}
    OBVIOUS
  <2>2. NextQpIndex(x) = StartQp(t + 1 + 1)
    BY <2>1, StartNext DEF Posting
  <2>3. StartQp(t + 1 + 1) \in Qps
    BY <2>1, StartNext
  <2> QED
    BY <2>1, <2>2, <2>3 DEF Posting
<1>5. devIndex' \in Devs
  <2>1. PICK n \in Nat \ {0} : n = NDevs
    BY QpCounts
  <2>2. PICK y \in Int : y = devIndex + 1
    BY <1>1, <2>1 DEF TypeOK, Devs
  <2>3. y % n \in 0 .. n - 1
    BY Remainder
  <2> QED
    BY <2>1, <2>2, <2>3 DEF Irecv, NextDevIndex, Devs
<1>6. sizesFifo' \in [Slots -> [Recvs -> Nat]]
  <2>1. FifoSlot(fifoTail) \in Slots
    BY <1>1, SlotOfTail
  <2>2. [r \in Recvs |-> IF r \in DOMAIN recv THEN 0 ELSE sizesFifo[FifoSlot(fifoTail)][r]] \in [Recvs -> Nat]
    BY <1>1, <2>1 DEF TypeOK
  <2> QED
    BY <1>1, <2>2 DEF Irecv, TypeOK
<1>7. ctsWire' \subseteq CtsElem
  <2>1. ASSUME NEW r \in DOMAIN recv
        PROVE  [slot |-> FifoSlot(t), r |-> r,
                elem |-> [idx |-> t + 1, nreqs |-> Len(recv), size |-> recv[r].size,
                          tag |-> recv[r].tag]] \in CtsElem
    <3>1. r \in Recvs /\ recv[r].size \in Nat /\ recv[r].tag \in Int /\ Len(recv) \in Nat /\ FifoSlot(t) \in Slots
      BY RecvFields, SlotOfTail
    <3>2. PICK e \in Elem : e = [idx |-> t + 1, nreqs |-> Len(recv), size |-> recv[r].size,
                          tag |-> recv[r].tag]
      <4>1. t + 1 \in Nat
        OBVIOUS
      <4> QED
        BY <3>1, <4>1, NewElem
    <3> QED
      BY <3>1, <3>2, NewCtsElem
  <2> QED
    BY <1>1, <2>1 DEF Posting, TypeOK
<1>8. ctsPosted' \in [Devs -> Nat]
  <2>1. PICK y \in Devs : y = DevOf(devIndex)
    BY <1>1, DevsAreQps, DevsOfQps DEF TypeOK
  <2>2. ctsPosted' = [ctsPosted EXCEPT ![DevOf(devIndex)] = @ + 1]
    BY Zenon DEF Irecv
  <2>3. ctsPosted' = [ctsPosted EXCEPT ![y] = @ + 1]
    BY <2>1, <2>2
  <2>4. ctsPosted \in [Devs -> Nat]
    BY <1>1 DEF TypeOK
  <2> QED
    BY <2>3, <2>4
<1>9. rcq' \subseteq RecvCqe
  BY <1>1 DEF Posting, TypeOK
<1>10. ops' \in Seq(Op)
  <2>1. PICK o \in Op : o = NewOp(recv)
    BY NewOpType
  <2> QED
    BY <1>1, <2>1 DEF Posting, TypeOK
<1> QED
  BY <1>1, <1>2, <1>3, <1>4, <1>5, <1>6, <1>7, <1>8, <1>9, <1>10 DEF TypeOK, Irecv, svars

\* The queue of a QP with the work request of a new receive.
LEMMA IrecvQp ==
    ASSUME RecvInv, NEW recv \in Receives, Irecv(recv),
           NEW id \in ReqIds, NEW t \in Nat, NEW x \in Nat, NEW dv \in Devs,
           NEW ev \in [Devs -> Int], NEW N \in SUBSET RecvCqe, Posting(recv, id, t, x, dv, ev, N),
           NEW q \in Qps
    PROVE  QpOk(q)'
<1>1. /\ TypeOK /\ t = fifoTail /\ Consumed \in Nat /\ Consumed <= t /\ Consumed' = Consumed
      /\ fifoTail' = t + 1 /\ dataWire' = dataWire
  BY OpsKnown DEF Posting, Irecv, Consumed, svars
<1>0. PICK n \in Nat : n = Len(recvQueue[q])
  BY <1>1, RecvTypes
<1>2. n \in Nat /\ recvQueue[q] \in Seq(ReqIds) /\ Len(dataWire[q]) \in Nat /\ QpOk(q)
  BY <1>0, <1>1, RecvTypes DEF RecvInv
<1>3. ASSUME NEW i \in 1 .. n
      PROVE  /\ recvQueue[q][i] \in ReqIds /\ recvQueue[q][i] # id
             /\ QueuedOp(q, i) \in 1 .. t
             /\ rreqs[recvQueue[q][i]].type = "RECV"
  <2>1. recvQueue[q][i] \in ReqIds /\ rreqs[recvQueue[q][i]].type = "RECV"
    BY <1>1, <1>0, <1>2, RecvTypes DEF QpOk
  <2> QED
    BY <1>1, <2>1, NothingLeft, ReqKnown DEF Posting, QueuedOp
<1>4. \A j \in ReqIds \ {id} : rreqs'[j] = rreqs[j]
  BY <1>1 DEF Posting, TypeOK
<1>5. rreqs'[id].type = "RECV" /\ rreqs'[id].op = t + 1
  BY <1>1 DEF Posting, TypeOK
<1>6. t + 1 \in Nat /\ QpsOf(t + 1) = QpsFrom(x)
  BY DEF QpsOf, Posting
<1>7. CASE q \in QpsFrom(x)
  <2>1. recvQueue'[q] = Append(recvQueue[q], id)
    BY <1>7 DEF Posting
  <2>2. Len(recvQueue'[q]) = n + 1 /\ recvQueue'[q][n + 1] = id /\ \A i \in 1 .. n : recvQueue'[q][i] = recvQueue[q][i]
    BY <1>0, <1>2, <2>1
  <2>3. \A i \in 1 .. n : QueuedOp(q, i)' = QueuedOp(q, i) /\ QueuedOp(q, i) \in 1 .. t
                          /\ rreqs'[recvQueue'[q][i]].type = "RECV"
    <3> SUFFICES ASSUME NEW i \in 1 .. n
                 PROVE  QueuedOp(q, i)' = QueuedOp(q, i) /\ QueuedOp(q, i) \in 1 .. t
                        /\ rreqs'[recvQueue'[q][i]].type = "RECV"
      OBVIOUS
    <3>1. recvQueue'[q][i] = recvQueue[q][i]
      BY <2>2
    <3>2. recvQueue[q][i] \in ReqIds \ {id} /\ QueuedOp(q, i) \in 1 .. t /\ rreqs[recvQueue[q][i]].type = "RECV"
      BY <1>3
    <3>3. rreqs'[recvQueue'[q][i]] = rreqs[recvQueue[q][i]]
      BY <1>4, <3>1, <3>2, Zenon
    <3> QED
      BY <3>2, <3>3, Zenon DEF QueuedOp
  <2>4. QueuedOp(q, n + 1)' = t + 1 /\ rreqs'[recvQueue'[q][n + 1]].type = "RECV"
    BY <1>5, <2>2 DEF QueuedOp
  <2>5. \A i \in 1 .. n + 1 : i \in 1 .. n \/ i = n + 1
    BY <1>0, <1>2
  <2> HIDE DEF QueuedOp
  <2>6. \A i \in 1 .. n + 1 : rreqs'[recvQueue'[q][i]].type = "RECV" /\ q \in QpsOf(QueuedOp(q, i)')
    <3>1. \A i \in 1 .. n : q \in QpsOf(QueuedOp(q, i))
      BY <1>0, <1>2 DEF QpOk
    <3> QED
      BY <1>6, <1>7, <2>3, <2>4, <2>5, <3>1
  <2>7. \A i, j \in 1 .. n + 1 : i < j => QueuedOp(q, i)' < QueuedOp(q, j)'
    <3>1. \A i, j \in 1 .. n : i < j => QueuedOp(q, i) < QueuedOp(q, j)
      BY <1>0, <1>2 DEF QpOk
    <3> SUFFICES ASSUME NEW i \in 1 .. n + 1, NEW j \in 1 .. n + 1, i < j
                 PROVE QueuedOp(q, i)' < QueuedOp(q, j)'
      OBVIOUS
    <3>2. i \in 1 .. n
      BY <1>0, <1>2
    <3>3. CASE j \in 1 .. n
      BY <2>3, <3>1, <3>2, <3>3
    <3>4. CASE j = n + 1
      <4>1. QueuedOp(q, i)' \in 1 .. t /\ QueuedOp(q, j)' = t + 1
        BY <2>3, <2>4, <3>2, <3>4
      <4> QED
        BY <4>1
    <3> QED
      BY <2>5, <3>3, <3>4
  <2>8. ASSUME NEW k \in Consumed + 1 .. t + 1, q \in QpsOf(k)
        PROVE  \E i \in 1 .. n + 1 : QueuedOp(q, i)' = k
    <3>1. CASE k = t + 1
      <4>1. n + 1 \in 1 .. n + 1
        BY <1>0, <1>2
      <4> QED
        BY <2>4, <3>1, <4>1
    <3>2. CASE k # t + 1
      <4>1. k \in Consumed + 1 .. t
        BY <1>1, <3>2
      <4>2. PICK i \in 1 .. n : QueuedOp(q, i) = k
        BY <1>1, <1>0, <1>2, <2>8, <4>1 DEF QpOk
      <4>3. i \in 1 .. n + 1
        BY <1>0, <1>2
      <4> QED
        BY <2>3, <4>2, <4>3
    <3> QED
      BY <3>1, <3>2
  <2>9. ASSUME NEW i \in 1 .. n + 1
        PROVE  IF i <= Len(dataWire[q])
               THEN dataWire[q][i].dst # <<>> /\ dataWire[q][i].dst[1] = QueuedOp(q, i)' /\ QueuedOp(q, i)' <= Consumed
               ELSE QueuedOp(q, i)' > Consumed
    <3>1. CASE i \in 1 .. n
      BY <1>0, <1>2, <2>3, <3>1 DEF QpOk
    <3>2. CASE i = n + 1
      <4>1. Len(dataWire[q]) <= n
        BY <1>0, <1>2 DEF QpOk
      <4>2. QueuedOp(q, i)' = t + 1 /\ t \in Nat
        BY <1>1, <2>4, <3>2
      <4>3. ~(i <= Len(dataWire[q]))
        BY <1>2, <3>2, <4>1
      <4>4. t + 1 > Consumed
        BY <1>1
      <4> QED
        BY <4>2, <4>3, <4>4, Zenon
    <3> QED
      BY <2>5, <3>1, <3>2
  <2>10. Len(dataWire[q]) <= n + 1
    BY <1>0, <1>2 DEF QpOk
  <2> QED
    BY <1>1, <2>2, <2>6, <2>7, <2>8, <2>9, <2>10 DEF QpOk
<1>8. CASE q \notin QpsFrom(x)
  <2>1. recvQueue'[q] = recvQueue[q]
    BY <1>8 DEF Posting
  <2>2. \A i \in 1 .. n : QueuedOp(q, i)' = QueuedOp(q, i) /\ rreqs'[recvQueue'[q][i]].type = "RECV"
    BY <1>3, <1>4, <2>1 DEF QueuedOp
  <2> HIDE DEF QueuedOp
  <2>3. ASSUME NEW k \in Consumed + 1 .. t + 1, q \in QpsOf(k)
        PROVE  \E i \in 1 .. n : QueuedOp(q, i)' = k
    <3>1. k # t + 1
      BY <1>6, <1>8, <2>3
    <3>2. k \in Consumed + 1 .. t
      BY <1>1, <3>1
    <3>3. PICK i \in 1 .. n : QueuedOp(q, i) = k
      BY <1>1, <1>0, <1>2, <2>3, <3>2 DEF QpOk
    <3> QED
      BY <2>2, <3>3
  <2> QED
    BY <1>1, <1>0, <1>2, <2>1, <2>2, <2>3 DEF QpOk
<1> QED
  BY <1>7, <1>8

LEMMA IrecvRecv ==
    ASSUME RecvInv, NEW recv \in Receives, Irecv(recv)
    PROVE  RecvInv'
<1>1. PICK id \in ReqIds, t \in Nat, x \in Nat, dv \in Devs,
              ev \in [Devs -> Int], N \in SUBSET RecvCqe : Posting(recv, id, t, x, dv, ev, N)
  BY IrecvPosts
<1>2. TypeOK'
  BY <1>1, IrecvTypes
<1>3. \A q \in Qps : QpOk(q)'
  BY <1>1, IrecvQp
<1>4. /\ TypeOK /\ InStep /\ CtsRight /\ t = fifoTail /\ t = Len(ops) /\ Consumed \in Nat /\ Consumed <= t
      /\ Consumed' = Consumed /\ fifoTail' = t + 1 /\ fifo' = fifo /\ sqpIndex' = sqpIndex
      /\ \A k \in 1 .. t : StateOk(k) /\ ops[k] \in Op
  BY <1>1, OpsKnown DEF Posting, Irecv, Consumed, svars
<1>5. PICK o \in Op : /\ o = NewOp(recv) /\ o.recv = recv /\ o.state = "posted"
  BY NewOpType
<1>6. /\ Len(ops') = t + 1 /\ DOMAIN ops' = 1 .. t + 1 /\ ops'[t + 1] = o
      /\ \A k \in 1 .. t : ops'[k] = ops[k]
  <2>1. ops' = Append(ops, o) /\ ops \in Seq(Op)
    BY <1>1, <1>4, <1>5 DEF Posting, TypeOK
  <2> QED
    BY <1>4, <2>1
<1>7. \A k \in 1 .. t + 1 : k \in 1 .. t \/ k = t + 1
  OBVIOUS
<1>8. InStep'
  <2>1. t + 1 \in Nat \ {0}
    OBVIOUS
  <2>2. rqpIndex' = StartQp(t + 1 + 1)
    BY <1>1, <2>1, StartNext DEF Posting
  <2> QED
    BY <1>4, <1>6, <2>2 DEF InStep
<1>9. CtsRight'
  <2>1. ASSUME NEW r \in DOMAIN recv, NEW e \in CtsElem,
               e = [slot |-> FifoSlot(t), r |-> r,
                    elem |-> [idx |-> t + 1, nreqs |-> Len(recv), size |-> recv[r].size, tag |-> recv[r].tag]]
        PROVE  Announces(e.slot, e.r, e.elem)'
    <3>1. e.slot = FifoSlot(t) /\ e.r = r /\ e.elem.idx = t + 1 /\ e.elem.nreqs = Len(recv)
          /\ e.elem.size = recv[r].size /\ e.elem.tag = recv[r].tag
      BY <2>1
    <3>2. r \in 1 .. Len(recv) /\ t + 1 - 1 = t /\ t + 1 \in 1 .. t + 1
      BY RecvFields
    <3> QED
      BY <1>4, <1>5, <1>6, <3>1, <3>2 DEF Announces
  <2>2. \A e \in ctsWire' : e \in ctsWire \/ (e \in CtsElem /\ Announces(e.slot, e.r, e.elem)')
    <3> SUFFICES ASSUME NEW e \in ctsWire', e \notin ctsWire
                 PROVE  e \in CtsElem /\ Announces(e.slot, e.r, e.elem)'
      OBVIOUS
    <3>1. e \in CtsElem
      BY <1>2 DEF TypeOK
    <3>2. PICK r \in DOMAIN recv :
               e = [slot |-> FifoSlot(t), r |-> r,
                    elem |-> [idx |-> t + 1, nreqs |-> Len(recv), size |-> recv[r].size, tag |-> recv[r].tag]]
      BY <1>1 DEF Posting
    <3> QED
      BY <2>1, <3>1, <3>2
  <2> QED
    BY <1>4, <1>6, <2>2, CtsFrame
<1>10. rreqs'[id].type = "RECV" /\ rreqs'[id].op = t + 1 /\ rreqs'[id].nreqs = Len(recv)
       /\ rreqs'[id].arg = FifoSlot(t) /\ rreqs'[id].events = ev
  BY <1>1, <1>4 DEF Posting, TypeOK
<1>11. \A j \in ReqIds \ {id} : rreqs'[j] = rreqs[j]
  BY <1>1, <1>4 DEF Posting, TypeOK
<1>12. rreqs[id].type = "UNUSED" /\ rreqs[id].events = NoEvents
  BY <1>1 DEF Posting
<1>13. \A j \in ReqIds \ {id} : rreqs[j].type # "UNUSED" => rreqs[j].op \in 1 .. t
  BY <1>4, ReqKnown
<1>14. ASSUME NEW j \in ReqIds PROVE RecvReqOk(j)'
  <2>1. CASE j = id
    <3>1. \A i \in ReqIds : rreqs'[i].type # "UNUSED" /\ rreqs'[i].op = t + 1 => i = id
      <4>1. \A i \in 1 .. t : i # t + 1
        OBVIOUS
      <4> QED
        BY <1>11, <1>13, <4>1
    <3>2. t + 1 \in 1 .. t + 1 /\ t + 1 - 1 = t
      OBVIOUS
    <3>3. PICK k : k = t + 1
      OBVIOUS
    <3>4. PICK p : p = rreqs'[id]
      OBVIOUS
    <3>5. /\ p.type = "RECV" /\ p.op = k /\ k \in 1 .. fifoTail' /\ ops'[k].state = "posted"
          /\ p.nreqs = Len(ops'[k].recv) /\ p.arg = FifoSlot(k - 1)
          /\ \A i \in ReqIds : rreqs'[i].type # "UNUSED" /\ rreqs'[i].op = k => i = id
      BY <1>4, <1>5, <1>6, <1>10, <3>1, <3>2, <3>3, <3>4
    <3> QED
      BY <2>1, <3>4, <3>5 DEF RecvReqOk
  <2>2. CASE j # id
    <3>1. RecvReqOk(j) /\ rreqs'[j] = rreqs[j]
      BY <1>11, <2>2 DEF RecvInv
    <3>2. CASE rreqs[j].type = "UNUSED"
      BY <3>1, <3>2 DEF RecvReqOk
    <3>3. CASE rreqs[j].type # "UNUSED"
      <4>1. PICK k \in 1 .. t : k = rreqs[j].op
        BY <1>13, <2>2, <3>3
      <4>2. ops'[k] = ops[k] /\ k \in 1 .. t + 1 /\ k # t + 1
        BY <1>6, <4>1
      <4>3. \A i \in ReqIds : rreqs'[i].type # "UNUSED" /\ rreqs'[i].op = k => i = j
        BY <1>10, <1>11, <3>1, <3>3, <4>1, <4>2 DEF RecvReqOk
      <4> QED
        BY <1>4, <3>1, <3>3, <4>1, <4>2, <4>3 DEF RecvReqOk
    <3> QED
      BY <3>2, <3>3
  <2> QED
    BY <2>1, <2>2
<1>15. \A k \in DOMAIN ops' : StateOk(k)'
  <2>1. PICK w \in Nat \ {0} : w = Window
    BY Limits
  <2>2. ASSUME NEW k \in 1 .. t PROVE StateOk(k)'
    <3>1. k + Window <= t + 1 => ops[k].state = "retired"
      BY <1>1 DEF Posting
    <3> QED
      BY <1>4, <1>6, <3>1 DEF StateOk
  <2>3. ~(t + 1 + w <= t + 1)
    OBVIOUS
  <2>4. StateOk(t + 1)'
    BY <1>4, <1>5, <1>6, <2>1, <2>3 DEF StateOk
  <2> QED
    BY <1>6, <1>7, <2>2, <2>4
<1>16. /\ rcq' = rcq \cup N
       /\ \A c \in N : c.wr_id = id /\ c.op = t + 1 /\ c.opcode = "RDMA_WRITE"
       /\ recvQueue' = [q \in Qps |-> IF q \in QpsFrom(x) THEN Append(recvQueue[q], id) ELSE recvQueue[q]]
  BY <1>1 DEF Posting
<1>17. /\ \A c \in rcq : c.wr_id # id /\ c.wr_id \in ReqIds /\ c.qp \in Qps
       /\ \A q \in Qps : \A i \in 1 .. Len(recvQueue[q]) : recvQueue[q][i] # id
  BY <1>4, <1>12, NothingLeft, CqeFields DEF TypeOK
<1>18. ASSUME NEW q \in Qps, NEW j \in ReqIds, j # id
       PROVE  (\E i \in 1 .. Len(recvQueue'[q]) : recvQueue'[q][i] = j)
              <=> (\E i \in 1 .. Len(recvQueue[q]) : recvQueue[q][i] = j)
  <2>1. recvQueue[q] \in Seq(ReqIds) /\ Len(recvQueue[q]) \in Nat
    BY <1>4, RecvTypes
  <2>2. CASE q \in QpsFrom(x)
    <3>1. recvQueue'[q] = Append(recvQueue[q], id)
      BY <1>16, <2>2
    <3> QED
      BY <1>18, <2>1, <3>1
  <2>3. CASE q \notin QpsFrom(x)
    BY <1>16, <2>3
  <2> QED
    BY <2>2, <2>3
<1>19. ASSUME NEW c \in rcq' PROVE RecvCqeOk(c)'
  <2>1. CASE c \in N
    BY <1>10, <1>16, <2>1 DEF RecvCqeOk
  <2>2. CASE c \in rcq
    <3>1. RecvCqeOk(c) /\ c.wr_id # id /\ c.wr_id \in ReqIds /\ c.qp \in Qps
      BY <1>17, <2>2 DEF RecvInv
    <3>2. rreqs'[c.wr_id] = rreqs[c.wr_id]
      BY <1>11, <3>1
    <3>3. (\E i \in 1 .. Len(recvQueue'[c.qp]) : recvQueue'[c.qp][i] = c.wr_id)
              <=> (\E i \in 1 .. Len(recvQueue[c.qp]) : recvQueue[c.qp][i] = c.wr_id)
      BY <1>18, <3>1
    <3> QED
      BY <3>1, <3>2, <3>3 DEF RecvCqeOk
  <2> QED
    BY <1>16, <2>1, <2>2
<1>20. ASSUME NEW j \in ReqIds, NEW d \in Devs PROVE RecvEventsOk(j, d)'
  <2>1. CASE j # id
    <3>1. CqesOf(j, d)' = CqesOf(j, d)
      BY <1>16, <2>1 DEF CqesOf
    <3>2. QpsWith(j, d)' = QpsWith(j, d)
      BY <1>18, <2>1 DEF QpsWith
    <3>3. RecvEventsOk(j, d) /\ rreqs'[j] = rreqs[j]
      BY <1>11, <2>1 DEF RecvInv
    <3> QED
      BY <3>1, <3>2, <3>3 DEF RecvEventsOk
  <2>2. CASE j = id
    <3>1. CqesOf(j, d)' = {c \in N : c.dev = d}
      BY <1>16, <1>17, <2>2 DEF CqesOf
    <3>2. ASSUME NEW q \in Qps
          PROVE  (\E i \in 1 .. Len(recvQueue'[q]) : recvQueue'[q][i] = id) <=> q \in QpsFrom(x)
      <4>1. recvQueue[q] \in Seq(ReqIds) /\ Len(recvQueue[q]) \in Nat
        BY <1>4, RecvTypes
      <4>2. CASE q \in QpsFrom(x)
        <5>1. recvQueue'[q] = Append(recvQueue[q], id)
          BY <1>16, <4>2
        <5>2. Len(recvQueue'[q]) = Len(recvQueue[q]) + 1 /\ recvQueue'[q][Len(recvQueue[q]) + 1] = id
          BY <4>1, <5>1
        <5>3. Len(recvQueue[q]) + 1 \in 1 .. Len(recvQueue'[q])
          BY <4>1, <5>2
        <5> QED
          BY <4>2, <5>2, <5>3
      <4>3. CASE q \notin QpsFrom(x)
        BY <1>16, <1>17, <4>3
      <4> QED
        BY <4>2, <4>3
    <3>3. QpsWith(j, d)' = {q \in QpsFrom(x) : DevOf(q) = d}
      BY <2>2, <3>2, QpsOfTransfer DEF QpsWith
    <3>4. /\ IsFiniteSet({c \in N : c.dev = d})
          /\ ev[d] = Cardinality({c \in N : c.dev = d}) + Cardinality({q \in QpsFrom(x) : DevOf(q) = d})
      BY <1>1 DEF Posting
    <3> QED
      BY <1>10, <2>2, <3>1, <3>3, <3>4 DEF RecvEventsOk
  <2> QED
    BY <2>1, <2>2
<1> QED
  BY <1>2, <1>3, <1>8, <1>9, <1>14, <1>15, <1>19, <1>20 DEF RecvInv

----------------------------------------------------------------------------
(* ncclIbIsend and ncclIbMultiSend. *)

LEMMA IndexInRange ==
    ASSUME NEW x, NEW q \in QpsFrom(x)
    PROVE  IndexOf(x, q) \in 0 .. NqpsUsed - 1 /\ QpAt(x, IndexOf(x, q)) = q /\ IndexOf(x, q) \in Nat
<1>1. \E i \in 0 .. NqpsUsed - 1 : QpAt(x, i) = q
  BY DEF QpsFrom
<1>2. IndexOf(x, q) \in 0 .. NqpsUsed - 1 /\ QpAt(x, IndexOf(x, q)) = q
  BY <1>1 DEF IndexOf
<1> QED
  BY <1>2, QpCounts

LEMMA MsgRecord ==
    ASSUME NEW d \in Seq(Nat), NEW c \in Seq(SUBSET Nat), NEW z \in Seq(Nat), NEW i \in Nat,
           NEW s \in Slots, NEW w \in Seq(ReqIds), Len(c) = Len(d), Len(z) = Len(d), Len(w) = Len(d)
    PROVE  [dst |-> d, chunks |-> c, sizes |-> z, imm |-> i, slot |-> s, ids |-> w] \in Msg
BY DEF Msg

\* The idx fields of a group, all of one receive.
Same(k, n) == [j \in 1 .. n |-> k]

\* A message of ncclIbMultiSend: every element of the group addresses receive k.
MsgOf(m, i, k, n, zs, ids) ==
    /\ m \in Msg /\ m.dst = Same(k, n) /\ m.dst # <<>> /\ m.dst[1] = k
    /\ m.chunks = [j \in 1 .. n |-> Chunk(zs[j], i)] /\ m.sizes = zs /\ m.ids = ids
    /\ m.slot = FifoSlot(fifoHead) /\ m.imm = IF n = 1 THEN zs[1] ELSE 0

LEMMA NewMsg ==
    ASSUME fifoHead \in Nat, NEW i \in Nat, NEW k \in Nat, NEW n \in Nat \ {0},
           NEW zs \in Seq(Nat), Len(zs) = n, NEW ids \in Seq(ReqIds), Len(ids) = n
    PROVE  MsgOf(Message(i, Same(k, n), zs, ids), i, k, n, zs, ids)
<1>0. PICK m : m = Message(i, Same(k, n), zs, ids)
  OBVIOUS
<1>1. PICK d \in Seq(Nat) : d = Same(k, n) /\ Len(d) = n /\ d # <<>> /\ d[1] = k
  <2>1. [j \in 1 .. n |-> k] \in Seq(Nat)
    BY IsASeq
  <2>2. 1 \in 1 .. n
    OBVIOUS
  <2>3. [j \in 1 .. n |-> k] # <<>>
    BY <2>1, <2>2
  <2>4. Len([j \in 1 .. n |-> k]) = n
    BY <2>1
  <2> QED
    BY <2>1, <2>2, <2>3, <2>4 DEF Same
<1>2. PICK c \in Seq(SUBSET Nat) : c = [j \in 1 .. n |-> Chunk(zs[j], i)] /\ Len(c) = n
  <2>1. ASSUME NEW j \in 1 .. n PROVE Chunk(zs[j], i) \in SUBSET Nat
    BY DEF Chunk
  <2>2. [j \in 1 .. n |-> Chunk(zs[j], i)] \in Seq(SUBSET Nat)
    BY <2>1, IsASeq
  <2>3. Len([j \in 1 .. n |-> Chunk(zs[j], i)]) = n
    BY <2>2
  <2> QED
    BY <2>2, <2>3
<1>3. PICK im \in Nat : im = IF n = 1 THEN zs[1] ELSE 0
  <2>1. zs[1] \in Nat
    OBVIOUS
  <2> QED
    BY <2>1
<1>4. PICK s \in Slots : s = FifoSlot(fifoHead)
  BY SlotOfTail
<1>5. DOMAIN zs = 1 .. n
  OBVIOUS
<1>6. m = [dst |-> d, chunks |-> c, sizes |-> zs, imm |-> im, slot |-> s, ids |-> ids]
  BY <1>0, <1>1, <1>2, <1>3, <1>4, <1>5 DEF Message
<1>7. m \in Msg
  BY <1>1, <1>2, <1>6, MsgRecord
<1>8. m.dst = d /\ m.chunks = c /\ m.sizes = zs /\ m.imm = im /\ m.slot = s /\ m.ids = ids
  BY <1>6
<1>9. MsgOf(m, i, k, n, zs, ids)
  BY <1>1, <1>2, <1>3, <1>4, <1>7, <1>8 DEF MsgOf
<1> QED
  BY <1>0, <1>9

\* What ncclIbIsend does with the element r it matches: k is the receive at the
\* head, n the size of its group, x the QP at which the transfer starts.
Matching(tag, size, k, n, r, id, len, x) ==
    /\ ~multiSent /\ k = fifoHead + 1 /\ k \in 1 .. fifoTail /\ n = Len(ops[k].recv) /\ r \in 1 .. n
    /\ HeadSlot[1].nreqs = n /\ \A j \in 1 .. n : HeadSlot[j].idx = k
    /\ HeadReqs[r] = NoReq /\ ops[k].recv[r].tag = tag
    /\ \A j \in 1 .. n : HeadReqs[j] = NoReq /\ ops[k].recv[j].tag = tag => r <= j
    /\ len \in {size, ops[k].recv[r].size} /\ len <= size /\ len <= ops[k].recv[r].size
    /\ sreqs[id].type = "UNUSED"
    /\ x = sqpIndex /\ x = StartQp(k)
    /\ sreqs' = [sreqs EXCEPT ![id] = [type |-> "SEND", events |-> EventsFrom(x), nreqs |-> n,
                                       arg |-> len, op |-> k]]
    /\ fifoReqs' = [fifoReqs EXCEPT ![FifoSlot(fifoHead)] = [HeadReqs EXCEPT ![r] = id]]
    /\ ops' = [ops EXCEPT ![k] = WithSent(ops[k], [ops[k].sent EXCEPT ![r] = len])]

\* The last send of a group posts it.
GroupPosted(k, n, x, ids, zs) ==
    /\ ids \in Seq(ReqIds) /\ Len(ids) = n /\ zs \in Seq(Nat) /\ Len(zs) = n
    /\ \A j \in 1 .. n : ids[j] = fifoReqs'[FifoSlot(fifoHead)][j] /\ zs[j] = sreqs'[ids[j]].arg
    /\ dataWire' = [q \in Qps |->
          IF q \in QpsFrom(x)
          THEN Append(dataWire[q], Message(IndexOf(x, q), Same(k, n), zs, ids))
          ELSE dataWire[q]]
    /\ sqpIndex' = NextQpIndex(x) /\ multiSent'

GroupOpen(n) ==
    /\ \E j \in 1 .. n : fifoReqs'[FifoSlot(fifoHead)][j] = NoReq
    /\ dataWire' = dataWire /\ sqpIndex' = sqpIndex /\ multiSent' = multiSent

LEMMA IsendMatches ==
    ASSUME RecvInv, NEW tag \in Tags, NEW size \in SendSizes, Isend(tag, size)
    PROVE  \E k \in Nat \ {0}, n \in Nat \ {0}, r \in Recvs, id \in ReqIds, len \in Nat, x \in Nat :
              /\ Matching(tag, size, k, n, r, id, len, x)
              /\ \/ GroupOpen(n)
                 \/ \E ids \in Seq(ReqIds), zs \in Seq(Nat) : GroupPosted(k, n, x, ids, zs)
<1>1. /\ TypeOK /\ InStep /\ CtsRight /\ fifoTail = Len(ops) /\ fifoTail \in Nat /\ fifoHead \in Nat
      /\ Consumed \in Nat /\ \A j \in 1 .. fifoTail : ops[j] \in Op
  BY OpsKnown, RecvTypes
<1>2. PICK k \in Nat \ {0} : k = fifoHead + 1
  BY <1>1
<1>3. PICK s \in Slots : s = FifoSlot(fifoHead)
  BY <1>1, SlotOfTail
<1>4. /\ ~multiSent /\ CtsReady /\ FreeReqs(sreqs) # {}
  BY Zenon DEF Isend
<1>5. PICK H \in [Recvs -> Elem] : H = HeadSlot /\ H = fifo[s]
  BY <1>1, <1>3 DEF HeadSlot, TypeOK
<1>6. PICK R \in [Recvs -> ReqIds \cup {NoReq}] : R = HeadReqs /\ R = fifoReqs[s]
  BY <1>1, <1>3 DEF HeadReqs, TypeOK
<1>7. 1 \in Recvs /\ H[1].idx = k /\ \A j \in 2 .. H[1].nreqs : H[j].idx = k
  BY <1>2, <1>4, <1>5, Limits DEF CtsReady
<1>8. Announces(s, 1, H[1])
  BY <1>1, <1>5, <1>7 DEF CtsRight
<1>9. k \in 1 .. fifoTail /\ H[1].nreqs = Len(ops[k].recv)
  BY <1>7, <1>8 DEF Announces
<1>10. PICK v \in Receives : v = ops[k].recv
  BY <1>1, <1>9, OpFields
<1>11. PICK n \in Nat \ {0} : n = Len(v) /\ \A j \in 1 .. n : j \in Recvs /\ v[j].size \in Nat /\ v[j].tag \in Int
  <2>1. /\ Len(v) \in Nat /\ 1 \in 1 .. Len(v)
        /\ \A j \in 1 .. Len(v) : j \in Recvs /\ v[j].size \in Nat /\ v[j].tag \in Int
    BY RecvFields
  <2>2. Len(v) \in Nat \ {0}
    BY <2>1
  <2> QED
    BY <2>1, <2>2
<1>12. ASSUME NEW j \in 1 .. n PROVE H[j].idx = k /\ H[j].size = v[j].size /\ H[j].tag = v[j].tag
  <2>1. j = 1 \/ j \in 2 .. n
    OBVIOUS
  <2>2. H[j].idx = k /\ j \in Recvs
    BY <1>7, <1>9, <1>10, <1>11, <2>1
  <2>3. Announces(s, j, H[j])
    BY <1>1, <1>5, <2>2 DEF CtsRight
  <2> QED
    BY <1>10, <2>2, <2>3 DEF Announces
<1>13. PICK M \in SUBSET Nat : M = {j \in 1 .. n : R[j] = NoReq /\ v[j].tag = tag}
  <2>1. {j \in 1 .. n : R[j] = NoReq /\ v[j].tag = tag} \in SUBSET Nat
    OBVIOUS
  <2> QED
    BY <2>1
<1>14. M = {j \in 1 .. HeadSlot[1].nreqs : HeadReqs[j] = NoReq /\ HeadSlot[j].tag = tag}
  BY <1>5, <1>6, <1>9, <1>10, <1>11, <1>12, <1>13
<1>15. M # {}
  BY <1>14, Zenon DEF Isend
<1>16. PICK r \in M : r = Min(M) /\ \A j \in M : r <= j
  BY <1>15, MinOf
<1>17. r \in 1 .. n /\ r \in Recvs /\ R[r] = NoReq /\ v[r].tag = tag /\ v[r].size \in Nat /\ H[r].size = v[r].size
  BY <1>11, <1>12, <1>13, <1>16
<1>18. PICK len \in Nat : /\ len = Min({size, H[r].size})
                          /\ len \in {size, v[r].size} /\ len <= size /\ len <= v[r].size
  <2>1. size \in Nat
    BY Limits
  <2>2. PICK T \in SUBSET Nat : T = {size, v[r].size} /\ T # {}
    <3>1. {size, v[r].size} \in SUBSET Nat /\ {size, v[r].size} # {}
      BY <1>17, <2>1
    <3> QED
      BY <3>1
  <2>3. Min(T) \in T /\ \A j \in T : Min(T) <= j
    BY <2>2, MinOf
  <2> QED
    BY <1>17, <2>1, <2>2, <2>3
<1>19. PICK id \in ReqIds : id = GetRequest(sreqs) /\ sreqs[id].type = "UNUSED"
  BY <1>4, FreeGiven
<1>20. PICK x \in Nat : x = sqpIndex /\ x = StartQp(k)
  <2>1. sqpIndex \in Nat
    BY <1>1, QpCounts DEF TypeOK, Qps
  <2> QED
    BY <1>1, <1>2, <1>4, <2>1 DEF InStep, Consumed
<1> DEFINE M0 == {j \in 1 .. HeadSlot[1].nreqs : HeadReqs[j] = NoReq /\ HeadSlot[j].tag = tag}
           r0 == Min(M0)
           n0 == HeadSlot[1].nreqs
           F0 == [HeadReqs EXCEPT ![r0] = GetRequest(sreqs)]
           len0 == Min({size, HeadSlot[r0].size})
<1>21. /\ sreqs' = [sreqs EXCEPT ![GetRequest(sreqs)] = [type |-> "SEND", events |-> EventsFrom(sqpIndex), nreqs |-> n0,
                                          arg |-> len0, op |-> fifoHead + 1]]
       /\ fifoReqs' = [fifoReqs EXCEPT ![FifoSlot(fifoHead)] = F0]
       /\ ops' = [ops EXCEPT ![HeadSlot[r0].idx].sent[r0] = len0]
       /\ IF \A j \in 1 .. n0 : F0[j] # NoReq
          THEN MultiSend([j \in 1 .. n0 |-> F0[j]], sreqs') /\ multiSent'
          ELSE UNCHANGED <<dataWire, sqpIndex, multiSent>>
  <2>1. \A b : b = TRUE => b
    OBVIOUS
  <2> QED
    BY <2>1, Zenon DEF Isend
<1>27. r0 = r /\ n0 = n /\ F0 = [R EXCEPT ![r] = id]
  BY <1>5, <1>6, <1>9, <1>10, <1>11, <1>14, <1>16, <1>19
<1>28. len0 = len
  BY <1>5, <1>18, <1>27
<1> HIDE DEF M0, r0, n0, F0, len0
<1>24. PICK F \in [Recvs -> ReqIds \cup {NoReq}] : F = [R EXCEPT ![r] = id]
  <2>1. [R EXCEPT ![r] = id] \in [Recvs -> ReqIds \cup {NoReq}]
    BY <1>17
  <2> QED
    BY <2>1
<1>29. F0 = F /\ HeadSlot[r].idx = k
  BY <1>5, <1>12, <1>17, <1>24, <1>27
<1>30. /\ sreqs' = [sreqs EXCEPT ![id] = [type |-> "SEND", events |-> EventsFrom(x), nreqs |-> n,
                                          arg |-> len, op |-> k]]
       /\ fifoReqs' = [fifoReqs EXCEPT ![s] = F]
       /\ ops' = [ops EXCEPT ![k].sent[r] = len]
       /\ IF \A j \in 1 .. n : F[j] # NoReq
          THEN MultiSend([j \in 1 .. n |-> F[j]], sreqs') /\ multiSent'
          ELSE UNCHANGED <<dataWire, sqpIndex, multiSent>>
  BY <1>2, <1>3, <1>19, <1>20, <1>21, <1>27, <1>28, <1>29
<1>31. fifoReqs'[s] = F
  BY <1>1, <1>30 DEF TypeOK
<1>22. ops' = [ops EXCEPT ![k] = WithSent(ops[k], [ops[k].sent EXCEPT ![r] = len])]
  BY <1>30 DEF WithSent
<1>32. n = Len(ops[k].recv) /\ HeadSlot[1].nreqs = n /\ \A j \in 1 .. n : HeadSlot[j].idx = k
  BY <1>5, <1>9, <1>10, <1>11, <1>12
<1>33. /\ HeadReqs[r] = NoReq /\ ops[k].recv[r].tag = tag
       /\ \A j \in 1 .. n : HeadReqs[j] = NoReq /\ ops[k].recv[j].tag = tag => r <= j
  BY <1>6, <1>10, <1>13, <1>16, <1>17, Zenon
<1>34. len \in {size, ops[k].recv[r].size} /\ len <= size /\ len <= ops[k].recv[r].size
  BY <1>10, <1>18
<1>35. fifoReqs' = [fifoReqs EXCEPT ![FifoSlot(fifoHead)] = [HeadReqs EXCEPT ![r] = id]]
  BY <1>3, <1>6, <1>24, <1>30
<1>23. Matching(tag, size, k, n, r, id, len, x)
  BY <1>2, <1>4, <1>9, <1>17, <1>19, <1>20, <1>22, <1>30, <1>32, <1>33, <1>34, <1>35 DEF Matching
<1>25. CASE ~(\A j \in 1 .. n : F[j] # NoReq)
  BY <1>3, <1>30, <1>31, <1>23, <1>24, <1>25, <1>17 DEF GroupOpen
<1>26. CASE \A j \in 1 .. n : F[j] # NoReq
  <2>1. PICK ids \in Seq(ReqIds) : ids = [j \in 1 .. n |-> F[j]] /\ Len(ids) = n
    <3>1. \A j \in 1 .. n : F[j] \in ReqIds
      BY <1>11, <1>24, <1>26
    <3>2. [j \in 1 .. n |-> F[j]] \in Seq(ReqIds)
      BY <3>1, IsASeq
    <3>3. Len([j \in 1 .. n |-> F[j]]) = n
      BY <3>2
    <3> QED
      BY <3>2, <3>3
  <2>2. \A j \in ReqIds : sreqs'[j] \in Req
    <3>1. EventsFrom(x) \in [Devs -> Int]
      BY EventsFromType
    <3>2. [type |-> "SEND", events |-> EventsFrom(x), nreqs |-> n, arg |-> len, op |-> k] \in Req
      BY <3>1, NewReq
    <3> QED
      BY <1>1, <1>30, <3>2 DEF TypeOK
  <2>3. PICK zs \in Seq(Nat) : zs = [j \in 1 .. n |-> sreqs'[ids[j]].arg] /\ Len(zs) = n
    <3>1. \A j \in 1 .. n : sreqs'[ids[j]].arg \in Nat
      BY <2>1, <2>2, ReqFields
    <3>2. [j \in 1 .. n |-> sreqs'[ids[j]].arg] \in Seq(Nat)
      BY <3>1, IsASeq
    <3>3. Len([j \in 1 .. n |-> sreqs'[ids[j]].arg]) = n
      BY <3>2
    <3> QED
      BY <3>2, <3>3
  <2>4. MultiSend(ids, sreqs') /\ multiSent'
    BY <1>30, <1>24, <1>26, <2>1
  <2>6. dataWire' = [q \in Qps |->
          IF q \in QpsFrom(x)
          THEN Append(dataWire[q], Message(IndexOf(x, q), Same(k, n), zs, ids))
          ELSE dataWire[q]]
    <3> DEFINE n1 == HeadSlot[1].nreqs
               d1 == [j \in 1 .. n1 |-> HeadSlot[j].idx]
               z1 == [j \in 1 .. n1 |-> sreqs'[ids[j]].arg]
    <3>1. dataWire' = [q \in Qps |->
          IF q \in QpsFrom(sqpIndex)
          THEN Append(dataWire[q], Message(IndexOf(sqpIndex, q), d1, z1, ids))
          ELSE dataWire[q]]
      BY <2>4 DEF MultiSend, IndexOf
    <3>2. n1 = n
      BY <1>5, <1>9, <1>10, <1>11
    <3>3. z1 = zs
      BY <2>3, <3>2
    <3>4. d1 = Same(k, n)
      BY <1>5, <1>12, <3>2 DEF Same
    <3> HIDE DEF n1, d1, z1
    <3> QED
      BY <1>20, <3>1, <3>3, <3>4
  <2>7. sqpIndex' = NextQpIndex(x)
    BY <1>20, <2>4 DEF MultiSend, SendNextQp
  <2>8. \A j \in 1 .. n : ids[j] = fifoReqs'[FifoSlot(fifoHead)][j] /\ zs[j] = sreqs'[ids[j]].arg
    BY <1>3, <1>24, <1>31, <2>1, <2>3
  <2>9. GroupPosted(k, n, x, ids, zs)
    BY <2>1, <2>3, <2>4, <2>6, <2>7, <2>8 DEF GroupPosted
  <2> QED
    BY <1>17, <1>23, <2>9
<1> QED
  BY <1>25, <1>26

LEMMA ExceptAny ==
    ASSUME NEW S, NEW s \in Seq(S), NEW i, NEW e \in S
    PROVE  [s EXCEPT ![i] = e] \in Seq(S) /\ Len([s EXCEPT ![i] = e]) = Len(s)
<1>1. PICK n \in Nat : n = Len(s) /\ DOMAIN s = 1 .. n
  OBVIOUS
<1>2. PICK f : f = [s EXCEPT ![i] = e]
  OBVIOUS
<1>3. f \in [1 .. n -> S]
  <2>1. s \in [1 .. n -> S]
    BY <1>1
  <2> QED
    BY <1>2, <2>1
<1>4. f \in Seq(S)
  BY <1>3
<1>5. Len(f) = n
  BY <1>3, <1>4
<1> QED
  BY <1>1, <1>2, <1>4, <1>5

\* A send changes of a receive's history only what was sent.
LEMMA IsendOps ==
    ASSUME RecvInv, NEW tag, NEW size, NEW k \in Nat \ {0}, NEW n \in Nat \ {0}, NEW r \in Recvs, NEW id \in ReqIds,
           NEW len \in Nat, NEW x \in Nat, Matching(tag, size, k, n, r, id, len, x)
    PROVE  /\ ops' \in Seq(Op) /\ Len(ops') = Len(ops)
           /\ \A j \in 1 .. Len(ops) : j # k => ops'[j] = ops[j]
           /\ ops'[k].recv = ops[k].recv /\ ops'[k].state = ops[k].state
           /\ ops'[k].arrived = ops[k].arrived /\ ops'[k].sizes = ops[k].sizes
           /\ ops'[k].sent = [ops[k].sent EXCEPT ![r] = len] /\ k \in 1 .. Len(ops)
<1>1. k \in 1 .. Len(ops) /\ ops \in Seq(Op)
  BY OpsKnown DEF Matching, TypeOK
<1>2. PICK o \in Op : o = ops[k]
  BY <1>1
<1>3. PICK s \in Seq(Int) : s = [o.sent EXCEPT ![r] = len]
  <2>1. o.sent \in Seq(Int) /\ len \in Int
    BY OpFields
  <2>2. [o.sent EXCEPT ![r] = len] \in Seq(Int)
    BY <2>1, ExceptAny
  <2> QED
    BY <2>2
<1>4. PICK p \in Op : /\ p = WithSent(o, s)
                      /\ p.recv = o.recv /\ p.state = o.state /\ p.sent = s
                      /\ p.arrived = o.arrived /\ p.sizes = o.sizes
  BY OpSent
<1>5. ops' = [ops EXCEPT ![k] = p]
  BY <1>2, <1>3, <1>4 DEF Matching
<1>6. /\ ops' \in Seq(Op) /\ Len(ops') = Len(ops)
      /\ \A j \in 1 .. Len(ops) : ops'[j] = IF j = k THEN p ELSE ops[j]
  BY <1>1, <1>5, ExceptSeq
<1> QED
  BY <1>1, <1>2, <1>3, <1>4, <1>6

LEMMA IsendTypes ==
    ASSUME RecvInv, NEW tag \in Tags, NEW size \in SendSizes, Isend(tag, size),
           NEW k \in Nat \ {0}, NEW n \in Nat \ {0}, NEW r \in Recvs, NEW id \in ReqIds,
           NEW len \in Nat, NEW x \in Nat, Matching(tag, size, k, n, r, id, len, x),
           \/ GroupOpen(n)
           \/ \E ids \in Seq(ReqIds), zs \in Seq(Nat) : GroupPosted(k, n, x, ids, zs)
    PROVE  TypeOK'
<1>1. TypeOK /\ fifoHead \in Nat
  BY DEF RecvInv, TypeOK
<1>2. sreqs' \in [ReqIds -> Req]
  <2>1. EventsFrom(x) \in [Devs -> Int]
    BY EventsFromType
  <2>2. [type |-> "SEND", events |-> EventsFrom(x), nreqs |-> n, arg |-> len, op |-> k] \in Req
    BY <2>1, NewReq
  <2> QED
    BY <1>1, <2>2 DEF Matching, TypeOK
<1>3. fifoReqs' \in [Slots -> [Recvs -> ReqIds \cup {NoReq}]]
  <2>1. PICK s \in Slots : s = FifoSlot(fifoHead)
    BY <1>1, SlotOfTail
  <2>2. HeadReqs \in [Recvs -> ReqIds \cup {NoReq}]
    BY <1>1, <2>1 DEF HeadReqs, TypeOK
  <2>3. [HeadReqs EXCEPT ![r] = id] \in [Recvs -> ReqIds \cup {NoReq}]
    BY <2>2
  <2> QED
    BY <1>1, <2>1, <2>3 DEF Matching, TypeOK
<1>4. ops' \in Seq(Op)
  BY IsendOps
<1>5. dataWire' \in [Qps -> Seq(Msg)] /\ sqpIndex' \in Qps /\ multiSent' \in BOOLEAN
  <2>1. CASE GroupOpen(n)
    <3>1. multiSent' \in BOOLEAN
      BY Zenon, <1>1, <2>1 DEF GroupOpen, TypeOK
    <3> QED
      BY <1>1, <2>1, <3>1 DEF GroupOpen, TypeOK
  <2>2. ASSUME NEW ids \in Seq(ReqIds), NEW zs \in Seq(Nat), GroupPosted(k, n, x, ids, zs)
        PROVE dataWire' \in [Qps -> Seq(Msg)] /\ sqpIndex' \in Qps /\ multiSent' \in BOOLEAN
    <3>1. ASSUME NEW q \in QpsFrom(x)
          PROVE Message(IndexOf(x, q), Same(k, n), zs, ids) \in Msg
      <4>1. PICK i \in Nat : i = IndexOf(x, q)
        BY IndexInRange
      <4>2. Len(zs) = n /\ Len(ids) = n
        BY <2>2 DEF GroupPosted
      <4>3. PICK m : m = Message(i, Same(k, n), zs, ids)
        OBVIOUS
      <4>4. m \in Msg
        <5>1. fifoHead \in Nat /\ k \in Nat
          BY <1>1
        <5> QED
          BY <4>2, <4>3, <5>1, NewMsg DEF MsgOf
      <4> QED
        BY <4>1, <4>3, <4>4
    <3>2. ASSUME NEW q \in Qps PROVE dataWire[q] \in Seq(Msg)
      BY <1>1 DEF TypeOK
    <3>3. dataWire' \in [Qps -> Seq(Msg)]
      <4> DEFINE msg(q) == Message(IndexOf(x, q), Same(k, n), zs, ids)
      <4>1. dataWire' = [q \in Qps |-> IF q \in QpsFrom(x) THEN Append(dataWire[q], msg(q)) ELSE dataWire[q]]
        BY <2>2 DEF GroupPosted
      <4>2. ASSUME NEW q \in QpsFrom(x) PROVE msg(q) \in Msg
        BY <3>1
      <4> HIDE DEF msg
      <4>3. ASSUME NEW q \in Qps, q \in QpsFrom(x) PROVE Append(dataWire[q], msg(q)) \in Seq(Msg)
        BY <3>2, <4>2, <4>3
      <4> QED
        BY <3>2, <4>1, <4>3
    <3>4. sqpIndex' \in Qps
      <4>1. k + 1 \in Nat \ {0}
        OBVIOUS
      <4>2. sqpIndex' = StartQp(k + 1)
        BY <2>2, StartNext DEF GroupPosted, Matching
      <4> QED
        BY <4>1, <4>2, StartNext
    <3>5. multiSent' \in BOOLEAN
      BY Zenon, <2>2 DEF GroupPosted
    <3> QED
      BY <3>3, <3>4, <3>5
  <2> QED
    BY <2>1, <2>2
<1>6. /\ UNCHANGED <<rvars, fifoHead, fifo, recvQueue, ctsWire, ctsPosted, ctsRetired, rcq, scq>>
  BY Zenon DEF Isend
<1> QED
  BY <1>1, <1>2, <1>3, <1>4, <1>5, <1>6 DEF TypeOK, rvars

\* The message of the receive at the head meets, on every QP, its work request.
LEMMA IsendQp ==
    ASSUME RecvInv, NEW tag \in Tags, NEW size \in SendSizes, Isend(tag, size),
           NEW k \in Nat \ {0}, NEW n \in Nat \ {0}, NEW r \in Recvs, NEW id \in ReqIds,
           NEW len \in Nat, NEW x \in Nat, Matching(tag, size, k, n, r, id, len, x),
           NEW ids \in Seq(ReqIds), NEW zs \in Seq(Nat), GroupPosted(k, n, x, ids, zs), NEW q \in Qps
    PROVE  QpOk(q)'
<1>1. /\ TypeOK /\ fifoHead \in Nat /\ fifoTail \in Nat /\ Consumed = k - 1 /\ k \in 1 .. fifoTail
      /\ QpOk(q)
  <2>1. TypeOK /\ QpOk(q)
    BY DEF RecvInv
  <2>2. fifoHead \in Nat /\ fifoTail \in Nat
    BY <2>1, RecvTypes
  <2>3. ~multiSent /\ k = fifoHead + 1 /\ k \in 1 .. fifoTail
    BY DEF Matching
  <2> QED
    BY <2>1, <2>2, <2>3 DEF Consumed
<1>2. Consumed' = k /\ fifoTail' = fifoTail /\ recvQueue' = recvQueue /\ rreqs' = rreqs
  <2>1. multiSent' /\ fifoHead' = fifoHead
    BY Zenon DEF GroupPosted, Isend
  <2>2. fifoTail' = fifoTail /\ recvQueue' = recvQueue /\ rreqs' = rreqs
    BY Zenon DEF Isend, rvars
  <2>3. k = fifoHead + 1
    BY DEF Matching
  <2> QED
    BY <2>1, <2>2, <2>3 DEF Consumed
<1>3. PICK m \in Nat : m = Len(recvQueue[q])
  BY <1>1, RecvTypes
<1>4. PICK l \in Nat : l = Len(dataWire[q])
  BY <1>1, RecvTypes
<1>5. \A i \in 1 .. m : QueuedOp(q, i) \in Nat /\ QueuedOp(q, i)' = QueuedOp(q, i)
  BY <1>1, <1>2, <1>3, RecvTypes DEF QueuedOp
<1> HIDE DEF QueuedOp
<1>6. /\ \A i \in 1 .. m : rreqs[recvQueue[q][i]].type = "RECV" /\ q \in QpsOf(QueuedOp(q, i))
      /\ \A i, j \in 1 .. m : i < j => QueuedOp(q, i) < QueuedOp(q, j)
      /\ \A c \in k .. fifoTail : q \in QpsOf(c) => \E i \in 1 .. m : QueuedOp(q, i) = c
      /\ l <= m
      /\ \A i \in 1 .. m : IF i <= l
                           THEN dataWire[q][i].dst # <<>> /\ dataWire[q][i].dst[1] = QueuedOp(q, i) /\ QueuedOp(q, i) <= k - 1
                           ELSE QueuedOp(q, i) > k - 1
  <2>1. Consumed + 1 = k
    BY <1>1
  <2> QED
    BY <1>1, <1>3, <1>4, <2>1 DEF QpOk
<1>7. dataWire[q] \in Seq(Msg)
  BY <1>1 DEF TypeOK
<1>8. QpsOf(k) = QpsFrom(x)
  BY DEF QpsOf, Matching
<1>9. CASE q \in QpsFrom(x)
  <2>1. PICK msg \in Msg : /\ msg = Message(IndexOf(x, q), Same(k, n), zs, ids)
                           /\ msg.dst # <<>> /\ msg.dst[1] = k
    <3>1. PICK i \in Nat : i = IndexOf(x, q)
      BY <1>9, IndexInRange
    <3>2. Len(zs) = n /\ Len(ids) = n
      BY DEF GroupPosted
    <3>3. PICK msg : msg = Message(i, Same(k, n), zs, ids)
      OBVIOUS
    <3>4. msg \in Msg /\ msg.dst # <<>> /\ msg.dst[1] = k
      <4>1. fifoHead \in Nat /\ k \in Nat
        BY <1>1
      <4> QED
        <5>1. MsgOf(msg, i, k, n, zs, ids)
          BY <3>2, <3>3, <4>1, NewMsg
        <5> QED
          BY <5>1 DEF MsgOf
    <3> QED
      BY <3>1, <3>3, <3>4
  <2>2. dataWire'[q] = Append(dataWire[q], msg)
    BY <1>9, <2>1 DEF GroupPosted
  <2>3. Len(dataWire'[q]) = l + 1 /\ dataWire'[q][l + 1] = msg /\ \A i \in 1 .. l : dataWire'[q][i] = dataWire[q][i]
    BY <1>4, <1>7, <2>2
  <2>4. PICK i \in 1 .. m : QueuedOp(q, i) = k
    BY <1>1, <1>6, <1>8, <1>9
  <2>5. i > l
    BY <1>6, <2>4
  <2>6. ~(l + 1 < i)
    <3> SUFFICES ASSUME l + 1 < i PROVE FALSE
      OBVIOUS
    <3>1. l + 1 \in 1 .. m /\ ~(l + 1 <= l)
      OBVIOUS
    <3>2. QueuedOp(q, l + 1) > k - 1 /\ QueuedOp(q, l + 1) < k /\ QueuedOp(q, l + 1) \in Nat
      BY <1>5, <1>6, <2>4, <3>1
    <3> QED
      BY <3>2
  <2>7. l + 1 = i /\ l + 1 <= m
    BY <2>5, <2>6
  <2>8. ASSUME NEW j \in 1 .. m
        PROVE  IF j <= l + 1
               THEN dataWire'[q][j].dst # <<>> /\ dataWire'[q][j].dst[1] = QueuedOp(q, j) /\ QueuedOp(q, j) <= k
               ELSE QueuedOp(q, j) > k
    <3>1. CASE j <= l
      <4>1. j \in 1 .. l /\ j <= l + 1
        BY <3>1
      <4>2. QueuedOp(q, j) <= k - 1 /\ QueuedOp(q, j) \in Nat
        BY <1>5, <1>6, <3>1
      <4>3. QueuedOp(q, j) <= k
        BY <4>2
      <4> QED
        BY <1>6, <2>3, <3>1, <4>1, <4>3
    <3>2. CASE j = l + 1
      BY <2>1, <2>3, <2>4, <2>7, <3>2
    <3>3. CASE j > l + 1
      BY <1>6, <2>4, <2>7, <3>3
    <3> QED
      BY <3>1, <3>2, <3>3
  <2>9. \A c \in k + 1 .. fifoTail : q \in QpsOf(c) => \E j \in 1 .. m : QueuedOp(q, j) = c
    <3>1. \A c \in k + 1 .. fifoTail : c \in k .. fifoTail
      BY <1>1
    <3> QED
      BY <1>6, <3>1
  <2> QED
    <3>1. /\ \A j \in 1 .. m : rreqs'[recvQueue'[q][j]].type = "RECV" /\ q \in QpsOf(QueuedOp(q, j)')
          /\ \A j, c \in 1 .. m : j < c => QueuedOp(q, j)' < QueuedOp(q, c)'
          /\ \A c \in k + 1 .. fifoTail : q \in QpsOf(c) => \E j \in 1 .. m : QueuedOp(q, j)' = c
      BY <1>2, <1>5, <1>6, <2>9
    <3>2. ASSUME NEW j \in 1 .. m
          PROVE  IF j <= l + 1
                 THEN dataWire'[q][j].dst # <<>> /\ dataWire'[q][j].dst[1] = QueuedOp(q, j)' /\ QueuedOp(q, j)' <= k
                 ELSE QueuedOp(q, j)' > k
      BY <1>5, <2>8
    <3>3. /\ Len(recvQueue'[q]) = m /\ Len(dataWire'[q]) = l + 1 /\ l + 1 <= m
          /\ Consumed' = k /\ fifoTail' = fifoTail
      BY <1>2, <1>3, <2>3, <2>7
    <3> QED
      BY <3>1, <3>2, <3>3 DEF QpOk
<1>10. CASE q \notin QpsFrom(x)
  <2>1. dataWire'[q] = dataWire[q]
    BY <1>10 DEF GroupPosted
  <2>2. ASSUME NEW j \in 1 .. m
        PROVE  IF j <= l
               THEN dataWire[q][j].dst # <<>> /\ dataWire[q][j].dst[1] = QueuedOp(q, j) /\ QueuedOp(q, j) <= k
               ELSE QueuedOp(q, j) > k
    <3>1. QueuedOp(q, j) # k /\ QueuedOp(q, j) \in Nat
      BY <1>5, <1>6, <1>8, <1>10
    <3> QED
      BY <1>6, <3>1
  <2>3. \A c \in k + 1 .. fifoTail : q \in QpsOf(c) => \E j \in 1 .. m : QueuedOp(q, j) = c
    <3>1. \A c \in k + 1 .. fifoTail : c \in k .. fifoTail
      BY <1>1
    <3> QED
      BY <1>6, <3>1
  <2>4. /\ \A j \in 1 .. m : rreqs'[recvQueue'[q][j]].type = "RECV" /\ q \in QpsOf(QueuedOp(q, j)')
        /\ \A j, c \in 1 .. m : j < c => QueuedOp(q, j)' < QueuedOp(q, c)'
        /\ \A c \in k + 1 .. fifoTail : q \in QpsOf(c) => \E j \in 1 .. m : QueuedOp(q, j)' = c
    BY <1>2, <1>5, <1>6, <2>3
  <2>5. ASSUME NEW j \in 1 .. m
        PROVE  IF j <= l
               THEN dataWire'[q][j].dst # <<>> /\ dataWire'[q][j].dst[1] = QueuedOp(q, j)' /\ QueuedOp(q, j)' <= k
               ELSE QueuedOp(q, j)' > k
    BY <1>5, <2>1, <2>2
  <2>6. /\ Len(recvQueue'[q]) = m /\ Len(dataWire'[q]) = l /\ l <= m
        /\ Consumed' = k /\ fifoTail' = fifoTail
    BY <1>2, <1>3, <1>4, <1>6, <2>1
  <2> QED
    BY <2>4, <2>5, <2>6 DEF QpOk
<1> QED
  BY <1>9, <1>10

LEMMA IsendRecv ==
    ASSUME RecvInv, NEW tag \in Tags, NEW size \in SendSizes, Isend(tag, size)
    PROVE  RecvInv'
<1>1. PICK k \in Nat \ {0}, n \in Nat \ {0}, r \in Recvs, id \in ReqIds, len \in Nat, x \in Nat :
              /\ Matching(tag, size, k, n, r, id, len, x)
              /\ \/ GroupOpen(n)
                 \/ \E ids \in Seq(ReqIds), zs \in Seq(Nat) : GroupPosted(k, n, x, ids, zs)
  BY IsendMatches
<1>2. TypeOK'
  BY <1>1, IsendTypes
<1>3. /\ Len(ops') = Len(ops)
      /\ \A j \in 1 .. Len(ops) : ops'[j].recv = ops[j].recv /\ ops'[j].state = ops[j].state
  BY <1>1, IsendOps
<1>4. SameOps
  BY <1>3, Zenon DEF SameOps, Isend, rvars
<1>5. /\ rreqs' = rreqs /\ rqpIndex' = rqpIndex /\ fifoHead' = fifoHead /\ fifo' = fifo /\ ctsWire' = ctsWire
      /\ recvQueue' = recvQueue /\ rcq' = rcq
  BY Zenon DEF Isend, rvars
<1>6. CASE GroupOpen(n)
  BY <1>2, <1>4, <1>5, <1>6, QuietStep DEF GroupOpen
<1>7. ASSUME NEW ids \in Seq(ReqIds), NEW zs \in Seq(Nat), GroupPosted(k, n, x, ids, zs) PROVE RecvInv'
  <2>1. /\ TypeOK /\ InStep /\ CtsRight /\ fifoTail \in Nat /\ fifoTail = Len(ops) /\ Consumed \in Nat
        /\ Consumed = k - 1 /\ k \in 1 .. fifoTail
    BY <1>1, OpsKnown, RecvTypes DEF Matching, Consumed
  <2>2. Consumed' = k /\ fifoTail' = fifoTail
    BY <1>1, <1>4, <1>5, <1>7 DEF GroupPosted, Matching, Consumed, SameOps
  <2>3. InStep'
    <3>1. sqpIndex' = StartQp(k + 1)
      BY <1>1, <1>7, StartNext DEF GroupPosted, Matching
    <3> QED
      BY <1>3, <1>5, <2>1, <2>2, <3>1 DEF InStep
  <2>4. CtsRight'
    BY <1>4, <1>5, <2>1, CtsFrame DEF SameOps
  <2>5. \A j \in ReqIds : RecvReqOk(j)'
    BY <1>4, <1>5, <2>1, ReqFrame DEF RecvInv
  <2>6. \A j \in DOMAIN ops' : StateOk(j)'
    <3>1. DOMAIN ops' = 1 .. Len(ops) /\ DOMAIN ops = 1 .. Len(ops)
      BY <1>2, <1>3, <2>1 DEF TypeOK
    <3>2. Consumed' \in Nat /\ Consumed' >= Consumed
      BY <2>1, <2>2
    <3> QED
      BY <1>4, <2>1, <3>1, <3>2, StateFrame DEF RecvInv
  <2>7. \A q \in Qps : QpOk(q)'
    BY <1>1, <1>7, IsendQp
  <2>8. \A c \in rcq' : RecvCqeOk(c)'
    BY <1>5, <2>1, CqeFrame DEF RecvInv
  <2>9. \A j \in ReqIds, d \in Devs : RecvEventsOk(j, d)'
    BY <1>5, EventsFrame DEF RecvInv
  <2> QED
    BY <1>2, <2>3, <2>4, <2>5, <2>6, <2>7, <2>8, <2>9 DEF RecvInv
<1> QED
  BY <1>1, <1>6, <1>7

----------------------------------------------------------------------------
(* A message is delivered. *)

LEMMA TailFields ==
    ASSUME NEW S, NEW s \in Seq(S), s # <<>>
    PROVE  /\ Tail(s) \in Seq(S) /\ Len(s) \in Nat \ {0} /\ Len(Tail(s)) = Len(s) - 1
           /\ \A i \in 1 .. Len(s) - 1 : Tail(s)[i] = s[i + 1]
           /\ Head(s) = s[1] /\ s[1] \in S /\ 1 \in 1 .. Len(s)
<1>1. Len(s) \in Nat \ {0}
  BY EmptySeq
<1> QED
  BY <1>1

\* What arrives of a message in buffer r of receive j.
Received(m, j, r) == IF r \in DOMAIN m.dst /\ m.dst[r] = j THEN m.chunks[r] ELSE {}

LEMMA DeliverOps ==
    ASSUME RecvInv, NEW q \in Qps, Deliver(q), NEW m \in Msg, m = Head(dataWire[q])
    PROVE  /\ ops' \in Seq(Op) /\ Len(ops') = Len(ops)
           /\ \A j \in 1 .. Len(ops) :
                /\ ops'[j].recv = ops[j].recv /\ ops'[j].state = ops[j].state
                /\ ops'[j].sent = ops[j].sent /\ ops'[j].sizes = ops[j].sizes
                /\ ops'[j].arrived = [r \in DOMAIN ops[j].arrived |-> ops[j].arrived[r] \cup Received(m, j, r)]
<1>1. PICK n \in Nat : n = Len(ops) /\ ops \in Seq(Op) /\ DOMAIN ops = 1 .. n /\ \A j \in 1 .. n : ops[j] \in Op
  BY OpsKnown DEF TypeOK
<1> DEFINE A(j) == [r \in DOMAIN ops[j].arrived |-> ops[j].arrived[r] \cup Received(m, j, r)]
           o(j) == WithArrived(ops[j], A(j))
<1>2. ops' = [j \in 1 .. n |-> o(j)]
  <2> DEFINE B(j) == [r \in DOMAIN ops[j].arrived |->
                 IF r \in DOMAIN m.dst /\ m.dst[r] = j THEN ops[j].arrived[r] \cup m.chunks[r] ELSE ops[j].arrived[r]]
  <2>1. ops' = [j \in DOMAIN ops |-> WithArrived(ops[j], B(j))]
    BY DEF Deliver, WithArrived
  <2>2. ASSUME NEW j PROVE A(j) = B(j)
    BY DEF Received
  <2> HIDE DEF A, B
  <2> QED
    BY <1>1, <2>1, <2>2
<1>3. ASSUME NEW j \in 1 .. n PROVE A(j) \in Seq(SUBSET Nat)
  <2>1. PICK a \in Seq(SUBSET Nat) : a = ops[j].arrived
    BY <1>1, OpFields
  <2>2. PICK l \in Nat : l = Len(a) /\ DOMAIN a = 1 .. l
    OBVIOUS
  <2>3. ASSUME NEW r \in 1 .. l PROVE a[r] \cup Received(m, j, r) \in SUBSET Nat
    <3>1. m.dst \in Seq(Nat) /\ m.chunks \in Seq(SUBSET Nat) /\ Len(m.chunks) = Len(m.dst)
      BY MsgFields
    <3>2. Received(m, j, r) \in SUBSET Nat
      BY <3>1 DEF Received
    <3>3. a[r] \in SUBSET Nat
      BY <2>2
    <3> QED
      BY <3>2, <3>3
  <2>4. A(j) = [r \in 1 .. l |-> a[r] \cup Received(m, j, r)]
    BY <2>1, <2>2
  <2>5. [r \in 1 .. l |-> a[r] \cup Received(m, j, r)] \in Seq(SUBSET Nat)
    BY <2>3, IsASeq
  <2> QED
    BY <2>4, <2>5
<1> HIDE DEF A
<1>4. ASSUME NEW j \in 1 .. n
      PROVE  /\ o(j) \in Op /\ o(j).recv = ops[j].recv /\ o(j).state = ops[j].state
             /\ o(j).sent = ops[j].sent /\ o(j).sizes = ops[j].sizes /\ o(j).arrived = A(j)
  BY <1>1, <1>3, OpArrived
<1> HIDE DEF o
<1>5. ops' \in Seq(Op)
  <2>1. \A j \in 1 .. n : o(j) \in Op
    BY <1>4
  <2>2. [j \in 1 .. n |-> o(j)] \in Seq(Op)
    BY <2>1, IsASeq
  <2> QED
    BY <1>2, <2>2
<1>6. Len(ops') = n /\ \A j \in 1 .. n : ops'[j] = o(j)
  BY <1>2, <1>5
<1> QED
  BY <1>1, <1>4, <1>5, <1>6 DEF A

LEMMA DeliverTypes ==
    ASSUME RecvInv, NEW q \in Qps, Deliver(q)
    PROVE  TypeOK'
<1>1. TypeOK /\ dataWire[q] \in Seq(Msg) /\ recvQueue[q] \in Seq(ReqIds)
  BY RecvTypes DEF RecvInv
<1>2. dataWire[q] # <<>> /\ recvQueue[q] # <<>>
  BY DEF Deliver
<1>3. PICK m \in Msg : m = Head(dataWire[q]) /\ m = dataWire[q][1]
  BY <1>1, <1>2, TailFields
<1>4. PICK w \in ReqIds : w = Head(recvQueue[q])
  BY <1>1, <1>2, TailFields
<1>5. /\ m.dst \in Seq(Nat) /\ m.chunks \in Seq(SUBSET Nat) /\ m.sizes \in Seq(Nat)
      /\ m.imm \in Nat /\ m.slot \in Slots /\ m.ids \in Seq(ReqIds)
  BY MsgFields
<1>6. DevOf(q) \in Devs
  BY DevsOfQps
<1>7. PICK k \in Nat : k = m.dst[1]
  <2>1. QpOk(q) /\ Len(dataWire[q]) \in Nat /\ Len(recvQueue[q]) \in Nat
    BY <1>1, RecvTypes DEF RecvInv
  <2>2. 1 \in 1 .. Len(recvQueue[q]) /\ 1 <= Len(dataWire[q])
    BY <1>1, <1>2, TailFields
  <2>3. m.dst # <<>>
    BY <1>3, <2>1, <2>2 DEF QpOk
  <2> QED
    BY <1>5, <2>3, TailFields
<1>8. dataWire' \in [Qps -> Seq(Msg)]
  <2>1. Tail(dataWire[q]) \in Seq(Msg)
    BY <1>1, <1>2, TailFields
  <2> QED
    BY <1>1, <2>1 DEF Deliver, TypeOK
<1>9. recvQueue' \in [Qps -> Seq(ReqIds)]
  <2>1. Tail(recvQueue[q]) \in Seq(ReqIds)
    BY <1>1, <1>2, TailFields
  <2> QED
    BY <1>1, <2>1 DEF Deliver, TypeOK
<1>10. sizesFifo' \in [Slots -> [Recvs -> Nat]]
  <2>1. PICK z \in [Recvs -> Nat] : z = sizesFifo[m.slot]
    BY <1>1, <1>5 DEF TypeOK
  <2>2. PICK y \in [Recvs -> Nat] : y = [r \in Recvs |-> IF r \in DOMAIN m.sizes THEN m.sizes[r] ELSE z[r]]
    <3>1. [r \in Recvs |-> IF r \in DOMAIN m.sizes THEN m.sizes[r] ELSE z[r]] \in [Recvs -> Nat]
      BY <1>5
    <3> QED
      BY <3>1
  <2>3. sizesFifo' = sizesFifo \/ sizesFifo' = [sizesFifo EXCEPT ![m.slot] = y]
    BY <1>3, <2>1, <2>2 DEF Deliver
  <2> QED
    BY <1>1, <1>5, <2>3 DEF TypeOK
<1>11. ops' \in Seq(Op)
  BY <1>3, DeliverOps
<1>12. rcq' \subseteq RecvCqe
  <2>1. [dev |-> DevOf(q), qp |-> q, opcode |-> "RECV_RDMA_WITH_IMM", wr_id |-> w, imm |-> m.imm, op |-> k] \in RecvCqe
    BY <1>5, <1>6, NewCqe
  <2> QED
    BY <1>1, <1>3, <1>4, <1>7, <2>1 DEF Deliver, TypeOK
<1>13. scq' \subseteq SendCqe
  <2>1. [dev |-> DevOf(q), qp |-> q, ids |-> m.ids, op |-> k] \in SendCqe
    BY <1>5, <1>6 DEF SendCqe
  <2> QED
    BY <1>1, <1>3, <1>7, <2>1 DEF Deliver, TypeOK
<1> QED
  BY <1>1, <1>8, <1>9, <1>10, <1>11, <1>12, <1>13, Zenon DEF Deliver, TypeOK, svars

\* What a delivery does, with the work request, the receive and the completion named.
Delivering(q, m, w, k, c) ==
    /\ w = recvQueue[q][1] /\ m = dataWire[q][1] /\ k = QueuedOp(q, 1) /\ k = m.dst[1] /\ k <= Consumed
    /\ rreqs[w].type = "RECV" /\ rreqs[w].op = k /\ k \in 1 .. fifoTail /\ q \in QpsOf(k)
    /\ c.dev = DevOf(q) /\ c.qp = q /\ c.opcode = "RECV_RDMA_WITH_IMM" /\ c.wr_id = w /\ c.op = k
    /\ c.imm = m.imm /\ rcq' = rcq \cup {c}
    /\ \A p \in Qps \ {q} : recvQueue'[p] = recvQueue[p] /\ dataWire'[p] = dataWire[p]
    /\ Len(recvQueue[q]) \in Nat \ {0} /\ Len(recvQueue'[q]) = Len(recvQueue[q]) - 1
    /\ Len(dataWire[q]) \in Nat \ {0} /\ Len(dataWire'[q]) = Len(dataWire[q]) - 1
    /\ \A i \in 1 .. Len(recvQueue[q]) - 1 : recvQueue'[q][i] = recvQueue[q][i + 1]
    /\ \A i \in 1 .. Len(dataWire[q]) - 1 : dataWire'[q][i] = dataWire[q][i + 1]

LEMMA DeliverNamed ==
    ASSUME RecvInv, NEW q \in Qps, Deliver(q)
    PROVE  \E m \in Msg, w \in ReqIds, k \in Nat, c \in RecvCqe :
              m = Head(dataWire[q]) /\ Delivering(q, m, w, k, c)
<1>1. TypeOK /\ dataWire[q] \in Seq(Msg) /\ recvQueue[q] \in Seq(ReqIds) /\ QpOk(q)
      /\ dataWire \in [Qps -> Seq(Msg)] /\ recvQueue \in [Qps -> Seq(ReqIds)]
  BY DEF RecvInv, TypeOK
<1>2. dataWire[q] # <<>> /\ recvQueue[q] # <<>>
  BY DEF Deliver
<1>3. PICK m \in Msg : m = Head(dataWire[q]) /\ m = dataWire[q][1]
  BY <1>1, <1>2, TailFields
<1>4. PICK w \in ReqIds : w = Head(recvQueue[q]) /\ w = recvQueue[q][1]
  BY <1>1, <1>2, TailFields
<1>5. 1 \in 1 .. Len(recvQueue[q]) /\ 1 <= Len(dataWire[q]) /\ Len(recvQueue[q]) \in Nat \ {0} /\ Len(dataWire[q]) \in Nat \ {0}
  BY <1>1, <1>2, TailFields
<1>6. PICK k \in Nat : k = QueuedOp(q, 1)
  BY <1>1, <1>5, RecvTypes
<1>7. /\ rreqs[w].type = "RECV" /\ q \in QpsOf(k) /\ k = m.dst[1] /\ k <= Consumed
  BY <1>1, <1>3, <1>4, <1>5, <1>6 DEF QpOk
<1>8. rreqs[w].op = k
  BY <1>4, <1>6 DEF QueuedOp
<1>9. k \in 1 .. fifoTail
  BY <1>7, <1>8, ReqKnown
<1> DEFINE c == [dev |-> DevOf(q), qp |-> q, opcode |-> "RECV_RDMA_WITH_IMM", wr_id |-> w, imm |-> m.imm, op |-> k]
<1>10. /\ c \in RecvCqe /\ c.dev = DevOf(q) /\ c.qp = q /\ c.opcode = "RECV_RDMA_WITH_IMM" /\ c.wr_id = w
       /\ c.op = k /\ c.imm = m.imm
  <2>1. DevOf(q) \in Devs /\ m.imm \in Nat
    BY DevsOfQps, MsgFields
  <2>2. c \in RecvCqe
    BY <2>1, NewCqe
  <2> QED
    BY <2>2
<1>11. rcq' = rcq \cup {c}
  BY <1>3, <1>4, <1>7 DEF Deliver
<1> HIDE DEF c
<1>12. /\ dataWire' = [dataWire EXCEPT ![q] = Tail(dataWire[q])]
       /\ recvQueue' = [recvQueue EXCEPT ![q] = Tail(recvQueue[q])]
  BY DEF Deliver
<1>13. /\ \A p \in Qps \ {q} : recvQueue'[p] = recvQueue[p] /\ dataWire'[p] = dataWire[p]
       /\ recvQueue'[q] = Tail(recvQueue[q]) /\ dataWire'[q] = Tail(dataWire[q])
  BY <1>1, <1>12
<1>14. /\ Len(Tail(recvQueue[q])) = Len(recvQueue[q]) - 1 /\ Len(Tail(dataWire[q])) = Len(dataWire[q]) - 1
       /\ \A i \in 1 .. Len(recvQueue[q]) - 1 : Tail(recvQueue[q])[i] = recvQueue[q][i + 1]
       /\ \A i \in 1 .. Len(dataWire[q]) - 1 : Tail(dataWire[q])[i] = dataWire[q][i + 1]
  BY <1>1, <1>2, TailFields
<1>15. Delivering(q, m, w, k, c)
  BY <1>3, <1>4, <1>5, <1>6, <1>7, <1>8, <1>9, <1>10, <1>11, <1>13, <1>14 DEF Delivering
<1> QED
  BY <1>3, <1>10, <1>15

\* The queue of the QP without its oldest message and work request.
LEMMA DeliverQp ==
    ASSUME RecvInv, NEW q \in Qps, NEW m \in Msg, NEW w \in ReqIds, NEW k \in Nat, NEW c \in RecvCqe,
           Delivering(q, m, w, k, c), rreqs' = rreqs, fifoTail' = fifoTail, Consumed' = Consumed
    PROVE  QpOk(q)'
<1>1. TypeOK /\ QpOk(q) /\ Consumed \in Nat /\ fifoTail \in Nat
  BY OpsKnown DEF RecvInv
<1>2. PICK n \in Nat : /\ n + 1 = Len(recvQueue[q]) /\ n = Len(recvQueue'[q])
                       /\ \A i \in 1 .. n : recvQueue'[q][i] = recvQueue[q][i + 1]
  <2>1. PICK x \in Nat \ {0} : x = Len(recvQueue[q])
    BY DEF Delivering
  <2>2. PICK n \in Nat : n = x - 1 /\ n + 1 = x
    BY <2>1
  <2> QED
    BY <2>1, <2>2 DEF Delivering
<1>3. PICK l \in Nat : /\ l + 1 = Len(dataWire[q]) /\ l = Len(dataWire'[q])
                       /\ \A i \in 1 .. l : dataWire'[q][i] = dataWire[q][i + 1]
  <2>1. PICK x \in Nat \ {0} : x = Len(dataWire[q])
    BY DEF Delivering
  <2>2. PICK n1 \in Nat : n1 = x - 1 /\ n1 + 1 = x
    BY <2>1
  <2> QED
    BY <2>1, <2>2 DEF Delivering
<1>4. \A i \in 1 .. n : i + 1 \in 1 .. n + 1 /\ QueuedOp(q, i)' = QueuedOp(q, i + 1)
  BY <1>2 DEF QueuedOp
<1>5. \A i \in 1 .. n + 1 : QueuedOp(q, i) \in Nat
  BY <1>1, <1>2, RecvTypes
<1> HIDE DEF QueuedOp
<1>6. /\ \A i \in 1 .. n + 1 : rreqs[recvQueue[q][i]].type = "RECV" /\ q \in QpsOf(QueuedOp(q, i))
      /\ \A i, j \in 1 .. n + 1 : i < j => QueuedOp(q, i) < QueuedOp(q, j)
      /\ \A x \in Consumed + 1 .. fifoTail : q \in QpsOf(x) => \E i \in 1 .. n + 1 : QueuedOp(q, i) = x
      /\ l + 1 <= n + 1
      /\ \A i \in 1 .. n + 1 : IF i <= l + 1
                           THEN dataWire[q][i].dst # <<>> /\ dataWire[q][i].dst[1] = QueuedOp(q, i) /\ QueuedOp(q, i) <= Consumed
                           ELSE QueuedOp(q, i) > Consumed
  BY <1>1, <1>2, <1>3 DEF QpOk
<1>7. ASSUME NEW i \in 1 .. n PROVE rreqs'[recvQueue'[q][i]].type = "RECV" /\ q \in QpsOf(QueuedOp(q, i)')
  <2>1. i + 1 \in 1 .. n + 1 /\ QueuedOp(q, i)' = QueuedOp(q, i + 1)
    BY <1>4
  <2>2. rreqs[recvQueue[q][i + 1]].type = "RECV" /\ q \in QpsOf(QueuedOp(q, i + 1))
    BY <1>6, <2>1, Zenon
  <2>3. rreqs' = rreqs /\ recvQueue'[q][i] = recvQueue[q][i + 1]
    BY <1>2
  <2> QED
    BY <2>1, <2>2, <2>3, Zenon
<1>8. \A i, j \in 1 .. n : i < j => QueuedOp(q, i)' < QueuedOp(q, j)'
  <2> SUFFICES ASSUME NEW i \in 1 .. n, NEW j \in 1 .. n, i < j PROVE QueuedOp(q, i)' < QueuedOp(q, j)'
    OBVIOUS
  <2>1. i + 1 < j + 1 /\ i + 1 \in 1 .. n + 1 /\ j + 1 \in 1 .. n + 1
    OBVIOUS
  <2>2. QueuedOp(q, i + 1) < QueuedOp(q, j + 1)
    BY <1>6, <2>1
  <2> QED
    BY <1>4, <2>2
<1>9. ASSUME NEW x \in Consumed + 1 .. fifoTail, q \in QpsOf(x)
      PROVE \E i \in 1 .. n : QueuedOp(q, i)' = x
  <2>1. PICK i \in 1 .. n + 1 : QueuedOp(q, i) = x
    BY <1>6, <1>9
  <2>2. QueuedOp(q, 1) <= Consumed
    BY DEF Delivering
  <2>3. i # 1
    BY <1>1, <2>1, <2>2
  <2>4. PICK j \in 1 .. n : i = j + 1
    <3>1. i - 1 \in 1 .. n /\ i = (i - 1) + 1
      BY <2>3
    <3> QED
      BY <3>1
  <2> QED
    BY <1>4, <2>1, <2>4
<1>10. l <= n
  BY <1>6
<1>11. ASSUME NEW i \in 1 .. n
       PROVE  IF i <= l
              THEN dataWire'[q][i].dst # <<>> /\ dataWire'[q][i].dst[1] = QueuedOp(q, i)' /\ QueuedOp(q, i)' <= Consumed
              ELSE QueuedOp(q, i)' > Consumed
  <2>1. PICK j \in 1 .. n + 1 : j = i + 1 /\ (j <= l + 1 <=> i <= l)
    OBVIOUS
  <2>2. QueuedOp(q, i)' = QueuedOp(q, j)
    BY <1>4, <2>1
  <2>3. i <= l => dataWire'[q][i] = dataWire[q][j]
    BY <1>3, <2>1
  <2> QED
    BY <1>6, <2>1, <2>2, <2>3
<1> QED
  BY <1>2, <1>3, <1>7, <1>8, <1>9, <1>10, <1>11 DEF QpOk

\* A work request of request j waits on QP p.
InQueue(p, j) == \E i \in 1 .. Len(recvQueue[p]) : recvQueue[p][i] = j

\* Who is in the queues after a delivery.
LEMMA DeliverQueued ==
    ASSUME RecvInv, NEW q \in Qps, NEW m \in Msg, NEW w \in ReqIds, NEW k \in Nat, NEW c \in RecvCqe,
           Delivering(q, m, w, k, c), NEW p \in Qps, NEW j
    PROVE  InQueue(p, j)' <=> InQueue(p, j) /\ ~(p = q /\ j = w)
<1>1. CASE p # q
  <2>1. recvQueue'[p] = recvQueue[p]
    BY <1>1 DEF Delivering
  <2> QED
    BY <1>1, <2>1 DEF InQueue
<1>2. CASE p = q
  <2>1. PICK n \in Nat : /\ n + 1 = Len(recvQueue[q]) /\ n = Len(recvQueue'[q])
                         /\ \A i \in 1 .. n : recvQueue'[q][i] = recvQueue[q][i + 1]
    <3>1. PICK x \in Nat \ {0} : x = Len(recvQueue[q])
      BY DEF Delivering
    <3>2. PICK n \in Nat : n = x - 1 /\ n + 1 = x
      BY <3>1
    <3> QED
      BY <3>1, <3>2 DEF Delivering
  <2>2. QpOk(q) /\ w = recvQueue[q][1] /\ TypeOK
    BY DEF Delivering, RecvInv
  <2>3. ASSUME NEW i \in 1 .. n PROVE recvQueue[q][i + 1] # w
    <3>1. 1 \in 1 .. n + 1 /\ i + 1 \in 1 .. n + 1 /\ 1 < i + 1
      OBVIOUS
    <3>2. QueuedOp(q, 1) < QueuedOp(q, i + 1) /\ QueuedOp(q, 1) \in Nat
      BY <2>1, <2>2, <3>1, RecvTypes DEF QpOk
    <3>3. QueuedOp(q, 1) # QueuedOp(q, i + 1)
      BY <3>2
    <3> QED
      BY <2>2, <3>3 DEF QueuedOp
  <2>4. ASSUME NEW i \in 1 .. n + 1 PROVE i = 1 \/ \E h \in 1 .. n : i = h + 1
    <3>1. i = 1 \/ (i - 1 \in 1 .. n /\ i = (i - 1) + 1)
      OBVIOUS
    <3> QED
      BY <3>1
  <2>5. \A i \in 1 .. n : i + 1 \in 1 .. n + 1
    OBVIOUS
  <2>6. ASSUME InQueue(q, j)' PROVE InQueue(q, j) /\ j # w
    <3>1. PICK i \in 1 .. n : recvQueue'[q][i] = j
      BY <2>1, <2>6 DEF InQueue
    <3>2. recvQueue[q][i + 1] = j /\ i + 1 \in 1 .. n + 1
      BY <2>1, <2>5, <3>1
    <3> QED
      BY <2>1, <2>3, <3>2 DEF InQueue
  <2>7. ASSUME InQueue(q, j), j # w PROVE InQueue(q, j)'
    <3>1. PICK i \in 1 .. n + 1 : recvQueue[q][i] = j
      BY <2>1, <2>7 DEF InQueue
    <3>2. PICK h \in 1 .. n : i = h + 1
      BY <2>2, <2>4, <2>7, <3>1
    <3>3. recvQueue'[q][h] = j
      BY <2>1, <3>1, <3>2
    <3> QED
      BY <2>1, <3>3 DEF InQueue
  <2> QED
    BY <1>2, <2>6, <2>7
<1> QED
  BY <1>1, <1>2

\* A completion takes the place of its work request.
LEMMA DeliverEvents ==
    ASSUME RecvInv, NEW q \in Qps, NEW m \in Msg, NEW w \in ReqIds, NEW k \in Nat, NEW c \in RecvCqe,
           Delivering(q, m, w, k, c), rreqs' = rreqs, NEW j \in ReqIds, NEW d \in Devs
    PROVE  RecvEventsOk(j, d)'
<1>1. RecvEventsOk(j, d) /\ TypeOK
  BY DEF RecvInv
<1>2. /\ rcq' = rcq \cup {c} /\ c.dev = DevOf(q) /\ c.wr_id = w /\ c.qp = q /\ c.opcode = "RECV_RDMA_WITH_IMM"
      /\ w = recvQueue[q][1] /\ 1 \in 1 .. Len(recvQueue[q])
  BY DEF Delivering
<1>3. QpsWith(j, d)' = {p \in Qps : DevOf(p) = d /\ InQueue(p, j) /\ ~(p = q /\ j = w)}
  <2>1. QpsWith(j, d)' = {p \in Qps : DevOf(p) = d /\ InQueue(p, j)'}
    BY DEF QpsWith, InQueue
  <2>2. \A p \in Qps : InQueue(p, j)' <=> InQueue(p, j) /\ ~(p = q /\ j = w)
    BY DeliverQueued
  <2> HIDE DEF InQueue
  <2> QED
    BY <2>1, <2>2
<1>4. CASE ~(j = w /\ d = DevOf(q))
  <2>1. QpsWith(j, d)' = QpsWith(j, d)
    BY <1>3, <1>4 DEF QpsWith, InQueue
  <2>2. CqesOf(j, d)' = CqesOf(j, d)
    BY <1>2, <1>4 DEF CqesOf
  <2> QED
    BY <1>1, <2>1, <2>2 DEF RecvEventsOk
<1>5. CASE j = w /\ d = DevOf(q)
  <2>1. QpsWith(j, d)' = QpsWith(j, d) \ {q} /\ q \in QpsWith(j, d)
    BY <1>2, <1>3, <1>5 DEF QpsWith, InQueue
  <2>2. CqesOf(j, d)' = CqesOf(j, d) \cup {c}
    BY <1>2, <1>5 DEF CqesOf
  <2>3. c \notin rcq
    <3> SUFFICES ASSUME c \in rcq PROVE FALSE
      OBVIOUS
    <3>1. RecvCqeOk(c)
      BY DEF RecvInv
    <3> QED
      BY <1>2, <3>1 DEF RecvCqeOk
  <2>4. c \notin CqesOf(j, d)
    BY <2>3 DEF CqesOf
  <2>5. IsFiniteSet(CqesOf(j, d)') /\ Cardinality(CqesOf(j, d)') = Cardinality(CqesOf(j, d)) + 1
    BY <1>1, <2>2, <2>4, FS_AddElement DEF RecvEventsOk
  <2>6. QpsWith(j, d) \in SUBSET Qps
    BY DEF QpsWith
  <2>7. Cardinality(QpsWith(j, d)') = Cardinality(QpsWith(j, d)) - 1
    BY <2>1, <2>6, QpSets, FS_RemoveElement
  <2>8. Cardinality(QpsWith(j, d)) \in Nat /\ Cardinality(CqesOf(j, d)) \in Nat
    BY <1>1, <2>6, QpSets, FS_CardinalityType DEF RecvEventsOk
  <2>9. PICK a \in Nat, b \in Nat : a = Cardinality(QpsWith(j, d)) /\ b = Cardinality(CqesOf(j, d))
    BY <2>8
  <2>10. rreqs[j].events[d] = b + a
    BY <1>1, <2>9 DEF RecvEventsOk
  <2>11. b + a = (b + 1) + (a - 1)
    OBVIOUS
  <2> QED
    BY <2>5, <2>7, <2>9, <2>10, <2>11 DEF RecvEventsOk
<1> QED
  BY <1>4, <1>5

LEMMA DeliverRecv ==
    ASSUME RecvInv, NEW q \in Qps, Deliver(q)
    PROVE  RecvInv'
<1>1. PICK m \in Msg, w \in ReqIds, k \in Nat, c \in RecvCqe :
              m = Head(dataWire[q]) /\ Delivering(q, m, w, k, c)
  BY DeliverNamed
<1>2. TypeOK'
  BY DeliverTypes
<1>3. /\ rreqs' = rreqs /\ rqpIndex' = rqpIndex /\ fifoTail' = fifoTail /\ ctsWire' = ctsWire /\ fifo' = fifo
      /\ sqpIndex' = sqpIndex /\ Consumed' = Consumed
  BY DEF Deliver, svars, Consumed
<1>4. /\ Len(ops') = Len(ops)
      /\ \A j \in 1 .. Len(ops) : ops'[j].recv = ops[j].recv /\ ops'[j].state = ops[j].state
  BY <1>1, DeliverOps
<1>5. SameOps
  BY <1>3, <1>4 DEF SameOps
<1>6. TypeOK /\ InStep /\ CtsRight /\ fifoTail \in Nat /\ Consumed \in Nat /\ fifoTail = Len(ops)
  BY OpsKnown
<1>7. InStep'
  BY <1>3, <1>4, <1>6 DEF InStep
<1>8. CtsRight'
  BY <1>3, <1>4, <1>6, CtsFrame
<1>9. \A j \in ReqIds : RecvReqOk(j)'
  BY <1>3, <1>5, <1>6, ReqFrame DEF RecvInv
<1>10. \A j \in DOMAIN ops' : StateOk(j)'
  <2>1. DOMAIN ops' = 1 .. Len(ops) /\ DOMAIN ops = 1 .. Len(ops)
    BY <1>2, <1>4, <1>6 DEF TypeOK
  <2> QED
    BY <1>3, <1>5, <1>6, <2>1, StateFrame DEF RecvInv
<1>11. ASSUME NEW p \in Qps PROVE QpOk(p)'
  <2>1. CASE p = q
    BY <1>1, <1>3, <2>1, DeliverQp
  <2>2. CASE p # q
    <3>1. recvQueue'[p] = recvQueue[p] /\ dataWire'[p] = dataWire[p]
      BY <1>1, <2>2 DEF Delivering
    <3> QED
      BY <1>3, <1>6, <3>1, QpFrame DEF RecvInv
  <2> QED
    BY <2>1, <2>2
<1>12. ASSUME NEW x \in rcq' PROVE RecvCqeOk(x)'
  <2>1. CASE x \in rcq
    <3>1. RecvCqeOk(x) /\ x.qp \in Qps /\ x.wr_id \in ReqIds
      BY <1>6, <2>1, CqeFields DEF RecvInv, TypeOK
    <3>2. InQueue(x.qp, x.wr_id)' => InQueue(x.qp, x.wr_id)
      <4>1. PICK p \in Qps, j \in ReqIds : p = x.qp /\ j = x.wr_id
        BY <3>1
      <4>2. InQueue(p, j)' => InQueue(p, j)
        BY <1>1, DeliverQueued
      <4> QED
        BY <4>1, <4>2 DEF InQueue
    <3> QED
      BY <1>3, <3>1, <3>2 DEF RecvCqeOk, InQueue
  <2>2. CASE x = c
    <3>1. ~InQueue(q, w)'
      BY <1>1, DeliverQueued
    <3> QED
      BY <1>1, <1>3, <2>2, <3>1 DEF RecvCqeOk, Delivering, InQueue
  <2> QED
    BY <1>1, <2>1, <2>2 DEF Delivering
<1>13. \A j \in ReqIds, d \in Devs : RecvEventsOk(j, d)'
  BY <1>1, <1>3, DeliverEvents
<1> QED
  BY <1>2, <1>7, <1>8, <1>9, <1>10, <1>11, <1>12, <1>13 DEF RecvInv

----------------------------------------------------------------------------
(* The receive side in every behaviour. *)

LEMMA RecvInit == Init => RecvInv
<1> SUFFICES ASSUME Init PROVE RecvInv
  OBVIOUS
<1>1. /\ 0 \in Qps /\ 0 \in Devs /\ StartQp(1) = 0
      /\ Unused \in Req /\ Unused.type = "UNUSED" /\ Unused.events = NoEvents /\ \A d \in Devs : NoEvents[d] = 0
      /\ Empty \in Elem /\ Empty.idx = 0
  BY StartFirst, QpCounts, UnusedReq, EmptyElem DEF Devs
<1>2. /\ rreqs \in [ReqIds -> Req] /\ sreqs \in [ReqIds -> Req]
      /\ \A id \in ReqIds : rreqs[id] = Unused
  BY <1>1 DEF Init
<1>3. /\ sizesFifo \in [Slots -> [Recvs -> Nat]] /\ fifo \in [Slots -> [Recvs -> Elem]]
      /\ \A s \in Slots, r \in Recvs : fifo[s][r] = Empty
      /\ fifoReqs \in [Slots -> [Recvs -> ReqIds \cup {NoReq}]]
  BY <1>1 DEF Init
<1>4. /\ ctsPosted \in [Devs -> Nat] /\ ctsRetired \in [Devs -> Nat]
  BY DEF Init
<1>5. /\ recvQueue \in [Qps -> Seq(ReqIds)] /\ dataWire \in [Qps -> Seq(Msg)]
      /\ \A q \in Qps : recvQueue[q] = <<>> /\ dataWire[q] = <<>>
      /\ ops \in Seq(Op)
  BY DEF Init
<1>6. multiSent \in BOOLEAN
  BY Zenon DEF Init
<1>7. TypeOK
  BY <1>1, <1>2, <1>3, <1>4, <1>5, <1>6 DEF Init, TypeOK
<1>8. Consumed = 0 /\ fifoTail = 0 /\ Len(ops) = 0 /\ DOMAIN ops = {}
  BY DEF Init, Consumed
<1>9. InStep
  BY <1>1, <1>8 DEF Init, InStep
<1>10. CtsRight
  BY <1>1, <1>3 DEF Init, CtsRight
<1>11. \A id \in ReqIds : RecvReqOk(id)
  BY <1>1, <1>2 DEF RecvReqOk
<1>12. ASSUME NEW q \in Qps PROVE QpOk(q)
  <2>1. Len(recvQueue[q]) = 0 /\ Len(dataWire[q]) = 0
    BY <1>5
  <2> QED
    BY <1>8, <2>1 DEF QpOk
<1>13. \A c \in rcq : RecvCqeOk(c)
  BY DEF Init
<1>14. ASSUME NEW id \in ReqIds, NEW d \in Devs PROVE RecvEventsOk(id, d)
  <2>1. CqesOf(id, d) = {}
    BY DEF Init, CqesOf
  <2>2. QpsWith(id, d) = {}
    <3>1. \A q \in Qps : Len(recvQueue[q]) = 0
      BY <1>5
    <3> QED
      BY <3>1 DEF QpsWith
  <2>3. rreqs[id].events[d] = 0
    BY <1>1, <1>2
  <2>4. IsFiniteSet({}) /\ Cardinality({}) = 0
    BY FS_EmptySet
  <2> QED
    BY <2>1, <2>2, <2>3, <2>4 DEF RecvEventsOk
<1> QED
  BY <1>7, <1>8, <1>9, <1>10, <1>11, <1>12, <1>13, <1>14 DEF RecvInv

LEMMA RecvNext == RecvInv /\ [Next]_vars => RecvInv'
<1> SUFFICES ASSUME RecvInv, [Next]_vars PROVE RecvInv'
  OBVIOUS
<1>1. ASSUME NEW recv \in Receives, Irecv(recv) PROVE RecvInv'
  BY <1>1, IrecvRecv
<1>2. CASE FlushAny
  BY <1>2, IflushRecv DEF FlushAny
<1>3. CASE RecvTest
  BY <1>3, RecvTestPollRecv, RecvTestDoneRecv DEF RecvTest
<1>4. CASE SendAny
  BY <1>4, IsendRecv DEF SendAny
<1>5. CASE IsendReturn
  BY <1>5, IsendReturnRecv
<1>6. CASE SendTest
  BY <1>6, SendTestPollRecv, SendTestDoneRecv DEF SendTest
<1>7. CASE LandAny
  BY <1>7, LandCtsRecv DEF LandAny
<1>8. ASSUME NEW q \in Qps, Deliver(q) PROVE RecvInv'
  BY <1>8, DeliverRecv
<1>9. CASE UNCHANGED vars
  <2>1. TypeOK'
    BY <1>9 DEF vars, rvars, svars, fabric, RecvInv, TypeOK
  <2> QED
    BY <1>9, <2>1, QuietStep DEF vars, rvars, svars, fabric, SameOps
<1> QED
  BY <1>1, <1>2, <1>3, <1>4, <1>5, <1>6, <1>7, <1>8, <1>9 DEF Next

(***************************************************************************)
(* The receive side is sound in every behaviour: queues, completions and   *)
(* event counters agree with the receives that are posted (ncclIbIrecv,    *)
(* ncclIbTest, ncclIbIflush).  This is the inductive invariant behind the  *)
(* results that follow.                                                    *)
(***************************************************************************)
THEOREM RecvSound == Spec => []RecvInv
BY RecvInit, RecvNext, PTL DEF Spec

(***************************************************************************)
(* The variables keep their types.                                         *)
(***************************************************************************)
THEOREM TransferTypes == Spec => []TypeOK
<1>1. RecvInv => TypeOK
  BY DEF RecvInv
<1> QED
  BY <1>1, RecvSound, PTL

(***************************************************************************)
(* A message is credited to the receive it was sent for: for every number  *)
(* of QPs, devices and outstanding receives both sides walk the QPs in     *)
(* lock step.                                                              *)
(***************************************************************************)
THEOREM ImmCredited == Spec => []ImmMatchesRecv
<1>1. RecvInv => ImmMatchesRecv
  <2> SUFFICES ASSUME RecvInv, NEW c \in rcq
               PROVE  /\ Active(rreqs, c.wr_id) /\ rreqs[c.wr_id].op = c.op
                      /\ c.opcode = "RECV_RDMA_WITH_IMM" => rreqs[c.wr_id].type = "RECV"
    BY DEF ImmMatchesRecv
  <2>1. RecvCqeOk(c)
    BY DEF RecvInv
  <2> QED
    BY <2>1 DEF RecvCqeOk, Active
<1> QED
  BY <1>1, RecvSound, PTL

(***************************************************************************)
(* No message finds its QP without a receive work request: ncclIbIrecv     *)
(* posts them all before the CTS that lets the sender go.                  *)
(***************************************************************************)
THEOREM NeverReceiverNotReady == Spec => []ReceiverReady
<1>1. RecvInv => ReceiverReady
  BY DEF RecvInv, QpOk, ReceiverReady
<1> QED
  BY <1>1, RecvSound, PTL

----------------------------------------------------------------------------
(* The CTS FIFO is implemented: every step is a step of CtsFifo, or leaves *)
(* its state alone.                                                        *)

\* No more receives than the bound.
Bounded == fifoTail \in 0 .. MaxOps

LEMMA BoundedNext == TypeOK /\ Bounded /\ [Next]_vars => Bounded'
<1> SUFFICES ASSUME TypeOK, Bounded, [Next]_vars PROVE Bounded'
  OBVIOUS
<1>1. ASSUME NEW recv \in Receives, Irecv(recv) PROVE Bounded'
  <2>1. fifoTail < MaxOps /\ fifoTail' = fifoTail + 1 /\ MaxOps \in Nat
    BY <1>1, Limits DEF Irecv, RecvWindowOpen
  <2> QED
    BY <2>1 DEF Bounded
<1>2. fifoTail' = fifoTail => Bounded'
  BY DEF Bounded
<1>3. CASE FlushAny \/ RecvTest
  BY <1>2, <1>3, Zenon DEF FlushAny, Iflush, RecvTest, RecvTestPoll, RecvTestDone
<1>4. CASE SendAny
  BY <1>2, <1>4, Zenon DEF SendAny, Isend, rvars
<1>5. CASE IsendReturn \/ SendTest
  BY <1>2, <1>5, Zenon DEF IsendReturn, SendTest, SendTestPoll, SendTestDone, rvars
<1>7. CASE LandAny
  BY <1>2, <1>7, Zenon DEF LandAny, LandCts, rvars
<1>8. ASSUME NEW q \in Qps, Deliver(q) PROVE Bounded'
  BY <1>2, <1>8, Zenon DEF Deliver
<1>6. CASE UNCHANGED vars
  BY <1>2, <1>6 DEF vars, rvars
<1> QED
  BY <1>1, <1>3, <1>4, <1>5, <1>6, <1>7, <1>8 DEF Next

\* A step that leaves the FIFO alone.
LEMMA CtsStutter ==
    ASSUME RecvInv, SameOps, DOMAIN ops' = DOMAIN ops, fifoHead' = fifoHead, multiSent' = multiSent,
           ctsWire' = ctsWire, fifo' = fifo
    PROVE  UNCHANGED Cts!vars
<1>1. DOMAIN ops = 1 .. Len(ops) /\ fifoTail' = fifoTail
  BY OpsKnown DEF SameOps
<1>2. CtsNeed' = CtsNeed
  BY <1>1 DEF CtsNeed, SameOps
<1>3. CtsFinished' = CtsFinished
  BY <1>1 DEF CtsFinished, SameOps
<1>4. CtsInflight' = CtsInflight /\ CtsPlaced' = CtsPlaced
  BY DEF CtsInflight, CtsPlaced
<1> QED
  BY <1>1, <1>2, <1>3, <1>4 DEF Cts!vars

LEMMA CtsSlots == /\ Cts!Slots = Slots /\ Cts!Recvs = Recvs /\ Cts!Ops = 1 .. MaxOps
                  /\ \A k : Cts!Slot(k) = FifoSlot(k - 1)
BY DEF Cts!Slots, Slots, Cts!Recvs, Recvs, Cts!Ops, Cts!Slot, FifoSlot

LEMMA IrecvCts ==
    ASSUME RecvInv, Bounded, NEW recv \in Receives, Irecv(recv)
    PROVE  Cts!Next
<1>1. PICK id \in ReqIds, t \in Nat, x \in Nat, dv \in Devs,
              ev \in [Devs -> Int], N \in SUBSET RecvCqe : Posting(recv, id, t, x, dv, ev, N)
  BY IrecvPosts
<1>2. PICK n \in Nat : n = Len(recv) /\ n \in 1 .. MaxRecvs /\ DOMAIN recv = 1 .. n
  BY RecvFields
<1>3. /\ t = fifoTail /\ t = Len(ops) /\ DOMAIN ops = 1 .. t /\ ops \in Seq(Op) /\ t < MaxOps /\ MaxOps \in Nat
      /\ fifoTail' = t + 1
  BY <1>1, OpsKnown, Limits DEF Posting, Irecv, RecvWindowOpen, TypeOK
<1>4. PICK o \in Op : o = NewOp(recv) /\ o.recv = recv /\ o.state = "posted"
  BY NewOpType
<1>5. DOMAIN ops' = 1 .. t + 1 /\ ops'[t + 1] = o /\ \A k \in 1 .. t : ops'[k] = ops[k]
  <2>1. ops' = Append(ops, o)
    BY <1>1, <1>4 DEF Posting
  <2> QED
    BY <1>3, <2>1
<1>6. \A k \in 1 .. t + 1 : k \in 1 .. t \/ k = t + 1
  OBVIOUS
<1>7. CtsNeed' = [CtsNeed EXCEPT ![t + 1] = n]
  <2>1. t + 1 \in 1 .. MaxOps /\ t + 1 \notin 1 .. t /\ t + 1 \in 1 .. t + 1
    BY <1>3
  <2>2. ASSUME NEW k \in 1 .. MaxOps PROVE CtsNeed'[k] = [CtsNeed EXCEPT ![t + 1] = n][k]
    <3>1. CASE k = t + 1
      BY <1>2, <1>4, <1>5, <2>1, <3>1 DEF CtsNeed
    <3>2. CASE k # t + 1
      <4>1. k \in 1 .. t + 1 <=> k \in 1 .. t
        BY <3>2
      <4> QED
        BY <1>3, <1>5, <3>2, <4>1 DEF CtsNeed
    <3> QED
      BY <3>1, <3>2
  <2> QED
    BY <2>2 DEF CtsNeed
<1>8. CtsInflight' = CtsInflight \cup {<<t + 1, r>> : r \in 1 .. n}
  <2> DEFINE el(r) == [slot |-> FifoSlot(t), r |-> r,
                       elem |-> [idx |-> t + 1, nreqs |-> Len(recv), size |-> recv[r].size, tag |-> recv[r].tag]]
  <2>1. ctsWire' = ctsWire \cup {el(r) : r \in 1 .. n}
    BY <1>1, <1>2 DEF Posting
  <2>2. \A r : el(r).elem.idx = t + 1 /\ el(r).r = r
    OBVIOUS
  <2> HIDE DEF el
  <2> QED
    BY <2>1, <2>2 DEF CtsInflight
<1>9. CtsFinished' = CtsFinished
  BY <1>3, <1>4, <1>5, <1>6 DEF CtsFinished
<1>10. CtsPlaced' = CtsPlaced /\ fifoHead' = fifoHead /\ multiSent' = multiSent
  BY DEF Irecv, svars, CtsPlaced
<1>11. ASSUME NEW k \in 1 .. MaxOps, k + Window <= fifoTail + 1 PROVE k \in CtsFinished
  <2>1. PICK w \in Nat \ {0} : w = Window
    BY Limits
  <2>2. k \in 1 .. t
    BY <1>3, <1>11, <2>1
  <2>3. ops[k].state = "retired"
    BY <1>1, <1>3, <1>11, <2>2 DEF Posting
  <2> QED
    BY <1>3, <2>2, <2>3 DEF CtsFinished
<1>12. Cts!Post(n)
  BY <1>3, <1>7, <1>8, <1>9, <1>10, <1>11, CtsSlots DEF Cts!Post, Cts!MayPost
<1> QED
  BY <1>2, <1>12 DEF Cts!Next, Cts!Recvs

\* A receive the caller is done with was consumed.
LEMMA RetireCts ==
    ASSUME RecvInv, Bounded, NEW k \in 1 .. fifoTail, k <= Consumed, ops[k].state # "retired",
           ops'[k].state = "retired", DOMAIN ops' = DOMAIN ops, fifoTail' = fifoTail,
           \A j \in 1 .. fifoTail : j # k => ops'[j] = ops[j],
           ops'[k].recv = ops[k].recv,
           fifoHead' = fifoHead, multiSent' = multiSent, ctsWire' = ctsWire, fifo' = fifo
    PROVE  Cts!Next
<1>1. DOMAIN ops = 1 .. fifoTail /\ fifoTail \in Nat
  BY OpsKnown
<1>2. CtsNeed' = CtsNeed
  BY <1>1 DEF CtsNeed
<1>3. CtsFinished' = CtsFinished \cup {k} /\ k \notin CtsFinished
  BY <1>1 DEF CtsFinished
<1>4. CtsInflight' = CtsInflight /\ CtsPlaced' = CtsPlaced
  BY DEF CtsInflight, CtsPlaced
<1>5. Cts!Consumed = Consumed
  BY DEF Cts!Consumed, Consumed
<1>6. Cts!Retire(k)
  BY <1>2, <1>3, <1>4, <1>5 DEF Cts!Retire
<1>7. k \in Cts!Ops
  BY <1>1, CtsSlots, Limits DEF Bounded
<1> QED
  BY <1>6, <1>7 DEF Cts!Next

LEMMA IflushCts ==
    ASSUME RecvInv, Bounded, NEW k \in DOMAIN ops, Iflush(k)
    PROVE  Cts!Next \/ UNCHANGED Cts!vars
<1>1. /\ fifoTail = Len(ops) /\ fifoTail \in Nat /\ DOMAIN ops = 1 .. fifoTail /\ k \in 1 .. fifoTail
      /\ ops[k].state = "done" /\ ops[k] \in Op /\ StateOk(k) /\ ops \in Seq(Op)
  BY OpsKnown DEF Iflush, TypeOK
<1>2. k <= Consumed
  BY <1>1 DEF StateOk
<1>3. /\ fifoTail' = fifoTail /\ fifoHead' = fifoHead /\ multiSent' = multiSent /\ ctsWire' = ctsWire /\ fifo' = fifo
  BY DEF Iflush, svars
<1>4. PICK st \in {"flushing", "retired"} : ops' = [ops EXCEPT ![k].state = st]
  BY DEF Iflush
<1>5. PICK o \in Op : o = InState(ops[k], st) /\ o.recv = ops[k].recv /\ o.state = st
  BY <1>1, OpInState
<1>6. ops' = [ops EXCEPT ![k] = o]
  BY <1>4, <1>5 DEF InState
<1>7. /\ Len(ops') = Len(ops) /\ DOMAIN ops' = DOMAIN ops
      /\ \A j \in 1 .. Len(ops) : ops'[j] = IF j = k THEN o ELSE ops[j]
  BY <1>1, <1>6, ExceptSeq
<1>8. CASE st = "retired"
  BY <1>1, <1>2, <1>3, <1>5, <1>7, <1>8, RetireCts
<1>9. CASE st = "flushing"
  <2>1. \A j \in 1 .. fifoTail : ops'[j].recv = ops[j].recv /\ (ops'[j].state = "retired" <=> ops[j].state = "retired")
    BY <1>1, <1>5, <1>7, <1>9
  <2>2. CtsNeed' = CtsNeed
    BY <1>1, <1>7, <2>1 DEF CtsNeed
  <2>3. CtsFinished' = CtsFinished
    BY <1>1, <1>7, <2>1 DEF CtsFinished
  <2>4. CtsInflight' = CtsInflight /\ CtsPlaced' = CtsPlaced
    BY <1>3 DEF CtsInflight, CtsPlaced
  <2> QED
    BY <1>3, <2>2, <2>3, <2>4 DEF Cts!vars
<1> QED
  BY <1>8, <1>9

LEMMA RecvTestDoneCts ==
    ASSUME RecvInv, Bounded, NEW id \in ReqIds, RecvTestDone(id)
    PROVE  Cts!Next \/ UNCHANGED Cts!vars
<1> DEFINE req == rreqs[id]
           k == req.op
           z == [r \in 1 .. req.nreqs |-> sizesFifo[req.arg][r]]
           o == IF req.type = "RECV" THEN Reported(ops[k], z) ELSE InState(ops[k], "retired")
<1>1. /\ fifoTail = Len(ops) /\ fifoTail \in Nat /\ DOMAIN ops = 1 .. fifoTail
      /\ \A j \in 1 .. fifoTail : StateOk(j) /\ ops[j] \in Op
      /\ ops \in Seq(Op) /\ TypeOK
  BY OpsKnown DEF TypeOK
<1>2. req.type # "UNUSED" /\ req.events = NoEvents
  BY DEF RecvTestDone, Active, AllPolled
<1>3. /\ k \in 1 .. fifoTail /\ req.type \in {"RECV", "FLUSH"}
      /\ req.type = "RECV" => ops[k].state = "posted" /\ req.arg \in Slots /\ req.nreqs = Len(ops[k].recv)
      /\ req.type = "FLUSH" => ops[k].state = "flushing"
  BY <1>2, ReqKnown
<1>4. k <= Consumed
  BY <1>1, <1>2, <1>3, PolledAfterPosted DEF StateOk
<1>5. /\ ops' = [ops EXCEPT ![k] = o]
      /\ fifoTail' = fifoTail /\ fifoHead' = fifoHead /\ multiSent' = multiSent /\ ctsWire' = ctsWire /\ fifo' = fifo
  BY DEF RecvTestDone, Reported, InState, svars, fabric
<1>6. o.recv = ops[k].recv /\ o.state = (IF req.type = "RECV" THEN "done" ELSE "retired")
  <2>1. ops[k] \in Op
    BY <1>1, <1>3
  <2> QED
    BY <2>1, <1>3 DEF Op, Reported, InState
<1> HIDE DEF o, z
<1>7. /\ DOMAIN ops' = DOMAIN ops /\ \A j \in 1 .. fifoTail : ops'[j] = IF j = k THEN o ELSE ops[j]
  BY <1>1, <1>5
<1>8. CASE req.type = "FLUSH"
  <2>1. PICK i \in 1 .. fifoTail : i = k
    BY <1>3
  <2> HIDE DEF k
  <2>2. ops'[i].state = "retired" /\ ops[i].state # "retired" /\ ops'[i].recv = ops[i].recv /\ i <= Consumed
        /\ \A j \in 1 .. fifoTail : j # i => ops'[j] = ops[j]
    BY <1>3, <1>4, <1>6, <1>7, <1>8, <2>1
  <2> QED
    BY <1>5, <1>7, <2>2, RetireCts
<1>9. CASE req.type = "RECV"
  <2>1. \A j \in 1 .. fifoTail : ops'[j].recv = ops[j].recv /\ (ops'[j].state = "retired" <=> ops[j].state = "retired")
    BY <1>3, <1>6, <1>7, <1>9
  <2>2. CtsNeed' = CtsNeed
    BY <1>1, <1>7, <2>1 DEF CtsNeed
  <2>3. CtsFinished' = CtsFinished
    BY <1>1, <1>7, <2>1 DEF CtsFinished
  <2>4. CtsInflight' = CtsInflight /\ CtsPlaced' = CtsPlaced
    BY <1>5 DEF CtsInflight, CtsPlaced
  <2> QED
    BY <1>5, <2>2, <2>3, <2>4 DEF Cts!vars
<1> QED
  BY <1>3, <1>8, <1>9

LEMMA IsendCts ==
    ASSUME RecvInv, Bounded, NEW tag \in Tags, NEW size \in SendSizes, Isend(tag, size)
    PROVE  Cts!Next \/ UNCHANGED Cts!vars
<1>1. PICK k \in Nat \ {0}, n \in Nat \ {0}, r \in Recvs, id \in ReqIds, len \in Nat, x \in Nat :
              /\ Matching(tag, size, k, n, r, id, len, x)
              /\ \/ GroupOpen(n)
                 \/ \E ids \in Seq(ReqIds), zs \in Seq(Nat) : GroupPosted(k, n, x, ids, zs)
  BY IsendMatches
<1>2. /\ ops' \in Seq(Op) /\ Len(ops') = Len(ops)
      /\ \A j \in 1 .. Len(ops) : ops'[j].recv = ops[j].recv /\ ops'[j].state = ops[j].state
  BY <1>1, IsendOps
<1>3. /\ fifoTail = Len(ops) /\ fifoTail \in Nat /\ DOMAIN ops = 1 .. fifoTail /\ DOMAIN ops' = DOMAIN ops /\ TypeOK
  BY <1>2, OpsKnown
<1>4. fifoTail' = fifoTail /\ fifoHead' = fifoHead /\ ctsWire' = ctsWire /\ fifo' = fifo
  BY Zenon DEF Isend, rvars
<1>5. CASE GroupOpen(n)
  BY <1>2, <1>3, <1>4, <1>5, CtsStutter DEF SameOps, GroupOpen
<1>6. ASSUME NEW ids \in Seq(ReqIds), NEW zs \in Seq(Nat), GroupPosted(k, n, x, ids, zs) PROVE Cts!Next
  <2>1. CtsNeed' = CtsNeed
    BY <1>2, <1>3 DEF CtsNeed
  <2>2. CtsFinished' = CtsFinished
    BY <1>2, <1>3 DEF CtsFinished
  <2>3. CtsInflight' = CtsInflight /\ CtsPlaced' = CtsPlaced
    BY <1>4 DEF CtsInflight, CtsPlaced
  <2>4. multiSent' = TRUE
    BY Zenon, <1>6 DEF GroupPosted
  <2>5. ~multiSent /\ k = fifoHead + 1 /\ k \in 1 .. fifoTail /\ fifoHead < fifoTail /\ fifoHead \in Nat
    <3>1. fifoHead \in Nat
      BY <1>3 DEF TypeOK
    <3> QED
      BY <1>1, <1>3, <3>1 DEF Matching
  <2>6. PICK s \in Slots : s = FifoSlot(fifoHead) /\ Cts!Slot(k) = s
    <3>1. k - 1 = fifoHead
      BY <2>5
    <3> QED
      BY <2>5, <3>1, SlotOfTail, CtsSlots
  <2>7. n = Len(ops[k].recv) /\ CtsNeed[k] = n /\ n \in 1 .. MaxRecvs
    <3>1. ops[k].recv \in Receives
      BY <1>3, <2>5, OpFields, OpsKnown
    <3>2. k \in 1 .. MaxOps
      BY <1>3, <2>5, Limits DEF Bounded
    <3> QED
      BY <1>1, <1>3, <2>5, <3>1, <3>2, RecvFields DEF Matching, CtsNeed
  <2>8. \A j \in 1 .. n : fifo[s][j].idx = k /\ j \in Recvs
    <3>1. \A j \in 1 .. n : j \in Recvs
      BY <2>7, Limits DEF Recvs
    <3>2. HeadSlot = fifo[s]
      BY <2>6 DEF HeadSlot
    <3>3. \A j \in 1 .. n : HeadSlot[j].idx = k
      BY <1>1, Zenon DEF Matching
    <3> QED
      BY <3>1, <3>2, <3>3, Zenon
  <2>9. \A j \in 1 .. n : CtsPlaced[s][j] = k
    BY <2>6, <2>8 DEF CtsPlaced
  <2>10. 1 \in 1 .. n
    OBVIOUS
  <2>11. Cts!SlotReady
    BY <2>5, <2>6, <2>7, <2>9, <2>10 DEF Cts!SlotReady
  <2>12. Cts!Consume
    BY <1>4, <2>1, <2>2, <2>3, <2>4, <2>5, <2>11 DEF Cts!Consume
  <2> QED
    BY <2>12 DEF Cts!Next
<1> QED
  BY <1>1, <1>5, <1>6

LEMMA IsendReturnCts ==
    ASSUME RecvInv, Bounded, IsendReturn
    PROVE  Cts!Next
<1>1. TypeOK /\ fifoHead \in Nat
  BY DEF RecvInv, TypeOK
<1>2. PICK s \in Slots : s = FifoSlot(fifoHead) /\ Cts!Slot(fifoHead + 1) = s
  <2>1. fifoHead + 1 - 1 = fifoHead
    BY <1>1
  <2> QED
    BY <1>1, <2>1, SlotOfTail, CtsSlots
<1>3. 1 \in Recvs /\ Empty.idx = 0
  BY Limits, EmptyElem
<1>4. CtsPlaced' = [CtsPlaced EXCEPT ![s][1] = 0]
  <2>1. \A t \in Slots, r \in Recvs : fifo'[t][r] = IF t = s /\ r = 1 THEN Empty ELSE fifo[t][r]
    BY <1>1, <1>2, <1>3 DEF IsendReturn, TypeOK
  <2>2. ASSUME NEW t \in Slots PROVE CtsPlaced'[t] = [CtsPlaced EXCEPT ![s][1] = 0][t]
    <3>1. CASE t = s
      <4>1. [CtsPlaced EXCEPT ![s][1] = 0][t] = [CtsPlaced[s] EXCEPT ![1] = 0]
        BY <3>1 DEF CtsPlaced
      <4>2. CtsPlaced[s] = [r \in Recvs |-> fifo[s][r].idx] /\ CtsPlaced'[s] = [r \in Recvs |-> fifo'[s][r].idx]
        BY DEF CtsPlaced
      <4>3. [r \in Recvs |-> fifo'[s][r].idx] = [[r \in Recvs |-> fifo[s][r].idx] EXCEPT ![1] = 0]
        BY <1>3, <2>1
      <4> QED
        BY <3>1, <4>1, <4>2, <4>3
    <3>2. CASE t # s
      <4>1. [CtsPlaced EXCEPT ![s][1] = 0][t] = CtsPlaced[t]
        BY <3>2 DEF CtsPlaced
      <4>2. CtsPlaced[t] = [r \in Recvs |-> fifo[t][r].idx] /\ CtsPlaced'[t] = [r \in Recvs |-> fifo'[t][r].idx]
        BY DEF CtsPlaced
      <4>3. [r \in Recvs |-> fifo'[t][r].idx] = [r \in Recvs |-> fifo[t][r].idx]
        BY <2>1, <3>2
      <4> QED
        BY <4>1, <4>2, <4>3
    <3> QED
      BY <3>1, <3>2
  <2>3. DOMAIN CtsPlaced' = Slots /\ DOMAIN CtsPlaced = Slots
    BY DEF CtsPlaced
  <2>4. CtsPlaced' = [t \in Slots |-> CtsPlaced'[t]]
    BY DEF CtsPlaced
  <2>5. [CtsPlaced EXCEPT ![s][1] = 0] = [t \in Slots |-> [CtsPlaced EXCEPT ![s][1] = 0][t]]
    BY <2>3
  <2> QED
    BY <2>2, <2>4, <2>5
<1>5. CtsNeed' = CtsNeed /\ CtsFinished' = CtsFinished /\ CtsInflight' = CtsInflight
  BY DEF IsendReturn, CtsNeed, CtsFinished, CtsInflight, fabric
<1>6. fifoHead' = fifoHead + 1 /\ fifoTail' = fifoTail
  BY DEF IsendReturn, rvars
<1>7. multiSent /\ multiSent' = FALSE
  BY Zenon DEF IsendReturn
<1>8. Cts!Clear
  BY <1>2, <1>4, <1>5, <1>6, <1>7 DEF Cts!Clear
<1> QED
  BY <1>8 DEF Cts!Next

\* Announcements of the same buffer are the same.
LEMMA SameElem ==
    ASSUME NEW e \in Elem, NEW f \in Elem, e.idx = f.idx, e.nreqs = f.nreqs, e.size = f.size, e.tag = f.tag
    PROVE  e = f
BY DEF Elem

LEMMA SameCtsElem ==
    ASSUME NEW e \in CtsElem, NEW f \in CtsElem, e.slot = f.slot, e.r = f.r, e.elem = f.elem
    PROVE  e = f
BY DEF CtsElem

LEMMA LandCtsCts ==
    ASSUME RecvInv, Bounded, NEW e \in ctsWire, LandCts(e)
    PROVE  Cts!Next
<1>1. TypeOK /\ CtsRight /\ fifoTail \in Nat /\ MaxOps \in Nat
  BY OpsKnown, Limits
<1>2. e \in CtsElem /\ e.slot \in Slots /\ e.r \in Recvs /\ e.elem \in Elem /\ Announces(e.slot, e.r, e.elem)
  BY <1>1, CtsFields DEF TypeOK, CtsRight
<1>3. PICK k \in Nat, r \in Recvs, s \in Slots : k = e.elem.idx /\ r = e.r /\ s = e.slot
  BY <1>2, ElemFields
<1>4. k \in 1 .. MaxOps /\ Cts!Slot(k) = s
  <2>1. k \in 1 .. fifoTail /\ s = FifoSlot(k - 1)
    BY <1>2, <1>3 DEF Announces
  <2> QED
    BY <1>1, <2>1, CtsSlots DEF Bounded
<1>5. ASSUME NEW f \in ctsWire, f.elem.idx = k, f.r = r PROVE f = e
  <2>1. f \in CtsElem /\ f.elem \in Elem /\ Announces(f.slot, f.r, f.elem)
    BY <1>1, CtsFields DEF TypeOK, CtsRight
  <2>2. f.slot = e.slot /\ f.elem.nreqs = e.elem.nreqs /\ f.elem.size = e.elem.size /\ f.elem.tag = e.elem.tag
    BY <1>2, <1>3, <1>5, <2>1 DEF Announces
  <2>3. f.elem = e.elem
    BY <1>2, <1>3, <1>5, <2>1, <2>2, SameElem
  <2> QED
    BY <1>2, <1>3, <1>5, <2>1, <2>2, <2>3, SameCtsElem
<1>6. CtsInflight' = CtsInflight \ {<<k, r>>} /\ <<k, r>> \in CtsInflight
  <2>1. ctsWire' = ctsWire \ {e}
    BY DEF LandCts
  <2>2. \A f \in ctsWire : <<f.elem.idx, f.r>> = <<k, r>> <=> f = e
    BY <1>3, <1>5
  <2> QED
    BY <2>1, <2>2 DEF CtsInflight
<1>7. CtsPlaced' = [CtsPlaced EXCEPT ![s][r] = k]
  <2>1. \A t \in Slots, j \in Recvs : fifo'[t][j] = IF t = s /\ j = r THEN e.elem ELSE fifo[t][j]
    BY <1>1, <1>3 DEF LandCts, TypeOK
  <2>2. ASSUME NEW t \in Slots PROVE CtsPlaced'[t] = [CtsPlaced EXCEPT ![s][r] = k][t]
    <3>1. CASE t = s
      <4>1. [CtsPlaced EXCEPT ![s][r] = k][t] = [CtsPlaced[s] EXCEPT ![r] = k]
        BY <3>1 DEF CtsPlaced
      <4>2. CtsPlaced[s] = [j \in Recvs |-> fifo[s][j].idx] /\ CtsPlaced'[s] = [j \in Recvs |-> fifo'[s][j].idx]
        BY DEF CtsPlaced
      <4>3. [j \in Recvs |-> fifo'[s][j].idx] = [[j \in Recvs |-> fifo[s][j].idx] EXCEPT ![r] = k]
        <5>1. \A j \in Recvs : fifo'[s][j].idx = IF j = r THEN k ELSE fifo[s][j].idx
          <6>1. ASSUME NEW j \in Recvs PROVE fifo'[s][j] = IF j = r THEN e.elem ELSE fifo[s][j]
            BY <1>3, <2>1, Zenon
          <6>2. e.elem.idx = k
            BY <1>3
          <6> QED
            BY <6>1, <6>2, Zenon
        <5> QED
          BY <5>1
      <4> QED
        BY <3>1, <4>1, <4>2, <4>3
    <3>2. CASE t # s
      <4>1. [CtsPlaced EXCEPT ![s][r] = k][t] = CtsPlaced[t]
        BY <3>2 DEF CtsPlaced
      <4>2. CtsPlaced[t] = [j \in Recvs |-> fifo[t][j].idx] /\ CtsPlaced'[t] = [j \in Recvs |-> fifo'[t][j].idx]
        BY DEF CtsPlaced
      <4>3. [j \in Recvs |-> fifo'[t][j].idx] = [j \in Recvs |-> fifo[t][j].idx]
        BY <2>1, <3>2
      <4> QED
        BY <4>1, <4>2, <4>3
    <3> QED
      BY <3>1, <3>2
  <2>3. DOMAIN CtsPlaced = Slots
    BY DEF CtsPlaced
  <2>4. CtsPlaced' = [t \in Slots |-> CtsPlaced'[t]]
    BY DEF CtsPlaced
  <2>5. [CtsPlaced EXCEPT ![s][r] = k] = [t \in Slots |-> [CtsPlaced EXCEPT ![s][r] = k][t]]
    BY <2>3
  <2> QED
    BY <2>2, <2>4, <2>5
<1>8. /\ CtsNeed' = CtsNeed /\ CtsFinished' = CtsFinished /\ fifoHead' = fifoHead /\ fifoTail' = fifoTail
      /\ multiSent' = multiSent
  BY DEF LandCts, CtsNeed, CtsFinished, rvars
<1>9. Cts!Land(k, r)
  BY <1>4, <1>6, <1>7, <1>8 DEF Cts!Land
<1> QED
  BY <1>4, <1>9, CtsSlots DEF Cts!Next

LEMMA CtsStep == RecvInv /\ Bounded /\ [Next]_vars => [Cts!Next]_Cts!vars
<1> SUFFICES ASSUME RecvInv, Bounded, [Next]_vars PROVE Cts!Next \/ UNCHANGED Cts!vars
  OBVIOUS
<1>1. ASSUME NEW recv \in Receives, Irecv(recv) PROVE Cts!Next
  BY <1>1, IrecvCts
<1>2. CASE FlushAny
  BY <1>2, IflushCts DEF FlushAny
<1>3. ASSUME NEW cqe \in rcq, RecvTestPoll(cqe) PROVE UNCHANGED Cts!vars
  BY <1>3, CtsStutter DEF RecvTestPoll, SameOps, svars
<1>4. ASSUME NEW id \in ReqIds, RecvTestDone(id) PROVE Cts!Next \/ UNCHANGED Cts!vars
  BY <1>4, RecvTestDoneCts
<1>5. CASE SendAny
  BY <1>5, IsendCts DEF SendAny
<1>6. CASE IsendReturn
  BY <1>6, IsendReturnCts
<1>7. ASSUME NEW cqe \in scq, SendTestPoll(cqe) PROVE UNCHANGED Cts!vars
  BY <1>7, CtsStutter DEF SendTestPoll, SameOps, rvars
<1>8. ASSUME NEW id \in ReqIds, SendTestDone(id) PROVE UNCHANGED Cts!vars
  BY <1>8, CtsStutter DEF SendTestDone, SameOps, rvars, fabric
<1>9. CASE LandAny
  BY <1>9, LandCtsCts DEF LandAny
<1>10. ASSUME NEW q \in Qps, Deliver(q) PROVE UNCHANGED Cts!vars
  <2>1. PICK m \in Msg, w \in ReqIds, k \in Nat, c \in RecvCqe :
              m = Head(dataWire[q]) /\ Delivering(q, m, w, k, c)
    BY <1>10, DeliverNamed
  <2>2. /\ ops' \in Seq(Op) /\ Len(ops') = Len(ops)
        /\ \A j \in 1 .. Len(ops) : ops'[j].recv = ops[j].recv /\ ops'[j].state = ops[j].state
    BY <1>10, <2>1, DeliverOps
  <2>3. DOMAIN ops' = DOMAIN ops
    BY <2>2, OpsKnown
  <2> QED
    BY <1>10, <2>2, <2>3, CtsStutter, Zenon DEF Deliver, SameOps, svars
<1>11. CASE UNCHANGED vars
  BY <1>11, CtsStutter DEF vars, rvars, svars, fabric, SameOps
<1> QED
  BY <1>1, <1>2, <1>3, <1>4, <1>5, <1>6, <1>7, <1>8, <1>9, <1>10, <1>11 DEF Next, RecvTest, SendTest

(***************************************************************************)
(* The data path implements the CTS FIFO of CtsFifo, whose announcements   *)
(* are never lost nor overwritten: every step of ncclIbIrecv, ncclIbIsend, *)
(* ncclIbTest, ncclIbIflush and of the fabric is one of its steps or       *)
(* leaves the FIFO alone.  In particular a receive retires only after the  *)
(* sender has consumed its announcement.                                   *)
(***************************************************************************)
THEOREM CtsFifoImplemented == Spec => ImplementsCtsFifo
<1>1. Init => Cts!Init
  <2> SUFFICES ASSUME Init PROVE Cts!Init
    OBVIOUS
  <2>1. fifoTail = 0 /\ fifoHead = 0 /\ multiSent = FALSE /\ ops = <<>> /\ ctsWire = {}
    BY Zenon DEF Init
  <2>2. CtsNeed = [k \in 1 .. MaxOps |-> 0] /\ CtsFinished = {} /\ CtsInflight = {}
    BY <2>1 DEF CtsNeed, CtsFinished, CtsInflight
  <2>3. CtsPlaced = [s \in Slots |-> [r \in Recvs |-> 0]]
    BY EmptyElem DEF Init, CtsPlaced
  <2> QED
    BY <2>1, <2>2, <2>3, CtsSlots DEF Cts!Init
<1>2. Init => Bounded
  BY Limits DEF Init, Bounded
<1>3. RecvInv => TypeOK
  BY DEF RecvInv
<1> QED
  BY <1>1, <1>2, <1>3, BoundedNext, CtsStep, RecvSound, PTL DEF Spec, Cts!Spec, ImplementsCtsFifo

----------------------------------------------------------------------------
(* The sender's half. *)

LEMMA SendTypes ==
    ASSUME TypeOK
    PROVE  /\ \A id \in ReqIds : sreqs[id] \in Req
           /\ \A s \in Slots : fifoReqs[s] \in [Recvs -> ReqIds \cup {NoReq}]
           /\ FifoSlot(fifoHead) \in Slots /\ HeadReqs \in [Recvs -> ReqIds \cup {NoReq}]
           /\ \A c \in scq : c \in SendCqe
           /\ fifoHead \in Nat
<1>1. fifoHead \in Nat
  BY DEF TypeOK
<1>2. FifoSlot(fifoHead) \in Slots
  BY <1>1, SlotOfTail
<1> QED
  BY <1>1, <1>2 DEF TypeOK, HeadReqs

\* The message at a place of a queue, and the receive it meets.
LEMMA MsgKnown ==
    ASSUME RecvInv, NEW q \in Qps, NEW i \in 1 .. Len(dataWire[q])
    PROVE  /\ i \in 1 .. Len(recvQueue[q]) /\ dataWire[q][i] \in Msg
           /\ QueuedOp(q, i) \in 1 .. fifoTail /\ QueuedOp(q, i) <= Consumed /\ QueuedOp(q, i) \in Nat
           /\ q \in QpsOf(QueuedOp(q, i)) /\ ops[QueuedOp(q, i)].state = "posted"
           /\ dataWire[q][i].ids \in Seq(ReqIds)
<1>1. /\ TypeOK /\ QpOk(q) /\ Len(dataWire[q]) \in Nat /\ Len(recvQueue[q]) \in Nat /\ dataWire[q] \in Seq(Msg)
      /\ fifoTail \in Nat /\ Consumed \in Nat
  BY OpsKnown, RecvTypes DEF RecvInv
<1>2. i \in 1 .. Len(recvQueue[q]) /\ i <= Len(dataWire[q])
  BY <1>1 DEF QpOk
<1>3. dataWire[q][i] \in Msg
  BY <1>1
<1>4. QueuedOp(q, i) <= Consumed /\ QueuedOp(q, i) \in Nat /\ q \in QpsOf(QueuedOp(q, i))
      /\ rreqs[recvQueue[q][i]].type = "RECV" /\ recvQueue[q][i] \in ReqIds
  BY <1>1, <1>2, RecvTypes DEF QpOk
<1>5. QueuedOp(q, i) \in 1 .. fifoTail /\ ops[QueuedOp(q, i)].state = "posted"
  BY <1>4, ReqKnown DEF QueuedOp
<1> QED
  BY <1>2, <1>3, <1>4, <1>5, MsgFields

\* Every receive has QPs, and those are QPs of the connection.
LEMMA QpsOfReceive ==
    ASSUME NEW k \in Nat \ {0}
    PROVE  QpsOf(k) \subseteq Qps /\ QpsOf(k) # {} /\ StartQp(k) \in Nat
<1>1. PICK x \in Nat : x = StartQp(k)
  BY StartNext DEF Qps
<1> QED
  BY <1>1, QpsOfTransfer DEF QpsOf

\* A send that waits for its group expects completions.
LEMMA AwaitsSome ==
    ASSUME NEW x \in Nat
    PROVE  \E d \in Devs : EventsFrom(x)[d] # 0
<1>1. PICK q \in Qps : q \in QpsFrom(x)
  BY QpsOfTransfer
<1>2. PICK d \in Devs : d = DevOf(q)
  BY DevsOfQps
<1>3. {p \in QpsFrom(x) : DevOf(p) = d} \in SUBSET Qps /\ {p \in QpsFrom(x) : DevOf(p) = d} # {}
  BY <1>1, <1>2, QpsOfTransfer
<1>4. Cardinality({p \in QpsFrom(x) : DevOf(p) = d}) # 0
  BY <1>3, QpSets
<1> QED
  BY <1>4, EventsFromType

\* A send request without events is named by nothing.
LEMMA NoSendLeft ==
    ASSUME RecvInv, SendInv, NEW id \in ReqIds, sreqs[id].events = NoEvents
    PROVE  /\ ~AwaitsGroup(id)
           /\ \A c \in scq : \A j \in 1 .. Len(c.ids) : c.ids[j] # id
           /\ \A q \in Qps : ~Carries(q, id)
<1>1. TypeOK /\ sqpIndex \in Nat
  BY QpCounts DEF RecvInv, TypeOK, Qps
<1>2. \A d \in Devs : SendEventsOk(id, d) /\ sreqs[id].events[d] = 0
  BY UnusedReq DEF SendInv
<1>3. ~AwaitsGroup(id)
  <2>1. PICK d \in Devs : EventsFrom(sqpIndex)[d] # 0
    BY <1>1, AwaitsSome
  <2> QED
    BY <1>2, <2>1 DEF SendEventsOk
<1>4. ASSUME NEW d \in Devs PROVE SendCqesOf(id, d) = {} /\ SendQpsWith(id, d) = {}
  <2>1. SendQpsWith(id, d) \in SUBSET Qps
    BY DEF SendQpsWith
  <2>2. Cardinality(SendQpsWith(id, d)) \in Nat
    BY <2>1, QpSets
  <2>3. IsFiniteSet(SendCqesOf(id, d))
    BY <1>2 DEF SendEventsOk
  <2>4. Cardinality(SendCqesOf(id, d)) \in Nat
    BY <2>3, FS_CardinalityType
  <2>5. 0 = Cardinality(SendCqesOf(id, d)) + Cardinality(SendQpsWith(id, d))
    BY <1>2, <1>3 DEF SendEventsOk
  <2>6. Cardinality(SendCqesOf(id, d)) = 0 /\ Cardinality(SendQpsWith(id, d)) = 0
    BY <2>2, <2>4, <2>5
  <2> QED
    BY <2>1, <2>3, <2>6, QpSets, FS_EmptySet
<1>5. ASSUME NEW c \in scq, NEW j \in 1 .. Len(c.ids) PROVE c.ids[j] # id
  <2>1. c.dev \in Devs /\ c.ids \in Seq(ReqIds)
    BY <1>1, SendCqeFields DEF TypeOK
  <2>2. j \in DOMAIN c.ids
    BY <2>1
  <2> QED
    BY <1>4, <2>1, <2>2 DEF SendCqesOf
<1>6. ASSUME NEW q \in Qps PROVE ~Carries(q, id)
  BY <1>4, DevsOfQps DEF SendQpsWith
<1> QED
  BY <1>3, <1>5, <1>6

\* A message still fits its receive when neither that nor its sends have changed.
LEMMA FitsFrame ==
    ASSUME NEW m, NEW q, NEW k, MsgFits(m, q, k), ops'[k].recv = ops[k].recv, ops'[k].sent = ops[k].sent,
           \A j \in 1 .. Len(m.ids) : /\ sreqs'[m.ids[j]].type = sreqs[m.ids[j]].type
                                     /\ sreqs'[m.ids[j]].op = sreqs[m.ids[j]].op
    PROVE  MsgFits(m, q, k)'
<1>1. \A r : Part(k, r, q)' = Part(k, r, q)
  BY DEF Part
<1>2. Names(m.ids, k)'
  BY DEF MsgFits, Names
<1> QED
  BY <1>1, <1>2 DEF MsgFits

----------------------------------------------------------------------------
(* Steps of the receiver: work requests are only added, for new receives. *)

SameSender ==
    /\ sreqs' = sreqs /\ sqpIndex' = sqpIndex /\ fifoHead' = fifoHead /\ fifoReqs' = fifoReqs
    /\ multiSent' = multiSent /\ dataWire' = dataWire /\ scq' = scq

\* What was sent and has arrived of the receives so far.
SameSent ==
    /\ fifoTail' \in Nat /\ fifoTail' >= fifoTail
    /\ \A k \in 1 .. fifoTail : /\ ops'[k].recv = ops[k].recv /\ ops'[k].sent = ops[k].sent
                                /\ ops'[k].arrived = ops[k].arrived

\* The queues keep their work requests, and grow by those of new receives.
QueuesGrow ==
    \A q \in Qps :
        /\ Len(recvQueue'[q]) >= Len(recvQueue[q])
        /\ \A i \in 1 .. Len(recvQueue[q]) : QueuedOp(q, i)' = QueuedOp(q, i)
        /\ \A i \in Len(recvQueue[q]) + 1 .. Len(recvQueue'[q]) : QueuedOp(q, i)' > fifoTail

LEMMA ReceiverSend ==
    ASSUME RecvInv, RecvInv', SendInv, SameSender, SameSent, QueuesGrow,
           \A k \in fifoTail + 1 .. fifoTail' : SentOk(k)'
    PROVE  SendInv'
<1>1. /\ TypeOK /\ TypeOK' /\ fifoTail \in Nat /\ fifoTail' \in Nat /\ Consumed \in Nat /\ Consumed <= fifoTail
      /\ DOMAIN ops = 1 .. fifoTail /\ DOMAIN ops' = 1 .. fifoTail'
  <2>1. TypeOK /\ fifoTail \in Nat /\ Consumed \in Nat /\ Consumed <= fifoTail /\ DOMAIN ops = 1 .. fifoTail
    BY OpsKnown
  <2>2. TypeOK' /\ InStep'
    BY DEF RecvInv
  <2>3. ops' \in Seq(Op) /\ fifoTail' = Len(ops')
    BY <2>2 DEF TypeOK, InStep
  <2>4. DOMAIN ops' = 1 .. fifoTail'
    BY <2>3
  <2> QED
    BY <2>1, <2>2, <2>4 DEF SameSent
<1>2. /\ HeadReqs' = HeadReqs /\ Consumed' = Consumed
      /\ \A id : AwaitsGroup(id)' <=> AwaitsGroup(id)
  BY DEF SameSender, HeadReqs, Consumed, AwaitsGroup
<1>3. \A k \in 1 .. fifoTail : k \in 1 .. fifoTail'
  BY <1>1 DEF SameSent
<1>4. ASSUME NEW id \in ReqIds PROVE SendReqOk(id)'
  BY <1>1, <1>3 DEF SendInv, SendReqOk, SameSender, SameSent
<1>5. HeadOk'
  <2>1. fifoHead \in Nat
    BY <1>1 DEF TypeOK
  <2>2. fifoHead + 1 <= fifoTail => fifoHead + 1 \in 1 .. fifoTail /\ fifoHead + 1 <= fifoTail'
    BY <1>1, <2>1 DEF SameSent
  <2> QED
    BY <1>2, <2>2 DEF SendInv, HeadOk, SameSender, SameSent
<1>6. ASSUME NEW k \in 1 .. fifoTail PROVE SentOk(k)'
  <2>1. SentOk(k)
    BY <1>1 DEF SendInv
  <2>2. ops'[k].recv = ops[k].recv /\ ops'[k].sent = ops[k].sent /\ ops'[k].arrived = ops[k].arrived
    BY DEF SameSent
  <2>3. fifoHead' = fifoHead
    BY DEF SameSender
  <2> QED
    BY <1>2, <2>1, <2>2, <2>3 DEF SentOk
<1>7. \A k \in DOMAIN ops' : SentOk(k)'
  BY <1>1, <1>6
<1>8. \A ids, k : k \in 1 .. fifoTail /\ Names(ids, k) => Names(ids, k)'
  BY DEF Names, SameSender, SameSent
<1>9. ASSUME NEW q \in Qps, NEW i \in 1 .. Len(dataWire[q]) PROVE MsgOk(q, i)'
  <2>1. MsgOk(q, i) /\ QueuedOp(q, i) \in 1 .. fifoTail /\ i \in 1 .. Len(recvQueue[q])
    BY MsgKnown DEF SendInv
  <2>2. QueuedOp(q, i)' = QueuedOp(q, i) /\ dataWire' = dataWire
    BY <2>1 DEF QueuesGrow, SameSender
  <2>3. PICK m, k : m = dataWire[q][i] /\ k = QueuedOp(q, i)
    OBVIOUS
  <2>4. MsgFits(m, q, k) /\ k \in 1 .. fifoTail
    BY <2>1, <2>3 DEF MsgOk
  <2>5. MsgFits(m, q, k)'
    BY <2>4, FitsFrame DEF SameSent, SameSender
  <2> QED
    BY <2>2, <2>3, <2>5 DEF MsgOk
<1>10. ASSUME NEW c \in scq PROVE SendCqeOk(c)'
  <2>1. SendCqeOk(c) /\ c.qp \in Qps /\ c.op \in 1 .. fifoTail /\ c.op \in Nat
    <3>1. SendCqeOk(c) /\ c.qp \in Qps
      BY <1>1, SendCqeFields DEF SendInv, TypeOK
    <3>2. c.op \in 1 .. Consumed
      BY <3>1 DEF SendCqeOk
    <3> QED
      BY <1>1, <3>1, <3>2
  <2>2. PICK p \in Qps, l \in Nat, n \in Nat : /\ p = c.qp /\ l = Len(recvQueue[p]) /\ n = Len(recvQueue'[p])
                                            /\ recvQueue'[p] \in Seq(ReqIds)
    <3>1. PICK p \in Qps : p = c.qp
      BY <2>1
    <3>2. recvQueue[p] \in Seq(ReqIds) /\ recvQueue'[p] \in Seq(ReqIds)
      BY <1>1 DEF TypeOK
    <3>3. Len(recvQueue[p]) \in Nat /\ Len(recvQueue'[p]) \in Nat
      BY <3>2
    <3> QED
      BY <3>1, <3>2, <3>3
  <2>3. ASSUME NEW i \in 1 .. n PROVE c.op < QueuedOp(p, i)'
    <3>1. i \in 1 .. l \/ i \in l + 1 .. n
      OBVIOUS
    <3>2. CASE i \in 1 .. l
      BY <2>1, <2>2, <3>2 DEF QueuesGrow, SendCqeOk
    <3>3. CASE i \in l + 1 .. n
      <4>1. QueuedOp(p, i)' > fifoTail
        BY <2>2, <3>3 DEF QueuesGrow
      <4>2. PICK a \in Nat : a = QueuedOp(p, i)'
        <5>1. recvQueue'[p][i] \in ReqIds
          BY <2>2
        <5>2. rreqs'[recvQueue'[p][i]] \in Req
          BY <1>1, <5>1 DEF TypeOK
        <5> QED
          BY <5>2, ReqFields DEF QueuedOp
      <4> QED
        BY <1>1, <2>1, <4>1, <4>2
    <3> QED
      BY <3>1, <3>2, <3>3
  <2> QED
    BY <1>2, <1>8, <2>1, <2>2, <2>3 DEF SendCqeOk
<1>11. ASSUME NEW id \in ReqIds, NEW d \in Devs PROVE SendEventsOk(id, d)'
  <2>1. SendCqesOf(id, d)' = SendCqesOf(id, d) /\ SendQpsWith(id, d)' = SendQpsWith(id, d)
    BY DEF SendCqesOf, SendQpsWith, Carries, SameSender
  <2>2. SendEventsOk(id, d)
    BY DEF SendInv
  <2> QED
    BY <1>2, <2>1, <2>2 DEF SendEventsOk, SameSender
<1> QED
  BY <1>4, <1>5, <1>7, <1>9, <1>10, <1>11 DEF SendInv, SameSender

----------------------------------------------------------------------------
(* Steps of the sender that post nothing. *)

\* Nothing happens to the receives and to the queues.
SameFabric ==
    /\ rreqs' = rreqs /\ fifoTail' = fifoTail /\ ops' = ops
    /\ recvQueue' = recvQueue /\ dataWire' = dataWire

\* The sends that messages and completions name.
SameNamed ==
    /\ \A q \in Qps : \A i \in 1 .. Len(dataWire[q]) : \A j \in 1 .. Len(dataWire[q][i].ids) :
          /\ sreqs'[dataWire[q][i].ids[j]].type = sreqs[dataWire[q][i].ids[j]].type
          /\ sreqs'[dataWire[q][i].ids[j]].op = sreqs[dataWire[q][i].ids[j]].op
    /\ \A c \in scq : \A j \in 1 .. Len(c.ids) :
          sreqs'[c.ids[j]].type = sreqs[c.ids[j]].type /\ sreqs'[c.ids[j]].op = sreqs[c.ids[j]].op

LEMMA NamedFrame ==
    ASSUME RecvInv, SendInv, SameFabric, SameNamed, Consumed' = Consumed, scq' \subseteq scq
    PROVE  /\ \A q \in Qps : \A i \in 1 .. Len(dataWire'[q]) : MsgOk(q, i)'
           /\ \A c \in scq' : SendCqeOk(c)'
<1>1. \A q, i : QueuedOp(q, i)' = QueuedOp(q, i)
  BY DEF QueuedOp, SameFabric
<1>2. ASSUME NEW q \in Qps, NEW i \in 1 .. Len(dataWire[q]) PROVE MsgOk(q, i)'
  <2>1. MsgOk(q, i)
    BY DEF SendInv
  <2>2. PICK m, k : m = dataWire[q][i] /\ k = QueuedOp(q, i)
    OBVIOUS
  <2>3. MsgFits(m, q, k)
    BY <2>1, <2>2 DEF MsgOk
  <2>4. \A j \in 1 .. Len(m.ids) : /\ sreqs'[m.ids[j]].type = sreqs[m.ids[j]].type
                                   /\ sreqs'[m.ids[j]].op = sreqs[m.ids[j]].op
    BY <2>2 DEF SameNamed
  <2>5. MsgFits(m, q, k)'
    BY <2>3, <2>4, FitsFrame DEF SameFabric
  <2>6. dataWire'[q][i] = m /\ QueuedOp(q, i)' = k
    BY <1>1, <2>2 DEF SameFabric
  <2> QED
    BY <2>5, <2>6 DEF MsgOk
<1>3. ASSUME NEW c \in scq PROVE SendCqeOk(c)'
  <2>1. SendCqeOk(c)
    BY DEF SendInv
  <2>2. Names(c.ids, c.op)'
    BY <2>1 DEF SendCqeOk, Names, SameNamed, SameFabric
  <2> QED
    BY <1>1, <2>1, <2>2 DEF SendCqeOk, SameFabric
<1> QED
  BY <1>2, <1>3 DEF SameFabric

LEMMA SendTestDoneSend ==
    ASSUME RecvInv, SendInv, NEW id \in ReqIds, SendTestDone(id)
    PROVE  SendInv'
<1>1. /\ TypeOK /\ sreqs[id].events = NoEvents /\ ~multiSent /\ sreqs \in [ReqIds -> Req]
      /\ SameFabric /\ Consumed' = Consumed /\ scq' = scq /\ fifoHead' = fifoHead /\ HeadReqs' = HeadReqs
      /\ multiSent' = multiSent /\ fifoReqs' = fifoReqs /\ sqpIndex' = sqpIndex
      /\ sreqs' = [sreqs EXCEPT ![id] = Unused]
  BY DEF RecvInv, TypeOK, SendTestDone, AllPolled, SameFabric, rvars, fabric, Consumed, HeadReqs, FreeRequest
<1>2. sreqs'[id] = Unused /\ \A j \in ReqIds \ {id} : sreqs'[j] = sreqs[j]
  BY <1>1
<1>3. /\ ~AwaitsGroup(id)
      /\ \A c \in scq : \A j \in 1 .. Len(c.ids) : c.ids[j] # id
      /\ \A q \in Qps : ~Carries(q, id)
  BY <1>1, NoSendLeft
<1>4. SameNamed
  <2>1. ASSUME NEW q \in Qps, NEW i \in 1 .. Len(dataWire[q]), NEW j \in 1 .. Len(dataWire[q][i].ids)
        PROVE  dataWire[q][i].ids[j] \in ReqIds \ {id}
    <3>1. dataWire[q][i].ids \in Seq(ReqIds)
      BY MsgKnown
    <3>2. j \in DOMAIN dataWire[q][i].ids /\ dataWire[q][i].ids[j] \in ReqIds
      BY <3>1
    <3> QED
      BY <1>3, <3>2 DEF Carries
  <2>2. ASSUME NEW c \in scq, NEW j \in 1 .. Len(c.ids) PROVE c.ids[j] \in ReqIds \ {id}
    <3>1. c.ids \in Seq(ReqIds)
      BY <1>1, SendCqeFields DEF TypeOK
    <3> QED
      BY <1>3, <3>1
  <2> QED
    BY <1>2, <2>1, <2>2 DEF SameNamed
<1>5. /\ \A q \in Qps : \A i \in 1 .. Len(dataWire'[q]) : MsgOk(q, i)'
      /\ \A c \in scq' : SendCqeOk(c)'
  BY <1>1, <1>4, NamedFrame
<1>6. \A j : AwaitsGroup(j)' <=> AwaitsGroup(j)
  BY <1>1 DEF AwaitsGroup
<1>7. HeadOk'
  <2>1. ASSUME NEW r \in Recvs, HeadReqs[r] # NoReq PROVE HeadReqs[r] \in ReqIds \ {id}
    <3>1. HeadReqs[r] \in ReqIds
      BY <1>1, <2>1, SendTypes
    <3> QED
      BY <1>1, <1>3, <3>1 DEF AwaitsGroup
  <2> QED
    BY <1>1, <1>2, <2>1 DEF SendInv, HeadOk, SameFabric
<1>8. ASSUME NEW j \in ReqIds PROVE SendReqOk(j)'
  <2>1. CASE j = id
    BY <1>2, <2>1, UnusedReq DEF SendReqOk
  <2>2. CASE j # id
    BY <1>1, <1>2, <2>2 DEF SendInv, SendReqOk, SameFabric
  <2> QED
    BY <2>1, <2>2
<1>9. \A k \in DOMAIN ops' : SentOk(k)'
  BY <1>1 DEF SendInv, SentOk, SameFabric
<1>10. ASSUME NEW j \in ReqIds, NEW d \in Devs PROVE SendEventsOk(j, d)'
  <2>1. SendCqesOf(j, d)' = SendCqesOf(j, d) /\ SendQpsWith(j, d)' = SendQpsWith(j, d)
    BY <1>1 DEF SendCqesOf, SendQpsWith, Carries, SameFabric
  <2>2. SendEventsOk(j, d)
    BY DEF SendInv
  <2>3. sreqs'[j].events[d] = sreqs[j].events[d]
    BY <1>1, <1>2, UnusedReq
  <2> QED
    BY <1>1, <1>6, <2>1, <2>2, <2>3 DEF SendEventsOk
<1> QED
  BY <1>5, <1>7, <1>8, <1>9, <1>10 DEF SendInv

LEMMA IsendReturnSend ==
    ASSUME RecvInv, SendInv, IsendReturn
    PROVE  SendInv'
<1>1. /\ TypeOK /\ multiSent /\ ~multiSent' /\ fifoHead' = fifoHead + 1 /\ fifoHead \in Nat
      /\ SameFabric /\ scq' = scq /\ sreqs' = sreqs /\ sqpIndex' = sqpIndex
      /\ fifoReqs' = [fifoReqs EXCEPT ![FifoSlot(fifoHead)] = [r \in Recvs |-> NoReq]]
      /\ fifoReqs \in [Slots -> [Recvs -> ReqIds \cup {NoReq}]] /\ FifoSlot(fifoHead) \in Slots
      /\ FifoSlot(fifoHead + 1) \in Slots
  <2>1. TypeOK /\ fifoHead \in Nat /\ fifoReqs \in [Slots -> [Recvs -> ReqIds \cup {NoReq}]]
    BY DEF RecvInv, TypeOK
  <2>2. fifoHead + 1 \in Nat /\ FifoSlot(fifoHead) \in Slots
    BY <2>1, SlotOfTail
  <2>3. FifoSlot(fifoHead + 1) \in Slots
    BY <2>2, SlotOfTail
  <2>4. multiSent /\ ~multiSent'
    BY Zenon DEF IsendReturn
  <2>5. /\ fifoHead' = fifoHead + 1 /\ scq' = scq /\ sreqs' = sreqs /\ sqpIndex' = sqpIndex
        /\ fifoReqs' = [fifoReqs EXCEPT ![FifoSlot(fifoHead)] = [r \in Recvs |-> NoReq]]
    BY DEF IsendReturn, fabric
  <2>6. SameFabric
    BY DEF IsendReturn, SameFabric, rvars, fabric
  <2> QED
    BY <2>1, <2>2, <2>3, <2>4, <2>5, <2>6
<1>2. Consumed' = Consumed /\ Consumed = fifoHead + 1
  BY <1>1 DEF Consumed
<1>3. \A s \in Slots, r \in Recvs : fifoReqs'[s][r] = NoReq
  BY <1>1 DEF SendInv, HeadOk
<1>4. \A r \in Recvs : HeadReqs'[r] = NoReq
  BY <1>1, <1>3 DEF HeadReqs
<1>5. HeadOk'
  BY <1>3, <1>4 DEF HeadOk
<1>6. /\ \A q \in Qps : \A i \in 1 .. Len(dataWire'[q]) : MsgOk(q, i)'
      /\ \A c \in scq' : SendCqeOk(c)'
  BY <1>1, <1>2, NamedFrame DEF SameNamed
<1>7. ASSUME NEW j \in ReqIds PROVE SendReqOk(j)'
  <2>1. SendReqOk(j) /\ sreqs[j].op \in Nat
    BY <1>1, ReqFields DEF SendInv, TypeOK
  <2> QED
    BY <1>1, <2>1 DEF SendReqOk, SameFabric
<1>8. ASSUME NEW k \in DOMAIN ops PROVE SentOk(k)'
  <2>1. SentOk(k) /\ DOMAIN ops = 1 .. fifoTail /\ fifoTail \in Nat /\ ops[k].recv \in Receives
    BY OpsKnown, OpFields DEF SendInv
  <2>2. \A r \in 1 .. Len(ops[k].recv) : r \in Recvs
    BY <2>1, RecvFields
  <2> QED
    BY <1>1, <1>2, <1>4, <2>1, <2>2 DEF SentOk, SameFabric
<1>9. ASSUME NEW j \in ReqIds, NEW d \in Devs PROVE SendEventsOk(j, d)'
  <2>1. SendCqesOf(j, d)' = SendCqesOf(j, d) /\ SendQpsWith(j, d)' = SendQpsWith(j, d)
    BY <1>1 DEF SendCqesOf, SendQpsWith, Carries, SameFabric
  <2>2. SendEventsOk(j, d)
    BY DEF SendInv
  <2>3. ~AwaitsGroup(j)
    BY <1>1 DEF AwaitsGroup
  <2>4. ~AwaitsGroup(j)'
    <3>1. j # NoReq
      BY Limits DEF NoReq
    <3> QED
      BY <1>4, <3>1 DEF AwaitsGroup
  <2> QED
    BY <1>1, <2>1, <2>2, <2>3, <2>4 DEF SendEventsOk
<1> QED
  BY <1>1, <1>5, <1>6, <1>7, <1>8, <1>9 DEF SendInv, SameFabric

LEMMA SendTestPollSend ==
    ASSUME RecvInv, SendInv, NEW cqe \in scq, SendTestPoll(cqe)
    PROVE  SendInv'
<1>1. /\ TypeOK /\ ~multiSent /\ sreqs \in [ReqIds -> Req] /\ fifoHead \in Nat
      /\ SameFabric /\ Consumed' = Consumed /\ Consumed = fifoHead /\ scq' = scq \ {cqe}
      /\ fifoHead' = fifoHead /\ HeadReqs' = HeadReqs
      /\ multiSent' = multiSent /\ fifoReqs' = fifoReqs /\ sqpIndex' = sqpIndex
  BY DEF RecvInv, TypeOK, SendTestPoll, SameFabric, rvars, Consumed, HeadReqs
<1>2. /\ cqe \in SendCqe /\ cqe.dev \in Devs /\ cqe.qp \in Qps /\ cqe.ids \in Seq(ReqIds) /\ SendCqeOk(cqe)
      /\ cqe.op \in 1 .. fifoTail /\ cqe.op \in 1 .. fifoHead
  <2>1. cqe \in SendCqe /\ SendCqeOk(cqe)
    BY <1>1 DEF TypeOK, SendInv
  <2>2. Consumed \in Nat /\ fifoTail \in Nat /\ Consumed <= fifoTail
    BY OpsKnown
  <2> QED
    BY <1>1, <2>1, <2>2, SendCqeFields DEF SendCqeOk
<1>3. PICK n \in Nat : n = Len(cqe.ids) /\ 1 \in 1 .. n /\ DOMAIN cqe.ids = 1 .. n
  <2>1. ops[cqe.op] \in Op
    BY <1>2, OpsKnown
  <2>2. ops[cqe.op].recv \in Receives
    BY <2>1, OpFields
  <2>3. 1 \in 1 .. Len(ops[cqe.op].recv) /\ Len(ops[cqe.op].recv) \in Nat
    BY <2>2, RecvFields
  <2> QED
    BY <1>2, <2>3 DEF SendCqeOk, Names
<1>4. \A j \in 1 .. n : cqe.ids[j] \in ReqIds /\ sreqs[cqe.ids[j]].type = "SEND" /\ sreqs[cqe.ids[j]].op = cqe.op
  BY <1>2, <1>3 DEF SendCqeOk, Names
<1>5. sreqs[cqe.ids[1]].nreqs = n
  <2>1. SendReqOk(cqe.ids[1])
    BY <1>3, <1>4 DEF SendInv
  <2> QED
    BY <1>2, <1>3, <1>4, <2>1 DEF SendReqOk, SendCqeOk, Names
<1> DEFINE In(id) == \E j \in 1 .. n : cqe.ids[j] = id
<1>6. sreqs' = [id \in ReqIds |-> IF In(id) THEN CountedDown(sreqs[id], cqe.dev) ELSE sreqs[id]]
  BY <1>5 DEF SendTestPoll, CountedDown
<1> HIDE DEF In
<1>7. ASSUME NEW id \in ReqIds
      PROVE  /\ sreqs'[id].type = sreqs[id].type /\ sreqs'[id].op = sreqs[id].op
             /\ sreqs'[id].arg = sreqs[id].arg /\ sreqs'[id].nreqs = sreqs[id].nreqs
             /\ \A d \in Devs : sreqs'[id].events[d] =
                                   IF In(id) /\ d = cqe.dev THEN sreqs[id].events[d] - 1 ELSE sreqs[id].events[d]
             /\ ~In(id) => sreqs'[id] = sreqs[id]
  <2>1. PICK q \in Req : q = sreqs[id]
    BY <1>1
  <2>2. PICK p : p = CountedDown(q, cqe.dev)
    OBVIOUS
  <2>3. /\ p.type = q.type /\ p.nreqs = q.nreqs /\ p.arg = q.arg /\ p.op = q.op
        /\ \A e \in Devs : p.events[e] = IF e = cqe.dev THEN q.events[e] - 1 ELSE q.events[e]
    BY <1>2, <2>2, CountDown
  <2>4. sreqs'[id] = IF In(id) THEN p ELSE q
    BY <1>6, <2>1, <2>2
  <2> QED
    BY <2>1, <2>3, <2>4
<1>8. SameNamed
  <2>1. ASSUME NEW q \in Qps, NEW i \in 1 .. Len(dataWire[q]), NEW j \in 1 .. Len(dataWire[q][i].ids)
        PROVE  dataWire[q][i].ids[j] \in ReqIds
    <3>1. dataWire[q][i].ids \in Seq(ReqIds)
      BY MsgKnown
    <3> QED
      BY <3>1
  <2>2. ASSUME NEW c \in scq, NEW j \in 1 .. Len(c.ids) PROVE c.ids[j] \in ReqIds
    <3>1. c.ids \in Seq(ReqIds)
      BY <1>1, SendCqeFields DEF TypeOK
    <3> QED
      BY <3>1
  <2> QED
    BY <1>7, <2>1, <2>2 DEF SameNamed
<1>9. /\ \A q \in Qps : \A i \in 1 .. Len(dataWire'[q]) : MsgOk(q, i)'
      /\ \A c \in scq' : SendCqeOk(c)'
  BY <1>1, <1>8, NamedFrame
<1>10. \A j : AwaitsGroup(j)' <=> AwaitsGroup(j)
  BY <1>1 DEF AwaitsGroup
<1>11. HeadOk'
  <2>1. ASSUME NEW r \in Recvs, HeadReqs[r] # NoReq PROVE HeadReqs[r] \in ReqIds
    BY <1>1, <2>1, SendTypes
  <2> QED
    BY <1>1, <1>7, <2>1 DEF SendInv, HeadOk, SameFabric
<1>12. ASSUME NEW j \in ReqIds PROVE SendReqOk(j)'
  <2>1. SendReqOk(j)
    BY DEF SendInv
  <2>2. CASE In(j)
    <3>1. sreqs[j].type = "SEND"
      BY <1>4, <2>2 DEF In
    <3> QED
      BY <1>1, <1>7, <2>1, <3>1 DEF SendReqOk, SameFabric
  <2>3. CASE ~In(j)
    BY <1>1, <1>7, <2>1, <2>3 DEF SendReqOk, SameFabric
  <2> QED
    BY <2>2, <2>3
<1>13. \A k \in DOMAIN ops' : SentOk(k)'
  BY <1>1 DEF SendInv, SentOk, SameFabric
<1>14. ASSUME NEW j \in ReqIds, NEW d \in Devs PROVE SendEventsOk(j, d)'
  <2>1. SendQpsWith(j, d)' = SendQpsWith(j, d)
    BY <1>1 DEF SendQpsWith, Carries, SameFabric
  <2>2. SendEventsOk(j, d)
    BY DEF SendInv
  <2>3. CASE ~(In(j) /\ d = cqe.dev)
    <3>1. SendCqesOf(j, d)' = SendCqesOf(j, d)
      BY <1>1, <1>3, <2>3 DEF SendCqesOf, In
    <3>2. sreqs'[j].events[d] = sreqs[j].events[d]
      BY <1>7, <2>3
    <3> QED
      BY <1>1, <1>10, <2>1, <2>2, <3>1, <3>2 DEF SendEventsOk
  <2>4. CASE In(j) /\ d = cqe.dev
    <3>1. ~AwaitsGroup(j)
      <4>1. sreqs[j].op \in 1 .. fifoHead
        BY <1>2, <1>4, <2>4 DEF In
      <4>2. sreqs[j].op # fifoHead + 1
        BY <1>1, <4>1
      <4>3. j # NoReq
        BY Limits DEF NoReq
      <4> QED
        BY <4>2, <4>3 DEF AwaitsGroup, SendInv, HeadOk
    <3>2. SendCqesOf(j, d)' = SendCqesOf(j, d) \ {cqe} /\ cqe \in SendCqesOf(j, d)
      BY <1>1, <1>3, <2>4 DEF SendCqesOf, In
    <3>3. IsFiniteSet(SendCqesOf(j, d))
      BY <2>2 DEF SendEventsOk
    <3>4. IsFiniteSet(SendCqesOf(j, d)') /\ Cardinality(SendCqesOf(j, d)') = Cardinality(SendCqesOf(j, d)) - 1
      BY <3>2, <3>3, FS_RemoveElement
    <3>5. PICK a \in Nat, b \in Nat : a = Cardinality(SendCqesOf(j, d)) /\ b = Cardinality(SendQpsWith(j, d))
      <4>1. SendQpsWith(j, d) \in SUBSET Qps
        BY DEF SendQpsWith
      <4> QED
        BY <3>3, <4>1, QpSets, FS_CardinalityType
    <3>6. sreqs[j].events[d] = a + b /\ sreqs'[j].events[d] = (a + b) - 1
      BY <1>7, <2>2, <2>4, <3>1, <3>5 DEF SendEventsOk
    <3>7. (a + b) - 1 = (a - 1) + b
      OBVIOUS
    <3> QED
      BY <1>10, <2>1, <3>1, <3>4, <3>5, <3>6, <3>7 DEF SendEventsOk
  <2> QED
    BY <2>3, <2>4
<1> QED
  BY <1>9, <1>11, <1>12, <1>13, <1>14 DEF SendInv

----------------------------------------------------------------------------
(* The receiver's actions as such steps. *)

\* The queues stay, and the requests in them.
LEMMA QueuesStay ==
    ASSUME RecvInv, recvQueue' = recvQueue,
           \A q \in Qps : \A i \in 1 .. Len(recvQueue[q]) : rreqs'[recvQueue[q][i]].op = rreqs[recvQueue[q][i]].op
    PROVE  QueuesGrow /\ \A q \in Qps : \A i \in 1 .. Len(recvQueue[q]) : QueuedOp(q, i)' = QueuedOp(q, i)
<1>1. \A q \in Qps : \A i \in 1 .. Len(recvQueue[q]) : QueuedOp(q, i)' = QueuedOp(q, i)
  BY DEF QueuedOp
<1>2. \A q \in Qps : Len(recvQueue[q]) \in Nat
  BY RecvTypes DEF RecvInv
<1>3. ASSUME NEW n \in Nat PROVE n >= n /\ n + 1 .. n = {}
  OBVIOUS
<1> QED
  BY <1>1, <1>2, <1>3 DEF QueuesGrow

LEMMA LandCtsCalm ==
    ASSUME RecvInv, NEW e \in ctsWire, LandCts(e)
    PROVE  SameSender /\ SameSent /\ QueuesGrow /\ fifoTail' = fifoTail
<1>1. SameSender
  BY DEF LandCts, SameSender
<1>2. fifoTail' = fifoTail /\ ops' = ops /\ recvQueue' = recvQueue /\ rreqs' = rreqs /\ fifoTail \in Nat
  BY OpsKnown DEF LandCts, rvars
<1>3. SameSent
  BY <1>2 DEF SameSent
<1>4. QueuesGrow
  BY <1>2, QueuesStay
<1> QED
  BY <1>1, <1>2, <1>3, <1>4

LEMMA RecvTestPollCalm ==
    ASSUME RecvInv, NEW cqe \in rcq, RecvTestPoll(cqe)
    PROVE  SameSender /\ SameSent /\ QueuesGrow /\ fifoTail' = fifoTail
<1>1. SameSender
  BY DEF RecvTestPoll, SameSender, svars
<1>2. fifoTail' = fifoTail /\ ops' = ops /\ recvQueue' = recvQueue /\ fifoTail \in Nat /\ TypeOK
  BY OpsKnown DEF RecvTestPoll
<1>3. SameSent
  BY <1>2 DEF SameSent
<1>4. cqe.wr_id \in ReqIds /\ cqe.dev \in Devs
  BY <1>2, CqeFields DEF TypeOK
<1>5. PICK p : p = CountedDown(rreqs[cqe.wr_id], cqe.dev)
  OBVIOUS
<1>6. p.op = rreqs[cqe.wr_id].op
  BY <1>2, <1>4, <1>5, CountDown, RecvTypes
<1>7. rreqs' = [rreqs EXCEPT ![cqe.wr_id] = p]
  BY <1>5 DEF RecvTestPoll, CountedDown
<1>8. \A j \in ReqIds : rreqs'[j].op = rreqs[j].op
  BY <1>2, <1>6, <1>7 DEF TypeOK
<1>9. QueuesGrow
  BY <1>2, <1>8, QueuesStay, RecvTypes
<1> QED
  BY <1>1, <1>2, <1>3, <1>9

\* The caller learns that receive k has made a step: its history but for what
\* was sent and has arrived.
Learnt(k, st, z) ==
    /\ k \in 1 .. fifoTail /\ fifoTail' = fifoTail
    /\ \A j \in 1 .. fifoTail : j # k => ops'[j] = ops[j]
    /\ ops'[k].recv = ops[k].recv /\ ops'[k].sent = ops[k].sent /\ ops'[k].arrived = ops[k].arrived
    /\ ops'[k].state = st /\ ops'[k].sizes = z

LEMMA LearntSent ==
    ASSUME RecvInv, NEW k, NEW st, NEW z, Learnt(k, st, z)
    PROVE  SameSent
<1>1. fifoTail \in Nat
  BY OpsKnown
<1> QED
  BY <1>1 DEF Learnt, SameSent

\* The sizes that ncclIbTest copies out of the slot.
SizesIn(k) == [r \in 1 .. Len(ops[k].recv) |-> sizesFifo[FifoSlot(k - 1)][r]]

LEMMA RecvTestDoneCalm ==
    ASSUME RecvInv, NEW id \in ReqIds, RecvTestDone(id)
    PROVE  /\ SameSender /\ SameSent /\ QueuesGrow /\ fifoTail' = fifoTail
           /\ recvQueue' = recvQueue /\ rcq' = rcq /\ sizesFifo' = sizesFifo
           /\ rreqs[id].events = NoEvents
           /\ \E k \in Nat \ {0} : \E st, z :
                 /\ Learnt(k, st, z) /\ k = rreqs[id].op /\ k <= Consumed
                 /\ \/ rreqs[id].type = "RECV" /\ st = "done" /\ ops[k].state = "posted" /\ z = SizesIn(k)
                    \/ rreqs[id].type = "FLUSH" /\ st = "retired" /\ ops[k].state = "flushing" /\ z = ops[k].sizes
<1> DEFINE req == rreqs[id]
<1>1. /\ TypeOK /\ fifoTail = Len(ops) /\ fifoTail \in Nat /\ \A j \in 1 .. fifoTail : ops[j] \in Op /\ StateOk(j)
      /\ Consumed \in Nat
  BY OpsKnown
<1>2. req.type # "UNUSED" /\ req.events = NoEvents
  BY DEF RecvTestDone, Active, AllPolled
<1>3. PICK k \in Nat \ {0} : k = req.op /\ k \in 1 .. fifoTail
  <2>1. req.op \in 1 .. fifoTail
    BY <1>2, ReqKnown
  <2>2. req.op \in Nat \ {0}
    BY <1>1, <2>1
  <2> QED
    BY <2>1, <2>2
<1>4. /\ req.type \in {"RECV", "FLUSH"}
      /\ req.type = "RECV" => ops[k].state = "posted" /\ req.arg = FifoSlot(k - 1) /\ req.arg \in Slots /\ req.nreqs = Len(ops[k].recv)
      /\ req.type = "FLUSH" => ops[k].state = "flushing"
  BY <1>2, <1>3, ReqKnown
<1>5. k <= Consumed
  BY <1>1, <1>2, <1>3, <1>4, PolledAfterPosted DEF StateOk
<1>6. PICK z : z = SizesIn(k)
  OBVIOUS
<1>7. req.type = "RECV" => z \in Seq(Nat)
  <2> SUFFICES ASSUME req.type = "RECV" PROVE z \in Seq(Nat)
    OBVIOUS
  <2>1. ops[k].recv \in Receives
    BY <1>1, <1>3, OpFields
  <2>2. PICK n \in Nat : n = Len(ops[k].recv) /\ \A r \in 1 .. n : r \in Recvs
    BY <2>1, RecvFields
  <2>3. sizesFifo[FifoSlot(k - 1)] \in [Recvs -> Nat]
    BY <1>1, <1>4 DEF TypeOK
  <2>4. \A r \in 1 .. n : sizesFifo[FifoSlot(k - 1)][r] \in Nat
    BY <2>2, <2>3
  <2>5. z = [r \in 1 .. n |-> sizesFifo[FifoSlot(k - 1)][r]]
    BY <1>6, <2>2 DEF SizesIn
  <2>6. [r \in 1 .. n |-> sizesFifo[FifoSlot(k - 1)][r]] \in Seq(Nat)
    BY <2>4, IsASeq
  <2> QED
    BY <2>5, <2>6
<1>8. /\ ops' = [ops EXCEPT ![k] = IF req.type = "RECV" THEN Reported(ops[k], z) ELSE InState(ops[k], "retired")]
  <2>1. ops' = [ops EXCEPT ![k] = IF req.type = "RECV"
                                  THEN Reported(ops[k], [r \in 1 .. req.nreqs |-> sizesFifo[req.arg][r]])
                                  ELSE InState(ops[k], "retired")]
    BY <1>3 DEF RecvTestDone, Reported, InState
  <2>2. req.type = "RECV" => z = [r \in 1 .. req.nreqs |-> sizesFifo[req.arg][r]]
    BY <1>4, <1>6 DEF SizesIn
  <2> QED
    BY <2>1, <2>2
<1>9. PICK o \in Op : /\ ops' = [ops EXCEPT ![k] = o]
                      /\ o.recv = ops[k].recv /\ o.sent = ops[k].sent /\ o.arrived = ops[k].arrived
                      /\ req.type = "RECV" => o.state = "done" /\ o.sizes = z
                      /\ req.type = "FLUSH" => o.state = "retired" /\ o.sizes = ops[k].sizes
  <2>1. ops[k] \in Op
    BY <1>1, <1>3
  <2>2. CASE req.type = "RECV"
    <3>1. PICK o : o = Reported(ops[k], z)
      OBVIOUS
    <3>2. /\ o \in Op /\ o.recv = ops[k].recv /\ o.state = "done" /\ o.sent = ops[k].sent
          /\ o.arrived = ops[k].arrived /\ o.sizes = z
      BY <1>7, <2>1, <2>2, <3>1, OpReported
    <3> QED
      BY <1>8, <2>2, <3>1, <3>2
  <2>3. CASE req.type = "FLUSH"
    <3>1. PICK o : o = InState(ops[k], "retired")
      OBVIOUS
    <3>2. /\ o \in Op /\ o.recv = ops[k].recv /\ o.state = "retired" /\ o.sent = ops[k].sent
          /\ o.arrived = ops[k].arrived /\ o.sizes = ops[k].sizes
      BY <2>1, <3>1, OpInState
    <3> QED
      BY <1>8, <2>3, <3>1, <3>2
  <2> QED
    BY <1>4, <2>2, <2>3
<1>10. /\ SameSender /\ fifoTail' = fifoTail /\ recvQueue' = recvQueue /\ rcq' = rcq /\ sizesFifo' = sizesFifo
       /\ rreqs' = [rreqs EXCEPT ![id] = Unused]
  BY DEF RecvTestDone, SameSender, svars, fabric, FreeRequest
<1>11. \A j \in 1 .. fifoTail : ops'[j] = IF j = k THEN o ELSE ops[j]
  BY <1>1, <1>9, ExceptSeq DEF TypeOK
<1>12. Learnt(k, o.state, o.sizes)
  BY <1>3, <1>9, <1>10, <1>11 DEF Learnt
<1>13. QueuesGrow
  <2>1. \A q \in Qps : \A i \in 1 .. Len(recvQueue[q]) : recvQueue[q][i] # id /\ recvQueue[q][i] \in ReqIds
    BY <1>1, <1>2, NothingLeft, RecvTypes
  <2>2. \A j \in ReqIds \ {id} : rreqs'[j] = rreqs[j]
    BY <1>1, <1>10 DEF TypeOK
  <2> QED
    BY <1>10, <2>1, <2>2, QueuesStay
<1>14. SameSent
  BY <1>12, LearntSent
<1>15. \/ rreqs[id].type = "RECV" /\ o.state = "done" /\ ops[k].state = "posted" /\ o.sizes = SizesIn(k)
       \/ rreqs[id].type = "FLUSH" /\ o.state = "retired" /\ ops[k].state = "flushing" /\ o.sizes = ops[k].sizes
  BY <1>4, <1>6, <1>9
<1> QED
  BY <1>2, <1>3, <1>5, <1>10, <1>12, <1>13, <1>14, <1>15

LEMMA IflushCalm ==
    ASSUME RecvInv, NEW k \in DOMAIN ops, Iflush(k)
    PROVE  /\ SameSender /\ SameSent /\ QueuesGrow /\ fifoTail' = fifoTail
           /\ recvQueue' = recvQueue /\ sizesFifo' = sizesFifo
           /\ \A c \in rcq' : c \in rcq \/ c.opcode = "RDMA_READ"
           /\ rcq \subseteq rcq'
           /\ ops[k].state = "done"
           /\ \E st \in {"flushing", "retired"} : Learnt(k, st, ops[k].sizes)
<1>1. /\ TypeOK /\ fifoTail = Len(ops) /\ fifoTail \in Nat /\ k \in 1 .. fifoTail /\ ops[k] \in Op
  BY OpsKnown
<1>2. /\ SameSender /\ fifoTail' = fifoTail /\ recvQueue' = recvQueue /\ sizesFifo' = sizesFifo /\ ops[k].state = "done"
  BY DEF Iflush, SameSender, svars
<1>3. PICK st \in {"flushing", "retired"} : ops' = [ops EXCEPT ![k].state = st]
  BY DEF Iflush
<1>4. PICK o : o = InState(ops[k], st)
  OBVIOUS
<1>5. /\ o \in Op /\ o.recv = ops[k].recv /\ o.state = st /\ o.sent = ops[k].sent
      /\ o.arrived = ops[k].arrived /\ o.sizes = ops[k].sizes
  BY <1>1, <1>4, OpInState
<1>6. ops' = [ops EXCEPT ![k] = o]
  BY <1>3, <1>4 DEF InState
<1>7. \A j \in 1 .. fifoTail : ops'[j] = IF j = k THEN o ELSE ops[j]
  BY <1>1, <1>5, <1>6, ExceptSeq DEF TypeOK
<1>8. Learnt(k, st, ops[k].sizes)
  BY <1>1, <1>2, <1>5, <1>7 DEF Learnt
<1>9. SameSent
  BY <1>8, LearntSent
<1>10. CASE rreqs' = rreqs /\ rcq' = rcq
  BY <1>2, <1>3, <1>8, <1>9, <1>10, QueuesStay
<1>11. CASE ~(rreqs' = rreqs /\ rcq' = rcq)
  <2>1. PICK id \in ReqIds : id = GetRequest(rreqs) /\ rreqs[id].type = "UNUSED" /\ rreqs[id].events = NoEvents
    BY <1>11, RecvReqGiven DEF Iflush
  <2>2. PICK p : rreqs' = [rreqs EXCEPT ![id] = p]
    BY <1>11, <2>1 DEF Iflush
  <2>3. rcq' = rcq \cup {[dev |-> d, qp |-> d, opcode |-> "RDMA_READ", wr_id |-> id, imm |-> 0, op |-> k] : d \in Devs}
    BY <1>11, <2>1 DEF Iflush
  <2>4. rcq \subseteq rcq' /\ \A c \in rcq' : c \in rcq \/ c.opcode = "RDMA_READ"
    BY <2>3
  <2>5. \A q \in Qps : \A i \in 1 .. Len(recvQueue[q]) : recvQueue[q][i] # id /\ recvQueue[q][i] \in ReqIds
    BY <1>1, <2>1, NothingLeft, RecvTypes
  <2>6. \A j \in ReqIds \ {id} : rreqs'[j] = rreqs[j]
    BY <1>1, <2>2 DEF TypeOK
  <2>7. QueuesGrow
    BY <1>2, <2>5, <2>6, QueuesStay
  <2> QED
    BY <1>2, <1>3, <1>8, <1>9, <2>4, <2>7
<1> QED
  BY <1>10, <1>11

LEMMA IrecvCalm ==
    ASSUME RecvInv, SendInv, NEW recv \in Receives, Irecv(recv)
    PROVE  /\ SameSender /\ SameSent /\ QueuesGrow /\ fifoTail' = fifoTail + 1
           /\ \A k \in 1 .. fifoTail : ops'[k] = ops[k]
           /\ ops'[fifoTail + 1] = NewOp(recv)
           /\ \A q \in QpsOf(fifoTail + 1) : \E i \in 1 .. Len(recvQueue'[q]) : QueuedOp(q, i)' = fifoTail + 1
           /\ \A k \in fifoTail + 1 .. fifoTail' : SentOk(k)'
<1>1. PICK id \in ReqIds, t \in Nat, x \in Nat, dv \in Devs,
              ev \in [Devs -> Int], N \in SUBSET RecvCqe : Posting(recv, id, t, x, dv, ev, N)
  BY IrecvPosts
<1>2. TypeOK /\ t = fifoTail /\ t = Len(ops) /\ fifoTail' = t + 1 /\ Consumed \in Nat /\ Consumed <= t /\ fifoHead \in Nat
  BY <1>1, OpsKnown, RecvTypes DEF Posting
<1>3. SameSender
  BY DEF Irecv, SameSender, svars
<1>4. PICK o \in Op : /\ o = NewOp(recv) /\ o.recv = recv /\ o.sent = [r \in 1 .. Len(recv) |-> NotSent]
                      /\ o.arrived = [r \in 1 .. Len(recv) |-> {}]
  BY NewOpType
<1>5. ops'[t + 1] = o /\ \A k \in 1 .. t : ops'[k] = ops[k]
  <2>1. ops' = Append(ops, o) /\ ops \in Seq(Op)
    BY <1>1, <1>2, <1>4 DEF Posting, TypeOK
  <2> QED
    BY <1>2, <2>1
<1>6. SameSent
  BY <1>2, <1>5 DEF SameSent
<1>7. \A j \in ReqIds \ {id} : rreqs'[j] = rreqs[j]
  BY <1>1, <1>2 DEF Posting, TypeOK
<1>8. rreqs'[id].op = t + 1
  BY <1>1, <1>2 DEF Posting, TypeOK
<1>9. ASSUME NEW q \in Qps
      PROVE  /\ Len(recvQueue'[q]) >= Len(recvQueue[q])
             /\ \A i \in 1 .. Len(recvQueue[q]) : QueuedOp(q, i)' = QueuedOp(q, i)
             /\ \A i \in Len(recvQueue[q]) + 1 .. Len(recvQueue'[q]) : QueuedOp(q, i)' > fifoTail
             /\ q \in QpsFrom(x) => \E i \in 1 .. Len(recvQueue'[q]) : QueuedOp(q, i)' = t + 1
  <2>1. PICK n \in Nat : n = Len(recvQueue[q]) /\ recvQueue[q] \in Seq(ReqIds)
    BY <1>2, RecvTypes
  <2>2. \A i \in 1 .. n : recvQueue[q][i] # id /\ recvQueue[q][i] \in ReqIds
    BY <1>1, <1>2, <2>1, NothingLeft, RecvTypes DEF Posting
  <2>3. CASE q \in QpsFrom(x)
    <3>1. recvQueue'[q] = Append(recvQueue[q], id)
      BY <1>1, <2>3 DEF Posting
    <3>2. Len(recvQueue'[q]) = n + 1 /\ recvQueue'[q][n + 1] = id /\ \A i \in 1 .. n : recvQueue'[q][i] = recvQueue[q][i]
      BY <2>1, <3>1
    <3>3. \A i \in 1 .. n : QueuedOp(q, i)' = QueuedOp(q, i)
      BY <1>7, <2>2, <3>2 DEF QueuedOp
    <3>4. QueuedOp(q, n + 1)' = t + 1
      BY <1>8, <3>2 DEF QueuedOp
    <3>5. n + 1 \in 1 .. n + 1 /\ n + 1 >= n /\ (\A i \in n + 1 .. n + 1 : i = n + 1) /\ t + 1 > t
      OBVIOUS
    <3> QED
      BY <1>2, <2>1, <3>2, <3>3, <3>4, <3>5
  <2>4. CASE q \notin QpsFrom(x)
    <3>1. recvQueue'[q] = recvQueue[q]
      BY <1>1, <2>4 DEF Posting
    <3>2. \A i \in 1 .. n : QueuedOp(q, i)' = QueuedOp(q, i)
      BY <1>7, <2>2, <3>1 DEF QueuedOp
    <3>3. n >= n /\ n + 1 .. n = {}
      OBVIOUS
    <3> QED
      BY <2>1, <2>4, <3>1, <3>2, <3>3
  <2> QED
    BY <2>3, <2>4
<1>10. QueuesGrow
  BY <1>9 DEF QueuesGrow
<1>11. ASSUME NEW q \in QpsOf(t + 1) PROVE \E i \in 1 .. Len(recvQueue'[q]) : QueuedOp(q, i)' = t + 1
  <2>1. q \in QpsFrom(x) /\ q \in Qps
    BY <1>1, <1>11, QpsOfTransfer DEF Posting, QpsOf
  <2> QED
    BY <1>9, <2>1
<1>12. SentOk(t + 1)'
  <2>1. PICK n \in Nat : n = Len(recv) /\ \A r \in 1 .. n : r \in Recvs
    BY RecvFields
  <2>2. Len(o.sent) = n /\ Len(o.arrived) = n /\ \A r \in 1 .. n : o.sent[r] = NotSent
    BY <1>4, <2>1
  <2>3. Consumed' = Consumed /\ ~(t + 1 <= Consumed)
    BY <1>2, <1>3 DEF Consumed, SameSender
  <2>4. HeadReqs' = HeadReqs /\ fifoHead' = fifoHead /\ multiSent' = multiSent
    BY <1>3 DEF HeadReqs, SameSender
  <2>5. ASSUME NEW r \in 1 .. n PROVE ~(t + 1 = fifoHead + 1 /\ HeadReqs[r] # NoReq)
    <3>1. SUFFICES ASSUME t + 1 = fifoHead + 1, HeadReqs[r] # NoReq PROVE FALSE
      OBVIOUS
    <3>2. ~multiSent
      BY <1>2, <3>1 DEF Consumed
    <3>3. r \in Recvs
      BY <2>1
    <3>4. fifoHead + 1 <= fifoTail
      BY <3>1, <3>2, <3>3 DEF SendInv, HeadOk
    <3> QED
      BY <1>2, <3>1, <3>4
  <2>6. ops'[t + 1].recv = recv /\ ops'[t + 1].sent = o.sent /\ ops'[t + 1].arrived = o.arrived
    BY <1>4, <1>5
  <2>7. \A r \in 1 .. n : ~(t + 1 <= Consumed' \/ (t + 1 = fifoHead' + 1 /\ HeadReqs'[r] # NoReq))
    BY <2>3, <2>4, <2>5
  <2> QED
    BY <2>1, <2>2, <2>6, <2>7 DEF SentOk
<1>13. \A k \in t + 1 .. t + 1 : k = t + 1
  OBVIOUS
<1> QED
  BY <1>2, <1>3, <1>4, <1>5, <1>6, <1>10, <1>11, <1>12, <1>13

----------------------------------------------------------------------------
(* ncclIbIsend. *)

\* What messages and completions name was sent for a receive that is consumed.
LEMMA NamedKnown ==
    ASSUME RecvInv, SendInv, NEW j \in ReqIds
    PROVE  /\ \A q \in Qps : Carries(q, j) => sreqs[j].op \in 1 .. Consumed
           /\ \A d : SendCqesOf(j, d) # {} => sreqs[j].op \in 1 .. Consumed
<1>1. Consumed \in Nat /\ TypeOK
  BY OpsKnown
<1>2. ASSUME NEW q \in Qps, Carries(q, j) PROVE sreqs[j].op \in 1 .. Consumed
  <2>1. PICK i \in 1 .. Len(dataWire[q]) : \E l \in DOMAIN dataWire[q][i].ids : dataWire[q][i].ids[l] = j
    BY <1>2 DEF Carries
  <2>2. PICK l \in DOMAIN dataWire[q][i].ids : dataWire[q][i].ids[l] = j
    BY <2>1
  <2>3. dataWire[q][i].ids \in Seq(ReqIds) /\ QueuedOp(q, i) \in 1 .. fifoTail /\ QueuedOp(q, i) <= Consumed
        /\ QueuedOp(q, i) \in Nat
    BY MsgKnown
  <2>4. l \in 1 .. Len(dataWire[q][i].ids)
    BY <2>3
  <2>5. Names(dataWire[q][i].ids, QueuedOp(q, i))
    BY DEF SendInv, MsgOk, MsgFits
  <2>6. sreqs[j].op = QueuedOp(q, i)
    BY <2>2, <2>4, <2>5 DEF Names
  <2>7. QueuedOp(q, i) \in 1 .. Consumed
    BY <1>1, <2>3
  <2> QED
    BY <2>6, <2>7
<1>3. ASSUME NEW d, NEW c \in SendCqesOf(j, d) PROVE sreqs[j].op \in 1 .. Consumed
  <2>1. c \in scq /\ c \in SendCqe
    BY <1>1, <1>3 DEF SendCqesOf, TypeOK
  <2>2. c.ids \in Seq(ReqIds)
    BY <2>1, SendCqeFields
  <2>3. PICK l \in 1 .. Len(c.ids) : c.ids[l] = j
    BY <1>3, <2>2 DEF SendCqesOf
  <2>4. SendCqeOk(c)
    BY <2>1 DEF SendInv
  <2> QED
    BY <2>3, <2>4 DEF SendCqeOk, Names
<1> QED
  BY <1>2, <1>3

\* What both outcomes of a send have in common.
SendMatched(k, n, r, id, len, x) ==
    /\ fifoHead' = fifoHead /\ fifoTail' = fifoTail /\ scq' = scq /\ recvQueue' = recvQueue /\ rreqs' = rreqs
    /\ ~multiSent /\ k = fifoHead + 1 /\ k \in 1 .. fifoTail /\ Consumed = k - 1 /\ n = Len(ops[k].recv)
    /\ r \in 1 .. n /\ x = sqpIndex /\ x = StartQp(k)
    /\ \A s \in Slots, j \in Recvs : fifoReqs'[s][j] # NoReq => s = FifoSlot(fifoHead)
    /\ HeadReqs'[r] = id /\ HeadReqs[r] = NoReq /\ \A j \in Recvs : j # r => HeadReqs'[j] = HeadReqs[j]
    /\ \A j \in ReqIds \ {id} : sreqs'[j] = sreqs[j]
    /\ sreqs'[id].type = "SEND" /\ sreqs'[id].op = k /\ sreqs'[id].arg = len /\ sreqs'[id].nreqs = n
    /\ sreqs'[id].events = EventsFrom(x)
    /\ sreqs[id].type = "UNUSED" /\ ~AwaitsGroup(id)
    /\ \A d : SendCqesOf(id, d) = {}
    /\ \A q \in Qps : ~Carries(q, id)
    /\ \A j \in 1 .. fifoTail : j # k => ops'[j] = ops[j]
    /\ \A j \in 1 .. fifoTail : ops'[j].recv = ops[j].recv /\ ops'[j].arrived = ops[j].arrived
    /\ ops'[k].sent \in Seq(Int) /\ Len(ops'[k].sent) = n /\ ops'[k].sent[r] = len
    /\ \A j \in 1 .. n : j # r => ops'[k].sent[j] = ops[k].sent[j]

LEMMA IsendMatched ==
    ASSUME RecvInv, SendInv, NEW tag \in Tags, NEW size \in SendSizes, Isend(tag, size),
           NEW k \in Nat \ {0}, NEW n \in Nat \ {0}, NEW r \in Recvs, NEW id \in ReqIds,
           NEW len \in Nat, NEW x \in Nat, Matching(tag, size, k, n, r, id, len, x)
    PROVE  SendMatched(k, n, r, id, len, x)
<1>1. /\ TypeOK /\ fifoHead \in Nat /\ fifoTail \in Nat /\ sreqs \in [ReqIds -> Req] /\ fifoTail = Len(ops)
      /\ fifoReqs \in [Slots -> [Recvs -> ReqIds \cup {NoReq}]] /\ FifoSlot(fifoHead) \in Slots
      /\ HeadReqs \in [Recvs -> ReqIds \cup {NoReq}] /\ Consumed \in Nat
  BY OpsKnown, SendTypes DEF TypeOK
<1>2. fifoHead' = fifoHead /\ fifoTail' = fifoTail /\ scq' = scq /\ recvQueue' = recvQueue /\ rreqs' = rreqs
  BY Zenon DEF Isend, rvars
<1>3. /\ ~multiSent /\ k = fifoHead + 1 /\ k \in 1 .. fifoTail /\ n = Len(ops[k].recv) /\ r \in 1 .. n
      /\ x = sqpIndex /\ x = StartQp(k) /\ sreqs[id].type = "UNUSED" /\ HeadReqs[r] = NoReq
  BY DEF Matching
<1>4. Consumed = k - 1
  BY <1>1, <1>3 DEF Consumed
<1>5. PICK h : h = [HeadReqs EXCEPT ![r] = id]
  OBVIOUS
<1>6. h[r] = id /\ \A j \in Recvs : j # r => h[j] = HeadReqs[j]
  BY <1>1, <1>5
<1>7. fifoReqs' = [fifoReqs EXCEPT ![FifoSlot(fifoHead)] = h]
  BY <1>5 DEF Matching
<1>8. fifoReqs'[FifoSlot(fifoHead)] = h /\ \A s \in Slots : s # FifoSlot(fifoHead) => fifoReqs'[s] = fifoReqs[s]
  BY <1>1, <1>7
<1>9. HeadReqs' = h
  BY <1>2, <1>8 DEF HeadReqs
<1>10. \A s \in Slots, j \in Recvs : fifoReqs'[s][j] # NoReq => s = FifoSlot(fifoHead)
  BY <1>8 DEF SendInv, HeadOk
<1>11. PICK p : p = [type |-> "SEND", events |-> EventsFrom(x), nreqs |-> n, arg |-> len, op |-> k]
  OBVIOUS
<1>12. sreqs' = [sreqs EXCEPT ![id] = p]
  BY <1>11 DEF Matching
<1>13. sreqs'[id] = p /\ \A j \in ReqIds \ {id} : sreqs'[j] = sreqs[j]
  BY <1>1, <1>12
<1>14. p.type = "SEND" /\ p.op = k /\ p.arg = len /\ p.nreqs = n /\ p.events = EventsFrom(x)
  BY <1>11
<1>15. sreqs[id].events = NoEvents
  BY <1>3 DEF SendInv, SendReqOk
<1>16. /\ ~AwaitsGroup(id) /\ \A q \in Qps : ~Carries(q, id)
       /\ \A c \in scq : \A j \in 1 .. Len(c.ids) : c.ids[j] # id
  BY <1>15, NoSendLeft
<1>17. ASSUME NEW d PROVE SendCqesOf(id, d) = {}
  <2>1. ASSUME NEW c \in scq PROVE \A j \in DOMAIN c.ids : c.ids[j] # id
    <3>1. c.ids \in Seq(ReqIds)
      BY <1>1, SendCqeFields DEF TypeOK
    <3>2. DOMAIN c.ids = 1 .. Len(c.ids)
      BY <3>1
    <3> QED
      BY <1>16, <3>2
  <2> QED
    BY <2>1 DEF SendCqesOf
<1>18. /\ ops' \in Seq(Op) /\ Len(ops') = Len(ops)
       /\ \A j \in 1 .. Len(ops) : j # k => ops'[j] = ops[j]
       /\ ops'[k].recv = ops[k].recv /\ ops'[k].state = ops[k].state
       /\ ops'[k].arrived = ops[k].arrived /\ ops'[k].sizes = ops[k].sizes
       /\ ops'[k].sent = [ops[k].sent EXCEPT ![r] = len] /\ k \in 1 .. Len(ops)
  BY IsendOps, Zenon
<1>19. SentOk(k) /\ ops[k].sent \in Seq(Int)
  <2>1. DOMAIN ops = 1 .. fifoTail /\ ops[k] \in Op
    BY <1>3, OpsKnown
  <2> QED
    BY <1>3, <2>1, OpFields DEF SendInv
<1>20. PICK s \in Seq(Int) : s = ops[k].sent /\ Len(s) = n
  BY <1>3, <1>19 DEF SentOk
<1>21. [s EXCEPT ![r] = len] \in Seq(Int) /\ Len([s EXCEPT ![r] = len]) = n
  <2>1. len \in Int
    OBVIOUS
  <2>2. [s EXCEPT ![r] = len] \in Seq(Int)
    BY <2>1, ExceptAny
  <2>3. Len([s EXCEPT ![r] = len]) = Len(s)
    BY <2>1, ExceptAny
  <2> QED
    BY <1>20, <2>2, <2>3
<1>22. [s EXCEPT ![r] = len][r] = len /\ \A j \in 1 .. n : j # r => [s EXCEPT ![r] = len][j] = s[j]
  BY <1>3, <1>20
<1>23. \A j \in 1 .. fifoTail : j # k => ops'[j] = ops[j]
  BY <1>1, <1>18
<1>24. \A j \in 1 .. fifoTail : ops'[j].recv = ops[j].recv /\ ops'[j].arrived = ops[j].arrived
  BY <1>18, <1>23
<1>25. /\ ops'[k].sent \in Seq(Int) /\ Len(ops'[k].sent) = n /\ ops'[k].sent[r] = len
       /\ \A j \in 1 .. n : j # r => ops'[k].sent[j] = ops[k].sent[j]
  BY <1>18, <1>20, <1>21, <1>22
<1>26. /\ HeadReqs'[r] = id /\ HeadReqs[r] = NoReq /\ \A j \in Recvs : j # r => HeadReqs'[j] = HeadReqs[j]
  BY <1>3, <1>6, <1>9
<1>27. /\ sreqs'[id].type = "SEND" /\ sreqs'[id].op = k /\ sreqs'[id].arg = len /\ sreqs'[id].nreqs = n
       /\ sreqs'[id].events = EventsFrom(x)
  BY <1>13, <1>14
<1> QED
  BY <1>2, <1>3, <1>4, <1>10, <1>13, <1>16, <1>17, <1>23, <1>24, <1>25, <1>26, <1>27, Zenon DEF SendMatched

\* What a send does not disturb, whether or not its group is posted.
LEMMA IsendKeeps ==
    ASSUME RecvInv, SendInv,
           NEW k \in Nat \ {0}, NEW n \in Nat \ {0}, NEW r \in Recvs, NEW id \in ReqIds,
           NEW len \in Nat, NEW x \in Nat, SendMatched(k, n, r, id, len, x),
           Consumed' \in {k - 1, k}
    PROVE  /\ \A j \in ReqIds : SendReqOk(j)'
           /\ \A c \in scq' : SendCqeOk(c)'
           /\ \A q \in Qps : \A i \in 1 .. Len(dataWire[q]) :
                 \A m, h : m = dataWire[q][i] /\ h = QueuedOp(q, i) => MsgFits(m, q, h)'
           /\ \A j \in 1 .. fifoTail : j # k => SentOk(j)'
<1>1. /\ TypeOK /\ fifoTail \in Nat /\ Consumed \in Nat /\ fifoTail = Len(ops) /\ fifoHead \in Nat
      /\ DOMAIN ops = 1 .. fifoTail /\ \A j \in 1 .. fifoTail : ops[j] \in Op
  BY OpsKnown, RecvTypes
<1>2. ASSUME NEW j \in ReqIds PROVE SendReqOk(j)'
  <2>0. /\ fifoHead' = fifoHead /\ fifoTail' = fifoTail /\ k = fifoHead + 1 /\ k \in 1 .. fifoTail
        /\ \A i \in 1 .. fifoTail : ops'[i].recv = ops[i].recv
    BY Zenon DEF SendMatched
  <2>1. CASE j = id
    <3>1. sreqs'[id].type = "SEND" /\ sreqs'[id].op = k /\ sreqs'[id].nreqs = n /\ n = Len(ops[k].recv)
      BY Zenon DEF SendMatched
    <3>2. k <= fifoHead + 1 /\ ops'[k].recv = ops[k].recv
      BY <1>1, <2>0
    <3> QED
      BY <2>0, <2>1, <3>1, <3>2 DEF SendReqOk
  <2>2. CASE j # id
    <3>1. SendReqOk(j)
      BY DEF SendInv
    <3>2. sreqs'[j] = sreqs[j]
      BY <2>2 DEF SendMatched
    <3> QED
      BY <2>0, <3>1, <3>2 DEF SendReqOk
  <2> QED
    BY <2>1, <2>2
<1>3. \A q, i : QueuedOp(q, i)' = QueuedOp(q, i)
  BY DEF QueuedOp, SendMatched
<1>4. ASSUME NEW q \in Qps, NEW i \in 1 .. Len(dataWire[q]), NEW m, NEW h, m = dataWire[q][i], h = QueuedOp(q, i)
      PROVE  MsgFits(m, q, h)'
  <2>1. MsgFits(m, q, h) /\ h \in 1 .. fifoTail /\ h <= Consumed /\ h \in Nat /\ m.ids \in Seq(ReqIds)
    BY <1>4, MsgKnown DEF SendInv, MsgOk
  <2>2. h # k
    BY <1>1, <2>1 DEF SendMatched
  <2>3. ops'[h] = ops[h]
    BY <2>1, <2>2 DEF SendMatched
  <2>4. ASSUME NEW j \in 1 .. Len(m.ids) PROVE sreqs'[m.ids[j]] = sreqs[m.ids[j]]
    <3>1. m.ids[j] \in ReqIds
      BY <2>1
    <3>2. m.ids[j] # id
      <4>1. sreqs[m.ids[j]].type = "SEND"
        BY <2>1 DEF MsgFits, Names
      <4> QED
        BY <4>1 DEF SendMatched
    <3> QED
      BY <3>1, <3>2 DEF SendMatched
  <2> QED
    BY <2>1, <2>3, <2>4, FitsFrame
<1>5. ASSUME NEW c \in scq PROVE SendCqeOk(c)'
  <2>1. SendCqeOk(c) /\ c \in SendCqe /\ c.op \in Nat /\ c.ids \in Seq(ReqIds)
    BY <1>1, SendCqeFields DEF SendInv, TypeOK
  <2>2. c.op \in 1 .. k - 1 /\ c.op # k /\ c.op \in 1 .. fifoTail
    BY <1>1, <2>1 DEF SendCqeOk, SendMatched
  <2>3. c.op \in 1 .. Consumed'
    BY <2>2
  <2>4. ASSUME NEW j \in 1 .. Len(c.ids) PROVE sreqs'[c.ids[j]] = sreqs[c.ids[j]]
    <3>1. c.ids[j] \in ReqIds /\ sreqs[c.ids[j]].type = "SEND"
      BY <2>1 DEF SendCqeOk, Names
    <3> QED
      BY <3>1 DEF SendMatched
  <2>5. Names(c.ids, c.op)'
    <3>1. ops'[c.op] = ops[c.op] /\ Names(c.ids, c.op)
      BY <2>1, <2>2 DEF SendCqeOk, SendMatched
    <3> QED
      BY <2>4, <3>1 DEF Names
  <2> QED
    BY <1>3, <2>1, <2>3, <2>5 DEF SendCqeOk, SendMatched
<1>6. ASSUME NEW j \in 1 .. fifoTail, j # k PROVE SentOk(j)'
  <2>1. SentOk(j) /\ ops'[j] = ops[j]
    BY <1>1, <1>6 DEF SendInv, SendMatched
  <2>2. j <= Consumed' <=> j <= Consumed
    BY <1>1, <1>6 DEF SendMatched
  <2>3. j # fifoHead + 1 /\ fifoHead' = fifoHead
    BY <1>6 DEF SendMatched
  <2> QED
    BY <2>1, <2>2, <2>3 DEF SentOk
<1> QED
  BY <1>2, <1>4, <1>5, <1>6 DEF SendMatched

\* The sends matched so far, the new one among them.
LEMMA MatchedSends ==
    ASSUME RecvInv, SendInv,
           NEW k \in Nat \ {0}, NEW n \in Nat \ {0}, NEW r \in Recvs, NEW id \in ReqIds,
           NEW len \in Nat, NEW x \in Nat, SendMatched(k, n, r, id, len, x),
           NEW j \in Recvs, HeadReqs'[j] # NoReq
    PROVE  /\ j \in 1 .. n /\ HeadReqs'[j] \in ReqIds /\ sreqs'[HeadReqs'[j]].type = "SEND"
           /\ sreqs'[HeadReqs'[j]].op = k /\ sreqs'[HeadReqs'[j]].arg = ops'[k].sent[j]
           /\ HeadReqs'[j] = id \/ (j # r /\ AwaitsGroup(HeadReqs'[j]))
<1>1. /\ TypeOK /\ fifoHead \in Nat /\ HeadReqs \in [Recvs -> ReqIds \cup {NoReq}]
  BY OpsKnown, SendTypes
<1>2. CASE j = r
  BY <1>2 DEF SendMatched
<1>3. CASE j # r
  <2>1. PICK h : h = HeadReqs[j] /\ h = HeadReqs'[j] /\ h # NoReq
    BY <1>3 DEF SendMatched
  <2>2. h \in ReqIds
    BY <1>1, <2>1
  <2>3. ~multiSent /\ k = fifoHead + 1 /\ n = Len(ops[k].recv)
    BY DEF SendMatched
  <2>4. j <= n /\ sreqs[h].type = "SEND" /\ sreqs[h].op = k /\ sreqs[h].arg = ops[k].sent[j]
    BY <2>1, <2>3 DEF SendInv, HeadOk
  <2>5. j \in 1 .. n
    BY <2>4 DEF Recvs
  <2>6. h # id
    BY <2>4 DEF SendMatched
  <2>7. sreqs'[h] = sreqs[h]
    BY <2>2, <2>6 DEF SendMatched
  <2>8. ops'[k].sent[j] = ops[k].sent[j]
    BY <1>3, <2>5 DEF SendMatched
  <2>9. AwaitsGroup(h)
    BY <2>1, <2>3 DEF AwaitsGroup
  <2> QED
    BY <1>3, <2>1, <2>2, <2>4, <2>5, <2>7, <2>8, <2>9
<1> QED
  BY <1>2, <1>3

LEMMA IsendOpenSend ==
    ASSUME RecvInv, SendInv,
           NEW k \in Nat \ {0}, NEW n \in Nat \ {0}, NEW r \in Recvs, NEW id \in ReqIds,
           NEW len \in Nat, NEW x \in Nat, SendMatched(k, n, r, id, len, x), GroupOpen(n), ops' \in Seq(Op),
           Len(ops') = Len(ops)
    PROVE  SendInv'
<1>1. /\ TypeOK /\ fifoTail \in Nat /\ Consumed \in Nat /\ fifoTail = Len(ops) /\ fifoHead \in Nat
      /\ DOMAIN ops = 1 .. fifoTail /\ HeadReqs \in [Recvs -> ReqIds \cup {NoReq}]
  BY OpsKnown, RecvTypes, SendTypes
<1>2. dataWire' = dataWire /\ sqpIndex' = sqpIndex /\ multiSent' = multiSent /\ ~multiSent
  BY DEF GroupOpen, SendMatched
<1>3. Consumed' = k - 1 /\ Consumed = k - 1
  BY <1>2 DEF SendMatched, Consumed
<1>4. /\ \A j \in ReqIds : SendReqOk(j)'
      /\ \A c \in scq' : SendCqeOk(c)'
      /\ \A q \in Qps : \A i \in 1 .. Len(dataWire[q]) :
            \A m, h : m = dataWire[q][i] /\ h = QueuedOp(q, i) => MsgFits(m, q, h)'
      /\ \A j \in 1 .. fifoTail : j # k => SentOk(j)'
  BY <1>3, IsendKeeps
<1>5. HeadOk'
  <2>1. \A s \in Slots, j \in Recvs : fifoReqs'[s][j] # NoReq => s = FifoSlot(fifoHead)'
    BY DEF SendMatched, FifoSlot
  <2>2. fifoHead' + 1 = k /\ k <= fifoTail' /\ Len(ops'[k].recv) = n
    <3>1. fifoHead' = fifoHead /\ fifoTail' = fifoTail /\ k = fifoHead + 1 /\ k \in 1 .. fifoTail /\ n = Len(ops[k].recv)
      BY Zenon DEF SendMatched
    <3>2. ops'[k].recv = ops[k].recv
      BY Zenon DEF SendMatched
    <3> QED
      BY <3>1, <3>2
  <2>3. ASSUME NEW j \in Recvs, HeadReqs'[j] # NoReq
        PROVE  /\ fifoHead' + 1 <= fifoTail' /\ j <= Len(ops'[fifoHead' + 1].recv)
               /\ sreqs'[HeadReqs'[j]].type = "SEND" /\ sreqs'[HeadReqs'[j]].op = fifoHead' + 1
               /\ sreqs'[HeadReqs'[j]].arg = ops'[fifoHead' + 1].sent[j]
    <3>1. /\ j \in 1 .. n /\ sreqs'[HeadReqs'[j]].type = "SEND" /\ sreqs'[HeadReqs'[j]].op = k
          /\ sreqs'[HeadReqs'[j]].arg = ops'[k].sent[j]
      BY <2>3, MatchedSends
    <3>2. j <= n
      BY <3>1
    <3> QED
      BY <2>2, <3>1, <3>2
  <2> QED
    BY <2>1, <2>3 DEF HeadOk
<1>6. SentOk(k)'
  <2>1. /\ SentOk(k) /\ k \in 1 .. fifoTail /\ fifoHead' + 1 = k /\ fifoHead + 1 = k /\ n = Len(ops[k].recv)
        /\ ops'[k].recv = ops[k].recv /\ ops'[k].arrived = ops[k].arrived
    BY <1>1 DEF SendInv, SendMatched
  <2>2. ~(k <= Consumed) /\ ~(k <= Consumed')
    BY <1>3
  <2>3. ASSUME NEW j \in 1 .. n
        PROVE  /\ ops'[k].sent[j] \in Nat \cup {NotSent}
               /\ ops'[k].sent[j] # NotSent <=> HeadReqs'[j] # NoReq
    <3>1. j \in Recvs
      <4>1. ops[k] \in Op
        BY <2>1, OpsKnown
      <4> QED
        BY <2>1, <4>1, OpFields, RecvFields
    <3>2. CASE j = r
      <4>1. ops'[k].sent[j] = len /\ HeadReqs'[j] = id
        BY <3>2 DEF SendMatched
      <4>2. len # NotSent /\ id # NoReq
        BY Limits DEF NotSent, NoReq
      <4> QED
        BY <4>1, <4>2
    <3>3. CASE j # r
      <4>1. ops'[k].sent[j] = ops[k].sent[j] /\ HeadReqs'[j] = HeadReqs[j]
        BY <3>1, <3>3 DEF SendMatched
      <4> QED
        BY <2>1, <2>2, <4>1 DEF SentOk
    <3> QED
      BY <3>2, <3>3
  <2>4. Len(ops'[k].sent) = n /\ Len(ops'[k].arrived) = n
    BY <2>1 DEF SendMatched, SentOk
  <2> QED
    BY <2>1, <2>2, <2>3, <2>4 DEF SentOk
<1>7. \A j \in DOMAIN ops' : SentOk(j)'
  <2>1. DOMAIN ops' = 1 .. fifoTail
    BY <1>1
  <2> QED
    BY <1>4, <1>6, <2>1
<1>8. \A q \in Qps : \A i \in 1 .. Len(dataWire'[q]) : MsgOk(q, i)'
  <2>1. \A q, i : QueuedOp(q, i)' = QueuedOp(q, i)
    BY DEF QueuedOp, SendMatched
  <2> QED
    BY <1>2, <1>4, <2>1 DEF MsgOk
<1>9. ASSUME NEW j \in ReqIds, NEW d \in Devs PROVE SendEventsOk(j, d)'
  <2>1. SendCqesOf(j, d)' = SendCqesOf(j, d) /\ SendQpsWith(j, d)' = SendQpsWith(j, d)
    BY <1>2 DEF SendCqesOf, SendQpsWith, Carries, SendMatched
  <2>2. SendEventsOk(j, d)
    BY DEF SendInv
  <2>3. CASE j = id
    <3>1. AwaitsGroup(j)'
      BY <1>2, <2>3 DEF AwaitsGroup, SendMatched
    <3>2. sreqs'[j].events[d] = EventsFrom(sqpIndex')[d]
      BY <1>2, <2>3 DEF SendMatched
    <3> QED
      BY <2>1, <2>2, <3>1, <3>2 DEF SendEventsOk, EventsFrom
  <2>4. CASE j # id
    <3>1. AwaitsGroup(j)' <=> AwaitsGroup(j)
      <4>1. NoReq # j
        BY Limits DEF NoReq
      <4>2. \A i \in Recvs : HeadReqs'[i] = j <=> HeadReqs[i] = j
        BY <2>4, <4>1 DEF SendMatched
      <4> QED
        BY <1>2, <4>2 DEF AwaitsGroup
    <3>2. sreqs'[j] = sreqs[j]
      BY <2>4 DEF SendMatched
    <3> QED
      BY <1>2, <2>1, <2>2, <3>1, <3>2 DEF SendEventsOk, EventsFrom
  <2> QED
    BY <2>3, <2>4
<1> QED
  BY <1>4, <1>5, <1>7, <1>8, <1>9 DEF SendInv

\* The send requests of a group.
InGroup(ids, n, j) == \E i \in 1 .. n : ids[i] = j

\* The last send posts what was sent for the whole group.
LEMMA PostedGroup ==
    ASSUME RecvInv, SendInv,
           NEW k \in Nat \ {0}, NEW n \in Nat \ {0}, NEW r \in Recvs, NEW id \in ReqIds,
           NEW len \in Nat, NEW x \in Nat, SendMatched(k, n, r, id, len, x),
           NEW ids \in Seq(ReqIds), NEW zs \in Seq(Nat), GroupPosted(k, n, x, ids, zs)
    PROVE  /\ zs = ops'[k].sent /\ Len(ids) = n /\ Names(ids, k)' /\ SentOk(k)' /\ Consumed' = k
           /\ \A j \in 1 .. n : ids[j] = id \/ AwaitsGroup(ids[j])
           /\ \A j \in ReqIds : AwaitsGroup(j) \/ j = id => InGroup(ids, n, j)
<1>1. /\ TypeOK /\ fifoTail \in Nat /\ Consumed \in Nat /\ fifoTail = Len(ops) /\ fifoHead \in Nat
      /\ DOMAIN ops = 1 .. fifoTail /\ HeadReqs \in [Recvs -> ReqIds \cup {NoReq}]
  BY OpsKnown, RecvTypes, SendTypes
<1>2. /\ k \in 1 .. fifoTail /\ n = Len(ops[k].recv) /\ ops'[k].recv = ops[k].recv /\ fifoHead' = fifoHead /\ k = fifoHead + 1
      /\ ops'[k].sent \in Seq(Int) /\ Len(ops'[k].sent) = n /\ ops'[k].arrived = ops[k].arrived /\ multiSent' /\ ~multiSent
  BY DEF SendMatched, GroupPosted
<1>3. \A j \in 1 .. n : j \in Recvs
  <2>1. ops[k] \in Op
    BY <1>2, OpsKnown
  <2> QED
    BY <1>2, <2>1, OpFields, RecvFields
<1>4. Len(ids) = n /\ Len(zs) = n /\ \A j \in 1 .. n : ids[j] \in ReqIds /\ zs[j] \in Nat
  BY DEF GroupPosted
<1>5. \A j \in 1 .. n : ids[j] = HeadReqs'[j] /\ zs[j] = sreqs'[ids[j]].arg
  BY <1>2 DEF GroupPosted, HeadReqs, FifoSlot
<1>6. ASSUME NEW j \in 1 .. n
      PROVE  /\ sreqs'[ids[j]].type = "SEND" /\ sreqs'[ids[j]].op = k /\ zs[j] = ops'[k].sent[j]
             /\ ids[j] = id \/ AwaitsGroup(ids[j])
  <2>1. j \in Recvs /\ HeadReqs'[j] # NoReq
    <3>1. ids[j] \in ReqIds
      BY <1>4
    <3>2. NoReq \notin ReqIds
      BY Limits DEF NoReq
    <3> QED
      BY <1>3, <1>5, <3>1, <3>2, Zenon
  <2>2. /\ j \in 1 .. n /\ HeadReqs'[j] \in ReqIds /\ sreqs'[HeadReqs'[j]].type = "SEND"
        /\ sreqs'[HeadReqs'[j]].op = k /\ sreqs'[HeadReqs'[j]].arg = ops'[k].sent[j]
        /\ HeadReqs'[j] = id \/ (j # r /\ AwaitsGroup(HeadReqs'[j]))
    BY <2>1, MatchedSends, Zenon
  <2>3. ids[j] = HeadReqs'[j] /\ zs[j] = sreqs'[ids[j]].arg
    BY <1>5
  <2> QED
    BY <2>2, <2>3, Zenon
<1>7. zs = ops'[k].sent
  <2>1. PICK s \in Seq(Int) : s = ops'[k].sent /\ Len(s) = n
    BY <1>2
  <2>2. \A j \in 1 .. n : zs[j] = s[j]
    BY <1>6, <2>1
  <2>3. DOMAIN zs = 1 .. n /\ DOMAIN s = 1 .. n /\ s = [j \in DOMAIN s |-> s[j]] /\ zs = [j \in DOMAIN zs |-> zs[j]]
    BY <1>4, <2>1
  <2>4. zs = s
    BY <2>2, <2>3
  <2> QED
    BY <2>1, <2>4
<1>8. Names(ids, k)'
  BY <1>2, <1>4, <1>6 DEF Names
<1>9. Consumed' = k
  BY <1>2 DEF Consumed
<1>10. SentOk(k)'
  <2>1. SentOk(k)
    BY <1>1, <1>2 DEF SendInv
  <2>2. Len(ops'[k].sent) = n /\ Len(ops'[k].arrived) = n
    BY <1>2, <2>1 DEF SentOk
  <2>3. \A j \in 1 .. n : ops'[k].sent[j] \in Nat /\ ops'[k].sent[j] # NotSent
    BY <1>4, <1>7 DEF NotSent
  <2>4. k <= Consumed'
    BY <1>9
  <2> QED
    BY <1>2, <2>2, <2>3, <2>4 DEF SentOk
<1>11. ASSUME NEW j \in ReqIds, AwaitsGroup(j) \/ j = id PROVE InGroup(ids, n, j)
  <2>1. CASE j = id
    BY <1>5, <2>1 DEF SendMatched, InGroup
  <2>2. CASE j # id
    <3>1. PICK i \in Recvs : HeadReqs[i] = j
      BY <1>11, <2>2 DEF AwaitsGroup
    <3>2. j # NoReq
      BY Limits DEF NoReq
    <3>3. HeadReqs'[i] = j
      BY <3>1, <3>2 DEF SendMatched
    <3>4. i \in 1 .. n
      BY <3>2, <3>3, MatchedSends
    <3> QED
      BY <1>5, <3>3, <3>4 DEF InGroup
  <2> QED
    BY <2>1, <2>2
<1> QED
  BY <1>4, <1>6, <1>7, <1>8, <1>9, <1>10, <1>11

\* What the queues carry when a group is posted.
LEMMA PostedWire ==
    ASSUME RecvInv, RecvInv', SendInv,
           NEW k \in Nat \ {0}, NEW n \in Nat \ {0}, NEW r \in Recvs, NEW id \in ReqIds,
           NEW len \in Nat, NEW x \in Nat, SendMatched(k, n, r, id, len, x),
           NEW ids \in Seq(ReqIds), NEW zs \in Seq(Nat), GroupPosted(k, n, x, ids, zs), NEW q \in Qps
    PROVE  /\ \A i \in 1 .. Len(dataWire'[q]) : MsgOk(q, i)'
           /\ \A j \in ReqIds : Carries(q, j)' <=> Carries(q, j) \/ (q \in QpsFrom(x) /\ InGroup(ids, n, j))
<1>1. /\ TypeOK /\ fifoHead \in Nat /\ dataWire[q] \in Seq(Msg) /\ TypeOK' /\ QpOk(q)' /\ Consumed' = k
      /\ zs = ops'[k].sent /\ Len(ids) = n /\ Names(ids, k)' /\ Len(zs) = n /\ n = Len(ops'[k].recv)
      /\ fifoHead' = fifoHead /\ k = fifoHead + 1 /\ x = StartQp(k)
  <2>1. /\ TypeOK /\ fifoHead \in Nat /\ dataWire[q] \in Seq(Msg) /\ TypeOK' /\ QpOk(q)'
    BY OpsKnown, RecvTypes DEF RecvInv
  <2>2. zs = ops'[k].sent /\ Len(ids) = n /\ Names(ids, k)' /\ Consumed' = k
    BY PostedGroup
  <2>3. n = Len(ops'[k].recv) /\ Len(zs) = n /\ fifoHead' = fifoHead /\ k = fifoHead + 1 /\ x = StartQp(k)
    BY DEF SendMatched, GroupPosted
  <2> QED
    BY <2>1, <2>2, <2>3
<1>2. PICK l \in Nat : l = Len(dataWire[q])
  BY <1>1
<1>3. \A i : QueuedOp(q, i)' = QueuedOp(q, i)
  BY DEF QueuedOp, SendMatched
<1>4. \A i \in 1 .. l : \A m, h : m = dataWire[q][i] /\ h = QueuedOp(q, i) => MsgFits(m, q, h)'
  BY <1>1, <1>2, IsendKeeps
<1>5. CASE q \notin QpsFrom(x)
  <2>1. dataWire'[q] = dataWire[q]
    BY <1>5 DEF GroupPosted
  <2>2. \A i \in 1 .. Len(dataWire'[q]) : MsgOk(q, i)'
    BY <1>2, <1>3, <1>4, <2>1 DEF MsgOk
  <2>3. \A j \in ReqIds : Carries(q, j)' <=> Carries(q, j)
    BY <2>1 DEF Carries
  <2> QED
    BY <1>5, <2>2, <2>3
<1>6. CASE q \in QpsFrom(x)
  <2>1. PICK i0 \in Nat : i0 = IndexOf(x, q)
    BY <1>6, IndexInRange
  <2>2. PICK m : m = Message(i0, Same(k, n), zs, ids) /\ MsgOf(m, i0, k, n, zs, ids)
    BY <1>1, NewMsg
  <2>3. dataWire'[q] = Append(dataWire[q], m)
    BY <1>6, <2>1, <2>2 DEF GroupPosted
  <2>4. m \in Msg
    BY <2>2 DEF MsgOf
  <2>5. Len(dataWire'[q]) = l + 1 /\ dataWire'[q][l + 1] = m /\ \A i \in 1 .. l : dataWire'[q][i] = dataWire[q][i]
    BY <1>1, <1>2, <2>3, <2>4
  <2>6. QueuedOp(q, l + 1)' = k
    <3>1. l + 1 <= Len(recvQueue'[q]) /\ l + 1 \in 1 .. Len(recvQueue'[q]) /\ l + 1 <= Len(dataWire'[q])
      <4>1. recvQueue'[q] \in Seq(ReqIds)
        BY <1>1 DEF TypeOK
      <4>2. Len(recvQueue'[q]) \in Nat
        BY <4>1
      <4>3. l + 1 <= Len(recvQueue'[q])
        BY <1>1, <2>5 DEF QpOk
      <4> QED
        BY <2>5, <4>2, <4>3
    <3>2. dataWire'[q][l + 1].dst[1] = QueuedOp(q, l + 1)'
      BY <1>1, <3>1 DEF QpOk
    <3> QED
      BY <2>2, <2>5, <3>2 DEF MsgOf
  <2>7. MsgFits(m, q, k)'
    <3>1. m.dst = Same(k, n) /\ m.chunks = [j \in 1 .. n |-> Chunk(zs[j], i0)] /\ m.sizes = zs /\ m.ids = ids
          /\ m.slot = FifoSlot(fifoHead) /\ m.imm = IF n = 1 THEN zs[1] ELSE 0
      BY <2>2 DEF MsgOf
    <3>2. Len(m.dst) = n /\ \A j \in 1 .. n : m.dst[j] = k
      BY <3>1 DEF Same
    <3>3. \A j \in 1 .. n : m.chunks[j] = Part(k, j, q)'
      BY <1>1, <2>1, <3>1 DEF Part
    <3>4. m.slot = FifoSlot(k - 1)
      BY <1>1, <3>1
    <3>5. FifoSlot(k - 1) = FifoSlot(k - 1)'
      BY DEF FifoSlot
    <3> QED
      BY <1>1, <3>1, <3>2, <3>3, <3>4, <3>5 DEF MsgFits
  <2>8. ASSUME NEW i \in 1 .. l + 1 PROVE MsgOk(q, i)'
    <3>1. CASE i = l + 1
      BY <2>5, <2>6, <2>7, <3>1 DEF MsgOk
    <3>2. CASE i \in 1 .. l
      BY <1>3, <1>4, <2>5, <3>2 DEF MsgOk
    <3> QED
      BY <3>1, <3>2
  <2>9. ASSUME NEW j \in ReqIds PROVE Carries(q, j)' <=> Carries(q, j) \/ InGroup(ids, n, j)
    <3>1. m.ids = ids /\ DOMAIN ids = 1 .. n
      BY <1>1, <2>2 DEF MsgOf
    <3>2. \A i \in 1 .. l + 1 : i \in 1 .. l \/ i = l + 1
      OBVIOUS
    <3>3. l + 1 \in 1 .. l + 1 /\ \A i \in 1 .. l : i \in 1 .. l + 1
      OBVIOUS
    <3> QED
      BY <1>2, <2>5, <3>1, <3>2, <3>3 DEF Carries, InGroup
  <2> QED
    BY <1>6, <2>5, <2>8, <2>9
<1> QED
  BY <1>5, <1>6

LEMMA IsendPostedSend ==
    ASSUME RecvInv, RecvInv', SendInv,
           NEW k \in Nat \ {0}, NEW n \in Nat \ {0}, NEW r \in Recvs, NEW id \in ReqIds,
           NEW len \in Nat, NEW x \in Nat, SendMatched(k, n, r, id, len, x),
           NEW ids \in Seq(ReqIds), NEW zs \in Seq(Nat), GroupPosted(k, n, x, ids, zs), Len(ops') = Len(ops)
    PROVE  SendInv'
<1>1. /\ TypeOK /\ fifoTail \in Nat /\ Consumed \in Nat /\ fifoTail = Len(ops) /\ fifoHead \in Nat
      /\ ops' \in Seq(Op)
  BY OpsKnown, RecvTypes DEF RecvInv, TypeOK
<1>2. /\ Consumed' = k /\ SentOk(k)' /\ multiSent' /\ Consumed = k - 1 /\ scq' = scq
      /\ \A j \in 1 .. n : ids[j] = id \/ AwaitsGroup(ids[j])
      /\ \A j \in ReqIds : AwaitsGroup(j) \/ j = id => InGroup(ids, n, j)
  <2>1. Consumed' = k /\ SentOk(k)'
    BY PostedGroup
  <2>2. \A j \in 1 .. n : ids[j] = id \/ AwaitsGroup(ids[j])
    BY PostedGroup
  <2>3. \A j \in ReqIds : AwaitsGroup(j) \/ j = id => InGroup(ids, n, j)
    BY PostedGroup
  <2>4. multiSent' /\ Consumed = k - 1 /\ scq' = scq
    BY DEF GroupPosted, SendMatched
  <2> QED
    BY <2>1, <2>2, <2>3, <2>4
<1>3. /\ \A j \in ReqIds : SendReqOk(j)'
      /\ \A c \in scq' : SendCqeOk(c)'
      /\ \A j \in 1 .. fifoTail : j # k => SentOk(j)'
  BY <1>2, IsendKeeps
<1>4. HeadOk'
  <2>1. \A s \in Slots, j \in Recvs : fifoReqs'[s][j] # NoReq => s = FifoSlot(fifoHead)'
    BY DEF SendMatched, FifoSlot
  <2> QED
    BY <1>2, <2>1 DEF HeadOk
<1>5. \A j \in DOMAIN ops' : SentOk(j)'
  <2>1. DOMAIN ops' = 1 .. fifoTail
    BY <1>1
  <2> QED
    BY <1>2, <1>3, <2>1
<1>6. \A q \in Qps : \A i \in 1 .. Len(dataWire'[q]) : MsgOk(q, i)'
  BY PostedWire
<1>7. ASSUME NEW j \in ReqIds, NEW d \in Devs PROVE SendEventsOk(j, d)'
  <2>1. ~AwaitsGroup(j)'
    BY <1>2 DEF AwaitsGroup
  <2>2. SendEventsOk(j, d) /\ SendCqesOf(j, d)' = SendCqesOf(j, d)
    BY <1>2 DEF SendInv, SendCqesOf
  <2>3. \A q \in Qps : Carries(q, j)' <=> Carries(q, j) \/ (q \in QpsFrom(x) /\ InGroup(ids, n, j))
    BY PostedWire
  <2>4. CASE InGroup(ids, n, j)
    <3>1. j = id \/ AwaitsGroup(j)
      BY <1>2, <2>4 DEF InGroup
    <3>2. sreqs'[j].events[d] = EventsFrom(x)[d]
      <4>1. CASE j = id
        BY <4>1 DEF SendMatched
      <4>2. CASE j # id
        <5>1. AwaitsGroup(j) /\ sreqs'[j] = sreqs[j] /\ x = sqpIndex
          BY <3>1, <4>2 DEF SendMatched
        <5> QED
          BY <2>2, <5>1 DEF SendEventsOk
      <4> QED
        BY <4>1, <4>2
    <3>3. SendCqesOf(j, d) = {} /\ \A q \in Qps : ~Carries(q, j)
      <4>1. CASE j = id
        BY <4>1 DEF SendMatched
      <4>2. CASE j # id
        <5>1. PICK i \in Recvs : HeadReqs[i] = j
          BY <3>1, <4>2 DEF AwaitsGroup
        <5>2. j # NoReq /\ ~multiSent /\ k = fifoHead + 1
          BY Limits DEF NoReq, SendMatched
        <5>3. sreqs[j].op = k
          BY <5>1, <5>2 DEF SendInv, HeadOk
        <5>4. ~(sreqs[j].op \in 1 .. Consumed)
          BY <1>2, <5>3
        <5> QED
          BY <5>4, NamedKnown
      <4> QED
        BY <4>1, <4>2
    <3>4. SendQpsWith(j, d)' = {q \in QpsFrom(x) : DevOf(q) = d}
      <4>1. QpsFrom(x) \subseteq Qps
        BY QpsOfTransfer
      <4> QED
        BY <2>3, <2>4, <3>3, <4>1 DEF SendQpsWith
    <3>5. PICK e : e = Cardinality({q \in QpsFrom(x) : DevOf(q) = d}) /\ e \in Nat /\ EventsFrom(x)[d] = e
      <4>1. {q \in QpsFrom(x) : DevOf(q) = d} \in SUBSET Qps
        BY QpsOfTransfer
      <4> QED
        BY <4>1, QpSets, EventsFromType
    <3>6. Cardinality({}) = 0 /\ IsFiniteSet({})
      BY FS_EmptySet
    <3>7. 0 + e = e
      BY <3>5
    <3> QED
      BY <2>1, <2>2, <3>2, <3>3, <3>4, <3>5, <3>6, <3>7 DEF SendEventsOk
  <2>5. CASE ~InGroup(ids, n, j)
    <3>1. j # id /\ ~AwaitsGroup(j)
      BY <1>2, <2>5
    <3>2. sreqs'[j] = sreqs[j]
      BY <3>1 DEF SendMatched
    <3>3. SendQpsWith(j, d)' = SendQpsWith(j, d)
      BY <2>3, <2>5 DEF SendQpsWith
    <3> QED
      BY <2>1, <2>2, <3>1, <3>2, <3>3 DEF SendEventsOk
  <2> QED
    BY <2>4, <2>5
<1> QED
  BY <1>3, <1>4, <1>5, <1>6, <1>7 DEF SendInv

LEMMA IsendSend ==
    ASSUME RecvInv, SendInv, NEW tag \in Tags, NEW size \in SendSizes, Isend(tag, size)
    PROVE  SendInv'
<1>1. PICK k \in Nat \ {0}, n \in Nat \ {0}, r \in Recvs, id \in ReqIds, len \in Nat, x \in Nat :
         /\ Matching(tag, size, k, n, r, id, len, x)
         /\ \/ GroupOpen(n)
            \/ \E ids \in Seq(ReqIds), zs \in Seq(Nat) : GroupPosted(k, n, x, ids, zs)
  BY IsendMatches
<1>2. SendMatched(k, n, r, id, len, x)
  BY <1>1, IsendMatched
<1>3. ops' \in Seq(Op) /\ Len(ops') = Len(ops)
  BY <1>1, IsendOps
<1>4. CASE GroupOpen(n)
  BY <1>2, <1>3, <1>4, IsendOpenSend
<1>5. CASE \E ids \in Seq(ReqIds), zs \in Seq(Nat) : GroupPosted(k, n, x, ids, zs)
  BY <1>2, <1>3, <1>5, IsendPostedSend, IsendRecv
<1> QED
  BY <1>1, <1>4, <1>5

----------------------------------------------------------------------------
(* Delivery of a message. *)

\* The sender's completion of the message that QP q delivers.
SendDone(q, m, k, s) ==
    /\ s.dev = DevOf(q) /\ s.qp = q /\ s.ids = m.ids /\ s.op = k /\ scq' = scq \cup {s}
    /\ sreqs' = sreqs /\ sqpIndex' = sqpIndex /\ fifoHead' = fifoHead /\ fifoReqs' = fifoReqs /\ multiSent' = multiSent
    /\ rreqs' = rreqs /\ fifoTail' = fifoTail /\ Len(ops') = Len(ops)
    /\ \A j \in 1 .. fifoTail : /\ ops'[j].recv = ops[j].recv /\ ops'[j].sent = ops[j].sent
                                /\ Len(ops'[j].arrived) = Len(ops[j].arrived)

LEMMA DeliverDone ==
    ASSUME RecvInv, NEW q \in Qps, Deliver(q), NEW m \in Msg, NEW w \in ReqIds, NEW k \in Nat, NEW c \in RecvCqe,
           m = Head(dataWire[q]), Delivering(q, m, w, k, c)
    PROVE  \E s : SendDone(q, m, k, s)
<1>1. PICK s : s = [dev |-> DevOf(q), qp |-> q, ids |-> m.ids, op |-> m.dst[1]]
  OBVIOUS
<1>2. s.dev = DevOf(q) /\ s.qp = q /\ s.ids = m.ids /\ s.op = k
  BY <1>1 DEF Delivering
<1>3. scq' = scq \cup {s}
  BY <1>1 DEF Deliver
<1>4. /\ sreqs' = sreqs /\ sqpIndex' = sqpIndex /\ fifoHead' = fifoHead /\ fifoReqs' = fifoReqs /\ multiSent' = multiSent
      /\ rreqs' = rreqs /\ fifoTail' = fifoTail
  BY DEF Deliver, svars
<1>5. fifoTail = Len(ops) /\ \A j \in 1 .. fifoTail : ops[j] \in Op
  BY OpsKnown
<1>6. ops' \in Seq(Op) /\ Len(ops') = Len(ops)
  BY DeliverOps
<1>7. ASSUME NEW j \in 1 .. fifoTail
      PROVE  /\ ops'[j].recv = ops[j].recv /\ ops'[j].sent = ops[j].sent
             /\ Len(ops'[j].arrived) = Len(ops[j].arrived)
  <2>1. /\ ops'[j].recv = ops[j].recv /\ ops'[j].sent = ops[j].sent
        /\ ops'[j].arrived = [r \in DOMAIN ops[j].arrived |-> ops[j].arrived[r] \cup Received(m, j, r)]
    BY <1>5, DeliverOps
  <2>2. ops[j].arrived \in Seq(SUBSET Nat)
    BY <1>5, OpFields
  <2>3. PICK a \in Seq(SUBSET Nat) : a = ops[j].arrived
    BY <2>2
  <2>4. PICK n \in Nat : n = Len(a) /\ DOMAIN a = 1 .. n
    BY <2>3
  <2>5. Len([r \in 1 .. n |-> a[r] \cup Received(m, j, r)]) = n
    OBVIOUS
  <2> QED
    BY <2>1, <2>3, <2>4, <2>5
<1> QED
  BY <1>2, <1>3, <1>4, <1>6, <1>7 DEF SendDone

\* A delivery moves the receives that a queue serves up by one.
LEMMA DeliverShift ==
    ASSUME RecvInv, NEW q \in Qps, NEW m \in Msg, NEW w \in ReqIds, NEW k \in Nat, NEW c \in RecvCqe,
           Delivering(q, m, w, k, c), rreqs' = rreqs
    PROVE  /\ \A p \in Qps \ {q} : \A i : QueuedOp(p, i)' = QueuedOp(p, i)
           /\ \A i \in 1 .. Len(recvQueue'[q]) : /\ i + 1 \in 1 .. Len(recvQueue[q])
                                                 /\ QueuedOp(q, i)' = QueuedOp(q, i + 1)
                                                 /\ QueuedOp(q, i + 1) > k
<1>1. \A p \in Qps \ {q} : \A i : QueuedOp(p, i)' = QueuedOp(p, i)
  BY DEF QueuedOp, Delivering
<1>2. PICK l \in Nat \ {0} : l = Len(recvQueue[q])
  BY DEF Delivering
<1>3. Len(recvQueue'[q]) = l - 1 /\ \A i \in 1 .. l - 1 : recvQueue'[q][i] = recvQueue[q][i + 1]
  BY <1>2 DEF Delivering
<1>4. ASSUME NEW i \in 1 .. l - 1
      PROVE  i + 1 \in 1 .. l /\ QueuedOp(q, i)' = QueuedOp(q, i + 1) /\ QueuedOp(q, i + 1) > k
  <2>1. i + 1 \in 1 .. l /\ 1 \in 1 .. l /\ 1 < i + 1
    OBVIOUS
  <2>2. QueuedOp(q, i)' = QueuedOp(q, i + 1)
    BY <1>3 DEF QueuedOp
  <2>3. QpOk(q) /\ QueuedOp(q, 1) = k
    BY DEF RecvInv, Delivering
  <2>4. QueuedOp(q, 1) < QueuedOp(q, i + 1)
    BY <1>2, <2>1, <2>3 DEF QpOk
  <2>5. QueuedOp(q, i + 1) \in Nat
    BY <1>2, <2>1, RecvTypes DEF RecvInv
  <2> QED
    BY <2>1, <2>2, <2>3, <2>4, <2>5
<1> QED
  BY <1>1, <1>2, <1>3, <1>4

\* What the queues carry after a delivery.
LEMMA DeliverCarries ==
    ASSUME RecvInv, SendInv, NEW q \in Qps, NEW m \in Msg, NEW w \in ReqIds, NEW k \in Nat, NEW c \in RecvCqe,
           Delivering(q, m, w, k, c), NEW p \in Qps, NEW j
    PROVE  /\ Carries(p, j)' <=> Carries(p, j) /\ ~(p = q /\ InGroup(m.ids, Len(m.ids), j))
           /\ InGroup(m.ids, Len(m.ids), j) => Carries(q, j)
<1>1. PICK l \in Nat \ {0} : l = Len(dataWire[q])
  BY DEF Delivering
<1>2. Len(dataWire'[q]) = l - 1 /\ m = dataWire[q][1] /\ \A i \in 1 .. l - 1 : dataWire'[q][i] = dataWire[q][i + 1]
  BY <1>1 DEF Delivering
<1>3. m.ids \in Seq(ReqIds) /\ DOMAIN m.ids = 1 .. Len(m.ids)
  BY MsgFields
<1>4. 1 \in 1 .. l
  OBVIOUS
<1>5. InGroup(m.ids, Len(m.ids), j) => Carries(q, j)
  BY <1>1, <1>2, <1>3, <1>4 DEF InGroup, Carries
<1>6. CASE p # q
  <2>1. dataWire'[p] = dataWire[p]
    BY <1>6 DEF Delivering
  <2> QED
    BY <1>5, <1>6, <2>1 DEF Carries
<1>7. ASSUME InGroup(m.ids, Len(m.ids), j), NEW i \in 2 .. l, NEW g \in DOMAIN dataWire[q][i].ids
      PROVE  dataWire[q][i].ids[g] # j
  <2>1. i \in 1 .. Len(dataWire[q]) /\ 1 < i
    BY <1>1
  <2>2. MsgOk(q, i) /\ MsgOk(q, 1) /\ QpOk(q)
    BY <1>1, <1>4, <2>1 DEF SendInv, RecvInv
  <2>3. dataWire[q][i].ids \in Seq(ReqIds) /\ i \in 1 .. Len(recvQueue[q]) /\ QueuedOp(q, i) \in Nat
    BY <2>1, MsgKnown
  <2>4. 1 \in 1 .. Len(recvQueue[q]) /\ QueuedOp(q, 1) \in Nat
    BY <1>1, <1>4, MsgKnown
  <2>5. QueuedOp(q, 1) < QueuedOp(q, i)
    BY <2>1, <2>2, <2>3, <2>4 DEF QpOk
  <2>6. g \in 1 .. Len(dataWire[q][i].ids)
    BY <2>3
  <2>7. sreqs[dataWire[q][i].ids[g]].op = QueuedOp(q, i)
    BY <2>2, <2>6 DEF MsgOk, MsgFits, Names
  <2>8. sreqs[j].op = QueuedOp(q, 1)
    BY <1>2, <1>7, <2>2 DEF MsgOk, MsgFits, Names, InGroup
  <2>9. QueuedOp(q, 1) # QueuedOp(q, i)
    BY <2>3, <2>4, <2>5
  <2> QED
    BY <2>7, <2>8, <2>9
<1>8. CASE p = q
  <2>1. Carries(q, j)' <=> \E i \in 2 .. l : \E g \in DOMAIN dataWire[q][i].ids : dataWire[q][i].ids[g] = j
    <3>1. \A i \in 1 .. l - 1 : i + 1 \in 2 .. l
      OBVIOUS
    <3>2. \A i \in 2 .. l : i - 1 \in 1 .. l - 1 /\ (i - 1) + 1 = i
      OBVIOUS
    <3>3. Carries(q, j)' => \E i \in 2 .. l : \E g \in DOMAIN dataWire[q][i].ids : dataWire[q][i].ids[g] = j
      BY <1>2, <3>1 DEF Carries
    <3>4. ASSUME NEW i \in 2 .. l, NEW g \in DOMAIN dataWire[q][i].ids, dataWire[q][i].ids[g] = j PROVE Carries(q, j)'
      <4>1. dataWire'[q][i - 1] = dataWire[q][i] /\ i - 1 \in 1 .. l - 1
        BY <1>2, <3>2
      <4> QED
        BY <1>2, <3>4, <4>1 DEF Carries
    <3> QED
      BY <3>3, <3>4
  <2>2. Carries(q, j) <=> \/ InGroup(m.ids, Len(m.ids), j)
                          \/ \E i \in 2 .. l : \E g \in DOMAIN dataWire[q][i].ids : dataWire[q][i].ids[g] = j
    <3>1. \A i \in 1 .. l : i = 1 \/ i \in 2 .. l
      OBVIOUS
    <3>2. \A i \in 2 .. l : i \in 1 .. l
      OBVIOUS
    <3>3. InGroup(m.ids, Len(m.ids), j) <=> \E g \in DOMAIN dataWire[q][1].ids : dataWire[q][1].ids[g] = j
      BY <1>2, <1>3 DEF InGroup
    <3> QED
      BY <1>1, <1>4, <3>1, <3>2, <3>3 DEF Carries
  <2> QED
    BY <1>5, <1>7, <1>8, <2>1, <2>2
<1> QED
  BY <1>6, <1>8

LEMMA DeliverSendEvents ==
    ASSUME RecvInv, SendInv, NEW q \in Qps, NEW m \in Msg, NEW w \in ReqIds, NEW k \in Nat, NEW c \in RecvCqe,
           Delivering(q, m, w, k, c), NEW s, SendDone(q, m, k, s), NEW j \in ReqIds, NEW d \in Devs
    PROVE  SendEventsOk(j, d)'
<1>1. SendEventsOk(j, d) /\ TypeOK
  BY DEF SendInv, RecvInv
<1>2. /\ scq' = scq \cup {s} /\ s.dev = DevOf(q) /\ s.ids = m.ids /\ s.qp = q /\ s.op = k
      /\ sreqs' = sreqs /\ sqpIndex' = sqpIndex
  BY DEF SendDone
<1>3. AwaitsGroup(j)' <=> AwaitsGroup(j)
  BY DEF AwaitsGroup, HeadReqs, SendDone, FifoSlot
<1>4. EventsFrom(sqpIndex)' = EventsFrom(sqpIndex)
  BY <1>2 DEF EventsFrom
<1>6. SendQpsWith(j, d)' = {p \in Qps : DevOf(p) = d /\ Carries(p, j) /\ ~(p = q /\ InGroup(m.ids, Len(m.ids), j))}
  <2>1. SendQpsWith(j, d)' = {p \in Qps : DevOf(p) = d /\ Carries(p, j)'}
    BY DEF SendQpsWith
  <2>2. \A p \in Qps : Carries(p, j)' <=> Carries(p, j) /\ ~(p = q /\ InGroup(m.ids, Len(m.ids), j))
    BY DeliverCarries
  <2> QED
    BY <2>1, <2>2
<1>7. m.ids \in Seq(ReqIds) /\ DOMAIN m.ids = 1 .. Len(m.ids)
  BY MsgFields
<1>8. CASE ~(InGroup(m.ids, Len(m.ids), j) /\ d = DevOf(q))
  <2>1. SendQpsWith(j, d)' = SendQpsWith(j, d)
    BY <1>6, <1>8 DEF SendQpsWith
  <2>2. SendCqesOf(j, d)' = SendCqesOf(j, d)
    BY <1>2, <1>7, <1>8 DEF SendCqesOf, InGroup
  <2> QED
    BY <1>1, <1>2, <1>3, <1>4, <2>1, <2>2 DEF SendEventsOk
<1>9. CASE InGroup(m.ids, Len(m.ids), j) /\ d = DevOf(q)
  <2>1. q \in SendQpsWith(j, d)
    BY <1>9, DeliverCarries DEF SendQpsWith
  <2>2. SendQpsWith(j, d)' = SendQpsWith(j, d) \ {q}
    BY <1>6, <1>9 DEF SendQpsWith
  <2>3. SendCqesOf(j, d)' = SendCqesOf(j, d) \cup {s}
    BY <1>2, <1>7, <1>9 DEF SendCqesOf, InGroup
  <2>4. s \notin scq
    <3> SUFFICES ASSUME s \in scq PROVE FALSE
      OBVIOUS
    <3>1. SendCqeOk(s)
      BY DEF SendInv
    <3>2. 1 \in 1 .. Len(recvQueue[q]) /\ QueuedOp(q, 1) = k
      BY DEF Delivering
    <3> QED
      BY <1>2, <3>1, <3>2 DEF SendCqeOk
  <2>5. s \notin SendCqesOf(j, d)
    BY <2>4 DEF SendCqesOf
  <2>6. IsFiniteSet(SendCqesOf(j, d)') /\ Cardinality(SendCqesOf(j, d)') = Cardinality(SendCqesOf(j, d)) + 1
    BY <1>1, <2>3, <2>5, FS_AddElement DEF SendEventsOk
  <2>7. SendQpsWith(j, d) \in SUBSET Qps
    BY DEF SendQpsWith
  <2>8. Cardinality(SendQpsWith(j, d)') = Cardinality(SendQpsWith(j, d)) - 1
    BY <2>1, <2>2, <2>7, QpSets, FS_RemoveElement
  <2>9. Cardinality(SendQpsWith(j, d)) \in Nat /\ Cardinality(SendCqesOf(j, d)) \in Nat
    BY <1>1, <2>7, QpSets, FS_CardinalityType DEF SendEventsOk
  <2>10. PICK a \in Nat, b \in Nat : a = Cardinality(SendQpsWith(j, d)) /\ b = Cardinality(SendCqesOf(j, d))
    BY <2>9
  <2>11. b + a = (b + 1) + (a - 1)
    OBVIOUS
  <2> QED
    BY <1>1, <1>2, <1>3, <1>4, <2>6, <2>8, <2>10, <2>11 DEF SendEventsOk
<1> QED
  BY <1>8, <1>9

LEMMA DeliverSend ==
    ASSUME RecvInv, SendInv, NEW q \in Qps, Deliver(q)
    PROVE  SendInv'
<1>1. PICK m \in Msg, w \in ReqIds, k \in Nat, c \in RecvCqe :
              m = Head(dataWire[q]) /\ Delivering(q, m, w, k, c)
  BY DeliverNamed
<1>2. PICK s : SendDone(q, m, k, s)
  BY <1>1, DeliverDone
<1>3. /\ TypeOK /\ TypeOK' /\ fifoTail \in Nat /\ Consumed \in Nat /\ fifoTail = Len(ops) /\ fifoHead \in Nat
      /\ DOMAIN ops = 1 .. fifoTail
  BY OpsKnown, RecvTypes, DeliverTypes
<1>4. /\ Consumed' = Consumed /\ HeadReqs' = HeadReqs /\ FifoSlot(fifoHead)' = FifoSlot(fifoHead)
      /\ sreqs' = sreqs /\ rreqs' = rreqs /\ fifoTail' = fifoTail /\ fifoHead' = fifoHead /\ multiSent' = multiSent
      /\ fifoReqs' = fifoReqs /\ k <= Consumed /\ k \in 1 .. fifoTail
  BY <1>1, <1>2 DEF SendDone, Consumed, HeadReqs, FifoSlot, Delivering
<1>5. \A j \in 1 .. fifoTail : /\ ops'[j].recv = ops[j].recv /\ ops'[j].sent = ops[j].sent
                               /\ Len(ops'[j].arrived) = Len(ops[j].arrived)
  BY <1>2 DEF SendDone
<1>6. HeadOk'
  <2>1. fifoHead + 1 <= fifoTail => fifoHead + 1 \in 1 .. fifoTail
    BY <1>3
  <2> QED
    BY <1>4, <1>5, <2>1 DEF SendInv, HeadOk
<1>7. \A j \in ReqIds : SendReqOk(j)'
  BY <1>4, <1>5 DEF SendInv, SendReqOk
<1>8. \A j \in DOMAIN ops' : SentOk(j)'
  <2>1. ops' \in Seq(Op) /\ Len(ops') = fifoTail
    BY <1>2, <1>3 DEF TypeOK, SendDone
  <2>2. DOMAIN ops' = 1 .. fifoTail
    BY <2>1
  <2>3. ASSUME NEW j \in 1 .. fifoTail PROVE SentOk(j)'
    <3>1. SentOk(j)
      BY <1>3 DEF SendInv
    <3> QED
      BY <1>4, <1>5, <3>1 DEF SentOk
  <2> QED
    BY <2>2, <2>3
<1>9. \A ids, j : j \in 1 .. fifoTail /\ Names(ids, j) => Names(ids, j)'
  BY <1>4, <1>5 DEF Names
<1>10. ASSUME NEW p \in Qps, NEW i \in 1 .. Len(dataWire'[p]) PROVE MsgOk(p, i)'
  <2>1. PICK h \in 1 .. Len(dataWire[p]) : dataWire'[p][i] = dataWire[p][h] /\ QueuedOp(p, i)' = QueuedOp(p, h)
    <3>1. CASE p # q
      <4>1. dataWire'[p] = dataWire[p]
        BY <1>1, <3>1 DEF Delivering
      <4>2. \A y : QueuedOp(p, y)' = QueuedOp(p, y)
        BY <1>1, <1>4, <3>1, DeliverShift
      <4> QED
        BY <4>1, <4>2
    <3>2. CASE p = q
      <4>1. PICK l \in Nat \ {0} : l = Len(dataWire[q])
        BY <1>1 DEF Delivering
      <4>2. Len(dataWire'[q]) = l - 1 /\ \A y \in 1 .. l - 1 : dataWire'[q][y] = dataWire[q][y + 1]
        BY <1>1, <4>1 DEF Delivering
      <4>3. i \in 1 .. l - 1 /\ i + 1 \in 1 .. l
        BY <3>2, <4>2
      <4>4. i + 1 \in 1 .. Len(recvQueue[q]) /\ Len(recvQueue'[q]) = Len(recvQueue[q]) - 1 /\ Len(recvQueue[q]) \in Nat
        BY <1>1, <4>1, <4>3, MsgKnown DEF Delivering
      <4>5. i \in 1 .. Len(recvQueue'[q])
        BY <4>3, <4>4
      <4>6. QueuedOp(q, i)' = QueuedOp(q, i + 1)
        BY <1>1, <1>4, <4>5, DeliverShift
      <4> QED
        BY <3>2, <4>1, <4>2, <4>3, <4>6
    <3> QED
      BY <3>1, <3>2
  <2>2. PICK y, o : y = dataWire[p][h] /\ o = QueuedOp(p, h)
    OBVIOUS
  <2>3. MsgFits(y, p, o) /\ o \in 1 .. fifoTail
    BY <2>2, MsgKnown DEF SendInv, MsgOk
  <2>4. MsgFits(y, p, o)'
    BY <1>4, <1>5, <2>3, FitsFrame
  <2> QED
    BY <2>1, <2>2, <2>4 DEF MsgOk
<1>11. ASSUME NEW x \in scq' PROVE SendCqeOk(x)'
  <2>1. CASE x \in scq
    <3>1. SendCqeOk(x) /\ x.qp \in Qps /\ x.op \in 1 .. Consumed
      BY <1>3, <2>1, SendCqeFields DEF SendInv, TypeOK, SendCqeOk
    <3>2. x.op \in 1 .. fifoTail
      BY <1>3, <3>1, OpsKnown
    <3>3. PICK p \in Qps : p = x.qp
      BY <3>1
    <3>4. \A i \in 1 .. Len(recvQueue'[p]) : x.op < QueuedOp(p, i)'
      <4>1. CASE p = q
        <5>1. \A i \in 1 .. Len(recvQueue[q]) : x.op < QueuedOp(q, i)
          BY <3>1, <3>3, <4>1 DEF SendCqeOk
        <5>2. \A i \in 1 .. Len(recvQueue'[q]) : i + 1 \in 1 .. Len(recvQueue[q]) /\ QueuedOp(q, i)' = QueuedOp(q, i + 1)
          BY <1>1, <1>4, DeliverShift
        <5>3. \A i \in 1 .. Len(recvQueue'[q]) : x.op < QueuedOp(q, i)'
          BY <5>1, <5>2
        <5> QED
          BY <4>1, <5>3
      <4>2. CASE p # q
        <5>1. \A i \in 1 .. Len(recvQueue[p]) : x.op < QueuedOp(p, i)
          BY <3>1, <3>3 DEF SendCqeOk
        <5>2. \A i : QueuedOp(p, i)' = QueuedOp(p, i)
          BY <1>1, <1>4, <4>2, DeliverShift
        <5>3. recvQueue'[p] = recvQueue[p]
          BY <1>1, <4>2 DEF Delivering
        <5> QED
          BY <5>1, <5>2, <5>3
      <4> QED
        BY <4>1, <4>2
    <3> QED
      BY <1>4, <1>9, <3>1, <3>2, <3>3, <3>4 DEF SendCqeOk
  <2>2. CASE x = s
    <3>1. x.op = k /\ x.qp = q /\ x.dev = DevOf(q) /\ x.ids = m.ids
      BY <1>2, <2>2 DEF SendDone
    <3>2. \A i \in 1 .. Len(recvQueue'[q]) : k < QueuedOp(q, i)'
      <4>1. ASSUME NEW i \in 1 .. Len(recvQueue'[q]) PROVE k < QueuedOp(q, i)'
        <5>1. QueuedOp(q, i)' = QueuedOp(q, i + 1) /\ QueuedOp(q, i + 1) > k /\ i + 1 \in 1 .. Len(recvQueue[q])
          BY <1>1, <1>4, DeliverShift
        <5>2. QueuedOp(q, i + 1) \in Nat
          BY <1>3, <5>1, RecvTypes
        <5> QED
          BY <5>1, <5>2
      <4> QED
        BY <4>1
    <3>3. Names(m.ids, k)
      <4>1. 1 \in 1 .. Len(dataWire[q]) /\ m = dataWire[q][1] /\ k = QueuedOp(q, 1)
        BY <1>1 DEF Delivering
      <4>2. MsgOk(q, 1)
        BY <4>1 DEF SendInv
      <4> QED
        BY <4>1, <4>2 DEF MsgOk, MsgFits
    <3>4. Names(m.ids, k)' /\ k \in 1 .. Consumed'
      BY <1>3, <1>4, <1>9, <3>3
    <3> QED
      BY <3>1, <3>2, <3>4 DEF SendCqeOk
  <2> QED
    BY <1>2, <2>1, <2>2 DEF SendDone
<1>12. \A j \in ReqIds, d \in Devs : SendEventsOk(j, d)'
  BY <1>1, <1>2, DeliverSendEvents
<1> QED
  BY <1>6, <1>7, <1>8, <1>10, <1>11, <1>12 DEF SendInv

----------------------------------------------------------------------------
(* Both halves in every behaviour. *)

LEMMA SendInit == Init => SendInv
<1> SUFFICES ASSUME Init PROVE SendInv
  OBVIOUS
<1>1. Unused.type = "UNUSED" /\ Unused.events = NoEvents /\ \A d \in Devs : NoEvents[d] = 0
  BY UnusedReq
<1>2. \A id \in ReqIds : sreqs[id] = Unused
  BY DEF Init
<1>3. \A s \in Slots, r \in Recvs : fifoReqs[s][r] = NoReq
  BY DEF Init
<1>4. FifoSlot(fifoHead) \in Slots
  BY SlotOfTail DEF Init
<1>5. \A r \in Recvs : HeadReqs[r] = NoReq
  BY <1>3, <1>4 DEF HeadReqs
<1>6. HeadOk
  BY <1>3, <1>5 DEF HeadOk
<1>7. \A id \in ReqIds : SendReqOk(id)
  BY <1>1, <1>2 DEF SendReqOk
<1>8. DOMAIN ops = {} /\ scq = {} /\ \A q \in Qps : dataWire[q] = <<>>
  BY DEF Init
<1>9. \A q \in Qps : Len(dataWire[q]) = 0
  BY <1>8
<1>10. ASSUME NEW id \in ReqIds, NEW d \in Devs PROVE SendEventsOk(id, d)
  <2>1. SendCqesOf(id, d) = {}
    BY <1>8 DEF SendCqesOf
  <2>2. SendQpsWith(id, d) = {}
    BY <1>9 DEF SendQpsWith, Carries
  <2>3. sreqs[id].events[d] = 0
    BY <1>1, <1>2
  <2>4. IsFiniteSet({}) /\ Cardinality({}) = 0
    BY FS_EmptySet
  <2>5. ~AwaitsGroup(id)
    <3>1. id # NoReq
      BY Limits DEF NoReq
    <3> QED
      BY <1>5, <3>1 DEF AwaitsGroup
  <2> QED
    BY <2>1, <2>2, <2>3, <2>4, <2>5 DEF SendEventsOk
<1> QED
  BY <1>6, <1>7, <1>8, <1>9, <1>10 DEF SendInv

LEMMA CalmSend ==
    ASSUME RecvInv, RecvInv', SendInv, SameSender, SameSent, QueuesGrow, fifoTail' = fifoTail
    PROVE  SendInv'
<1>1. fifoTail \in Nat
  BY OpsKnown
<1>2. fifoTail + 1 .. fifoTail' = {}
  BY <1>1
<1> QED
  BY <1>2, ReceiverSend

LEMMA SendNext == RecvInv /\ SendInv /\ [Next]_vars => SendInv'
<1> SUFFICES ASSUME RecvInv, SendInv, [Next]_vars PROVE SendInv'
  OBVIOUS
<1>0. RecvInv'
  BY RecvNext
<1>1. ASSUME NEW recv \in Receives, Irecv(recv) PROVE SendInv'
  BY <1>0, <1>1, IrecvCalm, ReceiverSend
<1>2. CASE FlushAny
  BY <1>0, <1>2, IflushCalm, CalmSend DEF FlushAny
<1>3. CASE RecvTest
  BY <1>0, <1>3, RecvTestPollCalm, RecvTestDoneCalm, CalmSend DEF RecvTest
<1>4. CASE SendAny
  BY <1>4, IsendSend DEF SendAny
<1>5. CASE IsendReturn
  BY <1>5, IsendReturnSend
<1>6. CASE SendTest
  BY <1>6, SendTestPollSend, SendTestDoneSend DEF SendTest
<1>7. CASE LandAny
  BY <1>0, <1>7, LandCtsCalm, CalmSend DEF LandAny
<1>8. ASSUME NEW q \in Qps, Deliver(q) PROVE SendInv'
  BY <1>8, DeliverSend
<1>9. CASE UNCHANGED vars
  <2>1. SameSender
    BY <1>9 DEF vars, svars, fabric, SameSender
  <2>2. SameSent /\ fifoTail' = fifoTail
    BY <1>9, OpsKnown DEF vars, rvars, SameSent
  <2>3. recvQueue' = recvQueue /\ rreqs' = rreqs
    BY <1>9 DEF vars, rvars, fabric
  <2>4. QueuesGrow
    BY <2>3, QueuesStay
  <2> QED
    BY <1>0, <2>1, <2>2, <2>4, CalmSend
<1> QED
  BY <1>1, <1>2, <1>3, <1>4, <1>5, <1>6, <1>7, <1>8, <1>9 DEF Next

(***************************************************************************)
(* The send side is sound too in every behaviour: what is under way on     *)
(* every QP are the chunks of the receive whose work request it will       *)
(* consume, and requests, messages and completions agree (ncclIbIsend,     *)
(* ncclIbMultiSend, ncclIbTest).                                           *)
(***************************************************************************)
THEOREM SendSound == Spec => [](RecvInv /\ SendInv)
<1>1. Init => RecvInv /\ SendInv
  BY RecvInit, SendInit
<1>2. RecvInv /\ SendInv /\ [Next]_vars => RecvInv' /\ SendInv'
  BY RecvNext, SendNext
<1> QED
  BY <1>1, <1>2, PTL DEF Spec

\* As many places as queues, when every queue has exactly one.
LEMMA OnePlaceEach ==
    ASSUME NEW S, IsFiniteSet(S), NEW W, \A w \in W : w[1] \in S, \A s \in S : \E w \in W : w[1] = s,
           \A v, w \in W : v[1] = w[1] => v = w
    PROVE  Cardinality(W) = Cardinality(S)
<1>1. PICK f : f = [s \in S |-> CHOOSE w \in W : w[1] = s]
  OBVIOUS
<1>2. \A s \in S : f[s] \in W /\ f[s][1] = s
  BY <1>1
<1>3. f \in [S -> W] /\ DOMAIN f = S
  BY <1>1, <1>2
<1>4. \A a, b \in S : f[a] = f[b] => a = b
  BY <1>2
<1>5. \A w \in W : \E s \in S : f[s] = w
  BY <1>2
<1>6. f \in Bijection(S, W)
  BY <1>3, <1>4, <1>5 DEF Bijection, Injection, Surjection, IsInjective
<1> QED
  BY <1>6, FS_Bijection DEF ExistsBijection

LEMMA PlaceOf ==
    ASSUME NEW queues
    PROVE  /\ \A w \in PlacesIn(queues) : w[1] \in Qps /\ w[2] \in DOMAIN queues[w[1]] /\ w = <<w[1], w[2]>>
           /\ \A q \in Qps : \A i \in DOMAIN queues[q] : <<q, i>> \in PlacesIn(queues)
BY DEF PlacesIn

LEMMA RecvPlaces ==
    ASSUME RecvInv, NEW id \in ReqIds, NEW d \in Devs
    PROVE  rreqs[id].events[d] = RecvOutstanding(id, d)
<1>1. PICK W : W = {w \in PlacesIn(recvQueue) : DevOf(w[1]) = d /\ recvQueue[w[1]][w[2]] = id}
  OBVIOUS
<1>2. PICK S \in SUBSET Qps : S = QpsWith(id, d)
  BY DEF QpsWith
<1>3. \A q \in Qps : DOMAIN recvQueue[q] = 1 .. Len(recvQueue[q])
  BY RecvTypes DEF RecvInv
<1>4. \A w \in W : w[1] \in S
  BY <1>1, <1>2, <1>3, PlaceOf DEF QpsWith
<1>5. ASSUME NEW q \in S PROVE \E w \in W : w[1] = q
  <2>1. PICK i \in 1 .. Len(recvQueue[q]) : recvQueue[q][i] = id
    BY <1>2 DEF QpsWith
  <2>2. <<q, i>> \in PlacesIn(recvQueue) /\ DevOf(q) = d
    BY <1>2, <1>3, <2>1, PlaceOf DEF QpsWith
  <2> QED
    BY <1>1, <2>1, <2>2
<1>6. ASSUME NEW v \in W, NEW w \in W, v[1] = w[1] PROVE v = w
  <2>1. PICK q \in Qps : q = v[1]
    BY <1>1, PlaceOf
  <2>2. PICK i \in 1 .. Len(recvQueue[q]), j \in 1 .. Len(recvQueue[q]) :
            v = <<q, i>> /\ w = <<q, j>> /\ recvQueue[q][i] = id /\ recvQueue[q][j] = id
    BY <1>1, <1>3, <1>6, <2>1, PlaceOf
  <2>3. QpOk(q) /\ Len(recvQueue[q]) \in Nat /\ QueuedOp(q, i) = rreqs[id].op /\ QueuedOp(q, j) = rreqs[id].op
        /\ rreqs[id].op \in Nat
    BY <2>2, RecvTypes, ReqFields DEF RecvInv, QueuedOp
  <2>4. i < j => QueuedOp(q, i) < QueuedOp(q, j)
    BY <2>3 DEF QpOk
  <2>5. j < i => QueuedOp(q, j) < QueuedOp(q, i)
    BY <2>3 DEF QpOk
  <2>6. i = j
    BY <2>3, <2>4, <2>5
  <2> QED
    BY <2>2, <2>6
<1>7. Cardinality(W) = Cardinality(S)
  BY <1>4, <1>5, <1>6, QpSets, OnePlaceEach
<1>8. RecvEventsOk(id, d)
  BY DEF RecvInv
<1> QED
  BY <1>1, <1>2, <1>7, <1>8 DEF RecvOutstanding, RecvEventsOk, CqesOf

LEMMA SendPlaces ==
    ASSUME RecvInv, SendInv, NEW id \in ReqIds, NEW d \in Devs
    PROVE  sreqs[id].events[d] = IF AwaitsGroup(id) THEN EventsFrom(sqpIndex)[d] ELSE SendOutstanding(id, d)
<1>1. PICK W : W = {w \in PlacesIn(dataWire) :
                      /\ DevOf(w[1]) = d
                      /\ \E j \in DOMAIN dataWire[w[1]][w[2]].ids : dataWire[w[1]][w[2]].ids[j] = id}
  OBVIOUS
<1>2. PICK S \in SUBSET Qps : S = SendQpsWith(id, d)
  BY DEF SendQpsWith
<1>3. \A q \in Qps : DOMAIN dataWire[q] = 1 .. Len(dataWire[q])
  BY RecvTypes DEF RecvInv
<1>4. \A w \in W : w[1] \in S
  BY <1>1, <1>2, <1>3, PlaceOf DEF SendQpsWith, Carries
<1>5. ASSUME NEW q \in S PROVE \E w \in W : w[1] = q
  <2>1. PICK i \in 1 .. Len(dataWire[q]) : \E j \in DOMAIN dataWire[q][i].ids : dataWire[q][i].ids[j] = id
    BY <1>2 DEF SendQpsWith, Carries
  <2>2. <<q, i>> \in PlacesIn(dataWire) /\ DevOf(q) = d
    BY <1>2, <1>3, <2>1, PlaceOf DEF SendQpsWith
  <2> QED
    BY <1>1, <2>1, <2>2
<1>6. ASSUME NEW v \in W, NEW w \in W, v[1] = w[1] PROVE v = w
  <2>1. PICK q \in Qps : q = v[1]
    BY <1>1, PlaceOf
  <2>2. PICK i \in 1 .. Len(dataWire[q]), j \in 1 .. Len(dataWire[q]) :
            /\ v = <<q, i>> /\ w = <<q, j>>
            /\ \E g \in DOMAIN dataWire[q][i].ids : dataWire[q][i].ids[g] = id
            /\ \E g \in DOMAIN dataWire[q][j].ids : dataWire[q][j].ids[g] = id
    BY <1>1, <1>3, <1>6, <2>1, PlaceOf
  <2>3. ASSUME NEW y \in 1 .. Len(dataWire[q]), \E g \in DOMAIN dataWire[q][y].ids : dataWire[q][y].ids[g] = id
        PROVE  sreqs[id].op = QueuedOp(q, y) /\ QueuedOp(q, y) \in Nat /\ y \in 1 .. Len(recvQueue[q])
    <3>1. /\ dataWire[q][y].ids \in Seq(ReqIds) /\ QueuedOp(q, y) \in Nat /\ y \in 1 .. Len(recvQueue[q])
      BY MsgKnown
    <3>2. PICK g \in 1 .. Len(dataWire[q][y].ids) : dataWire[q][y].ids[g] = id
      BY <2>3, <3>1
    <3>3. Names(dataWire[q][y].ids, QueuedOp(q, y))
      BY DEF SendInv, MsgOk, MsgFits
    <3> QED
      BY <3>1, <3>2, <3>3 DEF Names
  <2>4. QueuedOp(q, i) = QueuedOp(q, j) /\ QueuedOp(q, i) \in Nat /\ i \in 1 .. Len(recvQueue[q])
        /\ j \in 1 .. Len(recvQueue[q])
    BY <2>2, <2>3
  <2>5. QpOk(q)
    BY DEF RecvInv
  <2>6. i < j => QueuedOp(q, i) < QueuedOp(q, j)
    BY <2>4, <2>5 DEF QpOk
  <2>7. j < i => QueuedOp(q, j) < QueuedOp(q, i)
    BY <2>4, <2>5 DEF QpOk
  <2>8. i = j
    BY <2>4, <2>6, <2>7
  <2> QED
    BY <2>2, <2>8
<1>7. Cardinality(W) = Cardinality(S)
  BY <1>4, <1>5, <1>6, QpSets, OnePlaceEach
<1>8. SendEventsOk(id, d)
  BY DEF SendInv
<1> QED
  BY <1>1, <1>2, <1>7, <1>8 DEF SendOutstanding, SendEventsOk, SendCqesOf

(***************************************************************************)
(* The events counters of ncclIbTest are exact: a request expects, per     *)
(* device, precisely the completions that are still to come.               *)
(***************************************************************************)
THEOREM CountersExact == Spec => []EventsExact
<1>1. RecvInv /\ SendInv => EventsExact
  BY RecvPlaces, SendPlaces DEF EventsExact
<1> QED
  BY <1>1, SendSound, PTL

----------------------------------------------------------------------------
(* What has arrived. *)

LEMMA ArrivedFrame ==
    ASSUME NEW k, ArrivedOk(k), ops'[k].recv = ops[k].recv, ops'[k].sent = ops[k].sent,
           ops'[k].arrived = ops[k].arrived, Delivered(k)' = Delivered(k)
    PROVE  ArrivedOk(k)'
<1>1. \A r, q : Part(k, r, q)' = Part(k, r, q)
  BY DEF Part
<1>2. \A r : {Part(k, r, q)' : q \in Delivered(k)'} = {Part(k, r, q) : q \in Delivered(k)}
  BY <1>1
<1> QED
  BY <1>2 DEF ArrivedOk

LEMMA CalmDelivered ==
    ASSUME RecvInv, TypeOK', QueuesGrow, NEW k \in 1 .. fifoTail
    PROVE  Delivered(k)' = Delivered(k)
<1>1. fifoTail \in Nat /\ TypeOK /\ k \in Nat \ {0}
  BY OpsKnown
<1>2. QpsOf(k) \subseteq Qps
  BY <1>1, QpsOfReceive
<1>3. ASSUME NEW q \in Qps
      PROVE  (\A i \in 1 .. Len(recvQueue'[q]) : QueuedOp(q, i)' # k) <=> \A i \in 1 .. Len(recvQueue[q]) : QueuedOp(q, i) # k
  <2>1. PICK l \in Nat : l = Len(recvQueue[q])
    BY <1>1, RecvTypes
  <2>2. Len(recvQueue'[q]) >= l /\ \A i \in 1 .. l : QueuedOp(q, i)' = QueuedOp(q, i)
    BY <2>1 DEF QueuesGrow
  <2>3. ASSUME \A i \in 1 .. l : QueuedOp(q, i) # k, NEW i \in 1 .. Len(recvQueue'[q]) PROVE QueuedOp(q, i)' # k
    <3>1. CASE i \in 1 .. l
      BY <2>2, <2>3, <3>1
    <3>2. CASE i \notin 1 .. l
      <4>1. i \in l + 1 .. Len(recvQueue'[q])
        BY <3>2
      <4>2. QueuedOp(q, i)' > fifoTail
        BY <2>1, <4>1 DEF QueuesGrow
      <4>3. ~(k > fifoTail)
        BY <1>1
      <4> QED
        BY <4>2, <4>3
    <3> QED
      BY <3>1, <3>2
  <2>4. ASSUME \A i \in 1 .. Len(recvQueue'[q]) : QueuedOp(q, i)' # k, NEW i \in 1 .. l PROVE QueuedOp(q, i) # k
    <3>1. recvQueue'[q] \in Seq(ReqIds)
      BY DEF TypeOK
    <3>2. i \in 1 .. Len(recvQueue'[q])
      BY <2>2, <3>1
    <3> QED
      BY <2>2, <2>4, <3>2
  <2> QED
    BY <2>1, <2>3, <2>4
<1> QED
  BY <1>2, <1>3 DEF Delivered, QpsOf

\* A step that leaves the work requests and what was sent alone.
LEMMA CalmData ==
    ASSUME RecvInv, RecvInv', DataInv, SameSent, QueuesGrow, \A k \in fifoTail + 1 .. fifoTail' : ArrivedOk(k)'
    PROVE  DataInv'
<1>1. /\ fifoTail \in Nat /\ DOMAIN ops = 1 .. fifoTail /\ TypeOK' /\ InStep'
  BY OpsKnown DEF RecvInv
<1>2. DOMAIN ops' = 1 .. fifoTail' /\ fifoTail' \in Nat
  <2>1. ops' \in Seq(Op) /\ fifoTail' = Len(ops')
    BY <1>1 DEF TypeOK, InStep
  <2> QED
    BY <2>1
<1>3. ASSUME NEW k \in 1 .. fifoTail PROVE ArrivedOk(k)'
  <2>1. Delivered(k)' = Delivered(k)
    BY <1>1, CalmDelivered
  <2>2. ArrivedOk(k)
    BY <1>1 DEF DataInv
  <2> QED
    BY <2>1, <2>2, ArrivedFrame DEF SameSent
<1>4. \A k \in 1 .. fifoTail' : k \in 1 .. fifoTail \/ k \in fifoTail + 1 .. fifoTail'
  BY <1>1, <1>2
<1> QED
  BY <1>2, <1>3, <1>4 DEF DataInv

LEMMA StillData ==
    ASSUME RecvInv, RecvInv', DataInv, SameSent, QueuesGrow, fifoTail' = fifoTail
    PROVE  DataInv'
<1>1. fifoTail \in Nat
  BY OpsKnown
<1>2. fifoTail + 1 .. fifoTail' = {}
  BY <1>1
<1> QED
  BY <1>2, CalmData

LEMMA IrecvData ==
    ASSUME RecvInv, RecvInv', SendInv, DataInv, NEW recv \in Receives, Irecv(recv)
    PROVE  DataInv'
<1>1. /\ SameSent /\ QueuesGrow /\ fifoTail' = fifoTail + 1 /\ fifoTail \in Nat
      /\ ops'[fifoTail + 1] = NewOp(recv)
      /\ \A q \in QpsOf(fifoTail + 1) : \E i \in 1 .. Len(recvQueue'[q]) : QueuedOp(q, i)' = fifoTail + 1
  BY IrecvCalm, OpsKnown
<1>2. PICK k : k = fifoTail + 1
  OBVIOUS
<1>3. Delivered(k)' = {}
  BY <1>1, <1>2 DEF Delivered, QpsOf
<1>4. ops'[k].recv = recv /\ ops'[k].arrived = [r \in 1 .. Len(recv) |-> {}]
  BY <1>1, <1>2, NewOpType
<1>5. \A r \in 1 .. Len(recv) : ops'[k].arrived[r] = {}
  BY <1>4
<1>6. ArrivedOk(k)'
  BY <1>3, <1>4, <1>5 DEF ArrivedOk
<1>7. \A j \in fifoTail + 1 .. fifoTail' : j = k
  BY <1>1, <1>2
<1> QED
  BY <1>1, <1>6, <1>7, CalmData

\* Nothing has arrived for a receive whose data is not posted.
LEMMA NoneDelivered ==
    ASSUME RecvInv, NEW k \in Consumed + 1 .. fifoTail
    PROVE  Delivered(k) = {}
<1>1. Consumed \in Nat /\ fifoTail \in Nat /\ k \in Nat \ {0}
  BY OpsKnown
<1>2. ASSUME NEW q \in QpsOf(k) PROVE \E i \in 1 .. Len(recvQueue[q]) : QueuedOp(q, i) = k
  <2>1. q \in Qps
    BY <1>1, QpsOfReceive
  <2>2. QpOk(q)
    BY <2>1 DEF RecvInv
  <2> QED
    BY <2>2 DEF QpOk
<1> QED
  BY <1>2 DEF Delivered

LEMMA IsendData ==
    ASSUME RecvInv, RecvInv', SendInv, DataInv, NEW tag \in Tags, NEW size \in SendSizes, Isend(tag, size)
    PROVE  DataInv'
<1>1. PICK k \in Nat \ {0}, n \in Nat \ {0}, r \in Recvs, id \in ReqIds, len \in Nat, x \in Nat :
         Matching(tag, size, k, n, r, id, len, x)
  BY IsendMatches
<1>2. SendMatched(k, n, r, id, len, x) /\ ops' \in Seq(Op) /\ Len(ops') = Len(ops)
  BY <1>1, IsendMatched, IsendOps
<1>3. /\ fifoTail \in Nat /\ DOMAIN ops = 1 .. fifoTail /\ fifoTail = Len(ops) /\ Consumed \in Nat
  BY OpsKnown
<1>4. DOMAIN ops' = 1 .. fifoTail
  BY <1>2, <1>3
<1>5. \A j : Delivered(j)' = Delivered(j)
  BY <1>2 DEF Delivered, QpsOf, QueuedOp, SendMatched
<1>6. ASSUME NEW j \in 1 .. fifoTail PROVE ArrivedOk(j)'
  <2>1. CASE j # k
    <3>1. ops'[j] = ops[j] /\ ArrivedOk(j)
      BY <1>2, <1>3, <2>1 DEF SendMatched, DataInv
    <3> QED
      BY <1>5, <3>1, ArrivedFrame
  <2>2. CASE j = k
    <3>1. k \in Consumed + 1 .. fifoTail
      BY <1>2, <1>3 DEF SendMatched
    <3>2. Delivered(k) = {} /\ Delivered(k)' = {}
      BY <1>5, <3>1, NoneDelivered
    <3>3. ArrivedOk(k)
      BY <1>3, <2>2 DEF DataInv
    <3>4. ops'[k].recv = ops[k].recv /\ ops'[k].arrived = ops[k].arrived
      BY <1>2 DEF SendMatched
    <3> QED
      BY <2>2, <3>2, <3>3, <3>4 DEF ArrivedOk
  <2> QED
    BY <2>1, <2>2
<1> QED
  BY <1>4, <1>6 DEF DataInv

\* A delivery adds its QP to those that have delivered the receive.
LEMMA DeliverDelivered ==
    ASSUME RecvInv, NEW q \in Qps, NEW m \in Msg, NEW w \in ReqIds, NEW k \in Nat, NEW c \in RecvCqe,
           Delivering(q, m, w, k, c), rreqs' = rreqs, NEW j \in Nat \ {0}
    PROVE  Delivered(j)' = IF j = k THEN Delivered(k) \cup {q} ELSE Delivered(j)
<1>1. QpsOf(j) \subseteq Qps
  BY QpsOfReceive
<1>2. ASSUME NEW p \in Qps
      PROVE  (\A i \in 1 .. Len(recvQueue'[p]) : QueuedOp(p, i)' # j)
             <=> (\A i \in 1 .. Len(recvQueue[p]) : QueuedOp(p, i) # j) \/ (p = q /\ j = k)
  <2>1. CASE p # q
    <3>1. recvQueue'[p] = recvQueue[p]
      BY <2>1 DEF Delivering
    <3>2. \A i : QueuedOp(p, i)' = QueuedOp(p, i)
      BY <2>1, DeliverShift
    <3> QED
      BY <2>1, <3>1, <3>2
  <2>2. CASE p = q
    <3>1. PICK l \in Nat \ {0} : l = Len(recvQueue[q]) /\ Len(recvQueue'[q]) = l - 1 /\ QueuedOp(q, 1) = k
      BY DEF Delivering
    <3>2. \A i \in 1 .. l - 1 : QueuedOp(q, i)' = QueuedOp(q, i + 1) /\ QueuedOp(q, i + 1) > k
      BY <3>1, DeliverShift
    <3>3. \A i \in 1 .. l - 1 : QueuedOp(q, i)' # k
      BY <3>2
    <3>4. \A i \in 1 .. l : i = 1 \/ (i - 1 \in 1 .. l - 1 /\ (i - 1) + 1 = i)
      OBVIOUS
    <3>5. \A i \in 1 .. l - 1 : i + 1 \in 1 .. l
      OBVIOUS
    <3>6. 1 \in 1 .. l
      OBVIOUS
    <3>7. CASE j = k
      BY <2>2, <3>1, <3>3, <3>7
    <3>8. CASE j # k
      <4>1. ASSUME \A i \in 1 .. l - 1 : QueuedOp(q, i)' # j, NEW i \in 1 .. l PROVE QueuedOp(q, i) # j
        <5>1. CASE i = 1
          BY <3>1, <3>8, <5>1
        <5>2. CASE i # 1
          BY <3>2, <3>4, <4>1, <5>2
        <5> QED
          BY <5>1, <5>2
      <4>2. ASSUME \A i \in 1 .. l : QueuedOp(q, i) # j, NEW i \in 1 .. l - 1 PROVE QueuedOp(q, i)' # j
        BY <3>2, <3>5, <4>2
      <4> QED
        BY <2>2, <3>1, <3>8, <4>1, <4>2
    <3> QED
      BY <3>7, <3>8
  <2> QED
    BY <2>1, <2>2
<1>3. q \in QpsOf(k) /\ QpsOf(j)' = QpsOf(j)
  BY DEF Delivering, QpsOf
<1>4. CASE j = k
  <2>1. \A p \in Qps : (\A i \in 1 .. Len(recvQueue'[p]) : QueuedOp(p, i)' # k)
             <=> (\A i \in 1 .. Len(recvQueue[p]) : QueuedOp(p, i) # k) \/ p = q
    BY <1>2, <1>4
  <2>2. Delivered(k)' = {p \in QpsOf(k) : \A i \in 1 .. Len(recvQueue'[p]) : QueuedOp(p, i)' # k}
    BY <1>3, <1>4 DEF Delivered
  <2>3. Delivered(k) = {p \in QpsOf(k) : \A i \in 1 .. Len(recvQueue[p]) : QueuedOp(p, i) # k}
    BY DEF Delivered
  <2>4. Delivered(k)' = Delivered(k) \cup {q}
    BY <1>1, <1>3, <1>4, <2>1, <2>2, <2>3
  <2> QED
    BY <1>4, <2>4
<1>5. CASE j # k
  <2>1. \A p \in Qps : (\A i \in 1 .. Len(recvQueue'[p]) : QueuedOp(p, i)' # j)
             <=> (\A i \in 1 .. Len(recvQueue[p]) : QueuedOp(p, i) # j)
    BY <1>2, <1>5
  <2>2. Delivered(j)' = {p \in QpsOf(j) : \A i \in 1 .. Len(recvQueue'[p]) : QueuedOp(p, i)' # j}
    BY <1>3 DEF Delivered
  <2>3. Delivered(j)' = Delivered(j)
    BY <1>1, <2>1, <2>2 DEF Delivered
  <2> QED
    BY <1>5, <2>3
<1> QED
  BY <1>4, <1>5

LEMMA DeliverData ==
    ASSUME RecvInv, RecvInv', SendInv, DataInv, NEW q \in Qps, Deliver(q)
    PROVE  DataInv'
<1>1. PICK m \in Msg, w \in ReqIds, k \in Nat, c \in RecvCqe :
              m = Head(dataWire[q]) /\ Delivering(q, m, w, k, c)
  BY DeliverNamed
<1>2. /\ fifoTail \in Nat /\ DOMAIN ops = 1 .. fifoTail /\ fifoTail = Len(ops) /\ rreqs' = rreqs
      /\ k \in 1 .. fifoTail /\ 1 \in 1 .. Len(dataWire[q]) /\ m = dataWire[q][1] /\ k = QueuedOp(q, 1)
  <2>1. fifoTail \in Nat /\ DOMAIN ops = 1 .. fifoTail /\ fifoTail = Len(ops)
    BY OpsKnown
  <2>2. rreqs' = rreqs
    BY Zenon DEF Deliver
  <2>3. k \in 1 .. fifoTail /\ 1 \in 1 .. Len(dataWire[q]) /\ m = dataWire[q][1] /\ k = QueuedOp(q, 1)
    BY <1>1 DEF Delivering
  <2> QED
    BY <2>1, <2>2, <2>3, Zenon
<1>3. ops' \in Seq(Op) /\ Len(ops') = Len(ops)
  BY <1>1, DeliverOps
<1>4. DOMAIN ops' = 1 .. fifoTail
  BY <1>2, <1>3
<1>5. MsgFits(m, q, k)
  BY <1>2 DEF SendInv, MsgOk
<1>6. ASSUME NEW j \in 1 .. fifoTail PROVE ArrivedOk(j)'
  <2>1. PICK n \in Nat : /\ n = Len(ops[j].recv) /\ Len(ops[j].arrived) = n /\ ops[j].arrived \in Seq(SUBSET Nat)
                         /\ ops[j] \in Op
    <3>1. ops[j] \in Op /\ SentOk(j)
      BY <1>2, OpsKnown DEF SendInv
    <3> QED
      BY <3>1, OpFields, RecvFields DEF SentOk
  <2>2. DOMAIN ops[j].arrived = 1 .. n
    BY <2>1
  <2>3. /\ ops'[j].recv = ops[j].recv /\ ops'[j].sent = ops[j].sent
        /\ ops'[j].arrived = [r \in DOMAIN ops[j].arrived |-> ops[j].arrived[r] \cup Received(m, j, r)]
    BY <1>1, <1>2, DeliverOps
  <2>4. \A r \in 1 .. n : ops'[j].arrived[r] = ops[j].arrived[r] \cup Received(m, j, r)
    BY <2>2, <2>3
  <2>5. \A r, p : Part(j, r, p)' = Part(j, r, p)
    BY <2>3 DEF Part
  <2>6. ArrivedOk(j)
    BY <1>2 DEF DataInv
  <2>7. CASE j = k
    <3>1. Delivered(k)' = Delivered(k) \cup {q}
      BY <1>1, <1>2, <2>7, DeliverDelivered
    <3>2. ASSUME NEW r \in 1 .. n PROVE Received(m, j, r) = Part(k, r, q)
      <4>1. Len(m.dst) = n /\ m.dst[r] = k /\ m.chunks[r] = Part(k, r, q)
        BY <1>5, <2>1, <2>7 DEF MsgFits
      <4>2. r \in DOMAIN m.dst
        BY <4>1, MsgFields
      <4> QED
        BY <2>7, <4>1, <4>2 DEF Received
    <3>3. ASSUME NEW r \in 1 .. n PROVE ops'[k].arrived[r] = UNION {Part(k, r, p)' : p \in Delivered(k)'}
      <4>1. ops[k].arrived[r] = UNION {Part(k, r, p) : p \in Delivered(k)}
        BY <2>1, <2>6, <2>7 DEF ArrivedOk
      <4>2. ops'[k].arrived[r] = ops[k].arrived[r] \cup Part(k, r, q)
        BY <2>4, <2>7, <3>2
      <4>3. {Part(k, r, p)' : p \in Delivered(k)'} = {Part(k, r, p) : p \in Delivered(k)} \cup {Part(k, r, q)}
        BY <2>5, <2>7, <3>1
      <4> QED
        BY <4>1, <4>2, <4>3
    <3> QED
      BY <2>1, <2>3, <2>7, <3>3 DEF ArrivedOk
  <2>8. CASE j # k
    <3>1. Delivered(j)' = Delivered(j)
      BY <1>1, <1>2, <2>8, DeliverDelivered
    <3>2. ASSUME NEW r \in 1 .. n PROVE Received(m, j, r) = {}
      <4>1. PICK l \in Nat : l = Len(m.dst) /\ DOMAIN m.dst = 1 .. l
        BY MsgFields
      <4>2. l = Len(ops[k].recv) /\ \A y \in 1 .. Len(ops[k].recv) : m.dst[y] = k
        BY <1>5, <4>1, Zenon DEF MsgFits
      <4>3. \A y \in DOMAIN m.dst : m.dst[y] = k
        BY <4>1, <4>2, Zenon
      <4> QED
        BY <2>8, <4>3 DEF Received
    <3>3. ASSUME NEW r \in 1 .. n PROVE ops'[j].arrived[r] = UNION {Part(j, r, p)' : p \in Delivered(j)'}
      <4>1. ops[j].arrived[r] = UNION {Part(j, r, p) : p \in Delivered(j)}
        BY <2>1, <2>6 DEF ArrivedOk
      <4>2. ops'[j].arrived[r] = ops[j].arrived[r]
        BY <2>4, <3>2
      <4>3. {Part(j, r, p)' : p \in Delivered(j)'} = {Part(j, r, p) : p \in Delivered(j)}
        BY <2>5, <3>1
      <4> QED
        BY <4>1, <4>2, <4>3
    <3> QED
      BY <2>1, <2>3, <3>3 DEF ArrivedOk
  <2> QED
    BY <2>7, <2>8
<1> QED
  BY <1>4, <1>6 DEF DataInv

LEMMA DataNext == RecvInv /\ SendInv /\ DataInv /\ [Next]_vars => DataInv'
<1> SUFFICES ASSUME RecvInv, SendInv, DataInv, [Next]_vars PROVE DataInv'
  OBVIOUS
<1>0. RecvInv'
  BY RecvNext
<1>1. ASSUME NEW recv \in Receives, Irecv(recv) PROVE DataInv'
  BY <1>0, <1>1, IrecvData
<1>2. CASE FlushAny
  BY <1>0, <1>2, IflushCalm, StillData DEF FlushAny
<1>3. CASE RecvTest
  BY <1>0, <1>3, RecvTestPollCalm, RecvTestDoneCalm, StillData DEF RecvTest
<1>4. CASE SendAny
  BY <1>0, <1>4, IsendData DEF SendAny
<1>5. CASE LandAny
  BY <1>0, <1>5, LandCtsCalm, StillData DEF LandAny
<1>6. ASSUME NEW q \in Qps, Deliver(q) PROVE DataInv'
  BY <1>0, <1>6, DeliverData
<1>7. ASSUME rreqs' = rreqs, fifoTail' = fifoTail, ops' = ops, recvQueue' = recvQueue PROVE DataInv'
  <2>1. SameSent
    BY <1>7, OpsKnown DEF SameSent
  <2>2. QueuesGrow
    BY <1>7, QueuesStay
  <2> QED
    BY <1>0, <1>7, <2>1, <2>2, StillData
<1>8. CASE IsendReturn
  BY <1>7, <1>8 DEF IsendReturn, rvars, fabric
<1>9. CASE SendTest
  BY <1>7, <1>9 DEF SendTest, SendTestPoll, SendTestDone, rvars, fabric
<1>10. CASE UNCHANGED vars
  BY <1>7, <1>10 DEF vars, rvars, fabric
<1> QED
  BY <1>1, <1>2, <1>3, <1>4, <1>5, <1>6, <1>8, <1>9, <1>10 DEF Next

\* The QPs of a transfer are as many as its chunks.
LEMMA IndexOfQp ==
    ASSUME NEW x \in Nat, NEW i \in 0 .. NqpsUsed - 1
    PROVE  QpAt(x, i) \in QpsFrom(x) /\ IndexOf(x, QpAt(x, i)) = i
<1>1. PICK u \in Nat \ {0}, n \in Nat \ {0} : u = NqpsUsed /\ n = Nqps /\ u <= n
  BY QpCounts
<1>2. QpAt(x, i) \in QpsFrom(x)
  BY DEF QpsFrom
<1>3. PICK j \in Nat : j = IndexOf(x, QpAt(x, i)) /\ j \in 0 .. u - 1 /\ QpAt(x, j) = QpAt(x, i)
  BY <1>1, <1>2, IndexInRange
<1>4. PICK a \in Int, b \in Int : a = x + i /\ b = x + j
  BY <1>1
<1>5. a % n = b % n
  BY <1>1, <1>3, <1>4 DEF QpAt
<1>6. a - b < n /\ b - a < n
  BY <1>1, <1>3, <1>4
<1>7. a <= b => a = b
  BY <1>5, <1>6, ModInjective
<1>8. b <= a => a = b
  BY <1>5, <1>6, ModInjective
<1>9. i = j
  BY <1>1, <1>3, <1>4, <1>7, <1>8
<1> QED
  BY <1>2, <1>3, <1>9

LEMMA AllDelivered ==
    ASSUME RecvInv, NEW k \in 1 .. fifoTail, ops[k].state # "posted"
    PROVE  Delivered(k) = QpsOf(k)
<1>1. TypeOK /\ k \in Nat \ {0}
  BY OpsKnown
<1>2. QpsOf(k) \subseteq Qps
  BY <1>1, QpsOfReceive
<1>3. ASSUME NEW q \in Qps, NEW i \in 1 .. Len(recvQueue[q]) PROVE QueuedOp(q, i) # k
  <2>1. recvQueue[q][i] \in ReqIds
    BY <1>1, RecvTypes
  <2>2. rreqs[recvQueue[q][i]].type = "RECV"
    BY DEF RecvInv, QpOk
  <2>3. ops[QueuedOp(q, i)].state = "posted"
    BY <2>1, <2>2, ReqKnown DEF QueuedOp
  <2> QED
    BY <2>3
<1> QED
  BY <1>2, <1>3 DEF Delivered

LEMMA ReportedComplete ==
    ASSUME RecvInv, SendInv, DataInv, NEW k \in DOMAIN ops, ops[k].state # "posted", NEW r \in DOMAIN ops[k].sent
    PROVE  ops[k].arrived[r] = 0 .. ops[k].sent[r] - 1
<1>1. k \in 1 .. fifoTail /\ k \in Nat \ {0} /\ ops[k] \in Op /\ StateOk(k) /\ SentOk(k) /\ ArrivedOk(k)
  BY OpsKnown DEF SendInv, DataInv
<1>2. k <= Consumed
  BY <1>1 DEF StateOk
<1>3. ops[k].sent \in Seq(Int)
  BY <1>1, OpFields
<1>4. r \in 1 .. Len(ops[k].recv)
  BY <1>1, <1>3 DEF SentOk
<1>5. PICK z \in Nat : z = ops[k].sent[r]
  BY <1>1, <1>2, <1>4 DEF SentOk
<1>6. PICK x \in Nat : x = StartQp(k) /\ QpsOf(k) = QpsFrom(x)
  BY <1>1, QpsOfReceive DEF QpsOf
<1>7. PICK A : A = {Chunk(z, IndexOf(x, q)) : q \in QpsFrom(x)}
  OBVIOUS
<1>8. ops[k].arrived[r] = UNION A
  <2>1. Delivered(k) = QpsFrom(x)
    BY <1>1, <1>6, AllDelivered
  <2>2. {Part(k, r, q) : q \in Delivered(k)} = A
    BY <1>5, <1>6, <1>7, <2>1 DEF Part
  <2> QED
    BY <1>1, <1>4, <2>2 DEF ArrivedOk
<1>9. ASSUME NEW b \in UNION A PROVE b \in 0 .. z - 1
  BY <1>7 DEF Chunk
<1>10. ASSUME NEW b \in 0 .. z - 1 PROVE b \in UNION A
  <2>1. PICK i \in 0 .. NqpsUsed - 1 : b \in Chunk(z, i)
    BY ChunksPartition
  <2>2. QpAt(x, i) \in QpsFrom(x) /\ IndexOf(x, QpAt(x, i)) = i
    BY IndexOfQp
  <2>3. Chunk(z, i) \in A
    BY <1>7, <2>2
  <2> QED
    BY <2>1, <2>3
<1>11. UNION A = 0 .. z - 1
  BY <1>9, <1>10
<1> QED
  BY <1>5, <1>8, <1>11

(***************************************************************************)
(* When ncclIbTest reports a receive, every byte that was sent for each of *)
(* its buffers is there, whatever the number of QPs and devices it was     *)
(* striped over and the order in which they delivered.                     *)
(***************************************************************************)
THEOREM DataArrives == Spec => []DataComplete
<1>1. Init => DataInv
  BY DEF Init, DataInv
<1>2. RecvInv /\ SendInv /\ DataInv => DataComplete
  BY ReportedComplete DEF DataComplete
<1> QED
  BY <1>1, <1>2, DataNext, SendSound, PTL DEF Spec

----------------------------------------------------------------------------
(* What is reported. *)

\* Receives that the caller has not finished have slots of their own.
LEMMA SlotsApart ==
    ASSUME RecvInv, NEW j \in 1 .. fifoTail, NEW k \in 1 .. fifoTail,
           ops[j].state # "retired", ops[k].state # "retired", FifoSlot(j - 1) = FifoSlot(k - 1)
    PROVE  j = k
<1>1. PICK M \in Nat \ {0}, W \in Nat \ {0}, t \in Nat : M = MaxRequests /\ W = Window /\ W < M /\ t = fifoTail
  BY Limits, OpsKnown
<1>2. StateOk(j) /\ StateOk(k)
  BY OpsKnown
<1>3. ~(j + W <= t) /\ ~(k + W <= t)
  BY <1>1, <1>2 DEF StateOk
<1>4. PICK a \in Int, b \in Int : a = j - 1 /\ b = k - 1
  BY <1>1
<1>5. a - b < M /\ b - a < M
  BY <1>1, <1>3, <1>4
<1>6. a % M = b % M
  BY <1>1, <1>4 DEF FifoSlot
<1>7. a <= b => a = b
  BY <1>5, <1>6, ModInjective
<1>8. b <= a => b = a
  BY <1>5, <1>6, ModInjective
<1> QED
  BY <1>1, <1>4, <1>7, <1>8

LEMMA CountedFrame ==
    ASSUME NEW k, Delivered(k)' = Delivered(k),
           \A c : c.opcode = "RECV_RDMA_WITH_IMM" /\ c.op = k => (c \in rcq' <=> c \in rcq)
    PROVE  Counted(k)' = Counted(k)
<1>1. ASSUME NEW q
      PROVE  (\A c \in rcq' : ~(c.opcode = "RECV_RDMA_WITH_IMM" /\ c.qp = q /\ c.op = k))
             <=> \A c \in rcq : ~(c.opcode = "RECV_RDMA_WITH_IMM" /\ c.qp = q /\ c.op = k)
  OBVIOUS
<1> QED
  BY <1>1 DEF Counted

LEMMA SizesFrame ==
    ASSUME NEW k, SizesOk(k), ops'[k].recv = ops[k].recv, ops'[k].sent = ops[k].sent,
           ops'[k].state = "posted" <=> ops'[k].sizes = <<>>,
           ops'[k].state = "posted" => ops[k].state = "posted" /\ sizesFifo'[FifoSlot(k - 1)] = sizesFifo[FifoSlot(k - 1)],
           Delivered(k)' = Delivered(k), Counted(k)' = Counted(k)
    PROVE  SizesOk(k)'
<1>1. FifoSlot(k - 1)' = FifoSlot(k - 1)
  BY DEF FifoSlot
<1> QED
  BY <1>1 DEF SizesOk

LEMMA ImmFrame ==
    ASSUME RecvInv, NEW c \in RecvCqe, ImmOk(c), Consumed' \in Nat, Consumed' >= Consumed,
           c.op \in 1 .. Consumed => ops'[c.op].recv = ops[c.op].recv /\ ops'[c.op].sent = ops[c.op].sent
    PROVE  ImmOk(c)'
<1>1. Consumed \in Nat /\ c.op \in Nat
  BY OpsKnown, CqeFields
<1>2. c.op \in 1 .. Consumed => c.op \in 1 .. Consumed'
  BY <1>1
<1>3. QpsOf(c.op)' = QpsOf(c.op)
  BY DEF QpsOf
<1> QED
  BY <1>2, <1>3 DEF ImmOk

\* A step that neither writes a size nor polls a completion with one.
LEMMA StillReport ==
    ASSUME RecvInv, RecvInv', ReportInv, SameSent, QueuesGrow, fifoTail' = fifoTail, Consumed' = Consumed,
           sizesFifo' = sizesFifo,
           \A c : c.opcode = "RECV_RDMA_WITH_IMM" => (c \in rcq' <=> c \in rcq),
           \A k \in 1 .. fifoTail : /\ ops'[k].state = "posted" <=> ops'[k].sizes = <<>>
                                    /\ ops'[k].state = "posted" => ops[k].state = "posted"
    PROVE  ReportInv'
<1>1. /\ fifoTail \in Nat /\ DOMAIN ops = 1 .. fifoTail /\ TypeOK' /\ InStep' /\ Consumed \in Nat /\ TypeOK
      /\ Consumed <= fifoTail
  BY OpsKnown DEF RecvInv
<1>2. DOMAIN ops' = 1 .. fifoTail
  <2>1. ops' \in Seq(Op) /\ fifoTail' = Len(ops')
    BY <1>1 DEF TypeOK, InStep
  <2> QED
    BY <2>1
<1>3. ASSUME NEW k \in 1 .. fifoTail PROVE SizesOk(k)'
  <2>1. Delivered(k)' = Delivered(k)
    BY <1>1, CalmDelivered
  <2>2. Counted(k)' = Counted(k)
    BY <2>1, CountedFrame
  <2>3. SizesOk(k)
    BY <1>1 DEF ReportInv
  <2> QED
    BY <2>1, <2>2, <2>3, SizesFrame DEF SameSent
<1>4. ASSUME NEW c \in rcq' PROVE ImmOk(c)'
  <2>1. CASE c.opcode = "RECV_RDMA_WITH_IMM"
    <3>1. c \in rcq /\ c \in RecvCqe /\ ImmOk(c)
      BY <1>1, <2>1 DEF ReportInv, TypeOK
    <3>2. \A j \in 1 .. Consumed : ops'[j].recv = ops[j].recv /\ ops'[j].sent = ops[j].sent
      BY <1>1 DEF SameSent
    <3>3. Consumed' \in Nat /\ Consumed' >= Consumed
      BY <1>1
    <3> QED
      BY <3>1, <3>2, <3>3, ImmFrame
  <2>2. CASE c.opcode # "RECV_RDMA_WITH_IMM"
    BY <2>2 DEF ImmOk
  <2> QED
    BY <2>1, <2>2
<1> QED
  BY <1>2, <1>3, <1>4 DEF ReportInv

LEMMA RecvTestDoneReport ==
    ASSUME RecvInv, RecvInv', ReportInv, NEW id \in ReqIds, RecvTestDone(id)
    PROVE  ReportInv'
<1>1. /\ SameSender /\ SameSent /\ QueuesGrow /\ fifoTail' = fifoTail /\ rcq' = rcq /\ sizesFifo' = sizesFifo
  BY RecvTestDoneCalm
<1>2. PICK k \in Nat \ {0} : \E st, z :
        /\ Learnt(k, st, z) /\ k = rreqs[id].op /\ k <= Consumed
        /\ \/ rreqs[id].type = "RECV" /\ st = "done" /\ ops[k].state = "posted" /\ z = SizesIn(k)
           \/ rreqs[id].type = "FLUSH" /\ st = "retired" /\ ops[k].state = "flushing" /\ z = ops[k].sizes
  BY RecvTestDoneCalm
<1>3. PICK st, z :
        /\ Learnt(k, st, z)
        /\ \/ st = "done" /\ z = SizesIn(k)
           \/ st = "retired" /\ ops[k].state = "flushing" /\ z = ops[k].sizes
  BY <1>2
<1>4. Consumed' = Consumed
  BY <1>1 DEF SameSender, Consumed
<1>5. DOMAIN ops = 1 .. fifoTail /\ \A j \in 1 .. fifoTail : ops[j] \in Op
  BY OpsKnown
<1>6. \A j \in 1 .. fifoTail : ops[j].state = "posted" <=> ops[j].sizes = <<>>
  BY <1>5 DEF ReportInv, SizesOk
<1>7. k \in 1 .. fifoTail
  BY <1>3 DEF Learnt
<1>8. z # <<>>
  <2>1. SizesIn(k) # <<>>
    <3>1. PICK recv \in Receives : recv = ops[k].recv
      BY <1>5, <1>7, OpFields
    <3>2. PICK n \in Nat : n = Len(recv) /\ 1 \in 1 .. n
      BY RecvFields
    <3>3. Len(SizesIn(k)) = n
      BY <3>1, <3>2 DEF SizesIn
    <3> QED
      BY <3>2, <3>3
  <2>2. ops[k].state = "flushing" => ops[k].sizes # <<>>
    BY <1>6, <1>7
  <2> QED
    BY <1>3, <2>1, <2>2
<1>9. ASSUME NEW j \in 1 .. fifoTail
      PROVE  /\ ops'[j].state = "posted" <=> ops'[j].sizes = <<>>
             /\ ops'[j].state = "posted" => ops[j].state = "posted"
  <2>1. CASE j = k
    <3>1. ops'[k].state = st /\ ops'[k].sizes = z /\ st # "posted"
      BY <1>3 DEF Learnt
    <3> QED
      BY <1>8, <2>1, <3>1
  <2>2. CASE j # k
    <3>1. ops'[j] = ops[j]
      BY <1>3, <2>2 DEF Learnt
    <3> QED
      BY <1>6, <3>1
  <2> QED
    BY <2>1, <2>2
<1> QED
  BY <1>1, <1>4, <1>9, StillReport

LEMMA IflushReport ==
    ASSUME RecvInv, RecvInv', ReportInv, NEW k \in DOMAIN ops, Iflush(k)
    PROVE  ReportInv'
<1>1. /\ SameSender /\ SameSent /\ QueuesGrow /\ fifoTail' = fifoTail /\ sizesFifo' = sizesFifo
      /\ \A c \in rcq' : c \in rcq \/ c.opcode = "RDMA_READ"
      /\ rcq \subseteq rcq'
      /\ ops[k].state = "done"
  BY IflushCalm
<1>2. PICK st \in {"flushing", "retired"} : Learnt(k, st, ops[k].sizes)
  BY IflushCalm
<1>3. \A c : c.opcode = "RECV_RDMA_WITH_IMM" => (c \in rcq' <=> c \in rcq)
  BY <1>1
<1>4. Consumed' = Consumed
  BY <1>1 DEF SameSender, Consumed
<1>5. DOMAIN ops = 1 .. fifoTail
  BY OpsKnown
<1>6. \A j \in 1 .. fifoTail : ops[j].state = "posted" <=> ops[j].sizes = <<>>
  BY <1>5 DEF ReportInv, SizesOk
<1>7. ASSUME NEW j \in 1 .. fifoTail
      PROVE  /\ ops'[j].state = "posted" <=> ops'[j].sizes = <<>>
             /\ ops'[j].state = "posted" => ops[j].state = "posted"
  <2>1. CASE j = k
    <3>1. ops'[k].state = st /\ ops'[k].sizes = ops[k].sizes /\ st # "posted"
      BY <1>2 DEF Learnt
    <3>2. ops[k].sizes # <<>>
      BY <1>1, <1>5, <1>6
    <3> QED
      BY <2>1, <3>1, <3>2
  <2>2. CASE j # k
    <3>1. ops'[j] = ops[j]
      BY <1>2, <2>2 DEF Learnt
    <3> QED
      BY <1>6, <3>1
  <2> QED
    BY <2>1, <2>2
<1> QED
  BY <1>1, <1>3, <1>4, <1>7, StillReport

LEMMA IrecvReport ==
    ASSUME RecvInv, RecvInv', SendInv, ReportInv, NEW recv \in Receives, Irecv(recv)
    PROVE  ReportInv'
<1>1. /\ SameSender /\ SameSent /\ QueuesGrow /\ fifoTail' = fifoTail + 1 /\ fifoTail \in Nat
      /\ \A j \in 1 .. fifoTail : ops'[j] = ops[j]
      /\ ops'[fifoTail + 1] = NewOp(recv)
      /\ \A q \in QpsOf(fifoTail + 1) : \E i \in 1 .. Len(recvQueue'[q]) : QueuedOp(q, i)' = fifoTail + 1
  BY IrecvCalm, OpsKnown
<1>2. PICK id \in ReqIds, t \in Nat, x \in Nat, dv \in Devs,
              ev \in [Devs -> Int], N \in SUBSET RecvCqe : Posting(recv, id, t, x, dv, ev, N)
  BY IrecvPosts
<1>3. /\ t = fifoTail /\ \A k \in 1 .. t : k + Window <= t + 1 => ops[k].state = "retired"
      /\ rcq' = rcq \cup N /\ \A c \in N : c.opcode = "RDMA_WRITE"
  BY <1>2 DEF Posting
<1>4. \A c : c.opcode = "RECV_RDMA_WITH_IMM" => (c \in rcq' <=> c \in rcq)
  BY <1>3
<1>5. /\ DOMAIN ops = 1 .. t /\ TypeOK' /\ InStep' /\ Consumed \in Nat /\ TypeOK /\ Consumed <= t
  BY <1>3, OpsKnown DEF RecvInv
<1>6. DOMAIN ops' = 1 .. t + 1
  <2>1. ops' \in Seq(Op) /\ fifoTail' = Len(ops')
    BY <1>5 DEF TypeOK, InStep
  <2> QED
    BY <1>1, <1>3, <2>1
<1>7. ASSUME NEW s \in Slots, s # FifoSlot(t) PROVE sizesFifo'[s] = sizesFifo[s]
  <2>1. PICK z : sizesFifo' = [sizesFifo EXCEPT ![FifoSlot(t)] = z]
    BY <1>3 DEF Irecv
  <2> QED
    BY <1>5, <1>7, <2>1 DEF TypeOK
<1>8. ASSUME NEW k \in 1 .. t PROVE SizesOk(k)'
  <2>1. Delivered(k)' = Delivered(k)
    BY <1>1, <1>3, <1>5, CalmDelivered
  <2>2. Counted(k)' = Counted(k)
    BY <1>4, <2>1, CountedFrame
  <2>3. SizesOk(k)
    BY <1>5 DEF ReportInv
  <2>4. ops'[k] = ops[k]
    BY <1>1, <1>3
  <2>5. ops[k].state = "posted" => sizesFifo'[FifoSlot(k - 1)] = sizesFifo[FifoSlot(k - 1)]
    <3> SUFFICES ASSUME ops[k].state = "posted" PROVE sizesFifo'[FifoSlot(k - 1)] = sizesFifo[FifoSlot(k - 1)]
      OBVIOUS
    <3>1. ~(k + Window <= t + 1)
      BY <1>3
    <3>2. PICK M \in Nat \ {0}, W \in Nat \ {0} : M = MaxRequests /\ W = Window /\ W < M
      BY Limits
    <3>3. PICK a \in Nat, b \in Nat : a = k - 1 /\ b = t
      OBVIOUS
    <3>4. a <= b /\ b - a < M /\ a # b
      BY <3>1, <3>2, <3>3
    <3>5. a % M # b % M
      <4>1. PICK e \in Int, f \in Int : e = a /\ f = b
        OBVIOUS
      <4>2. e <= f /\ f - e < M /\ e # f
        BY <3>4, <4>1
      <4>3. e % M # f % M
        BY <4>2, ModInjective
      <4> QED
        BY <4>1, <4>3
    <3>6. FifoSlot(k - 1) # FifoSlot(t)
      BY <3>2, <3>3, <3>5 DEF FifoSlot
    <3>7. FifoSlot(k - 1) \in Slots
      BY <3>3, SlotOfTail
    <3> QED
      BY <1>7, <3>6, <3>7
  <2>6. ops[k].state = "posted" <=> ops[k].sizes = <<>>
    BY <2>3 DEF SizesOk
  <2> QED
    BY <2>1, <2>2, <2>3, <2>4, <2>5, <2>6, SizesFrame
<1>9. SizesOk(t + 1)'
  <2>1. Delivered(t + 1)' = {}
    BY <1>1, <1>3 DEF Delivered, QpsOf
  <2>2. Counted(t + 1)' = {}
    BY <2>1 DEF Counted
  <2>3. ops'[t + 1].state = "posted" /\ ops'[t + 1].sizes = <<>>
    BY <1>1, <1>3, NewOpType
  <2> QED
    BY <2>1, <2>2, <2>3 DEF SizesOk
<1>10. ASSUME NEW c \in rcq' PROVE ImmOk(c)'
  <2>1. CASE c.opcode = "RECV_RDMA_WITH_IMM"
    <3>1. c \in rcq /\ c \in RecvCqe /\ ImmOk(c)
      BY <1>4, <1>5, <2>1 DEF ReportInv, TypeOK
    <3>2. \A j \in 1 .. Consumed : ops'[j].recv = ops[j].recv /\ ops'[j].sent = ops[j].sent
      BY <1>1, <1>3, <1>5
    <3>3. Consumed' \in Nat /\ Consumed' >= Consumed
      BY <1>1, <1>5 DEF SameSender, Consumed
    <3> QED
      BY <3>1, <3>2, <3>3, ImmFrame
  <2>2. CASE c.opcode # "RECV_RDMA_WITH_IMM"
    BY <2>2 DEF ImmOk
  <2> QED
    BY <2>1, <2>2
<1>11. \A k \in 1 .. t + 1 : k \in 1 .. t \/ k = t + 1
  OBVIOUS
<1> QED
  BY <1>6, <1>8, <1>9, <1>10, <1>11 DEF ReportInv

LEMMA IsendReport ==
    ASSUME RecvInv, RecvInv', SendInv, ReportInv, NEW tag \in Tags, NEW size \in SendSizes, Isend(tag, size)
    PROVE  ReportInv'
<1>1. PICK k \in Nat \ {0}, n \in Nat \ {0}, r \in Recvs, id \in ReqIds, len \in Nat, x \in Nat :
         Matching(tag, size, k, n, r, id, len, x)
  BY IsendMatches
<1>2. /\ ops' \in Seq(Op) /\ Len(ops') = Len(ops) /\ ops'[k].state = ops[k].state /\ ops'[k].sizes = ops[k].sizes
  BY <1>1, IsendOps
<1>3. SendMatched(k, n, r, id, len, x)
  BY <1>1, IsendMatched
<1>4. /\ fifoTail \in Nat /\ DOMAIN ops = 1 .. fifoTail /\ fifoTail = Len(ops) /\ Consumed \in Nat /\ Consumed' \in Nat /\ TypeOK
      /\ Consumed <= fifoTail
  <2>1. TypeOK'
    BY DEF RecvInv
  <2>2. fifoHead' \in Nat
    BY <2>1 DEF TypeOK
  <2>3. PICK h \in Nat : h = fifoHead'
    BY <2>2
  <2>4. Consumed' = h \/ Consumed' = h + 1
    BY <2>3, Zenon DEF Consumed
  <2>5. Consumed' \in Nat
    BY <2>4
  <2> QED
    BY <2>5, OpsKnown
<1>5. DOMAIN ops' = 1 .. fifoTail
  BY <1>2, <1>4
<1>6. \A j : Delivered(j)' = Delivered(j)
  BY <1>3 DEF Delivered, QpsOf, QueuedOp, SendMatched
<1>7. sizesFifo' = sizesFifo /\ rcq' = rcq
  BY Zenon DEF Isend, rvars
<1>8. \A j : Counted(j)' = Counted(j)
  BY <1>6, <1>7 DEF Counted
<1>9. ASSUME NEW j \in 1 .. fifoTail PROVE SizesOk(j)'
  <2>1. SizesOk(j)
    BY <1>4 DEF ReportInv
  <2>2. CASE j # k
    <3>1. ops'[j] = ops[j]
      BY <1>3, <2>2 DEF SendMatched
    <3>2. ops[j].state = "posted" <=> ops[j].sizes = <<>>
      BY <2>1 DEF SizesOk
    <3> QED
      BY <1>6, <1>7, <1>8, <2>1, <3>1, <3>2, SizesFrame
  <2>3. CASE j = k
    <3>1. k \in Consumed + 1 .. fifoTail
      BY <1>3, <1>4 DEF SendMatched
    <3>2. Delivered(k)' = {}
      BY <1>6, <3>1, NoneDelivered
    <3>3. Counted(k)' = {}
      BY <3>2 DEF Counted
    <3>4. ops'[k].state = "posted" <=> ops'[k].sizes = <<>>
      BY <1>2, <2>1, <2>3 DEF SizesOk
    <3> QED
      BY <2>3, <3>2, <3>3, <3>4 DEF SizesOk
  <2> QED
    BY <2>2, <2>3
<1>10. ASSUME NEW c \in rcq' PROVE ImmOk(c)'
  <2>1. c \in rcq /\ c \in RecvCqe /\ ImmOk(c)
    BY <1>4, <1>7 DEF ReportInv, TypeOK
  <2>2. Consumed = k - 1
    BY <1>3 DEF SendMatched
  <2>3. ASSUME NEW j \in 1 .. Consumed PROVE ops'[j] = ops[j]
    <3>1. j \in 1 .. fifoTail /\ j # k
      BY <1>4, <2>2
    <3> QED
      BY <1>3, <3>1, Zenon DEF SendMatched
  <2>4. Consumed' >= Consumed
    <3>1. fifoHead' = fifoHead /\ ~multiSent /\ fifoHead \in Nat
      BY <1>3, <1>4 DEF SendMatched, TypeOK
    <3> QED
      BY <3>1 DEF Consumed
  <2> QED
    BY <1>4, <2>1, <2>3, <2>4, ImmFrame
<1> QED
  BY <1>5, <1>9, <1>10 DEF ReportInv

\* A completion with immediate data is of the receive that its request serves.
LEMMA RecvTestPollReport ==
    ASSUME RecvInv, RecvInv', ReportInv, NEW cqe \in rcq, RecvTestPoll(cqe)
    PROVE  ReportInv'
<1>1. /\ SameSender /\ SameSent /\ QueuesGrow /\ fifoTail' = fifoTail
  BY RecvTestPollCalm
<1>2. /\ rcq' = rcq \ {cqe} /\ ops' = ops /\ DOMAIN ops = 1 .. fifoTail /\ fifoTail \in Nat
      /\ TypeOK /\ TypeOK' /\ Consumed \in Nat /\ Consumed' = Consumed /\ Consumed <= fifoTail
  BY <1>1, OpsKnown DEF RecvTestPoll, SameSender, Consumed, RecvInv
<1>3. PICK req \in Req : req = rreqs[cqe.wr_id]
  BY <1>2, CqeFields, RecvTypes DEF TypeOK
<1>4. sizesFifo' = IF ImmIsSize(cqe, req) THEN [sizesFifo EXCEPT ![req.arg][1] = cqe.imm] ELSE sizesFifo
  BY <1>3 DEF RecvTestPoll
<1>5. sizesFifo \in [Slots -> [Recvs -> Nat]] /\ 1 \in Recvs
  BY <1>2, Limits DEF TypeOK
<1>6. cqe.opcode = "RECV_RDMA_WITH_IMM" =>
        /\ req.op = cqe.op /\ cqe.op \in 1 .. fifoTail /\ ops[cqe.op].state = "posted"
        /\ req.nreqs = Len(ops[cqe.op].recv) /\ req.arg = FifoSlot(cqe.op - 1) /\ req.arg \in Slots
  <2> SUFFICES ASSUME cqe.opcode = "RECV_RDMA_WITH_IMM"
               PROVE  /\ req.op = cqe.op /\ cqe.op \in 1 .. fifoTail /\ ops[cqe.op].state = "posted"
                      /\ req.nreqs = Len(ops[cqe.op].recv) /\ req.arg = FifoSlot(cqe.op - 1) /\ req.arg \in Slots
    OBVIOUS
  <2>1. req.type = "RECV" /\ req.op = cqe.op
    BY <1>3 DEF RecvInv, RecvCqeOk
  <2>2. PICK id \in ReqIds : id = cqe.wr_id
    BY <1>2, CqeFields DEF TypeOK
  <2>3. rreqs[id] = req /\ rreqs[id].type = "RECV"
    BY <1>3, <2>1, <2>2
  <2>4. /\ rreqs[id].op \in 1 .. fifoTail /\ ops[rreqs[id].op].state = "posted"
        /\ rreqs[id].nreqs = Len(ops[rreqs[id].op].recv)
        /\ rreqs[id].arg = FifoSlot(rreqs[id].op - 1) /\ rreqs[id].arg \in Slots
    BY <2>3, ReqKnown
  <2> QED
    BY <2>1, <2>3, <2>4
<1>7. ImmOk(cqe)
  BY DEF ReportInv
<1>8. ASSUME NEW k \in 1 .. fifoTail PROVE SizesOk(k)'
  <2>1. Delivered(k)' = Delivered(k)
    BY <1>1, <1>2, CalmDelivered
  <2>2. SizesOk(k) /\ (ops[k].state = "posted" <=> ops[k].sizes = <<>>)
    BY <1>2 DEF ReportInv, SizesOk
  <2>3. CASE cqe.opcode = "RECV_RDMA_WITH_IMM" /\ cqe.op = k
    <3>1. ops[k].state = "posted" /\ req.nreqs = Len(ops[k].recv) /\ req.arg = FifoSlot(k - 1) /\ req.arg \in Slots
      BY <1>6, <2>3
    <3>2. CASE Len(ops[k].recv) = 1
      <4>1. ImmIsSize(cqe, req)
        BY <2>3, <3>1, <3>2 DEF ImmIsSize
      <4>2. sizesFifo'[FifoSlot(k - 1)][1] = cqe.imm
        BY <1>4, <1>5, <3>1, <4>1
      <4>3. cqe.imm = ops[k].sent[1]
        BY <1>7, <2>3, <3>2 DEF ImmOk
      <4>4. \A r \in 1 .. 1 : r = 1
        OBVIOUS
      <4>5. FifoSlot(k - 1)' = FifoSlot(k - 1)
        BY DEF FifoSlot
      <4>6. \A r \in 1 .. Len(ops[k].recv) : sizesFifo'[FifoSlot(k - 1)][r] = ops[k].sent[r]
        BY <3>2, <4>2, <4>3, <4>4
      <4> QED
        BY <1>2, <2>2, <4>5, <4>6 DEF SizesOk
    <3>3. CASE Len(ops[k].recv) # 1
      <4>1. sizesFifo' = sizesFifo
        BY <1>4, <3>1, <3>3 DEF ImmIsSize
      <4>2. FifoSlot(k - 1)' = FifoSlot(k - 1)
        BY DEF FifoSlot
      <4>3. Delivered(k) # {} => \A r \in 1 .. Len(ops[k].recv) : sizesFifo[FifoSlot(k - 1)][r] = ops[k].sent[r]
        BY <2>2, <3>1, <3>3 DEF SizesOk
      <4> QED
        BY <1>2, <2>1, <2>2, <3>3, <4>1, <4>2, <4>3 DEF SizesOk
    <3> QED
      BY <3>2, <3>3
  <2>4. CASE ~(cqe.opcode = "RECV_RDMA_WITH_IMM" /\ cqe.op = k)
    <3>1. \A c : c.opcode = "RECV_RDMA_WITH_IMM" /\ c.op = k => (c \in rcq' <=> c \in rcq)
      BY <1>2, <2>4
    <3>2. Counted(k)' = Counted(k)
      BY <2>1, <3>1, CountedFrame
    <3>3. ASSUME ops[k].state = "posted" PROVE sizesFifo'[FifoSlot(k - 1)] = sizesFifo[FifoSlot(k - 1)]
      <4>1. CASE ~ImmIsSize(cqe, req)
        BY <1>4, <4>1
      <4>2. CASE ImmIsSize(cqe, req)
        <5>1. cqe.opcode = "RECV_RDMA_WITH_IMM" /\ cqe.op # k
          BY <2>4, <4>2 DEF ImmIsSize
        <5>2. PICK j \in 1 .. fifoTail : j = cqe.op /\ ops[j].state = "posted" /\ req.arg = FifoSlot(j - 1)
          BY <1>6, <5>1
        <5>3. FifoSlot(k - 1) # req.arg
          BY <3>3, <5>1, <5>2, SlotsApart
        <5>4. FifoSlot(k - 1) \in Slots
          BY <1>2, SlotOfTail
        <5>5. PICK z : sizesFifo' = [sizesFifo EXCEPT ![req.arg] = z]
          BY <1>4, <4>2
        <5> QED
          BY <1>5, <5>3, <5>4, <5>5
      <4> QED
        BY <4>1, <4>2
    <3> QED
      BY <1>2, <2>1, <2>2, <3>2, <3>3, SizesFrame
  <2> QED
    BY <2>3, <2>4
<1>9. ASSUME NEW c \in rcq' PROVE ImmOk(c)'
  <2>1. c \in rcq /\ c \in RecvCqe /\ ImmOk(c)
    BY <1>2 DEF ReportInv, TypeOK
  <2>2. Consumed' \in Nat /\ Consumed' >= Consumed
    BY <1>2
  <2> QED
    BY <1>2, <2>1, <2>2, ImmFrame
<1> QED
  BY <1>2, <1>8, <1>9 DEF ReportInv

LEMMA DeliverReport ==
    ASSUME RecvInv, RecvInv', SendInv, ReportInv, NEW q \in Qps, Deliver(q)
    PROVE  ReportInv'
<1>1. PICK m \in Msg, w \in ReqIds, k \in Nat, c \in RecvCqe :
              m = Head(dataWire[q]) /\ Delivering(q, m, w, k, c)
  BY DeliverNamed
<1>2. /\ fifoTail \in Nat /\ DOMAIN ops = 1 .. fifoTail /\ fifoTail = Len(ops) /\ rreqs' = rreqs
      /\ Consumed \in Nat /\ Consumed' = Consumed /\ Consumed <= fifoTail /\ TypeOK
  BY OpsKnown DEF Deliver, svars, Consumed
<1>3. /\ k \in 1 .. fifoTail /\ 1 \in 1 .. Len(dataWire[q]) /\ m = dataWire[q][1] /\ k = QueuedOp(q, 1)
      /\ q \in QpsOf(k) /\ k \in 1 .. Consumed /\ 1 \in 1 .. Len(recvQueue[q]) /\ rreqs[w].type = "RECV"
      /\ rreqs[w].op = k
  BY <1>1, <1>2 DEF Delivering
<1>4. /\ c.qp = q /\ c.opcode = "RECV_RDMA_WITH_IMM" /\ c.op = k /\ c.imm = m.imm /\ rcq' = rcq \cup {c}
  BY <1>1 DEF Delivering
<1>5. ops' \in Seq(Op) /\ Len(ops') = Len(ops)
  BY <1>1, DeliverOps
<1>6. DOMAIN ops' = 1 .. fifoTail
  BY <1>2, <1>5
<1>7. MsgFits(m, q, k)
  BY <1>3 DEF SendInv, MsgOk
<1>8. ops[k].state = "posted"
  BY <1>3, ReqKnown
<1>9. PICK n \in Nat \ {0} : n = Len(ops[k].recv)
  <2>1. PICK recv \in Receives : recv = ops[k].recv
    BY <1>3, OpsKnown, OpFields
  <2>2. PICK n \in Nat : n = Len(recv) /\ 1 \in 1 .. n
    BY RecvFields
  <2>3. n \in Nat \ {0}
    BY <2>2
  <2> QED
    BY <2>1, <2>2, <2>3
<1>10. m.sizes = ops[k].sent /\ m.slot = FifoSlot(k - 1) /\ m.imm = (IF n = 1 THEN ops[k].sent[1] ELSE 0)
       /\ Len(m.sizes) = n /\ m.sizes \in Seq(Nat)
  BY <1>7, <1>9, MsgFields DEF MsgFits
<1>11. \A j \in 1 .. fifoTail : /\ ops'[j].recv = ops[j].recv /\ ops'[j].state = ops[j].state
                                /\ ops'[j].sent = ops[j].sent /\ ops'[j].sizes = ops[j].sizes
  BY <1>1, <1>2, DeliverOps
<1>12. sizesFifo \in [Slots -> [Recvs -> Nat]]
  BY <1>2 DEF TypeOK
<1>13. ASSUME NEW j \in 1 .. fifoTail PROVE SizesOk(j)'
  <2>1. SizesOk(j) /\ (ops[j].state = "posted" <=> ops[j].sizes = <<>>) /\ j \in Nat \ {0}
    BY <1>2 DEF ReportInv, SizesOk
  <2>2. FifoSlot(j - 1)' = FifoSlot(j - 1) /\ FifoSlot(j - 1) \in Slots
    BY <2>1, SlotOfTail DEF FifoSlot
  <2>3. CASE j # k
    <3>1. Delivered(j)' = Delivered(j)
      BY <1>1, <1>2, <2>1, <2>3, DeliverDelivered
    <3>2. Counted(j)' = Counted(j)
      <4>1. \A e : e.opcode = "RECV_RDMA_WITH_IMM" /\ e.op = j => (e \in rcq' <=> e \in rcq)
        BY <1>4, <2>3
      <4> QED
        BY <3>1, <4>1, CountedFrame
    <3>3. ASSUME ops[j].state = "posted" PROVE sizesFifo'[FifoSlot(j - 1)] = sizesFifo[FifoSlot(j - 1)]
      <4>1. FifoSlot(j - 1) # m.slot
        BY <1>3, <1>8, <1>10, <2>3, <3>3, SlotsApart
      <4>2. sizesFifo' = sizesFifo \/ \E z : sizesFifo' = [sizesFifo EXCEPT ![m.slot] = z]
        BY <1>1 DEF Deliver
      <4> QED
        BY <1>12, <2>2, <4>1, <4>2
    <3> QED
      BY <1>11, <2>1, <3>1, <3>2, <3>3, SizesFrame
  <2>4. CASE j = k
    <3>1. CASE n = 1
      <4>1. sizesFifo' = sizesFifo
        BY <1>1, <1>10, <3>1 DEF Deliver
      <4>2. Delivered(k)' = Delivered(k) \cup {q}
        BY <1>1, <1>2, <1>3, <2>1, <2>4, DeliverDelivered
      <4>3. q \notin Delivered(k)
        BY <1>3 DEF Delivered
      <4>4. Counted(k)' \subseteq Counted(k)
        BY <1>4, <4>2 DEF Counted
      <4>5. Counted(k) # {} => \A r \in 1 .. n : sizesFifo[FifoSlot(k - 1)][r] = ops[k].sent[r]
        BY <1>8, <1>9, <2>1, <2>4, <3>1 DEF SizesOk
      <4> QED
        <5>1. ops'[k].recv = ops[k].recv /\ ops'[k].state = ops[k].state /\ ops'[k].sent = ops[k].sent /\ ops'[k].sizes = ops[k].sizes
          BY <1>11, <2>4
        <5>2. FifoSlot(k - 1)' = FifoSlot(k - 1) /\ (ops[k].state = "posted" <=> ops[k].sizes = <<>>)
          BY <2>1, <2>2, <2>4
        <5>3. Counted(k)' # {} => \A r \in 1 .. n : sizesFifo'[FifoSlot(k - 1)'][r] = ops'[k].sent[r]
          BY <4>1, <4>4, <4>5, <5>1, <5>2
        <5> QED
          <6>1. SizesOk(k)'
            BY <1>9, <3>1, <5>1, <5>2, <5>3, Zenon DEF SizesOk
          <6> QED
            BY <2>4, <6>1
    <3>2. CASE n # 1
      <4>1. sizesFifo' = [sizesFifo EXCEPT ![m.slot] =
                             [r \in Recvs |-> IF r \in DOMAIN m.sizes THEN m.sizes[r] ELSE sizesFifo[m.slot][r]]]
        BY <1>1, <1>10, <3>2 DEF Deliver
      <4>2. sizesFifo'[FifoSlot(k - 1)] = [r \in Recvs |-> IF r \in DOMAIN m.sizes THEN m.sizes[r] ELSE sizesFifo[m.slot][r]]
        BY <1>10, <1>12, <2>2, <2>4, <4>1
      <4>3. \A r \in 1 .. n : r \in Recvs
        BY <1>3, <1>9, OpsKnown, OpFields, RecvFields
      <4>4. DOMAIN m.sizes = 1 .. n
        BY <1>10
      <4>5. \A r \in 1 .. n : sizesFifo'[FifoSlot(k - 1)][r] = ops[k].sent[r]
        BY <1>10, <4>2, <4>3, <4>4
      <4> QED
        BY <1>9, <1>11, <2>1, <2>2, <2>4, <4>5 DEF SizesOk
    <3> QED
      BY <3>1, <3>2
  <2> QED
    BY <2>3, <2>4
<1>14. ASSUME NEW e \in rcq' PROVE ImmOk(e)'
  <2>1. CASE e \in rcq
    <3>1. e \in RecvCqe /\ ImmOk(e)
      BY <1>2, <2>1 DEF ReportInv, TypeOK
    <3>2. Consumed' \in Nat /\ Consumed' >= Consumed /\ \A j \in 1 .. Consumed : j \in 1 .. fifoTail
      BY <1>2
    <3> QED
      BY <1>11, <3>1, <3>2, ImmFrame
  <2>2. CASE e = c
    <3>1. k \in 1 .. Consumed' /\ q \in QpsOf(k)'
      BY <1>2, <1>3 DEF QpsOf
    <3>2. Len(ops'[k].recv) = 1 => c.imm = ops'[k].sent[1]
      BY <1>3, <1>4, <1>9, <1>10, <1>11
    <3> QED
      BY <1>4, <2>2, <3>1, <3>2 DEF ImmOk
  <2> QED
    BY <1>4, <2>1, <2>2
<1> QED
  BY <1>6, <1>13, <1>14 DEF ReportInv

LEMMA ReportNext == RecvInv /\ SendInv /\ ReportInv /\ [Next]_vars => ReportInv'
<1> SUFFICES ASSUME RecvInv, SendInv, ReportInv, [Next]_vars PROVE ReportInv'
  OBVIOUS
<1>0. RecvInv'
  BY RecvNext
<1>1. ASSUME NEW recv \in Receives, Irecv(recv) PROVE ReportInv'
  BY <1>0, <1>1, IrecvReport
<1>2. CASE FlushAny
  BY <1>0, <1>2, IflushReport DEF FlushAny
<1>3. CASE RecvTest
  BY <1>0, <1>3, RecvTestPollReport, RecvTestDoneReport DEF RecvTest
<1>4. CASE SendAny
  BY <1>0, <1>4, IsendReport DEF SendAny
<1>5. ASSUME NEW q \in Qps, Deliver(q) PROVE ReportInv'
  BY <1>0, <1>5, DeliverReport
<1>6. ASSUME rreqs' = rreqs, fifoTail' = fifoTail, ops' = ops, recvQueue' = recvQueue, sizesFifo' = sizesFifo,
             rcq' = rcq, Consumed' = Consumed
      PROVE  ReportInv'
  <2>1. SameSent
    BY <1>6, OpsKnown DEF SameSent
  <2>2. QueuesGrow
    BY <1>6, QueuesStay
  <2>3. \A k \in 1 .. fifoTail : ops[k].state = "posted" <=> ops[k].sizes = <<>>
    BY OpsKnown DEF ReportInv, SizesOk
  <2> QED
    BY <1>0, <1>6, <2>1, <2>2, <2>3, StillReport
<1>7. CASE IsendReturn
  <2>1. Consumed' = Consumed
    BY <1>7 DEF IsendReturn, Consumed
  <2> QED
    BY <1>6, <1>7, <2>1 DEF IsendReturn, rvars, fabric
<1>8. CASE SendTest
  <2>1. Consumed' = Consumed
    BY <1>8 DEF SendTest, SendTestPoll, SendTestDone, Consumed
  <2> QED
    BY <1>6, <1>8, <2>1 DEF SendTest, SendTestPoll, SendTestDone, rvars, fabric
<1>9. CASE LandAny
  <2>1. Consumed' = Consumed
    BY <1>9 DEF LandAny, LandCts, Consumed
  <2> QED
    BY <1>6, <1>9, <2>1 DEF LandAny, LandCts, rvars
<1>10. CASE UNCHANGED vars
  <2>1. Consumed' = Consumed
    BY <1>10 DEF vars, svars, Consumed
  <2> QED
    BY <1>6, <1>10, <2>1 DEF vars, rvars, fabric
<1> QED
  BY <1>1, <1>2, <1>3, <1>4, <1>5, <1>7, <1>8, <1>9, <1>10 DEF Next

----------------------------------------------------------------------------
(* The connection as a tagged channel. *)

\* What ncclIbTest copies out of the slot when the last completion is counted.
LEMMA ReportsSent ==
    ASSUME RecvInv, SendInv, ReportInv, NEW id \in ReqIds, rreqs[id].type = "RECV",
           rreqs[id].events = NoEvents, NEW k \in Nat \ {0}, k = rreqs[id].op
    PROVE  SizesIn(k) = ops[k].sent
<1>1. TypeOK /\ k \in 1 .. fifoTail /\ ops[k].state = "posted" /\ ops[k] \in Op /\ DOMAIN ops = 1 .. fifoTail
  BY ReqKnown, OpsKnown
<1>2. \A j \in ReqIds : rreqs[j].type # "UNUSED" /\ rreqs[j].op = k => j = id
  BY ReqKnown
<1>3. ASSUME NEW q \in Qps, NEW i \in 1 .. Len(recvQueue[q]) PROVE QueuedOp(q, i) # k
  <2>1. recvQueue[q][i] \in ReqIds
    BY <1>1, RecvTypes
  <2>2. rreqs[recvQueue[q][i]].type = "RECV"
    BY DEF RecvInv, QpOk
  <2>3. recvQueue[q][i] # id
    BY NothingLeft
  <2> QED
    BY <1>2, <2>1, <2>2, <2>3 DEF QueuedOp
<1>4. QpsOf(k) \subseteq Qps
  BY QpsOfReceive
<1>5. Delivered(k) = QpsOf(k)
  BY <1>3, <1>4 DEF Delivered
<1>6. ASSUME NEW c \in rcq, c.opcode = "RECV_RDMA_WITH_IMM" PROVE c.op # k
  <2>1. c.wr_id \in ReqIds /\ c.wr_id # id
    BY <1>1, CqeFields, NothingLeft DEF TypeOK
  <2>2. rreqs[c.wr_id].type = "RECV" /\ rreqs[c.wr_id].op = c.op
    BY <1>6 DEF RecvInv, RecvCqeOk
  <2> QED
    BY <1>2, <2>1, <2>2
<1>7. Counted(k) = Delivered(k)
  BY <1>6 DEF Counted
<1>8. QpsOf(k) # {}
  <2>1. PICK x \in Nat : x = StartQp(k) /\ QpsOf(k) = QpsFrom(x)
    BY QpsOfReceive DEF QpsOf
  <2>2. 0 \in 0 .. NqpsUsed - 1
    BY QpCounts
  <2> QED
    BY <2>1, <2>2, IndexOfQp
<1>9. \A r \in 1 .. Len(ops[k].recv) : sizesFifo[FifoSlot(k - 1)][r] = ops[k].sent[r]
  BY <1>1, <1>5, <1>7, <1>8 DEF ReportInv, SizesOk
<1>10. ops[k].sent \in Seq(Int) /\ Len(ops[k].sent) = Len(ops[k].recv)
  BY <1>1, OpFields DEF SendInv, SentOk
<1>11. PICK s \in Seq(Int) : s = ops[k].sent /\ Len(s) = Len(ops[k].recv)
  BY <1>10
<1>12. PICK n \in Nat : n = Len(s) /\ s = [r \in 1 .. n |-> s[r]]
  OBVIOUS
<1>13. n = Len(ops[k].recv) /\ \A r \in 1 .. n : sizesFifo[FifoSlot(k - 1)][r] = s[r]
  BY <1>9, <1>11, <1>12
<1> QED
  BY <1>11, <1>12, <1>13 DEF SizesIn

\* A receive the sender has passed is full.
LEMMA PassedFull ==
    ASSUME RecvInv, SendInv, NEW k \in 1 .. fifoTail
    PROVE  /\ ChannelPosted[k] = ops[k].recv /\ ChannelFilled[k] = ops[k].sent /\ ChannelReported[k] = ops[k].sizes
           /\ DOMAIN ops[k].sent = 1 .. Len(ops[k].recv) /\ DOMAIN ops[k].recv = 1 .. Len(ops[k].recv)
           /\ k <= Consumed => Channel!IsFull(k)
<1>1. k \in DOMAIN ops /\ ops[k] \in Op /\ SentOk(k)
  BY OpsKnown DEF SendInv
<1>2. ChannelPosted[k] = ops[k].recv /\ ChannelFilled[k] = ops[k].sent /\ ChannelReported[k] = ops[k].sizes
  BY <1>1 DEF ChannelPosted, ChannelFilled, ChannelReported
<1>3. ops[k].sent \in Seq(Int) /\ Len(ops[k].sent) = Len(ops[k].recv) /\ ops[k].recv \in Receives
  BY <1>1, OpFields DEF SentOk
<1>4. DOMAIN ops[k].sent = 1 .. Len(ops[k].recv)
  BY <1>3
<1>5. DOMAIN ops[k].recv = 1 .. Len(ops[k].recv)
  BY <1>3, RecvFields
<1>6. k <= Consumed => Channel!IsFull(k)
  BY <1>1, <1>2, <1>4 DEF Channel!IsFull, Channel!Free, NotSent, SentOk
<1> QED
  BY <1>2, <1>4, <1>5, <1>6

\* A step that changes no history the channel knows of.
LEMMA ChannelStutter ==
    ASSUME RecvInv, DOMAIN ops' = DOMAIN ops,
           \A k \in 1 .. fifoTail : /\ ops'[k].recv = ops[k].recv /\ ops'[k].sent = ops[k].sent
                                    /\ ops'[k].sizes = ops[k].sizes
    PROVE  UNCHANGED Channel!vars
<1>1. DOMAIN ops = 1 .. fifoTail
  BY OpsKnown
<1>2. ChannelPosted' = ChannelPosted /\ ChannelFilled' = ChannelFilled /\ ChannelReported' = ChannelReported
  BY <1>1 DEF ChannelPosted, ChannelFilled, ChannelReported
<1> QED
  BY <1>2 DEF Channel!vars

\* Appending to a function on 1 .. t.
LEMMA AppendFun ==
    ASSUME NEW S, NEW t \in Nat, NEW f \in [1 .. t -> S], NEW v \in S
    PROVE  Append(f, v) = [k \in 1 .. t + 1 |-> IF k = t + 1 THEN v ELSE f[k]] /\ Len(f) = t
<1>1. f \in Seq(S) /\ Len(f) = t
  OBVIOUS
<1>2. Append(f, v) \in Seq(S) /\ Len(Append(f, v)) = t + 1
  BY <1>1, AppendProperties
<1>3. PICK a : a = Append(f, v)
  OBVIOUS
<1>4. \A k \in 1 .. t + 1 : a[k] = IF k = t + 1 THEN v ELSE f[k]
  BY <1>1, <1>3, AppendProperties
<1>5. a \in Seq(S) /\ Len(a) = t + 1
  BY <1>2, <1>3
<1>6. a = [k \in 1 .. t + 1 |-> a[k]]
  BY <1>5
<1> QED
  BY <1>1, <1>3, <1>4, <1>6

LEMMA IrecvChannel ==
    ASSUME RecvInv, SendInv, NEW recv \in Receives, Irecv(recv)
    PROVE  Channel!Next
<1>1. PICK t \in Nat : /\ t = fifoTail /\ fifoTail' = t + 1 /\ DOMAIN ops = 1 .. t /\ t < MaxOps
                       /\ ops \in Seq(Op) /\ ops' = Append(ops, NewOp(recv))
  BY OpsKnown DEF Irecv, RecvWindowOpen, TypeOK, NewOp
<1>2. PICK o \in Op : o = NewOp(recv)
  BY NewOpType
<1>3. o.recv = recv /\ o.sent = [r \in 1 .. Len(recv) |-> NotSent] /\ o.sizes = <<>> /\ DOMAIN recv = 1 .. Len(recv)
  BY <1>2, NewOpType, RecvFields
<1>4. DOMAIN ops' = 1 .. t + 1 /\ ops'[t + 1] = o /\ (\A k \in 1 .. t : ops'[k] = ops[k]) /\ Len(ops) = t
  BY <1>1, <1>2
<1>5. \A k \in 1 .. t + 1 : k \in 1 .. t \/ k = t + 1
  OBVIOUS
<1>7. ChannelPosted' = Append(ChannelPosted, recv) /\ Len(ChannelPosted) = t
  <2>1. PICK S : ChannelPosted \in [1 .. t -> S] /\ recv \in S
    <3>1. ChannelPosted \in [1 .. t -> {ops[k].recv : k \in 1 .. t} \cup {recv}]
      BY <1>1 DEF ChannelPosted
    <3> QED
      BY <3>1
  <2>2. ChannelPosted' = [k \in 1 .. t + 1 |-> IF k = t + 1 THEN recv ELSE ChannelPosted[k]]
    BY <1>1, <1>3, <1>4, <1>5 DEF ChannelPosted
  <2> QED
    BY <2>1, <2>2, AppendFun
<1>8. ChannelFilled' = Append(ChannelFilled, [r \in DOMAIN recv |-> Channel!Free])
  <2>0. PICK v : v = [r \in DOMAIN recv |-> Channel!Free]
    OBVIOUS
  <2>1. PICK S : ChannelFilled \in [1 .. t -> S] /\ v \in S
    <3>1. ChannelFilled \in [1 .. t -> {ops[k].sent : k \in 1 .. t} \cup {v}]
      BY <1>1 DEF ChannelFilled
    <3> QED
      BY <3>1
  <2>2. o.sent = v
    BY <1>3, <2>0 DEF Channel!Free, NotSent
  <2>3. ChannelFilled' = [k \in 1 .. t + 1 |-> IF k = t + 1 THEN v ELSE ChannelFilled[k]]
    BY <1>1, <1>4, <1>5, <2>2 DEF ChannelFilled
  <2> QED
    BY <2>0, <2>1, <2>3, AppendFun
<1>9. ChannelReported' = Append(ChannelReported, <<>>)
  <2>1. PICK S : ChannelReported \in [1 .. t -> S] /\ <<>> \in S
    <3>1. ChannelReported \in [1 .. t -> {ops[k].sizes : k \in 1 .. t} \cup {<<>>}]
      BY <1>1 DEF ChannelReported
    <3> QED
      BY <3>1
  <2>2. ChannelReported' = [k \in 1 .. t + 1 |-> IF k = t + 1 THEN <<>> ELSE ChannelReported[k]]
    BY <1>1, <1>3, <1>4, <1>5 DEF ChannelReported
  <2> QED
    BY <2>1, <2>2, AppendFun
<1>10. Channel!Post(recv)
  BY <1>1, <1>7, <1>8, <1>9 DEF Channel!Post
<1> QED
  BY <1>10 DEF Channel!Next

\* A send fills the first free buffer with its tag in the oldest open receive.
LEMMA IsendChannel ==
    ASSUME RecvInv, SendInv, NEW tag \in Tags, NEW size \in SendSizes, Isend(tag, size)
    PROVE  Channel!Next
<1>1. PICK k \in Nat \ {0}, n \in Nat \ {0}, r \in Recvs, id \in ReqIds, len \in Nat, x \in Nat :
         Matching(tag, size, k, n, r, id, len, x)
  BY IsendMatches
<1>2. SendMatched(k, n, r, id, len, x)
  BY <1>1, IsendMatched
<1>3. PICK t \in Nat : t = fifoTail /\ t = Len(ops) /\ DOMAIN ops = 1 .. t /\ Consumed \in Nat /\ Consumed <= t
  BY OpsKnown
<1>4. /\ k \in 1 .. t /\ r \in 1 .. n /\ n = Len(ops[k].recv) /\ Consumed = k - 1 /\ k = fifoHead + 1
      /\ HeadReqs[r] = NoReq
  BY <1>2, <1>3 DEF SendMatched
<1>5. /\ ops' \in Seq(Op) /\ Len(ops') = t
      /\ \A j \in 1 .. t : j # k => ops'[j] = ops[j]
      /\ ops'[k].recv = ops[k].recv /\ ops'[k].sizes = ops[k].sizes
      /\ ops'[k].sent = [ops[k].sent EXCEPT ![r] = len]
  <2>1. /\ ops' \in Seq(Op) /\ Len(ops') = Len(ops)
        /\ \A j \in 1 .. Len(ops) : j # k => ops'[j] = ops[j]
        /\ ops'[k].recv = ops[k].recv /\ ops'[k].state = ops[k].state
        /\ ops'[k].arrived = ops[k].arrived /\ ops'[k].sizes = ops[k].sizes
        /\ ops'[k].sent = [ops[k].sent EXCEPT ![r] = len] /\ k \in 1 .. Len(ops)
    BY <1>1, IsendOps, Zenon
  <2> QED
    BY <1>3, <2>1
<1>6. DOMAIN ops' = 1 .. t
  BY <1>5
<1>7. SentOk(k)
  BY <1>3, <1>4 DEF SendInv
<1>8. \A j \in 1 .. n : ops[k].sent[j] # NotSent <=> HeadReqs[j] # NoReq
  <2>1. ~(k <= Consumed)
    BY <1>4
  <2> QED
    BY <1>4, <1>7, <2>1 DEF SentOk
<1>9. ops[k].sent[r] = Channel!Free /\ NotSent = Channel!Free
  BY <1>4, <1>8 DEF Channel!Free, NotSent
<1>10. /\ ChannelPosted[k] = ops[k].recv /\ ChannelFilled[k] = ops[k].sent
       /\ DOMAIN ops[k].sent = 1 .. n /\ DOMAIN ops[k].recv = 1 .. n
  BY <1>3, <1>4, PassedFull
<1>11. ~Channel!IsFull(k)
  BY <1>4, <1>9, <1>10 DEF Channel!IsFull
<1>12. \A j \in 1 .. k - 1 : Channel!IsFull(j)
  <2>1. ASSUME NEW j \in 1 .. k - 1 PROVE j \in 1 .. fifoTail /\ j <= Consumed
    BY <1>3, <1>4
  <2> QED
    BY <2>1, PassedFull
<1>13. ASSUME NEW i \in 1 .. r - 1, ops[k].recv[i].tag = ops[k].recv[r].tag PROVE ops[k].sent[i] # Channel!Free
  <2>1. i \in 1 .. n /\ ~(r <= i)
    BY <1>4
  <2>2. ops[k].recv[r].tag = tag /\ \A j \in 1 .. n : HeadReqs[j] = NoReq /\ ops[k].recv[j].tag = tag => r <= j
    BY <1>1, <1>4 DEF Matching
  <2>3. HeadReqs[i] # NoReq
    BY <1>13, <2>1, <2>2
  <2> QED
    BY <1>8, <1>9, <2>1, <2>3
<1>14. len = IF size > ops[k].recv[r].size THEN ops[k].recv[r].size ELSE size
  <2>1. size \in Nat /\ ops[k].recv[r].size \in Nat
    <3>1. ops[k].recv \in Receives
      BY <1>3, <1>4, OpsKnown, OpFields
    <3> QED
      BY <1>4, <3>1, RecvFields, Limits
  <2> QED
    BY <1>1, <2>1 DEF Matching
<1>15. ChannelPosted' = ChannelPosted /\ ChannelReported' = ChannelReported
  <2>1. \A j \in 1 .. t : ops'[j].recv = ops[j].recv /\ ops'[j].sizes = ops[j].sizes
    BY <1>5
  <2> QED
    BY <1>3, <1>6, <2>1 DEF ChannelPosted, ChannelReported
<1>16. ChannelFilled' = [ChannelFilled EXCEPT ![k][r] = len]
  <2>1. ChannelFilled' = [j \in 1 .. t |-> ops'[j].sent] /\ ChannelFilled = [j \in 1 .. t |-> ops[j].sent]
    BY <1>3, <1>6 DEF ChannelFilled
  <2>2. PICK f, g, s : f = ChannelFilled /\ g = ChannelFilled' /\ s = [f[k] EXCEPT ![r] = len]
    OBVIOUS
  <2>3. g[k] = s /\ f = [j \in 1 .. t |-> f[j]] /\ g = [j \in 1 .. t |-> g[j]] /\ \A j \in 1 .. t : j # k => g[j] = f[j]
    BY <1>4, <1>5, <1>10, <2>1, <2>2
  <2>4. g = [f EXCEPT ![k] = s]
    BY <1>4, <2>3
  <2> QED
    BY <2>2, <2>4
<1>17. Channel!Fill(k, r, size)
  BY <1>9, <1>10, <1>11, <1>12, <1>13, <1>14, <1>15, <1>16 DEF Channel!Fill
<1>18. k \in 1 .. Len(ChannelPosted) /\ r \in DOMAIN ChannelPosted[k]
  <2>1. Len(ChannelPosted) = t
    BY <1>3 DEF ChannelPosted
  <2> QED
    BY <1>4, <1>10, <2>1
<1> QED
  BY <1>17, <1>18 DEF Channel!Next

\* A receive whose last completion is counted is reported, with the sizes sent.
LEMMA RecvTestDoneChannel ==
    ASSUME RecvInv, RecvInv', SendInv, ReportInv, NEW id \in ReqIds, RecvTestDone(id)
    PROVE  Channel!Next \/ UNCHANGED Channel!vars
<1>1. PICK k \in Nat \ {0} : \E st, z :
        /\ Learnt(k, st, z) /\ k = rreqs[id].op /\ k <= Consumed
        /\ \/ rreqs[id].type = "RECV" /\ st = "done" /\ ops[k].state = "posted" /\ z = SizesIn(k)
           \/ rreqs[id].type = "FLUSH" /\ st = "retired" /\ ops[k].state = "flushing" /\ z = ops[k].sizes
  BY RecvTestDoneCalm
<1>2. PICK st, z :
        /\ Learnt(k, st, z) /\ k = rreqs[id].op /\ k <= Consumed
        /\ \/ rreqs[id].type = "RECV" /\ ops[k].state = "posted" /\ z = SizesIn(k)
           \/ z = ops[k].sizes
  BY <1>1
<1>3. PICK t \in Nat : t = fifoTail /\ DOMAIN ops = 1 .. t /\ DOMAIN ops' = 1 .. t /\ k \in 1 .. t
  <2>1. fifoTail' = fifoTail /\ k \in 1 .. fifoTail
    BY <1>2 DEF Learnt
  <2>2. ops' \in Seq(Op) /\ fifoTail' = Len(ops')
    BY DEF RecvInv, TypeOK, InStep
  <2> QED
    BY <2>1, <2>2, OpsKnown
<1>4. /\ \A j \in 1 .. t : j # k => ops'[j] = ops[j]
      /\ ops'[k].recv = ops[k].recv /\ ops'[k].sent = ops[k].sent /\ ops'[k].sizes = z
  BY <1>2, <1>3 DEF Learnt
<1>5. CASE z = ops[k].sizes
  BY <1>3, <1>4, <1>5, ChannelStutter
<1>6. CASE rreqs[id].type = "RECV" /\ ops[k].state = "posted" /\ z = SizesIn(k)
  <2>1. z = ops[k].sent
    BY <1>2, <1>6, ReportsSent, RecvTestDoneCalm
  <2>2. /\ ChannelFilled[k] = ops[k].sent /\ ChannelReported[k] = ops[k].sizes /\ Channel!IsFull(k)
    BY <1>2, <1>3, PassedFull
  <2>3. ops[k].sizes = <<>>
    BY <1>3, <1>6 DEF ReportInv, SizesOk
  <2>4. ChannelPosted' = ChannelPosted /\ ChannelFilled' = ChannelFilled
    BY <1>3, <1>4 DEF ChannelPosted, ChannelFilled
  <2>5. ChannelReported' = [ChannelReported EXCEPT ![k] = z]
    BY <1>3, <1>4 DEF ChannelReported
  <2>6. Channel!Report(k)
    BY <2>1, <2>2, <2>3, <2>4, <2>5 DEF Channel!Report
  <2>7. k \in 1 .. Len(ChannelPosted)
    <3>1. Len(ChannelPosted) = t
      BY <1>3 DEF ChannelPosted
    <3> QED
      BY <1>3, <3>1
  <2> QED
    BY <2>6, <2>7 DEF Channel!Next
<1> QED
  BY <1>2, <1>5, <1>6

LEMMA ChannelStep == RecvInv /\ SendInv /\ ReportInv /\ [Next]_vars => [Channel!Next]_Channel!vars
<1> SUFFICES ASSUME RecvInv, SendInv, ReportInv, [Next]_vars PROVE Channel!Next \/ UNCHANGED Channel!vars
  OBVIOUS
<1>0. RecvInv'
  BY RecvNext
<1>1. ASSUME NEW recv \in Receives, Irecv(recv) PROVE Channel!Next
  BY <1>1, IrecvChannel
<1>2. ASSUME NEW k \in DOMAIN ops, Iflush(k) PROVE UNCHANGED Channel!vars
  <2>1. PICK st \in {"flushing", "retired"} : Learnt(k, st, ops[k].sizes)
    BY <1>2, IflushCalm
  <2>2. fifoTail' = fifoTail /\ \A j \in 1 .. fifoTail : /\ ops'[j].recv = ops[j].recv /\ ops'[j].sent = ops[j].sent
                                                         /\ ops'[j].sizes = ops[j].sizes
    BY <2>1 DEF Learnt
  <2>3. DOMAIN ops' = DOMAIN ops
    <3>1. ops' \in Seq(Op) /\ fifoTail' = Len(ops')
      BY <1>0 DEF RecvInv, TypeOK, InStep
    <3> QED
      BY <2>2, <3>1, OpsKnown
  <2> QED
    BY <2>2, <2>3, ChannelStutter
<1>3. ASSUME ops' = ops PROVE UNCHANGED Channel!vars
  BY <1>3, ChannelStutter
<1>4. ASSUME NEW id \in ReqIds, RecvTestDone(id) PROVE Channel!Next \/ UNCHANGED Channel!vars
  BY <1>0, <1>4, RecvTestDoneChannel
<1>5. CASE SendAny
  BY <1>5, IsendChannel DEF SendAny
<1>6. ASSUME NEW q \in Qps, Deliver(q) PROVE UNCHANGED Channel!vars
  <2>1. PICK m \in Msg, w \in ReqIds, k \in Nat, c \in RecvCqe :
              m = Head(dataWire[q]) /\ Delivering(q, m, w, k, c)
    BY <1>6, DeliverNamed
  <2>2. /\ ops' \in Seq(Op) /\ Len(ops') = Len(ops)
        /\ \A j \in 1 .. Len(ops) : /\ ops'[j].recv = ops[j].recv /\ ops'[j].sent = ops[j].sent
                                    /\ ops'[j].sizes = ops[j].sizes
    BY <1>6, <2>1, DeliverOps
  <2>3. DOMAIN ops' = DOMAIN ops /\ fifoTail = Len(ops)
    BY <2>2, OpsKnown
  <2> QED
    BY <2>2, <2>3, ChannelStutter
<1>7. CASE IsendReturn \/ SendTest \/ LandAny \/ \E cqe \in rcq : RecvTestPoll(cqe)
  BY <1>3, <1>7, Zenon DEF IsendReturn, SendTest, SendTestPoll, SendTestDone, LandAny, LandCts, RecvTestPoll
<1>8. CASE UNCHANGED vars
  BY <1>3, <1>8 DEF vars
<1> QED
  BY <1>1, <1>2, <1>4, <1>5, <1>6, <1>7, <1>8 DEF Next, FlushAny, RecvTest

(***************************************************************************)
(* The connection is a tagged, ordered channel, for every number of        *)
(* devices, QPs, slots and groups: a send goes to the first free buffer of *)
(* its tag in the oldest receive with a free one; and ncclIbTest reports a *)
(* receive once, only when its whole group was sent, with the sizes that   *)
(* were sent, whether they came as immediate data or in sizesFifo.         *)
(***************************************************************************)
THEOREM ChannelImplemented == Spec => ImplementsChannel
<1>1. Init => Channel!Init
  BY DEF Init, Channel!Init, ChannelPosted, ChannelFilled, ChannelReported
<1>2. Init => ReportInv
  BY DEF Init, ReportInv
<1> QED
  BY <1>1, <1>2, ReportNext, ChannelStep, SendSound, PTL DEF Spec, Channel!Spec, ImplementsChannel

----------------------------------------------------------------------------
(* The pools of requests. *)

\* What was asked and sent of the receives so far.
SameGroups == \A k \in 1 .. fifoTail : ops'[k].recv = ops[k].recv /\ ops'[k].sent = ops[k].sent

\* Requests are only freed.
OnlyFreed ==
    \A id \in ReqIds : sreqs'[id].type # "UNUSED" => sreqs[id].type # "UNUSED" /\ sreqs'[id].op = sreqs[id].op

LEMMA PlacesFrame ==
    ASSUME RecvInv, SendInv, SameGroups, OnlyFreed, NEW place \in [ReqIds -> Recvs], PlacesOk(place)
    PROVE  PlacesOk(place)'
<1>1. \A id \in ReqIds : sreqs[id].type # "UNUSED" => sreqs[id].op \in 1 .. fifoTail
  BY DEF SendInv, SendReqOk
<1> SUFFICES ASSUME NEW id \in ReqIds, sreqs'[id].type # "UNUSED"
             PROVE  /\ place[id] <= Len(ops'[sreqs'[id].op].recv) /\ ops'[sreqs'[id].op].sent[place[id]] # NotSent
                    /\ \A j \in ReqIds : /\ sreqs'[j].type # "UNUSED" /\ sreqs'[j].op = sreqs'[id].op
                                         /\ place[j] = place[id]
                                         => j = id
  BY DEF PlacesOk
<1>2. sreqs[id].type # "UNUSED" /\ sreqs'[id].op = sreqs[id].op /\ sreqs[id].op \in 1 .. fifoTail
  BY <1>1 DEF OnlyFreed
<1>3. place[id] <= Len(ops'[sreqs'[id].op].recv) /\ ops'[sreqs'[id].op].sent[place[id]] # NotSent
  BY <1>2 DEF PlacesOk, SameGroups
<1>4. ASSUME NEW j \in ReqIds, sreqs'[j].type # "UNUSED", sreqs'[j].op = sreqs'[id].op, place[j] = place[id]
      PROVE  j = id
  <2>1. sreqs[j].type # "UNUSED" /\ sreqs[j].op = sreqs[id].op
    BY <1>2, <1>4 DEF OnlyFreed
  <2> QED
    BY <1>2, <1>4, <2>1 DEF PlacesOk
<1> QED
  BY <1>3, <1>4

\* A step that matches no send and does not move the head.
LEMMA QuietPool ==
    ASSUME RecvInv, SendInv, PoolInv, SameGroups, OnlyFreed, fifoTail' = fifoTail, fifoHead' = fifoHead,
           fifoReqs' = fifoReqs, multiSent' = multiSent
    PROVE  PoolInv'
<1>1. PICK place \in [ReqIds -> Recvs] : PlacesOk(place)
  BY DEF PoolInv
<1>2. PlacesOk(place)'
  BY <1>1, PlacesFrame
<1>3. HeadOpen'
  <2>1. fifoHead \in Nat /\ fifoTail \in Nat
    BY OpsKnown, RecvTypes
  <2>2. fifoHead + 1 <= fifoTail => ops'[fifoHead + 1].recv = ops[fifoHead + 1].recv
    BY <2>1 DEF SameGroups
  <2>3. HeadReqs' = HeadReqs
    BY DEF HeadReqs, FifoSlot
  <2>4. HeadOpen
    BY DEF PoolInv
  <2> QED
    BY <2>2, <2>3, <2>4 DEF HeadOpen
<1> QED
  BY <1>2, <1>3 DEF PoolInv

LEMMA IrecvPool ==
    ASSUME RecvInv, SendInv, PoolInv, NEW recv \in Receives, Irecv(recv)
    PROVE  PoolInv'
<1>1. /\ SameSender /\ SameSent /\ fifoTail' = fifoTail + 1 /\ \A k \in 1 .. fifoTail : ops'[k] = ops[k]
      /\ ops'[fifoTail + 1] = NewOp(recv)
  BY IrecvCalm
<1>2. PICK place \in [ReqIds -> Recvs] : PlacesOk(place)
  BY DEF PoolInv
<1>3. PlacesOk(place)'
  <2>1. SameGroups /\ OnlyFreed
    BY <1>1 DEF SameGroups, OnlyFreed, SameSender
  <2> QED
    BY <1>2, <2>1, PlacesFrame
<1>4. TypeOK /\ fifoHead \in Nat /\ fifoTail \in Nat /\ HeadReqs \in [Recvs -> ReqIds \cup {NoReq}]
  BY OpsKnown, SendTypes
<1>5. HeadReqs' = HeadReqs /\ fifoHead' = fifoHead /\ multiSent' = multiSent
  BY <1>1 DEF HeadReqs, FifoSlot, SameSender
<1>6. HeadOpen'
  <2> SUFFICES ASSUME ~multiSent, fifoHead + 1 <= fifoTail + 1
               PROVE  \E r \in 1 .. Len(ops'[fifoHead + 1].recv) : HeadReqs[r] = NoReq
    BY <1>1, <1>5 DEF HeadOpen
  <2>1. CASE fifoHead + 1 <= fifoTail
    <3>1. ops'[fifoHead + 1] = ops[fifoHead + 1]
      BY <1>1, <1>4, <2>1
    <3> QED
      BY <2>1, <3>1 DEF PoolInv, HeadOpen
  <2>2. CASE ~(fifoHead + 1 <= fifoTail)
    <3>1. \A r \in Recvs : HeadReqs[r] = NoReq
      BY <2>2 DEF SendInv, HeadOk
    <3>2. fifoHead + 1 = fifoTail + 1
      BY <1>4, <2>2
    <3>5. NewOp(recv).recv = recv
      BY NewOpType
    <3>3. ops'[fifoHead + 1].recv = recv
      BY <1>1, <3>2, <3>5, Zenon
    <3>4. 1 \in 1 .. Len(recv) /\ 1 \in Recvs
      BY RecvFields, Limits
    <3> QED
      BY <3>1, <3>3, <3>4
  <2> QED
    BY <2>1, <2>2
<1> QED
  BY <1>3, <1>6 DEF PoolInv

LEMMA IsendReturnPool ==
    ASSUME RecvInv, SendInv, PoolInv, IsendReturn
    PROVE  PoolInv'
<1>1. /\ TypeOK /\ fifoHead' = fifoHead + 1 /\ fifoHead \in Nat /\ fifoTail' = fifoTail /\ fifoTail \in Nat
      /\ ops' = ops /\ sreqs' = sreqs
      /\ fifoReqs' = [fifoReqs EXCEPT ![FifoSlot(fifoHead)] = [r \in Recvs |-> NoReq]]
      /\ fifoReqs \in [Slots -> [Recvs -> ReqIds \cup {NoReq}]] /\ FifoSlot(fifoHead) \in Slots
      /\ FifoSlot(fifoHead + 1) \in Slots
  <2>1. TypeOK /\ fifoHead \in Nat /\ fifoTail \in Nat /\ FifoSlot(fifoHead) \in Slots
    BY OpsKnown, SendTypes
  <2>2. FifoSlot(fifoHead + 1) \in Slots
    BY <2>1, SlotOfTail
  <2> QED
    BY <2>1, <2>2 DEF IsendReturn, rvars, TypeOK
<1>2. PICK place \in [ReqIds -> Recvs] : PlacesOk(place)
  BY DEF PoolInv
<1>3. PlacesOk(place)'
  BY <1>1, <1>2 DEF PlacesOk
<1>4. \A r \in Recvs : HeadReqs'[r] = NoReq
  <2>1. \A s \in Slots, r \in Recvs : fifoReqs'[s][r] = NoReq
    BY <1>1 DEF SendInv, HeadOk
  <2> QED
    BY <1>1, <2>1 DEF HeadReqs, FifoSlot
<1>5. HeadOpen'
  <2> SUFFICES ASSUME fifoHead + 2 <= fifoTail
               PROVE  \E r \in 1 .. Len(ops[fifoHead + 2].recv) : HeadReqs'[r] = NoReq
    BY <1>1 DEF HeadOpen
  <2>1. fifoHead + 2 \in 1 .. fifoTail
    BY <1>1
  <2>2. ops[fifoHead + 2].recv \in Receives
    BY <2>1, OpsKnown, OpFields
  <2>3. 1 \in 1 .. Len(ops[fifoHead + 2].recv) /\ 1 \in Recvs
    BY <2>2, RecvFields, Limits
  <2> QED
    BY <1>4, <2>3
<1> QED
  BY <1>3, <1>5 DEF PoolInv

\* A send takes a request for a buffer that had none.
LEMMA IsendPool ==
    ASSUME RecvInv, SendInv, PoolInv, NEW tag \in Tags, NEW size \in SendSizes, Isend(tag, size)
    PROVE  PoolInv'
<1>1. PICK k \in Nat \ {0}, n \in Nat \ {0}, r \in Recvs, id \in ReqIds, len \in Nat, x \in Nat :
         /\ Matching(tag, size, k, n, r, id, len, x)
         /\ \/ GroupOpen(n)
            \/ \E ids \in Seq(ReqIds), zs \in Seq(Nat) : GroupPosted(k, n, x, ids, zs)
  BY IsendMatches
<1>2. SendMatched(k, n, r, id, len, x)
  BY <1>1, IsendMatched
<1>3. /\ fifoTail \in Nat /\ DOMAIN ops = 1 .. fifoTail /\ fifoHead' = fifoHead /\ fifoTail' = fifoTail
      /\ k \in 1 .. fifoTail /\ k = fifoHead + 1 /\ n = Len(ops[k].recv) /\ r \in 1 .. n /\ Consumed = k - 1
      /\ HeadReqs[r] = NoReq /\ \A j \in 1 .. fifoTail : ops'[j].recv = ops[j].recv
  BY <1>2, OpsKnown DEF SendMatched
<1>4. HeadOpen'
  <2>1. CASE GroupOpen(n)
    <3>1. PICK j \in 1 .. n : fifoReqs'[FifoSlot(fifoHead)][j] = NoReq
      BY <2>1 DEF GroupOpen
    <3>2. HeadReqs'[j] = NoReq
      BY <1>3, <3>1 DEF HeadReqs, FifoSlot
    <3>3. ops'[fifoHead' + 1].recv = ops[k].recv
      BY <1>3
    <3> QED
      BY <1>3, <3>2, <3>3 DEF HeadOpen
  <2>2. CASE multiSent'
    BY <2>2 DEF HeadOpen
  <2> QED
    BY <1>1, <2>1, <2>2 DEF GroupPosted
<1>5. PICK place \in [ReqIds -> Recvs] : PlacesOk(place)
  BY DEF PoolInv
<1>6. PICK p \in [ReqIds -> Recvs] : p[id] = r /\ \A j \in ReqIds \ {id} : p[j] = place[j]
  <2>1. [place EXCEPT ![id] = r] \in [ReqIds -> Recvs]
    OBVIOUS
  <2> QED
    BY <2>1
<1>7. ops[k].sent[r] = NotSent
  <2>1. SentOk(k)
    BY <1>3 DEF SendInv
  <2>2. ~(k <= Consumed)
    BY <1>3
  <2> QED
    BY <1>3, <2>1, <2>2 DEF SentOk
<1>8. /\ \A j \in ReqIds \ {id} : sreqs'[j] = sreqs[j]
      /\ sreqs'[id].op = k /\ \A j \in 1 .. fifoTail : j # k => ops'[j] = ops[j]
      /\ ops'[k].sent[r] = len /\ \A j \in 1 .. n : j # r => ops'[k].sent[j] = ops[k].sent[j]
  BY <1>2 DEF SendMatched
<1>9. ASSUME NEW j \in ReqIds, j # id, sreqs[j].type # "UNUSED"
      PROVE  /\ sreqs[j].op \in 1 .. fifoTail /\ place[j] \in 1 .. Len(ops[sreqs[j].op].recv)
             /\ ops[sreqs[j].op].sent[place[j]] # NotSent
             /\ ops'[sreqs[j].op].sent[place[j]] # NotSent
             /\ ~(sreqs[j].op = k /\ place[j] = r)
  <2>1. sreqs[j].op \in 1 .. fifoTail
    BY <1>9 DEF SendInv, SendReqOk
  <2>2. place[j] <= Len(ops[sreqs[j].op].recv) /\ ops[sreqs[j].op].sent[place[j]] # NotSent
    BY <1>5, <1>9 DEF PlacesOk
  <2>3. ops[sreqs[j].op].recv \in Receives
    BY <2>1, OpsKnown, OpFields
  <2>4. PICK w \in Nat : w = Len(ops[sreqs[j].op].recv)
    BY <2>3, RecvFields
  <2>5. place[j] \in Nat \ {0}
    BY Limits DEF Recvs
  <2>6. place[j] \in 1 .. Len(ops[sreqs[j].op].recv)
    BY <2>2, <2>4, <2>5
  <2>7. ~(sreqs[j].op = k /\ place[j] = r)
    BY <1>7, <2>2
  <2>8. ops'[sreqs[j].op].sent[place[j]] = ops[sreqs[j].op].sent[place[j]]
    BY <1>3, <1>8, <2>1, <2>6, <2>7
  <2> QED
    BY <2>1, <2>2, <2>6, <2>7, <2>8
<1>10. PlacesOk(p)'
  <2> SUFFICES ASSUME NEW i \in ReqIds, sreqs'[i].type # "UNUSED"
               PROVE  /\ p[i] <= Len(ops'[sreqs'[i].op].recv) /\ ops'[sreqs'[i].op].sent[p[i]] # NotSent
                      /\ \A j \in ReqIds : /\ sreqs'[j].type # "UNUSED" /\ sreqs'[j].op = sreqs'[i].op
                                           /\ p[j] = p[i]
                                           => j = i
    BY DEF PlacesOk
  <2>1. CASE i = id
    <3>1. p[i] <= Len(ops'[sreqs'[i].op].recv)
      BY <1>3, <1>6, <1>8, <2>1
    <3>2. ops'[sreqs'[i].op].sent[p[i]] # NotSent
      BY <1>6, <1>8, <2>1 DEF NotSent
    <3>3. ASSUME NEW j \in ReqIds, j # i, sreqs'[j].type # "UNUSED", sreqs'[j].op = sreqs'[i].op, p[j] = p[i]
          PROVE  FALSE
      BY <1>6, <1>8, <1>9, <2>1, <3>3
    <3> QED
      BY <3>1, <3>2, <3>3
  <2>2. CASE i # id
    <3>1. sreqs'[i] = sreqs[i] /\ p[i] = place[i]
      BY <1>6, <1>8, <2>2
    <3>2. /\ sreqs[i].op \in 1 .. fifoTail /\ place[i] \in 1 .. Len(ops[sreqs[i].op].recv)
          /\ ops'[sreqs[i].op].sent[place[i]] # NotSent /\ ~(sreqs[i].op = k /\ place[i] = r)
      BY <1>9, <2>2, <3>1
    <3>3. p[i] <= Len(ops'[sreqs'[i].op].recv) /\ ops'[sreqs'[i].op].sent[p[i]] # NotSent
      BY <1>3, <3>1, <3>2, <1>5 DEF PlacesOk
    <3>4. ASSUME NEW j \in ReqIds, sreqs'[j].type # "UNUSED", sreqs'[j].op = sreqs'[i].op, p[j] = p[i]
          PROVE  j = i
      <4>1. CASE j = id
        BY <1>6, <1>8, <3>1, <3>2, <3>4, <4>1
      <4>2. CASE j # id
        <5>1. sreqs'[j] = sreqs[j] /\ p[j] = place[j]
          BY <1>6, <1>8, <4>2
        <5> QED
          BY <1>5, <3>1, <3>4, <5>1 DEF PlacesOk
      <4> QED
        BY <4>1, <4>2
    <3> QED
      BY <3>3, <3>4
  <2> QED
    BY <2>1, <2>2
<1> QED
  BY <1>4, <1>10 DEF PoolInv

LEMMA PoolNext == RecvInv /\ SendInv /\ PoolInv /\ [Next]_vars => PoolInv'
<1> SUFFICES ASSUME RecvInv, SendInv, PoolInv, [Next]_vars PROVE PoolInv'
  OBVIOUS
<1>1. ASSUME SameSender, SameSent, fifoTail' = fifoTail PROVE PoolInv'
  BY <1>1, QuietPool DEF SameSender, SameSent, SameGroups, OnlyFreed
<1>2. ASSUME NEW recv \in Receives, Irecv(recv) PROVE PoolInv'
  BY <1>2, IrecvPool
<1>3. CASE FlushAny
  BY <1>1, <1>3, IflushCalm DEF FlushAny
<1>4. CASE RecvTest
  BY <1>1, <1>4, RecvTestPollCalm, RecvTestDoneCalm DEF RecvTest
<1>5. CASE SendAny
  BY <1>5, IsendPool DEF SendAny
<1>6. CASE IsendReturn
  BY <1>6, IsendReturnPool
<1>7. ASSUME ops' = ops, fifoTail' = fifoTail, fifoHead' = fifoHead, fifoReqs' = fifoReqs, multiSent' = multiSent,
             OnlyFreed
      PROVE  PoolInv'
  BY <1>7, QuietPool DEF SameGroups
<1>8. ASSUME NEW cqe \in scq, SendTestPoll(cqe) PROVE PoolInv'
  <2>1. cqe.dev \in Devs /\ \A id \in ReqIds : sreqs[id] \in Req
    BY OpsKnown, SendTypes, SendCqeFields
  <2>2. \A id \in ReqIds : sreqs'[id] = CountedDown(sreqs[id], cqe.dev) \/ sreqs'[id] = sreqs[id]
    BY <1>8 DEF SendTestPoll, CountedDown
  <2>3. OnlyFreed
    BY <2>1, <2>2, CountDown DEF OnlyFreed
  <2> QED
    BY <1>7, <1>8, <2>3 DEF SendTestPoll, rvars
<1>9. ASSUME NEW id \in ReqIds, SendTestDone(id) PROVE PoolInv'
  <2>1. sreqs \in [ReqIds -> Req] /\ sreqs' = [sreqs EXCEPT ![id] = Unused]
    BY <1>9 DEF RecvInv, TypeOK, SendTestDone, FreeRequest
  <2>2. OnlyFreed
    BY <2>1, UnusedReq DEF OnlyFreed
  <2> QED
    BY <1>7, <1>9, <2>2 DEF SendTestDone, rvars
<1>10. CASE LandAny
  BY <1>1, <1>10, LandCtsCalm DEF LandAny
<1>11. ASSUME NEW q \in Qps, Deliver(q) PROVE PoolInv'
  <2>1. PICK m \in Msg, w \in ReqIds, k \in Nat, c \in RecvCqe :
              m = Head(dataWire[q]) /\ Delivering(q, m, w, k, c)
    BY <1>11, DeliverNamed
  <2>2. \A j \in 1 .. Len(ops) : ops'[j].recv = ops[j].recv /\ ops'[j].sent = ops[j].sent
    BY <1>11, <2>1, DeliverOps
  <2>3. SameGroups
    BY <2>2, OpsKnown DEF SameGroups
  <2>4. fifoTail' = fifoTail /\ fifoHead' = fifoHead /\ fifoReqs' = fifoReqs /\ multiSent' = multiSent /\ sreqs' = sreqs
    BY <1>11 DEF Deliver, svars
  <2> QED
    BY <2>3, <2>4, QuietPool DEF OnlyFreed
<1>12. CASE UNCHANGED vars
  BY <1>7, <1>12 DEF vars, rvars, svars, OnlyFreed
<1> QED
  BY <1>2, <1>3, <1>4, <1>5, <1>6, <1>8, <1>9, <1>10, <1>11, <1>12 DEF Next, SendTest

\* The size of the pools.
LEMMA PoolSize == IsFiniteSet(ReqIds) /\ Cardinality(ReqIds) = MaxRequests
<1>1. PICK M \in Nat \ {0} : M = MaxRequests
  BY Limits
<1>2. PICK a \in Int, b \in Int : a = 0 /\ b = M - 1
  BY <1>1
<1>3. IsFiniteSet(a .. b) /\ Cardinality(a .. b) = IF a > b THEN 0 ELSE b - a + 1
  BY FS_Interval
<1> QED
  BY <1>1, <1>2, <1>3 DEF ReqIds

\* Requests that serve different things are at most as many as those.
LEMMA OneEach ==
    ASSUME NEW T, IsFiniteSet(T), NEW f \in [ReqIds -> T], \A id, j \in ReqIds : f[id] = f[j] => id = j
    PROVE  MaxRequests <= Cardinality(T)
<1>1. f \in Injection(ReqIds, T)
  BY DEF Injection, IsInjective
<1>2. Cardinality(ReqIds) <= Cardinality(T)
  BY <1>1, FS_Injection
<1> QED
  BY <1>2, PoolSize

\* Receives that are not finished have one request each, and are in the window.
LEMMA RecvPoolLeft ==
    ASSUME RecvInv
    PROVE  FreeReqs(rreqs) # {}
<1> SUFFICES ASSUME FreeReqs(rreqs) = {} PROVE FALSE
  OBVIOUS
<1>1. \A id \in ReqIds : rreqs[id].type # "UNUSED"
  BY DEF FreeReqs
<1>2. PICK t \in Nat, W \in Nat \ {0}, M \in Nat : t = fifoTail /\ W = Window /\ M = MaxRequests /\ W < M
  BY OpsKnown, Limits
<1>3. PICK a \in Int : a = t - W + 1
  BY <1>2
<1>4. ASSUME NEW id \in ReqIds PROVE rreqs[id].op \in a .. t
  <2>1. rreqs[id].op \in 1 .. t /\ ops[rreqs[id].op].state # "retired"
    BY <1>1, <1>2, ReqKnown
  <2>2. StateOk(rreqs[id].op)
    BY <1>2, <2>1, OpsKnown
  <2>3. ~(rreqs[id].op + W <= t)
    BY <1>2, <2>1, <2>2 DEF StateOk
  <2> QED
    BY <1>2, <1>3, <2>1, <2>3
<1>5. PICK f \in [ReqIds -> a .. t] : \A id \in ReqIds : f[id] = rreqs[id].op
  <2>1. [id \in ReqIds |-> rreqs[id].op] \in [ReqIds -> a .. t]
    BY <1>4
  <2> QED
    BY <2>1
<1>6. \A id, j \in ReqIds : f[id] = f[j] => id = j
  BY <1>1, <1>5, ReqKnown
<1>7. PICK T : T = a .. t
  OBVIOUS
<1>8. IsFiniteSet(T) /\ Cardinality(T) = W
  <2>1. IsFiniteSet(a .. t) /\ Cardinality(a .. t) = IF a > t THEN 0 ELSE t - a + 1
    BY FS_Interval
  <2> QED
    BY <1>2, <1>3, <1>7, <2>1
<1>9. M <= W
  BY <1>2, <1>5, <1>6, <1>7, <1>8, OneEach
<1> QED
  BY <1>2, <1>9

\* A send for an announced receive finds the buffer that it will serve not among
\* those that the requests of the window serve.
LEMMA SendPoolLeft ==
    ASSUME RecvInv, SendInv, PoolInv, ~multiSent, CtsReady, SendWindowOpen
    PROVE  FreeReqs(sreqs) # {}
<1> SUFFICES ASSUME FreeReqs(sreqs) = {} PROVE FALSE
  OBVIOUS
<1>1. \A id \in ReqIds : sreqs[id].type # "UNUSED"
  BY DEF FreeReqs
<1>2. /\ TypeOK /\ fifoHead \in Nat /\ fifoTail \in Nat /\ CtsRight /\ FifoSlot(fifoHead) \in Slots /\ 1 \in Recvs
      /\ DOMAIN ops = 1 .. fifoTail
  BY OpsKnown, SendTypes, Limits
<1>3. PICK k \in Nat \ {0}, W \in Nat \ {0}, R \in Nat \ {0}, M \in Nat \ {0} :
         k = fifoHead + 1 /\ W = Window /\ R = MaxRecvs /\ M = MaxRequests
  BY <1>2, Limits
<1>4. M = W * R
  BY <1>3 DEF MaxRequests, Window
<1>5. k \in 1 .. fifoTail
  <2>1. HeadSlot[1].idx = k
    BY <1>3 DEF CtsReady
  <2>2. fifo[FifoSlot(fifoHead)][1].idx = k
    BY <2>1 DEF HeadSlot
  <2>3. Announces(FifoSlot(fifoHead), 1, fifo[FifoSlot(fifoHead)][1])
    BY <1>2, <2>2 DEF CtsRight
  <2> QED
    BY <2>2, <2>3 DEF Announces
<1>6. PICK r \in 1 .. Len(ops[k].recv) : HeadReqs[r] = NoReq
  BY <1>2, <1>3, <1>5 DEF PoolInv, HeadOpen
<1>7. r \in Recvs
  <2>1. ops[k].recv \in Receives
    BY <1>5, OpsKnown, OpFields
  <2> QED
    BY <2>1, RecvFields
<1>8. ops[k].sent[r] = NotSent
  <2>1. SentOk(k)
    BY <1>2, <1>5 DEF SendInv
  <2>2. ~(k <= Consumed)
    BY <1>2, <1>3 DEF Consumed
  <2> QED
    BY <1>6, <2>1, <2>2 DEF SentOk
<1>9. PICK place \in [ReqIds -> Recvs] : PlacesOk(place)
  BY DEF PoolInv
<1>10. PICK a \in Int : a = k - W + 1
  BY <1>3
<1>11. ASSUME NEW id \in ReqIds PROVE sreqs[id].op \in a .. k
  <2>1. sreqs[id].op \in 1 .. fifoTail /\ sreqs[id].op <= k
    BY <1>1, <1>3 DEF SendInv, SendReqOk
  <2>2. k < sreqs[id].op + W
    BY <1>1, <1>3 DEF SendWindowOpen, Active
  <2> QED
    BY <1>2, <1>3, <1>10, <2>1, <2>2
<1>12. PICK P, T : P = (a .. k) \X Recvs /\ T = P \ {<<k, r>>}
  OBVIOUS
<1>13. PICK f : f = [id \in ReqIds |-> <<sreqs[id].op, place[id]>>]
  OBVIOUS
<1>14. ASSUME NEW id \in ReqIds PROVE f[id] \in T
  <2>1. <<sreqs[id].op, place[id]>> \in P
    BY <1>11, <1>12
  <2>2. ~(sreqs[id].op = k /\ place[id] = r)
    BY <1>1, <1>8, <1>9 DEF PlacesOk
  <2> QED
    BY <1>12, <1>13, <2>1, <2>2
<1>15. ASSUME NEW id \in ReqIds, NEW j \in ReqIds, f[id] = f[j] PROVE id = j
  <2>1. sreqs[id].op = sreqs[j].op /\ place[id] = place[j]
    BY <1>13, <1>15
  <2> QED
    BY <1>1, <1>9, <2>1 DEF PlacesOk
<1>16. IsFiniteSet(T) /\ Cardinality(T) = M - 1
  <2>1. IsFiniteSet(a .. k) /\ Cardinality(a .. k) = W
    <3>1. IsFiniteSet(a .. k) /\ Cardinality(a .. k) = IF a > k THEN 0 ELSE k - a + 1
      BY FS_Interval
    <3> QED
      BY <1>3, <1>10, <3>1
  <2>2. IsFiniteSet(Recvs) /\ Cardinality(Recvs) = R
    <3>1. PICK b \in Int, c \in Int : b = 1 /\ c = R
      OBVIOUS
    <3>2. IsFiniteSet(b .. c) /\ Cardinality(b .. c) = IF b > c THEN 0 ELSE c - b + 1
      BY FS_Interval
    <3> QED
      BY <1>3, <3>1, <3>2 DEF Recvs
  <2>3. IsFiniteSet(P) /\ Cardinality(P) = W * R
    BY <1>12, <2>1, <2>2, FS_Product
  <2>4. <<k, r>> \in P
    BY <1>3, <1>7, <1>10, <1>12
  <2>5. PICK e : e = <<k, r>> /\ e \in P /\ T = P \ {e}
    BY <1>12, <2>4
  <2>6. /\ IsFiniteSet(P \ {e})
        /\ Cardinality(P \ {e}) = IF e \in P THEN Cardinality(P) - 1 ELSE Cardinality(P)
    BY <2>3, FS_RemoveElement
  <2> QED
    BY <1>4, <2>3, <2>5, <2>6
<1>17. MaxRequests <= Cardinality(T)
  <2>1. f \in [ReqIds -> T]
    BY <1>13, <1>14
  <2> QED
    BY <1>15, <1>16, <2>1, OneEach
<1> QED
  BY <1>3, <1>16, <1>17

(***************************************************************************)
(* A caller that keeps to its window never exhausts a pool: the receiver's *)
(* never, whether it posts a receive or flushes one, and the sender's not  *)
(* when a receive is announced, because the buffer the next send will fill *)
(* is one that no request of the window serves (ncclIbGetRequest).         *)
(***************************************************************************)
THEOREM PoolsSuffice == Spec => []PoolSuffices
<1>1. Init => PoolInv
  <2> SUFFICES ASSUME Init PROVE PoolInv
    OBVIOUS
  <2>1. HeadOpen
    BY DEF Init, HeadOpen
  <2>2. \A id \in ReqIds : sreqs[id].type = "UNUSED"
    BY UnusedReq DEF Init
  <2>3. [id \in ReqIds |-> 1] \in [ReqIds -> Recvs]
    BY Limits
  <2>4. \E place \in [ReqIds -> Recvs] : PlacesOk(place)
    BY <2>2, <2>3 DEF PlacesOk
  <2> QED
    BY <2>1, <2>4 DEF PoolInv
<1>2. RecvInv /\ SendInv /\ PoolInv => PoolSuffices
  BY RecvPoolLeft, SendPoolLeft DEF PoolSuffices
<1> QED
  BY <1>1, <1>2, PoolNext, SendSound, PTL DEF Spec

----------------------------------------------------------------------------
(* The queues. *)

\* A device's own number as a QP's.
LEMMA DevOfDev ==
    ASSUME NEW d \in Devs
    PROVE  DevOf(d) = d /\ d \in Qps /\ d \in Nat
<1>1. PICK n \in Nat \ {0} : n = NDevs
  BY QpCounts
<1>2. d \in 0 .. n - 1 /\ d \in Int /\ 0 \in Int
  BY <1>1 DEF Devs
<1>3. d = n * 0 + d
  BY <1>2
<1>4. d % n = d
  BY <1>2, <1>3, ModUnique
<1> QED
  BY <1>1, <1>2, <1>4, DevsAreQps DEF DevOf

\* Multiples of n less than n apart are the same.
LEMMA SameMultiple ==
    ASSUME NEW n \in Nat \ {0}, NEW a \in Int, NEW c \in Int, NEW w \in Int,
           n * a + w >= n * c + w, n * a + w < n * c + w + n
    PROVE  a = c
<1>1. a < c => n * a \in Int /\ n * c \in Int /\ n * c >= n * a + n
  BY MultiplesApart
<1>2. c < a => n * a \in Int /\ n * c \in Int /\ n * a >= n * c + n
  BY MultiplesApart
<1>3. PICK x \in Int, y \in Int : x = n * a /\ y = n * c
  OBVIOUS
<1>4. ~(a < c)
  BY <1>1, <1>3
<1>5. ~(c < a)
  BY <1>2, <1>3
<1> QED
  BY <1>4, <1>5

\* The turn of a device's next CTS.
LEMMA NextTurn ==
    ASSUME NEW d \in Devs, NEW p \in Int
    PROVE  Turn(d, p + 1) = NDevs * p + d /\ Turn(d, p) \in Int /\ Turn(d, p + 1) \in Int
<1>1. PICK n \in Nat \ {0} : n = NDevs
  BY QpCounts
<1>2. d \in Int
  BY <1>1 DEF Devs
<1>3. (p + 1) - 1 = p /\ p - 1 \in Int
  OBVIOUS
<1>4. n * p \in Int /\ n * (p - 1) \in Int
  BY <1>3
<1> QED
  BY <1>1, <1>2, <1>3, <1>4 DEF Turn

\* A receive that is posted gives the turn to the next device.
LEMMA TurnsGoOn ==
    ASSUME TypeOK, TurnsOk, fifoTail' = fifoTail + 1, devIndex' = NextDevIndex,
           ctsPosted' = [ctsPosted EXCEPT ![devIndex] = @ + 1]
    PROVE  TurnsOk'
<1>1. PICK n \in Nat \ {0}, t \in Nat, v \in Nat, P \in [Devs -> Nat] :
         n = NDevs /\ t = fifoTail /\ v = devIndex /\ P = ctsPosted /\ v \in Devs
  <2>1. NDevs \in Nat \ {0} /\ fifoTail \in Nat /\ devIndex \in Devs /\ ctsPosted \in [Devs -> Nat]
    BY QpCounts DEF TypeOK
  <2>2. devIndex \in Nat
    BY <2>1 DEF Devs
  <2> QED
    BY <2>1, <2>2
<1>2. PICK Q \in [Devs -> Nat] : Q = ctsPosted' /\ Q[v] = P[v] + 1 /\ \A d \in Devs \ {v} : Q[d] = P[d]
  <2>1. [P EXCEPT ![v] = @ + 1] \in [Devs -> Nat]
    BY <1>1
  <2> QED
    BY <1>1, <2>1
<1>3. \A d \in Devs : d \in Nat /\ d < n
  BY <1>1 DEF Devs
<1>4. t = n * P[v] + v /\ \A d \in Devs : n * P[d] + d \in t .. t + n - 1
  <2>1. \A d \in Devs : Turn(d, P[d] + 1) = n * P[d] + d
    BY <1>1, NextTurn
  <2>2. t = Turn(v, P[v] + 1) /\ \A d \in Devs : Turn(d, P[d] + 1) \in t .. t + n - 1
    BY <1>1 DEF TurnsOk
  <2> QED
    BY <1>1, <2>1, <2>2, Zenon
<1>5. ASSUME NEW d \in Devs PROVE n * Q[d] + d \in t + 1 .. t + n
  <2>1. CASE d = v
    <3>1. n * Q[d] = n * P[v] + n
      BY <1>1, <1>2, <2>1
    <3>2. PICK y \in Int : y = n * P[v]
      BY <1>1
    <3> QED
      BY <1>1, <1>3, <1>4, <2>1, <3>1, <3>2
  <2>2. CASE d # v
    <3>1. PICK a \in Nat, c \in Nat : a = P[d] /\ c = P[v] /\ a = Q[d]
      BY <1>1, <1>2, <2>2
    <3>2. PICK x \in Int, y \in Int : x = n * a /\ y = n * c
      OBVIOUS
    <3>3. x + d \in t .. t + n - 1 /\ t = y + v
      BY <1>4, <3>1, <3>2
    <3>4. d \in Nat /\ d < n /\ v < n
      BY <1>1, <1>3
    <3>5. x + d # y + v
      <4>1. a < c => y >= x + n
        BY <3>2, MultiplesApart
      <4>2. c < a => x >= y + n
        BY <3>2, MultiplesApart
      <4>3. a = c => x = y
        BY <3>2
      <4> QED
        BY <2>2, <3>1, <3>2, <3>4, <4>1, <4>2, <4>3
    <3>6. x + d \in t + 1 .. t + n
      BY <1>1, <3>2, <3>3, <3>4, <3>5
    <3> QED
      BY <3>1, <3>2, <3>6
  <2> QED
    BY <2>1, <2>2
<1>6. PICK w \in Devs, c \in Nat : w = devIndex' /\ t + 1 = n * c + w
  <2>1. PICK y \in Int : y = n * P[v]
    BY <1>1
  <2>2. CASE v + 1 < n
    <3>1. v + 1 \in Devs
      BY <1>1, <2>2 DEF Devs
    <3>2. (v + 1) % n = v + 1
      BY <1>1, <3>1, DevOfDev DEF DevOf
    <3>3. t + 1 = n * P[v] + (v + 1)
      BY <1>1, <1>4, <2>1
    <3> QED
      BY <1>1, <3>1, <3>2, <3>3 DEF NextDevIndex
  <2>3. CASE ~(v + 1 < n)
    <3>1. v + 1 = n
      BY <1>1, <1>3, <2>3
    <3>2. 0 \in Devs
      BY <1>1 DEF Devs
    <3>3. n % n = 0
      <4>1. n = n * 1 + 0 /\ 0 \in 0 .. n - 1 /\ 1 \in Int /\ n \in Int
        OBVIOUS
      <4> QED
        BY <4>1, ModUnique
    <3>4. t + 1 = n * (P[v] + 1) + 0 /\ P[v] + 1 \in Nat
      <4>1. n * (P[v] + 1) = n * P[v] + n /\ P[v] + 1 \in Nat
        BY <1>1
      <4> QED
        BY <1>1, <1>4, <2>1, <3>1, <4>1
    <3>5. devIndex' = 0
      BY <1>1, <3>1, <3>3 DEF NextDevIndex
    <3> QED
      BY <3>2, <3>4, <3>5
  <2> QED
    BY <2>2, <2>3
<1>7. Q[w] = c
  <2>1. PICK a \in Nat : a = Q[w]
    BY <1>2
  <2>2. n * a + w \in t + 1 .. t + n /\ n * a + w \in Int
    BY <1>5, <2>1
  <2>3. a \in Int /\ c \in Int /\ w \in Int
    BY <1>3
  <2>4. n * a + w >= n * c + w /\ n * a + w < n * c + w + n
    BY <1>1, <1>6, <2>2
  <2> QED
    BY <2>1, <2>3, <2>4, SameMultiple
<1>8. \A d \in Devs : Turn(d, Q[d] + 1) = n * Q[d] + d
  <2> SUFFICES ASSUME NEW d \in Devs PROVE Turn(d, Q[d] + 1) = n * Q[d] + d
    OBVIOUS
  <2>1. Q[d] \in Int
    BY <1>2
  <2> QED
    BY <1>1, <2>1, NextTurn
<1>9. t + 1 = Turn(w, Q[w] + 1) /\ w \in Devs
  BY <1>6, <1>7, <1>8
<1>10. \A d \in Devs : Turn(d, Q[d] + 1) \in t + 1 .. (t + 1) + n - 1
  <2>1. (t + 1) + n - 1 = t + n
    BY <1>1
  <2> QED
    BY <1>5, <1>8, <2>1
<1>11. \A d, j : Turn(d, j)' = Turn(d, j)
  BY DEF Turn
<1> QED
  BY <1>1, <1>2, <1>6, <1>9, <1>10 DEF TurnsOk, Turn

\* Nothing about the completions changes but that some of the sender's are polled.
LEMMA QuietCqes ==
    ASSUME CqesOk, UNCHANGED <<rcq, ctsPosted, ctsRetired, devIndex, fifoTail>>, scq' \in SUBSET scq
    PROVE  CqesOk'
<1>1. /\ rcq' = rcq /\ ctsPosted' = ctsPosted /\ ctsRetired' = ctsRetired /\ devIndex' = devIndex
      /\ fifoTail' = fifoTail
  OBVIOUS
<1>2. CqesApart'
  BY <1>1 DEF CqesOk, CqesApart
<1>3. TurnsOk'
  BY <1>1 DEF CqesOk, TurnsOk, Turn
<1>4. \A c \in rcq' : CtsCqeOk(c)'
  BY <1>1 DEF CqesOk, CtsCqeOk, Turn, FifoSlot
<1>5. \A d \in Devs : CtsAwaited(d)'
  BY <1>1 DEF CqesOk, CtsAwaited, Turn, FifoSlot
<1> QED
  BY <1>2, <1>3, <1>4, <1>5 DEF CqesOk

\* Requests that are freed leave the window to the others.
LEMMA FreedClose ==
    ASSUME SendsClose, OnlyFreed
    PROVE  SendsClose'
BY DEF SendsClose, OnlyFreed, Window

\* New completions of the receiver for which the QP had none.
LEMMA CqesAdded ==
    ASSUME CqesApart, NEW N, rcq' = rcq \cup N,
           \A c, e \in scq' : c.qp = e.qp /\ c.op = e.op => c = e,
           \A c \in N : c.dev = DevOf(c.qp),
           \A c, e \in N : c.qp = e.qp /\ c.wr_id = e.wr_id /\ c.opcode = e.opcode => c = e,
           \A c \in N, e \in rcq : ~(c.qp = e.qp /\ c.wr_id = e.wr_id /\ c.opcode = e.opcode)
    PROVE  CqesApart'
<1>1. \A c \in rcq' : c.dev = DevOf(c.qp)
  BY DEF CqesApart
<1>2. \A c, e \in rcq' : c.qp = e.qp /\ c.wr_id = e.wr_id /\ c.opcode = e.opcode => c = e
  <2> SUFFICES ASSUME NEW c \in rcq', NEW e \in rcq', c.qp = e.qp, c.wr_id = e.wr_id, c.opcode = e.opcode
               PROVE  c = e
    OBVIOUS
  <2>1. CASE c \in rcq /\ e \in rcq
    BY <2>1 DEF CqesApart
  <2>2. CASE c \in N /\ e \in N
    BY <2>2
  <2>3. ~(c \in N /\ e \in rcq) /\ ~(e \in N /\ c \in rcq)
    OBVIOUS
  <2> QED
    BY <2>1, <2>2, <2>3
<1> QED
  BY <1>1, <1>2 DEF CqesApart

\* Completions that are not of a CTS leave the announcements alone.
LEMMA CqesJoin ==
    ASSUME CqesOk, UNCHANGED <<ctsPosted, ctsRetired, devIndex, fifoTail>>, CqesApart',
           NEW N, rcq' = rcq \cup N, \A c \in N : c.opcode # "RDMA_WRITE"
    PROVE  CqesOk'
<1>1. ctsPosted' = ctsPosted /\ ctsRetired' = ctsRetired /\ devIndex' = devIndex /\ fifoTail' = fifoTail
  OBVIOUS
<1>2. TurnsOk'
  BY <1>1 DEF CqesOk, TurnsOk, Turn
<1>3. \A c \in rcq' : CtsCqeOk(c)'
  BY <1>1 DEF CqesOk, CtsCqeOk, Turn, FifoSlot
<1>4. ASSUME NEW d \in Devs PROVE CtsAwaited(d)'
  <2>1. CtsAwaited(d) /\ \A c \in rcq : c \in rcq'
    BY DEF CqesOk
  <2> QED
    BY <1>1, <2>1 DEF CtsAwaited, Turn, FifoSlot
<1> QED
  BY <1>2, <1>3, <1>4 DEF CqesOk

\* ncclIbIrecv: the CTS takes its device's turn, and is awaited if it is signaled.
LEMMA IrecvCqes ==
    ASSUME RecvInv, CqesOk, NEW recv \in Receives, Irecv(recv)
    PROVE  CqesOk'
<1>1. /\ TypeOK /\ fifoTail \in Nat /\ devIndex \in Devs /\ ctsPosted \in [Devs -> Nat]
      /\ ctsRetired \in [Devs -> Nat] /\ DevOf(devIndex) = devIndex /\ devIndex \in Qps
  BY OpsKnown, DevOfDev DEF TypeOK
<1>2. FreeReqs(rreqs) # {}
  BY DEF Irecv
<1>3. PICK id \in ReqIds : id = GetRequest(rreqs) /\ rreqs[id].events = NoEvents
  BY <1>2, RecvReqGiven
<1>4. \A c \in rcq : c.wr_id # id
  BY <1>3, NothingLeft
<1>5. PICK v \in Devs, p \in Nat, t \in Nat : v = devIndex /\ p = ctsPosted[v] /\ t = fifoTail
  BY <1>1
<1>6. PICK cqe : cqe = [dev |-> v, qp |-> v, opcode |-> "RDMA_WRITE", wr_id |-> id, imm |-> p + 1, op |-> t + 1]
  OBVIOUS
<1>7. /\ cqe.dev = v /\ cqe.qp = v /\ cqe.opcode = "RDMA_WRITE" /\ cqe.wr_id = id /\ cqe.imm = p + 1
      /\ cqe.op = t + 1
  BY <1>6
<1>8. PICK N : N = IF CtsSignaled THEN {cqe} ELSE {}
  OBVIOUS
<1>9. rcq' = rcq \cup N /\ scq' = scq
  BY <1>1, <1>3, <1>5, <1>6, <1>8 DEF Irecv
<1>10. /\ fifoTail' = fifoTail + 1 /\ devIndex' = NextDevIndex /\ ctsRetired' = ctsRetired
       /\ ctsPosted' = [ctsPosted EXCEPT ![devIndex] = @ + 1]
  BY <1>1 DEF Irecv
<1>11. ctsPosted'[v] = p + 1 /\ \A d \in Devs \ {v} : ctsPosted'[d] = ctsPosted[d]
  BY <1>1, <1>5, <1>10
<1>12. CqesApart'
  <2>1. CqesApart
    BY DEF CqesOk
  <2>2. \A c \in N : c = cqe
    BY <1>8
  <2>3. \A c, e \in scq' : c.qp = e.qp /\ c.op = e.op => c = e
    BY <1>9, <2>1 DEF CqesApart
  <2>4. \A c \in N : c.dev = DevOf(c.qp)
    <3>1. DevOf(v) = v
      BY <1>1, <1>5
    <3> QED
      BY <1>7, <2>2, <3>1
  <2>5. \A c, e \in N : c.qp = e.qp /\ c.wr_id = e.wr_id /\ c.opcode = e.opcode => c = e
    BY <2>2
  <2>6. \A c \in N, e \in rcq : ~(c.qp = e.qp /\ c.wr_id = e.wr_id /\ c.opcode = e.opcode)
    BY <1>4, <1>7, <2>2
  <2>7. rcq' = rcq \cup N
    BY <1>9
  <2> QED
    BY <2>1, <2>3, <2>4, <2>5, <2>6, <2>7, CqesAdded
<1>13. TurnsOk'
  BY <1>1, <1>10, TurnsGoOn DEF CqesOk
<1>14. Turn(v, p + 1) = t
  BY <1>5 DEF CqesOk, TurnsOk
<1>15. ctsRetired[v] \in Nat /\ ctsRetired[v] <= p
  BY <1>1, <1>5 DEF CqesOk, CtsAwaited
<1>16. CtsSignaled <=> FifoSlot(t) = v
  BY <1>1, <1>5 DEF CtsSignaled
<1>17. ASSUME NEW c \in rcq' PROVE CtsCqeOk(c)'
  <2>1. CASE c \in rcq
    <3>1. CtsCqeOk(c) /\ c.dev \in Devs /\ c.imm \in Nat
      BY <1>1, <2>1, CqeFields DEF CqesOk, TypeOK
    <3>2. ctsPosted[c.dev] \in Nat /\ ctsRetired[c.dev] \in Nat
      BY <1>1, <3>1
    <3>3. ctsPosted'[c.dev] = ctsPosted[c.dev] \/ ctsPosted'[c.dev] = ctsPosted[c.dev] + 1
      BY <1>5, <1>11, <3>1
    <3>4. c.imm \in ctsRetired[c.dev] + 1 .. ctsPosted[c.dev] => c.imm \in ctsRetired[c.dev] + 1 .. ctsPosted'[c.dev]
      BY <3>1, <3>2, <3>3
    <3> QED
      BY <1>10, <3>1, <3>4 DEF CtsCqeOk, Turn, FifoSlot
  <2>2. CASE c \notin rcq
    <3>1. c = cqe /\ FifoSlot(t) = v
      BY <1>8, <1>9, <1>16, <2>2
    <3>2. p + 1 \in ctsRetired[v] + 1 .. p + 1
      BY <1>15
    <3>3. (t + 1) - 1 = t
      OBVIOUS
    <3> QED
      BY <1>7, <1>10, <1>11, <1>14, <3>1, <3>2, <3>3 DEF CtsCqeOk, Turn, FifoSlot
  <2> QED
    BY <2>1, <2>2
<1>18. ASSUME NEW d \in Devs PROVE CtsAwaited(d)'
  <2>1. CtsAwaited(d) /\ ctsPosted[d] \in Nat /\ ctsRetired[d] \in Nat
    BY <1>1 DEF CqesOk
  <2>2. CASE d # v
    <3>1. ctsPosted'[d] = ctsPosted[d] /\ ctsRetired'[d] = ctsRetired[d] /\ \A c \in rcq : c \in rcq'
      BY <1>9, <1>10, <1>11, <2>2
    <3> QED
      BY <2>1, <3>1 DEF CtsAwaited, Turn, FifoSlot
  <2>3. CASE d = v
    <3>1. ctsRetired[v] <= p + 1
      BY <1>15
    <3>2. ASSUME NEW j \in ctsRetired[v] + 1 .. p + 1, FifoSlot(Turn(v, j)) = v
          PROVE  \E c \in rcq' : c.opcode = "RDMA_WRITE" /\ c.dev = v /\ c.imm = j
      <4>1. CASE j = p + 1
        <5>1. cqe \in rcq'
          BY <1>8, <1>9, <1>14, <1>16, <3>2, <4>1
        <5> QED
          BY <1>7, <4>1, <5>1
      <4>2. CASE j # p + 1
        <5>1. j \in ctsRetired[v] + 1 .. p
          BY <1>15, <4>2
        <5>2. \E c \in rcq : c.opcode = "RDMA_WRITE" /\ c.dev = v /\ c.imm = j
          BY <1>5, <2>1, <2>3, <3>2, <5>1 DEF CtsAwaited
        <5> QED
          BY <1>9, <5>2
      <4> QED
        BY <4>1, <4>2
    <3> QED
      BY <1>10, <1>11, <2>3, <3>1, <3>2 DEF CtsAwaited, Turn, FifoSlot
  <2> QED
    BY <2>2, <2>3
<1> QED
  BY <1>12, <1>13, <1>17, <1>18 DEF CqesOk

\* ncclIbIflush: a read for each device, with a request that no completion names.
LEMMA IflushCqes ==
    ASSUME RecvInv, CqesOk, NEW k \in DOMAIN ops, Iflush(k)
    PROVE  CqesOk'
<1>1. UNCHANGED <<ctsPosted, ctsRetired, devIndex, fifoTail, scq>>
  BY DEF Iflush
<1>2. CASE rcq' = rcq
  BY <1>1, <1>2, QuietCqes
<1>3. CASE rcq' # rcq
  <2>1. FreeReqs(rreqs) # {}
    BY <1>3 DEF Iflush
  <2>2. PICK id \in ReqIds : id = GetRequest(rreqs) /\ rreqs[id].events = NoEvents
    BY <2>1, RecvReqGiven
  <2>3. PICK N : N = {[dev |-> d, qp |-> d, opcode |-> "RDMA_READ", wr_id |-> id, imm |-> 0, op |-> k] : d \in Devs}
    OBVIOUS
  <2>4. rcq' = rcq \cup N
    BY <1>3, <2>2, <2>3 DEF Iflush
  <2>5. \A c \in N : /\ c.dev \in Devs /\ c.opcode = "RDMA_READ" /\ c.wr_id = id /\ c.qp = c.dev
                     /\ c = [dev |-> c.dev, qp |-> c.dev, opcode |-> "RDMA_READ", wr_id |-> id, imm |-> 0, op |-> k]
    BY <2>3
  <2>6. \A c \in rcq : c.wr_id # id
    BY <2>2, NothingLeft
  <2>7. \A c \in N : c.dev = DevOf(c.qp)
    BY <2>5, DevOfDev
  <2>8. \A c, e \in N : c.qp = e.qp => c = e
    <3> SUFFICES ASSUME NEW c \in N, NEW e \in N, c.qp = e.qp PROVE c = e
      OBVIOUS
    <3>1. c.dev = e.dev
      BY <2>5
    <3> QED
      BY <2>5, <3>1
  <2>9. CqesApart'
    <3>1. CqesApart /\ scq' = scq
      BY <1>1 DEF CqesOk
    <3>2. \A c, e \in scq' : c.qp = e.qp /\ c.op = e.op => c = e
      BY <3>1 DEF CqesApart
    <3>3. \A c \in N, e \in rcq : ~(c.qp = e.qp /\ c.wr_id = e.wr_id /\ c.opcode = e.opcode)
      BY <2>5, <2>6
    <3> QED
      BY <2>4, <2>7, <2>8, <3>1, <3>2, <3>3, CqesAdded
  <2>10. \A c \in N : c.opcode # "RDMA_WRITE"
    BY <2>5
  <2> QED
    BY <1>1, <2>4, <2>9, <2>10, CqesJoin
<1> QED
  BY <1>2, <1>3

\* The fabric: a work request has no completion yet, nor has its message.
LEMMA DeliverCqes ==
    ASSUME RecvInv, SendInv, CqesOk, NEW q \in Qps, Deliver(q)
    PROVE  CqesOk'
<1>1. PICK m \in Msg, w \in ReqIds, k \in Nat, c \in RecvCqe :
              m = Head(dataWire[q]) /\ Delivering(q, m, w, k, c)
  BY DeliverNamed
<1>2. PICK s : SendDone(q, m, k, s)
  BY <1>1, DeliverDone
<1>3. UNCHANGED <<ctsPosted, ctsRetired, devIndex, fifoTail>>
  BY DEF Deliver
<1>4. /\ c.dev = DevOf(q) /\ c.qp = q /\ c.opcode = "RECV_RDMA_WITH_IMM" /\ c.wr_id = w /\ rcq' = rcq \cup {c}
      /\ w = recvQueue[q][1] /\ k = QueuedOp(q, 1) /\ 1 \in 1 .. Len(recvQueue[q])
  BY <1>1 DEF Delivering
<1>5. s.qp = q /\ s.op = k /\ scq' = scq \cup {s}
  BY <1>2 DEF SendDone
<1>6. ASSUME NEW e \in rcq PROVE ~(c.qp = e.qp /\ c.wr_id = e.wr_id /\ c.opcode = e.opcode)
  <2>1. RecvCqeOk(e)
    BY DEF RecvInv
  <2> QED
    BY <1>4, <2>1 DEF RecvCqeOk
<1>7. ASSUME NEW e \in scq PROVE ~(e.qp = s.qp /\ e.op = s.op)
  <2>1. SendCqeOk(e)
    BY DEF SendInv
  <2>2. e.qp = q => e.op < k
    BY <1>4, <2>1 DEF SendCqeOk
  <2> QED
    BY <1>5, <2>2
<1>8. CqesApart
  BY DEF CqesOk
<1>9. \A x, e \in scq' : x.qp = e.qp /\ x.op = e.op => x = e
  BY <1>5, <1>7, <1>8 DEF CqesApart
<1>10. PICK N : N = {c}
  OBVIOUS
<1>11. rcq' = rcq \cup N /\ \A e \in N : e = c
  BY <1>4, <1>10
<1>12. \A x \in N : x.dev = DevOf(x.qp)
  BY <1>4, <1>11
<1>13. \A x, e \in N : x.qp = e.qp /\ x.wr_id = e.wr_id /\ x.opcode = e.opcode => x = e
  BY <1>11
<1>14. \A x \in N, e \in rcq : ~(x.qp = e.qp /\ x.wr_id = e.wr_id /\ x.opcode = e.opcode)
  BY <1>6, <1>11
<1>15. CqesApart'
  BY <1>8, <1>9, <1>11, <1>12, <1>13, <1>14, CqesAdded
<1>16. \A x \in N : x.opcode # "RDMA_WRITE"
  BY <1>4, <1>11
<1> QED
  BY <1>3, <1>11, <1>15, <1>16, CqesJoin

\* A device has one signaled CTS that was not polled, at most.
LEMMA OneCtsPending ==
    ASSUME RecvInv, CqesOk, NEW c \in rcq, NEW e \in rcq, c.opcode = "RDMA_WRITE", e.opcode = "RDMA_WRITE",
           c.dev = e.dev
    PROVE  c = e
<1>1. CtsCqeOk(c) /\ CtsCqeOk(e) /\ RecvCqeOk(c) /\ RecvCqeOk(e) /\ c.wr_id \in ReqIds /\ e.wr_id \in ReqIds
  BY CqeFields DEF CqesOk, RecvInv, TypeOK
<1>2. /\ rreqs[c.wr_id].type = "RECV" /\ rreqs[c.wr_id].op = c.op
      /\ rreqs[e.wr_id].type = "RECV" /\ rreqs[e.wr_id].op = e.op
  BY <1>1 DEF RecvCqeOk
<1>3. /\ c.op \in 1 .. fifoTail /\ ops[c.op].state # "retired"
      /\ e.op \in 1 .. fifoTail /\ ops[e.op].state # "retired"
  BY <1>1, <1>2, ReqKnown
<1>4. FifoSlot(c.op - 1) = FifoSlot(e.op - 1) /\ c.qp = e.qp
  BY <1>1 DEF CtsCqeOk
<1>5. c.op = e.op
  BY <1>3, <1>4, SlotsApart
<1>6. c.wr_id = e.wr_id
  BY <1>1, <1>2, <1>5, ReqKnown
<1> QED
  BY <1>4, <1>6 DEF CqesOk, CqesApart

\* ncclIbTest on the receive communicator: a CTS that is polled retires those before it.
LEMMA RecvTestPollCqes ==
    ASSUME RecvInv, CqesOk, NEW cqe \in rcq, RecvTestPoll(cqe)
    PROVE  CqesOk'
<1>1. /\ rcq' = rcq \ {cqe} /\ scq' = scq /\ ctsPosted' = ctsPosted /\ devIndex' = devIndex /\ fifoTail' = fifoTail
      /\ ctsRetired' = IF cqe.opcode = "RDMA_WRITE" THEN [ctsRetired EXCEPT ![cqe.dev] = cqe.imm] ELSE ctsRetired
  BY DEF RecvTestPoll
<1>2. /\ ctsRetired \in [Devs -> Nat] /\ ctsPosted \in [Devs -> Nat] /\ cqe.dev \in Devs /\ cqe.imm \in Nat
      /\ CtsCqeOk(cqe)
  BY CqeFields DEF RecvInv, TypeOK, CqesOk
<1>3. CqesApart'
  BY <1>1 DEF CqesOk, CqesApart
<1>4. TurnsOk'
  BY <1>1 DEF CqesOk, TurnsOk, Turn
<1>5. ASSUME NEW d \in Devs
      PROVE  ctsRetired'[d] = IF cqe.opcode = "RDMA_WRITE" /\ d = cqe.dev THEN cqe.imm ELSE ctsRetired[d]
  BY <1>1, <1>2
<1>6. ASSUME NEW c \in rcq' PROVE CtsCqeOk(c)'
  <2>1. c \in rcq /\ c # cqe /\ CtsCqeOk(c) /\ c.dev \in Devs
    BY <1>1, CqeFields DEF CqesOk, RecvInv, TypeOK
  <2>2. c.opcode = "RDMA_WRITE" => ctsRetired'[c.dev] = ctsRetired[c.dev]
    BY <1>5, <2>1, OneCtsPending
  <2> QED
    BY <1>1, <2>1, <2>2 DEF CtsCqeOk, Turn, FifoSlot
<1>7. ASSUME NEW d \in Devs PROVE CtsAwaited(d)'
  <2>1. CtsAwaited(d) /\ ctsPosted[d] \in Nat /\ ctsRetired[d] \in Nat
    BY <1>2 DEF CqesOk
  <2>2. PICK r \in Nat, x \in Nat, p \in Nat : r = ctsRetired[d] /\ x = ctsRetired'[d] /\ p = ctsPosted[d]
    BY <1>2, <1>5, <2>1
  <2>3. x = r \/ (cqe.opcode = "RDMA_WRITE" /\ d = cqe.dev /\ x = cqe.imm /\ r < x /\ x <= p)
    BY <1>2, <1>5, <2>2 DEF CtsCqeOk
  <2>4. cqe.opcode = "RDMA_WRITE" /\ d = cqe.dev => x = cqe.imm
    BY <1>5, <2>2
  <2>5. x <= p
    BY <2>1, <2>2, <2>3 DEF CtsAwaited
  <2>6. ASSUME NEW j \in x + 1 .. p, FifoSlot(Turn(d, j)) = d
        PROVE  \E c \in rcq' : c.opcode = "RDMA_WRITE" /\ c.dev = d /\ c.imm = j
    <3>1. j \in r + 1 .. p
      BY <2>3
    <3>2. PICK c \in rcq : c.opcode = "RDMA_WRITE" /\ c.dev = d /\ c.imm = j
      BY <2>1, <2>2, <2>6, <3>1 DEF CtsAwaited
    <3>3. j # x
      OBVIOUS
    <3>4. c # cqe
      BY <2>4, <3>2, <3>3
    <3> QED
      BY <1>1, <3>2, <3>4
  <2> QED
    BY <1>1, <2>2, <2>5, <2>6 DEF CtsAwaited, Turn, FifoSlot
<1> QED
  BY <1>3, <1>4, <1>6, <1>7 DEF CqesOk

\* ncclIbIsend: the caller's window covers the send that is matched.
LEMMA IsendQueues ==
    ASSUME RecvInv, SendInv, QueueInv, NEW tag \in Tags, NEW size \in SendSizes, Isend(tag, size)
    PROVE  QueueInv'
<1>1. PICK k \in Nat \ {0}, n \in Nat \ {0}, r \in Recvs, id \in ReqIds, len \in Nat, x \in Nat :
         Matching(tag, size, k, n, r, id, len, x)
  BY IsendMatches
<1>2. SendMatched(k, n, r, id, len, x)
  BY <1>1, IsendMatched
<1>3. /\ k = fifoHead + 1 /\ sreqs'[id].op = k /\ \A j \in ReqIds \ {id} : sreqs'[j] = sreqs[j]
      /\ sreqs[id].type = "UNUSED"
  BY <1>2 DEF SendMatched
<1>4. PICK W \in Nat \ {0} : W = Window
  BY Limits
<1>5. ASSUME NEW j \in ReqIds, sreqs[j].type # "UNUSED"
      PROVE  sreqs[j].op \in Nat /\ k < sreqs[j].op + W /\ sreqs[j].op < k + W
  <2>1. SendReqOk(j) /\ sreqs[j].op \in Nat
    BY SendTypes, OpsKnown, ReqFields DEF SendInv
  <2>2. sreqs[j].op <= k
    BY <1>3, <1>5, <2>1 DEF SendReqOk
  <2>3. fifoHead + 1 < sreqs[j].op + Window
    BY <1>5 DEF Isend, SendWindowOpen, Active
  <2> QED
    BY <1>3, <1>4, <2>1, <2>2, <2>3
<1>6. SendsClose'
  <2> SUFFICES ASSUME NEW i \in ReqIds, NEW j \in ReqIds, sreqs'[i].type # "UNUSED", sreqs'[j].type # "UNUSED"
               PROVE  sreqs'[i].op < sreqs'[j].op + W
    BY <1>4 DEF SendsClose, Window
  <2>1. CASE i = id /\ j = id
    BY <1>3, <2>1
  <2>2. CASE i = id /\ j # id
    BY <1>3, <1>5, <2>2
  <2>3. CASE i # id /\ j = id
    BY <1>3, <1>5, <2>3
  <2>4. CASE i # id /\ j # id
    BY <1>3, <1>4, <2>4 DEF QueueInv, SendsClose
  <2> QED
    BY <2>1, <2>2, <2>3, <2>4
<1>7. UNCHANGED <<rcq, ctsPosted, ctsRetired, devIndex, fifoTail>> /\ scq' \in SUBSET scq
  BY DEF Isend, rvars
<1> QED
  BY <1>6, <1>7, QuietCqes DEF QueueInv

\* Nothing is under way at first, and device 0 has the first turn.
LEMMA QueueInit == Init => QueueInv
<1> SUFFICES ASSUME Init PROVE QueueInv
  OBVIOUS
<1>1. \A id \in ReqIds : sreqs[id].type = "UNUSED"
  BY UnusedReq DEF Init
<1>2. rcq = {} /\ scq = {} /\ fifoTail = 0 /\ devIndex = 0
      /\ \A d \in Devs : ctsPosted[d] = 0 /\ ctsRetired[d] = 0
  BY DEF Init
<1>3. PICK n \in Nat \ {0} : n = NDevs
  BY QpCounts
<1>4. ASSUME NEW d \in Devs PROVE Turn(d, 0 + 1) = d /\ d \in 0 .. 0 + n - 1
  <2>1. d \in 0 .. n - 1
    BY <1>3 DEF Devs
  <2>2. Turn(d, 0 + 1) = n * 0 + d
    BY <1>3, NextTurn
  <2> QED
    BY <2>1, <2>2
<1>5. 0 \in Devs
  BY <1>3 DEF Devs
<1>6. TurnsOk
  BY <1>2, <1>3, <1>4, <1>5 DEF TurnsOk
<1>7. \A d \in Devs : CtsAwaited(d)
  BY <1>2 DEF CtsAwaited
<1>8. SendsClose
  BY <1>1 DEF SendsClose
<1> QED
  BY <1>2, <1>6, <1>7, <1>8 DEF QueueInv, CqesOk, CqesApart

\* Every step keeps them.
LEMMA QueueNext == RecvInv /\ SendInv /\ QueueInv /\ [Next]_vars => QueueInv'
<1> SUFFICES ASSUME RecvInv, SendInv, QueueInv, [Next]_vars PROVE QueueInv'
  OBVIOUS
<1>1. SendsClose /\ CqesOk
  BY DEF QueueInv
<1>2. ASSUME sreqs' = sreqs PROVE SendsClose'
  <2>1. OnlyFreed
    BY <1>2 DEF OnlyFreed
  <2> QED
    BY <1>1, <2>1, FreedClose
<1>3. ASSUME OnlyFreed, UNCHANGED <<rcq, ctsPosted, ctsRetired, devIndex, fifoTail>>, scq' \in SUBSET scq
      PROVE  QueueInv'
  BY <1>1, <1>3, FreedClose, QuietCqes DEF QueueInv
<1>4. ASSUME NEW recv \in Receives, Irecv(recv) PROVE QueueInv'
  <2>1. sreqs' = sreqs
    BY <1>4 DEF Irecv, svars
  <2> QED
    BY <1>1, <1>2, <1>4, <2>1, IrecvCqes DEF QueueInv
<1>5. ASSUME NEW k \in DOMAIN ops, Iflush(k) PROVE QueueInv'
  <2>1. sreqs' = sreqs
    BY <1>5 DEF Iflush, svars
  <2> QED
    BY <1>1, <1>2, <1>5, <2>1, IflushCqes DEF QueueInv
<1>6. ASSUME NEW cqe \in rcq, RecvTestPoll(cqe) PROVE QueueInv'
  <2>1. sreqs' = sreqs
    BY <1>6 DEF RecvTestPoll, svars
  <2> QED
    BY <1>1, <1>2, <1>6, <2>1, RecvTestPollCqes DEF QueueInv
<1>7. ASSUME NEW q \in Qps, Deliver(q) PROVE QueueInv'
  <2>1. sreqs' = sreqs
    BY <1>7 DEF Deliver, svars
  <2> QED
    BY <1>1, <1>2, <1>7, <2>1, DeliverCqes DEF QueueInv
<1>8. ASSUME NEW id \in ReqIds, RecvTestDone(id) PROVE QueueInv'
  <2>1. UNCHANGED <<sreqs, rcq, ctsPosted, ctsRetired, devIndex, fifoTail, scq>>
    BY <1>8 DEF RecvTestDone, svars, fabric
  <2>2. OnlyFreed
    BY <2>1 DEF OnlyFreed
  <2> QED
    BY <1>3, <2>1, <2>2
<1>9. CASE SendAny
  BY <1>9, IsendQueues DEF SendAny
<1>10. CASE IsendReturn
  <2>1. UNCHANGED <<sreqs, rcq, ctsPosted, ctsRetired, devIndex, fifoTail, scq>>
    BY <1>10 DEF IsendReturn, rvars, fabric
  <2>2. OnlyFreed
    BY <2>1 DEF OnlyFreed
  <2> QED
    BY <1>3, <2>1, <2>2
<1>11. ASSUME NEW cqe \in scq, SendTestPoll(cqe) PROVE QueueInv'
  <2>1. cqe.dev \in Devs /\ \A id \in ReqIds : sreqs[id] \in Req
    BY OpsKnown, SendTypes, SendCqeFields
  <2>2. \A id \in ReqIds : sreqs'[id] = CountedDown(sreqs[id], cqe.dev) \/ sreqs'[id] = sreqs[id]
    BY <1>11 DEF SendTestPoll, CountedDown
  <2>3. OnlyFreed
    BY <2>1, <2>2, CountDown DEF OnlyFreed
  <2>4. UNCHANGED <<rcq, ctsPosted, ctsRetired, devIndex, fifoTail>> /\ scq' \in SUBSET scq
    BY <1>11 DEF SendTestPoll, rvars
  <2> QED
    BY <1>3, <2>3, <2>4
<1>12. ASSUME NEW id \in ReqIds, SendTestDone(id) PROVE QueueInv'
  <2>1. sreqs \in [ReqIds -> Req] /\ sreqs' = [sreqs EXCEPT ![id] = Unused]
    BY <1>12 DEF RecvInv, TypeOK, SendTestDone, FreeRequest
  <2>2. OnlyFreed
    BY <2>1, UnusedReq DEF OnlyFreed
  <2>3. UNCHANGED <<rcq, ctsPosted, ctsRetired, devIndex, fifoTail, scq>>
    BY <1>12 DEF SendTestDone, rvars, fabric
  <2> QED
    BY <1>3, <2>2, <2>3
<1>13. ASSUME NEW e \in ctsWire, LandCts(e) PROVE QueueInv'
  <2>1. UNCHANGED <<sreqs, rcq, ctsPosted, ctsRetired, devIndex, fifoTail, scq>>
    BY <1>13 DEF LandCts, rvars
  <2>2. OnlyFreed
    BY <2>1 DEF OnlyFreed
  <2> QED
    BY <1>3, <2>1, <2>2
<1>14. CASE UNCHANGED vars
  <2>1. UNCHANGED <<sreqs, rcq, ctsPosted, ctsRetired, devIndex, fifoTail, scq>>
    BY <1>14 DEF vars, rvars, svars, fabric
  <2>2. OnlyFreed
    BY <2>1 DEF OnlyFreed
  <2> QED
    BY <1>3, <2>1, <2>2
<1> QED
  BY <1>4, <1>5, <1>6, <1>7, <1>8, <1>9, <1>10, <1>11, <1>12, <1>13, <1>14
  DEF Next, FlushAny, RecvTest, SendTest, LandAny

\* A completion of the sender names requests of its receive, one for each buffer.
LEMMA CqeNamed ==
    ASSUME RecvInv, SendInv, NEW c \in scq
    PROVE  /\ Len(c.ids) \in 1 .. MaxRecvs /\ c.op \in Nat
           /\ c.ids[1] \in ReqIds /\ sreqs[c.ids[1]].type = "SEND" /\ sreqs[c.ids[1]].op = c.op
<1>1. SendCqeOk(c) /\ c.ids \in Seq(ReqIds) /\ c.op \in Nat
  BY OpsKnown, SendTypes, SendCqeFields DEF SendInv
<1>2. c.op \in 1 .. fifoTail
  BY <1>1, OpsKnown DEF SendCqeOk
<1>3. Len(ops[c.op].recv) \in 1 .. MaxRecvs
  BY <1>2, OpsKnown, OpFields, RecvFields
<1>4. Names(c.ids, c.op)
  BY <1>1 DEF SendCqeOk
<1>5. Len(c.ids) \in 1 .. MaxRecvs /\ \A j \in 1 .. Len(c.ids) : sreqs[c.ids[j]].type = "SEND" /\ sreqs[c.ids[j]].op = c.op
  BY <1>3, <1>4 DEF Names
<1>6. 1 \in 1 .. Len(c.ids)
  BY <1>5, Limits
<1>7. c.ids[1] \in ReqIds
  BY <1>1, <1>6
<1> QED
  BY <1>1, <1>5, <1>6, <1>7

\* So does a message.
LEMMA MsgNamed ==
    ASSUME RecvInv, SendInv, NEW q \in Qps, NEW i \in 1 .. Len(dataWire[q])
    PROVE  /\ Len(dataWire[q][i].ids) \in 1 .. MaxRecvs /\ i \in 1 .. Len(recvQueue[q]) /\ QueuedOp(q, i) \in Nat
           /\ \E id \in ReqIds : sreqs[id].type = "SEND" /\ sreqs[id].op = QueuedOp(q, i)
<1>1. /\ QpOk(q) /\ Len(recvQueue[q]) \in Nat /\ Len(dataWire[q]) \in Nat /\ dataWire[q] \in Seq(Msg)
      /\ \A j \in 1 .. Len(recvQueue[q]) : recvQueue[q][j] \in ReqIds
  BY OpsKnown, RecvTypes DEF RecvInv
<1>2. i \in 1 .. Len(recvQueue[q])
  BY <1>1 DEF QpOk
<1>3. PICK k : k = QueuedOp(q, i)
  OBVIOUS
<1>4. k \in 1 .. fifoTail /\ k \in Nat
  <2>1. rreqs[recvQueue[q][i]].type = "RECV" /\ recvQueue[q][i] \in ReqIds
    BY <1>1, <1>2 DEF QpOk
  <2> QED
    BY <1>3, <2>1, ReqKnown DEF QueuedOp
<1>5. PICK m \in Msg : m = dataWire[q][i]
  BY <1>1
<1>6. m.ids \in Seq(ReqIds)
  BY MsgFields
<1>7. Names(m.ids, k)
  <2>1. MsgOk(q, i)
    BY DEF SendInv
  <2> QED
    BY <1>3, <1>5, <2>1 DEF MsgOk, MsgFits
<1>8. Len(ops[k].recv) \in 1 .. MaxRecvs
  BY <1>4, OpsKnown, OpFields, RecvFields
<1>9. Len(m.ids) \in 1 .. MaxRecvs /\ \A j \in 1 .. Len(m.ids) : sreqs[m.ids[j]].type = "SEND" /\ sreqs[m.ids[j]].op = k
  BY <1>7, <1>8 DEF Names
<1>10. 1 \in 1 .. Len(m.ids)
  BY <1>9, Limits
<1>11. m.ids[1] \in ReqIds
  BY <1>6, <1>10
<1>12. \E id \in ReqIds : sreqs[id].type = "SEND" /\ sreqs[id].op = k
  BY <1>9, <1>10, <1>11
<1> QED
  BY <1>2, <1>3, <1>4, <1>5, <1>9, <1>12

\* Work requests of one QP are of different requests.
LEMMA RecvQueueFits ==
    ASSUME RecvInv, NEW q \in Qps
    PROVE  Len(recvQueue[q]) <= MaxRequests
<1>1. PICK L \in Nat : L = Len(recvQueue[q]) /\ \A i \in 1 .. L : recvQueue[q][i] \in ReqIds /\ QueuedOp(q, i) \in Nat
  BY OpsKnown, RecvTypes
<1>2. PICK S : S = 1 .. L
  OBVIOUS
<1>3. PICK f : f = [i \in S |-> recvQueue[q][i]]
  OBVIOUS
<1>4. f \in [S -> ReqIds]
  BY <1>1, <1>2, <1>3
<1>5. ASSUME NEW i \in S, NEW j \in S, f[i] = f[j] PROVE i = j
  <2>1. QueuedOp(q, i) = QueuedOp(q, j)
    BY <1>3, <1>5 DEF QueuedOp
  <2>2. \A a, b \in 1 .. L : a < b => QueuedOp(q, a) < QueuedOp(q, b)
    BY <1>1 DEF RecvInv, QpOk
  <2> QED
    BY <1>1, <1>2, <2>1, <2>2
<1>6. f \in Injection(S, ReqIds)
  BY <1>4, <1>5 DEF Injection, IsInjective
<1>7. Cardinality(S) <= Cardinality(ReqIds)
  BY <1>6, PoolSize, FS_Injection
<1>8. Cardinality(S) = L
  <2>1. PICK a \in Int, b \in Int : a = 1 /\ b = L
    BY <1>1
  <2>2. Cardinality(a .. b) = IF a > b THEN 0 ELSE b - a + 1
    BY FS_Interval
  <2> QED
    BY <1>1, <1>2, <2>1, <2>2
<1> QED
  BY <1>1, <1>7, <1>8, PoolSize

\* A CTS in every MaxRequests of a device is signaled.
LEMMA SignaledTurn ==
    ASSUME NEW d \in Devs, NEW r \in Nat
    PROVE  \E j \in r + 1 .. r + MaxRequests : FifoSlot(Turn(d, j)) = d
<1>1. PICK n \in Nat \ {0}, M \in Nat \ {0} : n = NDevs /\ M = MaxRequests /\ n <= M
  BY QpCounts, Limits, SlotAssumption
<1>2. PICK y \in Nat : y = r + M - 1
  BY <1>1
<1>3. PICK i \in Nat, z \in 0 .. M - 1 : y = M * i + z
  <2>1. y \div M \in Nat /\ y = M * (y \div M) + (y % M) /\ y % M \in 0 .. M - 1
    BY DivFact
  <2> QED
    BY <2>1, Zenon
<1>4. PICK p \in Nat : p = M * i
  OBVIOUS
<1>5. p + 1 \in r + 1 .. r + M
  BY <1>2, <1>3, <1>4
<1>6. d \in 0 .. M - 1 /\ d \in Int
  BY <1>1 DEF Devs
<1>7. Turn(d, p + 1) = n * p + d /\ Turn(d, p + 1) \in Int
  <2>1. p \in Int
    OBVIOUS
  <2> QED
    BY <1>1, <2>1, NextTurn, Zenon
<1>8. n * p = M * (n * i) /\ n * i \in Int
  BY <1>4
<1>9. Turn(d, p + 1) = M * (n * i) + d
  BY <1>7, <1>8
<1>10. Turn(d, p + 1) % M = d
  <2>1. PICK c \in Int, a \in Int : c = n * i /\ a = Turn(d, p + 1)
    BY <1>7, <1>8
  <2>2. a = M * c + d
    BY <1>9, <2>1
  <2> QED
    BY <1>6, <2>1, <2>2, ModUnique
<1> QED
  BY <1>1, <1>5, <1>10 DEF FifoSlot

\* The CTS writes a device has posted since the last that was retired.
LEMMA CtsQueueFits ==
    ASSUME RecvInv, CqesOk, NEW d \in Devs
    PROVE  ctsPosted[d] - ctsRetired[d] <= 2 * MaxRequests
<1>1. PICK p \in Nat, r \in Nat, M \in Nat \ {0}, t \in Nat, n \in Nat \ {0}, W \in Nat :
         /\ p = ctsPosted[d] /\ r = ctsRetired[d] /\ M = MaxRequests /\ t = fifoTail /\ n = NDevs
         /\ W = Window /\ W < M
  BY Limits, QpCounts DEF RecvInv, TypeOK
<1> SUFFICES ASSUME p > r + 2 * M PROVE FALSE
  BY <1>1
<1>2. PICK j \in r + 1 .. r + M : FifoSlot(Turn(d, j)) = d
  BY <1>1, SignaledTurn
<1>3. j \in Nat /\ j <= r + M /\ j \in r + 1 .. p /\ p - j >= M
  BY <1>1
<1>4. PICK c \in rcq : c.opcode = "RDMA_WRITE" /\ c.dev = d /\ c.imm = j
  BY <1>1, <1>2, <1>3 DEF CqesOk, CtsAwaited
<1>5. CtsCqeOk(c) /\ RecvCqeOk(c) /\ c.wr_id \in ReqIds
  BY CqeFields DEF CqesOk, RecvInv, TypeOK
<1>6. c.op = Turn(d, j) + 1
  BY <1>4, <1>5 DEF CtsCqeOk
<1>7. rreqs[c.wr_id].type = "RECV" /\ rreqs[c.wr_id].op = c.op
  BY <1>4, <1>5 DEF RecvCqeOk
<1>8. c.op \in 1 .. t /\ ops[c.op].state = "posted"
  BY <1>1, <1>5, <1>7, ReqKnown
<1>9. ~(c.op + W <= t)
  <2>1. StateOk(c.op)
    BY <1>1, <1>8, OpsKnown
  <2> QED
    BY <1>1, <1>8, <2>1 DEF StateOk
<1>10. n * p + d <= t + n - 1
  <2>1. Turn(d, p + 1) \in t .. t + n - 1
    BY <1>1 DEF CqesOk, TurnsOk
  <2>2. Turn(d, p + 1) = n * p + d /\ Turn(d, p + 1) \in Int
    <3>1. p \in Int
      OBVIOUS
    <3> QED
      BY <1>1, <3>1, NextTurn, Zenon
  <2> QED
    BY <1>1, <2>1, <2>2
<1>11. c.op = n * (j - 1) + d + 1
  BY <1>1, <1>6 DEF Turn
<1>12. d \in Nat
  BY <1>1 DEF Devs
<1>13. n * p >= n * (j - 1) + n + W
  <2>1. PICK a \in Nat, b \in Nat : a = j - 1 /\ b = p - j /\ p = a + 1 + b /\ b >= M
    BY <1>1, <1>3
  <2>2. n * p = n * a + n + n * b
    BY <2>1
  <2>3. n * b >= b
    OBVIOUS
  <2>4. PICK u \in Int, v \in Int, w \in Int : u = n * p /\ v = n * a /\ w = n * b
    BY <1>1
  <2> QED
    BY <1>1, <2>1, <2>2, <2>3, <2>4
<1>14. PICK u \in Int, v \in Int : u = n * p /\ v = n * (j - 1)
  BY <1>1, <1>3
<1> QED
  BY <1>1, <1>8, <1>9, <1>10, <1>11, <1>12, <1>13, <1>14

\* The QPs of a device.
QpsOn(d) == {q \in Qps : DevOf(q) = d}

\* A device has QpsPerConn of them, at most.
LEMMA QpsOnDev ==
    ASSUME NEW d \in Devs
    PROVE  IsFiniteSet(QpsOn(d)) /\ Cardinality(QpsOn(d)) \in Nat /\ Cardinality(QpsOn(d)) <= QpsPerConn
<1>1. PICK n \in Nat \ {0}, Q \in Nat \ {0} : n = NDevs /\ Q = QpsPerConn
  BY StripingAssumption
<1>2. PICK T : T = 0 .. Q - 1
  OBVIOUS
<1>3. PICK f : f = [q \in QpsOn(d) |-> q \div n]
  OBVIOUS
<1>4. ASSUME NEW q \in QpsOn(d)
      PROVE  q \in Nat /\ f[q] \in T /\ q = n * f[q] + d
  <2>1. q \in 0 .. Q * n - 1 /\ q % n = d
    BY <1>1 DEF QpsOn, Qps, Nqps, DevOf
  <2>2. PICK z \in Int : z = Q * n
    BY <1>1
  <2>3. q \in Nat
    <3>1. q \in 0 .. z - 1
      BY <2>1, <2>2, Zenon
    <3> QED
      BY <3>1
  <2>4. q \div n \in Nat /\ q = n * (q \div n) + d /\ d \in Nat
    <3>1. q \div n \in Nat /\ q = n * (q \div n) + (q % n)
      BY <2>3, DivFact
    <3>2. d \in Nat
      BY <1>1 DEF Devs
    <3> QED
      BY <2>1, <3>1, <3>2, Zenon
  <2>5. PICK v \in Nat : v = q \div n
    BY <2>4
  <2>6. v < Q
    <3> SUFFICES ASSUME Q <= v PROVE FALSE
      BY <1>1
    <3>1. n * v >= n * Q
      <4>1. CASE Q = v
        BY <4>1
      <4>2. CASE Q < v
        BY <4>2, MultiplesApart
      <4> QED
        BY <4>1, <4>2
    <3>2. PICK a \in Int, b \in Int : a = n * v /\ b = n * Q /\ b = Q * n
      BY <1>1
    <3> QED
      BY <2>1, <2>3, <2>4, <2>5, <3>1, <3>2
  <2> QED
    BY <1>2, <1>3, <2>3, <2>4, <2>5, <2>6
<1>5. \A p, q \in QpsOn(d) : f[p] = f[q] => p = q
  <2> SUFFICES ASSUME NEW p \in QpsOn(d), NEW q \in QpsOn(d), f[p] = f[q] PROVE p = q
    OBVIOUS
  <2>1. p = n * f[p] + d /\ q = n * f[q] + d
    BY <1>4
  <2> QED
    BY <2>1, Zenon
<1>6. f \in Injection(QpsOn(d), T)
  <2>1. f \in [QpsOn(d) -> T]
    BY <1>3, <1>4
  <2> QED
    BY <1>5, <2>1 DEF Injection, IsInjective
<1>7. IsFiniteSet(T) /\ Cardinality(T) = Q
  <2>1. PICK a \in Int, b \in Int : a = 0 /\ b = Q - 1
    BY <1>1
  <2>2. IsFiniteSet(a .. b) /\ Cardinality(a .. b) = IF a > b THEN 0 ELSE b - a + 1
    BY FS_Interval
  <2> QED
    BY <1>1, <1>2, <2>1, <2>2
<1> QED
  BY <1>1, <1>6, <1>7, FS_Injection, FS_CardinalityType

\* The pairs of a QP of the device and a request.
LEMMA QpReqPairs ==
    ASSUME NEW d \in Devs
    PROVE  /\ IsFiniteSet(QpsOn(d) \X ReqIds) /\ Cardinality(QpsOn(d) \X ReqIds) \in Nat
           /\ Cardinality(QpsOn(d) \X ReqIds) <= MaxRequests * QpsPerConn
<1>1. PICK a \in Nat, Q \in Nat, M \in Nat : a = Cardinality(QpsOn(d)) /\ Q = QpsPerConn /\ M = MaxRequests /\ a <= Q
  BY QpsOnDev, StripingAssumption, Limits
<1>2. IsFiniteSet(QpsOn(d) \X ReqIds) /\ Cardinality(QpsOn(d) \X ReqIds) = a * M
  BY <1>1, QpsOnDev, PoolSize, FS_Product
<1>3. a * M \in Nat /\ a * M <= M * Q
  <2>1. PICK b \in Nat : Q = a + b
    <3>1. Q - a \in Nat /\ Q = a + (Q - a)
      BY <1>1
    <3> QED
      BY <3>1
  <2>2. M * Q = a * M + M * b /\ M * b \in Nat /\ a * M \in Nat
    BY <2>1
  <2>3. PICK u \in Nat, v \in Nat : u = a * M /\ v = M * b
    BY <2>2
  <2> QED
    BY <2>2, <2>3
<1> QED
  BY <1>1, <1>2, <1>3

\* The sender's completions of a device.
LEMMA SendCqFits ==
    ASSUME RecvInv, SendInv, CqesOk, NEW d \in Devs
    PROVE  Cardinality({c \in scq : c.dev = d}) <= 2 * MaxRequests * QpsPerConn
<1>1. PICK S, T : S = {c \in scq : c.dev = d} /\ T = QpsOn(d) \X ReqIds
  OBVIOUS
<1>2. ASSUME NEW c \in S
      PROVE  c.qp \in QpsOn(d) /\ c.ids[1] \in ReqIds /\ sreqs[c.ids[1]].op = c.op /\ c \in scq
  <2>1. c \in scq /\ c.dev = d /\ SendCqeOk(c) /\ c.qp \in Qps
    BY <1>1, OpsKnown, SendTypes, SendCqeFields DEF SendInv
  <2>2. c.qp \in QpsOn(d)
    BY <2>1 DEF SendCqeOk, QpsOn
  <2> QED
    BY <2>1, <2>2, CqeNamed
<1>3. PICK f : f = [c \in S |-> <<c.qp, c.ids[1]>>]
  OBVIOUS
<1>4. \A c \in S : f[c] = <<c.qp, c.ids[1]>> /\ f[c] \in T
  BY <1>1, <1>2, <1>3
<1>5. ASSUME NEW c \in S, NEW e \in S, f[c] = f[e] PROVE c = e
  <2>1. c.qp = e.qp /\ c.ids[1] = e.ids[1]
    BY <1>4, <1>5
  <2>2. c.op = e.op
    BY <1>2, <2>1
  <2> QED
    BY <1>2, <2>1, <2>2 DEF CqesOk, CqesApart
<1>6. f \in Injection(S, T)
  <2>1. f \in [S -> T]
    BY <1>3, <1>4
  <2> QED
    BY <1>5, <2>1 DEF Injection, IsInjective
<1>7. IsFiniteSet(S) /\ Cardinality(S) <= Cardinality(T)
  BY <1>1, <1>6, QpReqPairs, FS_Injection
<1>8. Cardinality(S) \in Nat /\ Cardinality(T) \in Nat /\ Cardinality(T) <= MaxRequests * QpsPerConn
  BY <1>1, <1>7, QpReqPairs, FS_CardinalityType
<1>9. PICK u \in Nat : u = MaxRequests * QpsPerConn /\ 2 * MaxRequests * QpsPerConn = 2 * u
  <2>1. PICK M \in Nat, Q \in Nat : M = MaxRequests /\ Q = QpsPerConn
    BY Limits, StripingAssumption
  <2>2. M * Q \in Nat /\ 2 * M * Q = 2 * (M * Q)
    OBVIOUS
  <2> QED
    BY <2>1, <2>2
<1> QED
  BY <1>1, <1>7, <1>8, <1>9

\* The receiver's completions of a device: those of messages, and of a CTS or a read.
LEMMA RecvCqFits ==
    ASSUME RecvInv, CqesOk, NEW d \in Devs
    PROVE  Cardinality({c \in rcq : c.dev = d}) <= 2 * MaxRequests * QpsPerConn
<1>1. PICK S, P, I, T : /\ S = {c \in rcq : c.dev = d} /\ P = QpsOn(d) \X ReqIds /\ I = {1, 2} /\ T = I \X P
  OBVIOUS
<1>2. ASSUME NEW c \in S
      PROVE  /\ c.qp \in QpsOn(d) /\ c.wr_id \in ReqIds /\ RecvCqeOk(c) /\ c \in rcq
             /\ c.opcode \in {"RECV_RDMA_WITH_IMM", "RDMA_WRITE", "RDMA_READ"}
  <2>1. /\ c \in rcq /\ c.dev = d /\ RecvCqeOk(c) /\ c.qp \in Qps /\ c.wr_id \in ReqIds
        /\ c.opcode \in {"RECV_RDMA_WITH_IMM", "RDMA_WRITE", "RDMA_READ"}
    BY <1>1, CqeFields DEF RecvInv, TypeOK
  <2>2. c.qp \in QpsOn(d)
    BY <2>1 DEF CqesOk, CqesApart, QpsOn
  <2> QED
    BY <2>1, <2>2
<1>3. PICK g : /\ g = [c \in S |-> IF c.opcode = "RECV_RDMA_WITH_IMM" THEN 1 ELSE 2]
  OBVIOUS
<1>4. PICK f : f = [c \in S |-> <<g[c], <<c.qp, c.wr_id>>>>]
  OBVIOUS
<1>5. ASSUME NEW c \in S PROVE f[c] = <<g[c], <<c.qp, c.wr_id>>>> /\ f[c] \in T
  <2>1. g[c] \in I /\ <<c.qp, c.wr_id>> \in P
    BY <1>1, <1>2, <1>3
  <2> QED
    BY <1>1, <1>4, <2>1
<1>6. ASSUME NEW c \in S, NEW e \in S, f[c] = f[e] PROVE c = e
  <2>1. g[c] = g[e] /\ <<c.qp, c.wr_id>> = <<e.qp, e.wr_id>>
    BY <1>5, <1>6
  <2>2. c.qp = e.qp /\ c.wr_id = e.wr_id
    BY <2>1
  <2>3. c.opcode = "RECV_RDMA_WITH_IMM" <=> e.opcode = "RECV_RDMA_WITH_IMM"
    BY <1>3, <2>1
  <2>4. c.opcode = "RDMA_READ" <=> e.opcode = "RDMA_READ"
    BY <1>2, <2>2 DEF RecvCqeOk
  <2>5. c.opcode = e.opcode
    BY <1>2, <2>3, <2>4
  <2> QED
    BY <1>2, <2>2, <2>5 DEF CqesOk, CqesApart
<1>7. f \in Injection(S, T)
  <2>1. f \in [S -> T]
    BY <1>4, <1>5
  <2> QED
    BY <1>6, <2>1 DEF Injection, IsInjective
<1>8. IsFiniteSet(I) /\ Cardinality(I) = 2
  <2>1. PICK a \in Int, b \in Int : a = 1 /\ b = 2
    OBVIOUS
  <2>2. IsFiniteSet(a .. b) /\ Cardinality(a .. b) = IF a > b THEN 0 ELSE b - a + 1
    BY FS_Interval
  <2>3. I = a .. b
    BY <1>1, <2>1
  <2> QED
    BY <2>1, <2>2, <2>3
<1>9. PICK p \in Nat : p = Cardinality(P) /\ IsFiniteSet(P) /\ p <= MaxRequests * QpsPerConn
  BY <1>1, QpReqPairs
<1>10. IsFiniteSet(T) /\ Cardinality(T) = 2 * p
  <2>1. IsFiniteSet(I \X P) /\ Cardinality(I \X P) = Cardinality(I) * Cardinality(P)
    BY <1>8, <1>9, FS_Product
  <2> QED
    BY <1>1, <1>8, <1>9, <2>1, Zenon
<1>11. IsFiniteSet(S) /\ Cardinality(S) <= 2 * p
  BY <1>7, <1>10, FS_Injection
<1>12. Cardinality(S) \in Nat
  BY <1>11, FS_CardinalityType
<1>13. PICK u \in Nat : u = MaxRequests * QpsPerConn /\ 2 * MaxRequests * QpsPerConn = 2 * u
  <2>1. PICK M \in Nat, Q \in Nat : M = MaxRequests /\ Q = QpsPerConn
    BY Limits, StripingAssumption
  <2>2. M * Q \in Nat /\ 2 * M * Q = 2 * (M * Q)
    OBVIOUS
  <2> QED
    BY <2>1, <2>2
<1> QED
  BY <1>1, <1>9, <1>11, <1>12, <1>13

\* Induction, for a set instead of a predicate.
LEMMA SetInduction ==
    ASSUME NEW Q, 0 \in Q, \A n \in Nat : n \in Q => n + 1 \in Q
    PROVE  \A n \in Nat : n \in Q
<1> SUFFICES ASSUME NEW n \in Nat, n \notin Q PROVE FALSE
  OBVIOUS
<1> DEFINE S == {k \in Nat : k \notin Q}
<1>1. PICK m \in S : \A k \in S : m <= k
  BY LeastNatural
<1>2. m # 0 /\ m \in Nat
  OBVIOUS
<1>3. m - 1 \in Nat /\ m - 1 \in Q
  BY <1>1, <1>2
<1> QED
  BY <1>2, <1>3

\* The element MapThenSumSet takes next, and the function it recurs on.
Some(s) == CHOOSE x \in s : TRUE
Sums(f, S) == CHOOSE g : g = [s \in SUBSET S |-> IF s = {} THEN 0 ELSE f[Some(s)] + g[s \ {Some(s)}]]

\* The element taken next is one of the set.
LEMMA SomeIn == ASSUME NEW s, s # {} PROVE Some(s) \in s
BY DEF Some

\* Subsets of S of at most n elements.
UpTo(S, n) == {s \in SUBSET S : Cardinality(s) <= n}

\* g adds up the values of f, on every subset of S.
AddsUp(g, f, S) == \A s \in SUBSET S : g[s] = IF s = {} THEN 0 ELSE f[Some(s)] + g[s \ {Some(s)}]

\* Sums is what its definition says: the recursion ends.
LEMMA SumsDef ==
    ASSUME NEW f, NEW S, IsFiniteSet(S)
    PROVE  AddsUp(Sums(f, S), f, S)
<1> DEFINE Def(g, s) == IF s = {} THEN 0 ELSE f[Some(s)] + g[s \ {Some(s)}]
           Q == {n \in Nat : \E g : g = [s \in UpTo(S, n) |-> Def(g, s)]}
<1>1. \A s \in SUBSET S : /\ IsFiniteSet(s) /\ Cardinality(s) \in Nat
                          /\ Cardinality(s) <= Cardinality(S) /\ (Cardinality(s) = 0 <=> s = {})
  BY FS_Subset, FS_EmptySet, FS_CardinalityType
<1>2. \A s \in SUBSET S : s # {} => /\ s \ {Some(s)} \in SUBSET S
                                    /\ Cardinality(s \ {Some(s)}) = Cardinality(s) - 1
  BY <1>1, SomeIn, FS_RemoveElement
<1>3. 0 \in Q
  <2> DEFINE g == [s \in UpTo(S, 0) |-> 0]
  <2>1. \A s \in UpTo(S, 0) : s = {}
    BY <1>1 DEF UpTo
  <2>2. g = [s \in UpTo(S, 0) |-> Def(g, s)]
    BY <2>1
  <2> QED
    BY <2>2
<1>4. ASSUME NEW n \in Nat, n \in Q PROVE n + 1 \in Q
  <2>1. PICK h : h = [s \in UpTo(S, n) |-> Def(h, s)]
    BY <1>4
  <2> DEFINE g == [s \in UpTo(S, n + 1) |-> Def(h, s)]
  <2>2. ASSUME NEW s \in UpTo(S, n + 1) PROVE Def(h, s) = Def(g, s)
    <3>1. CASE s = {}
      BY <3>1
    <3>2. CASE s # {}
      <4> DEFINE r == s \ {Some(s)}
      <4>1. r \in UpTo(S, n) /\ r \in UpTo(S, n + 1)
        BY <1>1, <1>2, <3>2 DEF UpTo
      <4>2. h[r] = Def(h, r) /\ g[r] = Def(h, r)
        BY <2>1, <4>1
      <4> HIDE DEF g
      <4> QED
        BY <3>2, <4>2
    <3> QED
      BY <3>1, <3>2
  <2>3. g = [s \in UpTo(S, n + 1) |-> Def(g, s)]
    BY <2>2
  <2> HIDE DEF g, Def
  <2>4. \E e : e = [s \in UpTo(S, n + 1) |-> Def(e, s)]
    BY <2>3
  <2> QED
    BY <2>4
<1>5. Cardinality(S) \in Q
  <2>1. Cardinality(S) \in Nat
    BY FS_CardinalityType
  <2> HIDE DEF Q
  <2> QED
    BY <1>3, <1>4, <2>1, SetInduction
<1>6. UpTo(S, Cardinality(S)) = SUBSET S
  BY <1>1 DEF UpTo
<1>7. \E g : g = [s \in SUBSET S |-> Def(g, s)]
  BY <1>5, <1>6
<1> DEFINE F == Sums(f, S)
<1>8. F = [s \in SUBSET S |-> Def(F, s)]
  BY <1>7 DEF Sums
<1> HIDE DEF F
<1>9. \A s \in SUBSET S : F[s] = Def(F, s)
  BY <1>8
<1>10. AddsUp(F, f, S)
  BY <1>9, Zenon DEF AddsUp
<1> QED
  BY <1>10 DEF F

\* A sum of terms that are at most b.
LEMMA TotalBound ==
    ASSUME NEW S, IsFiniteSet(S), NEW b \in Nat, NEW f, DOMAIN f = S, \A x \in S : f[x] \in 0 .. b
    PROVE  Total(f) \in Nat /\ Total(f) <= b * Cardinality(S)
<1>1. PICK F : F = Sums(f, S)
  OBVIOUS
<1>2. Total(f) = F[S]
  BY <1>1 DEF Total, Sums, Some, MapThenSumSet, MapThenFoldSet
<1>3. \A s \in SUBSET S : F[s] = IF s = {} THEN 0 ELSE f[Some(s)] + F[s \ {Some(s)}]
  <2>1. AddsUp(F, f, S)
    BY <1>1, SumsDef, Zenon
  <2> QED
    BY <2>1, Zenon DEF AddsUp
<1>4. \A s \in SUBSET S : IsFiniteSet(s) /\ Cardinality(s) \in Nat /\ (Cardinality(s) = 0 => s = {})
  BY FS_Subset, FS_CardinalityType, FS_EmptySet
<1> DEFINE Q == {n \in Nat : \A s \in SUBSET S : Cardinality(s) = n => F[s] \in Nat /\ F[s] <= b * n}
<1>5. 0 \in Q
  <2>1. b * 0 = 0
    OBVIOUS
  <2>2. F[{}] = 0
    BY <1>3
  <2> QED
    BY <1>4, <2>1, <2>2
<1>6. ASSUME NEW n \in Nat, n \in Q PROVE n + 1 \in Q
  <2> SUFFICES ASSUME NEW s \in SUBSET S, Cardinality(s) = n + 1
               PROVE  F[s] \in Nat /\ F[s] <= b * (n + 1)
    OBVIOUS
  <2>1. s # {} /\ Some(s) \in s
    <3>1. s # {}
      BY FS_EmptySet
    <3> QED
      BY <3>1, SomeIn
  <2>2. PICK x \in s, r \in SUBSET S : x = Some(s) /\ r = s \ {x}
    BY <2>1
  <2>3. Cardinality(r) = n
    <3>1. Cardinality(s \ {x}) = Cardinality(s) - 1
      BY <1>4, FS_RemoveElement
    <3> QED
      BY <2>2, <3>1
  <2>4. PICK u \in Nat, v \in 0 .. b, w \in Nat : u = F[r] /\ v = f[x] /\ w = b * n /\ u <= w
    BY <1>6, <2>2, <2>3
  <2>5. F[s] = v + u
    BY <1>3, <2>1, <2>2, <2>4
  <2>6. b * (n + 1) = w + b
    BY <2>4
  <2> QED
    BY <2>4, <2>5, <2>6
<1> HIDE DEF Q
<1>7. Cardinality(S) \in Q
  BY <1>4, <1>5, <1>6, SetInduction
<1>8. F[S] \in Nat /\ F[S] <= b * Cardinality(S)
  BY <1>7 DEF Q
<1> QED
  BY <1>2, <1>8

\* The sends under way are those of a window of receives.
LEMMA SendsInWindow ==
    ASSUME RecvInv, SendInv, SendsClose
    PROVE  \E a \in Nat : \A id \in ReqIds : sreqs[id].type # "UNUSED" => sreqs[id].op \in a .. a + Window - 1
<1>1. PICK K : K = {sreqs[id].op : id \in {i \in ReqIds : sreqs[i].type # "UNUSED"}}
  OBVIOUS
<1>2. \A id \in ReqIds : sreqs[id].op \in Nat
  BY OpsKnown, SendTypes, ReqFields
<1>3. PICK W \in Nat \ {0} : W = Window
  BY Limits
<1>4. CASE K = {}
  <2>1. \A id \in ReqIds : sreqs[id].type = "UNUSED"
    BY <1>1, <1>4
  <2> QED
    BY <2>1
<1>5. CASE K # {}
  <2>1. PICK a \in K : \A k \in K : a <= k
    <3>1. K \in SUBSET Nat
      BY <1>1, <1>2
    <3> QED
      BY <1>5, <3>1, LeastNatural
  <2>2. PICK j \in ReqIds : sreqs[j].type # "UNUSED" /\ a = sreqs[j].op /\ a \in Nat
    BY <1>1, <1>2, <2>1
  <2>3. ASSUME NEW id \in ReqIds, sreqs[id].type # "UNUSED" PROVE sreqs[id].op \in a .. a + W - 1
    <3>1. sreqs[id].op \in K /\ sreqs[id].op \in Nat
      BY <1>1, <1>2, <2>3
    <3>2. sreqs[id].op < a + W
      BY <1>3, <2>2, <2>3 DEF SendsClose
    <3> QED
      BY <1>3, <2>1, <2>2, <3>1, <3>2
  <2> QED
    BY <1>3, <2>2, <2>3
<1> QED
  BY <1>4, <1>5

\* The messages of a QP, and the completions of it that were not polled, are of
\* different receives of the window.
LEMMA UnderWay ==
    ASSUME RecvInv, SendInv, QueueInv, NEW q \in Qps
    PROVE  /\ IsFiniteSet({c \in scq : c.qp = q}) /\ Cardinality({c \in scq : c.qp = q}) \in Nat
           /\ Len(dataWire[q]) + Cardinality({c \in scq : c.qp = q}) <= Window
<1>0. PICK C : C = {c \in scq : c.qp = q}
  OBVIOUS
<1>1. PICK L \in Nat, W \in Nat \ {0} : L = Len(dataWire[q]) /\ W = Window
  BY OpsKnown, RecvTypes, Limits
<1>2. PICK a \in Nat : \A id \in ReqIds : sreqs[id].type # "UNUSED" => sreqs[id].op \in a .. a + W - 1
  BY <1>1, SendsInWindow DEF QueueInv
<1>3. PICK S, T : S = 1 .. L /\ T = a .. a + W - 1
  OBVIOUS
<1>4. PICK A, B : A = {QueuedOp(q, i) : i \in S} /\ B = {c.op : c \in C}
  OBVIOUS
<1>5. ASSUME NEW i \in S PROVE QueuedOp(q, i) \in T /\ QueuedOp(q, i) \in Nat /\ i \in 1 .. Len(recvQueue[q])
  <2>1. /\ i \in 1 .. Len(recvQueue[q]) /\ QueuedOp(q, i) \in Nat
        /\ \E id \in ReqIds : sreqs[id].type = "SEND" /\ sreqs[id].op = QueuedOp(q, i)
    BY <1>1, <1>3, MsgNamed
  <2> QED
    BY <1>2, <1>3, <2>1
<1>6. ASSUME NEW c \in C PROVE c.op \in T /\ c \in scq /\ c.qp = q
  <2>1. c \in scq /\ c.qp = q
    BY <1>0
  <2> QED
    BY <1>2, <1>3, <2>1, CqeNamed
<1>7. IsFiniteSet(T) /\ Cardinality(T) = W
  <2>1. PICK e \in Int : e = a + W - 1
    OBVIOUS
  <2>2. IsFiniteSet(a .. e) /\ Cardinality(a .. e) = IF a > e THEN 0 ELSE e - a + 1
    BY FS_Interval
  <2> QED
    BY <1>1, <1>3, <2>1, <2>2
<1>8. IsFiniteSet(A) /\ Cardinality(A) = L
  <2>1. PICK f : f = [i \in S |-> QueuedOp(q, i)]
    OBVIOUS
  <2>2. f \in [S -> A]
    BY <1>4, <2>1
  <2>3. \A i, j \in S : f[i] = f[j] => i = j
    <3> SUFFICES ASSUME NEW i \in S, NEW j \in S, f[i] = f[j] PROVE i = j
      OBVIOUS
    <3>1. \A x, y \in 1 .. Len(recvQueue[q]) : x < y => QueuedOp(q, x) < QueuedOp(q, y)
      BY DEF RecvInv, QpOk
    <3>2. QueuedOp(q, i) = QueuedOp(q, j) /\ QueuedOp(q, i) \in Nat
      BY <1>5, <2>1
    <3>3. ~(i < j) /\ ~(j < i)
      BY <1>5, <3>1, <3>2
    <3>4. i \in Int /\ j \in Int
      BY <1>3
    <3> QED
      BY <3>3, <3>4
  <2>4. \A k \in A : \E i \in S : f[i] = k
    BY <1>4, <2>1
  <2>5. f \in Bijection(S, A)
    BY <2>2, <2>3, <2>4 DEF Bijection, Injection, Surjection, IsInjective
  <2>6. ExistsBijection(S, A)
    BY <2>5 DEF ExistsBijection
  <2>7. IsFiniteSet(S) /\ Cardinality(S) = L
    <3>1. PICK x \in Int, y \in Int : x = 1 /\ y = L
      BY <1>1
    <3>2. IsFiniteSet(x .. y) /\ Cardinality(x .. y) = IF x > y THEN 0 ELSE y - x + 1
      BY FS_Interval
    <3> QED
      BY <1>1, <1>3, <3>1, <3>2
  <2> QED
    BY <2>6, <2>7, FS_Bijection
<1>9. IsFiniteSet(B) /\ IsFiniteSet(C) /\ Cardinality(C) = Cardinality(B) /\ Cardinality(C) \in Nat
  <2>1. PICK f : f = [c \in C |-> c.op]
    OBVIOUS
  <2>2. f \in [C -> B]
    BY <1>4, <2>1
  <2>3. \A c, e \in C : f[c] = f[e] => c = e
    <3> SUFFICES ASSUME NEW c \in C, NEW e \in C, f[c] = f[e] PROVE c = e
      OBVIOUS
    <3>1. c.op = e.op
      BY <2>1
    <3> QED
      BY <1>6, <3>1 DEF QueueInv, CqesOk, CqesApart
  <2>4. \A k \in B : \E c \in C : f[c] = k
    BY <1>4, <2>1
  <2>5. f \in Bijection(C, B)
    BY <2>2, <2>3, <2>4 DEF Bijection, Injection, Surjection, IsInjective
  <2>6. ExistsBijection(C, B)
    BY <2>5 DEF ExistsBijection
  <2>7. B \in SUBSET T
    BY <1>4, <1>6
  <2>8. IsFiniteSet(B)
    BY <1>7, <2>7, FS_Subset
  <2>9. IsFiniteSet(C)
    BY <2>5, <2>8, FS_Injection DEF Bijection
  <2>10. Cardinality(B) = Cardinality(C)
    BY <2>6, <2>9, FS_Bijection
  <2> QED
    BY <2>8, <2>9, <2>10, FS_CardinalityType
<1>10. A \cap B = {}
  <2> SUFFICES ASSUME NEW k \in A, k \in B PROVE FALSE
    OBVIOUS
  <2>1. PICK i \in S : k = QueuedOp(q, i)
    BY <1>4
  <2>2. PICK c \in C : k = c.op
    BY <1>4
  <2>3. SendCqeOk(c) /\ c.qp = q /\ i \in 1 .. Len(recvQueue[q]) /\ k \in Nat
    BY <1>5, <1>6, <2>1 DEF SendInv
  <2>4. k < k
    BY <2>1, <2>2, <2>3 DEF SendCqeOk
  <2> QED
    BY <2>3, <2>4
<1>11. Cardinality(A \cup B) = L + Cardinality(C)
  <2>1. Cardinality(A \cup B) = Cardinality(A) + Cardinality(B) - Cardinality(A \cap B)
    BY <1>8, <1>9, FS_Union
  <2>2. Cardinality(A \cap B) = 0
    BY <1>10, FS_EmptySet
  <2> QED
    BY <1>1, <1>8, <1>9, <2>1, <2>2
<1>12. A \cup B \in SUBSET T
  BY <1>4, <1>5, <1>6
<1>13. Cardinality(A \cup B) <= W
  BY <1>7, <1>12, FS_Subset
<1> QED
  BY <1>0, <1>1, <1>9, <1>11, <1>13

\* Two parts of w terms that are at most b.
LEMMA PartsBound ==
    ASSUME NEW b \in Nat, NEW l \in Nat, NEW x \in Nat, NEW w \in Nat, l + x <= w,
           NEW u \in Nat, NEW v \in Nat, u <= b * l, v <= b * x
    PROVE  u + v <= b * w
<1>1. PICK z \in Nat : w = l + x + z
  <2>1. w - (l + x) \in Nat /\ w = l + x + (w - (l + x))
    OBVIOUS
  <2> QED
    BY <2>1
<1>2. b * w = b * l + b * x + b * z
  BY <1>1
<1>3. b * l \in Nat /\ b * x \in Nat /\ b * z \in Nat
  OBVIOUS
<1>4. PICK i \in Nat, j \in Nat, k \in Nat : i = b * l /\ j = b * x /\ k = b * z
  BY <1>3
<1> QED
  BY <1>2, <1>4

\* The send queue of a QP: a group for each receive of the window, at most.
LEMMA SendQueueFits ==
    ASSUME RecvInv, SendInv, QueueInv, NEW q \in Qps
    PROVE  SendWrs(q) <= 2 * MaxRequests
<1>0. PICK C : C = {c \in scq : c.qp = q}
  OBVIOUS
<1>1. PICK W \in Nat \ {0}, R \in Nat \ {0}, L \in Nat : W = Window /\ R = MaxRecvs /\ L = Len(dataWire[q])
  BY OpsKnown, RecvTypes, Limits
<1>2. PICK x \in Nat : x = Cardinality(C) /\ IsFiniteSet(C) /\ L + x <= W
  BY <1>0, <1>1, UnderWay
<1>3. PICK b \in Nat : b = 2 * R
  OBVIOUS
<1>4. \A n \in 1 .. R : GroupWrs(n) \in 0 .. b
  BY <1>3 DEF GroupWrs
<1>5. PICK f, g : /\ f = [i \in DOMAIN dataWire[q] |-> GroupWrs(Len(dataWire[q][i].ids))]
                  /\ g = [c \in C |-> GroupWrs(Len(c.ids))]
  OBVIOUS
<1>6. PICK S : S = 1 .. L /\ DOMAIN f = S
  <2>1. dataWire[q] \in Seq(Msg)
    BY OpsKnown, RecvTypes
  <2>2. DOMAIN dataWire[q] = 1 .. L
    BY <1>1, <2>1
  <2> QED
    BY <1>5, <2>2
<1>7. IsFiniteSet(S) /\ Cardinality(S) = L
  <2>1. PICK y \in Int, z \in Int : y = 1 /\ z = L
    BY <1>1
  <2>2. IsFiniteSet(y .. z) /\ Cardinality(y .. z) = IF y > z THEN 0 ELSE z - y + 1
    BY FS_Interval
  <2> QED
    BY <1>1, <1>6, <2>1, <2>2
<1>8. \A i \in S : f[i] \in 0 .. b
  <2> SUFFICES ASSUME NEW i \in S PROVE f[i] \in 0 .. b
    OBVIOUS
  <2>1. Len(dataWire[q][i].ids) \in 1 .. R
    BY <1>1, <1>6, MsgNamed
  <2>2. f[i] = GroupWrs(Len(dataWire[q][i].ids))
    BY <1>5, <1>6
  <2> QED
    BY <1>4, <2>1, <2>2
<1>9. \A c \in C : g[c] \in 0 .. b
  <2> SUFFICES ASSUME NEW c \in C PROVE g[c] \in 0 .. b
    OBVIOUS
  <2>1. Len(c.ids) \in 1 .. R
    BY <1>0, <1>1, CqeNamed
  <2>2. g[c] = GroupWrs(Len(c.ids))
    BY <1>5
  <2> QED
    BY <1>4, <2>1, <2>2
<1>10. PICK u \in Nat : u = Total(f) /\ u <= b * L
  BY <1>6, <1>7, <1>8, TotalBound
<1>11. PICK v \in Nat : v = Total(g) /\ v <= b * x
  <2>1. DOMAIN g = C
    BY <1>5
  <2> QED
    BY <1>2, <1>9, <2>1, TotalBound
<1>12. SendWrs(q) = u + v
  BY <1>0, <1>5, <1>10, <1>11 DEF SendWrs
<1>13. u + v <= b * W
  <2>1. W \in Nat
    OBVIOUS
  <2> QED
    BY <1>2, <1>10, <1>11, <2>1, PartsBound
<1>14. b * W = 2 * MaxRequests
  <2>1. MaxRequests = W * R
    BY <1>1 DEF MaxRequests, Window
  <2> QED
    BY <1>3, <2>1
<1> QED
  BY <1>12, <1>13, <1>14

(***************************************************************************)
(* No queue overflows its depth (ncclIbCreateQp, ncclIbInitCommDevBase):   *)
(* a QP's receives are of different requests, its sends of different       *)
(* receives of the caller's window, and a device has a signaled CTS in     *)
(* every MaxRequests of its own, whose receive finishes before the window  *)
(* lets twice as many follow it.                                           *)
(***************************************************************************)
THEOREM QueuesNeverOverflow == Spec => []QueuesFit
<1>1. RecvInv /\ SendInv /\ QueueInv => QueuesFit
  <2> SUFFICES ASSUME RecvInv, SendInv, QueueInv PROVE QueuesFit
    OBVIOUS
  <2>1. CqesOk
    BY DEF QueueInv
  <2>2. \A q \in Qps : Len(recvQueue[q]) <= MaxRequests /\ SendWrs(q) <= 2 * MaxRequests
    BY RecvQueueFits, SendQueueFits
  <2>3. \A d \in Devs : ctsPosted[d] - ctsRetired[d] <= 2 * MaxRequests
    BY <2>1, CtsQueueFits
  <2>4. \A d \in Devs : Cardinality({c \in rcq : c.dev = d}) <= 2 * MaxRequests * QpsPerConn
    BY <2>1, RecvCqFits
  <2>5. \A d \in Devs : Cardinality({c \in scq : c.dev = d}) <= 2 * MaxRequests * QpsPerConn
    BY <2>1, SendCqFits
  <2> QED
    BY <2>2, <2>3, <2>4, <2>5 DEF QueuesFit
<1> QED
  BY <1>1, QueueInit, QueueNext, SendSound, PTL DEF Spec
=============================================================================
