--------------------------- MODULE IbTransferInv ---------------------------
(***************************************************************************)
(* The inductive invariants of the data path: the receiver's half RecvInv, *)
(* the sender's half SendInv, what arrived, what will be reported, the     *)
(* sender's pool of requests, and the queues.                              *)
(***************************************************************************)
EXTENDS IbTransfer

\* Receives whose data the sender has posted.
Consumed == IF multiSent THEN fifoHead + 1 ELSE fifoHead

\* The QP at which the transfer of receive k starts, on both sides, and its QPs.
StartQp(k) == ((k - 1) * NqpsUsed) % Nqps
QpsOf(k) == QpsFrom(StartQp(k))

Elem == [idx : Nat, nreqs : Nat, size : Nat, tag : Int]
Req == [type : {"UNUSED", "RECV", "FLUSH", "SEND"}, events : [Devs -> Int],
        nreqs : Nat, arg : Nat, op : Nat]
Op == [recv : Receives, state : {"posted", "done", "flushing", "retired"},
       sent : Seq(Int), arrived : Seq(SUBSET Nat), sizes : Seq(Nat)]
CtsElem == [slot : Slots, r : Recvs, elem : Elem]
Msg == {m \in [dst : Seq(Nat), chunks : Seq(SUBSET Nat), sizes : Seq(Nat), imm : Nat,
               slot : Slots, ids : Seq(ReqIds)] :
           Len(m.chunks) = Len(m.dst) /\ Len(m.sizes) = Len(m.dst) /\ Len(m.ids) = Len(m.dst)}
RecvCqe == [dev : Devs, qp : Qps, opcode : {"RECV_RDMA_WITH_IMM", "RDMA_WRITE", "RDMA_READ"},
            wr_id : ReqIds, imm : Nat, op : Nat]
SendCqe == [dev : Devs, qp : Qps, ids : Seq(ReqIds), op : Nat]

TypeOK ==
    /\ rreqs \in [ReqIds -> Req] /\ sreqs \in [ReqIds -> Req]
    /\ rqpIndex \in Qps /\ sqpIndex \in Qps /\ devIndex \in Devs
    /\ fifoTail \in Nat /\ fifoHead \in Nat /\ multiSent \in BOOLEAN
    /\ sizesFifo \in [Slots -> [Recvs -> Nat]]
    /\ fifo \in [Slots -> [Recvs -> Elem]]
    /\ fifoReqs \in [Slots -> [Recvs -> ReqIds \cup {NoReq}]]
    /\ recvQueue \in [Qps -> Seq(ReqIds)]
    /\ ctsWire \subseteq CtsElem
    /\ ctsPosted \in [Devs -> Nat] /\ ctsRetired \in [Devs -> Nat]
    /\ dataWire \in [Qps -> Seq(Msg)]
    /\ rcq \subseteq RecvCqe /\ scq \subseteq SendCqe
    /\ ops \in Seq(Op)

\* Where both sides are.
InStep ==
    /\ fifoTail = Len(ops) /\ Consumed <= fifoTail
    /\ rqpIndex = StartQp(fifoTail + 1)
    /\ sqpIndex = StartQp(Consumed + 1)

\* An element announces buffer r of the receive it names, in that one's slot.
Announces(s, r, elem) ==
    /\ elem.idx \in 1 .. fifoTail /\ s = FifoSlot(elem.idx - 1)
    /\ r \in 1 .. Len(ops[elem.idx].recv)
    /\ elem.nreqs = Len(ops[elem.idx].recv)
    /\ elem.size = ops[elem.idx].recv[r].size /\ elem.tag = ops[elem.idx].recv[r].tag
CtsRight ==
    /\ \A e \in ctsWire : Announces(e.slot, e.r, e.elem)
    /\ \A s \in Slots, r \in Recvs : fifo[s][r].idx # 0 => Announces(s, r, fifo[s][r])

\* The request of a receive: waiting for its completions, or flushing it.
RecvReqOk(id) ==
    LET req == rreqs[id] IN
    IF req.type = "UNUSED" THEN req.events = NoEvents
    ELSE /\ req.op \in 1 .. fifoTail
         /\ \/ /\ req.type = "RECV" /\ ops[req.op].state = "posted"
               /\ req.nreqs = Len(ops[req.op].recv) /\ req.arg = FifoSlot(req.op - 1)
            \/ req.type = "FLUSH" /\ ops[req.op].state = "flushing"
         /\ \A j \in ReqIds : rreqs[j].type # "UNUSED" /\ rreqs[j].op = req.op => j = id

\* The caller finishes a receive after its data is posted, and within the window.
StateOk(k) ==
    /\ ops[k].state # "posted" => k <= Consumed
    /\ k + Window <= fifoTail => ops[k].state = "retired"

\* The receive that work request i of QP q serves.
QueuedOp(q, i) == rreqs[recvQueue[q][i]].op

\* Work requests of a QP in the order of their receives; those of receives the
\* sender has not come to are there; and the messages under way meet theirs.
QpOk(q) ==
    /\ \A i \in 1 .. Len(recvQueue[q]) :
          rreqs[recvQueue[q][i]].type = "RECV" /\ q \in QpsOf(QueuedOp(q, i))
    /\ \A i, j \in 1 .. Len(recvQueue[q]) : i < j => QueuedOp(q, i) < QueuedOp(q, j)
    /\ \A k \in Consumed + 1 .. fifoTail :
          q \in QpsOf(k) => \E i \in 1 .. Len(recvQueue[q]) : QueuedOp(q, i) = k
    /\ Len(dataWire[q]) <= Len(recvQueue[q])
    /\ \A i \in 1 .. Len(recvQueue[q]) :
          IF i <= Len(dataWire[q])
          THEN dataWire[q][i].dst # <<>> /\ dataWire[q][i].dst[1] = QueuedOp(q, i) /\ QueuedOp(q, i) <= Consumed
          ELSE QueuedOp(q, i) > Consumed

\* A completion names the request of its receive.
RecvCqeOk(c) ==
    /\ rreqs[c.wr_id].type = (IF c.opcode = "RDMA_READ" THEN "FLUSH" ELSE "RECV")
    /\ rreqs[c.wr_id].op = c.op
    /\ c.opcode = "RECV_RDMA_WITH_IMM" =>
          \A i \in 1 .. Len(recvQueue[c.qp]) : recvQueue[c.qp][i] # c.wr_id

\* Completions and work requests that will still be counted for request id.
CqesOf(id, d) == {c \in rcq : c.wr_id = id /\ c.dev = d}
QpsWith(id, d) == {q \in Qps : DevOf(q) = d /\ \E i \in 1 .. Len(recvQueue[q]) : recvQueue[q][i] = id}
RecvEventsOk(id, d) ==
    /\ IsFiniteSet(CqesOf(id, d))
    /\ rreqs[id].events[d] = Cardinality(CqesOf(id, d)) + Cardinality(QpsWith(id, d))

RecvInv ==
    /\ TypeOK /\ InStep /\ CtsRight
    /\ \A id \in ReqIds : RecvReqOk(id)
    /\ \A k \in DOMAIN ops : StateOk(k)
    /\ \A q \in Qps : QpOk(q)
    /\ \A c \in rcq : RecvCqeOk(c)
    /\ \A id \in ReqIds, d \in Devs : RecvEventsOk(id, d)

----------------------------------------------------------------------------
(* The sender's half. *)

\* The place of QP q in a transfer that starts at x.
IndexOf(x, q) == CHOOSE i \in 0 .. NqpsUsed - 1 : QpAt(x, i) = q

\* The request of a send, until its last completion is counted.
SendReqOk(id) ==
    LET req == sreqs[id] IN
    IF req.type = "UNUSED" THEN req.events = NoEvents
    ELSE /\ req.type = "SEND" /\ req.op \in 1 .. fifoTail /\ req.op <= fifoHead + 1
         /\ req.nreqs = Len(ops[req.op].recv)

\* Only the slot at the head has matched sends, and until the group is posted
\* they are those of the receive at the head.
HeadOk ==
    /\ \A s \in Slots, r \in Recvs : fifoReqs[s][r] # NoReq => s = FifoSlot(fifoHead)
    /\ ~multiSent => \A r \in Recvs : HeadReqs[r] # NoReq =>
          /\ fifoHead + 1 <= fifoTail /\ r <= Len(ops[fifoHead + 1].recv)
          /\ sreqs[HeadReqs[r]].type = "SEND" /\ sreqs[HeadReqs[r]].op = fifoHead + 1
          /\ sreqs[HeadReqs[r]].arg = ops[fifoHead + 1].sent[r]

\* What was sent for a receive: everything, part of the group at the head, or nothing.
SentOk(k) ==
    /\ Len(ops[k].sent) = Len(ops[k].recv) /\ Len(ops[k].arrived) = Len(ops[k].recv)
    /\ \A r \in 1 .. Len(ops[k].recv) :
          /\ ops[k].sent[r] \in Nat \cup {NotSent}
          /\ ops[k].sent[r] # NotSent <=> k <= Consumed \/ (k = fifoHead + 1 /\ HeadReqs[r] # NoReq)

\* The send requests that a message or a completion of receive k names.
Names(ids, k) ==
    /\ Len(ids) = Len(ops[k].recv)
    /\ \A j \in 1 .. Len(ids) : sreqs[ids[j]].type = "SEND" /\ sreqs[ids[j]].op = k

\* What QP q carries of buffer r of receive k.
Part(k, r, q) == Chunk(ops[k].sent[r], IndexOf(StartQp(k), q))

\* A message is that of the receive it meets.
MsgFits(m, q, k) ==
    LET n == Len(ops[k].recv) IN
    /\ Len(m.dst) = n /\ m.sizes = ops[k].sent /\ m.slot = FifoSlot(k - 1)
    /\ m.imm = IF n = 1 THEN ops[k].sent[1] ELSE 0
    /\ \A r \in 1 .. n : m.dst[r] = k /\ m.chunks[r] = Part(k, r, q)
    /\ Names(m.ids, k)
MsgOk(q, i) == MsgFits(dataWire[q][i], q, QueuedOp(q, i))

\* A completion names the sends of a receive that the QP has behind it.
SendCqeOk(c) ==
    /\ c.op \in 1 .. Consumed /\ c.dev = DevOf(c.qp) /\ Names(c.ids, c.op)
    /\ \A i \in 1 .. Len(recvQueue[c.qp]) : c.op < QueuedOp(c.qp, i)

\* Completions and messages that will still be counted for send request id.
Carries(q, id) == \E i \in 1 .. Len(dataWire[q]) : \E j \in DOMAIN dataWire[q][i].ids : dataWire[q][i].ids[j] = id
SendCqesOf(id, d) == {c \in scq : c.dev = d /\ \E j \in DOMAIN c.ids : c.ids[j] = id}
SendQpsWith(id, d) == {q \in Qps : DevOf(q) = d /\ Carries(q, id)}
SendEventsOk(id, d) ==
    /\ IsFiniteSet(SendCqesOf(id, d))
    /\ sreqs[id].events[d] = IF AwaitsGroup(id) THEN EventsFrom(sqpIndex)[d]
                             ELSE Cardinality(SendCqesOf(id, d)) + Cardinality(SendQpsWith(id, d))

\* QPs that have delivered their part of receive k, and what has arrived.
Delivered(k) == {q \in QpsOf(k) : \A i \in 1 .. Len(recvQueue[q]) : QueuedOp(q, i) # k}
ArrivedOk(k) ==
    \A r \in 1 .. Len(ops[k].recv) : ops[k].arrived[r] = UNION {Part(k, r, q) : q \in Delivered(k)}

\* The sizes the receiver will report: of a group they come with every message,
\* of a single receive with the completion that is polled first.
Counted(k) == {q \in Delivered(k) :
                  \A c \in rcq : ~(c.opcode = "RECV_RDMA_WITH_IMM" /\ c.qp = q /\ c.op = k)}
SizesOk(k) ==
    /\ ops[k].state = "posted" =>
          LET n == Len(ops[k].recv) IN
          (IF n = 1 THEN Counted(k) ELSE Delivered(k)) # {} =>
              \A r \in 1 .. n : sizesFifo[FifoSlot(k - 1)][r] = ops[k].sent[r]
    /\ ops[k].state = "posted" <=> ops[k].sizes = <<>>
ImmOk(c) ==
    c.opcode = "RECV_RDMA_WITH_IMM" =>
        /\ c.op \in 1 .. Consumed /\ c.qp \in QpsOf(c.op)
        /\ Len(ops[c.op].recv) = 1 => c.imm = ops[c.op].sent[1]

SendInv ==
    /\ HeadOk
    /\ \A id \in ReqIds : SendReqOk(id)
    /\ \A k \in DOMAIN ops : SentOk(k)
    /\ \A q \in Qps : \A i \in 1 .. Len(dataWire[q]) : MsgOk(q, i)
    /\ \A c \in scq : SendCqeOk(c)
    /\ \A id \in ReqIds, d \in Devs : SendEventsOk(id, d)

DataInv == \A k \in DOMAIN ops : ArrivedOk(k)

ReportInv ==
    /\ \A k \in DOMAIN ops : SizesOk(k)
    /\ \A c \in rcq : ImmOk(c)

\* A group that is announced is posted with its last send: the head waits for one.
HeadOpen ==
    ~multiSent /\ fifoHead + 1 <= fifoTail =>
        \E r \in 1 .. Len(ops[fifoHead + 1].recv) : HeadReqs[r] = NoReq

\* Requests of one receive serve different buffers, place[id] being that of id.
PlacesOk(place) ==
    \A id \in ReqIds : sreqs[id].type # "UNUSED" =>
        /\ place[id] <= Len(ops[sreqs[id].op].recv) /\ ops[sreqs[id].op].sent[place[id]] # NotSent
        /\ \A j \in ReqIds : /\ sreqs[j].type # "UNUSED" /\ sreqs[j].op = sreqs[id].op
                             /\ place[j] = place[id]
                             => j = id

PoolInv ==
    /\ HeadOpen
    /\ \E place \in [ReqIds -> Recvs] : PlacesOk(place)

----------------------------------------------------------------------------
(* The queues. *)

\* Sends under way are within the caller's window of each other.
SendsClose ==
    \A i, j \in ReqIds :
        sreqs[i].type # "UNUSED" /\ sreqs[j].type # "UNUSED" => sreqs[i].op < sreqs[j].op + Window

\* A QP has one completion of a kind for a request, at most, on its own device.
CqesApart ==
    /\ \A c \in rcq : c.dev = DevOf(c.qp)
    /\ \A c, e \in rcq : c.qp = e.qp /\ c.wr_id = e.wr_id /\ c.opcode = e.opcode => c = e
    /\ \A c, e \in scq : c.qp = e.qp /\ c.op = e.op => c = e

\* Devices take turns: the value of fifoTail when device d writes its j-th CTS.
Turn(d, j) == NDevs * (j - 1) + d
TurnsOk ==
    /\ fifoTail = Turn(devIndex, ctsPosted[devIndex] + 1)
    /\ \A d \in Devs : Turn(d, ctsPosted[d] + 1) \in fifoTail .. fifoTail + NDevs - 1

\* A signaled CTS that was not polled, and that no such CTS is lost.
CtsCqeOk(c) ==
    c.opcode = "RDMA_WRITE" =>
        /\ c.imm \in ctsRetired[c.dev] + 1 .. ctsPosted[c.dev]
        /\ c.qp = c.dev /\ c.op = Turn(c.dev, c.imm) + 1 /\ FifoSlot(c.op - 1) = c.dev
CtsAwaited(d) ==
    /\ ctsRetired[d] <= ctsPosted[d]
    /\ \A j \in ctsRetired[d] + 1 .. ctsPosted[d] :
          FifoSlot(Turn(d, j)) = d => \E c \in rcq : c.opcode = "RDMA_WRITE" /\ c.dev = d /\ c.imm = j

CqesOk ==
    /\ CqesApart /\ TurnsOk
    /\ \A c \in rcq : CtsCqeOk(c)
    /\ \A d \in Devs : CtsAwaited(d)

QueueInv == SendsClose /\ CqesOk
=============================================================================
