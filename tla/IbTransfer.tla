----------------------------- MODULE IbTransfer -----------------------------
(***************************************************************************)
(* The data path of one unet connection (unet_ib.cc): ncclIbIrecv,         *)
(* ncclIbPostFifo, ncclIbIsend, ncclIbMultiSend, ncclIbIflush, ncclIbTest, *)
(* the receiver and the sender each on its own thread, and the RDMA fabric *)
(* between them.                                                           *)
(*                                                                         *)
(* A receive is identified by its idx (fifoTail+1 when it was posted); a   *)
(* buffer's address is the pair of that idx and its place in the group.    *)
(* ops is the history of the receives: what was asked, what was sent, what *)
(* arrived and what was reported.                                          *)
(*                                                                         *)
(* The fabric is reliable (RC queue pairs): messages of one QP arrive in   *)
(* order, QPs are not ordered with respect to each other, the elements of  *)
(* a CTS write are placed in any order.  A completion queue is a set: the  *)
(* code relies on no order of the completions, and a work request that is  *)
(* still executing is a completion nobody has polled yet.                  *)
(***************************************************************************)
EXTENDS Striping, Integers, Sequences, FiniteSets, FiniteSetsExt

CONSTANTS NetMaxRequests,   \* NCCL_NET_MAX_REQUESTS
          MaxRecvs,         \* NCCL_NET_IB_MAX_RECVS
          FlushEnabled,     \* flushEnabled of the receive communicator
          Receives,         \* grouped receives the caller may post
          SendSizes,        \* sizes the caller may send
          MaxOps            \* bound: receives posted in a behaviour

MaxRequests == NetMaxRequests * MaxRecvs
Window == NetMaxRequests

Buffer == [tag : Int, size : Nat]

ASSUME TransferAssumption ==
    /\ NetMaxRequests \in Nat \ {0} /\ MaxRecvs \in Nat \ {0, 1}
    /\ MaxRequests <= 256        \* the static_assert behind the wr_id encoding
    /\ FlushEnabled \in BOOLEAN
    /\ MaxOps \in Nat
    /\ SendSizes \subseteq Nat
    /\ Receives \subseteq Seq(Buffer)
    /\ \A recv \in Receives : Len(recv) \in 1 .. MaxRecvs

\* Every device has a slot with its number, so that some CTS of it is signaled
\* (NCCL_IB_MAX_DEVS_PER_NIC is 2).
ASSUME SlotAssumption == NDevs <= MaxRequests

VARIABLES
    \* receive communicator
    rreqs, rqpIndex, devIndex, fifoTail, sizesFifo,
    \* send communicator
    sreqs, sqpIndex, fifoHead, fifo, fifoReqs, multiSent,
    \* the fabric: queues of the QPs and the completion queues
    recvQueue, ctsWire, ctsPosted, ctsRetired, dataWire, rcq, scq,
    \* history
    ops

rvars == <<rreqs, rqpIndex, devIndex, fifoTail, sizesFifo>>
svars == <<sreqs, sqpIndex, fifoHead, fifo, fifoReqs, multiSent>>
fabric == <<recvQueue, ctsWire, ctsPosted, ctsRetired, dataWire, rcq, scq>>
vars == <<rvars, svars, fabric, ops>>

Slots == 0 .. MaxRequests - 1
ReqIds == 0 .. MaxRequests - 1
Recvs == 1 .. MaxRecvs
NoReq == -1       \* a NULL entry of fifoReqs
NotSent == -1     \* history: no message matched to this buffer yet

(***************************************************************************)
(* struct ncclIbRequest.  arg is its union: the size of a send, the slot   *)
(* of sizesFifo of a receive.  op is history: the receive it serves.       *)
(***************************************************************************)
NoEvents == [d \in Devs |-> 0]
Unused == [type |-> "UNUSED", events |-> NoEvents, nreqs |-> 0, arg |-> 0, op |-> 0]
Empty == [idx |-> 0, nreqs |-> 0, size |-> 0, tag |-> 0]

\* Mutant of FreeReqs: the scan of the pool ends one request early.
MutFreeReqs(reqs) == {id \in 0 .. MaxRequests - 2 : reqs[id].type = "UNUSED"}

\* ncclIbGetRequest: the first unused request of the pool.
FreeReqs(reqs) == {id \in ReqIds : reqs[id].type = "UNUSED"}
GetRequest(reqs) == Min(FreeReqs(reqs))

\* ncclIbFreeRequest: the fields of an unused request are dead.
FreeRequest(reqs, id) == [reqs EXCEPT ![id] = Unused]

\* ncclIbAddEvent on the device of every QP of a transfer.
EventsFrom(qpIndex) ==
    [d \in Devs |-> Cardinality({q \in QpsFrom(qpIndex) : DevOf(q) = d})]

Active(reqs, id) == reqs[id].type # "UNUSED"
AllPolled(req) == req.events = NoEvents

Init ==
    /\ rreqs = [id \in ReqIds |-> Unused]
    /\ rqpIndex = 0 /\ devIndex = 0 /\ fifoTail = 0
    /\ sizesFifo = [s \in Slots |-> [r \in Recvs |-> 0]]
    /\ sreqs = [id \in ReqIds |-> Unused]
    /\ sqpIndex = 0 /\ fifoHead = 0
    /\ fifo = [s \in Slots |-> [r \in Recvs |-> Empty]]
    /\ fifoReqs = [s \in Slots |-> [r \in Recvs |-> NoReq]]
    /\ multiSent = FALSE
    /\ recvQueue = [q \in Qps |-> <<>>]
    /\ ctsWire = {}
    /\ ctsPosted = [d \in Devs |-> 0] /\ ctsRetired = [d \in Devs |-> 0]
    /\ dataWire = [q \in Qps |-> <<>>]
    /\ rcq = {} /\ scq = {}
    /\ ops = <<>>

----------------------------------------------------------------------------
(* The receiver. *)

\* Caller's contract: receive k+Window is posted only when k is finished.
RecvWindowOpen ==
    /\ fifoTail < MaxOps
    /\ \A k \in DOMAIN ops : k + Window <= fifoTail + 1 => ops[k].state = "retired"

\* Mutant of FifoSlot: the ring wraps at the size of the window.
MutFifoSlot(tail) == tail % NetMaxRequests

FifoSlot(tail) == tail % MaxRequests

\* ncclIbPostFifo: one RDMA write of the n elements into the sender's slot.
CtsElements(recv) ==
    {[slot |-> FifoSlot(fifoTail), r |-> r,
      elem |-> [idx |-> fifoTail + 1, nreqs |-> Len(recv),
                size |-> recv[r].size, tag |-> recv[r].tag]] : r \in DOMAIN recv}

\* Mutant of CtsSignaled: no CTS write is signaled.
MutCtsSignaled == FALSE

\* The CTS is signaled when its slot number is the number of its device.
CtsSignaled == FifoSlot(fifoTail) = DevOf(devIndex)

\* Mutant of RecvEvents: the completion of the CTS is not counted.
MutRecvEvents == EventsFrom(rqpIndex)

\* Completions the receive waits for: one per work request, and its CTS.
RecvEvents ==
    [d \in Devs |-> EventsFrom(rqpIndex)[d] + IF CtsSignaled /\ d = DevOf(devIndex) THEN 1 ELSE 0]

\* Mutant of RecvPosts: work requests go to the first QPs whatever qpIndex is.
MutRecvPosts == QpsFrom(0)

RecvPosts == QpsFrom(rqpIndex)

NextDevIndex == (devIndex + 1) % NDevs

Irecv(recv) ==
    LET id == GetRequest(rreqs)
        dev == DevOf(devIndex)
    IN
    /\ RecvWindowOpen
    /\ FreeReqs(rreqs) # {}
    /\ rreqs' = [rreqs EXCEPT ![id] =
          [type |-> "RECV", events |-> RecvEvents, nreqs |-> Len(recv),
           arg |-> FifoSlot(fifoTail), op |-> fifoTail + 1]]
    /\ recvQueue' = [q \in Qps |->
          IF q \in RecvPosts THEN Append(recvQueue[q], id) ELSE recvQueue[q]]
    /\ rqpIndex' = NextQpIndex(rqpIndex)
    /\ sizesFifo' = [sizesFifo EXCEPT ![FifoSlot(fifoTail)] =
          [r \in Recvs |-> IF r \in DOMAIN recv THEN 0 ELSE @[r]]]
    /\ ctsWire' = ctsWire \cup CtsElements(recv)
    /\ ctsPosted' = [ctsPosted EXCEPT ![dev] = @ + 1]
    /\ rcq' = IF CtsSignaled
              THEN rcq \cup {[dev |-> dev, qp |-> devIndex, opcode |-> "RDMA_WRITE", wr_id |-> id,
                              imm |-> ctsPosted[dev] + 1, op |-> fifoTail + 1]}
              ELSE rcq
    /\ devIndex' = NextDevIndex
    /\ fifoTail' = fifoTail + 1
    /\ ops' = Append(ops, [recv |-> recv, state |-> "posted",
                           sent |-> [r \in DOMAIN recv |-> NotSent],
                           arrived |-> [r \in DOMAIN recv |-> {}],
                           sizes |-> <<>>])
    /\ UNCHANGED <<svars, ctsRetired, dataWire, scq>>

\* ncclIbIflush, called for a receive whose sizes have been reported: nothing
\* to do when flushing is off or nothing was received, else one RDMA read per
\* device.
Iflush(k) ==
    LET id == GetRequest(rreqs) IN
    /\ ops[k].state = "done"
    /\ IF ~FlushEnabled \/ \A r \in DOMAIN ops[k].sizes : ops[k].sizes[r] = 0
       THEN /\ ops' = [ops EXCEPT ![k].state = "retired"]
            /\ UNCHANGED <<rreqs, rcq>>
       ELSE /\ FreeReqs(rreqs) # {}
            /\ rreqs' = [rreqs EXCEPT ![id] =
                  [Unused EXCEPT !.type = "FLUSH", !.events = [d \in Devs |-> 1], !.op = k]]
            /\ rcq' = rcq \cup {[dev |-> d, qp |-> d, opcode |-> "RDMA_READ", wr_id |-> id,
                                 imm |-> 0, op |-> k] : d \in Devs}
            /\ ops' = [ops EXCEPT ![k].state = "flushing"]
    /\ UNCHANGED <<rqpIndex, devIndex, fifoTail, sizesFifo, svars,
                   recvQueue, ctsWire, ctsPosted, ctsRetired, dataWire, scq>>

\* Mutant of ImmIsSize: the immediate data is taken for the size of a grouped receive too.
MutImmIsSize(cqe, req) == cqe.opcode = "RECV_RDMA_WITH_IMM"

\* The immediate data is the size only when the receive has a single buffer.
ImmIsSize(cqe, req) == cqe.opcode = "RECV_RDMA_WITH_IMM" /\ req.nreqs = 1

\* ncclIbTest on the receive communicator: a completion is taken from a CQ on
\* which the tested request expects one, and applied to the request it names.
RecvTestPoll(cqe) ==
    LET req == rreqs[cqe.wr_id] IN
    /\ cqe \in rcq
    /\ \E id \in ReqIds : Active(rreqs, id) /\ rreqs[id].events[cqe.dev] # 0
    /\ rcq' = rcq \ {cqe}
    /\ rreqs' = [rreqs EXCEPT ![cqe.wr_id].events[cqe.dev] = @ - 1]
    /\ sizesFifo' = IF ImmIsSize(cqe, req)
                    THEN [sizesFifo EXCEPT ![req.arg][1] = cqe.imm] ELSE sizesFifo
    /\ ctsRetired' = IF cqe.opcode = "RDMA_WRITE"
                     THEN [ctsRetired EXCEPT ![cqe.dev] = cqe.imm]
                     ELSE ctsRetired
    /\ UNCHANGED <<rqpIndex, devIndex, fifoTail, svars,
                   recvQueue, ctsWire, ctsPosted, dataWire, scq, ops>>

\* ncclIbTest finds no event left: report, free the request.
RecvTestDone(id) ==
    LET req == rreqs[id] IN
    /\ Active(rreqs, id) /\ AllPolled(req)
    /\ ops' = [ops EXCEPT ![req.op] =
          IF req.type = "RECV"
          THEN [@ EXCEPT !.state = "done",
                         !.sizes = [r \in 1 .. req.nreqs |-> sizesFifo[req.arg][r]]]
          ELSE [@ EXCEPT !.state = "retired"]]
    /\ rreqs' = FreeRequest(rreqs, id)
    /\ UNCHANGED <<rqpIndex, devIndex, fifoTail, sizesFifo, svars, fabric>>

----------------------------------------------------------------------------
(* The sender. *)

\* Caller's contract: a send for receive k+Window only when the sends of k
\* have been tested complete.
SendWindowOpen ==
    \A id \in ReqIds : Active(sreqs, id) => fifoHead + 1 < sreqs[id].op + Window

HeadSlot == fifo[FifoSlot(fifoHead)]
HeadReqs == fifoReqs[FifoSlot(fifoHead)]

\* Mutant of CtsReady: the spin covers the whole slot, not the group's elements.
MutCtsReady == \A r \in Recvs : HeadSlot[r].idx = fifoHead + 1

\* slots[0].idx is the expected one and the spin on the other elements is over.
CtsReady ==
    /\ HeadSlot[1].idx = fifoHead + 1
    /\ \A r \in 2 .. HeadSlot[1].nreqs : HeadSlot[r].idx = fifoHead + 1

\* ncclIbMultiSend: the message posted on the i-th QP visited.  dst are the
\* buffers the slot's elements address, len the sizes of the requests.
Message(i, dst, len, ids) ==
    [dst |-> dst, chunks |-> [r \in DOMAIN len |-> Chunk(len[r], i)],
     sizes |-> len, imm |-> IF Len(len) = 1 THEN len[1] ELSE 0,
     slot |-> FifoSlot(fifoHead), ids |-> ids]

\* Mutant of SendNextQp: the sender steps by one QP less than it has used.
MutSendNextQp == QpAt(sqpIndex, NqpsUsed - 1)

SendNextQp == NextQpIndex(sqpIndex)

MultiSend(ids, reqs) ==
    LET n == HeadSlot[1].nreqs
        dst == [r \in 1 .. n |-> HeadSlot[r].idx]
        len == [r \in 1 .. n |-> reqs[ids[r]].arg]
        Msg(i) == Message(i, dst, len, ids)
    IN
    /\ dataWire' = [q \in Qps |->
          IF q \in QpsFrom(sqpIndex)
          THEN Append(dataWire[q],
                      Msg(CHOOSE i \in 0 .. NqpsUsed - 1 : QpAt(sqpIndex, i) = q))
          ELSE dataWire[q]]
    /\ sqpIndex' = SendNextQp

\* ncclIbIsend: the send is matched to the first free element with its tag;
\* the last one to match posts the data of the whole group.
Isend(tag, size) ==
    LET n == HeadSlot[1].nreqs
        match == {r \in 1 .. n : HeadReqs[r] = NoReq /\ HeadSlot[r].tag = tag}
        r == Min(match)
        id == GetRequest(sreqs)
        len == Min({size, HeadSlot[r].size})
        reqs == [HeadReqs EXCEPT ![r] = id]
    IN
    /\ ~multiSent
    /\ CtsReady
    /\ SendWindowOpen
    /\ match # {}
    /\ FreeReqs(sreqs) # {}
    /\ sreqs' = [sreqs EXCEPT ![id] =
          [type |-> "SEND", events |-> EventsFrom(sqpIndex), nreqs |-> n,
           arg |-> len, op |-> fifoHead + 1]]
    /\ fifoReqs' = [fifoReqs EXCEPT ![FifoSlot(fifoHead)] = reqs]
    /\ ops' = [ops EXCEPT ![HeadSlot[r].idx].sent[r] = len]
    /\ IF \A j \in 1 .. n : reqs[j] # NoReq
       THEN /\ MultiSend([j \in 1 .. n |-> reqs[j]], sreqs')
            /\ multiSent' = TRUE
       ELSE UNCHANGED <<dataWire, sqpIndex, multiSent>>
    /\ UNCHANGED <<rvars, fifoHead, fifo,
                   recvQueue, ctsWire, ctsPosted, ctsRetired, rcq, scq>>

\* The end of the same call: clear slots[0] and the group's requests, advance.
\* The data is already posted, so the receiver may run in between.
IsendReturn ==
    /\ multiSent
    /\ fifo' = [fifo EXCEPT ![FifoSlot(fifoHead)][1] = Empty]
    /\ fifoReqs' = [fifoReqs EXCEPT ![FifoSlot(fifoHead)] = [r \in Recvs |-> NoReq]]
    /\ fifoHead' = fifoHead + 1
    /\ multiSent' = FALSE
    /\ UNCHANGED <<rvars, sreqs, sqpIndex, fabric, ops>>

\* ncclIbTest on the send communicator: the completion counts down every
\* request its wr_id packs.  (It also adds the first one's size to a counter of
\* the statistics, which nothing here reads.)
\* (Its return of an error when an event counter is already 0 is a step not
\* taken here; EventsExact says that it is never due.)
SendTestPoll(cqe) ==
    LET n == sreqs[cqe.ids[1]].nreqs IN
    /\ ~multiSent
    /\ cqe \in scq
    /\ \E id \in ReqIds : Active(sreqs, id) /\ sreqs[id].events[cqe.dev] # 0
    /\ \A j \in 1 .. n : sreqs[cqe.ids[j]].events[cqe.dev] > 0
    /\ sreqs' = [id \in ReqIds |->
          IF \E j \in 1 .. n : cqe.ids[j] = id
          THEN [sreqs[id] EXCEPT !.events[cqe.dev] = @ - 1] ELSE sreqs[id]]
    /\ scq' = scq \ {cqe}
    /\ UNCHANGED <<rvars, sqpIndex, fifoHead, fifo, fifoReqs, multiSent,
                   recvQueue, ctsWire, ctsPosted, ctsRetired, dataWire, rcq, ops>>

SendTestDone(id) ==
    /\ ~multiSent
    /\ Active(sreqs, id) /\ AllPolled(sreqs[id])
    /\ sreqs' = FreeRequest(sreqs, id)
    /\ UNCHANGED <<rvars, sqpIndex, fifoHead, fifo, fifoReqs, multiSent,
                   fabric, ops>>

----------------------------------------------------------------------------
(* The fabric. *)

\* An element of a CTS write becomes visible in the sender's memory.
LandCts(e) ==
    /\ e \in ctsWire
    /\ ctsWire' = ctsWire \ {e}
    /\ fifo' = [fifo EXCEPT ![e.slot][e.r] = e.elem]
    /\ UNCHANGED <<rvars, sreqs, sqpIndex, fifoHead, fifoReqs, multiSent,
                   recvQueue, ctsPosted, ctsRetired, dataWire, rcq, scq, ops>>

\* The oldest message of a QP: its chunks and sizes are placed, it consumes the
\* oldest receive work request of that QP and completes on both sides.
Deliver(q) ==
    LET m == Head(dataWire[q])
        id == Head(recvQueue[q])
    IN
    /\ dataWire[q] # <<>>
    /\ recvQueue[q] # <<>>
    /\ dataWire' = [dataWire EXCEPT ![q] = Tail(@)]
    /\ recvQueue' = [recvQueue EXCEPT ![q] = Tail(@)]
    /\ sizesFifo' = IF Len(m.sizes) = 1 THEN sizesFifo
                    ELSE [sizesFifo EXCEPT ![m.slot] =
                             [r \in Recvs |-> IF r \in DOMAIN m.sizes THEN m.sizes[r] ELSE @[r]]]
    /\ ops' = [k \in DOMAIN ops |->
          [ops[k] EXCEPT !.arrived = [r \in DOMAIN @ |->
             IF r \in DOMAIN m.dst /\ m.dst[r] = k THEN @[r] \cup m.chunks[r] ELSE @[r]]]]
    /\ rcq' = rcq \cup {[dev |-> DevOf(q), qp |-> q, opcode |-> "RECV_RDMA_WITH_IMM", wr_id |-> id,
                         imm |-> m.imm, op |-> m.dst[1]]}
    /\ scq' = scq \cup {[dev |-> DevOf(q), qp |-> q, ids |-> m.ids, op |-> m.dst[1]]}
    /\ UNCHANGED <<rreqs, rqpIndex, devIndex, fifoTail, svars, ctsWire, ctsPosted, ctsRetired>>

----------------------------------------------------------------------------
Tags == UNION {{recv[r].tag : r \in DOMAIN recv} : recv \in Receives}

SendAny == \E tag \in Tags, size \in SendSizes : Isend(tag, size)
FlushAny == \E k \in DOMAIN ops : Iflush(k)
RecvTest == (\E cqe \in rcq : RecvTestPoll(cqe)) \/ (\E id \in ReqIds : RecvTestDone(id))
SendTest == (\E cqe \in scq : SendTestPoll(cqe)) \/ (\E id \in ReqIds : SendTestDone(id))
LandAny == \E e \in ctsWire : LandCts(e)

Next ==
    \/ \E recv \in Receives : Irecv(recv)
    \/ FlushAny
    \/ RecvTest
    \/ SendAny
    \/ IsendReturn
    \/ SendTest
    \/ LandAny
    \/ \E q \in Qps : Deliver(q)

Spec == Init /\ [][Next]_vars

(***************************************************************************)
(* Both callers keep polling their requests and eventually send, and the   *)
(* fabric is reliable.  Nobody is obliged to post another receive.         *)
(***************************************************************************)
Fairness ==
    /\ WF_vars(FlushAny) /\ WF_vars(RecvTest)
    /\ WF_vars(SendAny) /\ WF_vars(IsendReturn) /\ WF_vars(SendTest)
    /\ WF_vars(LandAny) /\ \A q \in Qps : WF_vars(Deliver(q))

FairSpec == Spec /\ Fairness
----------------------------------------------------------------------------
(* Properties. *)

(***************************************************************************)
(* The two sides walk the QPs in lock step: the message the sender posts   *)
(* for a receive consumes, on every QP, a work request of that very        *)
(* receive, so the size carried as immediate data and the completion are   *)
(* credited to it and not to a neighbour (qpIndex in ncclIbIrecv and in    *)
(* ncclIbMultiSend).                                                       *)
(***************************************************************************)
ImmMatchesRecv ==
    \A c \in rcq : /\ Active(rreqs, c.wr_id)
                   /\ rreqs[c.wr_id].op = c.op
                   /\ c.opcode = "RECV_RDMA_WITH_IMM" => rreqs[c.wr_id].type = "RECV"

(***************************************************************************)
(* No message ever finds its QP without a receive work request (RNR): all  *)
(* of them are posted before the CTS that lets the sender go.              *)
(***************************************************************************)
ReceiverReady == \A q \in Qps : Len(dataWire[q]) <= Len(recvQueue[q])

\* The places <<q, i>> in the queues of the QPs.
PlacesIn(queues) == UNION {{q} \X DOMAIN queues[q] : q \in Qps}

\* Completions a receive-side request still has coming on device d.
RecvOutstanding(id, d) ==
    Cardinality({c \in rcq : c.wr_id = id /\ c.dev = d})
    + Cardinality({w \in PlacesIn(recvQueue) : DevOf(w[1]) = d /\ recvQueue[w[1]][w[2]] = id})

SendOutstanding(id, d) ==
    Cardinality({c \in scq : c.dev = d /\ \E j \in DOMAIN c.ids : c.ids[j] = id})
    + Cardinality({w \in PlacesIn(dataWire) :
                      /\ DevOf(w[1]) = d
                      /\ \E j \in DOMAIN dataWire[w[1]][w[2]].ids : dataWire[w[1]][w[2]].ids[j] = id})

\* A send that waits for the rest of its group: matched, nothing posted.
AwaitsGroup(id) == ~multiSent /\ \E r \in Recvs : HeadReqs[r] = id

(***************************************************************************)
(* The events counters are exact: a request expects precisely the          *)
(* completions that are still to come, per device.  So ncclIbTest never    *)
(* meets its `events <= 0' error, never frees a request with a completion  *)
(* outstanding (which would be applied to the next owner of the request)   *)
(* and never waits for one that does not exist.                            *)
(***************************************************************************)
EventsExact ==
    \A id \in ReqIds, d \in Devs :
        /\ rreqs[id].events[d] = RecvOutstanding(id, d)
        /\ sreqs[id].events[d] = IF AwaitsGroup(id) THEN EventsFrom(sqpIndex)[d]
                                 ELSE SendOutstanding(id, d)

(***************************************************************************)
(* When ncclIbTest reports a receive, every byte of every message of the   *)
(* group, from all QPs and devices, is in its buffer.                      *)
(***************************************************************************)
DataComplete ==
    \A k \in DOMAIN ops : ops[k].state # "posted" =>
        \A r \in DOMAIN ops[k].sent : ops[k].arrived[r] = 0 .. ops[k].sent[r] - 1

(***************************************************************************)
(* A caller that keeps to its window never finds the pool of MaxRequests   *)
(* requests empty ("unable to allocate requests"), flushes included.       *)
(***************************************************************************)
PoolSuffices ==
    /\ (RecvWindowOpen \/ \E k \in DOMAIN ops : ops[k].state = "done") => FreeReqs(rreqs) # {}
    /\ (~multiSent /\ CtsReady /\ SendWindowOpen) => FreeReqs(sreqs) # {}

\* Send work requests a group of n sends posts on a QP, at most.
GroupWrs(n) == n + 1

\* The sum of the values of f.
Total(f) == MapThenSumSet(LAMBDA x : f[x], DOMAIN f)

\* Send work requests of QP q whose completion the sender has not polled.
SendWrs(q) ==
    Total([i \in DOMAIN dataWire[q] |-> GroupWrs(Len(dataWire[q][i].ids))])
    + Total([c \in {c \in scq : c.qp = q} |-> GroupWrs(Len(c.ids))])

(***************************************************************************)
(* No queue overflows its depth: receive queues (max_recv_wr), the send    *)
(* queues of the sender and, although most CTS writes are unsignaled, of   *)
(* the receiver (max_send_wr), and both completion queues.                 *)
(***************************************************************************)
QueuesFit ==
    /\ \A q \in Qps : Len(recvQueue[q]) <= MaxRequests /\ SendWrs(q) <= 2 * MaxRequests
    /\ \A d \in Devs :
          /\ ctsPosted[d] - ctsRetired[d] <= 2 * MaxRequests
          /\ Cardinality({c \in rcq : c.dev = d}) <= 2 * MaxRequests * QpsPerConn
          /\ Cardinality({c \in scq : c.dev = d}) <= 2 * MaxRequests * QpsPerConn

\* The state of the channel: receives posted, sizes sent, sizes reported.
ChannelPosted == [k \in DOMAIN ops |-> ops[k].recv]
ChannelFilled == [k \in DOMAIN ops |-> ops[k].sent]
ChannelReported == [k \in DOMAIN ops |-> ops[k].sizes]

Channel == INSTANCE TaggedChannel WITH
    posted <- ChannelPosted, filled <- ChannelFilled, reported <- ChannelReported

(***************************************************************************)
(* The connection is a tagged, ordered channel: sends match the oldest     *)
(* open receive, a receive is reported only when its whole group is sent,  *)
(* and reports the sizes sent, whatever the order of elements, chunks,     *)
(* completions and calls to ncclIbTest.                                    *)
(***************************************************************************)
ImplementsChannel == Channel!Spec

\* The state of the CTS FIFO: sizes of the groups, elements under way, elements
\* placed, receives the caller is done with.
CtsNeed == [k \in 1 .. MaxOps |-> IF k \in DOMAIN ops THEN Len(ops[k].recv) ELSE 0]
CtsInflight == {<<e.elem.idx, e.r>> : e \in ctsWire}
CtsPlaced == [s \in Slots |-> [r \in Recvs |-> fifo[s][r].idx]]
CtsFinished == {k \in DOMAIN ops : ops[k].state = "retired"}

Cts == INSTANCE CtsFifo WITH
    tail <- fifoTail, head <- fifoHead, posted <- multiSent,
    need <- CtsNeed, inflight <- CtsInflight, fifo <- CtsPlaced, retired <- CtsFinished

(***************************************************************************)
(* The data path implements the CTS FIFO: in particular a receive never    *)
(* completes before the sender has consumed its CTS, the step on which the *)
(* safety of reusing slots rests.                                          *)
(***************************************************************************)
ImplementsCtsFifo == Cts!Spec

(***************************************************************************)
(* Every receive that is posted completes, is flushed and returns its      *)
(* request, and every send request that is handed out completes.           *)
(***************************************************************************)
EverythingCompletes ==
    /\ \A k \in 1 .. MaxOps :
          fifoTail >= k ~> (k \in DOMAIN ops /\ ops[k].state = "retired")
    /\ \A id \in ReqIds : Active(sreqs, id) ~> ~Active(sreqs, id)

=============================================================================
