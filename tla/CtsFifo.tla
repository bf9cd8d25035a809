------------------------------ MODULE CtsFifo ------------------------------
(***************************************************************************)
(* The clear-to-send FIFO of a unet connection, seen on its own.           *)
(*                                                                         *)
(* The receiver announces its k-th (grouped) receive by RDMA-writing one   *)
(* element per buffer into slot (k-1) % MaxRequests of the sender's memory *)
(* (ncclIbPostFifo).  The sender spins on the elements' idx field, matches *)
(* its sends, posts the data and then clears ONLY the first element of the *)
(* slot (ncclIbIsend).  Nothing is acknowledged: that a slot is free again *)
(* follows only from the caller keeping at most Window receives open.      *)
(*                                                                         *)
(* This is the abstract specification of the flow control; IbTransfer, the *)
(* whole data path, is shown to implement it.                              *)
(***************************************************************************)
EXTENDS Naturals

CONSTANTS MaxRequests,   \* number of FIFO slots (MAX_REQUESTS)
          MaxRecvs,      \* elements of a slot (NCCL_NET_IB_MAX_RECVS)
          Window,        \* receives the caller keeps open (NCCL_NET_MAX_REQUESTS)
          MaxOps         \* bound: receives posted in a behaviour

ASSUME CtsAssumption ==
    /\ MaxRequests \in Nat /\ MaxRecvs \in Nat \ {0} /\ MaxOps \in Nat
    /\ Window \in Nat \ {0}
    /\ Window < MaxRequests

VARIABLES tail,      \* remFifo.fifoTail: receives posted
          head,      \* fifoHead: receives whose slot the sender has released
          need,      \* nreqs of every posted receive
          inflight,  \* elements <<k, r>> written and not yet placed
          fifo,      \* idx of the element placed last, 0 when cleared
          posted,    \* the data of receive head+1 is posted, its slot not yet cleared
          retired    \* receives the receiver's caller has finished with

vars == <<tail, head, need, inflight, fifo, posted, retired>>

Slots == 0 .. MaxRequests - 1
Recvs == 1 .. MaxRecvs
Ops == 1 .. MaxOps

Slot(k) == (k - 1) % MaxRequests

(***************************************************************************)
(* Receives whose announcement the sender has acted on: their data is on   *)
(* its way, so the receiver may complete them at any moment.               *)
(***************************************************************************)
Consumed == IF posted THEN head + 1 ELSE head

Init ==
    /\ tail = 0 /\ head = 0
    /\ need = [k \in Ops |-> 0]
    /\ inflight = {}
    /\ fifo = [s \in Slots |-> [r \in Recvs |-> 0]]
    /\ posted = FALSE
    /\ retired = {}

\* Mutant of MayPost: the window is one receive too wide.
MutMayPost == tail < MaxOps /\ \A k \in Ops : k + Window <= tail => k \in retired

\* Mutant of MayPost: only the size of the ring limits the receives, and that off by one.
MutMayPostRing == tail < MaxOps /\ \A k \in Ops : k + MaxRequests <= tail => k \in retired

\* The caller opens receive tail+1 only when receive tail+1-Window is finished.
MayPost == tail < MaxOps /\ \A k \in Ops : k + Window <= tail + 1 => k \in retired

Post(n) ==
    /\ MayPost
    /\ tail' = tail + 1
    /\ need' = [need EXCEPT ![tail + 1] = n]
    /\ inflight' = inflight \cup {<<tail + 1, r>> : r \in 1 .. n}
    /\ UNCHANGED <<head, fifo, posted, retired>>

\* The NIC places an element; elements of one write are placed in any order.
Land(k, r) ==
    /\ <<k, r>> \in inflight
    /\ inflight' = inflight \ {<<k, r>>}
    /\ fifo' = [fifo EXCEPT ![Slot(k)][r] = k]
    /\ UNCHANGED <<tail, head, need, posted, retired>>

\* Mutant of SlotReady: the sender does not spin on the elements behind the first.
MutSlotReady == fifo[Slot(head + 1)][1] = head + 1

\* Every element of the slot carries the expected idx.
SlotReady ==
    /\ fifo[Slot(head + 1)][1] = head + 1
    /\ \A r \in 1 .. need[head + 1] : fifo[Slot(head + 1)][r] = head + 1

Consume ==
    /\ ~posted
    /\ head < tail
    /\ SlotReady
    /\ posted' = TRUE
    /\ UNCHANGED <<tail, head, need, inflight, fifo, retired>>

\* memset of slots[0] alone, then fifoHead++.
Clear ==
    /\ posted
    /\ fifo' = [fifo EXCEPT ![Slot(head + 1)][1] = 0]
    /\ head' = head + 1
    /\ posted' = FALSE
    /\ UNCHANGED <<tail, need, inflight, retired>>

\* Mutant of Retire: a receive completes before its announcement is used.
MutRetire(k) ==
    /\ k \notin retired
    /\ k <= tail
    /\ retired' = retired \cup {k}
    /\ UNCHANGED <<tail, head, need, inflight, fifo, posted>>

\* The receive completes at the receiver and its caller is done with it.
Retire(k) ==
    /\ k \notin retired
    /\ k <= Consumed
    /\ retired' = retired \cup {k}
    /\ UNCHANGED <<tail, head, need, inflight, fifo, posted>>

Next ==
    \/ \E n \in Recvs : Post(n)
    \/ \E k \in Ops, r \in Recvs : Land(k, r)
    \/ Consume
    \/ Clear
    \/ \E k \in Ops : Retire(k)

Spec == Init /\ [][Next]_vars

----------------------------------------------------------------------------
\* Type correctness of the FIFO's state.
TypeOK ==
    /\ tail \in 0 .. MaxOps
    /\ head \in 0 .. MaxOps
    /\ need \in [Ops -> 0 .. MaxRecvs]
    /\ inflight \subseteq Ops \X Recvs
    /\ fifo \in [Slots -> [Recvs -> 0 .. MaxOps]]
    /\ posted \in BOOLEAN
    /\ retired \subseteq Ops

(***************************************************************************)
(* No announcement is ever lost: until the sender has acted on receive k,  *)
(* each of its elements is either still under way or sits in its slot.  A  *)
(* violation is a sender that waits for a CTS for ever: the memset of an   *)
(* older receive, or the write of a newer one, hit the element.            *)
(***************************************************************************)
NoLostCts ==
    \A k \in Ops : \A r \in Recvs :
        (Consumed < k /\ k <= tail /\ r <= need[k]) =>
            (<<k, r>> \in inflight \/ fifo[Slot(k)][r] = k)

(***************************************************************************)
(* An element that is still under way never lands on an announcement the   *)
(* sender has yet to use, nor in the slot whose first element the sender   *)
(* is about to clear.                                                      *)
(***************************************************************************)
NoOverwrite ==
    \A k \in Ops : \A r \in Recvs :
        <<k, r>> \in inflight =>
            /\ Consumed < k
            /\ ~(Consumed < fifo[Slot(k)][r] /\ fifo[Slot(k)][r] <= tail)
            /\ (posted => Slot(k) # Slot(head + 1))

(***************************************************************************)
(* The receiver never runs ahead of the sender by more than the caller's   *)
(* window, which is what makes reusing a slot after MaxRequests safe.      *)
(***************************************************************************)
WindowHolds == head <= tail /\ tail <= Consumed + Window

(***************************************************************************)
(* The inductive invariant: what NoLostCts, NoOverwrite and WindowHolds    *)
(* rest on.  Receives retire only after the sender consumed them; the      *)
(* elements under way belong to receives not yet consumed and are not also *)
(* placed; what is placed sits in its own slot.                            *)
(***************************************************************************)
IndInv ==
    /\ TypeOK
    /\ WindowHolds
    /\ posted => head < tail
    /\ \A k \in retired : k <= Consumed
    /\ \A k \in Ops : \A r \in Recvs :
          <<k, r>> \in inflight => /\ Consumed < k /\ k <= tail /\ r <= need[k]
                                   /\ fifo[Slot(k)][r] # k
    /\ \A s \in Slots : \A r \in Recvs :
          fifo[s][r] # 0 => fifo[s][r] <= tail /\ Slot(fifo[s][r]) = s
    /\ NoLostCts
=============================================================================
