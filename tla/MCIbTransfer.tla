---------------------------- MODULE MCIbTransfer ----------------------------
(* Instances of IbTransfer for TLC.                                        *)
EXTENDS IbTransferInv

Buf(tag, size) == [tag |-> tag, size |-> size]

\* A plain receive, and a group of two buffers with different tags.
MixedReceives == {<<Buf(1, 5)>>, <<Buf(1, 1), Buf(2, 5)>>}

\* The end of the bounded run: every receive and every send is finished.
Terminating ==
    /\ fifoTail = MaxOps /\ \A k \in DOMAIN ops : ops[k].state = "retired"
    /\ \A id \in ReqIds : ~Active(sreqs, id)
    /\ UNCHANGED vars

\* Bounds of the long run.  The first two receives may be groups, which fills
\* the pools; up to the fifth, two receives are open at once while the ring is
\* used again; the rest come one by one, until the send queues could be full.
LongRun ==
    \A k \in DOMAIN ops :
        /\ k > 2 => Len(ops[k].recv) = 1
        /\ k > 5 => \A j \in 1 .. k - 1 : ops[j].state = "retired"

MCSpec == Init /\ [][Next \/ Terminating]_vars

\* ncclIbTest that finds no completion (*done = 0): the caller will poll again.
\* With it a request that nothing completes is a violation of
\* EverythingCompletes, not a state without successor.
PollInVain ==
    /\ \E id \in ReqIds : Active(rreqs, id) \/ Active(sreqs, id)
    /\ UNCHANGED vars

MCFairSpec == Init /\ [][Next \/ PollInVain \/ Terminating]_vars /\ Fairness
=============================================================================
