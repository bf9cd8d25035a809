---------------------------- MODULE MCIbConnect ----------------------------
(* Instances of IbConnect for TLC.  Once one side has returned, an error   *)
(* included, the other may be left with nothing to do; before that, a      *)
(* stuck state is a deadlock.                                              *)
EXTENDS IbConnect

Terminating ==
    /\ cret # "pending" \/ aret # "pending"
    /\ UNCHANGED vars

MCSpec == Init /\ [][Next \/ Terminating]_vars
MCFairSpec == MCSpec /\ Fairness
=============================================================================
