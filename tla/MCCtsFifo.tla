----------------------------- MODULE MCCtsFifo -----------------------------
(* Model-checking instance of CtsFifo.  The only state in which nothing    *)
(* may happen is the end of the bounded run: all MaxOps receives retired.  *)
(* Any other stuck state (a sender waiting for a lost CTS) is a deadlock.  *)
EXTENDS CtsFifo

Terminating == head = MaxOps /\ retired = Ops /\ UNCHANGED vars

MCSpec == Init /\ [][Next \/ Terminating]_vars
=============================================================================
