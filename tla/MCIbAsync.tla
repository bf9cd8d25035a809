----------------------------- MODULE MCIbAsync -----------------------------
(* Instances of IbAsync for TLC.                                           *)
EXTENDS IbAsync

CONSTANTS a, b
=============================================================================
