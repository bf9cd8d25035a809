----------------------------- MODULE MCMonitor -----------------------------
(* Instances of Stats and Monitor for TLC.                                 *)
EXTENDS Monitor, TLC

CONSTANTS p1, p2

Setup(starts1, starts2, failing, asking) ==
    [starts |-> p1 :> starts1 @@ p2 :> starts2, ranked |-> {},
     failures |-> failing, monitor |-> TRUE, asked |-> asking]

\* Two processes, of which the user asks for one or for both; two of the same
\* pid, one after the other; one with both regions; and one with both regions
\* and more failures, without a monitor.
Ranked1 == [Setup(1, 0, 1, {}) EXCEPT !.ranked = {p1}]
Setups5 == {Setup(1, 1, 0, {p2}), Setup(1, 1, 0, {p1, p2}), Setup(2, 0, 1, {}), Ranked1,
            [Ranked1 EXCEPT !.failures = 2, !.monitor = FALSE]}
=============================================================================
