------------------------------ MODULE MCTuner ------------------------------
(* Instances of Tuner for TLC.                                             *)
EXTENDS Tuner, TLC

CONSTANTS c1, c2

(***************************************************************************)
(* The first communicator has any tuned shape, a shape without a table, or *)
(* one with the ranks of a tuned shape on another number of nodes; the     *)
(* second one agrees with it in both numbers, in one or in none.           *)
(***************************************************************************)
CommShapes ==
    (c1 :> {tuner_shapes[i] : i \in DOMAIN tuner_shapes} \cup {<<24, 3>>, <<32, 8>>})
    @@ (c2 :> {<<32, 4>>})

\* No combination is ruled out, all those with protocol LL128, or all but one.
IgnoredCombos ==
    {{}, {ap \in Combos : ap.proto = "LL128"}, Combos \ {[algo |-> "ring", proto |-> "simple"]}}

\* The sizes at which an answer can change, and the ones just below.
Below(S) == S \cup {x - 1 : x \in S}
AllSizes ==
    Below({2^k : k \in 20 .. 30}) \cup Below({3 * 2^k : k \in 18 .. 28})
    \cup Below({5 * 2^k : k \in 21 .. 26}) \cup Below({9 * 2^19, 2^30 + 2^28 + 1})
    \cup {3 * 2^k + 1 : k \in 18 .. 28}
=============================================================================
