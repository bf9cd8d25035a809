----------------------------- MODULE MCIbDevice -----------------------------
(* Instances of IbDevice for TLC.                                          *)
EXTENDS IbDevice, TLC

CONSTANTS a, b, m1, m2, m3

Pages(addr, n) == [addr |-> addr, pages |-> n]

\* Nested and overlapping ranges: the second covers the third, the first
\* overlaps the second without being covered by it.
OverlappingRanges == {Pages(1, 2), Pages(2, 3), Pages(3, 1)}

\* Neither communicators nor handles are told apart.
Symmetric == Permutations(Comms) \cup Permutations(Handles)

\* Bound: after the second failure the communicators call one at a time.
InTurn == failed < 2 \/ \E c \in Comms : comm[c].pc \in {"closed", "open", "holding"}
=============================================================================
