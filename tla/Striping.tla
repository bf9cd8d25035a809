------------------------------ MODULE Striping ------------------------------
(***************************************************************************)
(* How a connection spreads its work over queue pairs and devices.         *)
(*                                                                         *)
(* QPs are created round robin over the devices of the (merged) NIC, so QP *)
(* q lives on device q % NDevs on both sides.  A transfer uses NqpsUsed    *)
(* consecutive QPs, counted from the connection's qpIndex, and cuts every  *)
(* message into NqpsUsed chunks whose size is a multiple of Align.         *)
(***************************************************************************)
EXTENDS Integers

CONSTANTS NDevs,            \* base.ndevs: 1, or 2 for a merged NIC
          QpsPerConn,       \* NCCL_IB_QPS_PER_CONNECTION
          SplitDataOnQps,   \* NCCL_IB_SPLIT_DATA_ON_QPS
          Align             \* 128 in the code

ASSUME StripingAssumption ==
    /\ NDevs \in Nat \ {0}
    /\ QpsPerConn \in Nat \ {0}
    /\ SplitDataOnQps \in BOOLEAN
    /\ Align \in Nat \ {0}

Nqps == QpsPerConn * NDevs
NqpsUsed == IF SplitDataOnQps THEN Nqps ELSE NDevs

Devs == 0 .. NDevs - 1
Qps == 0 .. Nqps - 1

DevOf(q) == q % NDevs

\* The i-th QP visited by a transfer that starts at qpIndex.
QpAt(qpIndex, i) == (qpIndex + i) % Nqps
QpsFrom(qpIndex) == {QpAt(qpIndex, i) : i \in 0 .. NqpsUsed - 1}
NextQpIndex(qpIndex) == QpAt(qpIndex, NqpsUsed)

DIVUP(x, y) == (x + y - 1) \div y

\* Mutant of ChunkSize: the chunk size is rounded down to the alignment.
MutChunkSize(size) == (DIVUP(size, NqpsUsed) \div Align) * Align

ChunkSize(size) == DIVUP(DIVUP(size, NqpsUsed), Align) * Align

\* Bytes [first, end) that the i-th QP visited carries; empty when length <= 0.
ChunkFirst(size, i) == i * ChunkSize(size)
ChunkEnd(size, i) ==
    IF size - ChunkFirst(size, i) < ChunkSize(size)
    THEN size ELSE ChunkFirst(size, i) + ChunkSize(size)
Chunk(size, i) == {b \in 0 .. size - 1 : ChunkFirst(size, i) <= b /\ b < ChunkEnd(size, i)}
=============================================================================
