---------------------------- MODULE TaggedChannel ----------------------------
(***************************************************************************)
(* What a unet connection promises its caller, without any mechanism: a    *)
(* receiver posts grouped receives, each a sequence of (tag, size)         *)
(* buffers; a sender's message goes to the first free buffer with its tag  *)
(* in the OLDEST receive that still has a free buffer, never to a younger  *)
(* one; a receive is reported complete only when all its buffers have been *)
(* filled, and the sizes it reports are those of the messages that fill    *)
(* them.                                                                   *)
(***************************************************************************)
EXTENDS Integers, Sequences

CONSTANTS Receives,    \* the grouped receives a caller may post
          SendSizes,   \* the message sizes a caller may send
          MaxOps       \* bound: receives posted in a behaviour

VARIABLES posted,      \* the receives, in the order they were posted
          filled,      \* size of the message in each buffer, Free when none
          reported     \* sizes reported to the receiver's caller, <<>> before

vars == <<posted, filled, reported>>

Free == -1
IsFull(k) == \A r \in DOMAIN filled[k] : filled[k][r] # Free

Init == posted = <<>> /\ filled = <<>> /\ reported = <<>>

Post(recv) ==
    /\ Len(posted) < MaxOps
    /\ posted' = Append(posted, recv)
    /\ filled' = Append(filled, [r \in DOMAIN recv |-> Free])
    /\ reported' = Append(reported, <<>>)

\* A message of size bytes for buffer r, the first free one with its tag.
Fill(k, r, size) ==
    /\ ~IsFull(k) /\ \A j \in 1 .. k - 1 : IsFull(j)
    /\ filled[k][r] = Free
    /\ \A i \in 1 .. r - 1 : posted[k][i].tag = posted[k][r].tag => filled[k][i] # Free
    /\ filled' = [filled EXCEPT ![k][r] =
                     IF size > posted[k][r].size THEN posted[k][r].size ELSE size]
    /\ UNCHANGED <<posted, reported>>

Report(k) ==
    /\ IsFull(k)
    /\ reported[k] = <<>>
    /\ reported' = [reported EXCEPT ![k] = filled[k]]
    /\ UNCHANGED <<posted, filled>>

Next ==
    \/ \E recv \in Receives : Post(recv)
    \/ \E k \in 1 .. Len(posted) :
          \/ \E r \in DOMAIN posted[k], size \in SendSizes : Fill(k, r, size)
          \/ Report(k)

Spec == Init /\ [][Next]_vars
=============================================================================
