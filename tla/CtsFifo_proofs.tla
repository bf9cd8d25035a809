--------------------------- MODULE CtsFifo_proofs ---------------------------
(***************************************************************************)
(* For every number of slots, group size, bound and window smaller than    *)
(* the number of slots, the CTS FIFO loses no announcement.                *)
(***************************************************************************)
EXTENDS CtsFifo, TLAPS

LEMMA Positive == MaxRequests \in Nat \ {0} /\ Window \in Nat \ {0}
BY CtsAssumption

LEMMA SlotType ==
    ASSUME NEW k \in Nat \ {0}
    PROVE  Slot(k) \in Slots
BY Positive DEF Slot, Slots

\* Receives less than MaxRequests apart use different slots.
LEMMA SlotInjective ==
    ASSUME NEW j \in Nat \ {0}, NEW k \in Nat \ {0},
           j <= k, k - j < MaxRequests, Slot(j) = Slot(k)
    PROVE  j = k
<1> DEFINE m == MaxRequests
           a == j - 1
           b == k - 1
           p == a \div m
           q == b \div m
<1>1. m \in Nat \ {0} /\ a \in Nat /\ b \in Nat /\ a <= b /\ b - a < m
  BY Positive
<1>2. a % m = b % m
  BY DEF Slot
<1>3. p \in Nat /\ q \in Nat /\ a = m * p + (a % m) /\ b = m * q + (b % m)
      /\ a % m \in Nat
  BY <1>1
<1> HIDE DEF p, q, m, a, b
<1>4. m * p \in Nat /\ m * q \in Nat /\ b - a = m * q - m * p
  BY <1>1, <1>2, <1>3
<1>5. q > p => m * q >= m * p + m
  <2> SUFFICES ASSUME q >= p + 1 PROVE m * q >= m * p + m
    BY <1>3
  <2>1. m * q >= m * (p + 1)
    BY <1>1, <1>3
  <2>2. m * (p + 1) = m * p + m
    BY <1>1, <1>3
  <2> QED
    BY <2>1, <2>2
<1>6. q < p => m * p >= m * q + m
  <2> SUFFICES ASSUME p >= q + 1 PROVE m * p >= m * q + m
    BY <1>3
  <2>1. m * p >= m * (q + 1)
    BY <1>1, <1>3
  <2>2. m * (q + 1) = m * q + m
    BY <1>1, <1>3
  <2> QED
    BY <2>1, <2>2
<1>7. p = q
  BY <1>1, <1>3, <1>4, <1>5, <1>6
<1>8. a = b
  BY <1>2, <1>3, <1>7
<1> QED
  BY <1>8 DEF a, b

\* Two receives of the open window never share a slot.
LEMMA WindowSlots ==
    ASSUME TypeOK, WindowHolds,
           NEW j \in Nat, NEW k \in Nat,
           Consumed <= j, j <= tail, Consumed <= k, k <= tail, 0 < j, 0 < k,
           Slot(j) = Slot(k)
    PROVE  j = k
<1>1. Consumed \in Nat /\ tail \in Nat /\ tail <= Consumed + Window
  BY DEF TypeOK, WindowHolds, Consumed
<1>2. Window \in Nat /\ MaxRequests \in Nat /\ Window < MaxRequests
  BY CtsAssumption
<1>3. CASE j <= k
  <2>1. k - j < MaxRequests
    BY <1>1, <1>2
  <2> QED
    BY <1>3, <2>1, SlotInjective
<1>4. CASE k <= j
  <2>1. j - k < MaxRequests
    BY <1>1, <1>2
  <2> QED
    BY <1>4, <2>1, SlotInjective
<1> QED
  BY <1>3, <1>4

LEMMA InitInv == Init => IndInv
<1> SUFFICES ASSUME Init PROVE IndInv
  OBVIOUS
<1>1. TypeOK
  <2>1. MaxOps \in Nat /\ MaxRecvs \in Nat
    BY CtsAssumption
  <2>2. need \in [Ops -> 0 .. MaxRecvs]
    BY <2>1 DEF Init
  <2>3. fifo \in [Slots -> [Recvs -> 0 .. MaxOps]]
    BY <2>1 DEF Init
  <2>4. inflight \subseteq Ops \X Recvs /\ retired \subseteq Ops
    BY DEF Init
  <2>5. tail \in 0 .. MaxOps /\ head \in 0 .. MaxOps
    BY <2>1 DEF Init
  <2>6. posted \in BOOLEAN
    BY Zenon DEF Init
  <2> QED
    BY <2>2, <2>3, <2>4, <2>5, <2>6 DEF TypeOK
<1>2. Consumed = 0
  BY DEF Init, Consumed
<1>3. WindowHolds
  BY <1>2, CtsAssumption DEF Init, WindowHolds
<1>4. NoLostCts
  BY <1>2 DEF Init, NoLostCts, Ops
<1> QED
  BY <1>1, <1>3, <1>4 DEF Init, IndInv

LEMMA PostInv ==
    ASSUME IndInv, NEW n \in Recvs, Post(n)
    PROVE  IndInv'
<1> USE DEF IndInv
<1>0. tail + 1 \in Ops /\ MaxOps \in Nat /\ tail \in Nat /\ head \in Nat /\ n \in 1 .. MaxRecvs
      /\ MaxRecvs \in Nat
  BY CtsAssumption DEF Post, MayPost, TypeOK, Ops, Recvs
<1>1. Consumed' = Consumed /\ Consumed \in Nat
  BY <1>0 DEF Post, Consumed
<1>2. TypeOK'
  <2>1. inflight' \subseteq Ops \X Recvs
    BY <1>0 DEF Post, TypeOK, Recvs
  <2>2. need' \in [Ops -> 0 .. MaxRecvs]
    BY <1>0 DEF Post, TypeOK, Recvs
  <2>3. tail' \in 0 .. MaxOps
    BY <1>0 DEF Post, Ops
  <2> QED
    BY <2>1, <2>2, <2>3 DEF Post, TypeOK
<1>3. tail + 1 <= Consumed + Window
  <2>1. CASE tail + 1 <= Window
    BY <2>1, <1>0, <1>1, CtsAssumption
  <2>2. CASE tail + 1 > Window
    <3> DEFINE k == tail + 1 - Window
    <3>1. k \in Ops /\ k + Window <= tail + 1
      BY <2>2, <1>0, CtsAssumption DEF Ops
    <3>2. k \in retired
      BY <3>1 DEF Post, MayPost
    <3>3. k <= Consumed
      BY <3>2
    <3> QED
      BY <3>3, <1>0, <1>1, CtsAssumption
  <2> QED
    BY <2>1, <2>2, <1>0, CtsAssumption
<1>4. WindowHolds'
  BY <1>0, <1>1, <1>3 DEF Post, WindowHolds
<1>5. (posted => head < tail)'
  BY <1>0 DEF Post
<1>6. (\A k \in retired : k <= Consumed)'
  BY <1>1 DEF Post
<1>7. Consumed <= tail
  BY <1>0 DEF Consumed, WindowHolds
<1>8. \A k \in Ops : \A r \in Recvs : <<k, r>> \in inflight' =>
          /\ Consumed < k /\ k <= tail' /\ r <= need'[k] /\ fifo'[Slot(k)][r] # k
  <2> SUFFICES ASSUME NEW k \in Ops, NEW r \in Recvs, <<k, r>> \in inflight'
               PROVE  /\ Consumed < k /\ k <= tail' /\ r <= need'[k]
                      /\ fifo'[Slot(k)][r] # k
    OBVIOUS
  <2>1. CASE <<k, r>> \in inflight
    BY <2>1, <1>0 DEF Post, TypeOK, Ops
  <2>2. CASE k = tail + 1 /\ r \in 1 .. n
    <3>1. Slot(k) \in Slots
      BY <2>2, <1>0, SlotType
    <3>2. fifo[Slot(k)][r] # k
      BY <3>1, <2>2, <1>0 DEF TypeOK
    <3> QED
      BY <2>2, <3>2, <1>0, <1>1, <1>7 DEF Post, TypeOK
  <2> QED
    BY <2>1, <2>2 DEF Post
<1>9. (\A s \in Slots : \A r \in Recvs :
          fifo[s][r] # 0 => fifo[s][r] <= tail /\ Slot(fifo[s][r]) = s)'
  <2> SUFFICES ASSUME NEW s \in Slots, NEW r \in Recvs, fifo[s][r] # 0
               PROVE  fifo[s][r] <= tail + 1 /\ Slot(fifo[s][r]) = s
    BY DEF Post, Slot
  <2> QED
    BY <1>0 DEF TypeOK
<1>10. NoLostCts'
  <2> SUFFICES ASSUME NEW k \in Ops, NEW r \in Recvs,
                      Consumed < k, k <= tail', r <= need'[k]
               PROVE  <<k, r>> \in inflight' \/ fifo'[Slot(k)][r] = k
    BY <1>1 DEF NoLostCts, Slot
  <2>1. CASE k = tail + 1
    BY <2>1, <1>0 DEF Post, TypeOK, Recvs
  <2>2. CASE k <= tail
    <3>1. need'[k] = need[k]
      BY <2>2, <1>0 DEF Post, TypeOK
    <3> QED
      BY <3>1, <2>2 DEF Post, NoLostCts
  <2> QED
    BY <2>1, <2>2, <1>0 DEF Post, Ops
<1> QED
  BY <1>1, <1>2, <1>4, <1>5, <1>6, <1>8, <1>9, <1>10 DEF Slot

LEMMA LandInv ==
    ASSUME IndInv, NEW k \in Ops, NEW r \in Recvs, Land(k, r)
    PROVE  IndInv'
<1> USE DEF IndInv
<1>0. k \in Nat \ {0} /\ k \in 0 .. MaxOps /\ Slot(k) \in Slots /\ <<k, r>> \in inflight
  BY SlotType, CtsAssumption DEF Ops, Land
<1>1. Consumed' = Consumed /\ Consumed \in Nat /\ tail' = tail /\ need' = need
      /\ tail \in Nat
  BY DEF Land, Consumed, TypeOK
<1>2. Consumed < k /\ k <= tail /\ r <= need[k]
  BY <1>0
<1>3. \A s \in Slots : \A i \in Recvs :
          fifo'[s][i] = IF s = Slot(k) /\ i = r THEN k ELSE fifo[s][i]
  BY <1>0 DEF Land, TypeOK
<1>4. TypeOK'
  <2>1. fifo' \in [Slots -> [Recvs -> 0 .. MaxOps]]
    BY <1>0 DEF Land, TypeOK
  <2>2. inflight' \subseteq Ops \X Recvs
    BY DEF Land, TypeOK
  <2> QED
    BY <2>1, <2>2 DEF Land, TypeOK
<1>5. WindowHolds' /\ (posted => head < tail)' /\ (\A j \in retired : j <= Consumed)'
  BY <1>1 DEF Land, WindowHolds
<1>6. \A j \in Ops : \A i \in Recvs : <<j, i>> \in inflight' =>
          /\ Consumed < j /\ j <= tail /\ i <= need[j] /\ fifo'[Slot(j)][i] # j
  <2> SUFFICES ASSUME NEW j \in Ops, NEW i \in Recvs, <<j, i>> \in inflight'
               PROVE  /\ Consumed < j /\ j <= tail /\ i <= need[j]
                      /\ fifo'[Slot(j)][i] # j
    OBVIOUS
  <2>1. <<j, i>> \in inflight /\ <<j, i>> # <<k, r>>
    BY DEF Land
  <2>2. Slot(j) \in Slots
    BY SlotType DEF Ops
  <2> QED
    BY <2>1, <2>2, <1>3
<1>7. (\A s \in Slots : \A i \in Recvs :
          fifo[s][i] # 0 => fifo[s][i] <= tail /\ Slot(fifo[s][i]) = s)'
  BY <1>1, <1>2, <1>3 DEF Slot
<1>8. NoLostCts'
  <2> SUFFICES ASSUME NEW j \in Ops, NEW i \in Recvs,
                      Consumed < j, j <= tail, i <= need[j]
               PROVE  <<j, i>> \in inflight' \/ fifo'[Slot(j)][i] = j
    BY <1>1 DEF NoLostCts, Slot
  <2>1. Slot(j) \in Slots /\ j \in Nat \ {0}
    BY SlotType DEF Ops
  <2>2. CASE <<j, i>> = <<k, r>>
    BY <2>2, <2>1, <1>3
  <2>3. CASE <<j, i>> # <<k, r>> /\ <<j, i>> \in inflight
    BY <2>3 DEF Land
  <2>4. CASE fifo[Slot(j)][i] = j
    <3>1. Slot(j) = Slot(k) => j = k
      BY <2>1, <1>0, <1>1, <1>2, WindowSlots
    <3> QED
      BY <3>1, <2>4, <2>1, <1>3
  <2> QED
    BY <2>2, <2>3, <2>4 DEF NoLostCts
<1> QED
  BY <1>1, <1>4, <1>5, <1>6, <1>7, <1>8 DEF Slot

LEMMA ConsumeInv ==
    ASSUME IndInv, Consume
    PROVE  IndInv'
<1> USE DEF IndInv
<1>1. /\ Consumed = head /\ Consumed' = head + 1 /\ head \in Nat /\ tail \in Nat
      /\ head < tail /\ head + 1 \in Ops
  BY CtsAssumption DEF Consume, Consumed, TypeOK, Ops
<1>2. /\ tail' = tail /\ need' = need /\ inflight' = inflight /\ fifo' = fifo
      /\ head' = head /\ retired' = retired /\ posted'
  BY DEF Consume
<1>3. TypeOK'
  BY <1>2 DEF TypeOK, Consume
<1>4. WindowHolds' /\ (posted => head < tail)'
  BY <1>1, <1>2, CtsAssumption DEF WindowHolds
<1>5. (\A j \in retired : j <= Consumed)'
  BY <1>1, <1>2, CtsAssumption DEF TypeOK, Ops
<1>6. \A j \in Ops : \A i \in Recvs : <<j, i>> \in inflight =>
          /\ head + 1 < j /\ j <= tail /\ i <= need[j] /\ fifo[Slot(j)][i] # j
  <2> SUFFICES ASSUME NEW j \in Ops, NEW i \in Recvs, <<j, i>> \in inflight
               PROVE  j # head + 1
    BY <1>1 DEF Ops
  <2> SUFFICES ASSUME j = head + 1 PROVE FALSE
    OBVIOUS
  <2>1. i \in 1 .. need[head + 1]
    BY DEF Recvs, TypeOK
  <2>2. fifo[Slot(head + 1)][i] = head + 1
    BY <2>1 DEF Consume, SlotReady
  <2> QED
    BY <2>2
<1>7. NoLostCts'
  <2> SUFFICES ASSUME NEW j \in Ops, NEW i \in Recvs,
                      head + 1 < j, j <= tail, i <= need[j]
               PROVE  <<j, i>> \in inflight \/ fifo[Slot(j)][i] = j
    BY <1>1, <1>2 DEF NoLostCts, Slot
  <2> QED
    BY <1>1 DEF NoLostCts, Ops
<1> QED
  BY <1>1, <1>2, <1>3, <1>4, <1>5, <1>6, <1>7 DEF Slot

LEMMA ClearInv ==
    ASSUME IndInv, Clear
    PROVE  IndInv'
<1> USE DEF IndInv
<1>1. /\ Consumed = head + 1 /\ Consumed' = Consumed /\ head \in Nat /\ tail \in Nat
      /\ head < tail /\ head + 1 \in Nat \ {0} /\ head + 1 \in 0 .. MaxOps
  BY CtsAssumption DEF Clear, Consumed, TypeOK
<1>2. /\ tail' = tail /\ need' = need /\ inflight' = inflight
      /\ head' = head + 1 /\ retired' = retired /\ ~posted'
  BY DEF Clear
<1>3. Slot(head + 1) \in Slots /\ 1 \in Recvs
  BY <1>1, SlotType, CtsAssumption DEF Recvs
<1>4. \A s \in Slots : \A i \in Recvs :
          fifo'[s][i] = IF s = Slot(head + 1) /\ i = 1 THEN 0 ELSE fifo[s][i]
  BY <1>3 DEF Clear, TypeOK
<1>5. TypeOK'
  <2>1. fifo' \in [Slots -> [Recvs -> 0 .. MaxOps]]
    BY <1>3, CtsAssumption DEF Clear, TypeOK
  <2> QED
    BY <2>1, <1>1, <1>2 DEF TypeOK, Clear
<1>6. WindowHolds' /\ (posted => head < tail)' /\ (\A j \in retired : j <= Consumed)'
  BY <1>1, <1>2 DEF WindowHolds
<1>7. \A j \in Ops : \A i \in Recvs : <<j, i>> \in inflight =>
          /\ Consumed < j /\ j <= tail /\ i <= need[j] /\ fifo'[Slot(j)][i] # j
  <2> SUFFICES ASSUME NEW j \in Ops, NEW i \in Recvs, <<j, i>> \in inflight
               PROVE  fifo'[Slot(j)][i] # j
    OBVIOUS
  <2>1. Slot(j) \in Slots /\ j # 0
    BY SlotType DEF Ops
  <2> QED
    BY <2>1, <1>4
<1>8. (\A s \in Slots : \A i \in Recvs :
          fifo[s][i] # 0 => fifo[s][i] <= tail /\ Slot(fifo[s][i]) = s)'
  BY <1>2, <1>4 DEF Slot
<1>9. NoLostCts'
  <2> SUFFICES ASSUME NEW j \in Ops, NEW i \in Recvs,
                      Consumed < j, j <= tail, i <= need[j]
               PROVE  <<j, i>> \in inflight \/ fifo'[Slot(j)][i] = j
    BY <1>1, <1>2 DEF NoLostCts, Slot
  <2>1. Slot(j) \in Slots /\ j \in Nat \ {0}
    BY SlotType DEF Ops
  <2>2. Slot(j) # Slot(head + 1)
    BY <2>1, <1>1, WindowSlots
  <2> QED
    BY <2>1, <2>2, <1>4 DEF NoLostCts
<1> QED
  BY <1>1, <1>2, <1>5, <1>6, <1>7, <1>8, <1>9 DEF Slot

LEMMA RetireInv ==
    ASSUME IndInv, NEW k \in Ops, Retire(k)
    PROVE  IndInv'
<1>1. /\ UNCHANGED <<tail, head, need, inflight, fifo, posted>>
      /\ retired' = retired \cup {k} /\ k <= Consumed
  BY DEF Retire
<1>2. Consumed' = Consumed
  BY <1>1 DEF Consumed
<1>3. TypeOK'
  BY <1>1 DEF IndInv, TypeOK
<1>4. (\A j \in retired : j <= Consumed)'
  BY <1>1, <1>2 DEF IndInv
<1> QED
  BY <1>1, <1>2, <1>3, <1>4 DEF IndInv, WindowHolds, NoLostCts, Slot

LEMMA NextInv == IndInv /\ [Next]_vars => IndInv'
<1> SUFFICES ASSUME IndInv, [Next]_vars PROVE IndInv'
  OBVIOUS
<1>1. CASE \E n \in Recvs : Post(n)
  BY <1>1, PostInv
<1>2. CASE \E k \in Ops, r \in Recvs : Land(k, r)
  BY <1>2, LandInv
<1>3. CASE Consume
  BY <1>3, ConsumeInv
<1>4. CASE Clear
  BY <1>4, ClearInv
<1>5. CASE \E k \in Ops : Retire(k)
  BY <1>5, RetireInv
<1>6. CASE UNCHANGED vars
  BY <1>6 DEF vars, IndInv, TypeOK, WindowHolds, NoLostCts, Consumed, Slot
<1> QED
  BY <1>1, <1>2, <1>3, <1>4, <1>5, <1>6 DEF Next

(***************************************************************************)
(* The invariant that carries the others holds whatever the size of the    *)
(* ring, of the groups and of the window: which announcements are under    *)
(* way, in which slots older and newer ones can meet, and what the window  *)
(* leaves between the receiver and the sender.                             *)
(***************************************************************************)
THEOREM Invariance == Spec => []IndInv
BY InitInv, NextInv, PTL DEF Spec

\* Type correctness of the FIFO, for every value of the constants.
THEOREM TypeCorrect == Spec => []TypeOK
<1>1. IndInv => TypeOK
  BY DEF IndInv
<1> QED
  BY <1>1, Invariance, PTL

(***************************************************************************)
(* Flow control without acknowledgements is safe: with a window smaller    *)
(* than the ring, no announcement of a receive is lost to the clearing of  *)
(* an older slot or to a newer write.                                      *)
(***************************************************************************)
THEOREM CtsNeverLost == Spec => []NoLostCts
<1>1. IndInv => NoLostCts
  BY DEF IndInv
<1> QED
  BY <1>1, Invariance, PTL

\* The receiver is never more than a window ahead of the sender.
THEOREM WindowRespected == Spec => []WindowHolds
<1>1. IndInv => WindowHolds
  BY DEF IndInv
<1> QED
  BY <1>1, Invariance, PTL

(***************************************************************************)
(* An element under way never lands on an announcement that is still       *)
(* needed, nor in the slot the sender is clearing.                         *)
(***************************************************************************)
THEOREM CtsNeverOverwritten == Spec => []NoOverwrite
<1>1. ASSUME IndInv PROVE NoOverwrite
  <2> SUFFICES ASSUME NEW k \in Ops, NEW r \in Recvs, <<k, r>> \in inflight
               PROVE  /\ Consumed < k
                      /\ ~(Consumed < fifo[Slot(k)][r] /\ fifo[Slot(k)][r] <= tail)
                      /\ (posted => Slot(k) # Slot(head + 1))
    BY DEF NoOverwrite
  <2>1. Slot(k) \in Slots /\ k \in Nat \ {0}
    BY SlotType DEF Ops
  <2>2. Consumed < k /\ k <= tail /\ fifo[Slot(k)][r] # k /\ TypeOK /\ WindowHolds
        /\ Consumed \in Nat /\ tail \in Nat
    BY <1>1 DEF IndInv, TypeOK, Consumed
  <2>3. ~(Consumed < fifo[Slot(k)][r] /\ fifo[Slot(k)][r] <= tail)
    <3> DEFINE j == fifo[Slot(k)][r]
    <3> SUFFICES ASSUME Consumed < j, j <= tail PROVE FALSE
      OBVIOUS
    <3>1. j \in Nat
      BY <2>1, <2>2 DEF TypeOK
    <3>2. Slot(j) = Slot(k)
      BY <1>1, <2>1, <2>2, <3>1 DEF IndInv
    <3> HIDE DEF j
    <3>3. j = k
      BY <2>1, <2>2, <3>1, <3>2, WindowSlots
    <3> QED
      BY <3>3, <2>2 DEF j
  <2>4. posted => Slot(k) # Slot(head + 1)
    <3> SUFFICES ASSUME posted, Slot(k) = Slot(head + 1) PROVE FALSE
      OBVIOUS
    <3>1. head + 1 = Consumed /\ head + 1 \in Nat /\ head + 1 <= tail /\ 0 < head + 1
      BY <1>1 DEF Consumed, IndInv, TypeOK
    <3>2. k = head + 1
      BY <2>1, <2>2, <3>1, WindowSlots
    <3> QED
      BY <3>1, <3>2, <2>2
  <2> QED
    BY <2>2, <2>3, <2>4
<1> QED
  BY <1>1, Invariance, PTL
=============================================================================
