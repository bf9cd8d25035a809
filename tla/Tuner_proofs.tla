---------------------------- MODULE Tuner_proofs ----------------------------
(***************************************************************************)
(* For any number of communicators and every size: the scan of             *)
(* get_algo_proto finds the nearest choice of a table, and the answers are *)
(* those of the table of the asking communicator's shape.                  *)
(***************************************************************************)
EXTENDS Tuner, WellFoundedInduction, NaturalsInduction, TLAPS

----------------------------------------------------------------------------
(* The scan. *)

\* Every non-empty set of naturals has a least element.
LEMMA LeastNatural ==
    ASSUME NEW S \in SUBSET Nat, S # {}
    PROVE  \E m \in S : \A k \in S : m <= k
<1> DEFINE R == OpToRel(<, Nat)
<1>1. IsWellFoundedOn(R, Nat)
  BY NatLessThanWellFounded
<1>2. \A x, y \in Nat : <<x, y>> \in R <=> x < y
  BY DEF OpToRel
<1> HIDE DEF R
<1>3. PICK x \in S : \A y \in S : ~(<<y, x>> \in R)
  BY <1>1, WFMin
<1>4. \A y \in S : ~(y < x)
  BY <1>2, <1>3
<1>5. \A y \in S : x <= y
  BY <1>4
<1> QED
  BY <1>5

\* What a table must be for the scan to be right: sizes ascend and are even.
WellFormed(ch) ==
    /\ Len(ch) \in Nat \ {0} /\ DOMAIN ch = 1 .. Len(ch)
    /\ \A i \in 1 .. Len(ch) : \E h \in Nat : ch[i].nbytes = 2 * h
    /\ \A i, j \in 1 .. Len(ch) : i < j => ch[i].nbytes < ch[j].nbytes

\* Where the scan stops.
Stop(b, k, size) == Min({j \in 1 .. k : j = k \/ b[j] >= size})

LEMMA StopFact ==
    ASSUME NEW k \in Nat \ {0}, NEW b \in [1 .. k -> Nat], NEW size \in Nat
    PROVE  /\ Stop(b, k, size) \in 1 .. k
           /\ Stop(b, k, size) = k \/ b[Stop(b, k, size)] >= size
           /\ \A j \in 1 .. k : j < Stop(b, k, size) => b[j] < size
<1> DEFINE S == {j \in 1 .. k : j = k \/ b[j] >= size}
<1>1. S \in SUBSET Nat /\ k \in S
  OBVIOUS
<1>2. PICK m \in S : \A y \in S : m <= y
  BY <1>1, LeastNatural
<1>3. Stop(b, k, size) = Min(S)
  BY DEF Stop
<1> HIDE DEF S
<1>4. Min(S) \in S /\ \A y \in S : Min(S) <= y
  BY <1>2 DEF Min
<1>5. PICK i : i = Stop(b, k, size)
  OBVIOUS
<1>6. i \in 1 .. k /\ (i = k \/ b[i] >= size) /\ \A y \in S : i <= y
  BY <1>3, <1>4, <1>5 DEF S
<1>7. ASSUME NEW j \in 1 .. k, j < i PROVE b[j] < size
  <2>1. j \notin S
    BY <1>6, <1>7
  <2> QED
    BY <2>1 DEF S
<1> QED
  BY <1>5, <1>6, <1>7

\* The index of the choice nearest to a size.
Best(b, k, size) ==
    {i \in 1 .. k : \A j \in 1 .. k : Distance(size, b[i]) <= Distance(size, b[j])}

\* The choice before the stop, when the size is below the midpoint, or the stop.
Chosen(b, i, size) == IF i > 1 /\ size < (b[i - 1] + b[i]) \div 2 THEN i - 1 ELSE i

LEMMA ChosenIsBest ==
    ASSUME NEW k \in Nat \ {0}, NEW b \in [1 .. k -> Nat], NEW size \in Nat,
           \A i \in 1 .. k : \E h \in Nat : b[i] = 2 * h,
           \A i, j \in 1 .. k : i < j => b[i] < b[j]
    PROVE  Max(Best(b, k, size)) = Chosen(b, Stop(b, k, size), size)
<1>1. PICK i \in 1 .. k : i = Stop(b, k, size)
  BY StopFact
<1>2. (i = k \/ b[i] >= size) /\ \A j \in 1 .. k : j < i => b[j] < size
  BY <1>1, StopFact
<1>3. SUFFICES ASSUME NEW t \in 1 .. k, t = Chosen(b, i, size)
               PROVE  /\ \A j \in 1 .. k : Distance(size, b[t]) <= Distance(size, b[j])
                      /\ \A j \in 1 .. k : j > t => Distance(size, b[j]) > Distance(size, b[t])
  <2>1. PICK t : t = Chosen(b, i, size)
    OBVIOUS
  <2>2. t \in 1 .. k
    BY <2>1 DEF Chosen
  <2>3. /\ \A j \in 1 .. k : Distance(size, b[t]) <= Distance(size, b[j])
        /\ \A j \in 1 .. k : j > t => Distance(size, b[j]) > Distance(size, b[t])
    BY <1>3, <2>1, <2>2
  <2>4. t \in Best(b, k, size)
    BY <2>2, <2>3 DEF Best
  <2>5. ASSUME NEW j \in Best(b, k, size) PROVE t >= j
    <3>1. j \in 1 .. k /\ Distance(size, b[j]) <= Distance(size, b[t])
      BY <2>2 DEF Best
    <3>2. Distance(size, b[j]) \in Int /\ Distance(size, b[t]) \in Int
      <4>1. ASSUME NEW z \in Nat PROVE Distance(size, z) \in Int
        BY DEF Distance
      <4>2. b[j] \in Nat /\ b[t] \in Nat
        BY <2>2, <3>1
      <4> QED
        BY <4>1, <4>2, Zenon
    <3> QED
      BY <2>2, <2>3, <3>1, <3>2
  <2>6. ASSUME NEW j \in Best(b, k, size), \A y \in Best(b, k, size) : j >= y PROVE j = t
    <3>1. j >= t /\ t >= j
      BY <2>4, <2>5, <2>6
    <3>2. j \in 1 .. k
      BY DEF Best
    <3> QED
      BY <2>2, <3>1, <3>2
  <2>7. Max(Best(b, k, size)) = t
    BY <2>4, <2>5, <2>6 DEF Max
  <2> QED
    BY <1>1, <2>1, <2>7
<1>4. CASE i > 1 /\ size < (b[i - 1] + b[i]) \div 2
  <2>1. t = i - 1 /\ i - 1 \in 1 .. k
    BY <1>3, <1>4 DEF Chosen
  <2>2. PICK x \in Nat, y \in Nat : x = b[i - 1] /\ y = b[i]
    BY <2>1
  <2>3. PICK h \in Nat, g \in Nat : x = 2 * h /\ y = 2 * g
    BY <2>1, <2>2
  <2>4. (x + y) \div 2 = h + g
    BY <2>3
  <2>5. size < h + g /\ x < size /\ x < y
    BY <1>2, <1>4, <2>1, <2>2, <2>4
  <2>6. Distance(size, b[t]) = size - x
    BY <2>1, <2>2, <2>5 DEF Distance
  <2>7. ASSUME NEW j \in 1 .. k PROVE /\ size - x <= Distance(size, b[j])
                                      /\ j > t => Distance(size, b[j]) > size - x
    <3>1. PICK z \in Nat : z = b[j]
      OBVIOUS
    <3>2. j < i => z <= x
      <4>1. j < i - 1 => z < x
        BY <2>1, <2>2, <3>1
      <4>2. j = i - 1 => z = x
        BY <2>2, <3>1, Zenon
      <4>3. j < i => j < i - 1 \/ j = i - 1
        OBVIOUS
      <4> QED
        BY <4>1, <4>2, <4>3
    <3>3. j >= i => z >= y
      <4>1. j > i => z > y
        BY <2>2, <3>1
      <4> QED
        BY <2>2, <3>1, <4>1
    <3>4. j < i => Distance(size, z) = size - z /\ size - z >= size - x
      BY <2>5, <3>2 DEF Distance
    <3>5. j >= i => Distance(size, z) = z - size /\ z - size > size - x
      BY <2>3, <2>5, <3>3 DEF Distance
    <3>6. j \in Int /\ i \in Int /\ (j < i \/ j >= i) /\ (j > t => j >= i)
      BY <2>1
    <3> QED
      BY <2>5, <3>1, <3>4, <3>5, <3>6
  <2> QED
    BY <2>6, <2>7
<1>5. CASE ~(i > 1 /\ size < (b[i - 1] + b[i]) \div 2)
  <2>1. t = i
    BY <1>3, <1>5 DEF Chosen
  <2>2. PICK y \in Nat : y = b[i]
    OBVIOUS
  <2>3. CASE y >= size
    <3>1. Distance(size, b[t]) = y - size
      BY <2>1, <2>2, <2>3 DEF Distance
    <3>2. ASSUME NEW j \in 1 .. k PROVE /\ y - size <= Distance(size, b[j])
                                        /\ j > t => Distance(size, b[j]) > y - size
      <4>1. PICK z \in Nat : z = b[j]
        OBVIOUS
      <4>2. CASE j = i
        BY <2>1, <2>2, <2>3, <4>2 DEF Distance
      <4>3. CASE j > i
        <5>1. z > y
          BY <2>2, <4>1, <4>3
        <5> QED
          BY <2>3, <4>1, <5>1 DEF Distance
      <4>4. CASE j < i
        <5>1. i > 1 /\ i - 1 \in 1 .. k /\ (j < i - 1 \/ j = i - 1)
          BY <4>4
        <5>2. PICK x \in Nat : x = b[i - 1]
          BY <5>1
        <5>3. PICK h \in Nat, g \in Nat : x = 2 * h /\ y = 2 * g
          BY <2>2, <5>1, <5>2
        <5>4. (x + y) \div 2 = h + g
          BY <5>3
        <5>5. size >= h + g /\ x < size /\ z <= x
          <6>1. ~(size < h + g)
            BY <1>5, <2>2, <5>1, <5>2, <5>4
          <6>2. b[i - 1] < size
            BY <1>2, <5>1
          <6>3. j < i - 1 => b[j] < b[i - 1]
            BY <5>1
          <6> QED
            BY <4>1, <5>1, <5>2, <6>1, <6>2, <6>3
        <5>6. Distance(size, z) = size - z /\ size - z >= y - size
          BY <2>3, <5>3, <5>5 DEF Distance
        <5> QED
          BY <2>1, <4>1, <4>4, <5>6
      <4> QED
        BY <4>2, <4>3, <4>4
    <3> QED
      BY <3>1, <3>2
  <2>4. CASE y < size
    <3>1. i = k
      BY <1>2, <2>2, <2>4
    <3>2. Distance(size, b[t]) = size - y
      BY <2>1, <2>2, <2>4 DEF Distance
    <3>3. ASSUME NEW j \in 1 .. k PROVE size - y <= Distance(size, b[j]) /\ ~(j > t)
      <4>1. PICK z \in Nat : z = b[j]
        OBVIOUS
      <4>2. z <= y
        BY <2>2, <3>1, <4>1
      <4> QED
        BY <2>1, <2>4, <3>1, <4>1, <4>2 DEF Distance
    <3> QED
      BY <3>2, <3>3
  <2> QED
    BY <2>3, <2>4
<1> QED
  BY <1>4, <1>5

\* The bounds of a middle, and of the limits of a table.
LEMMA Middle ==
    ASSUME NEW x \in Nat, NEW y \in Nat, x < y
    PROVE  (x + y) \div 2 \in Nat /\ (x + y) \div 2 <= y
OBVIOUS

LEMMA TableLimits ==
    ASSUME NEW x \in Nat, NEW y \in Nat
    PROVE  /\ (x * 3) \div 4 \in Nat /\ (x * 3) \div 4 <= x
           /\ y + Least(y \div 2, 2^28) \in Nat /\ y + Least(y \div 2, 2^28) >= y
<1>1. (x * 3) \div 4 \in Nat /\ (x * 3) \div 4 <= x
  OBVIOUS
<1>2. y \div 2 \in Nat /\ 2^28 \in Nat
  OBVIOUS
<1>3. Least(y \div 2, 2^28) \in Nat
  BY <1>2, Zenon DEF Least
<1> QED
  BY <1>1, <1>3

\* The tests of the code and the meaning of the tables, on one sequence of sizes.
LEMMA PickIsNearest ==
    ASSUME NEW ch, WellFormed(ch), ch # <<>>, NEW size \in Nat
    PROVE  Pick(ch, size) = Nearest(ch, size)
<1>1. PICK k \in Nat \ {0} : k = Len(ch)
  BY DEF WellFormed
<1>2. PICK b \in [1 .. k -> Nat] : \A i \in 1 .. k : b[i] = ch[i].nbytes
  <2> DEFINE f == [i \in 1 .. k |-> ch[i].nbytes]
  <2>1. f \in [1 .. k -> Nat]
    BY <1>1 DEF WellFormed
  <2> QED
    BY <2>1
<1>3. DOMAIN ch = 1 .. k
  BY <1>1 DEF WellFormed
<1>4. /\ \A i \in 1 .. k : \E h \in Nat : b[i] = 2 * h
      /\ \A i, j \in 1 .. k : i < j => b[i] < b[j]
  BY <1>1, <1>2 DEF WellFormed
<1>5. PICK i \in 1 .. k : i = Stop(b, k, size)
  BY StopFact
<1>6. (i = k \/ b[i] >= size) /\ \A j \in 1 .. k : j < i => b[j] < size
  BY <1>5, StopFact
<1>7. Min({j \in 1 .. k : j = k \/ ch[j].nbytes >= size}) = i
  <2>1. {j \in 1 .. k : j = k \/ ch[j].nbytes >= size} = {j \in 1 .. k : j = k \/ b[j] >= size}
    BY <1>2
  <2> QED
    BY <1>5, <2>1 DEF Stop
<1>8. {x \in DOMAIN ch : \A j \in DOMAIN ch : Distance(size, ch[x].nbytes) <= Distance(size, ch[j].nbytes)}
         = Best(b, k, size)
  BY <1>2, <1>3 DEF Best
<1>9. Max(Best(b, k, size)) = Chosen(b, i, size)
  BY <1>4, <1>5, ChosenIsBest
<1> DEFINE lo == (b[1] * 3) \div 4
           hi == b[k] + Least(b[k] \div 2, 2^28)
<1>10. Nearest(ch, size) = IF size < lo \/ size > hi THEN Undef ELSE ch[Chosen(b, i, size)].ap
  <2>1. ch[1].nbytes = b[1] /\ ch[k].nbytes = b[k]
    BY <1>2
  <2> QED
    BY <1>1, <1>8, <1>9, <2>1, Zenon DEF Nearest
<1>11. Pick(ch, size) = CASE i = 1 /\ size < (b[i] * 3) \div 4 -> Undef
                          [] i = k /\ size > b[i] + Least(b[i] \div 2, 2^28) -> Undef
                          [] i > 1 /\ size < (b[i - 1] + b[i]) \div 2 -> ch[i - 1].ap
                          [] OTHER -> ch[i].ap
  <2>1. Pick(ch, size) = CASE i = 1 /\ size < (ch[i].nbytes * 3) \div 4 -> Undef
                          [] i = k /\ size > ch[i].nbytes + Least(ch[i].nbytes \div 2, 2^28) -> Undef
                          [] i > 1 /\ size < (ch[i - 1].nbytes + ch[i].nbytes) \div 2 -> ch[i - 1].ap
                          [] OTHER -> ch[i].ap
    BY <1>1, <1>7, Zenon DEF Pick
  <2>2. ch[i].nbytes = b[i] /\ (i > 1 => ch[i - 1].nbytes = b[i - 1])
    BY <1>2
  <2> QED
    BY <2>1, <2>2
<1>12. b[1] \in Nat /\ b[k] \in Nat /\ lo \in Nat /\ lo <= b[1] /\ hi \in Nat /\ hi >= b[k]
  <2>1. b[1] \in Nat /\ b[k] \in Nat
    OBVIOUS
  <2> QED
    BY <2>1, TableLimits, Zenon
<1>13. size < lo <=> i = 1 /\ size < (b[i] * 3) \div 4
  <2>1. size < lo => i = 1
    BY <1>6, <1>12
  <2> QED
    BY <2>1
<1>14. size > hi <=> i = k /\ size > b[i] + Least(b[i] \div 2, 2^28)
  <2>1. size > hi => i = k
    <3>1. ASSUME size > hi, i # k PROVE FALSE
      <4>1. b[i] >= size /\ b[i] < b[k] /\ b[i] \in Nat
        BY <1>4, <1>6, <3>1
      <4> QED
        BY <1>12, <3>1, <4>1
    <3> QED
      BY <3>1
  <2> QED
    BY <2>1
<1> HIDE DEF lo, hi
<1>15. i > 1 /\ size < (b[i - 1] + b[i]) \div 2 => ~(size < lo) /\ ~(size > hi)
  <2>a. SUFFICES ASSUME i > 1, size < (b[i - 1] + b[i]) \div 2 PROVE ~(size < lo) /\ ~(size > hi)
    OBVIOUS
  <2>b. i - 1 \in 1 .. k /\ i - 1 < i /\ i # 1
    BY <2>a
  <2>1. PICK x \in Nat, y \in Nat : x = b[i - 1] /\ y = b[i] /\ x < y
    BY <1>4, <2>b
  <2>2. PICK a \in Nat : a = (x + y) \div 2 /\ a <= y
    <3>1. (x + y) \div 2 \in Nat /\ (x + y) \div 2 <= y
      BY <2>1, Middle, Zenon
    <3> QED
      BY <3>1
  <2>3. size < y
    <3>1. size < a
      BY <2>a, <2>1, <2>2, Zenon
    <3> QED
      BY <2>2, <3>1
  <2>4. y <= b[k]
    <3>1. i < k => b[i] < b[k]
      BY <1>4
    <3> QED
      BY <2>1, <3>1
  <2>5. ~(size < lo)
    BY <1>13, <2>b, Zenon
  <2> QED
    BY <1>12, <2>3, <2>4, <2>5
<1>16. CASE size < lo \/ size > hi
  BY <1>10, <1>11, <1>13, <1>14, <1>15, <1>16
<1>17. CASE ~(size < lo \/ size > hi)
  BY <1>10, <1>11, <1>13, <1>14, <1>17 DEF Chosen
<1> QED
  BY <1>16, <1>17

----------------------------------------------------------------------------
(* The tables. *)

LEMMA Powers ==
    /\ 2^20 = 1048576 /\ 2^21 = 2097152 /\ 2^22 = 4194304 /\ 2^23 = 8388608 /\ 2^24 = 16777216
    /\ 2^25 = 33554432 /\ 2^26 = 67108864 /\ 2^27 = 134217728 /\ 2^28 = 268435456
    /\ 2^29 = 536870912 /\ 2^30 = 1073741824
OBVIOUS

LEMMA AllreduceAscends ==
    ASSUME NEW i \in 1 .. 8
    PROVE  allreduce_tuner_cfgs[i] = <<>> \/ WellFormed(allreduce_tuner_cfgs[i])
<1> USE Powers DEF allreduce_tuner_cfgs, WellFormed, TreeLL128, RingLL128, RingSimple, Default, Choice
<1>1. CASE i = 1
  BY <1>1, SMTT(20)
<1>2. CASE i = 2
  BY <1>2, SMTT(20)
<1>3. CASE i = 3
  BY <1>3, SMTT(20)
<1>4. CASE i = 4
  BY <1>4, SMTT(20)
<1>5. CASE i = 5
  BY <1>5, SMTT(20)
<1>6. CASE i = 6
  BY <1>6, SMTT(20)
<1>7. CASE i = 7
  BY <1>7, SMTT(20)
<1>8. CASE i = 8
  BY <1>8, SMTT(20)
<1> HIDE DEF allreduce_tuner_cfgs, WellFormed
<1>9. i = 1 \/ i = 2 \/ i = 3 \/ i = 4 \/ i = 5 \/ i = 6 \/ i = 7 \/ i = 8
  OBVIOUS
<1> QED
  BY <1>1, <1>2, <1>3, <1>4, <1>5, <1>6, <1>7, <1>8, <1>9

LEMMA AllgatherAscends ==
    ASSUME NEW i \in 1 .. 8
    PROVE  allgather_tuner_cfgs[i] = <<>> \/ WellFormed(allgather_tuner_cfgs[i])
<1> USE Powers DEF allgather_tuner_cfgs, WellFormed, RingLL, Choice
<1>1. CASE i = 1
  BY <1>1
<1>2. CASE i = 2
  BY <1>2
<1>3. CASE i = 3
  BY <1>3
<1>4. CASE i = 4
  BY <1>4
<1>5. CASE i = 5
  BY <1>5
<1>6. CASE i = 6
  BY <1>6
<1>7. CASE i = 7
  BY <1>7
<1>8. CASE i = 8
  BY <1>8
<1> HIDE DEF allgather_tuner_cfgs, WellFormed
<1>9. i = 1 \/ i = 2 \/ i = 3 \/ i = 4 \/ i = 5 \/ i = 6 \/ i = 7 \/ i = 8
  OBVIOUS
<1> QED
  BY <1>1, <1>2, <1>3, <1>4, <1>5, <1>6, <1>7, <1>8, <1>9

LEMMA ReducescatterAscends ==
    ASSUME NEW i \in 1 .. 8
    PROVE  reducescatter_tuner_cfgs[i] = <<>> \/ WellFormed(reducescatter_tuner_cfgs[i])
<1> USE Powers DEF reducescatter_tuner_cfgs, WellFormed, RingLL, Choice
<1>1. CASE i = 1
  BY <1>1
<1>2. CASE i = 2
  BY <1>2
<1>3. CASE i = 3
  BY <1>3
<1>4. CASE i = 4
  BY <1>4
<1>5. CASE i = 5
  BY <1>5
<1>6. CASE i = 6
  BY <1>6
<1>7. CASE i = 7
  BY <1>7
<1>8. CASE i = 8
  BY <1>8
<1> HIDE DEF reducescatter_tuner_cfgs, WellFormed
<1>9. i = 1 \/ i = 2 \/ i = 3 \/ i = 4 \/ i = 5 \/ i = 6 \/ i = 7 \/ i = 8
  OBVIOUS
<1> QED
  BY <1>1, <1>2, <1>3, <1>4, <1>5, <1>6, <1>7, <1>8, <1>9

\* So the code does on its tables what they mean.
LEMMA ScanRight ==
    ASSUME NEW cfg \in {NoCfg} \cup 1 .. 8, NEW coll, NEW size \in Nat
    PROVE  get_algo_proto(cfg, coll, size) =
               IF cfg = NoCfg \/ ap_choices(cfg, coll) = <<>> THEN Undef
               ELSE Nearest(ap_choices(cfg, coll), size)
<1>1. CASE cfg = NoCfg \/ ap_choices(cfg, coll) = <<>>
  BY <1>1 DEF get_algo_proto
<1>2. CASE ~(cfg = NoCfg \/ ap_choices(cfg, coll) = <<>>)
  <2>1. cfg \in 1 .. 8
    BY <1>2
  <2>2. WellFormed(ap_choices(cfg, coll))
    <3>1. CASE coll = "allreduce"
      BY <1>2, <2>1, <3>1, AllreduceAscends DEF ap_choices
    <3>2. CASE coll = "allgather"
      BY <1>2, <2>1, <3>2, AllgatherAscends DEF ap_choices
    <3>3. CASE coll = "reducescatter"
      BY <1>2, <2>1, <3>3, ReducescatterAscends DEF ap_choices
    <3>4. CASE coll \notin {"allreduce", "allgather", "reducescatter"}
      BY <1>2, <3>4 DEF ap_choices
    <3> QED
      BY <3>1, <3>2, <3>3, <3>4
  <2>3. Pick(ap_choices(cfg, coll), size) = Nearest(ap_choices(cfg, coll), size)
    BY <1>2, <2>2, PickIsNearest
  <2> QED
    BY <1>2, <2>3 DEF get_algo_proto
<1> QED
  BY <1>1, <1>2

\* The configuration of a shape, if it has one, is the only one.
LEMMA ConfigOfShape ==
    ASSUME NEW s
    PROVE  /\ get_tuner_cfg_index(s) \in {NoCfg} \cup 1 .. 8
           /\ get_tuner_cfg_index(s) # NoCfg => tuner_shapes[get_tuner_cfg_index(s)] = s
           /\ \A i \in 1 .. 8 : tuner_shapes[i] = s => get_tuner_cfg_index(s) = i
<1> DEFINE M == {i \in DOMAIN tuner_shapes : tuner_shapes[i] = s}
<1>1. DOMAIN tuner_shapes = 1 .. 8
  BY DEF tuner_shapes
<1>2. \A i, j \in 1 .. 8 : tuner_shapes[i] = tuner_shapes[j] => i = j
  BY DEF tuner_shapes
<1>3. get_tuner_cfg_index(s) = IF M = {} THEN NoCfg ELSE Min(M)
  BY DEF get_tuner_cfg_index
<1>4. CASE M = {}
  BY <1>1, <1>3, <1>4
<1>5. CASE M # {}
  <2>1. PICK i \in 1 .. 8 : M = {i} /\ tuner_shapes[i] = s
    BY <1>1, <1>2, <1>5
  <2> HIDE DEF M
  <2>2. Min(M) = i
    BY <2>1 DEF Min
  <2>3. get_tuner_cfg_index(s) = i
    BY <1>3, <1>5, <2>2
  <2>4. \A j \in 1 .. 8 : tuner_shapes[j] = s => j = i
    BY <1>2, <2>1
  <2> QED
    BY <2>1, <2>3, <2>4
<1> QED
  BY <1>4, <1>5

\* What the two together give for a communicator.
LEMMA AnswerIntended ==
    ASSUME NEW s, NEW coll, NEW size \in Nat
    PROVE  get_algo_proto(get_tuner_cfg_index(s), coll, size) = Intended(s, coll, size)
BY ConfigOfShape, ScanRight DEF Intended

----------------------------------------------------------------------------
(* The communicators. *)

LEMMA ShapesDomain == DOMAIN tuner_shapes = 1 .. 8
BY DEF tuner_shapes

LEMMA InitInv == TunerInit => TunerInv
<1> SUFFICES ASSUME TunerInit PROVE TunerInv
  OBVIOUS
<1>1. TunerTypeOK
  BY DEF TunerInit, TunerTypeOK, NoShape, NoCfg, NoContext
<1>2. StaticsRight
  BY DEF TunerInit, StaticsRight
<1>3. FallsBackInTurn /\ ContextsRight /\ AnswerSettled /\ AnswersFit
  BY DEF TunerInit, FallsBackInTurn, FallsBack, ContextsRight, AnswerSettled, AnswersFit
<1> QED
  BY <1>1, <1>2, <1>3 DEF TunerInv

\* An answer stays right while the shape of its communicator does.
LEMMA AnswerKept ==
    ASSUME AnswersFit, AnswerSettled, UNCHANGED <<answer, version>>, raced => raced',
           answer \notin {NoAnswer, Refusal} => shape'[answer.comm] = shape[answer.comm]
    PROVE  AnswersFit'
<1>1. CASE answer \in {NoAnswer, Refusal}
  BY <1>1 DEF AnswersFit
<1>2. CASE answer \notin {NoAnswer, Refusal}
  BY <1>2 DEF AnswersFit, TableTuned, AnswerNearest
<1> QED
  BY <1>1, <1>2

LEMMA EnterInv ==
    ASSUME TunerInv, NEW c \in Comms, pluginInit_v1_Enter(c)
    PROVE  TunerInv'
<1> USE DEF TunerInv
<1>1. /\ version = 1 /\ stage[c] = "new"
      /\ loaded' = [loaded EXCEPT ![c] = n] /\ stage' = [stage EXCEPT ![c] = "init"]
      /\ UNCHANGED <<version, n, nranks, nnodes, tuner_cfg_index, context, answer>>
  BY DEF pluginInit_v1_Enter, static
<1>2. /\ raced' \in BOOLEAN /\ (raced => raced')
      /\ ~raced' => ~raced /\ \A d \in Comms : stage[d] # "init"
  BY Zenon DEF pluginInit_v1_Enter, TunerTypeOK
<1>3. PICK s \in Nat \X Nat : shape' = [shape EXCEPT ![c] = s]
  BY TunerAssumption DEF pluginInit_v1_Enter
<1>4. TunerTypeOK'
  BY <1>1, <1>2, <1>3 DEF TunerTypeOK
<1>5. StaticsRight'
  <2>1. CASE raced'
    BY <1>1, <2>1 DEF StaticsRight
  <2>2. CASE ~raced'
    <3>1. ASSUME NEW d \in Comms, stage'[d] = "init"
          PROVE  loaded'[d] = n' /\ \A e \in Comms \ {d} : stage'[e] # "init"
      <4>1. d = c
        BY <1>1, <1>2, <2>2, <3>1 DEF TunerTypeOK
      <4> QED
        BY <1>1, <1>2, <2>2, <4>1 DEF TunerTypeOK
    <3>2. n' = 0 => tuner_cfg_index' = NoCfg /\ \A d \in Comms : stage'[d] \in {"new", "init"}
      BY <1>1, <1>2, <2>2 DEF StaticsRight, TunerTypeOK
    <3> QED
      BY <1>1, <1>2, <2>2, <3>1, <3>2 DEF StaticsRight
  <2> QED
    BY <2>1, <2>2
<1>6. FallsBackInTurn'
  BY <1>1, <1>2, <1>3 DEF FallsBackInTurn, FallsBack, TunerTypeOK
<1>7. ContextsRight'
  BY <1>1, <1>3 DEF ContextsRight
<1>8. AnswerSettled' /\ (answer \notin {NoAnswer, Refusal} => shape'[answer.comm] = shape[answer.comm])
  BY <1>1, <1>3 DEF AnswerSettled, TunerTypeOK
<1>9. AnswersFit'
  BY <1>1, <1>2, <1>8, AnswerKept
<1> QED
  BY <1>4, <1>5, <1>6, <1>7, <1>8, <1>9

LEMMA InitV1Inv ==
    ASSUME TunerInv, NEW c \in Comms, pluginInit_v1(c)
    PROVE  TunerInv'
<1> USE DEF TunerInv
<1>1. /\ version = 1 /\ stage[c] = "init" /\ stage' = [stage EXCEPT ![c] = "ready"]
      /\ n' = loaded[c] + 1
      /\ UNCHANGED <<version, shape, loaded, context, answer, raced>>
  BY DEF pluginInit_v1
<1>2. n' \in Nat /\ n' # 0
  BY <1>1 DEF TunerTypeOK
<1>3. PICK s \in Nat \X Nat : s = shape[c] /\ s = <<s[1], s[2]>>
  BY DEF TunerTypeOK
<1>4. ~raced => loaded[c] = n /\ \A d \in Comms \ {c} : stage'[d] # "init"
  BY <1>1 DEF StaticsRight, TunerTypeOK
<1>5. CASE loaded[c] = 0
  <2>1. nranks' = s[1] /\ nnodes' = s[2] /\ tuner_cfg_index' = get_tuner_cfg_index(s)
    BY <1>3, <1>5 DEF pluginInit_v1
  <2>2. /\ tuner_cfg_index' \in {NoCfg} \cup 1 .. 8
        /\ tuner_cfg_index' # NoCfg => tuner_shapes[tuner_cfg_index'] = s
    BY <2>1, ConfigOfShape
  <2>3. ~raced => \A d \in Comms \ {c} : stage[d] \in {"new", "init"}
    BY <1>1, <1>4, <1>5 DEF StaticsRight
  <2>4. TunerTypeOK'
    BY <1>1, <1>2, <1>3, <2>1, <2>2, ShapesDomain DEF TunerTypeOK
  <2>5. StaticsRight'
    BY <1>1, <1>2, <1>3, <1>4, <2>1, <2>2 DEF StaticsRight, TunerTypeOK
  <2>6. FallsBackInTurn'
    BY <1>1, <1>3, <2>2, <2>3 DEF FallsBackInTurn, FallsBack, TunerTypeOK
  <2> QED
    BY <1>1, <2>4, <2>5, <2>6, AnswerKept DEF ContextsRight, AnswerSettled, TunerTypeOK
<1>6. CASE loaded[c] # 0
  <2>1. /\ tuner_cfg_index' = IF nranks = s[1] /\ nnodes = s[2] THEN tuner_cfg_index ELSE NoCfg
        /\ UNCHANGED <<nranks, nnodes>>
    BY <1>3, <1>6 DEF pluginInit_v1, SameShape
  <2>2. tuner_cfg_index' # NoCfg => tuner_cfg_index' = tuner_cfg_index /\ s = <<nranks, nnodes>>
    BY <1>3, <2>1
  <2>3. TunerTypeOK'
    BY <1>1, <1>2, <2>1, ShapesDomain DEF TunerTypeOK
  <2>4. StaticsRight'
    BY <1>1, <1>2, <1>4, <2>1, <2>2 DEF StaticsRight, TunerTypeOK
  <2>5. FallsBackInTurn'
    BY <1>1, <1>3, <2>2 DEF FallsBackInTurn, FallsBack, StaticsRight, TunerTypeOK
  <2> QED
    BY <1>1, <2>3, <2>4, <2>5, AnswerKept DEF ContextsRight, AnswerSettled, TunerTypeOK
<1> QED
  BY <1>5, <1>6

LEMMA InitV2Inv ==
    ASSUME TunerInv, NEW c \in Comms, pluginInit_v2(c)
    PROVE  TunerInv'
<1> USE DEF TunerInv
<1>1. /\ version # 1 /\ stage[c] = "new" /\ stage' = [stage EXCEPT ![c] = "ready"]
      /\ UNCHANGED <<version, loaded, n, nranks, nnodes, tuner_cfg_index, answer, raced>>
  BY DEF pluginInit_v2, static
<1>2. PICK s \in Nat \X Nat : /\ shape' = [shape EXCEPT ![c] = s]
                             /\ context' = [context EXCEPT ![c] = get_tuner_cfg_index(s)]
  BY TunerAssumption DEF pluginInit_v2
<1>3. get_tuner_cfg_index(s) \in {NoCfg} \cup 1 .. 8
  BY ConfigOfShape
<1>4. TunerTypeOK'
  BY <1>1, <1>2, <1>3, ShapesDomain DEF TunerTypeOK
<1>5. StaticsRight' /\ FallsBackInTurn'
  BY <1>1 DEF StaticsRight, FallsBackInTurn, FallsBack
<1>6. ContextsRight'
  <2> SUFFICES ASSUME NEW d \in Comms, stage'[d] = "ready"
               PROVE  context'[d] = get_tuner_cfg_index(shape'[d])
    BY DEF ContextsRight
  <2>1. CASE d = c
    BY <1>2, <2>1 DEF TunerTypeOK
  <2>2. CASE d # c
    <3>1. stage[d] = "ready" /\ context'[d] = context[d] /\ shape'[d] = shape[d]
      BY <1>1, <1>2, <2>2 DEF TunerTypeOK
    <3> QED
      BY <1>1, <3>1 DEF ContextsRight
  <2> QED
    BY <2>1, <2>2
<1>7. AnswerSettled' /\ (answer \notin {NoAnswer, Refusal} => shape'[answer.comm] = shape[answer.comm])
  BY <1>1, <1>2 DEF AnswerSettled, TunerTypeOK
<1>8. AnswersFit'
  BY <1>1, <1>7, AnswerKept
<1> QED
  BY <1>4, <1>5, <1>6, <1>7, <1>8

LEMMA DestroyInv ==
    ASSUME TunerInv, NEW c \in Comms, pluginDestroy(c)
    PROVE  TunerInv'
<1> USE DEF TunerInv
<1>1. /\ stage[c] = "ready" /\ stage' = [stage EXCEPT ![c] = "gone"]
      /\ context' = IF version = 1 THEN context ELSE [context EXCEPT ![c] = NoContext]
      /\ UNCHANGED <<version, shape, loaded, n, nranks, nnodes, tuner_cfg_index, answer, raced>>
  BY DEF pluginDestroy, static
<1>2. TunerTypeOK'
  BY <1>1 DEF TunerTypeOK
<1>3. StaticsRight'
  BY <1>1 DEF StaticsRight, TunerTypeOK
<1>4. FallsBackInTurn'
  BY <1>1 DEF FallsBackInTurn, FallsBack, TunerTypeOK
<1>5. ContextsRight'
  BY <1>1 DEF ContextsRight, TunerTypeOK
<1>6. AnswerSettled'
  BY <1>1 DEF AnswerSettled, TunerTypeOK
<1> QED
  BY <1>1, <1>2, <1>3, <1>4, <1>5, <1>6, AnswerKept

\* A call of getCollInfo changes nothing but the answer.
LEMMA OnlyAnswered ==
    ASSUME TunerInv, UNCHANGED <<version, stage, shape, loaded, static, context, raced>>,
           AnswerSettled', AnswersFit'
    PROVE  TunerInv'
BY DEF TunerInv, TunerTypeOK, StaticsRight, FallsBackInTurn, FallsBack, ContextsRight, static

LEMMA CollInfoV1Inv ==
    ASSUME TunerInv, NEW c \in Comms, NEW coll \in CollTypes, NEW size \in Sizes,
           Asks(c), pluginGetCollInfo_v1(c, coll, size)
    PROVE  TunerInv'
<1>1. /\ version = 1 /\ stage[c] = "ready" /\ size \in Nat
      /\ UNCHANGED <<version, stage, shape, loaded, static, context, raced>>
  BY TunerAssumption DEF pluginGetCollInfo_v1, Asks
<1>2. /\ answer'.comm = c /\ answer'.coll = coll /\ answer'.size = size
      /\ answer'.ap = get_algo_proto(tuner_cfg_index, coll, size)
  BY DEF pluginGetCollInfo_v1
<1>3. ~raced => answer'.ap = Intended(shape[c], coll, size) \/ answer'.ap = Undef
  <2>1. CASE tuner_cfg_index = NoCfg
    BY <1>2, <2>1 DEF get_algo_proto
  <2>2. CASE tuner_cfg_index # NoCfg
    <3>1. ~raced => tuner_cfg_index \in 1 .. 8 /\ tuner_shapes[tuner_cfg_index] = shape[c]
      BY <1>1, <2>2, ShapesDomain DEF TunerInv, TunerTypeOK, FallsBackInTurn, FallsBack
    <3>2. ~raced => get_tuner_cfg_index(shape[c]) = tuner_cfg_index
      BY <3>1, ConfigOfShape
    <3> QED
      BY <1>1, <1>2, <3>2, AnswerIntended
  <2> QED
    BY <2>1, <2>2
<1>4. AnswerSettled'
  BY <1>1, <1>2 DEF AnswerSettled
<1>5. AnswersFit'
  BY <1>1, <1>2, <1>3 DEF AnswersFit, AnswerNearest
<1> QED
  BY <1>1, <1>4, <1>5, OnlyAnswered

LEMMA CollInfoV2Inv ==
    ASSUME TunerInv, NEW c \in Comms, NEW coll \in CollTypes, NEW size \in Sizes,
           Asks(c), pluginGetCollInfo_v2(c, coll, size)
    PROVE  TunerInv'
<1>1. /\ version = 2 /\ stage[c] = "ready" /\ size \in Nat
      /\ UNCHANGED <<version, stage, shape, loaded, static, context, raced>>
  BY TunerAssumption DEF pluginGetCollInfo_v2, Asks
<1>2. /\ answer'.comm = c /\ answer'.coll = coll /\ answer'.size = size
      /\ answer'.ap = get_algo_proto(context[c], coll, size)
  BY DEF pluginGetCollInfo_v2
<1>3. answer'.ap = Intended(shape[c], coll, size)
  BY <1>1, <1>2, AnswerIntended DEF TunerInv, ContextsRight
<1>4. AnswerSettled'
  BY <1>1, <1>2 DEF AnswerSettled
<1>5. AnswersFit'
  BY <1>1, <1>2, <1>3 DEF AnswersFit, AnswerNearest
<1> QED
  BY <1>1, <1>4, <1>5, OnlyAnswered

\* The update of a cost table makes the tuned combination the cheapest one.
LEMMA CheapestTuned ==
    ASSUME NEW table \in CostTables, NEW ap, NEW x \in Combos
    PROVE  IF table[x] = Ignore THEN Tuned(table, ap)[x] = Ignore
           ELSE IF x = ap THEN \A y \in Combos \ {x} :
                                  Tuned(table, ap)[y] # Ignore => Tuned(table, ap)[x] < Tuned(table, ap)[y]
           ELSE Tuned(table, ap)[x] = table[x]
<1>1. table = [y \in Combos |-> table[y]] /\ \A y \in Combos : table[y] \in {Ignore, 7}
  <2>1. PICK out \in Ignored : table = [y \in Combos |-> IF y \in out THEN Ignore ELSE 7]
    BY DEF CostTables
  <2> HIDE DEF Combos
  <2> QED
    BY <2>1
<1>2. CASE ap \in Combos /\ table[ap] # Ignore
  <2>1. PICK t : t = Tuned(table, ap)
    OBVIOUS
  <2>2. \A y \in Combos : t[y] = IF y = ap THEN 0 ELSE table[y]
    BY <1>1, <1>2, <2>1 DEF Tuned
  <2> QED
    BY <1>1, <1>2, <2>1, <2>2 DEF Ignore
<1>3. CASE ~(ap \in Combos /\ table[ap] # Ignore)
  BY <1>1, <1>3 DEF Tuned
<1> QED
  BY <1>2, <1>3

LEMMA CollInfoV3Inv ==
    ASSUME TunerInv, NEW c \in Comms, NEW coll \in CollTypes, NEW size \in Sizes,
           NEW table \in CostTables \cup {NULL}, Asks(c), pluginGetCollInfo_v3(c, coll, size, table)
    PROVE  TunerInv'
<1>1. /\ version = 3 /\ stage[c] = "ready" /\ size \in Nat
      /\ UNCHANGED <<version, stage, shape, loaded, static, context, raced>>
  BY TunerAssumption DEF pluginGetCollInfo_v3, Asks
<1>2. PICK ap : ap = Intended(shape[c], coll, size)
  OBVIOUS
<1>3. get_algo_proto(context[c], coll, size) = ap
  BY <1>1, <1>2, AnswerIntended DEF TunerInv, ContextsRight
<1>4. CASE Invalid(table)
  BY <1>1, <1>4, OnlyAnswered DEF pluginGetCollInfo_v3, AnswerSettled, AnswersFit
<1>5. CASE ~Invalid(table)
  <2>1. table \in CostTables
    BY <1>5 DEF Invalid
  <2>2. /\ answer'.comm = c /\ answer'.coll = coll /\ answer'.size = size /\ answer'.before = table
        /\ answer'.table = Tuned(table, ap)
    BY <1>3, <1>5 DEF pluginGetCollInfo_v3
  <2>3. AnswerSettled'
    BY <1>1, <2>2 DEF AnswerSettled
  <2>4. TableTuned'
    <3>1. Intended(shape[c], coll, size)' = ap
      BY <1>1, <1>2 DEF Intended
    <3> SUFFICES ASSUME NEW x \in Combos
                 PROVE  IF table[x] = Ignore THEN Tuned(table, ap)[x] = Ignore
                        ELSE IF x = ap THEN \A y \in Combos \ {x} :
                                Tuned(table, ap)[y] # Ignore => Tuned(table, ap)[x] < Tuned(table, ap)[y]
                        ELSE Tuned(table, ap)[x] = table[x]
      BY <1>1, <1>2, <2>2, Zenon DEF TableTuned
    <3> QED
      BY <2>1, CheapestTuned
  <2>5. AnswersFit'
    BY <1>1, <2>4 DEF AnswersFit
  <2> QED
    BY <1>1, <2>3, <2>5, OnlyAnswered
<1> QED
  BY <1>4, <1>5

LEMMA NextInv ==
    ASSUME TunerInv, [TunerNext]_tunervars
    PROVE  TunerInv'
<1>1. CASE UNCHANGED tunervars
  <2>1. UNCHANGED <<version, stage, shape, loaded, static, context, raced, answer>>
    BY <1>1 DEF tunervars
  <2>2. AnswerSettled'
    BY <2>1 DEF TunerInv, AnswerSettled
  <2>3. AnswersFit'
    BY <2>1, AnswerKept DEF TunerInv
  <2> QED
    BY <2>1, <2>2, <2>3, OnlyAnswered
<1>2. CASE Taken
  BY <1>2, OnlyAnswered DEF Taken, AnswerSettled, AnswersFit
<1> QED
  BY <1>1, <1>2, EnterInv, InitV1Inv, InitV2Inv, DestroyInv, CollInfoV1Inv, CollInfoV2Inv, CollInfoV3Inv
     DEF TunerNext

----------------------------------------------------------------------------
(***************************************************************************)
(* The invariant, for any communicators, sizes and cost tables.            *)
(***************************************************************************)
THEOREM TunerInvariant == TunerSpec => []TunerInv
<1>1. TunerInit => TunerInv
  BY InitInv
<1>2. TunerInv /\ [TunerNext]_tunervars => TunerInv'
  BY NextInv
<1> QED
  BY <1>1, <1>2, PTL DEF TunerSpec

(***************************************************************************)
(* "tuner v1 does not support multiple communicators, fall back to         *)
(* default": as long as no two calls of pluginInit_v1 have overlapped, a   *)
(* table is in use only while all communicators have its shape             *)
(* (utuner/plugin.c: the static variables are not protected by a lock, and *)
(* after an overlap it fails).                                             *)
(***************************************************************************)
THEOREM FallsBackUnlessRaced == TunerSpec => []FallsBackInTurn
<1>1. TunerInv => FallsBackInTurn
  BY DEF TunerInv
<1> QED
  BY <1>1, TunerInvariant, PTL

(***************************************************************************)
(* Every answer is the choice nearest to the size, for every size, in the  *)
(* table of the asking communicator's shape (get_algo_proto,               *)
(* pluginGetCollInfo_v1 to _v3); of version 1 only as long as no two init  *)
(* calls have overlapped.                                                  *)
(***************************************************************************)
THEOREM AnswersNearest == TunerSpec => []AnswersFit
<1>1. TunerInv => AnswersFit
  BY DEF TunerInv
<1> QED
  BY <1>1, TunerInvariant, PTL
=============================================================================
