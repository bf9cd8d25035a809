-------------------------- MODULE IbDevice_proofs --------------------------
(***************************************************************************)
(* For any number of communicators and devices, any set of ranges and any  *)
(* failures, the references to protection domains and memory regions are   *)
(* exact, and what a communicator holds stays valid.                       *)
(***************************************************************************)
EXTENDS IbDevice, FiniteSetTheorems, SequenceTheorems, TLAPS

USE DEF pdVars, cacheVars

LEMMA Constants ==
    /\ NDevs \in Nat \ {0} /\ MinCapacity \in Nat \ {0} /\ IsFiniteSet(Comms)
    /\ \A g \in Ranges : g \in PageRange /\ g.addr \in Nat /\ g.pages \in Nat \ {0}
    /\ NoMr \notin Handles /\ MaxFailures \in Nat
    /\ \A d \in Devs : d \in Nat /\ d < NDevs
    /\ 0 \in Devs
  BY DeviceAssumption, HandleAssumption DEF Devs, PageRange

\* When one communicator joins or leaves a set of them, the count follows.
LEMMA OneChanges ==
    ASSUME NEW P \in SUBSET Comms, NEW Q \in SUBSET Comms, NEW c \in Comms,
           \A b \in Comms \ {c} : b \in P <=> b \in Q
    PROVE  /\ Cardinality(P) \in Nat /\ Cardinality(Q) \in Nat
           /\ (c \in P <=> c \in Q) => Cardinality(Q) = Cardinality(P)
           /\ c \notin P /\ c \in Q => Cardinality(Q) = Cardinality(P) + 1
           /\ c \in P /\ c \notin Q => Cardinality(Q) = Cardinality(P) - 1
           /\ Cardinality(P) = 0 => P = {}
           /\ c \in P /\ Cardinality(P) = 1 => P = {c}
<1>1. IsFiniteSet(P) /\ IsFiniteSet(Q) /\ IsFiniteSet(P \ {c}) /\ IsFiniteSet(Q \ {c})
  <2>1. IsFiniteSet(Comms) /\ P \ {c} \in SUBSET Comms /\ Q \ {c} \in SUBSET Comms
    BY Constants
  <2> QED
    BY <2>1, FS_Subset
<1>2. Cardinality(P) \in Nat /\ Cardinality(Q) \in Nat /\ Cardinality(P \ {c}) \in Nat
  BY <1>1, FS_CardinalityType
<1>3. P \ {c} = Q \ {c}
  OBVIOUS
<1>4. c \in P => Cardinality(P \ {c}) = Cardinality(P) - 1
  BY <1>1, FS_RemoveElement
<1>5. c \in Q => Cardinality(Q \ {c}) = Cardinality(Q) - 1
  BY <1>1, FS_RemoveElement
<1>6. c \notin P => P \ {c} = P
  OBVIOUS
<1>7. c \notin Q => Q \ {c} = Q
  OBVIOUS
<1>8. Cardinality(P) = 0 => P = {}
  BY <1>1, FS_EmptySet
<1>9. c \in P /\ Cardinality(P) = 1 => P = {c}
  <2>1. IsFiniteSet(P) => (Cardinality(P) = 1 => \E x : P = {x})
    BY FS_Singleton
  <2> QED
    BY <1>1, <2>1
<1> DEFINE p == Cardinality(P)
           q == Cardinality(Q)
           r == Cardinality(P \ {c})
<1>10. /\ p \in Nat /\ q \in Nat /\ r \in Nat
       /\ r = IF c \in P THEN p - 1 ELSE p
       /\ r = IF c \in Q THEN q - 1 ELSE q
  BY <1>2, <1>3, <1>4, <1>5, <1>6, <1>7
<1> HIDE DEF p, q, r
<1>11. /\ (c \in P <=> c \in Q) => q = p
       /\ c \notin P /\ c \in Q => q = p + 1
       /\ c \in P /\ c \notin Q => q = p - 1
  BY <1>10
<1> QED
  BY <1>8, <1>9, <1>10, <1>11 DEF p, q

\* Every non-empty set of naturals has a least element.
LEMMA LeastNatural ==
    ASSUME NEW S \in SUBSET Nat, S # {}
    PROVE  \E m \in S : \A k \in S : m <= k
<1> DEFINE R == OpToRel(<, Nat)
<1>1. IsWellFoundedOn(R, Nat)
  BY NatLessThanWellFounded
<1>2. \A x, y \in Nat : <<x, y>> \in R <=> x < y
  BY DEF OpToRel
<1> HIDE DEF R
<1>3. PICK x \in S : \A y \in S : ~(<<y, x>> \in R)
  BY <1>1, WFMin
<1>4. \A y \in S : ~(y < x)
  BY <1>2, <1>3
<1>5. \A y \in S : x <= y
  BY <1>4
<1> QED
  BY <1>5


----------------------------------------------------------------------------
(* The scan of the cache, and what it does to its entries. *)

LEMMA ScanStops ==
    ASSUME NEW d \in Devs, NEW range, slots[d] \in Seq(Slot),
           NEW i, i = ScanStop(d, range)
    PROVE  /\ i \in 1 .. Len(slots[d]) + 1
           /\ Hit(d, range) => i \in 1 .. Len(slots[d]) /\ Covers(slots[d][i], range)
<1> DEFINE n == Len(slots[d])
           Stops(j) == \/ j = n + 1
                       \/ range.addr < slots[d][j].addr
                       \/ Covers(slots[d][j], range)
           S == {j \in 1 .. n + 1 : Stops(j)}
<1>1. n \in Nat
  OBVIOUS
<1>2. S \in SUBSET Nat /\ n + 1 \in S
  BY <1>1
<1> HIDE DEF S
<1>3. PICK m \in S : \A k \in S : m <= k
  BY <1>2, LeastNatural
<1> USE DEF S
<1>4. m \in 1 .. n + 1 /\ Stops(m) /\ \A j \in 1 .. m - 1 : ~Stops(j)
  BY <1>1, <1>3
<1>5. i = CHOOSE k \in 1 .. n + 1 : Stops(k) /\ \A j \in 1 .. k - 1 : ~Stops(j)
  BY DEF ScanStop
<1> HIDE DEF Stops, n
<1>6. i \in 1 .. n + 1 /\ Stops(i)
  BY <1>4, <1>5
<1> USE DEF Stops, n
<1>7. Hit(d, range) => i \in 1 .. Len(slots[d]) /\ Covers(slots[d][i], range)
  BY <1>1, <1>6 DEF Hit
<1> QED
  BY <1>6, <1>7

IsInserted(r, s, i, e) ==
    /\ r \in Seq(Slot) /\ Len(r) = Len(s) + 1 /\ r[i] = e
    /\ \A j \in 1 .. i - 1 : r[j] = s[j]
    /\ \A j \in i + 1 .. Len(s) + 1 : r[j] = s[j - 1]

LEMMA Inserted ==
    ASSUME NEW s \in Seq(Slot), NEW e \in Slot, NEW i \in 1 .. Len(s) + 1,
           NEW r, r = InsertAt(s, i, e)
    PROVE  IsInserted(r, s, i, e)
<1> DEFINE a == SubSeq(s, 1, i - 1)
           b == SubSeq(s, i, Len(s))
<1>1. a \in Seq(Slot) /\ Len(a) = i - 1 /\ \A j \in 1 .. i - 1 : a[j] = s[j]
  BY SubSeqProperties
<1>2. b \in Seq(Slot) /\ Len(b) = Len(s) - i + 1 /\ \A j \in 1 .. Len(s) - i + 1 : b[j] = s[i + j - 1]
  BY SubSeqProperties
<1> DEFINE x == <<e>>
           y == a \o x
<1>3. r = y \o b /\ x \in Seq(Slot) /\ Len(x) = 1 /\ x[1] = e
  BY DEF InsertAt
<1> HIDE DEF a, b, x
<1>4. /\ y \in Seq(Slot) /\ Len(y) = i
      /\ \A j \in 1 .. i : y[j] = IF j <= i - 1 THEN a[j] ELSE x[j - (i - 1)]
  <2>1. /\ y \in Seq(Slot) /\ Len(y) = Len(a) + Len(x)
        /\ \A j \in 1 .. Len(a) + Len(x) : y[j] = IF j <= Len(a) THEN a[j] ELSE x[j - Len(a)]
    BY <1>1, <1>3, ConcatProperties
  <2>2. Len(a) + Len(x) = i
    BY <1>1, <1>3
  <2> HIDE DEF y
  <2> QED
    BY <1>1, <2>1, <2>2
<1>5. y[i] = e /\ \A j \in 1 .. i - 1 : y[j] = s[j]
  BY <1>1, <1>3, <1>4
<1> HIDE DEF y
<1>6. /\ r \in Seq(Slot) /\ Len(r) = Len(s) + 1
      /\ \A j \in 1 .. Len(s) + 1 : r[j] = IF j <= i THEN y[j] ELSE b[j - i]
  BY <1>2, <1>3, <1>4, ConcatProperties
<1>7. r[i] = e /\ \A j \in 1 .. i - 1 : r[j] = s[j]
  BY <1>5, <1>6
<1>8. ASSUME NEW j \in i + 1 .. Len(s) + 1 PROVE r[j] = s[j - 1]
  <2>1. j - i \in 1 .. Len(s) - i + 1 /\ j \in 1 .. Len(s) + 1 /\ ~(j <= i)
    OBVIOUS
  <2>2. r[j] = b[j - i] /\ b[j - i] = s[i + (j - i) - 1] /\ i + (j - i) - 1 = j - 1
    BY <1>2, <1>6, <2>1
  <2> QED
    BY <2>2
<1> QED
  BY <1>6, <1>7, <1>8 DEF IsInserted

IsShorter(s, r, i) ==
    /\ r \in Seq(Slot) /\ Len(r) = Len(s) - 1
    /\ \A j \in 1 .. Len(s) - 1 : r[j] = IF j = i THEN s[Len(s)] ELSE s[j]

LEMMA Removed ==
    ASSUME NEW s \in Seq(Slot), NEW i \in 1 .. Len(s), NEW r, r = RemoveSlot(s, i)
    PROVE  IsShorter(s, r, i)
<1> DEFINE t == [s EXCEPT ![i] = s[Len(s)]]
<1>1. Len(s) \in Nat /\ Len(s) \in 1 .. Len(s)
  OBVIOUS
<1>2. t \in Seq(Slot) /\ Len(t) = Len(s) /\ \A j \in 1 .. Len(s) : t[j] = IF j = i THEN s[Len(s)] ELSE s[j]
  BY <1>1
<1>3. r = SubSeq(t, 1, Len(s) - 1)
  BY DEF RemoveSlot
<1> HIDE DEF t
<1>4. r \in Seq(Slot) /\ Len(r) = Len(s) - 1 /\ \A j \in 1 .. Len(s) - 1 : r[j] = t[j]
  BY <1>1, <1>2, <1>3, SubSeqProperties
<1> QED
  BY <1>1, <1>2, <1>4 DEF IsShorter

----------------------------------------------------------------------------
(* A step of one communicator. *)

OthersSame(c) == \A b \in Comms \ {c} : comm'[b] = comm[b]

LEMMA CommUpdate ==
    ASSUME TypeOK, NEW c \in Comms, NEW n \in Comm, comm' = [comm EXCEPT ![c] = n]
    PROVE  comm' \in [Comms -> Comm] /\ comm'[c] = n /\ OthersSame(c)
  BY DEF TypeOK, OthersSame

\* The fields of a communicator.
LEMMA CommTypes ==
    ASSUME TypeOK, NEW c \in Comms
    PROVE  /\ comm[c] \in Comm /\ comm[c].dev \in Devs /\ comm[c].range \in PageRange
           /\ comm[c].pds \in [Devs -> {"none", "null", "live", "stale"}]
           /\ comm[c].regs \in [Devs -> Handles \cup {NoMr}]
  BY DEF TypeOK, Comm

LEMMA CommStep ==
    ASSUME NEW c \in Comms, NEW b \in Comms, CommOk(b), b # c, OthersSame(c)
    PROVE  CommOk(b)'
  BY DEF CommOk, OthersSame, HoldsPd, PdDue, MrDue

\* What another device's domain and cache are not touched by.
PdSame(d) == \A b \in Comms : comm'[b].pds[d] = comm[b].pds[d]
RegsSame(d) == \A b \in Comms : comm'[b].regs[d] = comm[b].regs[d]

LEMMA PdFrame ==
    ASSUME NEW d \in Devs, PdOk(d), PdSame(d),
           pd'[d] = pd[d], pdRefs'[d] = pdRefs[d], pdLeaks'[d] = pdLeaks[d]
    PROVE  PdOk(d)'
<1>1. PdHolders(d)' = PdHolders(d)
  BY DEF PdHolders, HoldsPd, PdSame
<1> QED
  BY <1>1 DEF PdOk, HoldsPd, PdSame

LEMMA CacheFrame ==
    ASSUME NEW d \in Devs, CacheOk(d), RegsSame(d), slots'[d] = slots[d], capacity'[d] = capacity[d],
           mrs'[d] = mrs[d], mrLeaks'[d] = mrLeaks[d], orphans'[d] = orphans[d]
    PROVE  CacheOk(d)'
<1>1. \A h : MrHolders(d, h)' = MrHolders(d, h)
  BY DEF MrHolders, RegsSame
<1> QED
  BY <1>1 DEF CacheOk, EntryOk, HandleOk

SideOk(d) == OrphansOk(d) /\ RoomOk(d)

LEMMA SideFrame ==
    ASSUME NEW d \in Devs, SideOk(d), slots'[d] = slots[d], capacity'[d] = capacity[d], room'[d] = room[d],
           mrs'[d] = mrs[d], orphans'[d] = orphans[d], overrun' = overrun
    PROVE  SideOk(d)'
  BY DEF SideOk, OrphansOk, RoomOk

LEMMA RegFrame ==
    ASSUME RegistrationValid, NEW c \in Comms, OthersSame(c), UNCHANGED mrs,
           \A d \in Devs : comm'[c].regs[d] # NoMr =>
               comm'[c].regs[d] = comm[c].regs[d] /\ comm'[c].range = comm[c].range
    PROVE  RegistrationValid'
  BY DEF RegistrationValid, OthersSame

\* A step that neither takes nor gives anything.
LEMMA QuietStep ==
    ASSUME DeviceInv, NEW c \in Comms, NEW n \in Comm, comm' = [comm EXCEPT ![c] = n],
           UNCHANGED <<pdVars, cacheVars, failed>>,
           n.pds = comm[c].pds, n.regs = comm[c].regs,
           n.range = comm[c].range \/ \A d \in Devs : n.regs[d] = NoMr,
           CommOk(c)'
    PROVE  DeviceInv'
<1> USE DEF DeviceInv
<1>1. comm' \in [Comms -> Comm] /\ comm'[c] = n /\ OthersSame(c)
  BY CommUpdate
<1>2. TypeOK'
  BY <1>1 DEF TypeOK
<1>3. \A d \in Devs : PdSame(d) /\ RegsSame(d)
  BY <1>1 DEF OthersSame, PdSame, RegsSame
<1>4. RegistrationValid'
  BY <1>1, RegFrame
<1>5. \A b \in Comms : CommOk(b)'
  BY <1>1, CommStep
<1>6. \A d \in Devs : PdOk(d)' /\ CacheOk(d)'
  BY <1>3, PdFrame, CacheFrame
<1>7. \A d \in Devs : SideOk(d)'
  BY SideFrame DEF SideOk
<1> QED
  BY <1>2, <1>4, <1>5, <1>6, <1>7 DEF SideOk

LEMMA OpenInv ==
    ASSUME DeviceInv, NEW c \in Comms, Open(c)
    PROVE  DeviceInv'
<1> DEFINE n == [comm[c] EXCEPT !.pc = "opening"]
<1> USE DEF DeviceInv
<1>1. /\ comm[c].pc = "closed" /\ comm' = [comm EXCEPT ![c] = n]
      /\ UNCHANGED <<pdVars, cacheVars, failed>>
  BY DEF Open
<1>2. /\ n \in Comm /\ n.pc = "opening" /\ n.dev = comm[c].dev
      /\ n.pds = comm[c].pds /\ n.range = comm[c].range /\ n.regs = comm[c].regs
  BY CommTypes DEF Comm
<1> HIDE DEF n
<1>3. comm'[c] = n
  BY <1>1, <1>2, CommUpdate
<1>4. CommOk(c)'
  BY <1>1, <1>2, <1>3, Constants DEF CommOk, HoldsPd, PdDue, MrDue, Registering
<1> QED
  BY <1>1, <1>2, <1>4, QuietStep

LEMMA CloseInv ==
    ASSUME DeviceInv, NEW c \in Comms, Close(c)
    PROVE  DeviceInv'
<1> DEFINE n == [comm[c] EXCEPT !.pc = "closing"]
<1> USE DEF DeviceInv
<1>1. /\ comm[c].pc = "open" /\ comm' = [comm EXCEPT ![c] = n]
      /\ UNCHANGED <<pdVars, cacheVars, failed>>
  BY DEF Close
<1>2. /\ n \in Comm /\ n.pc = "closing" /\ n.dev = comm[c].dev
      /\ n.pds = comm[c].pds /\ n.range = comm[c].range /\ n.regs = comm[c].regs
  BY CommTypes DEF Comm
<1> HIDE DEF n
<1>3. comm'[c] = n
  BY <1>1, <1>2, CommUpdate
<1>4. CommOk(c)'
  BY <1>1, <1>2, <1>3, Constants DEF CommOk, HoldsPd, PdDue, MrDue, Registering
<1> QED
  BY <1>1, <1>2, <1>4, QuietStep

LEMMA DeregInv ==
    ASSUME DeviceInv, NEW c \in Comms, Dereg(c)
    PROVE  DeviceInv'
<1> DEFINE n == [comm[c] EXCEPT !.pc = "deregistering"]
<1> USE DEF DeviceInv
<1>1. /\ comm[c].pc = "holding" /\ comm' = [comm EXCEPT ![c] = n]
      /\ UNCHANGED <<pdVars, cacheVars, failed>>
  BY DEF Dereg
<1>2. /\ n \in Comm /\ n.pc = "deregistering" /\ n.dev = comm[c].dev
      /\ n.pds = comm[c].pds /\ n.range = comm[c].range /\ n.regs = comm[c].regs
  BY CommTypes DEF Comm
<1> HIDE DEF n
<1>3. comm'[c] = n
  BY <1>1, <1>2, CommUpdate
<1>4. CommOk(c)'
  BY <1>1, <1>2, <1>3, Constants DEF CommOk, HoldsPd, PdDue, MrDue, Registering
<1> QED
  BY <1>1, <1>2, <1>4, QuietStep

LEMMA RegMrInv ==
    ASSUME DeviceInv, NEW c \in Comms, NEW range \in Ranges, RegMr(c, range)
    PROVE  DeviceInv'
<1> DEFINE n == [comm[c] EXCEPT !.pc = "registering", !.range = range]
<1> USE DEF DeviceInv
<1>1. /\ comm[c].pc = "open" /\ comm' = [comm EXCEPT ![c] = n]
      /\ UNCHANGED <<pdVars, cacheVars, failed>>
  BY DEF RegMr
<1>2. /\ n \in Comm /\ n.pc = "registering" /\ n.dev = comm[c].dev
      /\ n.pds = comm[c].pds /\ n.range = range /\ n.regs = comm[c].regs
  BY CommTypes, Constants DEF Comm
<1> HIDE DEF n
<1>3. comm'[c] = n
  BY <1>1, <1>2, CommUpdate
<1>4. CommOk(c)'
  BY <1>1, <1>2, <1>3, Constants DEF CommOk, HoldsPd, PdDue, MrDue, Registering
<1>5. \A d \in Devs : n.regs[d] = NoMr
  BY <1>1, <1>2 DEF CommOk, MrDue
<1> QED
  BY <1>1, <1>2, <1>4, <1>5, QuietStep

----------------------------------------------------------------------------
(* The protection domains. *)

AtLastDev(c) == comm[c].dev + 1 = NDevs

LEMMA AdvanceFields ==
    ASSUME TypeOK, NEW c \in Comms, NEW q, NEW m, m = Advance(c, q),
           q \in {"closed", "opening", "open", "registering", "holding", "deregistering", "closing"}
    PROVE  /\ m \in Comm /\ m.pc = (IF AtLastDev(c) THEN q ELSE comm[c].pc)
           /\ m.dev = (IF AtLastDev(c) THEN 0 ELSE comm[c].dev + 1)
           /\ m.pds = comm[c].pds /\ m.range = comm[c].range /\ m.regs = comm[c].regs
<1>1. comm[c] \in Comm /\ comm[c].dev \in Devs
  BY CommTypes
<1>2. ~AtLastDev(c) => comm[c].dev + 1 \in Devs
  BY <1>1, Constants DEF Devs, AtLastDev
<1>3. CASE AtLastDev(c)
  <2>1. m = [comm[c] EXCEPT !.pc = q, !.dev = 0]
    BY <1>3 DEF AtLastDev, Advance
  <2> QED
    BY <1>1, <1>3, <2>1, Constants DEF Comm
<1>4. CASE ~AtLastDev(c)
  <2>1. m = [comm[c] EXCEPT !.dev = @ + 1]
    BY <1>4 DEF AtLastDev, Advance
  <2> QED
    BY <1>1, <1>2, <1>4, <2>1 DEF Comm
<1> QED
  BY <1>3, <1>4

LEMMA InitCommDevBaseInv ==
    ASSUME DeviceInv, NEW c \in Comms, InitCommDevBase(c)
    PROVE  DeviceInv'
<1> USE DEF DeviceInv
<1> SUFFICES ASSUME NEW d, d = comm[c].dev, NEW newPd, newPd = IF MustAllocPd(d) THEN "live" ELSE pd[d],
                    NEW m, m = Advance(c, "open"), NEW n, n = [m EXCEPT !.pds[d] = newPd]
             PROVE  DeviceInv'
  OBVIOUS
<1>1. /\ comm[c].pc = "opening" /\ comm' = [comm EXCEPT ![c] = n]
      /\ pdRefs' = [pdRefs EXCEPT ![d] = @ + 1] /\ pd' = [pd EXCEPT ![d] = newPd]
      /\ UNCHANGED <<pdLeaks, cacheVars, failed>>
  BY DEF InitCommDevBase
<1>2. d \in Devs /\ newPd \in {"null", "live", "stale"}
  BY CommTypes DEF TypeOK
<1>3. /\ m \in Comm /\ m.pc = (IF AtLastDev(c) THEN "open" ELSE "opening")
      /\ m.dev = (IF AtLastDev(c) THEN 0 ELSE d + 1)
      /\ m.pds = comm[c].pds /\ m.range = comm[c].range /\ m.regs = comm[c].regs
  BY <1>1, AdvanceFields
<1>4. /\ n \in Comm /\ n.pc = m.pc /\ n.dev = m.dev /\ n.range = m.range /\ n.regs = m.regs
      /\ n.pds = [comm[c].pds EXCEPT ![d] = newPd]
  BY <1>2, <1>3 DEF Comm
<1>5. /\ n.pds[d] = newPd /\ \A e \in Devs : e # d => n.pds[e] = comm[c].pds[e]
  BY <1>2, <1>4, CommTypes
<1>6. comm' \in [Comms -> Comm] /\ comm'[c] = n /\ OthersSame(c)
  BY <1>1, <1>4, CommUpdate
<1>7. TypeOK'
  BY <1>1, <1>2, <1>6 DEF TypeOK
<1>8. RegistrationValid'
  BY <1>1, <1>3, <1>4, <1>6, RegFrame
<1>9. CommOk(c)'
  <2>1. \A e \in Devs : comm[c].regs[e] = NoMr /\ (HoldsPd(c, e) <=> e < d)
    BY <1>1 DEF CommOk, PdDue, MrDue, Registering
  <2>2. \A e \in Devs : HoldsPd(c, e)' <=> e <= d
    BY <1>2, <1>5, <1>6, <2>1, Constants DEF HoldsPd
  <2> QED
    BY <1>2, <1>3, <1>4, <1>6, <2>1, <2>2, Constants DEF CommOk, PdDue, MrDue, Registering, AtLastDev
<1>10. \A e \in Devs : RegsSame(e) /\ (e # d => PdSame(e))
  <2>1. \A e \in Devs : comm'[c].regs[e] = comm[c].regs[e] /\ (e # d => comm'[c].pds[e] = comm[c].pds[e])
    BY <1>3, <1>4, <1>5, <1>6
  <2> QED
    BY <2>1, <1>6 DEF OthersSame, PdSame, RegsSame
<1>11. PdOk(d)'
  <2>1. PdHolders(d) \in SUBSET Comms /\ PdHolders(d)' \in SUBSET Comms
    BY DEF PdHolders
  <2>2. c \notin PdHolders(d) /\ c \in PdHolders(d)'
    <3>1. ~PdDue(c, d)
      BY <1>1, <1>2, Constants DEF PdDue, Registering
    <3> QED
      BY <1>2, <1>5, <1>6, <3>1 DEF CommOk, PdHolders, HoldsPd
  <2>3. \A b \in Comms \ {c} : b \in PdHolders(d) <=> b \in PdHolders(d)'
    BY <1>6 DEF PdHolders, HoldsPd, OthersSame
  <2>4. Cardinality(PdHolders(d)') = Cardinality(PdHolders(d)) + 1 /\ Cardinality(PdHolders(d)) \in Nat
    BY <2>1, <2>2, <2>3, OneChanges
  <2>5. /\ pdRefs'[d] = pdRefs[d] + 1 /\ pd'[d] = newPd /\ pdLeaks'[d] = pdLeaks[d]
        /\ pdRefs[d] \in Nat /\ pdLeaks[d] \in Nat
    BY <1>1, <1>2 DEF TypeOK
  <2>6. PdOk(d)
    BY <1>2
  <2>7. pdRefs'[d] = Cardinality(PdHolders(d)') + pdLeaks'[d]
    BY <2>4, <2>5, <2>6 DEF PdOk
  <2>8. newPd # "stale" /\ (newPd = "null" => pdLeaks[d] > 0)
    BY <2>5, <2>6 DEF PdOk, MustAllocPd
  <2>9. ASSUME NEW b \in Comms, HoldsPd(b, d)' PROVE comm'[b].pds[d] = newPd
    <3>1. CASE b = c
      BY <1>5, <1>6, <3>1
    <3>2. CASE b # c
      <4>1. comm'[b] = comm[b]
        BY <1>6, <3>2 DEF OthersSame
      <4>2. HoldsPd(b, d)
        BY <2>9, <4>1 DEF HoldsPd
      <4>3. b \in PdHolders(d)
        BY <4>2 DEF PdHolders
      <4>4. Cardinality(PdHolders(d)) # 0
        BY <2>1, <4>3, OneChanges
      <4>5. pdRefs[d] # 0
        BY <2>4, <2>5, <2>6, <4>4 DEF PdOk
      <4>6. newPd = pd[d]
        BY <4>5 DEF MustAllocPd
      <4>7. comm[b].pds[d] = pd[d]
        BY <2>6, <4>2 DEF PdOk
      <4> QED
        BY <4>1, <4>6, <4>7
    <3> QED
      BY <3>1, <3>2
  <2> QED
    BY <2>5, <2>7, <2>8, <2>9 DEF PdOk
<1>12. \A e \in Devs : PdOk(e)' /\ CacheOk(e)'
  BY <1>1, <1>2, <1>10, <1>11, PdFrame, CacheFrame DEF TypeOK
<1>13. \A b \in Comms : CommOk(b)'
  BY <1>6, <1>9, CommStep
<1>14. \A e \in Devs : SideOk(e)'
  BY <1>1, SideFrame DEF SideOk
<1> QED
  BY <1>7, <1>8, <1>12, <1>13, <1>14 DEF SideOk

\* A failed attempt or close: on every device the count follows what is lost and
\* what was held, and the domain changes only where nobody holds one.
Abandons(c, held) ==
    /\ comm[c].pc \in {"opening", "closing"} /\ Abandon(c, held)
    /\ pdRefs' \in [Devs -> Nat] /\ pd' \in [Devs -> {"null", "live", "stale"}]
    /\ \A e \in Devs : pdRefs'[e] + (IF HoldsPd(c, e) THEN 1 ELSE 0)
                          = pdRefs[e] + (IF e \in held THEN 1 ELSE 0)
    /\ \A e \in Devs : pd'[e] # pd[e] => pdRefs[e] = 0
    /\ \A e \in Devs : pdRefs[e] = 0 /\ pdRefs'[e] > 0 =>
                          pd'[e] # "stale" /\ (pd'[e] = "null" => e \in held)
    /\ failed' = failed + 1 /\ UNCHANGED cacheVars

LEMMA AbandonInv ==
    ASSUME DeviceInv, NEW c \in Comms, NEW held \in SUBSET Devs, Abandons(c, held)
    PROVE  DeviceInv'
<1> SUFFICES ASSUME comm[c].pc \in {"opening", "closing"}, Abandon(c, held),
                    pdRefs' \in [Devs -> Nat], pd' \in [Devs -> {"null", "live", "stale"}],
                    \A e \in Devs : pdRefs'[e] + (IF HoldsPd(c, e) THEN 1 ELSE 0)
                                       = pdRefs[e] + (IF e \in held THEN 1 ELSE 0),
                    \A e \in Devs : pd'[e] # pd[e] => pdRefs[e] = 0,
                    \A e \in Devs : pdRefs[e] = 0 /\ pdRefs'[e] > 0 =>
                                       pd'[e] # "stale" /\ (pd'[e] = "null" => e \in held),
                    failed' = failed + 1, UNCHANGED cacheVars
             PROVE  DeviceInv'
  BY Zenon DEF Abandons
<1>0. TypeOK /\ RegistrationValid /\ CommOk(c) /\ (\A b \in Comms : CommOk(b))
      /\ \A e \in Devs : PdOk(e) /\ CacheOk(e) /\ SideOk(e)
  BY DEF DeviceInv, SideOk
<1>1. comm' = [comm EXCEPT ![c] = Closed]
      /\ pdLeaks' = [e \in Devs |-> IF e \in held THEN pdLeaks[e] + 1 ELSE pdLeaks[e]]
  BY DEF Abandon
<1>3. /\ Closed \in Comm /\ Closed.pc = "closed" /\ Closed.dev = 0
      /\ \A e \in Devs : Closed.pds[e] = "none" /\ Closed.regs[e] = NoMr
  BY Constants DEF Closed, Comm, PageRange, NoRange
<1>4. comm' \in [Comms -> Comm] /\ comm'[c] = Closed /\ OthersSame(c)
  BY <1>0, <1>1, <1>3, CommUpdate
<1>5. TypeOK'
  <2>1. pdLeaks' \in [Devs -> Nat] /\ failed' \in Nat
    BY <1>0, <1>1 DEF TypeOK
  <2> QED
    BY <1>0, <1>4, <2>1 DEF TypeOK
<1>6. \A e \in Devs : comm[c].regs[e] = NoMr
  BY <1>0 DEF CommOk, MrDue
<1>7. CommOk(c)'
  BY <1>3, <1>4 DEF CommOk, HoldsPd, PdDue, MrDue, Registering
<1>8. RegistrationValid'
  BY <1>0, <1>3, <1>4, RegFrame
<1>9. \A e \in Devs : RegsSame(e)
  BY <1>3, <1>4, <1>6 DEF OthersSame, RegsSame
<1>10. ASSUME NEW e \in Devs PROVE PdOk(e)'
  <2>1. PdHolders(e) \in SUBSET Comms /\ PdHolders(e)' \in SUBSET Comms
    BY DEF PdHolders
  <2>2. c \notin PdHolders(e)' /\ (c \in PdHolders(e) <=> HoldsPd(c, e))
    BY <1>3, <1>4 DEF PdHolders, HoldsPd
  <2>3. \A b \in Comms \ {c} : b \in PdHolders(e) <=> b \in PdHolders(e)'
    BY <1>4 DEF PdHolders, HoldsPd, OthersSame
  <2>4. /\ Cardinality(PdHolders(e)) \in Nat /\ Cardinality(PdHolders(e)') \in Nat
        /\ Cardinality(PdHolders(e)') + (IF HoldsPd(c, e) THEN 1 ELSE 0) = Cardinality(PdHolders(e))
    BY <2>1, <2>2, <2>3, OneChanges
  <2>5. /\ pdRefs[e] \in Nat /\ pdLeaks[e] \in Nat /\ pdRefs'[e] \in Nat
        /\ pdLeaks'[e] = pdLeaks[e] + (IF e \in held THEN 1 ELSE 0)
        /\ pdRefs'[e] + (IF HoldsPd(c, e) THEN 1 ELSE 0) = pdRefs[e] + (IF e \in held THEN 1 ELSE 0)
    BY <1>0, <1>1 DEF TypeOK
  <2>6. PdOk(e)
    BY <1>0
  <2>7. pdRefs'[e] = Cardinality(PdHolders(e)') + pdLeaks'[e]
    BY <2>4, <2>5, <2>6 DEF PdOk
  <2>8. ASSUME NEW b \in Comms, HoldsPd(b, e)' PROVE comm'[b].pds[e] = pd'[e]
    <3>1. b # c
      BY <1>3, <1>4, <2>8 DEF HoldsPd
    <3>2. comm'[b] = comm[b]
      BY <1>4, <3>1 DEF OthersSame
    <3>3. HoldsPd(b, e)
      BY <2>8, <3>2 DEF HoldsPd
    <3>4. b \in PdHolders(e)
      BY <3>3 DEF PdHolders
    <3>5. Cardinality(PdHolders(e)) # 0
      BY <2>1, <3>4, OneChanges
    <3>6. pdRefs[e] # 0
      BY <2>4, <2>5, <2>6, <3>5 DEF PdOk
    <3>7. comm[b].pds[e] = pd[e]
      BY <2>6, <3>3 DEF PdOk
    <3> QED
      BY <3>2, <3>6, <3>7
  <2>9. ASSUME pdRefs'[e] > 0 PROVE pd'[e] # "stale" /\ (pd'[e] = "null" => pdLeaks'[e] > 0)
    <3>1. CASE pdRefs[e] = 0
      BY <2>5, <2>9, <3>1
    <3>2. CASE pdRefs[e] # 0
      <4>1. pd'[e] = pd[e] /\ pdRefs[e] > 0
        BY <2>5, <3>2
      <4>2. pd[e] # "stale" /\ (pd[e] = "null" => pdLeaks[e] > 0)
        BY <2>6, <4>1 DEF PdOk
      <4> QED
        BY <2>5, <4>1, <4>2
    <3> QED
      BY <3>1, <3>2
  <2> QED
    BY <2>7, <2>8, <2>9 DEF PdOk
<1>11. \A e \in Devs : CacheOk(e)'
  BY <1>0, <1>9, CacheFrame
<1>12. \A b \in Comms : CommOk(b)'
  BY <1>0, <1>4, <1>7, CommStep
<1>13. \A e \in Devs : SideOk(e)'
  BY <1>0, SideFrame
<1> QED
  BY <1>5, <1>8, <1>10, <1>11, <1>12, <1>13 DEF DeviceInv, SideOk

\* An attempt that fails on device d has taken a reference there.
LEMMA OpenFailsInv ==
    ASSUME DeviceInv, NEW c \in Comms, NEW d, d = comm[c].dev, comm[c].pc = "opening",
           Abandon(c, 0 .. d), pdRefs' = [pdRefs EXCEPT ![d] = @ + 1],
           NEW newPd \in {"null", "live", pd[d]}, pd' = [pd EXCEPT ![d] = newPd],
           newPd # pd[d] => pdRefs[d] = 0, pdRefs[d] = 0 => newPd # "stale",
           failed' = failed + 1, UNCHANGED cacheVars
    PROVE  DeviceInv'
<1>0. TypeOK /\ CommOk(c)
  BY DEF DeviceInv
<1>1. d \in Devs /\ d \in Nat /\ 0 .. d \in SUBSET Devs
  BY <1>0, CommTypes, Constants DEF Devs
<1>2. pdRefs' \in [Devs -> Nat] /\ pd' \in [Devs -> {"null", "live", "stale"}]
  <2>1. newPd \in {"null", "live", "stale"}
    BY <1>0, <1>1 DEF TypeOK
  <2> QED
    BY <1>0, <1>1, <2>1 DEF TypeOK
<1>3. ASSUME NEW e \in Devs
      PROVE  /\ pdRefs'[e] + (IF HoldsPd(c, e) THEN 1 ELSE 0) = pdRefs[e] + (IF e \in 0 .. d THEN 1 ELSE 0)
             /\ pd'[e] # pd[e] => pdRefs[e] = 0
             /\ pdRefs[e] = 0 /\ pdRefs'[e] > 0 => pd'[e] # "stale" /\ (pd'[e] = "null" => e \in 0 .. d)
  <2>1. HoldsPd(c, e) <=> e < d
    BY <1>0 DEF CommOk, PdDue, Registering
  <2>2. e \in Nat /\ pdRefs[e] \in Nat
    BY <1>0, Constants DEF TypeOK
  <2>3. CASE e = d
    <3>1. pdRefs'[e] = pdRefs[e] + 1 /\ pd'[e] = newPd
      BY <1>0, <1>1, <2>3 DEF TypeOK
    <3> QED
      BY <1>1, <2>1, <2>2, <2>3, <3>1
  <2>4. CASE e # d
    <3>1. pdRefs'[e] = pdRefs[e] /\ pd'[e] = pd[e]
      BY <1>0, <1>1, <2>4 DEF TypeOK
    <3> QED
      BY <1>1, <2>1, <2>2, <2>4, <3>1
  <2> QED
    BY <2>3, <2>4
<1>4. PICK held \in SUBSET Devs : held = 0 .. d
  BY <1>1
<1>5. \A e \in Devs : pdRefs'[e] + (IF HoldsPd(c, e) THEN 1 ELSE 0) = pdRefs[e] + (IF e \in held THEN 1 ELSE 0)
  BY <1>3, <1>4
<1>6. \A e \in Devs : pd'[e] # pd[e] => pdRefs[e] = 0
  BY <1>3
<1>7. \A e \in Devs : pdRefs[e] = 0 /\ pdRefs'[e] > 0 => pd'[e] # "stale" /\ (pd'[e] = "null" => e \in held)
  BY <1>3, <1>4
<1>8. Abandon(c, held)
  BY <1>4
<1>9. comm[c].pc \in {"opening", "closing"} /\ failed' = failed + 1 /\ UNCHANGED cacheVars
  OBVIOUS
<1>10. Abandons(c, held)
  BY <1>2, <1>5, <1>6, <1>7, <1>8, <1>9, Zenon DEF Abandons
<1> QED
  BY <1>10, AbandonInv

LEMMA AllocPdFailsInv ==
    ASSUME DeviceInv, NEW c \in Comms, AllocPdFails(c)
    PROVE  DeviceInv'
<1> SUFFICES ASSUME NEW d, d = comm[c].dev PROVE DeviceInv'
  OBVIOUS
<1>1. /\ comm[c].pc = "opening" /\ Abandon(c, 0 .. d) /\ failed' = failed + 1
      /\ pdRefs' = [pdRefs EXCEPT ![d] = @ + 1] /\ pd' = [pd EXCEPT ![d] = "null"]
      /\ pdRefs[d] = 0 /\ UNCHANGED cacheVars
  BY DEF AllocPdFails, Fails, MustAllocPd
<1> QED
  BY <1>1, OpenFailsInv

LEMMA CreateCqFailsInv ==
    ASSUME DeviceInv, NEW c \in Comms, CreateCqFails(c)
    PROVE  DeviceInv'
<1> SUFFICES ASSUME NEW d, d = comm[c].dev, NEW newPd, newPd = IF MustAllocPd(d) THEN "live" ELSE pd[d]
             PROVE  DeviceInv'
  OBVIOUS
<1>1. /\ comm[c].pc = "opening" /\ Abandon(c, 0 .. d) /\ failed' = failed + 1
      /\ pdRefs' = [pdRefs EXCEPT ![d] = @ + 1] /\ pd' = [pd EXCEPT ![d] = newPd]
      /\ UNCHANGED cacheVars
  BY DEF CreateCqFails, Fails
<1>2. /\ newPd \in {"null", "live", pd[d]} /\ (newPd # pd[d] => pdRefs[d] = 0)
      /\ (pdRefs[d] = 0 => newPd # "stale")
  BY DEF MustAllocPd
<1> QED
  BY <1>1, <1>2, OpenFailsInv

\* What a communicator that closes still holds.
LEMMA ClosingHolds ==
    ASSUME DeviceInv, NEW c \in Comms, comm[c].pc = "closing", NEW d, d = comm[c].dev
    PROVE  /\ d \in Devs /\ d \in Nat /\ d .. NDevs - 1 \in SUBSET Devs /\ d + 1 .. NDevs - 1 \in SUBSET Devs
           /\ \A e \in Devs : /\ HoldsPd(c, e) <=> e >= d
                              /\ e \in d .. NDevs - 1 <=> e >= d
                              /\ e \in d + 1 .. NDevs - 1 <=> e > d
                              /\ e \in Nat
<1>1. TypeOK /\ CommOk(c)
  BY DEF DeviceInv
<1>2. d \in Devs /\ d \in Nat /\ d .. NDevs - 1 \in SUBSET Devs /\ d + 1 .. NDevs - 1 \in SUBSET Devs
  BY <1>1, CommTypes, Constants DEF Devs
<1>3. \A e \in Devs : HoldsPd(c, e) <=> e >= d
  BY <1>1 DEF CommOk, PdDue, Registering
<1>4. \A e \in Devs : e \in Nat /\ e <= NDevs - 1
  BY Constants DEF Devs
<1> QED
  BY <1>2, <1>3, <1>4

LEMMA DestroyCqFailsInv ==
    ASSUME DeviceInv, NEW c \in Comms, DestroyCqFails(c)
    PROVE  DeviceInv'
<1> SUFFICES ASSUME NEW d, d = comm[c].dev, NEW held, held = d .. NDevs - 1 PROVE DeviceInv'
  OBVIOUS
<1>1. /\ comm[c].pc = "closing" /\ Abandon(c, held) /\ failed' = failed + 1
      /\ pd' = pd /\ pdRefs' = pdRefs /\ UNCHANGED cacheVars
  BY DEF DestroyCqFails, Fails
<1>2. held \in SUBSET Devs /\ \A e \in Devs : HoldsPd(c, e) <=> e \in held
  BY <1>1, ClosingHolds
<1>3. pdRefs' \in [Devs -> Nat] /\ pd' \in [Devs -> {"null", "live", "stale"}]
  BY <1>1 DEF DeviceInv, TypeOK
<1>4. \A e \in Devs : pdRefs[e] \in Nat /\ pdRefs'[e] = pdRefs[e] /\ pd'[e] = pd[e]
  BY <1>1 DEF DeviceInv, TypeOK
<1>5. \A e \in Devs : pdRefs'[e] + (IF HoldsPd(c, e) THEN 1 ELSE 0) = pdRefs[e] + (IF e \in held THEN 1 ELSE 0)
  BY <1>2, <1>4
<1>6. \A e \in Devs : pd'[e] # pd[e] => pdRefs[e] = 0
  BY <1>4
<1>7. \A e \in Devs : pdRefs[e] = 0 /\ pdRefs'[e] > 0 => pd'[e] # "stale" /\ (pd'[e] = "null" => e \in held)
  BY <1>4
<1>8. comm[c].pc \in {"opening", "closing"} /\ held \in SUBSET Devs /\ Abandon(c, held)
      /\ failed' = failed + 1 /\ UNCHANGED cacheVars
  BY <1>1, <1>2
<1>9. Abandons(c, held)
  BY <1>3, <1>5, <1>6, <1>7, <1>8, Zenon DEF Abandons
<1> QED
  BY <1>8, <1>9, AbandonInv

LEMMA DeallocPdFailsInv ==
    ASSUME DeviceInv, NEW c \in Comms, DeallocPdFails(c)
    PROVE  DeviceInv'
<1> SUFFICES ASSUME NEW d, d = comm[c].dev, NEW held, held = d + 1 .. NDevs - 1 PROVE DeviceInv'
  OBVIOUS
<1>1. /\ comm[c].pc = "closing" /\ Abandon(c, held) /\ failed' = failed + 1 /\ LastRef(d)
      /\ pd' = pd /\ pdRefs' = [pdRefs EXCEPT ![d] = @ - 1] /\ UNCHANGED cacheVars
  BY DEF DeallocPdFails, Fails
<1>2. d \in Devs /\ held \in SUBSET Devs /\ \A e \in Devs : (HoldsPd(c, e) <=> e = d \/ e \in held) /\ (e = d => e \notin held)
  BY <1>1, ClosingHolds
<1>3. /\ pd' \in [Devs -> {"null", "live", "stale"}]
      /\ \A e \in Devs : pdRefs[e] \in Nat /\ pd'[e] = pd[e] /\ pdRefs'[e] = IF e = d THEN pdRefs[e] - 1 ELSE pdRefs[e]
  BY <1>1, <1>2 DEF DeviceInv, TypeOK
<1>4. pdRefs[d] = 1
  BY <1>1, <1>2, <1>3 DEF LastRef
<1>5. pdRefs' \in [Devs -> Nat]
  BY <1>1, <1>2, <1>4 DEF DeviceInv, TypeOK
<1>6. \A e \in Devs : pdRefs'[e] + (IF HoldsPd(c, e) THEN 1 ELSE 0) = pdRefs[e] + (IF e \in held THEN 1 ELSE 0)
  BY <1>2, <1>3
<1>7. \A e \in Devs : pd'[e] # pd[e] => pdRefs[e] = 0
  BY <1>3
<1>8. \A e \in Devs : pdRefs[e] = 0 /\ pdRefs'[e] > 0 => pd'[e] # "stale" /\ (pd'[e] = "null" => e \in held)
  BY <1>3
<1>9. comm[c].pc \in {"opening", "closing"} /\ held \in SUBSET Devs /\ Abandon(c, held)
      /\ pd' \in [Devs -> {"null", "live", "stale"}] /\ failed' = failed + 1 /\ UNCHANGED cacheVars
  BY <1>1, <1>2, <1>3
<1>10. Abandons(c, held)
  BY <1>5, <1>6, <1>7, <1>8, <1>9, Zenon DEF Abandons
<1> QED
  BY <1>9, <1>10, AbandonInv

LEMMA DestroyBaseInv ==
    ASSUME DeviceInv, NEW c \in Comms, DestroyBase(c)
    PROVE  DeviceInv'
<1> SUFFICES ASSUME NEW d, d = comm[c].dev, NEW m, m = Advance(c, "closed"),
                    NEW n, n = [m EXCEPT !.pds[d] = "none"]
             PROVE  DeviceInv'
  OBVIOUS
<1>0. TypeOK /\ RegistrationValid /\ CommOk(c) /\ (\A b \in Comms : CommOk(b))
      /\ \A e \in Devs : PdOk(e) /\ CacheOk(e) /\ SideOk(e)
  BY DEF DeviceInv, SideOk
<1>1. /\ comm[c].pc = "closing" /\ comm' = [comm EXCEPT ![c] = n]
      /\ pdRefs' = [pdRefs EXCEPT ![d] = @ - 1]
      /\ pd' = [pd EXCEPT ![d] = IF LastRef(d) THEN "stale" ELSE @]
      /\ UNCHANGED <<pdLeaks, cacheVars, failed>>
  BY DEF DestroyBase
<1>2. d \in Devs /\ d \in Nat /\ pdRefs[d] \in Nat /\ pdLeaks[d] \in Nat
  BY <1>0, CommTypes, Constants DEF TypeOK
<1>3. /\ m \in Comm /\ m.pc = (IF AtLastDev(c) THEN "closed" ELSE "closing")
      /\ m.dev = (IF AtLastDev(c) THEN 0 ELSE d + 1)
      /\ m.pds = comm[c].pds /\ m.range = comm[c].range /\ m.regs = comm[c].regs
  BY <1>0, <1>1, AdvanceFields
<1>4. /\ n \in Comm /\ n.pc = m.pc /\ n.dev = m.dev /\ n.range = m.range /\ n.regs = m.regs
      /\ n.pds = [comm[c].pds EXCEPT ![d] = "none"]
  BY <1>2, <1>3 DEF Comm
<1>5. /\ n.pds[d] = "none" /\ \A e \in Devs : e # d => n.pds[e] = comm[c].pds[e]
  BY <1>0, <1>2, <1>4, CommTypes
<1>6. comm' \in [Comms -> Comm] /\ comm'[c] = n /\ OthersSame(c)
  BY <1>0, <1>1, <1>4, CommUpdate
<1>7. RegistrationValid'
  BY <1>0, <1>1, <1>3, <1>4, <1>6, RegFrame
<1>8. \A e \in Devs : comm[c].regs[e] = NoMr /\ (HoldsPd(c, e) <=> e >= d)
  BY <1>0, <1>1 DEF CommOk, PdDue, MrDue, Registering
<1>9. CommOk(c)'
  <2>1. \A e \in Devs : HoldsPd(c, e)' <=> e > d
    BY <1>2, <1>5, <1>6, <1>8, Constants DEF HoldsPd
  <2> QED
    BY <1>2, <1>3, <1>4, <1>6, <1>8, <2>1, Constants DEF CommOk, PdDue, MrDue, Registering, AtLastDev
<1>10. \A e \in Devs : RegsSame(e) /\ (e # d => PdSame(e))
  <2>1. \A e \in Devs : comm'[c].regs[e] = comm[c].regs[e] /\ (e # d => comm'[c].pds[e] = comm[c].pds[e])
    BY <1>3, <1>4, <1>5, <1>6
  <2> QED
    BY <2>1, <1>6 DEF OthersSame, PdSame, RegsSame
<1>11. pdRefs[d] >= 1 /\ PdOk(d)'
  <2>1. PdHolders(d) \in SUBSET Comms /\ PdHolders(d)' \in SUBSET Comms
    BY DEF PdHolders
  <2>2. c \in PdHolders(d) /\ c \notin PdHolders(d)'
    <3>1. HoldsPd(c, d)
      BY <1>2, <1>8
    <3>2. ~HoldsPd(c, d)'
      BY <1>5, <1>6 DEF HoldsPd
    <3> QED
      BY <3>1, <3>2 DEF PdHolders
  <2>3. \A b \in Comms \ {c} : b \in PdHolders(d) <=> b \in PdHolders(d)'
    BY <1>6 DEF PdHolders, HoldsPd, OthersSame
  <2>4. /\ Cardinality(PdHolders(d)') = Cardinality(PdHolders(d)) - 1 /\ Cardinality(PdHolders(d)) \in Nat
        /\ Cardinality(PdHolders(d)') \in Nat
        /\ Cardinality(PdHolders(d)) = 1 => PdHolders(d) = {c}
    BY <2>1, <2>2, <2>3, OneChanges
  <2>5. /\ pdRefs'[d] = pdRefs[d] - 1 /\ pdLeaks'[d] = pdLeaks[d]
        /\ pd'[d] = IF LastRef(d) THEN "stale" ELSE pd[d]
    BY <1>0, <1>1, <1>2 DEF TypeOK
  <2>6. PdOk(d)
    BY <1>0, <1>2
  <2>7. pdRefs'[d] = Cardinality(PdHolders(d)') + pdLeaks'[d] /\ pdRefs[d] >= 1
    BY <1>2, <2>4, <2>5, <2>6 DEF PdOk
  <2>8. LastRef(d) => PdHolders(d) = {c}
    BY <1>2, <2>4, <2>6, <2>7 DEF PdOk, LastRef
  <2>9. ASSUME NEW b \in Comms, HoldsPd(b, d)' PROVE b # c /\ HoldsPd(b, d) /\ comm'[b].pds[d] = comm[b].pds[d] /\ ~LastRef(d)
    <3>1. b # c
      BY <1>5, <1>6, <2>9 DEF HoldsPd
    <3>2. comm'[b].pds[d] = comm[b].pds[d]
      BY <1>6, <3>1 DEF OthersSame
    <3>3. HoldsPd(b, d)
      BY <2>9, <3>2 DEF HoldsPd
    <3>4. b \in PdHolders(d)
      BY <3>3 DEF PdHolders
    <3> QED
      BY <2>8, <3>1, <3>2, <3>3, <3>4
  <2>10. ASSUME NEW b \in Comms, HoldsPd(b, d)' PROVE comm'[b].pds[d] = pd'[d]
    BY <2>5, <2>6, <2>9, <2>10 DEF PdOk
  <2>11. ASSUME pdRefs'[d] > 0 PROVE pd'[d] # "stale" /\ (pd'[d] = "null" => pdLeaks'[d] > 0)
    <3>1. ~LastRef(d) /\ pdRefs[d] > 0
      BY <1>2, <2>5, <2>7, <2>11 DEF LastRef
    <3>2. pd[d] # "stale" /\ (pd[d] = "null" => pdLeaks[d] > 0)
      BY <2>6, <3>1 DEF PdOk
    <3> QED
      BY <2>5, <3>1, <3>2
  <2> QED
    BY <2>7, <2>10, <2>11 DEF PdOk
<1>12. TypeOK'
  <2>1. pdRefs' \in [Devs -> Nat] /\ pd' \in [Devs -> {"null", "live", "stale"}]
    BY <1>0, <1>1, <1>2, <1>11 DEF TypeOK
  <2> QED
    BY <1>0, <1>1, <1>6, <2>1 DEF TypeOK
<1>13. \A e \in Devs : PdOk(e)' /\ CacheOk(e)'
  BY <1>0, <1>1, <1>2, <1>10, <1>11, PdFrame, CacheFrame DEF TypeOK
<1>14. \A b \in Comms : CommOk(b)'
  BY <1>0, <1>6, <1>9, CommStep
<1>15. \A e \in Devs : SideOk(e)'
  BY <1>0, <1>1, SideFrame
<1> QED
  BY <1>7, <1>12, <1>13, <1>14, <1>15 DEF DeviceInv, SideOk

----------------------------------------------------------------------------
(* The cache of memory regions. *)

\* On device d, communicator c goes from region g to region h (or none), and keeps the rest.
Moves(c, d, g, h) ==
    /\ comm' \in [Comms -> Comm] /\ OthersSame(c)
    /\ comm[c].regs[d] = g /\ comm'[c].regs[d] = h
    /\ \A e \in Devs : comm'[c].pds[e] = comm[c].pds[e] /\ (e # d => comm'[c].regs[e] = comm[c].regs[e])

LEMMA TakesRegion ==
    ASSUME TypeOK, NEW c \in Comms, CommOk(c), comm[c].pc = "registering", NEW d, d = comm[c].dev,
           NEW h \in Handles, comm' = [comm EXCEPT ![c] = [Advance(c, "holding") EXCEPT !.regs[d] = h]]
    PROVE  /\ d \in Devs /\ Moves(c, d, NoMr, h) /\ CommOk(c)'
           /\ comm'[c].range = comm[c].range /\ comm[c].range \in Ranges
<1> SUFFICES ASSUME NEW m, m = Advance(c, "holding"), NEW n, n = [m EXCEPT !.regs[d] = h],
                    comm' = [comm EXCEPT ![c] = n]
             PROVE  /\ d \in Devs /\ Moves(c, d, NoMr, h) /\ CommOk(c)'
                    /\ comm'[c].range = comm[c].range /\ comm[c].range \in Ranges
  OBVIOUS
<1>1. d \in Devs /\ d \in Nat
  BY CommTypes, Constants
<1>2. /\ m \in Comm /\ m.pc = (IF AtLastDev(c) THEN "holding" ELSE "registering")
      /\ m.dev = (IF AtLastDev(c) THEN 0 ELSE d + 1)
      /\ m.pds = comm[c].pds /\ m.range = comm[c].range /\ m.regs = comm[c].regs
  BY AdvanceFields
<1>3. /\ n \in Comm /\ n.pc = m.pc /\ n.dev = m.dev /\ n.range = m.range /\ n.pds = m.pds
      /\ n.regs = [comm[c].regs EXCEPT ![d] = h]
  BY <1>1, <1>2 DEF Comm
<1>4. n.regs[d] = h /\ \A e \in Devs : e # d => n.regs[e] = comm[c].regs[e]
  BY <1>1, <1>3, CommTypes
<1>5. comm' \in [Comms -> Comm] /\ comm'[c] = n /\ OthersSame(c)
  BY <1>3, CommUpdate
<1>6. \A e \in Devs : HoldsPd(c, e) /\ (comm[c].regs[e] # NoMr <=> e < d)
  BY DEF CommOk, PdDue, MrDue, Registering
<1>7. comm[c].regs[d] = NoMr
  BY <1>1, <1>6
<1>8. \A e \in Devs : comm'[c].pds[e] = comm[c].pds[e] /\ (e # d => comm'[c].regs[e] = comm[c].regs[e])
  BY <1>2, <1>3, <1>4, <1>5
<1>9. Moves(c, d, NoMr, h)
  BY <1>4, <1>5, <1>7, <1>8 DEF Moves
<1>10. comm[c].range \in Ranges
  BY DEF CommOk, Registering
<1>11. CommOk(c)'
  <2>1. \A e \in Devs : HoldsPd(c, e)' /\ (comm'[c].regs[e] # NoMr <=> e <= d)
    BY <1>1, <1>4, <1>5, <1>6, <1>8, Constants DEF HoldsPd
  <2> QED
    BY <1>1, <1>2, <1>3, <1>5, <1>10, <2>1, Constants DEF CommOk, PdDue, MrDue, Registering, AtLastDev
<1> QED
  BY <1>1, <1>2, <1>3, <1>5, <1>9, <1>10, <1>11

\* The handle that c has on d changes.
MovesOn(c, d, g, h) == g # h /\ OthersSame(c) /\ comm[c].regs[d] = g /\ comm'[c].regs[d] = h

\* The holders of the two regions, and of the others.
LEMMA HoldersMoveOn ==
    ASSUME NEW c \in Comms, NEW d \in Devs, NEW g, NEW h, MovesOn(c, d, g, h)
    PROVE  /\ Cardinality(MrHolders(d, g)) \in Nat /\ Cardinality(MrHolders(d, h)) \in Nat
           /\ Cardinality(MrHolders(d, g)') = Cardinality(MrHolders(d, g)) - 1
           /\ Cardinality(MrHolders(d, h)') = Cardinality(MrHolders(d, h)) + 1
           /\ Cardinality(MrHolders(d, g)) = 1 => MrHolders(d, g) = {c} /\ MrHolders(d, g)' = {}
           /\ \A k : k # g /\ k # h => MrHolders(d, k)' = MrHolders(d, k)
<1> DEFINE G == MrHolders(d, g)
           G2 == MrHolders(d, g)'
           H == MrHolders(d, h)
           H2 == MrHolders(d, h)'
<1>1. \A k : \A b \in Comms : /\ b \in MrHolders(d, k) <=> comm[b].regs[d] = k
                              /\ b \in MrHolders(d, k)' <=> comm'[b].regs[d] = k
  BY DEF MrHolders
<1>2. \A b \in Comms \ {c} : comm'[b].regs[d] = comm[b].regs[d]
  BY DEF OthersSame, MovesOn
<1>3. comm[c].regs[d] = g /\ comm'[c].regs[d] = h /\ g # h
  BY DEF MovesOn
<1>4. /\ G \in SUBSET Comms /\ G2 \in SUBSET Comms /\ H \in SUBSET Comms /\ H2 \in SUBSET Comms
      /\ \A b \in Comms \ {c} : (b \in G <=> b \in G2) /\ (b \in H <=> b \in H2)
      /\ c \in G /\ c \notin G2 /\ c \notin H /\ c \in H2
  <2>1. G \in SUBSET Comms /\ G2 \in SUBSET Comms /\ H \in SUBSET Comms /\ H2 \in SUBSET Comms
    BY DEF MrHolders
  <2> QED
    BY <1>1, <1>2, <1>3, <2>1
<1> HIDE DEF G, G2, H, H2
<1>5. /\ Cardinality(G) \in Nat /\ Cardinality(G2) = Cardinality(G) - 1
      /\ Cardinality(G) = 1 => G = {c}
  BY <1>4, OneChanges
<1>6. Cardinality(H) \in Nat /\ Cardinality(H2) = Cardinality(H) + 1
  BY <1>4, OneChanges
<1>7. G = {c} => G2 = {}
  BY <1>4
<1>8. \A k : k # g /\ k # h => MrHolders(d, k)' = MrHolders(d, k)
  BY <1>2, <1>3 DEF MrHolders
<1> QED
  BY <1>5, <1>6, <1>7, <1>8 DEF G, G2, H, H2

LEMMA HoldersMove ==
    ASSUME NEW c \in Comms, NEW d \in Devs, NEW g, NEW h, Moves(c, d, g, h), g # h
    PROVE  /\ Cardinality(MrHolders(d, g)) \in Nat /\ Cardinality(MrHolders(d, h)) \in Nat
           /\ Cardinality(MrHolders(d, g)') = Cardinality(MrHolders(d, g)) - 1
           /\ Cardinality(MrHolders(d, h)') = Cardinality(MrHolders(d, h)) + 1
           /\ \A k : k # g /\ k # h => MrHolders(d, k)' = MrHolders(d, k)
           /\ \A e \in Devs : e # d => RegsSame(e)
           /\ \A e \in Devs : PdSame(e)
<1>1. MovesOn(c, d, g, h)
  BY DEF Moves, MovesOn
<1>2. \A e \in Devs : e # d => RegsSame(e)
  BY DEF Moves, OthersSame, RegsSame
<1>3. \A e \in Devs : PdSame(e)
  BY DEF Moves, OthersSame, PdSame
<1> QED
  BY <1>1, <1>2, <1>3, HoldersMoveOn

LEMMA CoveredPages ==
    ASSUME NEW e, e.addr \in Nat, e.pages \in Nat, NEW g \in Ranges, Covers(e, g),
           NEW r, r = RegionOf(e)
    PROVE  PagesOf(g) \subseteq PagesOf(r)
<1>1. r.addr = e.addr /\ r.pages = e.pages
  BY DEF RegionOf
<1>2. g.addr \in Nat /\ g.pages \in Nat /\ g.addr >= e.addr /\ g.addr - e.addr + g.pages <= e.pages
  BY Constants DEF Covers
<1> QED
  BY <1>1, <1>2 DEF PagesOf

LEMMA SlotTypes ==
    ASSUME TypeOK, NEW d \in Devs
    PROVE  /\ slots[d] \in Seq(Slot) /\ Len(slots[d]) \in Nat /\ DOMAIN slots[d] = 1 .. Len(slots[d])
           /\ \A i \in 1 .. Len(slots[d]) :
                 /\ slots[d][i] \in Slot /\ slots[d][i].addr \in Nat /\ slots[d][i].pages \in Nat \ {0}
                 /\ slots[d][i].refs \in Nat \ {0} /\ slots[d][i].mr \in Handles
<1>1. slots[d] \in Seq(Slot)
  BY DEF TypeOK
<1>2. \A i \in 1 .. Len(slots[d]) : slots[d][i] \in Slot
  BY <1>1
<1>3. ASSUME NEW y \in Slot
      PROVE  y.addr \in Nat /\ y.pages \in Nat \ {0} /\ y.refs \in Nat \ {0} /\ y.mr \in Handles
  BY DEF Slot
<1> QED
  BY <1>1, <1>2, <1>3

\* The registration c took on d is valid, the others' regions are as they were.
LEMMA RegTaken ==
    ASSUME RegistrationValid, NEW c \in Comms, NEW d \in Devs, NEW h \in Handles, Moves(c, d, NoMr, h),
           comm'[c].range = comm[c].range, PagesOf(comm[c].range) \subseteq PagesOf(mrs'[d][h]),
           \A b \in Comms, e \in Devs : comm[b].regs[e] # NoMr =>
               mrs'[e][comm[b].regs[e]] = mrs[e][comm[b].regs[e]]
    PROVE  RegistrationValid'
<1> SUFFICES ASSUME NEW b \in Comms, NEW e \in Devs, comm'[b].regs[e] # NoMr
             PROVE  PagesOf(comm'[b].range) \subseteq PagesOf(mrs'[e][comm'[b].regs[e]])
  BY DEF RegistrationValid, PagesOf
<1>1. CASE b = c /\ e = d
  BY <1>1 DEF Moves
<1>2. CASE b # c \/ e # d
  <2>1. comm'[b].regs[e] = comm[b].regs[e] /\ comm'[b].range = comm[b].range
    BY <1>2 DEF Moves, OthersSame
  <2>2. PagesOf(comm[b].range) \subseteq PagesOf(mrs[e][comm[b].regs[e]])
    BY <2>1 DEF RegistrationValid
  <2> QED
    BY <2>1, <2>2
<1> QED
  BY <1>1, <1>2

LEMMA RegHitInv ==
    ASSUME DeviceInv, NEW c \in Comms, RegHit(c)
    PROVE  DeviceInv'
<1>a. SUFFICES ASSUME NEW d, d = comm[c].dev, NEW i, i = ScanStop(d, comm[c].range),
                    NEW h, h = slots[d][i].mr
             PROVE  DeviceInv'
  OBVIOUS
<1>0. TypeOK /\ RegistrationValid /\ CommOk(c) /\ (\A b \in Comms : CommOk(b))
      /\ \A e \in Devs : PdOk(e) /\ CacheOk(e) /\ SideOk(e)
  BY DEF DeviceInv, SideOk
<1>1. /\ comm[c].pc = "registering" /\ Hit(d, comm[c].range)
      /\ slots' = [slots EXCEPT ![d][i].refs = @ + 1]
      /\ comm' = [comm EXCEPT ![c] = [Advance(c, "holding") EXCEPT !.regs[d] = h]]
      /\ UNCHANGED <<pdVars, capacity, room, mrs, mrLeaks, orphans, overrun, failed>>
  BY <1>a, Zenon DEF RegHit
<1>2. d \in Devs
  BY <1>a, <1>0, CommTypes
<1>b. TypeOK /\ CommOk(c) /\ comm[c].pc = "registering" /\ Hit(d, comm[c].range)
      /\ comm' = [comm EXCEPT ![c] = [Advance(c, "holding") EXCEPT !.regs[d] = h]]
  BY <1>0, <1>1
<1>3. i \in 1 .. Len(slots[d]) /\ Covers(slots[d][i], comm[c].range)
  <2>1. slots[d] \in Seq(Slot)
    BY <1>b, <1>2, SlotTypes
  <2>2. d = comm[c].dev /\ i = ScanStop(d, comm[c].range)
    BY <1>a
  <2> QED
    BY <1>b, <1>2, <2>1, <2>2, ScanStops, Zenon
<1>4. /\ slots[d] \in Seq(Slot) /\ Len(slots[d]) \in Nat /\ slots[d][i] \in Slot
      /\ slots[d][i].addr \in Nat /\ slots[d][i].pages \in Nat \ {0}
      /\ slots[d][i].refs \in Nat \ {0} /\ h \in Handles
  <2>1. h = slots[d][i].mr
    BY <1>a
  <2> QED
    BY <1>b, <1>2, <1>3, <2>1, SlotTypes, Zenon
<1>5. /\ Moves(c, d, NoMr, h) /\ CommOk(c)'
      /\ comm'[c].range = comm[c].range /\ comm[c].range \in Ranges
  <2>1. d = comm[c].dev /\ h \in Handles
    BY <1>a, <1>4
  <2> QED
    BY <1>b, <2>1, TakesRegion, Zenon
<1>6. CacheOk(d)
  BY <1>0, <1>2
<1>7. mrs[d][h] = RegionOf(slots[d][i])
  BY <1>a, <1>3, <1>6 DEF CacheOk, EntryOk
<1>8. RegistrationValid'
  <2>1. PagesOf(comm[c].range) \subseteq PagesOf(mrs[d][h])
    BY <1>3, <1>4, <1>5, <1>7, CoveredPages
  <2> QED
    BY <1>0, <1>1, <1>2, <1>4, <1>5, <2>1, RegTaken
<1>9. NoMr # h
  BY <1>4, Constants
<1>10. /\ Cardinality(MrHolders(d, h)) \in Nat
       /\ Cardinality(MrHolders(d, h)') = Cardinality(MrHolders(d, h)) + 1
       /\ \A k \in Handles : k # h => MrHolders(d, k)' = MrHolders(d, k)
       /\ \A e \in Devs : PdSame(e) /\ (e # d => RegsSame(e))
  BY <1>2, <1>5, <1>9, HoldersMove, Constants
<1> DEFINE x == [slots[d][i] EXCEPT !.refs = @ + 1]
<1>11. x \in Slot /\ x.addr = slots[d][i].addr /\ x.pages = slots[d][i].pages
       /\ x.refs = slots[d][i].refs + 1 /\ x.mr = h
  <2>1. ASSUME NEW y \in Slot, NEW z, z = [y EXCEPT !.refs = @ + 1]
        PROVE  z \in Slot /\ z.addr = y.addr /\ z.pages = y.pages /\ z.refs = y.refs + 1 /\ z.mr = y.mr
    BY <2>1 DEF Slot
  <2>2. slots[d][i] \in Slot /\ slots[d][i].mr = h
    BY <1>a, <1>4
  <2> QED
    BY <2>1, <2>2
<1>12. slots'[d] = [slots[d] EXCEPT ![i] = x] /\ \A e \in Devs : e # d => slots'[e] = slots[e]
  BY <1>0, <1>1, <1>2, <1>3, <1>4 DEF TypeOK
<1> HIDE DEF x
<1>13. /\ slots'[d] \in Seq(Slot) /\ Len(slots'[d]) = Len(slots[d]) /\ slots'[d][i] = x
       /\ \A j \in 1 .. Len(slots[d]) : j # i => slots'[d][j] = slots[d][j]
  BY <1>3, <1>4, <1>11, <1>12
<1>14. TypeOK'
  <2>1. slots' \in [Devs -> Seq(Slot)]
    BY <1>0, <1>1, <1>2, <1>12, <1>13 DEF TypeOK
  <2> QED
    BY <1>0, <1>1, <1>5, <2>1 DEF TypeOK, Moves
<1>15. CacheOk(d)'
  <2>a. SUFFICES ASSUME NEW t, t = slots'[d], NEW s, s = slots[d], NEW L, L = Len(slots[d])
               PROVE  CacheOk(d)'
    OBVIOUS
  <2>1. /\ L \in Nat /\ L <= capacity[d] /\ \A j \in 1 .. L : s[j] \in Slot /\ s[j].mr \in Handles
        /\ \A j, k \in 1 .. L : s[j].mr = s[k].mr => j = k
    BY <2>a, <1>0, <1>2, <1>6, SlotTypes DEF CacheOk
  <2>2. /\ Len(t) = L /\ t[i] = x /\ i \in 1 .. L /\ s[i].mr = h /\ x.mr = h
        /\ \A j \in 1 .. L : j # i => t[j] = s[j]
    BY <1>a, <2>a, <1>3, <1>11, <1>13
  <2>3. \A j \in 1 .. L : mrs[d][s[j].mr] = RegionOf(s[j])
                          /\ s[j].refs = Cardinality(MrHolders(d, s[j].mr)) + mrLeaks[d][s[j].mr]
    BY <2>a, <1>6 DEF CacheOk, EntryOk
  <2>4. \A k \in Handles : \/ \E j \in 1 .. L : s[j].mr = k
                           \/ /\ mrs[d][k] = NoRange \/ k \in orphans[d]
                              /\ mrLeaks[d][k] = 0 /\ MrHolders(d, k) = {}
    BY <2>a, <1>6 DEF CacheOk, HandleOk
  <2>5. mrLeaks[d][h] \in Nat
    BY <1>0, <1>2, <1>4 DEF TypeOK
  <2>6. RegionOf(x) = RegionOf(s[i]) /\ x.refs = s[i].refs + 1 /\ s[i].refs \in Nat
    BY <2>a, <1>4, <1>11 DEF RegionOf
  <2>7. \A j \in 1 .. L : t[j].mr = s[j].mr
    BY <2>2
  <2>8. \A j, k \in 1 .. L : t[j].mr = t[k].mr => j = k
    BY <2>1, <2>7
  <2>9. ASSUME NEW j \in 1 .. L PROVE EntryOk(d, j)'
    <3>1. CASE j = i
      <4>1. t[j] = x /\ x.mr = h /\ mrs[d][h] = RegionOf(x)
        BY <2>2, <2>3, <2>6, <3>1
      <4>2. s[i].refs = Cardinality(MrHolders(d, h)) + mrLeaks[d][h]
        BY <2>2, <2>3
      <4>3. x.refs = Cardinality(MrHolders(d, h)') + mrLeaks[d][h]
        <5>1. Cardinality(MrHolders(d, h)') = Cardinality(MrHolders(d, h)) + 1
          BY <1>10
        <5>2. Cardinality(MrHolders(d, h)) \in Nat
          BY <1>10
        <5>3. x.refs = s[i].refs + 1
          BY <2>6
        <5>4. x.refs = (Cardinality(MrHolders(d, h)) + mrLeaks[d][h]) + 1
          BY <4>2, <5>3
        <5> QED
          BY <2>5, <5>1, <5>2, <5>4
      <4> QED
        BY <2>a, <1>1, <4>1, <4>3 DEF EntryOk
    <3>2. CASE j # i
      <4>1. t[j] = s[j] /\ s[j].mr # h /\ s[j].mr \in Handles
        BY <2>1, <2>2, <3>2
      <4>2. MrHolders(d, s[j].mr)' = MrHolders(d, s[j].mr)
        BY <1>10, <4>1
      <4>3. mrs[d][s[j].mr] = RegionOf(s[j])
        BY <2>3
      <4>4. s[j].refs = Cardinality(MrHolders(d, s[j].mr)) + mrLeaks[d][s[j].mr]
        BY <2>3
      <4> QED
        BY <2>a, <1>1, <4>1, <4>2, <4>3, <4>4 DEF EntryOk
    <3> QED
      BY <3>1, <3>2
  <2>10. ASSUME NEW k \in Handles PROVE HandleOk(d, k)'
    <3>1. CASE \E j \in 1 .. L : s[j].mr = k
      BY <2>a, <2>2, <2>7, <3>1 DEF HandleOk
    <3>2. CASE ~\E j \in 1 .. L : s[j].mr = k
      <4>1. k # h /\ (mrs[d][k] = NoRange \/ k \in orphans[d]) /\ mrLeaks[d][k] = 0 /\ MrHolders(d, k) = {}
        BY <2>2, <2>4, <3>2
      <4> QED
        BY <1>1, <1>10, <4>1 DEF HandleOk
    <3> QED
      BY <3>1, <3>2
  <2>11. Len(slots'[d]) = L /\ L <= capacity'[d]
    BY <2>a, <1>1, <2>1, <2>2
  <2> QED
    BY <2>a, <2>8, <2>9, <2>10, <2>11 DEF CacheOk
<1>16. \A e \in Devs : PdOk(e)' /\ CacheOk(e)'
  BY <1>0, <1>1, <1>2, <1>10, <1>12, <1>15, PdFrame, CacheFrame
<1>17. \A b \in Comms : CommOk(b)'
  BY <1>0, <1>5, CommStep DEF Moves
<1>18. SideOk(d)'
  <2>1. \A j \in 1 .. Len(slots[d]) : slots'[d][j].mr = slots[d][j].mr
    BY <1>a, <1>3, <1>11, <1>13
  <2>2. SideOk(d)
    BY <1>0, <1>2
  <2>3. Len(slots'[d]) = Len(slots[d]) /\ UNCHANGED <<capacity, room, mrs, orphans, overrun>>
    BY <1>1, <1>13
  <2>4. OrphansOk(d)'
    BY <2>1, <2>2, <2>3 DEF SideOk, OrphansOk
  <2>5. RoomOk(d)'
    BY <2>2, <2>3 DEF SideOk, RoomOk
  <2> QED
    BY <2>4, <2>5 DEF SideOk
<1>19. \A e \in Devs : SideOk(e)'
  BY <1>0, <1>1, <1>12, <1>18, SideFrame
<1> QED
  BY <1>8, <1>14, <1>16, <1>17, <1>19 DEF DeviceInv, SideOk

LEMMA FreshIsFree ==
    ASSUME TypeOK, NEW d \in Devs, CacheOk(d), NEW h \in Handles, mrs[d][h] = NoRange
    PROVE  /\ \A j \in 1 .. Len(slots[d]) : slots[d][j].mr # h
           /\ mrLeaks[d][h] = 0 /\ MrHolders(d, h) = {}
<1>1. ASSUME NEW j \in 1 .. Len(slots[d]), slots[d][j].mr = h PROVE FALSE
  <2>1. mrs[d][h] = RegionOf(slots[d][j])
    BY <1>1 DEF CacheOk, EntryOk
  <2>2. slots[d][j].pages \in Nat \ {0}
    BY SlotTypes
  <2>3. RegionOf(slots[d][j]).pages = slots[d][j].pages /\ NoRange.pages = 0
    BY DEF RegionOf, NoRange
  <2> QED
    BY <2>1, <2>2, <2>3
<1>2. HandleOk(d, h)
  BY DEF CacheOk
<1> QED
  BY <1>1, <1>2 DEF HandleOk

LEMMA GrownFits ==
    ASSUME TypeOK, NEW d \in Devs, CacheOk(d), RoomOk(d)
    PROVE  /\ Grown(d) \in Nat /\ Len(slots[d]) + 1 <= Grown(d)
           /\ Room(d) \in Nat /\ Len(slots[d]) <= Room(d) /\ Room(d) <= Grown(d)
           /\ Len(slots[d]) >= Room(d) => room[d] < capacity[d]
<1>1. /\ Len(slots[d]) \in Nat /\ capacity[d] \in Nat /\ Len(slots[d]) <= capacity[d]
      /\ room[d] \in Nat /\ Len(slots[d]) <= room[d] /\ room[d] <= capacity[d]
  BY SlotTypes DEF TypeOK, CacheOk, RoomOk
<1>2. Grown(d) \in Nat /\ Len(slots[d]) + 1 <= Grown(d)
  BY <1>1, Constants DEF Grown
<1>3. CASE Len(slots[d]) < capacity[d]
  BY <1>1, <1>2, <1>3 DEF Room, Grown
<1>4. CASE ~(Len(slots[d]) < capacity[d])
  BY <1>1, <1>2, <1>4 DEF Room
<1> QED
  BY <1>2, <1>3, <1>4

NewSlot(range, h) == [addr |-> range.addr, pages |-> range.pages, refs |-> 1, mr |-> h]

LEMMA RegMissInv ==
    ASSUME DeviceInv, NEW c \in Comms, NEW h \in Handles, RegMiss(c, h), overrun = {}
    PROVE  DeviceInv'
<1>a. SUFFICES ASSUME NEW d, d = comm[c].dev, NEW range, range = comm[c].range,
                    NEW i, i = ScanStop(d, range),
                    NEW x, x = NewSlot(range, h),
                    NEW s, s = slots[d], NEW t, t = InsertAt(s, i, x), NEW L, L = Len(s)
             PROVE  DeviceInv'
  OBVIOUS
<1>0. TypeOK /\ RegistrationValid /\ CommOk(c) /\ (\A b \in Comms : CommOk(b))
      /\ \A e \in Devs : PdOk(e) /\ CacheOk(e) /\ SideOk(e)
  BY DEF DeviceInv, SideOk
<1>1. /\ comm[c].pc = "registering" /\ FreshHandle(d, h) /\ L < Room(d)
      /\ capacity' = [capacity EXCEPT ![d] = Grown(d)] /\ room' = [room EXCEPT ![d] = Room(d)]
      /\ mrs' = [mrs EXCEPT ![d][h] = range]
      /\ slots' = [slots EXCEPT ![d] = t]
      /\ comm' = [comm EXCEPT ![c] = [Advance(c, "holding") EXCEPT !.regs[d] = h]]
      /\ UNCHANGED <<pdVars, mrLeaks, orphans, overrun, failed>>
  BY <1>a DEF RegMiss, NewSlot
<1>2. /\ d \in Devs /\ Moves(c, d, NoMr, h) /\ CommOk(c)'
      /\ comm'[c].range = range /\ range \in Ranges
  BY <1>a, <1>0, <1>1, TakesRegion
<1>3. /\ s \in Seq(Slot) /\ L \in Nat /\ i \in 1 .. L + 1
      /\ \A j \in 1 .. L : s[j] \in Slot /\ s[j].mr \in Handles
  BY <1>a, <1>0, <1>2, SlotTypes, ScanStops
<1>4. range \in PageRange /\ range.addr \in Nat /\ range.pages \in Nat \ {0}
  BY <1>2, Constants
<1>5. x \in Slot /\ x.mr = h /\ x.refs = 1 /\ RegionOf(x) = range
  <2>1. range = [addr |-> range.addr, pages |-> range.pages]
    BY <1>4 DEF PageRange
  <2> QED
    BY <1>a, <1>4, <2>1 DEF Slot, RegionOf, NewSlot
<1>6. /\ t \in Seq(Slot) /\ Len(t) = L + 1 /\ t[i] = x
      /\ \A j \in 1 .. i - 1 : t[j] = s[j]
      /\ \A j \in i + 1 .. L + 1 : t[j] = s[j - 1]
  <2>1. s \in Seq(Slot) /\ x \in Slot /\ i \in 1 .. Len(s) + 1
    BY <1>a, <1>3, <1>5
  <2>2. IsInserted(t, s, i, x)
    BY <1>a, <2>1, Inserted
  <2> QED
    BY <1>a, <2>2 DEF IsInserted
<1>7. /\ CacheOk(d) /\ Grown(d) \in Nat /\ L + 1 <= Grown(d) /\ mrs[d][h] = NoRange
      /\ Room(d) \in Nat /\ Room(d) <= Grown(d)
      /\ \A j \in 1 .. L : s[j].mr # h
      /\ mrLeaks[d][h] = 0 /\ MrHolders(d, h) = {}
  <2>1. TypeOK /\ CacheOk(d) /\ RoomOk(d) /\ d \in Devs
    BY <1>0, <1>2 DEF SideOk
  <2>2. mrs[d][h] = NoRange
    BY <1>1 DEF FreshHandle
  <2>3. /\ \A j \in 1 .. Len(slots[d]) : slots[d][j].mr # h
        /\ mrLeaks[d][h] = 0 /\ MrHolders(d, h) = {}
    BY <2>1, <2>2, FreshIsFree, Zenon
  <2>4. Grown(d) \in Nat /\ Len(slots[d]) + 1 <= Grown(d) /\ Room(d) \in Nat /\ Room(d) <= Grown(d)
    BY <2>1, GrownFits, Zenon
  <2>5. s = slots[d] /\ L = Len(slots[d])
    BY <1>a
  <2> QED
    BY <2>1, <2>2, <2>3, <2>4, <2>5
<1>8. NoMr # h
  BY Constants
<1>9. /\ Cardinality(MrHolders(d, h)') = Cardinality(MrHolders(d, h)) + 1
      /\ \A k \in Handles : k # h => MrHolders(d, k)' = MrHolders(d, k)
      /\ \A e \in Devs : PdSame(e) /\ (e # d => RegsSame(e))
  BY <1>2, <1>8, HoldersMove, Constants
<1>10. /\ slots'[d] = t /\ capacity'[d] = Grown(d) /\ room'[d] = Room(d) /\ mrs'[d][h] = range
       /\ \A k \in Handles : k # h => mrs'[d][k] = mrs[d][k]
       /\ \A e \in Devs : e # d => slots'[e] = slots[e] /\ capacity'[e] = capacity[e] /\ mrs'[e] = mrs[e]
                                   /\ room'[e] = room[e]
  BY <1>0, <1>1, <1>2 DEF TypeOK
<1>11. TypeOK'
  <2>1. slots' \in [Devs -> Seq(Slot)] /\ capacity' \in [Devs -> Nat] /\ room' \in [Devs -> Nat]
    BY <1>0, <1>1, <1>2, <1>6, <1>7 DEF TypeOK
  <2>2. mrs' \in [Devs -> [Handles -> PageRange]]
    BY <1>0, <1>1, <1>2, <1>4 DEF TypeOK
  <2> QED
    BY <1>0, <1>1, <1>2, <2>1, <2>2 DEF TypeOK, Moves
<1>12. RegistrationValid'
  <2>1. ASSUME NEW b \in Comms, NEW e \in Devs, comm[b].regs[e] # NoMr
        PROVE  mrs'[e][comm[b].regs[e]] = mrs[e][comm[b].regs[e]]
    <3>1. e = d => comm[b].regs[e] # h
      BY <1>7 DEF MrHolders
    <3>2. comm[b].regs[e] \in Handles
      BY <1>0, <2>1, CommTypes
    <3> QED
      BY <1>10, <3>1, <3>2
  <2>2. PagesOf(range) \subseteq PagesOf(mrs'[d][h])
    BY <1>10
  <2> QED
    BY <1>a, <1>0, <1>2, <2>1, <2>2, RegTaken
<1> DEFINE old(j) == IF j < i THEN j ELSE j - 1
<1>13. ASSUME NEW j \in 1 .. L + 1, j # i
       PROVE  old(j) \in 1 .. L /\ t[j] = s[old(j)]
  <2>1. CASE j < i
    BY <1>3, <1>6, <2>1
  <2>2. CASE j > i
    <3>1. j \in i + 1 .. L + 1 /\ j - 1 \in 1 .. L /\ ~(j < i)
      BY <1>3, <2>2
    <3> QED
      BY <1>6, <3>1
  <2> QED
    BY <1>3, <1>13, <2>1, <2>2
<1>14. ASSUME NEW j \in 1 .. L + 1, NEW k \in 1 .. L + 1, t[j].mr = t[k].mr PROVE j = k
  <2>1. \A a, b \in 1 .. L : s[a].mr = s[b].mr => a = b
    <3>1. s = slots[d] /\ L = Len(slots[d])
      BY <1>a
    <3> QED
      BY <1>7, <3>1, Zenon DEF CacheOk
  <2>2. t[i].mr = h
    BY <1>5, <1>6
  <2>3. ASSUME NEW b \in 1 .. L + 1, b # i PROVE t[b].mr # h
    <3>1. old(b) \in 1 .. L /\ t[b] = s[old(b)]
      BY <1>13, <2>3
    <3> HIDE DEF old
    <3> QED
      BY <1>7, <3>1
  <2>4. CASE j # i /\ k # i
    <3>1. old(j) \in 1 .. L /\ t[j] = s[old(j)] /\ old(k) \in 1 .. L /\ t[k] = s[old(k)]
      BY <1>13, <2>4
    <3> HIDE DEF old
    <3>2. old(j) = old(k)
      BY <1>14, <2>1, <3>1
    <3> USE DEF old
    <3> QED
      BY <1>3, <2>4, <3>2
  <2> QED
    BY <1>14, <2>2, <2>3, <2>4
<1> HIDE DEF old
<1>15. ASSUME NEW j \in 1 .. L + 1 PROVE EntryOk(d, j)'
  <2>1. CASE j = i
    <3>1. slots'[d][j] = x /\ mrs'[d][x.mr] = RegionOf(x)
      BY <1>5, <1>6, <1>10, <2>1
    <3>2. Cardinality(MrHolders(d, h)') = 1
      <4>1. Cardinality(MrHolders(d, h)) = 0
        BY <1>7, FS_EmptySet
      <4> QED
        BY <1>9, <4>1
    <3>3. x.refs = Cardinality(MrHolders(d, h)') + mrLeaks'[d][h]
      BY <1>1, <1>5, <1>7, <3>2
    <3>4. x.mr = h
      BY <1>5
    <3> QED
      BY <3>1, <3>3, <3>4, Zenon DEF EntryOk
  <2>2. CASE j # i
    <3>1. PICK k \in 1 .. L : t[j] = s[k]
      <4>1. old(j) \in 1 .. L /\ t[j] = s[old(j)]
        BY <1>13, <2>2
      <4> QED
        BY <4>1
    <3>2. s[k].mr \in Handles /\ s[k].mr # h
      BY <1>3, <1>7
    <3>3. MrHolders(d, s[k].mr)' = MrHolders(d, s[k].mr) /\ mrs'[d][s[k].mr] = mrs[d][s[k].mr]
      BY <1>9, <1>10, <3>2
    <3>4. mrs[d][s[k].mr] = RegionOf(s[k]) /\ s[k].refs = Cardinality(MrHolders(d, s[k].mr)) + mrLeaks[d][s[k].mr]
      BY <1>a, <1>7 DEF CacheOk, EntryOk
    <3>5. slots'[d][j] = s[k] /\ mrLeaks' = mrLeaks
      BY <1>1, <1>10, <3>1
    <3> QED
      BY <3>3, <3>4, <3>5, Zenon DEF EntryOk
  <2> QED
    BY <2>1, <2>2
<1>16. ASSUME NEW k \in Handles PROVE HandleOk(d, k)'
  <2>1. CASE k = h
    BY <1>3, <1>5, <1>6, <1>10, <2>1 DEF HandleOk
  <2>2. CASE k # h /\ \E j \in 1 .. L : s[j].mr = k
    <3>1. PICK j \in 1 .. L : s[j].mr = k
      BY <2>2
    <3>2. j < i => t[j] = s[j]
      BY <1>3, <1>6
    <3>3. j >= i => j + 1 \in 1 .. L + 1 /\ t[j + 1] = s[j]
      BY <1>3, <1>6
    <3>4. \E a \in 1 .. L + 1 : t[a].mr = k
      BY <1>3, <3>1, <3>2, <3>3
    <3> QED
      BY <1>6, <1>10, <3>4 DEF HandleOk
  <2>3. CASE k # h /\ ~\E j \in 1 .. L : s[j].mr = k
    <3>1. (mrs[d][k] = NoRange \/ k \in orphans[d]) /\ mrLeaks[d][k] = 0 /\ MrHolders(d, k) = {}
      BY <1>a, <1>7, <2>3 DEF CacheOk, HandleOk
    <3> QED
      BY <1>1, <1>9, <1>10, <2>3, <3>1 DEF HandleOk
  <2> QED
    BY <2>1, <2>2, <2>3
<1>17. CacheOk(d)'
  <2>1. Len(slots'[d]) = L + 1 /\ L + 1 <= capacity'[d] /\ slots'[d] = t
    BY <1>6, <1>7, <1>10
  <2>2. \A j, k \in 1 .. L + 1 : slots'[d][j].mr = slots'[d][k].mr => j = k
    BY <1>14, <2>1
  <2>3. \A j \in 1 .. L + 1 : EntryOk(d, j)'
    BY <1>15
  <2>4. \A k \in Handles : HandleOk(d, k)'
    BY <1>16
  <2> QED
    BY <2>1, <2>2, <2>3, <2>4 DEF CacheOk
<1>18. \A e \in Devs : PdOk(e)' /\ CacheOk(e)'
  BY <1>0, <1>1, <1>9, <1>10, <1>17, PdFrame, CacheFrame
<1>19. \A b \in Comms : CommOk(b)'
  BY <1>0, <1>2, CommStep DEF Moves
<1>20. RoomOk(d)'
  BY <1>1, <1>3, <1>6, <1>7, <1>10 DEF RoomOk
<1>21. OrphansOk(d)'
  <2>1. OrphansOk(d) /\ orphans[d] \in SUBSET Handles
    BY <1>0, <1>2 DEF SideOk, TypeOK
  <2>2. SUFFICES ASSUME NEW k \in orphans[d] PROVE mrs'[d][k] # NoRange /\ \A j \in 1 .. L + 1 : t[j].mr # k
    BY <1>1, <1>6, <1>10 DEF OrphansOk
  <2>3. k \in Handles /\ mrs[d][k] # NoRange
    BY <2>1 DEF OrphansOk
  <2>4. \A j \in 1 .. L : s[j].mr # k
    BY <1>a, <2>1 DEF OrphansOk
  <2>5. k # h
    BY <1>7, <2>3
  <2>6. ASSUME NEW j \in 1 .. L + 1 PROVE t[j].mr # k
    <3>1. CASE j = i
      BY <1>5, <1>6, <2>5, <3>1
    <3>2. CASE j # i
      <4>1. old(j) \in 1 .. L /\ t[j] = s[old(j)]
        BY <1>13, <3>2
      <4> QED
        BY <2>4, <4>1
    <3> QED
      BY <3>1, <3>2
  <2> QED
    BY <1>10, <2>3, <2>5, <2>6
<1>22. \A e \in Devs : SideOk(e)'
  <2>1. SideOk(d)'
    BY <1>20, <1>21 DEF SideOk
  <2>2. ASSUME NEW e \in Devs, e # d PROVE SideOk(e)'
    BY <1>0, <1>1, <1>10, <2>2, SideFrame
  <2> QED
    BY <2>1, <2>2
<1> QED
  BY <1>11, <1>12, <1>18, <1>19, <1>22 DEF DeviceInv, SideOk

LEMMA RegOverrunInv ==
    ASSUME DeviceInv, NEW c \in Comms, RegOverrun(c), overrun = {}
    PROVE  DeviceInv'
<1> SUFFICES ASSUME NEW d, d = comm[c].dev PROVE DeviceInv'
  OBVIOUS
<1>0. TypeOK /\ RegistrationValid /\ CommOk(c) /\ (\A b \in Comms : CommOk(b))
      /\ \A e \in Devs : PdOk(e) /\ CacheOk(e) /\ SideOk(e)
  BY DEF DeviceInv, SideOk
<1>1. /\ Len(slots[d]) >= Room(d) /\ overrun' = overrun \cup {d}
      /\ UNCHANGED <<comm, pdVars, slots, capacity, room, mrs, mrLeaks, orphans, failed>>
  BY DEF RegOverrun
<1>2. d \in Devs
  BY <1>0, CommTypes
<1>3. TypeOK'
  BY <1>0, <1>1, <1>2 DEF TypeOK
<1>4. \A b \in Comms : CommOk(b)'
  BY <1>0, <1>1 DEF CommOk, HoldsPd, PdDue, MrDue
<1>5. \A e \in Devs : PdOk(e)' /\ CacheOk(e)'
  BY <1>0, <1>1, PdFrame, CacheFrame DEF PdSame, RegsSame
<1>6. RegistrationValid'
  BY <1>0, <1>1 DEF RegistrationValid
<1>7. room[d] < capacity[d]
  BY <1>0, <1>1, <1>2, GrownFits DEF SideOk
<1>8. \A e \in Devs : SideOk(e)'
  BY <1>0, <1>1, <1>7 DEF SideOk, OrphansOk, RoomOk
<1> QED
  BY <1>3, <1>4, <1>5, <1>6, <1>8 DEF DeviceInv, SideOk

Given(c) == [comm[c] EXCEPT !.pc = "open", !.dev = 0, !.range = NoRange, !.regs = [e \in Devs |-> NoMr]]

\* c loses its reference on e, if it has one there.
LEMMA LostOn ==
    ASSUME TypeOK, NEW c \in Comms, NEW e \in Devs, CacheOk(e), OthersSame(c), comm'[c].regs[e] = NoMr,
           NEW held, comm[c].regs[e] # NoMr <=> e \in held,
           mrLeaks'[e] = [h \in Handles |->
              IF e \in held /\ comm[c].regs[e] = h THEN mrLeaks[e][h] + 1 ELSE mrLeaks[e][h]],
           slots'[e] = slots[e], mrs'[e] = mrs[e], orphans'[e] = orphans[e], Len(slots[e]) <= capacity'[e]
    PROVE  mrLeaks'[e] \in [Handles -> Nat] /\ CacheOk(e)'
<1>3. ASSUME NEW k \in Handles
      PROVE  /\ mrLeaks[e][k] \in Nat /\ mrLeaks'[e][k] \in Nat
             /\ Cardinality(MrHolders(e, k)') + mrLeaks'[e][k] = Cardinality(MrHolders(e, k)) + mrLeaks[e][k]
             /\ MrHolders(e, k) = {} => MrHolders(e, k)' = {} /\ mrLeaks'[e][k] = mrLeaks[e][k]
  <2>1. mrLeaks[e][k] \in Nat
    BY DEF TypeOK
  <2>2. mrLeaks'[e][k] = IF e \in held /\ comm[c].regs[e] = k THEN mrLeaks[e][k] + 1 ELSE mrLeaks[e][k]
    OBVIOUS
  <2>3. k # NoMr
    BY Constants
  <2>4. mrLeaks'[e][k] = IF comm[c].regs[e] = k THEN mrLeaks[e][k] + 1 ELSE mrLeaks[e][k]
    BY <2>2, <2>3
  <2>5. MrHolders(e, k) \in SUBSET Comms /\ MrHolders(e, k)' \in SUBSET Comms
    BY DEF MrHolders
  <2>6. c \notin MrHolders(e, k)' /\ (c \in MrHolders(e, k) <=> comm[c].regs[e] = k)
    BY <2>3 DEF MrHolders
  <2>7. \A b \in Comms \ {c} : b \in MrHolders(e, k) <=> b \in MrHolders(e, k)'
    BY DEF MrHolders, OthersSame
  <2>8. /\ Cardinality(MrHolders(e, k)) \in Nat
        /\ c \notin MrHolders(e, k) => Cardinality(MrHolders(e, k)') = Cardinality(MrHolders(e, k))
        /\ c \in MrHolders(e, k) => Cardinality(MrHolders(e, k)') = Cardinality(MrHolders(e, k)) - 1
    BY <2>5, <2>6, <2>7, OneChanges
  <2>9. MrHolders(e, k) = {} => MrHolders(e, k)' = {}
    BY <2>5, <2>6, <2>7
  <2>10. CASE comm[c].regs[e] = k
    <3>1. Cardinality(MrHolders(e, k)') = Cardinality(MrHolders(e, k)) - 1 /\ mrLeaks'[e][k] = mrLeaks[e][k] + 1
          /\ MrHolders(e, k) # {}
      BY <2>4, <2>6, <2>8, <2>10
    <3>2. Cardinality(MrHolders(e, k)) \in Nat
      BY <2>8
    <3> QED
      BY <2>1, <3>1, <3>2
  <2>11. CASE comm[c].regs[e] # k
    <3>1. Cardinality(MrHolders(e, k)') = Cardinality(MrHolders(e, k)) /\ mrLeaks'[e][k] = mrLeaks[e][k]
      BY <2>4, <2>6, <2>8, <2>11
    <3> QED
      BY <2>1, <2>9, <3>1
  <2> QED
    BY <2>10, <2>11
<1>4. mrLeaks'[e] \in [Handles -> Nat]
  <2>1. mrLeaks'[e] = [h \in Handles |->
          IF e \in held /\ comm[c].regs[e] = h THEN mrLeaks[e][h] + 1 ELSE mrLeaks[e][h]]
    OBVIOUS
  <2>2. \A h \in Handles : mrLeaks'[e][h] \in Nat
    BY <1>3
  <2> QED
    BY <2>1, <2>2
<1>5. ASSUME NEW j \in 1 .. Len(slots[e]) PROVE EntryOk(e, j)'
  <2>1. PICK k \in Handles : k = slots[e][j].mr
    BY SlotTypes
  <2>2. mrs[e][k] = RegionOf(slots[e][j])
    BY <2>1 DEF CacheOk, EntryOk
  <2>3. slots[e][j].refs = Cardinality(MrHolders(e, k)) + mrLeaks[e][k]
    BY <2>1 DEF CacheOk, EntryOk
  <2>4. slots[e][j].refs = Cardinality(MrHolders(e, k)') + mrLeaks'[e][k]
    BY <1>3, <2>3
  <2>5. slots'[e] = slots[e] /\ mrs'[e] = mrs[e]
    OBVIOUS
  <2> QED
    BY <2>1, <2>2, <2>4, <2>5, Zenon DEF EntryOk
<1>6. ASSUME NEW k \in Handles PROVE HandleOk(e, k)'
  <2>1. HandleOk(e, k)
    BY DEF CacheOk
  <2> QED
    BY <1>3, <2>1 DEF HandleOk
<1>7. \A i, j \in 1 .. Len(slots[e]) : slots[e][i].mr = slots[e][j].mr => i = j
  BY DEF CacheOk
<1> QED
  BY <1>4, <1>5, <1>6, <1>7 DEF CacheOk

LEMMA GivenUp ==
    ASSUME TypeOK, NEW c \in Comms, CommOk(c), comm[c].pc \in Registering, NEW held, GiveUp(c, held)
    PROVE  /\ comm' \in [Comms -> Comm] /\ OthersSame(c) /\ CommOk(c)'
           /\ \A e \in Devs : /\ PdSame(e) /\ comm'[c].regs[e] = NoMr
                              /\ mrLeaks'[e] = [h \in Handles |->
                                    IF e \in held /\ comm[c].regs[e] = h THEN mrLeaks[e][h] + 1 ELSE mrLeaks[e][h]]
           /\ mrLeaks' = [e \in Devs |-> mrLeaks'[e]]
<1> SUFFICES ASSUME NEW n, n = Given(c)
             PROVE  /\ comm' \in [Comms -> Comm] /\ OthersSame(c) /\ CommOk(c)'
                    /\ \A e \in Devs : /\ PdSame(e) /\ comm'[c].regs[e] = NoMr
                                       /\ mrLeaks'[e] = [h \in Handles |->
                                             IF e \in held /\ comm[c].regs[e] = h THEN mrLeaks[e][h] + 1 ELSE mrLeaks[e][h]]
                    /\ mrLeaks' = [e \in Devs |-> mrLeaks'[e]]
  OBVIOUS
<1>1. /\ comm' = [comm EXCEPT ![c] = n]
      /\ mrLeaks' = [e \in Devs |-> [h \in Handles |->
            IF e \in held /\ comm[c].regs[e] = h THEN mrLeaks[e][h] + 1 ELSE mrLeaks[e][h]]]
  BY DEF GiveUp, Given
<1>2. /\ n \in Comm /\ n.pc = "open" /\ n.dev = 0 /\ n.range = NoRange /\ n.pds = comm[c].pds
      /\ \A e \in Devs : n.regs[e] = NoMr
  <2>1. comm[c] \in Comm /\ NoRange \in PageRange /\ 0 \in Devs
    BY CommTypes, Constants DEF PageRange, NoRange
  <2> QED
    BY <2>1 DEF Comm, Given
<1>3. comm' \in [Comms -> Comm] /\ comm'[c] = n /\ OthersSame(c)
  BY <1>1, <1>2, CommUpdate
<1>4. \A e \in Devs : HoldsPd(c, e)
  BY DEF CommOk, PdDue
<1>5. CommOk(c)'
  BY <1>2, <1>3, <1>4 DEF CommOk, HoldsPd, PdDue, MrDue, Registering
<1>6. \A e \in Devs : PdSame(e)
  BY <1>2, <1>3 DEF OthersSame, PdSame
<1>7. \A e \in Devs : comm'[c].regs[e] = NoMr
  BY <1>2, <1>3
<1>8. \A e \in Devs : mrLeaks'[e] = [h \in Handles |->
            IF e \in held /\ comm[c].regs[e] = h THEN mrLeaks[e][h] + 1 ELSE mrLeaks[e][h]]
  BY <1>1
<1>9. mrLeaks' = [e \in Devs |-> mrLeaks'[e]]
  BY <1>1
<1> QED
  BY <1>3, <1>5, <1>6, <1>7, <1>8, <1>9

\* A failed registration: the cache keeps its entries and has at least the memory for them.
LEMMA NotRegistered ==
    ASSUME DeviceInv, NEW c \in Comms, comm[c].pc = "registering", NEW d, d = comm[c].dev,
           GiveUp(c, 0 .. d - 1), failed' = failed + 1, overrun = {},
           capacity' \in [Devs -> Nat], room' \in [Devs -> Nat],
           \A e \in Devs : Len(slots[e]) <= room'[e] /\ room'[e] <= capacity'[e],
           UNCHANGED <<pdVars, slots, mrs, orphans, overrun>>
    PROVE  DeviceInv'
<1>0. TypeOK /\ RegistrationValid /\ CommOk(c) /\ (\A b \in Comms : CommOk(b))
      /\ \A e \in Devs : PdOk(e) /\ CacheOk(e) /\ SideOk(e)
  BY DEF DeviceInv, SideOk
<1>1. PICK held : held = 0 .. d - 1
  OBVIOUS
<1>2. /\ comm' \in [Comms -> Comm] /\ OthersSame(c) /\ CommOk(c)'
      /\ \A e \in Devs : /\ PdSame(e) /\ comm'[c].regs[e] = NoMr
                         /\ mrLeaks'[e] = [h \in Handles |->
                               IF e \in held /\ comm[c].regs[e] = h THEN mrLeaks[e][h] + 1 ELSE mrLeaks[e][h]]
      /\ mrLeaks' = [e \in Devs |-> mrLeaks'[e]]
  <2>1. GiveUp(c, held) /\ comm[c].pc \in Registering
    BY <1>1 DEF Registering
  <2> QED
    BY <1>0, <2>1, GivenUp
<1>3. \A e \in Devs : comm[c].regs[e] # NoMr <=> e \in held
  <2>1. d \in Nat /\ \A e \in Devs : e \in Nat
    BY <1>0, CommTypes, Constants
  <2>2. \A e \in Devs : comm[c].regs[e] # NoMr <=> e < d
    BY <1>0 DEF CommOk, MrDue
  <2> QED
    BY <1>1, <2>1, <2>2
<1>4. RegistrationValid'
  BY <1>0, <1>2, RegFrame
<1>5. ASSUME NEW e \in Devs PROVE mrLeaks'[e] \in [Handles -> Nat] /\ CacheOk(e)'
  <2>1. Len(slots[e]) <= capacity'[e]
    <3>1. Len(slots[e]) \in Nat /\ capacity'[e] \in Nat /\ room'[e] \in Nat
      BY <1>0, SlotTypes
    <3> QED
      BY <3>1
  <2>2. CacheOk(e) /\ (comm[c].regs[e] # NoMr <=> e \in held) /\ comm'[c].regs[e] = NoMr
    BY <1>0, <1>2, <1>3
  <2>3. mrLeaks'[e] = [h \in Handles |->
                               IF e \in held /\ comm[c].regs[e] = h THEN mrLeaks[e][h] + 1 ELSE mrLeaks[e][h]]
    BY <1>2
  <2> QED
    BY <1>0, <1>2, <2>1, <2>2, <2>3, LostOn
<1>6. TypeOK'
  <2>1. mrLeaks' \in [Devs -> [Handles -> Nat]]
    BY <1>2, <1>5
  <2>2. failed' \in Nat
    BY <1>0 DEF TypeOK
  <2> QED
    BY <1>0, <1>2, <2>1, <2>2 DEF TypeOK
<1>7. \A e \in Devs : PdOk(e)'
  BY <1>0, <1>2, PdFrame
<1>8. \A b \in Comms : CommOk(b)'
  BY <1>0, <1>2, CommStep
<1>9. \A e \in Devs : SideOk(e)'
  BY <1>0 DEF SideOk, OrphansOk, RoomOk
<1> QED
  BY <1>4, <1>5, <1>6, <1>7, <1>8, <1>9 DEF DeviceInv, SideOk

LEMMA RegFailsInv ==
    ASSUME DeviceInv, NEW c \in Comms, RegFails(c), overrun = {}
    PROVE  DeviceInv'
<1> SUFFICES ASSUME NEW d, d = comm[c].dev PROVE DeviceInv'
  OBVIOUS
<1>0. TypeOK /\ \A e \in Devs : CacheOk(e) /\ RoomOk(e)
  BY DEF DeviceInv
<1>1. /\ comm[c].pc = "registering" /\ failed' = failed + 1 /\ GiveUp(c, 0 .. d - 1)
      /\ capacity' = [capacity EXCEPT ![d] = Grown(d)] /\ room' = [room EXCEPT ![d] = Room(d)]
      /\ UNCHANGED <<pdVars, slots, mrs, orphans, overrun>>
  BY DEF RegFails, Fails
<1>2. d \in Devs
  BY <1>0, CommTypes
<1>3. Grown(d) \in Nat /\ Room(d) \in Nat /\ Len(slots[d]) <= Room(d) /\ Room(d) <= Grown(d)
  BY <1>0, <1>2, GrownFits
<1>4. capacity' \in [Devs -> Nat] /\ room' \in [Devs -> Nat]
  BY <1>0, <1>1, <1>2, <1>3 DEF TypeOK
<1>5. \A e \in Devs : Len(slots[e]) <= room'[e] /\ room'[e] <= capacity'[e]
  BY <1>0, <1>1, <1>2, <1>3 DEF TypeOK, RoomOk
<1> QED
  BY <1>1, <1>4, <1>5, NotRegistered

LEMMA ReallocFailsInv ==
    ASSUME DeviceInv, NEW c \in Comms, ReallocFails(c), overrun = {}
    PROVE  DeviceInv'
<1> SUFFICES ASSUME NEW d, d = comm[c].dev PROVE DeviceInv'
  OBVIOUS
<1>0. TypeOK /\ \A e \in Devs : CacheOk(e) /\ RoomOk(e)
  BY DEF DeviceInv
<1>1. /\ comm[c].pc = "registering" /\ failed' = failed + 1 /\ GiveUp(c, 0 .. d - 1)
      /\ capacity' = [capacity EXCEPT ![d] = Grown(d)] /\ Len(slots[d]) = capacity[d]
      /\ UNCHANGED <<pdVars, slots, room, mrs, orphans, overrun>>
  BY DEF ReallocFails, Fails
<1>2. d \in Devs /\ capacity[d] \in Nat /\ room[d] \in Nat
  BY <1>0, CommTypes DEF TypeOK
<1>3. Grown(d) \in Nat /\ Len(slots[d]) + 1 <= Grown(d)
  BY <1>0, <1>2, GrownFits
<1>4. room[d] <= Grown(d)
  BY <1>0, <1>1, <1>2, <1>3 DEF RoomOk
<1>5. capacity' \in [Devs -> Nat] /\ room' \in [Devs -> Nat]
  BY <1>0, <1>1, <1>2, <1>3 DEF TypeOK
<1>6. \A e \in Devs : Len(slots[e]) <= room'[e] /\ room'[e] <= capacity'[e]
  BY <1>0, <1>1, <1>2, <1>4 DEF TypeOK, RoomOk
<1>7. UNCHANGED <<pdVars, slots, mrs, orphans, overrun>>
  BY <1>1
<1> QED
  BY <1>1, <1>5, <1>6, <1>7, NotRegistered

LEMMA GivesRegion ==
    ASSUME TypeOK, NEW c \in Comms, CommOk(c), comm[c].pc = "deregistering", NEW d, d = comm[c].dev,
           NEW h, h = comm[c].regs[d], NEW rest, rest = [Advance(c, "open") EXCEPT !.regs[d] = NoMr],
           comm' = [comm EXCEPT ![c] = IF rest.pc = "open" THEN [rest EXCEPT !.range = NoRange] ELSE rest]
    PROVE  /\ d \in Devs /\ h \in Handles /\ Moves(c, d, h, NoMr) /\ CommOk(c)'
           /\ \A e \in Devs : comm'[c].regs[e] # NoMr => comm'[c].range = comm[c].range
<1> SUFFICES ASSUME NEW m, m = Advance(c, "open"), rest = [m EXCEPT !.regs[d] = NoMr],
                    NEW n, n = (IF rest.pc = "open" THEN [rest EXCEPT !.range = NoRange] ELSE rest),
                    comm' = [comm EXCEPT ![c] = n]
             PROVE  /\ d \in Devs /\ h \in Handles /\ Moves(c, d, h, NoMr) /\ CommOk(c)'
                    /\ \A e \in Devs : comm'[c].regs[e] # NoMr => comm'[c].range = comm[c].range
  OBVIOUS
<1>1. d \in Devs /\ d \in Nat
  BY CommTypes, Constants
<1>2. /\ m \in Comm /\ m.pc = (IF AtLastDev(c) THEN "open" ELSE "deregistering")
      /\ m.dev = (IF AtLastDev(c) THEN 0 ELSE d + 1)
      /\ m.pds = comm[c].pds /\ m.range = comm[c].range /\ m.regs = comm[c].regs
  BY AdvanceFields
<1>3. /\ rest \in Comm /\ rest.pc = m.pc /\ rest.dev = m.dev /\ rest.range = m.range /\ rest.pds = m.pds
      /\ rest.regs = [comm[c].regs EXCEPT ![d] = NoMr]
  BY <1>1, <1>2 DEF Comm
<1>4. /\ n \in Comm /\ n.pc = m.pc /\ n.dev = m.dev /\ n.pds = m.pds /\ n.regs = rest.regs
      /\ m.pc # "open" => n.range = m.range
  <2>1. CASE rest.pc = "open"
    <3>1. n = [rest EXCEPT !.range = NoRange] /\ NoRange \in PageRange
      BY <2>1 DEF NoRange, PageRange
    <3> QED
      BY <1>3, <2>1, <3>1 DEF Comm
  <2>2. CASE rest.pc # "open"
    <3>1. n = rest
      BY <2>2
    <3> QED
      BY <1>3, <3>1
  <2> QED
    BY <2>1, <2>2
<1>5. n.regs[d] = NoMr /\ \A e \in Devs : e # d => n.regs[e] = comm[c].regs[e]
  <2>1. n.regs = [comm[c].regs EXCEPT ![d] = NoMr]
    BY <1>3, <1>4
  <2>2. comm[c].regs \in [Devs -> Handles \cup {NoMr}]
    BY CommTypes
  <2> QED
    BY <1>1, <2>1, <2>2
<1>6. comm' \in [Comms -> Comm] /\ comm'[c] = n /\ OthersSame(c)
  <2>1. n \in Comm /\ comm' = [comm EXCEPT ![c] = n]
    BY <1>4
  <2> QED
    BY <2>1, CommUpdate, Zenon
<1>7. \A e \in Devs : HoldsPd(c, e) /\ (comm[c].regs[e] # NoMr <=> e >= d)
  BY DEF CommOk, PdDue, MrDue, Registering
<1>8. h # NoMr /\ h \in Handles
  BY <1>1, <1>7, CommTypes
<1>9. \A e \in Devs : comm'[c].pds[e] = comm[c].pds[e] /\ (e # d => comm'[c].regs[e] = comm[c].regs[e])
  BY <1>2, <1>4, <1>5, <1>6
<1>10. Moves(c, d, h, NoMr)
  BY <1>5, <1>6, <1>9 DEF Moves
<1>11. comm[c].range \in Ranges
  BY DEF CommOk, Registering
<1>12. \A e \in Devs : HoldsPd(c, e)' /\ (comm'[c].regs[e] # NoMr <=> e > d)
  BY <1>1, <1>5, <1>6, <1>7, <1>9, Constants DEF HoldsPd
<1>13. CommOk(c)'
  <2>1. CASE AtLastDev(c)
    BY <1>1, <1>2, <1>4, <1>6, <1>12, <2>1, Constants DEF CommOk, PdDue, MrDue, Registering, AtLastDev
  <2>2. CASE ~AtLastDev(c)
    <3>1. /\ comm'[c].pc = "deregistering" /\ comm'[c].dev = d + 1 /\ comm'[c].range \in Ranges
          /\ \A e \in Devs : HoldsPd(c, e)' /\ (comm'[c].regs[e] # NoMr <=> e >= d + 1)
      BY <1>1, <1>2, <1>4, <1>6, <1>11, <1>12, <2>2, Constants DEF CommOk, Registering, AtLastDev
    <3> QED
      BY <3>1 DEF CommOk, PdDue, MrDue, Registering
  <2> QED
    BY <2>1, <2>2
<1>14. ASSUME NEW e \in Devs, comm'[c].regs[e] # NoMr PROVE comm'[c].range = comm[c].range
  <2>1. ~AtLastDev(c)
    BY <1>1, <1>12, <1>14, Constants DEF AtLastDev
  <2> QED
    BY <1>2, <1>4, <1>6, <2>1
<1> QED
  BY <1>1, <1>8, <1>10, <1>13, <1>14

\* c let go of its registration on d; whoever else holds one sees its region unchanged.
LEMMA RegGiven ==
    ASSUME RegistrationValid, NEW c \in Comms, NEW d \in Devs, NEW h, Moves(c, d, h, NoMr),
           \A e \in Devs : comm'[c].regs[e] # NoMr => comm'[c].range = comm[c].range,
           \A b \in Comms, e \in Devs : comm'[b].regs[e] # NoMr =>
               mrs'[e][comm[b].regs[e]] = mrs[e][comm[b].regs[e]]
    PROVE  RegistrationValid'
<1> SUFFICES ASSUME NEW b \in Comms, NEW e \in Devs, comm'[b].regs[e] # NoMr
             PROVE  PagesOf(comm'[b].range) \subseteq PagesOf(mrs'[e][comm'[b].regs[e]])
  BY DEF RegistrationValid, PagesOf
<1>1. comm'[b].regs[e] = comm[b].regs[e] /\ comm'[b].range = comm[b].range
  BY DEF Moves, OthersSame
<1>2. PagesOf(comm[b].range) \subseteq PagesOf(mrs[e][comm[b].regs[e]])
  BY <1>1 DEF RegistrationValid
<1> QED
  BY <1>1, <1>2

\* What a release on d leaves to show: the cache of d and the regions still held.
LEMMA ReleaseInv ==
    ASSUME DeviceInv, NEW c \in Comms, NEW d \in Devs, NEW h \in Handles, Moves(c, d, h, NoMr), CommOk(c)',
           \A e \in Devs : comm'[c].regs[e] # NoMr => comm'[c].range = comm[c].range,
           UNCHANGED <<pdVars, mrLeaks, orphans, overrun, failed>>,
           slots' \in [Devs -> Seq(Slot)], capacity' \in [Devs -> Nat], room' \in [Devs -> Nat],
           mrs' \in [Devs -> [Handles -> PageRange]],
           \A e \in Devs : e # d => slots'[e] = slots[e] /\ capacity'[e] = capacity[e] /\ mrs'[e] = mrs[e]
                                  /\ room'[e] = room[e],
           \A b \in Comms : comm'[b].regs[d] # NoMr => mrs'[d][comm[b].regs[d]] = mrs[d][comm[b].regs[d]],
           CacheOk(d)', SideOk(d)'
    PROVE  DeviceInv'
<1>0. TypeOK /\ RegistrationValid /\ CommOk(c) /\ (\A b \in Comms : CommOk(b))
      /\ \A e \in Devs : PdOk(e) /\ CacheOk(e) /\ SideOk(e)
  BY DEF DeviceInv, SideOk
<1>1. TypeOK'
  BY <1>0 DEF TypeOK, Moves
<1>2. NoMr # h
  BY Constants
<1>3. \A e \in Devs : PdSame(e) /\ (e # d => RegsSame(e))
  BY <1>2, HoldersMove
<1>4. RegistrationValid'
  <2>1. ASSUME NEW b \in Comms, NEW e \in Devs, comm'[b].regs[e] # NoMr
        PROVE  mrs'[e][comm[b].regs[e]] = mrs[e][comm[b].regs[e]]
    BY <2>1
  <2> QED
    BY <1>0, <2>1, RegGiven
<1>5. \A e \in Devs : PdOk(e)' /\ CacheOk(e)'
  BY <1>0, <1>3, PdFrame, CacheFrame
<1>6. \A b \in Comms : CommOk(b)'
  BY <1>0, CommStep DEF Moves
<1>7. \A e \in Devs : SideOk(e)'
  BY <1>0, SideFrame
<1> QED
  BY <1>1, <1>4, <1>5, <1>6, <1>7 DEF DeviceInv, SideOk

\* The entry of a region that c still shares with others.
LEMMA SharedReleased ==
    ASSUME DeviceInv, NEW c \in Comms, NEW d \in Devs, NEW h \in Handles, Moves(c, d, h, NoMr), CommOk(c)',
           \A e \in Devs : comm'[c].regs[e] # NoMr => comm'[c].range = comm[c].range,
           UNCHANGED <<pdVars, capacity, room, mrs, mrLeaks, orphans, overrun, failed>>,
           NEW i \in 1 .. Len(slots[d]), slots[d][i].mr = h, slots[d][i].refs # 1,
           slots' = [slots EXCEPT ![d][i].refs = @ - 1]
    PROVE  DeviceInv'
<1> SUFFICES ASSUME NEW s, s = slots[d], NEW L, L = Len(slots[d]), NEW y, y = s[i],
                    NEW x, x = [y EXCEPT !.refs = @ - 1]
             PROVE  DeviceInv'
  OBVIOUS
<1>0. TypeOK /\ CacheOk(d) /\ SideOk(d)
  BY DEF DeviceInv, SideOk
<1>1. /\ s \in Seq(Slot) /\ L \in Nat /\ i \in 1 .. L /\ y \in Slot /\ y.refs \in Nat /\ y.refs - 1 \in Nat \ {0}
      /\ y.mr = h /\ \A j \in 1 .. L : s[j] \in Slot /\ s[j].mr \in Handles
  BY <1>0, SlotTypes
<1>2. /\ x \in Slot /\ x.refs = y.refs - 1 /\ x.mr = y.mr /\ RegionOf(x) = RegionOf(y)
  BY <1>1 DEF Slot, RegionOf
<1>3. slots'[d] = [s EXCEPT ![i] = x] /\ \A e \in Devs : e # d => slots'[e] = slots[e]
  BY <1>0, <1>1 DEF TypeOK
<1>4. PICK t : t = slots'[d]
  OBVIOUS
<1>5. /\ t \in Seq(Slot) /\ Len(t) = L /\ t[i] = x /\ \A j \in 1 .. L : j # i => t[j] = s[j]
  BY <1>1, <1>2, <1>3, <1>4
<1>6. slots' \in [Devs -> Seq(Slot)]
  BY <1>0, <1>3, <1>4, <1>5 DEF TypeOK
<1>7. NoMr # h
  BY Constants
<1>8. /\ Cardinality(MrHolders(d, h)) \in Nat
      /\ Cardinality(MrHolders(d, h)') = Cardinality(MrHolders(d, h)) - 1
      /\ \A k \in Handles : k # h => MrHolders(d, k)' = MrHolders(d, k)
  BY <1>7, HoldersMove, Constants
<1>9. \A j, k \in 1 .. L : s[j].mr = s[k].mr => j = k
  BY <1>0 DEF CacheOk
<1>10. \A j \in 1 .. L : t[j].mr = s[j].mr
  BY <1>1, <1>2, <1>5
<1>11. ASSUME NEW j \in 1 .. L PROVE EntryOk(d, j)'
  <2>1. mrs[d][s[j].mr] = RegionOf(s[j])
    BY <1>0 DEF CacheOk, EntryOk
  <2>2. s[j].refs = Cardinality(MrHolders(d, s[j].mr)) + mrLeaks[d][s[j].mr]
    BY <1>0 DEF CacheOk, EntryOk
  <2>3. CASE j = i
    <3>0. mrLeaks[d][h] \in Nat
      BY <1>0 DEF TypeOK
    <3>1. y.refs = Cardinality(MrHolders(d, h)) + mrLeaks[d][h]
      <4>1. s[j] = y /\ s[j].mr = h
        BY <1>1, <2>3
      <4> QED
        BY <2>2, <4>1, Zenon
    <3>2. Cardinality(MrHolders(d, h)) \in Nat /\ x.refs = y.refs - 1
      BY <1>2, <1>8
    <3>3. Cardinality(MrHolders(d, h)') = Cardinality(MrHolders(d, h)) - 1
      BY <1>8
    <3>4. x.refs = Cardinality(MrHolders(d, h)') + mrLeaks[d][h]
      <4>1. PICK a \in Nat, b \in Nat : a = Cardinality(MrHolders(d, h)) /\ b = mrLeaks[d][h]
        BY <3>0, <3>2, Zenon
      <4>2. y.refs = a + b /\ Cardinality(MrHolders(d, h)') = a - 1
        BY <3>1, <3>3, <4>1, Zenon
      <4>3. (a + b) - 1 = (a - 1) + b
        OBVIOUS
      <4>4. x.refs = (a + b) - 1
        BY <3>2, <4>2, Zenon
      <4> QED
        BY <4>1, <4>2, <4>3, <4>4, Zenon
    <3>5. mrs[d][h] = RegionOf(x) /\ x.mr = h /\ slots'[d][j] = x
      BY <1>1, <1>2, <1>4, <1>5, <2>1, <2>3
    <3> QED
      BY <3>4, <3>5, Zenon DEF EntryOk
  <2>4. CASE j # i
    <3>1. s[j].mr # h /\ s[j].mr \in Handles
      BY <1>1, <1>9, <2>4
    <3>2. MrHolders(d, s[j].mr)' = MrHolders(d, s[j].mr) /\ slots'[d][j] = s[j]
      BY <1>4, <1>5, <1>8, <2>4, <3>1
    <3> QED
      BY <2>1, <2>2, <3>2, Zenon DEF EntryOk
  <2> QED
    BY <2>3, <2>4
<1>12. ASSUME NEW k \in Handles PROVE HandleOk(d, k)'
  <2>1. HandleOk(d, k)
    BY <1>0 DEF CacheOk
  <2>2. CASE \E j \in 1 .. L : s[j].mr = k
    <3>1. \E j \in 1 .. L : t[j].mr = k
      BY <1>10, <2>2
    <3> QED
      BY <1>4, <1>5, <3>1 DEF HandleOk
  <2>3. CASE ~\E j \in 1 .. L : s[j].mr = k
    <3>1. k # h /\ (mrs[d][k] = NoRange \/ k \in orphans[d]) /\ mrLeaks[d][k] = 0 /\ MrHolders(d, k) = {}
      BY <1>1, <2>1, <2>3 DEF HandleOk
    <3>2. MrHolders(d, k)' = {}
      BY <1>8, <3>1
    <3> QED
      BY <3>1, <3>2 DEF HandleOk
  <2> QED
    BY <2>2, <2>3
<1>13. CacheOk(d)'
  <2>1. Len(slots'[d]) = L /\ L <= capacity'[d] /\ slots'[d] = t
    BY <1>0, <1>4, <1>5 DEF CacheOk
  <2>2. \A j, k \in 1 .. L : slots'[d][j].mr = slots'[d][k].mr => j = k
    BY <1>9, <1>10, <2>1
  <2>3. \A j \in 1 .. L : EntryOk(d, j)'
    BY <1>11
  <2>4. \A k \in Handles : HandleOk(d, k)'
    BY <1>12
  <2> QED
    BY <2>1, <2>2, <2>3, <2>4 DEF CacheOk
<1>14. SideOk(d)'
  BY <1>0, <1>4, <1>5, <1>10 DEF SideOk, OrphansOk, RoomOk
<1>15. /\ capacity' \in [Devs -> Nat] /\ room' \in [Devs -> Nat] /\ mrs' \in [Devs -> [Handles -> PageRange]]
  BY <1>0 DEF TypeOK
<1> QED
  BY <1>3, <1>6, <1>13, <1>14, <1>15, ReleaseInv

\* The entry of a region whose last holder is c goes, and the region with it or,
\* when that failed, to the ones the cache has lost.
Gone(c, d, h, i) ==
    /\ OthersSame(c) /\ comm[c].regs[d] = h /\ comm'[c].regs[d] = NoMr
    /\ slots[d][i].mr = h /\ slots[d][i].refs = 1
    /\ slots'[d] = RemoveSlot(slots[d], i) /\ overrun' = overrun /\ mrLeaks'[d] = mrLeaks[d]
    /\ capacity'[d] = (IF Len(slots[d]) = 1 THEN 0 ELSE capacity[d])
    /\ room'[d] = (IF Len(slots[d]) = 1 THEN 0 ELSE room[d])
    /\ \A k \in Handles : k # h => mrs'[d][k] = mrs[d][k]
    /\ \/ mrs'[d][h] = NoRange /\ orphans'[d] = orphans[d]
       \/ mrs'[d][h] = mrs[d][h] /\ orphans'[d] = orphans[d] \cup {h}

\* What is left when an entry is removed: the other ones, each once.
IsRemoved(s, t, i) ==
    /\ t \in Seq(Slot) /\ Len(t) = Len(s) - 1
    /\ \A j \in 1 .. Len(s) - 1 : \E a \in 1 .. Len(s) : a # i /\ t[j] = s[a]
    /\ \A a \in 1 .. Len(s) : a # i => \E j \in 1 .. Len(s) - 1 : t[j] = s[a]
    /\ \A j, k \in 1 .. Len(s) - 1 : t[j].mr = t[k].mr => j = k

LEMMA RemovedEntries ==
    ASSUME NEW s \in Seq(Slot), NEW i \in 1 .. Len(s), NEW t, t = RemoveSlot(s, i),
           \A j, k \in 1 .. Len(s) : s[j].mr = s[k].mr => j = k
    PROVE  IsRemoved(s, t, i)
<1> DEFINE L == Len(s)
           old(j) == IF j = i THEN L ELSE j
<1>1. L \in Nat /\ i \in 1 .. L
  OBVIOUS
<1>2. t \in Seq(Slot) /\ Len(t) = L - 1 /\ \A j \in 1 .. L - 1 : t[j] = IF j = i THEN s[L] ELSE s[j]
  <2>1. IsShorter(s, t, i)
    BY Removed
  <2> QED
    BY <2>1 DEF IsShorter
<1>3. \A j, k \in 1 .. L : s[j].mr = s[k].mr => j = k
  OBVIOUS
<1> HIDE DEF L
<1>4. ASSUME NEW j \in 1 .. L - 1
      PROVE  old(j) \in 1 .. L /\ old(j) # i /\ j \in 1 .. L /\ t[j] = s[old(j)]
  BY <1>1, <1>2
<1>5. ASSUME NEW j \in 1 .. L - 1, NEW k \in 1 .. L - 1, old(j) = old(k) PROVE j = k
  BY <1>1, <1>5
<1>6. ASSUME NEW a \in 1 .. L, a # i PROVE \E j \in 1 .. L - 1 : t[j] = s[a]
  <2>1. CASE a = L
    <3>1. i \in 1 .. L - 1 /\ old(i) = L
      BY <1>1, <1>6, <2>1
    <3> QED
      BY <1>4, <2>1, <3>1
  <2>2. CASE a # L
    <3>1. a \in 1 .. L - 1 /\ old(a) = a
      BY <1>1, <1>6, <2>2
    <3> QED
      BY <1>4, <3>1
  <2> QED
    BY <2>1, <2>2
<1> HIDE DEF old
<1>7. \A j \in 1 .. L - 1 : \E a \in 1 .. L : a # i /\ t[j] = s[a]
  BY <1>4
<1>8. ASSUME NEW j \in 1 .. L - 1, NEW k \in 1 .. L - 1, t[j].mr = t[k].mr PROVE j = k
  <2>1. old(j) \in 1 .. L /\ t[j] = s[old(j)] /\ old(k) \in 1 .. L /\ t[k] = s[old(k)]
    BY <1>4
  <2>2. old(j) = old(k)
    BY <1>3, <1>8, <2>1
  <2> QED
    BY <1>5, <2>2
<1>9. \A a \in 1 .. L : a # i => \E j \in 1 .. L - 1 : t[j] = s[a]
  BY <1>6
<1>10. \A j, k \in 1 .. L - 1 : t[j].mr = t[k].mr => j = k
  BY <1>8
<1> QED
  BY <1>2, <1>7, <1>9, <1>10, Zenon DEF IsRemoved, L

\* c was the only holder of the region, and no one has it afterwards.
LEMMA LastHolder ==
    ASSUME TypeOK, NEW c \in Comms, NEW d \in Devs, NEW h \in Handles, CacheOk(d),
           NEW i \in 1 .. Len(slots[d]), Gone(c, d, h, i)
    PROVE  /\ MrHolders(d, h) = {c} /\ MrHolders(d, h)' = {} /\ mrLeaks[d][h] = 0
           /\ \A k \in Handles : k # h => MrHolders(d, k)' = MrHolders(d, k)
<1>1. NoMr # h /\ NoMr \notin Handles
  BY Constants
<1>2. OthersSame(c) /\ comm[c].regs[d] = h /\ comm'[c].regs[d] = NoMr /\ slots[d][i].mr = h /\ slots[d][i].refs = 1
  BY DEF Gone
<1>3. /\ Cardinality(MrHolders(d, h)) \in Nat
      /\ Cardinality(MrHolders(d, h)) = 1 => MrHolders(d, h) = {c} /\ MrHolders(d, h)' = {}
      /\ \A k : k # h /\ k # NoMr => MrHolders(d, k)' = MrHolders(d, k)
  <2>1. MovesOn(c, d, h, NoMr)
    BY <1>1, <1>2 DEF MovesOn
  <2> QED
    BY <2>1, HoldersMoveOn
<1>4. Cardinality(MrHolders(d, h)) # 0
  <2>1. MrHolders(d, h) \in SUBSET Comms /\ c \in MrHolders(d, h)
    BY <1>2 DEF MrHolders
  <2> QED
    BY <2>1, OneChanges
<1>5. EntryOk(d, i)
  BY DEF CacheOk
<1>6. 1 = Cardinality(MrHolders(d, h)) + mrLeaks[d][h]
  BY <1>2, <1>5 DEF EntryOk
<1>7. mrLeaks[d][h] \in Nat
  BY DEF TypeOK
<1>8. Cardinality(MrHolders(d, h)) = 1 /\ mrLeaks[d][h] = 0
  BY <1>3, <1>4, <1>6, <1>7
<1> QED
  BY <1>1, <1>3, <1>8

LEMMA EntryRemoved ==
    ASSUME TypeOK, NEW c \in Comms, NEW d \in Devs, NEW h \in Handles, CacheOk(d), SideOk(d), overrun = {},
           NEW i \in 1 .. Len(slots[d]), Gone(c, d, h, i)
    PROVE  /\ CacheOk(d)' /\ SideOk(d)' /\ slots'[d] \in Seq(Slot)
           /\ MrHolders(d, h) = {c}
<1> DEFINE s == slots[d]
           L == Len(slots[d])
           t == slots'[d]
<1>1. /\ s \in Seq(Slot) /\ L \in Nat /\ i \in 1 .. L /\ s[i].mr = h
      /\ \A j \in 1 .. L : s[j].mr \in Handles
  BY SlotTypes DEF Gone
<1>2. \A j, k \in 1 .. L : s[j].mr = s[k].mr => j = k
  BY DEF CacheOk
<1>3. IsRemoved(s, t, i)
  <2>1. t = RemoveSlot(s, i)
    BY DEF Gone
  <2> QED
    BY <1>1, <1>2, <2>1, RemovedEntries, Zenon
<1>4. /\ t \in Seq(Slot) /\ Len(t) = L - 1
      /\ \A j \in 1 .. L - 1 : \E a \in 1 .. L : a # i /\ t[j] = s[a]
      /\ \A a \in 1 .. L : a # i => \E j \in 1 .. L - 1 : t[j] = s[a]
      /\ \A j, k \in 1 .. L - 1 : t[j].mr = t[k].mr => j = k
  BY <1>3, Zenon DEF IsRemoved
<1>5. /\ mrLeaks'[d] = mrLeaks[d] /\ \A k \in Handles : k # h => mrs'[d][k] = mrs[d][k]
      /\ \/ mrs'[d][h] = NoRange /\ orphans'[d] = orphans[d]
         \/ mrs'[d][h] = mrs[d][h] /\ orphans'[d] = orphans[d] \cup {h}
  BY DEF Gone
<1>6. /\ MrHolders(d, h) = {c} /\ MrHolders(d, h)' = {} /\ mrLeaks[d][h] = 0
      /\ \A k \in Handles : k # h => MrHolders(d, k)' = MrHolders(d, k)
  BY LastHolder
<1>7. \A j \in 1 .. L : j # i => s[j].mr # h
  BY <1>1, <1>2
<1>8. \A j \in 1 .. L : EntryOk(d, j)
  BY DEF CacheOk
<1>9. \A k \in Handles : HandleOk(d, k)
  BY DEF CacheOk
<1>10. \A k \in orphans[d] : k \in Handles /\ mrs[d][k] # NoRange /\ \A j \in 1 .. L : s[j].mr # k
  BY DEF SideOk, OrphansOk, TypeOK
<1>11. mrs[d][h] # NoRange
  BY <1>1, FreshIsFree
<1>12. /\ L <= capacity[d] /\ L <= room[d] /\ room[d] <= capacity[d] /\ capacity[d] \in Nat /\ room[d] \in Nat
       /\ capacity'[d] = (IF L = 1 THEN 0 ELSE capacity[d]) /\ room'[d] = (IF L = 1 THEN 0 ELSE room[d])
  BY DEF CacheOk, SideOk, RoomOk, TypeOK, Gone
<1>13. overrun' = {}
  BY DEF Gone
<1> HIDE DEF s, L, t
<1>14. ASSUME NEW j \in 1 .. L - 1 PROVE EntryOk(d, j)'
  <2>1. PICK a \in 1 .. L : a # i /\ t[j] = s[a]
    BY <1>4
  <2>2. PICK x : x = s[a]
    OBVIOUS
  <2>3. PICK k : k = x.mr
    OBVIOUS
  <2>4. k # h /\ k \in Handles
    BY <1>1, <1>7, <2>1, <2>2, <2>3
  <2>5. mrs[d][k] = RegionOf(x) /\ x.refs = Cardinality(MrHolders(d, k)) + mrLeaks[d][k]
    <3>1. EntryOk(d, a) /\ slots[d][a] = x
      BY <1>8, <2>2 DEF s
    <3> QED
      BY <2>3, <3>1 DEF EntryOk
  <2>6. MrHolders(d, k)' = MrHolders(d, k) /\ mrs'[d][k] = mrs[d][k] /\ mrLeaks'[d][k] = mrLeaks[d][k]
    BY <1>5, <1>6, <2>4
  <2>7. mrs'[d][k] = RegionOf(x) /\ x.refs = Cardinality(MrHolders(d, k)') + mrLeaks'[d][k]
    BY <2>5, <2>6, Zenon
  <2>8. slots'[d][j] = x
    BY <2>1, <2>2 DEF t
  <2> QED
    BY <2>3, <2>7, <2>8, Zenon DEF EntryOk
<1>15. ASSUME NEW k \in Handles PROVE HandleOk(d, k)'
  <2>2. CASE k = h
    <3>1. (mrs[d][h] = NoRange \/ h \in orphans[d])'
      BY <1>5
    <3>2. mrLeaks'[d][h] = 0
      BY <1>5, <1>6
    <3> QED
      BY <1>6, <2>2, <3>1, <3>2 DEF HandleOk
  <2>3. CASE k # h /\ \E j \in 1 .. L : s[j].mr = k
    <3>1. PICK a \in 1 .. L : s[a].mr = k
      BY <2>3
    <3>2. a # i
      BY <1>1, <2>3, <3>1
    <3>3. PICK j \in 1 .. L - 1 : t[j] = s[a]
      BY <1>4, <3>2
    <3>4. j \in 1 .. Len(slots'[d]) /\ slots'[d][j].mr = k
      <4>1. j \in 1 .. Len(t) /\ t[j].mr = k
        BY <1>4, <3>1, <3>3
      <4> QED
        BY <4>1 DEF t
    <3> QED
      BY <3>4 DEF HandleOk
  <2>4. CASE k # h /\ ~\E j \in 1 .. L : s[j].mr = k
    <3>1. (mrs[d][k] = NoRange \/ k \in orphans[d]) /\ mrLeaks[d][k] = 0 /\ MrHolders(d, k) = {}
      BY <1>9, <2>4 DEF HandleOk, s, L
    <3>2. MrHolders(d, k)' = {} /\ (mrs'[d][k] = NoRange \/ k \in orphans'[d])
      BY <1>5, <1>6, <2>4, <3>1
    <3> QED
      BY <1>5, <3>1, <3>2 DEF HandleOk
  <2> QED
    BY <2>2, <2>3, <2>4
<1>16. L - 1 <= capacity'[d] /\ L - 1 <= room'[d] /\ room'[d] <= capacity'[d]
  <2>1. CASE L = 1
    BY <1>12, <2>1
  <2>2. CASE L # 1
    BY <1>1, <1>12, <2>2
  <2> QED
    BY <2>1, <2>2
<1>17. CacheOk(d)'
  <2>1. Len(slots'[d]) = L - 1
    BY <1>4 DEF t
  <2>2. Len(slots'[d]) <= capacity'[d]
    BY <1>16, <2>1
  <2>3. \A j, k \in 1 .. Len(slots'[d]) : slots'[d][j].mr = slots'[d][k].mr => j = k
    BY <1>4 DEF t
  <2>4. \A j \in 1 .. Len(slots'[d]) : EntryOk(d, j)'
    BY <1>14, <2>1
  <2>5. \A k \in Handles : HandleOk(d, k)'
    BY <1>15
  <2> QED
    BY <2>2, <2>3, <2>4, <2>5 DEF CacheOk
<1>18. OrphansOk(d)'
  <2>1. ASSUME NEW k \in orphans'[d], NEW j \in 1 .. L - 1 PROVE t[j].mr # k
    <3>1. PICK a \in 1 .. L : a # i /\ t[j] = s[a]
      BY <1>4
    <3>2. CASE k = h
      BY <1>7, <3>1, <3>2
    <3>3. CASE k # h
      <4>1. k \in orphans[d]
        BY <1>5, <3>3
      <4> QED
        BY <1>10, <3>1, <4>1
    <3> QED
      BY <3>2, <3>3
  <2>2. ASSUME NEW k \in orphans'[d] PROVE mrs'[d][k] # NoRange
    <3>1. CASE k = h
      <4>1. h \notin orphans[d]
        BY <1>1, <1>10
      <4> QED
        BY <1>5, <1>11, <3>1, <4>1
    <3>2. CASE k # h
      <4>1. k \in orphans[d]
        BY <1>5, <3>2
      <4> QED
        BY <1>5, <1>10, <3>2, <4>1
    <3> QED
      BY <3>1, <3>2
  <2>3. \A k \in orphans'[d] : \A j \in 1 .. Len(slots'[d]) : slots'[d][j].mr # k
    <3>1. Len(slots'[d]) = L - 1
      BY <1>4 DEF t
    <3> QED
      BY <2>1, <3>1 DEF t
  <2> QED
    BY <2>2, <2>3 DEF OrphansOk
<1>19. RoomOk(d)'
  <2>1. Len(slots'[d]) = L - 1
    BY <1>4 DEF t
  <2>2. Len(slots'[d]) <= room'[d] /\ room'[d] <= capacity'[d]
    BY <1>16, <2>1
  <2> QED
    BY <1>13, <2>2 DEF RoomOk
<1>20. slots'[d] \in Seq(Slot)
  BY <1>4 DEF t
<1> QED
  BY <1>6, <1>17, <1>18, <1>19, <1>20 DEF SideOk

LEMMA LastReleased ==
    ASSUME DeviceInv, NEW c \in Comms, NEW d \in Devs, NEW h \in Handles, Moves(c, d, h, NoMr), CommOk(c)',
           \A e \in Devs : comm'[c].regs[e] # NoMr => comm'[c].range = comm[c].range, overrun = {},
           UNCHANGED <<pdVars, mrLeaks, orphans, overrun, failed>>,
           NEW i \in 1 .. Len(slots[d]), slots[d][i].mr = h, DropEntry(d, i),
           mrs' = [mrs EXCEPT ![d][h] = NoRange]
    PROVE  DeviceInv'
<1>0. TypeOK /\ CacheOk(d) /\ SideOk(d)
  BY DEF DeviceInv, SideOk
<1>1. /\ slots[d][i].refs = 1 /\ slots' = [slots EXCEPT ![d] = RemoveSlot(slots[d], i)]
      /\ capacity' = [capacity EXCEPT ![d] = IF Len(slots[d]) = 1 THEN 0 ELSE capacity[d]]
      /\ room' = [room EXCEPT ![d] = IF Len(slots[d]) = 1 THEN 0 ELSE room[d]]
  BY DEF DropEntry
<1>2. /\ slots'[d] = RemoveSlot(slots[d], i) /\ mrs'[d][h] = NoRange
      /\ capacity'[d] = (IF Len(slots[d]) = 1 THEN 0 ELSE capacity[d])
      /\ room'[d] = (IF Len(slots[d]) = 1 THEN 0 ELSE room[d])
      /\ \A k \in Handles : k # h => mrs'[d][k] = mrs[d][k]
      /\ \A e \in Devs : e # d => slots'[e] = slots[e] /\ capacity'[e] = capacity[e] /\ mrs'[e] = mrs[e]
                                  /\ room'[e] = room[e]
  BY <1>0, <1>1 DEF TypeOK
<1>3. CacheOk(d)' /\ SideOk(d)' /\ slots'[d] \in Seq(Slot) /\ MrHolders(d, h) = {c}
  <2>1. OthersSame(c) /\ comm[c].regs[d] = h /\ comm'[c].regs[d] = NoMr /\ mrLeaks'[d] = mrLeaks[d]
        /\ orphans'[d] = orphans[d] /\ overrun' = overrun
    BY DEF Moves
  <2>2. Gone(c, d, h, i)
    BY <1>1, <1>2, <2>1 DEF Gone
  <2> QED
    BY <1>0, <2>2, EntryRemoved
<1>4. slots' \in [Devs -> Seq(Slot)] /\ capacity' \in [Devs -> Nat] /\ room' \in [Devs -> Nat]
  BY <1>0, <1>1, <1>2, <1>3 DEF TypeOK
<1>5. mrs' \in [Devs -> [Handles -> PageRange]]
  <2>1. NoRange \in PageRange
    BY DEF NoRange, PageRange
  <2> QED
    BY <1>0, <2>1 DEF TypeOK
<1>6. ASSUME NEW b \in Comms, comm'[b].regs[d] # NoMr
       PROVE  mrs'[d][comm[b].regs[d]] = mrs[d][comm[b].regs[d]]
  <2>1. b # c
    BY <1>6 DEF Moves
  <2>2. comm[b].regs[d] # h
    BY <1>3, <2>1 DEF MrHolders
  <2>3. comm[b].regs[d] \in Handles
    BY <1>0, <1>6, <2>1, CommTypes DEF Moves, OthersSame
  <2> QED
    BY <1>2, <2>2, <2>3
<1> QED
  BY <1>2, <1>3, <1>4, <1>5, <1>6, ReleaseInv

\* dereg_mr failed on d: on the later devices the references are lost.
LEMMA DeregFailsInv ==
    ASSUME DeviceInv, NEW c \in Comms, DeregFails(c), overrun = {}
    PROVE  DeviceInv'
<1>a. SUFFICES ASSUME NEW d, d = comm[c].dev, NEW h, h = comm[c].regs[d], NEW held, held = d + 1 .. NDevs - 1
               PROVE  DeviceInv'
  OBVIOUS
<1>0. TypeOK /\ RegistrationValid /\ CommOk(c) /\ (\A b \in Comms : CommOk(b))
      /\ \A e \in Devs : PdOk(e) /\ CacheOk(e) /\ SideOk(e)
  BY DEF DeviceInv, SideOk
<1>1. /\ comm[c].pc = "deregistering" /\ failed' = failed + 1 /\ GiveUp(c, held)
      /\ orphans' = [orphans EXCEPT ![d] = orphans[d] \cup {h}]
      /\ UNCHANGED <<pdVars, mrs, overrun>>
  BY <1>a DEF DeregFails, Fails
<1>2. PICK i \in 1 .. Len(slots[d]) : slots[d][i].mr = h /\ DropEntry(d, i)
  BY <1>a DEF DeregFails, Found
<1>3. /\ slots[d][i].refs = 1 /\ slots' = [slots EXCEPT ![d] = RemoveSlot(slots[d], i)]
      /\ capacity' = [capacity EXCEPT ![d] = IF Len(slots[d]) = 1 THEN 0 ELSE capacity[d]]
      /\ room' = [room EXCEPT ![d] = IF Len(slots[d]) = 1 THEN 0 ELSE room[d]]
  BY <1>2 DEF DropEntry
<1>4. /\ d \in Devs /\ h \in Handles /\ d \notin held
      /\ \A e \in Devs : e # d => (comm[c].regs[e] # NoMr <=> e \in held)
  <2>1. d \in Devs /\ d \in Nat /\ NDevs \in Nat
    BY <1>a, <1>0, CommTypes, Constants
  <2>2. \A e \in Devs : e \in Nat /\ e <= NDevs - 1 /\ (comm[c].regs[e] # NoMr <=> e >= d)
    BY <1>a, <1>0, <1>1, Constants DEF CommOk, MrDue, Devs
  <2>3. h \in Handles
    BY <1>a, <1>0, <2>1, <2>2, CommTypes
  <2> QED
    BY <1>a, <2>1, <2>2, <2>3
<1>5. /\ comm' \in [Comms -> Comm] /\ OthersSame(c) /\ CommOk(c)'
      /\ \A e \in Devs : /\ PdSame(e) /\ comm'[c].regs[e] = NoMr
                         /\ mrLeaks'[e] = [k \in Handles |->
                               IF e \in held /\ comm[c].regs[e] = k THEN mrLeaks[e][k] + 1 ELSE mrLeaks[e][k]]
      /\ mrLeaks' = [e \in Devs |-> mrLeaks'[e]]
  <2>1. comm[c].pc \in Registering
    BY <1>1 DEF Registering
  <2> QED
    BY <1>0, <1>1, <2>1, GivenUp
<1>6. /\ slots'[d] = RemoveSlot(slots[d], i) /\ orphans'[d] = orphans[d] \cup {h}
      /\ capacity'[d] = (IF Len(slots[d]) = 1 THEN 0 ELSE capacity[d])
      /\ room'[d] = (IF Len(slots[d]) = 1 THEN 0 ELSE room[d])
  BY <1>0, <1>1, <1>3, <1>4 DEF TypeOK
<1>7. ASSUME NEW e \in Devs, e # d
      PROVE  slots'[e] = slots[e] /\ capacity'[e] = capacity[e] /\ room'[e] = room[e] /\ orphans'[e] = orphans[e]
  BY <1>0, <1>1, <1>3, <1>4, <1>7 DEF TypeOK
<1>8. CacheOk(d)' /\ SideOk(d)' /\ slots'[d] \in Seq(Slot)
  <2>1. mrLeaks'[d] = mrLeaks[d]
    <3>1. mrLeaks[d] \in [Handles -> Nat]
      BY <1>0, <1>4 DEF TypeOK
    <3> QED
      BY <1>4, <1>5, <3>1
  <2>2. mrs'[d] = mrs[d] /\ overrun' = overrun /\ comm[c].regs[d] = h /\ comm'[c].regs[d] = NoMr
    BY <1>a, <1>1, <1>4, <1>5
  <2>3. CacheOk(d) /\ SideOk(d)
    BY <1>0, <1>4
  <2>4. Gone(c, d, h, i)
    BY <1>2, <1>3, <1>5, <1>6, <2>1, <2>2 DEF Gone
  <2> QED
    BY <1>0, <1>4, <2>3, <2>4, EntryRemoved
<1>9. ASSUME NEW e \in Devs, e # d PROVE mrLeaks'[e] \in [Handles -> Nat] /\ CacheOk(e)' /\ SideOk(e)'
  <2>1. /\ CacheOk(e) /\ SideOk(e) /\ (comm[c].regs[e] # NoMr <=> e \in held) /\ comm'[c].regs[e] = NoMr
        /\ slots'[e] = slots[e] /\ mrs'[e] = mrs[e] /\ orphans'[e] = orphans[e]
        /\ capacity'[e] = capacity[e] /\ room'[e] = room[e] /\ overrun' = overrun
    BY <1>0, <1>1, <1>4, <1>5, <1>7, <1>9
  <2>2. Len(slots[e]) <= capacity'[e]
    BY <2>1 DEF CacheOk
  <2>3. mrLeaks'[e] = [k \in Handles |->
                               IF e \in held /\ comm[c].regs[e] = k THEN mrLeaks[e][k] + 1 ELSE mrLeaks[e][k]]
    BY <1>5
  <2>4. mrLeaks'[e] \in [Handles -> Nat] /\ CacheOk(e)'
    BY <1>0, <1>5, <2>1, <2>2, <2>3, LostOn
  <2>5. SideOk(e)'
    BY <2>1, SideFrame
  <2> QED
    BY <2>4, <2>5
<1>10. TypeOK'
  <2>1. mrLeaks' \in [Devs -> [Handles -> Nat]]
    <3>1. mrLeaks'[d] \in [Handles -> Nat]
      BY <1>0, <1>4, <1>5 DEF TypeOK
    <3>2. \A e \in Devs : mrLeaks'[e] \in [Handles -> Nat]
      BY <1>9, <3>1
    <3> QED
      BY <1>5, <3>2
  <2>2. failed' \in Nat /\ orphans' \in [Devs -> SUBSET Handles]
    BY <1>0, <1>1, <1>4 DEF TypeOK
  <2>3. slots' \in [Devs -> Seq(Slot)] /\ capacity' \in [Devs -> Nat] /\ room' \in [Devs -> Nat]
    BY <1>0, <1>3, <1>4, <1>6, <1>8 DEF TypeOK
  <2> QED
    BY <1>0, <1>1, <1>5, <2>1, <2>2, <2>3 DEF TypeOK
<1>11. RegistrationValid'
  BY <1>0, <1>1, <1>5, RegFrame
<1>12. \A e \in Devs : PdOk(e)'
  BY <1>0, <1>1, <1>5, PdFrame
<1>13. \A b \in Comms : CommOk(b)'
  BY <1>0, <1>5, CommStep
<1> QED
  BY <1>8, <1>9, <1>10, <1>11, <1>12, <1>13 DEF DeviceInv, SideOk

LEMMA DeregMrInv ==
    ASSUME DeviceInv, NEW c \in Comms, DeregMr(c), overrun = {}
    PROVE  DeviceInv'
<1>a. SUFFICES ASSUME NEW d, d = comm[c].dev, NEW h, h = comm[c].regs[d],
                    NEW rest, rest = [Advance(c, "open") EXCEPT !.regs[d] = NoMr]
             PROVE  DeviceInv'
  OBVIOUS
<1>0. TypeOK /\ CommOk(c)
  BY DEF DeviceInv
<1>1. /\ comm[c].pc = "deregistering"
      /\ comm' = [comm EXCEPT ![c] = IF rest.pc = "open" THEN [rest EXCEPT !.range = NoRange] ELSE rest]
      /\ UNCHANGED <<pdVars, mrLeaks, orphans, overrun, failed>>
  BY <1>a, Zenon DEF DeregMr
<1>2. PICK i \in 1 .. Len(slots[d]) :
          /\ slots[d][i].mr = h
          /\ \/ DropEntry(d, i) /\ mrs' = [mrs EXCEPT ![d][h] = NoRange]
             \/ /\ slots[d][i].refs # 1
                /\ slots' = [slots EXCEPT ![d][i].refs = @ - 1]
                /\ UNCHANGED <<capacity, room, mrs>>
  BY <1>a, Zenon DEF DeregMr, Found
<1>3. /\ d \in Devs /\ h \in Handles /\ Moves(c, d, h, NoMr) /\ CommOk(c)'
      /\ \A e \in Devs : comm'[c].regs[e] # NoMr => comm'[c].range = comm[c].range
  <2>1. /\ d = comm[c].dev /\ h = comm[c].regs[d]
        /\ rest = [Advance(c, "open") EXCEPT !.regs[d] = NoMr]
    BY <1>a, Zenon
  <2> QED
    BY <1>0, <1>1, <2>1, GivesRegion, ZenonT(40)
<1>4. CASE DropEntry(d, i) /\ mrs' = [mrs EXCEPT ![d][h] = NoRange]
  BY <1>1, <1>2, <1>3, <1>4, LastReleased
<1>5. CASE /\ slots[d][i].refs # 1
           /\ slots' = [slots EXCEPT ![d][i].refs = @ - 1]
           /\ UNCHANGED <<capacity, room, mrs>>
  BY <1>1, <1>2, <1>3, <1>5, SharedReleased
<1> QED
  BY <1>2, <1>4, <1>5

----------------------------------------------------------------------------
LEMMA InitInv == Init => DeviceInv
<1> SUFFICES ASSUME Init PROVE DeviceInv
  OBVIOUS
<1>1. /\ Closed \in Comm /\ Closed.pc = "closed" /\ Closed.dev = 0
      /\ \A e \in Devs : Closed.pds[e] = "none" /\ Closed.regs[e] = NoMr
  BY Constants DEF Closed, Comm, PageRange, NoRange
<1>2. \A c \in Comms : comm[c] = Closed
  BY DEF Init
<1>3. TypeOK
  <2>1. comm \in [Comms -> Comm]
    BY <1>1 DEF Init
  <2>2. NoRange \in PageRange
    BY DEF NoRange, PageRange
  <2>3. slots \in [Devs -> Seq(Slot)]
    BY DEF Init
  <2> QED
    BY <2>1, <2>2, <2>3 DEF Init, TypeOK
<1>4. \A c \in Comms : CommOk(c)
  BY <1>1, <1>2 DEF CommOk, HoldsPd, PdDue, MrDue, Registering
<1>5. ASSUME NEW d \in Devs PROVE PdOk(d) /\ CacheOk(d) /\ SideOk(d)
  <2>1. PdHolders(d) = {}
    BY <1>1, <1>2 DEF PdHolders, HoldsPd
  <2>2. \A h \in Handles : MrHolders(d, h) = {}
    BY <1>1, <1>2, Constants DEF MrHolders
  <2>3. Cardinality(PdHolders(d)) = 0
    BY <2>1, FS_EmptySet
  <2>4. /\ pdRefs[d] = 0 /\ pdLeaks[d] = 0 /\ slots[d] = <<>> /\ Len(slots[d]) = 0 /\ capacity[d] = 0
        /\ \A h \in Handles : mrs[d][h] = NoRange /\ mrLeaks[d][h] = 0
    BY DEF Init
  <2>5. PdOk(d)
    BY <1>1, <1>2, <2>3, <2>4 DEF PdOk, HoldsPd
  <2>6. CacheOk(d)
    BY <2>2, <2>4 DEF CacheOk, HandleOk
  <2>7. orphans[d] = {} /\ overrun = {} /\ room[d] = 0
    BY DEF Init
  <2>8. SideOk(d)
    BY <2>4, <2>7 DEF SideOk, OrphansOk, RoomOk
  <2> QED
    BY <2>5, <2>6, <2>8
<1>6. RegistrationValid
  BY <1>1, <1>2 DEF RegistrationValid
<1> QED
  BY <1>3, <1>4, <1>5, <1>6 DEF DeviceInv, SideOk

LEMMA NextInv == DeviceInv /\ [Next]_vars => DeviceInv'
<1> SUFFICES ASSUME DeviceInv, [Next]_vars PROVE DeviceInv'
  OBVIOUS
<1>1. CASE UNCHANGED vars
  <2>1. \A c \in Comms : CommOk(c)'
    BY <1>1 DEF vars, DeviceInv, CommOk, HoldsPd, PdDue, MrDue
  <2>2. \A d \in Devs : PdOk(d)' /\ CacheOk(d)'
    BY <1>1, PdFrame, CacheFrame DEF vars, DeviceInv, PdSame, RegsSame
  <2>3. RegistrationValid'
    BY <1>1 DEF vars, DeviceInv, RegistrationValid
  <2>4. TypeOK'
    BY <1>1 DEF vars, DeviceInv, TypeOK
  <2>5. \A d \in Devs : OrphansOk(d)' /\ RoomOk(d)'
    BY <1>1 DEF vars, DeviceInv, OrphansOk, RoomOk
  <2> QED
    BY <2>1, <2>2, <2>3, <2>4, <2>5 DEF DeviceInv
<1>2. CASE overrun = {} /\ \E c \in Comms : Step(c)
  <2>1. PICK c \in Comms : Step(c)
    BY <1>2
  <2>2. overrun = {}
    BY <1>2
  <2>3. CASE Open(c) \/ InitCommDevBase(c) \/ AllocPdFails(c) \/ CreateCqFails(c)
    BY <2>3, OpenInv, InitCommDevBaseInv, AllocPdFailsInv, CreateCqFailsInv
  <2>4. CASE Close(c) \/ DestroyBase(c) \/ DestroyCqFails(c) \/ DeallocPdFails(c)
    BY <2>4, CloseInv, DestroyBaseInv, DestroyCqFailsInv, DeallocPdFailsInv
  <2>5. ASSUME NEW range \in Ranges, RegMr(c, range) PROVE DeviceInv'
    BY <2>5, RegMrInv
  <2>6. CASE RegHit(c) \/ RegFails(c) \/ ReallocFails(c) \/ RegOverrun(c)
    BY <2>2, <2>6, RegHitInv, RegFailsInv, ReallocFailsInv, RegOverrunInv
  <2>7. ASSUME NEW h \in Handles, RegMiss(c, h) PROVE DeviceInv'
    BY <2>2, <2>7, RegMissInv
  <2>8. CASE Dereg(c) \/ DeregMr(c) \/ DeregFails(c)
    BY <2>2, <2>8, DeregInv, DeregMrInv, DeregFailsInv
  <2> QED
    BY <2>1, <2>3, <2>4, <2>5, <2>6, <2>7, <2>8 DEF Step
<1> QED
  BY <1>1, <1>2 DEF Next, Undefined

(***************************************************************************)
(* What every communicator holds on every device, the reference counts of  *)
(* domains and regions, and the cache agree in every reachable state.      *)
(***************************************************************************)
THEOREM DeviceInvariant == Spec => []DeviceInv
  BY InitInv, NextInv, PTL DEF Spec

(***************************************************************************)
(* pdRefs counts the holders and the lost references, and no close of one  *)
(* communicator (ncclIbDestroyBase) frees the domain another one holds.    *)
(***************************************************************************)
THEOREM DomainsCounted == Spec => []PdRefsExact
<1>1. DeviceInv => PdRefsExact
  BY DEF DeviceInv, PdOk, PdRefsExact, HoldsPd
<1> QED
  BY <1>1, DeviceInvariant, PTL

(***************************************************************************)
(* Whatever failed before, the domain a communicator holds is the one its  *)
(* device has, never one that ncclIbDestroyBase freed, and NULL only where *)
(* ncclIbInitCommDevBase has lost a reference; it outlives the regions     *)
(* registered in it, but for those a failed call has lost.                 *)
(***************************************************************************)
THEOREM DomainsUsable == Spec => []PdUsable
<1>1. DeviceInv => PdUsable
  <2> SUFFICES ASSUME DeviceInv, NEW d \in Devs
               PROVE  /\ \A c \in Comms : HoldsPd(c, d) =>
                            /\ comm[c].pds[d] = pd[d] /\ pd[d] # "stale"
                            /\ pd[d] = "null" => pdLeaks[d] > 0
                      /\ \A h \in Handles :
                            mrs[d][h] # NoRange /\ mrLeaks[d][h] = 0 /\ h \notin orphans[d] => pd[d] # "stale"
    BY DEF PdUsable
  <2>1. PdOk(d) /\ CacheOk(d) /\ TypeOK /\ \A c \in Comms : CommOk(c)
    BY DEF DeviceInv
  <2>2. ASSUME NEW c \in Comms, HoldsPd(c, d)
        PROVE  comm[c].pds[d] = pd[d] /\ pd[d] # "stale" /\ (pd[d] = "null" => pdLeaks[d] > 0)
    <3>1. PdHolders(d) \in SUBSET Comms /\ c \in PdHolders(d)
      BY <2>2 DEF PdHolders
    <3>2. Cardinality(PdHolders(d)) \in Nat /\ Cardinality(PdHolders(d)) # 0
      BY <3>1, OneChanges
    <3>3. pdRefs[d] > 0
      <4>1. pdRefs[d] = Cardinality(PdHolders(d)) + pdLeaks[d] /\ pdLeaks[d] \in Nat
        BY <2>1 DEF PdOk, TypeOK
      <4> QED
        BY <3>2, <4>1
    <3> QED
      BY <2>1, <2>2, <3>3 DEF PdOk
  <2>3. ASSUME NEW h \in Handles, mrs[d][h] # NoRange, mrLeaks[d][h] = 0, h \notin orphans[d] PROVE pd[d] # "stale"
    <3>1. HandleOk(d, h)
      BY <2>1 DEF CacheOk
    <3>2. PICK i \in 1 .. Len(slots[d]) : slots[d][i].mr = h
      BY <2>3, <3>1 DEF HandleOk
    <3>3. EntryOk(d, i) /\ slots[d][i].refs \in Nat \ {0}
      BY <2>1, SlotTypes DEF CacheOk
    <3>4. slots[d][i].refs = Cardinality(MrHolders(d, h)) + 0
      BY <2>3, <3>2, <3>3 DEF EntryOk
    <3>5. Cardinality({}) = 0
      BY FS_EmptySet
    <3>6. ASSUME MrHolders(d, h) = {} PROVE FALSE
      <4>1. slots[d][i].refs = Cardinality({}) + 0
        BY <3>4, <3>6
      <4> QED
        BY <3>3, <3>5, <4>1
    <3>7. PICK c \in Comms : comm[c].regs[d] = h
      BY <3>6 DEF MrHolders
    <3>8. comm[c].regs[d] # NoMr
      BY <3>7, Constants
    <3>9. HoldsPd(c, d)
      BY <2>1, <3>8 DEF CommOk, PdDue, MrDue, Registering
    <3> QED
      BY <2>2, <3>9
  <2> QED
    BY <2>2, <2>3
<1> QED
  BY <1>1, DeviceInvariant, PTL

(***************************************************************************)
(* A registration handed out by ncclIbRegMrDmaBuf covers its range on      *)
(* every device until its holder gives it back.                            *)
(***************************************************************************)
THEOREM RegistrationsValid == Spec => []RegistrationValid
<1>1. DeviceInv => RegistrationValid
  BY DEF DeviceInv
<1> QED
  BY <1>1, DeviceInvariant, PTL

(***************************************************************************)
(* The cache of a device lists every registered region exactly once, with  *)
(* the number of its holders and lost references, except the regions whose *)
(* deregistration failed, which it lists no more; its entries are in its   *)
(* memory, which an insertion misses only after a failed ncclRealloc.      *)
(***************************************************************************)
THEOREM CacheCounted == Spec => []CacheExact
<1>1. DeviceInv => CacheExact
  <2> DEFINE E(d, h) == {i \in DOMAIN slots[d] : slots[d][i].mr = h}
             Listed(d, h) == IF mrs[d][h] = NoRange \/ h \in orphans[d] THEN E(d, h) = {}
                             ELSE \E i \in DOMAIN slots[d] :
                                    /\ E(d, h) = {i} /\ mrs[d][h] = RegionOf(slots[d][i])
                                    /\ slots[d][i].refs = Cardinality(MrHolders(d, h)) + mrLeaks[d][h]
  <2>1. ASSUME DeviceInv, NEW d \in Devs
        PROVE  /\ CacheOk(d) /\ TypeOK /\ OrphansOk(d)
               /\ Len(slots[d]) <= room[d] /\ (d \in overrun => room[d] < capacity[d])
    BY <2>1 DEF DeviceInv, RoomOk
  <2>2. ASSUME DeviceInv, NEW d \in Devs, NEW h \in Handles PROVE Listed(d, h)
    <3>1. CacheOk(d) /\ TypeOK /\ OrphansOk(d)
      BY <2>1, <2>2
    <3>2. DOMAIN slots[d] = 1 .. Len(slots[d])
      BY <3>1, SlotTypes
    <3>3. CASE mrs[d][h] = NoRange
      BY <3>1, <3>2, <3>3, FreshIsFree
    <3>5. CASE h \in orphans[d]
      BY <3>1, <3>2, <3>5 DEF OrphansOk
    <3>4. CASE mrs[d][h] # NoRange /\ h \notin orphans[d]
      <4>1. HandleOk(d, h)
        BY <3>1 DEF CacheOk
      <4>2. PICK i \in 1 .. Len(slots[d]) : slots[d][i].mr = h
        BY <3>4, <4>1 DEF HandleOk
      <4>3. E(d, h) = {i}
        BY <3>1, <3>2, <4>2 DEF CacheOk
      <4>4. EntryOk(d, i)
        BY <3>1 DEF CacheOk
      <4>5. mrs[d][h] = RegionOf(slots[d][i])
            /\ slots[d][i].refs = Cardinality(MrHolders(d, h)) + mrLeaks[d][h]
        BY <4>2, <4>4 DEF EntryOk
      <4> HIDE DEF E
      <4> QED
        BY <3>2, <3>4, <4>3, <4>5
    <3> QED
      BY <3>3, <3>4, <3>5
  <2>3. CacheExact <=> \A d \in Devs : /\ Len(slots[d]) <= room[d] /\ (d \in overrun => room[d] < capacity[d])
                                    /\ \A h \in Handles : Listed(d, h)
    BY DEF CacheExact
  <2> HIDE DEF Listed
  <2> QED
    BY <2>1, <2>2, <2>3
<1> QED
  BY <1>1, DeviceInvariant, PTL
=============================================================================
