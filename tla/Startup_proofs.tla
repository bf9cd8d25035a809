--------------------------- MODULE Startup_proofs ---------------------------
(***************************************************************************)
(* What the plugin decides about a node when it starts, for every node,    *)
(* any number of threads and every limit: the devices are discovered once  *)
(* and grouped correctly (Discovery and what follows), the GID fits the    *)
(* configuration (GidChoice), and a generated topology is exact            *)
(* (Topology).  The three share no state and neither do their proofs; the  *)
(* first part is about induction and the sums of the model: MapThenSumSet  *)
(* adds the values of the elements of a finite set in any order.           *)
(***************************************************************************)
EXTENDS IbInit, Gid, VTopo, FiniteSetTheorems, SequenceTheorems, TLAPS

\* Every non-empty set of naturals has a least element.
LEMMA LeastNatural ==
    ASSUME NEW S \in SUBSET Nat, S # {}
    PROVE  \E m \in S : \A k \in S : m <= k
<1> DEFINE R == OpToRel(<, Nat)
<1>1. IsWellFoundedOn(R, Nat)
  BY NatLessThanWellFounded
<1>2. \A x, y \in Nat : <<x, y>> \in R <=> x < y
  BY DEF OpToRel
<1> HIDE DEF R
<1>3. PICK x \in S : \A y \in S : ~(<<y, x>> \in R)
  BY <1>1, WFMin
<1>4. \A y \in S : ~(y < x)
  BY <1>2, <1>3
<1>5. \A y \in S : x <= y
  BY <1>4
<1> QED
  BY <1>5

\* Induction, for a set instead of a predicate.
LEMMA SetInduction ==
    ASSUME NEW Q, 0 \in Q, \A n \in Nat : n \in Q => n + 1 \in Q
    PROVE  \A n \in Nat : n \in Q
<1> SUFFICES ASSUME NEW n \in Nat, n \notin Q PROVE FALSE
  OBVIOUS
<1> DEFINE S == {k \in Nat : k \notin Q}
<1>1. PICK m \in S : \A k \in S : m <= k
  BY LeastNatural
<1>2. m # 0 /\ m \in Nat
  OBVIOUS
<1>3. m - 1 \in Nat /\ m - 1 \in Q
  BY <1>1, <1>2
<1> QED
  BY <1>2, <1>3

\* The element MapThenSumSet takes next, and the function it recurs on.
Some(s) == CHOOSE x \in s : TRUE
Sums(D, S) ==
    CHOOSE f : f = [s \in SUBSET S |-> IF s = {} THEN 0 ELSE D[Some(s)].speed + f[s \ {Some(s)}]]
Sum(D, S) == MapThenSumSet(LAMBDA d : D[d].speed, S)

\* The library's sum is that function's value at the whole set.
LEMMA SumIsSums == ASSUME NEW D, NEW S PROVE Sum(D, S) = Sums(D, S)[S]
BY DEF Sum, Sums, Some, MapThenSumSet, MapThenFoldSet

\* Subsets of S of at most n elements.
UpTo(S, n) == {s \in SUBSET S : Cardinality(s) <= n}

\* The element taken next is one of the set.
LEMMA SomeIn == ASSUME NEW s, s # {} PROVE Some(s) \in s
BY DEF Some

\* f adds up the speeds of D, on every subset of S.
AddsUp(f, D, S) ==
    \A s \in SUBSET S : f[s] = IF s = {} THEN 0 ELSE D[Some(s)].speed + f[s \ {Some(s)}]

\* Sums is what its definition says: the recursion ends.
LEMMA SumsDef ==
    ASSUME NEW D, NEW S, IsFiniteSet(S)
    PROVE  AddsUp(Sums(D, S), D, S)
<1> DEFINE Def(f, s) == IF s = {} THEN 0 ELSE D[Some(s)].speed + f[s \ {Some(s)}]
           Q == {n \in Nat : \E f : f = [s \in UpTo(S, n) |-> Def(f, s)]}
<1>1. \A s \in SUBSET S : /\ IsFiniteSet(s) /\ Cardinality(s) \in Nat
                          /\ Cardinality(s) <= Cardinality(S) /\ (Cardinality(s) = 0 <=> s = {})
  BY FS_Subset, FS_EmptySet, FS_CardinalityType
<1>2. \A s \in SUBSET S : s # {} => /\ s \ {Some(s)} \in SUBSET S
                                    /\ Cardinality(s \ {Some(s)}) = Cardinality(s) - 1
  BY <1>1, SomeIn, FS_RemoveElement
<1>3. 0 \in Q
  <2> DEFINE f == [s \in UpTo(S, 0) |-> 0]
  <2>1. \A s \in UpTo(S, 0) : s = {}
    BY <1>1 DEF UpTo
  <2>2. f = [s \in UpTo(S, 0) |-> Def(f, s)]
    BY <2>1
  <2> QED
    BY <2>2
<1>4. ASSUME NEW n \in Nat, n \in Q PROVE n + 1 \in Q
  <2>1. PICK f : f = [s \in UpTo(S, n) |-> Def(f, s)]
    BY <1>4
  <2> DEFINE g == [s \in UpTo(S, n + 1) |-> Def(f, s)]
  <2>2. ASSUME NEW s \in UpTo(S, n + 1) PROVE Def(f, s) = Def(g, s)
    <3>1. CASE s = {}
      BY <3>1
    <3>2. CASE s # {}
      <4> DEFINE r == s \ {Some(s)}
      <4>1. r \in UpTo(S, n) /\ r \in UpTo(S, n + 1)
        BY <1>1, <1>2, <3>2 DEF UpTo
      <4>2. f[r] = Def(f, r) /\ g[r] = Def(f, r)
        BY <2>1, <4>1
      <4> HIDE DEF g
      <4> QED
        BY <3>2, <4>2
    <3> QED
      BY <3>1, <3>2
  <2>3. g = [s \in UpTo(S, n + 1) |-> Def(g, s)]
    BY <2>2
  <2> HIDE DEF g, Def
  <2>4. \E h : h = [s \in UpTo(S, n + 1) |-> Def(h, s)]
    BY <2>3
  <2> QED
    BY <2>4
<1>5. Cardinality(S) \in Q
  <2>1. Cardinality(S) \in Nat
    BY FS_CardinalityType
  <2> HIDE DEF Q
  <2> QED
    BY <1>3, <1>4, <2>1, SetInduction
<1>6. UpTo(S, Cardinality(S)) = SUBSET S
  BY <1>1 DEF UpTo
<1>7. \E f : f = [s \in SUBSET S |-> Def(f, s)]
  BY <1>5, <1>6
<1> DEFINE F == Sums(D, S)
<1>8. F = [s \in SUBSET S |-> Def(F, s)]
  BY <1>7 DEF Sums
<1> HIDE DEF F
<1>9. \A s \in SUBSET S : F[s] = Def(F, s)
  BY <1>8
<1>10. AddsUp(F, D, S)
  BY <1>9, Zenon DEF AddsUp
<1> QED
  BY <1>10 DEF F

\* The values summed are naturals.
Summable(D, S) == IsFiniteSet(S) /\ \A x \in S : D[x].speed \in Nat

Unfolds(f, D, S) ==
    /\ f[{}] = 0
    /\ \A s \in SUBSET S : s # {} => f[s] = D[Some(s)].speed + f[s \ {Some(s)}]
    /\ \A s \in SUBSET S : IsFiniteSet(s) /\ Cardinality(s) \in Nat

\* The recursion of MapThenSumSet ends on a finite set of speeds.
LEMMA SumsStep == ASSUME NEW D, NEW S, Summable(D, S) PROVE Unfolds(Sums(D, S), D, S)
<1>0. PICK f : f = Sums(D, S)
  OBVIOUS
<1>1. IsFiniteSet(S)
  BY DEF Summable
<1>2. \A s \in SUBSET S : IsFiniteSet(s) /\ Cardinality(s) \in Nat
  BY <1>1, FS_Subset, FS_CardinalityType
<1>3. AddsUp(f, D, S)
  BY <1>0, <1>1, SumsDef, Zenon
<1>4. Unfolds(f, D, S)
  BY <1>2, <1>3 DEF AddsUp, Unfolds
<1> QED
  BY <1>0, <1>4

\* A sum is a natural and depends on the values of its elements only.
LEMMA SumsAgree ==
    ASSUME NEW D, NEW S, Summable(D, S), NEW E, NEW U, Summable(E, U), S \subseteq U,
           \A x \in S : D[x].speed = E[x].speed
    PROVE  \A s \in SUBSET S : Sums(D, S)[s] \in Nat /\ Sums(D, S)[s] = Sums(E, U)[s]
<1>0. PICK F, G : F = Sums(D, S) /\ G = Sums(E, U)
  OBVIOUS
<1> DEFINE Q == {n \in Nat : \A s \in SUBSET S : Cardinality(s) = n => F[s] \in Nat /\ F[s] = G[s]}
<1>1. /\ F[{}] = 0 /\ \A s \in SUBSET S : s # {} => F[s] = D[Some(s)].speed + F[s \ {Some(s)}]
      /\ \A s \in SUBSET S : IsFiniteSet(s) /\ Cardinality(s) \in Nat
      /\ G[{}] = 0 /\ \A s \in SUBSET U : s # {} => G[s] = E[Some(s)].speed + G[s \ {Some(s)}]
  <2>1. /\ F[{}] = 0 /\ \A s \in SUBSET S : s # {} => F[s] = D[Some(s)].speed + F[s \ {Some(s)}]
        /\ \A s \in SUBSET S : IsFiniteSet(s) /\ Cardinality(s) \in Nat
    <3>1. Unfolds(F, D, S)
      BY <1>0, SumsStep, Zenon
    <3> QED
      BY <3>1, Zenon DEF Unfolds
  <2>2. G[{}] = 0 /\ \A s \in SUBSET U : s # {} => G[s] = E[Some(s)].speed + G[s \ {Some(s)}]
    <3>1. Unfolds(G, E, U)
      BY <1>0, SumsStep, Zenon
    <3> QED
      BY <3>1, Zenon DEF Unfolds
  <2> QED
    BY <2>1, <2>2, Zenon
<1>2. 0 \in Q
  <2>1. \A s \in SUBSET S : Cardinality(s) = 0 => s = {}
    BY <1>1, FS_EmptySet
  <2> QED
    BY <1>1, <2>1
<1>3. ASSUME NEW n \in Nat, n \in Q PROVE n + 1 \in Q
  <2> SUFFICES ASSUME NEW s \in SUBSET S, Cardinality(s) = n + 1
               PROVE  F[s] \in Nat /\ F[s] = G[s]
    OBVIOUS
  <2> DEFINE x == Some(s)
  <2>1. s # {} /\ x \in s /\ s \in SUBSET U
    BY FS_EmptySet, SomeIn
  <2>2. s \ {x} \in SUBSET S /\ Cardinality(s \ {x}) = n
    <3>1. IsFiniteSet(s) /\ x \in s
      BY <1>1, <2>1, Zenon
    <3> HIDE DEF x
    <3>2. Cardinality(s \ {x}) = Cardinality(s) - 1
      BY <3>1, FS_RemoveElement, Zenon
    <3>3. (n + 1) - 1 = n
      OBVIOUS
    <3> QED
      BY <3>2, <3>3, Zenon
  <2>3. F[s \ {x}] \in Nat /\ F[s \ {x}] = G[s \ {x}]
    BY <1>3, <2>2
  <2>4. D[x].speed \in Nat /\ D[x].speed = E[x].speed
    BY <2>1 DEF Summable
  <2>5. F[s] = D[x].speed + F[s \ {x}] /\ G[s] = E[x].speed + G[s \ {x}]
    BY <1>1, <2>1
  <2> QED
    BY <2>3, <2>4, <2>5
<1> HIDE DEF Q
<1>4. \A n \in Nat : n \in Q
  BY <1>2, <1>3, SetInduction
<1>5. \A s \in SUBSET S : F[s] \in Nat /\ F[s] = G[s]
  BY <1>1, <1>4, Zenon DEF Q
<1> QED
  BY <1>0, <1>5, Zenon

\* The order in which the elements are taken does not matter.
LEMMA SumsAny ==
    ASSUME NEW D, NEW S, Summable(D, S)
    PROVE  \A s \in SUBSET S : \A y \in s : Sums(D, S)[s] = D[y].speed + Sums(D, S)[s \ {y}]
<1> DEFINE F == Sums(D, S)
           Q == {n \in Nat : \A s \in SUBSET S : Cardinality(s) = n =>
                                \A y \in s : F[s] = D[y].speed + F[s \ {y}]}
<1>1. /\ \A s \in SUBSET S : s # {} => F[s] = D[Some(s)].speed + F[s \ {Some(s)}]
      /\ \A s \in SUBSET S : IsFiniteSet(s) /\ Cardinality(s) \in Nat /\ F[s] \in Nat
  <2>1. \A s \in SUBSET S : Sums(D, S)[s] \in Nat
    BY SumsAgree, Zenon
  <2>2. Unfolds(F, D, S) /\ \A s \in SUBSET S : F[s] \in Nat
    BY <2>1, SumsStep, Zenon
  <2> HIDE DEF F
  <2> QED
    BY <2>2, Zenon DEF Unfolds
<1> HIDE DEF F
<1>2. 0 \in Q
  BY <1>1, FS_EmptySet
<1>3. ASSUME NEW n \in Nat, n \in Q PROVE n + 1 \in Q
  <2> SUFFICES ASSUME NEW s \in SUBSET S, Cardinality(s) = n + 1, NEW y \in s
               PROVE  F[s] = D[y].speed + F[s \ {y}]
    OBVIOUS
  <2> DEFINE x == Some(s)
  <2>1. x \in s /\ F[s] = D[x].speed + F[s \ {x}]
    BY <1>1, SomeIn
  <2> HIDE DEF x
  <2>2. CASE x = y
    BY <2>1, <2>2
  <2>3. CASE x # y
    <3>1. Cardinality(s \ {x}) = n /\ Cardinality(s \ {y}) = n
      <4>1. IsFiniteSet(s) /\ x \in s
        BY <1>1, <2>1, Zenon
      <4>2. Cardinality(s \ {x}) = Cardinality(s) - 1 /\ Cardinality(s \ {y}) = Cardinality(s) - 1
        BY <4>1, FS_RemoveElement, Zenon
      <4>3. (n + 1) - 1 = n
        OBVIOUS
      <4> QED
        BY <4>2, <4>3, Zenon
    <3>2. F[s \ {x}] = D[y].speed + F[(s \ {x}) \ {y}]
      BY <1>3, <2>3, <3>1
    <3>3. F[s \ {y}] = D[x].speed + F[(s \ {y}) \ {x}]
      BY <1>3, <2>1, <2>3, <3>1
    <3>4. (s \ {x}) \ {y} = (s \ {y}) \ {x}
      OBVIOUS
    <3> DEFINE z == (s \ {y}) \ {x}
    <3>5. D[x].speed \in Nat /\ D[y].speed \in Nat /\ F[z] \in Nat
      BY <1>1, <2>1 DEF Summable
    <3> HIDE DEF z
    <3>6. F[s \ {x}] = D[y].speed + F[z] /\ F[s \ {y}] = D[x].speed + F[z]
      BY <3>2, <3>3, <3>4 DEF z
    <3> QED
      BY <2>1, <3>5, <3>6
  <2> QED
    BY <2>2, <2>3
<1> HIDE DEF Q
<1>4. \A n \in Nat : n \in Q
  BY <1>2, <1>3, SetInduction
<1> QED
  BY <1>1, <1>4 DEF Q, F

\* The same speeds on S.
SameSpeeds(D, E, S) == \A x \in S : D[x].speed = E[x].speed

\* One more element adds its value.
LEMMA SumAdd ==
    ASSUME NEW D, NEW E, NEW S, NEW y, y \notin S, Summable(D, S), SameSpeeds(D, E, S),
           NEW v \in Nat, v = E[y].speed
    PROVE  Sum(E, S \cup {y}) = Sum(D, S) + v
<1> DEFINE U == S \cup {y}
<1>1. Summable(E, U)
  BY FS_AddElement DEF Summable, SameSpeeds
<1>2. Sums(E, U)[U] = E[y].speed + Sums(E, U)[U \ {y}]
  BY <1>1, SumsAny
<1>3. U \ {y} = S
  OBVIOUS
<1>4. Sums(D, S)[S] = Sums(E, U)[S] /\ Sums(D, S)[S] \in Nat
  BY <1>1, SumsAgree DEF SameSpeeds
<1>5. Sum(E, U) = Sums(E, U)[U] /\ Sum(D, S) = Sums(D, S)[S]
  BY SumIsSums
<1> HIDE DEF U
<1>6. Sum(E, U) = E[y].speed + Sum(D, S) /\ Sum(D, S) \in Nat
  BY <1>2, <1>3, <1>4, <1>5
<1> QED
  BY <1>6 DEF U

\* ... nothing changes as long as the values do not, and one value is its own sum.
LEMMA SumSame ==
    ASSUME NEW D, NEW E, NEW S, Summable(D, S), \A x \in S : D[x].speed = E[x].speed
    PROVE  Sum(E, S) = Sum(D, S) /\ Sum(D, S) \in Nat
BY SumsAgree, SumIsSums DEF Summable

\* A single element is its value.
LEMMA SumOne ==
    ASSUME NEW E, NEW y, E[y].speed \in Nat
    PROVE  Sum(E, {y}) = E[y].speed
<1>1. Summable(E, {y})
  BY FS_Singleton DEF Summable
<1>2. Some({y}) = y /\ {y} \ {y} = {}
  BY SomeIn
<1>3. Sums(E, {y})[{y}] = E[y].speed + 0
  <2>1. PICK f : f = Sums(E, {y}) /\ Unfolds(f, E, {y})
    BY <1>1, SumsStep
  <2>2. f[{y}] = E[Some({y})].speed + f[{y} \ {Some({y})}] /\ f[{}] = 0
    BY <2>1, Zenon DEF Unfolds
  <2> QED
    BY <1>2, <2>1, <2>2, Zenon
<1> QED
  BY <1>3, SumIsSums
----------------------------------------------------------------------------
\* A node's ports.
LEMMA PortTypes ==
    ASSUME TypeOK
    PROVE  /\ ports \in Seq(Range(ports)) /\ Len(ports) \in Nat
           /\ DOMAIN ports = 1 .. Len(ports)
           /\ \A i \in 1 .. Len(ports) : ports[i] \in Range(ports)
           /\ \A port \in Range(ports) : port.usable \in BOOLEAN /\ port.speed \in Nat
<1>1. ports \in Seq(Range(ports)) /\ \A port \in Range(ports) : port.usable \in BOOLEAN /\ port.speed \in Nat
  BY InitAssumption DEF TypeOK
<1> QED
  BY <1>1

\* What the assumptions say of the constants.
LEMMA Limits ==
    /\ MaxDevsPerNic \in Nat \ {0} /\ MaxIbDevs \in Nat \ {0} /\ MergeNics \in BOOLEAN
    /\ Nobody \notin Threads
BY InitAssumption, LockAssumption

\* The sum of a merged device is one the lemmas above are about.
LEMMA SpeedIsSum == \A m : SumOfSpeeds(m) = Sum(devs, MembersOf(m))
BY DEF SumOfSpeeds, Sum

\* The same after a step.
LEMMA SpeedIsSumPrime == \A m : SumOfSpeeds(m)' = Sum(devs', MembersOf(m)')
<1>1. (\A m : SumOfSpeeds(m) = Sum(devs, MembersOf(m)))'
  BY SpeedIsSum, PTL
<1> QED
  BY <1>1

\* The table as it is before the discovery looks at a port.
EmptyTable == devs = <<>> /\ merged = <<>> /\ next = 1 /\ nIbDevs \in {-1, 0}

\* An empty table satisfies the parts about the table, ...
LEMMA EmptyTableInv == EmptyTable => PortsInv /\ MergedInv
<1> SUFFICES ASSUME EmptyTable PROVE PortsInv /\ MergedInv
  OBVIOUS
<1>1. Usable \cap 1 .. 0 = {}
  OBVIOUS
<1>2. Cardinality(Usable \cap 1 .. next - 1) = 0
  BY <1>1, FS_EmptySet DEF EmptyTable
<1> QED
  BY <1>2, Limits DEF EmptyTable, PortsInv, MergedInv

\* ... also when a step has emptied it.
LEMMA EmptyTableInvPrime == EmptyTable' => PortsInv' /\ MergedInv'
<1>1. (EmptyTable => PortsInv /\ MergedInv)'
  BY EmptyTableInv, PTL
<1> QED
  BY <1>1

\* DiscoveryInv holds before any thread has asked.
LEMMA InitInv == Init => DiscoveryInv
<1> SUFFICES ASSUME Init PROVE DiscoveryInv
  OBVIOUS
<1>1. ports \in Seq(Range(ports)) /\ Len(ports) \in Nat
  BY InitAssumption DEF Init
<1>2. mergeNics \in BOOLEAN /\ complete \in BOOLEAN
  BY Zenon DEF Init
<1>3. TypeOK
  BY <1>1, <1>2 DEF Init, TypeOK, NotAsked
<1>4. LockInv /\ ThreadInv
  BY Limits DEF Init, LockInv, ThreadInv
<1>5. EmptyTable
  BY DEF Init, EmptyTable
<1> QED
  BY <1>3, <1>4, <1>5, EmptyTableInv DEF DiscoveryInv, TypeOK

----------------------------------------------------------------------------
\* Nothing about the table changes unless the table does.
LEMMA MergedFrame ==
    ASSUME MergedInv, UNCHANGED <<devs, merged, mergeNics>>
    PROVE  MergedInv'
<1>1. \A m : MembersOf(m)' = MembersOf(m)
  BY DEF MembersOf
<1>2. \A m : SumOfSpeeds(m)' = SumOfSpeeds(m)
  BY <1>1, SpeedIsSum, SpeedIsSumPrime
<1> QED
  BY <1>1, <1>2 DEF MergedInv

\* A step that leaves the table alone keeps them.
LEMMA TableFrame ==
    ASSUME PortsInv, MergedInv, UNCHANGED <<ports, nIbDevs, devs, merged, next, mergeNics>>
    PROVE  PortsInv' /\ MergedInv'
<1>1. Usable' = Usable
  BY DEF Usable
<1>2. PortsInv'
  BY <1>1 DEF PortsInv
<1> QED
  BY <1>2, MergedFrame

\* While a thread discovers, it alone does, and nobody has finished.
LEMMA Discovering ==
    ASSUME DiscoveryInv, NEW t \in Threads, pc[t] = "discover"
    PROVE  /\ lock = t /\ lock # Nobody /\ ~complete /\ nIbDevs = Len(devs) /\ Len(devs) \in Nat
           /\ \A u \in Threads : pc[u] = "discover" => u = t
<1>1. lock = t /\ lock # Nobody
  BY Limits DEF DiscoveryInv, LockInv
<1>2. ~complete /\ nIbDevs # -1
  BY <1>1 DEF DiscoveryInv, LockInv
<1>3. Len(devs) \in Nat
  BY DEF DiscoveryInv, TypeOK
<1> QED
  BY <1>1, <1>2, <1>3 DEF DiscoveryInv, LockInv, PortsInv

\* Enter keeps DiscoveryInv.
LEMMA EnterInv ==
    ASSUME DiscoveryInv, NEW t \in Threads, Enter(t)
    PROVE  DiscoveryInv'
<1> USE DEF DiscoveryInv
<1>1. TypeOK'
  BY DEF Enter, Return, TypeOK
<1>2. PortsInv' /\ MergedInv'
  BY TableFrame DEF Enter
<1>3. ListEnds' = ListEnds /\ Mixed' = Mixed
  BY DEF Enter, ListEnds, Mixed
<1>4. Failed' = Failed
  BY DEF Enter, Return, Failed, TypeOK, ThreadInv
<1>5. LockInv'
  BY <1>3, <1>4 DEF Enter, Return, TypeOK, LockInv
<1>6. ThreadInv'
  <2>1. t \notin waited /\ seen[t] = NotAsked
    BY DEF Enter, ThreadInv, TypeOK
  <2> QED
    BY <1>4, <2>1 DEF Enter, Return, TypeOK, ThreadInv
<1> QED
  BY <1>1, <1>2, <1>5, <1>6

\* Lock keeps DiscoveryInv.
LEMMA LockStepInv ==
    ASSUME DiscoveryInv, NEW t \in Threads, Lock(t)
    PROVE  DiscoveryInv'
<1> USE DEF DiscoveryInv
<1>1. CASE MustDiscover
  <2>1. EmptyTable'
    BY <1>1 DEF Lock, EmptyTable
  <2>2. PortsInv' /\ MergedInv'
    BY <2>1, EmptyTableInvPrime
  <2>3. mergeNics' \in BOOLEAN
    BY <1>1, Limits DEF Lock
  <2>4. TypeOK'
    <3>1. Len(ports) \in Nat /\ lock' = t
      BY <1>1, PortTypes DEF Lock, Holder
    <3>2. pc' \in [Threads -> {"start", "lock", "discover", "done"}]
      BY <1>1 DEF Lock, TypeOK
    <3>3. nIbDevs' \in -1 .. Len(ports) /\ next' \in 1 .. Len(ports) + 1
      BY <1>1, <3>1 DEF Lock
    <3> QED
      BY <1>1, <2>3, <3>1, <3>2, <3>3 DEF Lock, TypeOK
  <2>5. Failed' = Failed
    BY <1>1 DEF Lock, Failed
  <2>6. ~complete /\ ~complete'
    BY <1>1 DEF Lock, MustDiscover, LockInv
  <2>7. LockInv'
    BY <1>1, <2>6, Limits DEF Lock, Holder, LockInv, TypeOK
  <2>8. ThreadInv'
    BY <1>1, <2>5, <2>6 DEF Lock, ThreadInv, TypeOK
  <2> QED
    BY <2>2, <2>4, <2>7, <2>8
<1>2. CASE ~MustDiscover
  <2>1. TypeOK'
    BY <1>2 DEF Lock, Return, TypeOK
  <2>2. PortsInv' /\ MergedInv'
    BY <1>2, TableFrame DEF Lock
  <2>3. ListEnds' = ListEnds /\ Mixed' = Mixed
    BY <1>2 DEF Lock, ListEnds, Mixed
  <2>4. Failed' = Failed
    BY <1>2 DEF Lock, Return, Failed, TypeOK, ThreadInv
  <2>5. LockInv'
    BY <1>2, <2>3, <2>4 DEF Lock, Return, TypeOK, LockInv
  <2>6. complete \/ Failed
    BY <1>2 DEF Lock, MustDiscover, LockInv
  <2>7. ThreadInv'
    BY <1>2, <2>4, <2>6 DEF Lock, Return, TypeOK, ThreadInv
  <2> QED
    BY <2>1, <2>2, <2>5, <2>7
<1> QED
  BY <1>1, <1>2

\* The lock and the threads in a step of the discovery that does not end it.
LEMMA DiscoveryStep ==
    ASSUME DiscoveryInv, NEW t \in Threads, pc[t] = "discover", nIbDevs' \in Nat,
           UNCHANGED <<lock, pc, ret, seen, waited, complete>>
    PROVE  LockInv' /\ ThreadInv'
<1>1. lock = t /\ lock # Nobody /\ ~complete
  BY Discovering
<1>2. Failed' = Failed
  BY DEF Failed
<1>3. LockInv'
  BY <1>1 DEF DiscoveryInv, LockInv
<1>4. ThreadInv'
  BY <1>1, <1>2 DEF DiscoveryInv, ThreadInv
<1> QED
  BY <1>3, <1>4

\* Rebuild keeps DiscoveryInv.
LEMMA RebuildInv ==
    ASSUME DiscoveryInv, NEW t \in Threads, Rebuild(t)
    PROVE  DiscoveryInv'
<1>1. EmptyTable'
  BY DEF Rebuild, EmptyTable
<1>2. PortsInv' /\ MergedInv'
  BY <1>1, EmptyTableInvPrime
<1>3. LockInv' /\ ThreadInv'
  BY DiscoveryStep DEF Rebuild
<1>4. mergeNics' \in BOOLEAN
  BY Zenon DEF Rebuild
<1>5. TypeOK'
  BY <1>4, PortTypes DEF DiscoveryInv, TypeOK, Rebuild
<1> QED
  BY <1>2, <1>3, <1>5 DEF DiscoveryInv

\* DiscoveryFails keeps DiscoveryInv.
LEMMA DiscoveryFailsInv ==
    ASSUME DiscoveryInv, NEW t \in Threads, DiscoveryFails(t)
    PROVE  DiscoveryInv'
<1>1. TypeOK'
  BY DEF DiscoveryInv, DiscoveryFails, Return, TypeOK
<1>2. PortsInv' /\ MergedInv'
  BY TableFrame DEF DiscoveryInv, DiscoveryFails
<1>3. Failed'
  BY DEF DiscoveryInv, DiscoveryFails, Return, TypeOK, Failed
<1>4. lock = t /\ lock # Nobody /\ ~complete /\ nIbDevs # -1
      /\ \A u \in Threads : pc[u] = "discover" => u = t
  BY Discovering DEF DiscoveryFails
<1>5. LockInv'
  BY <1>3, <1>4, Limits DEF DiscoveryInv, DiscoveryFails, Return, TypeOK, LockInv
<1>6. ThreadInv'
  BY <1>3 DEF DiscoveryInv, DiscoveryFails, Return, TypeOK, ThreadInv
<1> QED
  BY <1>1, <1>2, <1>5, <1>6 DEF DiscoveryInv

\* Discovered keeps DiscoveryInv.
LEMMA DiscoveredInv ==
    ASSUME DiscoveryInv, NEW t \in Threads, Discovered(t)
    PROVE  DiscoveryInv'
<1>1. TypeOK'
  <2>1. complete' \in BOOLEAN
    BY Zenon DEF Discovered
  <2> QED
    BY <2>1 DEF DiscoveryInv, Discovered, Return, TypeOK
<1>2. PortsInv' /\ MergedInv'
  BY TableFrame DEF DiscoveryInv, Discovered
<1>3. ListEnds' = ListEnds /\ Mixed' = Mixed
  BY DEF Discovered, ListEnds, Mixed
<1>4. lock = t /\ ~complete /\ nIbDevs = Len(devs) /\ Len(devs) \in Nat
      /\ \A u \in Threads : pc[u] = "discover" => u = t
  BY Discovering DEF Discovered
<1>5. LockInv'
  BY <1>3, <1>4, Limits DEF DiscoveryInv, Discovered, Return, TypeOK, LockInv
<1>6. Failed' = Failed
  BY DEF DiscoveryInv, Discovered, Return, TypeOK, Failed, ThreadInv
<1>7. ThreadInv'
  BY <1>4, <1>6 DEF DiscoveryInv, Discovered, Return, TypeOK, ThreadInv
<1> QED
  BY <1>1, <1>2, <1>5, <1>7 DEF DiscoveryInv

\* Devices keeps DiscoveryInv.
LEMMA DevicesInv ==
    ASSUME DiscoveryInv, NEW t \in Threads, Devices(t)
    PROVE  DiscoveryInv'
<1>1. PortsInv' /\ MergedInv'
  BY TableFrame DEF DiscoveryInv, Devices
<1>2. Len(merged) \in Nat /\ Len(merged) <= Len(ports)
  <2>1. Len(merged) <= Len(devs) /\ Len(devs) < next /\ next \in 1 .. Len(ports) + 1
    BY DEF DiscoveryInv, MergedInv, PortsInv, TypeOK
  <2>2. Len(merged) \in Nat /\ Len(devs) \in Nat /\ Len(ports) \in Nat
    BY PortTypes DEF DiscoveryInv, TypeOK
  <2> QED
    BY <2>1, <2>2
<1>3. seen' \in [Threads -> -1 .. Len(ports)]
  BY <1>2 DEF DiscoveryInv, TypeOK, Devices
<1>4. TypeOK'
  BY <1>3 DEF DiscoveryInv, Devices, TypeOK
<1>5. LockInv'
  BY DEF DiscoveryInv, Devices, LockInv, ListEnds, Mixed, Failed
<1>6. ThreadInv'
  BY DEF DiscoveryInv, Devices, ThreadInv, TypeOK, Failed
<1> QED
  BY <1>1, <1>4, <1>5, <1>6 DEF DiscoveryInv

----------------------------------------------------------------------------
\* The merged device that a port goes to has room and agrees with it, or is new.
LEMMA MatchingDev ==
    ASSUME TypeOK, NEW port, NEW m, m = FindMatchingDev(port)
    PROVE  /\ m \in 1 .. Len(merged) + 1 /\ Len(merged) \in Nat
           /\ m <= Len(merged) => /\ mergeNics /\ Len(merged[m].devs) < MaxDevsPerNic
                                  /\ devs[merged[m].devs[1]].key = port.key
<1> DEFINE match == {k \in DOMAIN merged :
                        /\ Len(merged[k].devs) < MaxDevsPerNic
                        /\ devs[merged[k].devs[1]].key = port.key}
<1>1. Len(merged) \in Nat /\ DOMAIN merged = 1 .. Len(merged)
  BY DEF TypeOK
<1>2. m = IF mergeNics /\ match # {} THEN Min(match) ELSE Len(merged) + 1
  BY DEF FindMatchingDev
<1>3. CASE mergeNics /\ match # {}
  <2>1. match \in SUBSET Nat
    BY <1>1
  <2>2. \E k \in match : \A j \in match : k <= j
    BY <1>3, <2>1, LeastNatural
  <2>3. Min(match) \in match
    BY <2>2 DEF Min
  <2>4. m \in match
    BY <1>2, <1>3, <2>3
  <2> QED
    BY <1>1, <1>3, <2>4
<1>4. CASE ~(mergeNics /\ match # {})
  <2>1. m = Len(merged) + 1
    BY <1>2, <1>4
  <2> QED
    BY <1>1, <2>1
<1> QED
  BY <1>3, <1>4

\* The other merged devices.
OthersKept(m) ==
    \A k \in 1 .. Len(merged') : k # m => k \in 1 .. Len(merged) /\ merged'[k] = merged[k]

\* What AddPort does to the merged devices.
LEMMA MergedAfterAdd ==
    ASSUME TypeOK, NEW port, port.speed \in Nat, AddPort(port),
           NEW m, m = FindMatchingDev(port), NEW d, d = Len(devs) + 1
    PROVE  /\ merged' \in Seq(MergedDev)
           /\ m \in 1 .. Len(merged')
           /\ OthersKept(m)
           /\ IF m \in 1 .. Len(merged)
              THEN /\ Len(merged') = Len(merged)
                   /\ merged'[m] = [devs |-> Append(merged[m].devs, d),
                                    speed |-> merged[m].speed + port.speed]
              ELSE /\ Len(merged') = Len(merged) + 1
                   /\ merged'[m] = [devs |-> <<d>>, speed |-> port.speed]
<1>1. merged \in Seq(MergedDev) /\ d \in Nat /\ m \in 1 .. Len(merged) + 1 /\ Len(merged) \in Nat
  BY MatchingDev DEF TypeOK
<1>2. merged' = IF m > Len(merged)
                THEN Append(merged, [devs |-> <<d>>, speed |-> port.speed])
                ELSE [merged EXCEPT ![m] = [devs |-> Append(@.devs, d), speed |-> @.speed + port.speed]]
  BY DEF AddPort
<1>3. CASE m > Len(merged)
  <2> DEFINE e == [devs |-> <<d>>, speed |-> port.speed]
  <2>1. e \in MergedDev
    BY <1>1 DEF MergedDev
  <2>2. merged' = Append(merged, e)
    BY <1>2, <1>3
  <2> HIDE DEF e
  <2>3. /\ merged' \in Seq(MergedDev) /\ Len(merged') = Len(merged) + 1 /\ merged'[Len(merged) + 1] = e
        /\ \A i \in 1 .. Len(merged) : merged'[i] = merged[i]
    BY <1>1, <2>1, <2>2, AppendProperties
  <2>4. m = Len(merged) + 1 /\ m \notin 1 .. Len(merged)
    BY <1>1, <1>3
  <2> QED
    BY <1>1, <2>3, <2>4 DEF e, OthersKept
<1>4. CASE m <= Len(merged)
  <2> DEFINE e == [devs |-> Append(merged[m].devs, d), speed |-> merged[m].speed + port.speed]
  <2>1. m \in 1 .. Len(merged)
    BY <1>1, <1>4
  <2>2. merged[m] \in MergedDev
    BY <1>1, <2>1
  <2>3. e \in MergedDev
    <3>1. Append(merged[m].devs, d) \in Seq(Nat) /\ merged[m].speed + port.speed \in Nat
      <4>1. ASSUME NEW y \in MergedDev PROVE y.devs \in Seq(Nat) /\ y.speed \in Nat
        BY DEF MergedDev
      <4>2. PICK y \in MergedDev : y = merged[m]
        BY <2>2
      <4> QED
        BY <1>1, <4>1, <4>2
    <3> QED
      BY <3>1 DEF MergedDev
  <2>4. merged' = [merged EXCEPT ![m] = e]
    BY <1>1, <1>2, <1>4, <2>1
  <2> HIDE DEF e
  <2>5. merged' \in Seq(MergedDev) /\ Len(merged') = Len(merged) /\ merged'[m] = e
        /\ \A i \in 1 .. Len(merged) : i # m => merged'[i] = merged[i]
    BY <1>1, <2>1, <2>3, <2>4, ExceptSeq
  <2> QED
    BY <1>1, <2>1, <2>5 DEF e, OthersKept
<1> QED
  BY <1>1, <1>3, <1>4

\* What it does to the sets of members.
LEMMA MembersAfterAdd ==
    ASSUME TypeOK, NEW port, port.speed \in Nat, AddPort(port),
           NEW m, m = FindMatchingDev(port), NEW d, d = Len(devs) + 1
    PROVE  /\ \A k \in 1 .. Len(merged') : k # m => MembersOf(k)' = MembersOf(k)
           /\ m \in 1 .. Len(merged) => MembersOf(m)' = MembersOf(m) \cup {d}
           /\ m \notin 1 .. Len(merged) => MembersOf(m)' = {d}
<1>1. /\ m \in 1 .. Len(merged')
      /\ \A k \in 1 .. Len(merged') : k # m => merged'[k] = merged[k]
      /\ m \notin 1 .. Len(merged) => merged'[m].devs = <<d>>
      /\ m \in 1 .. Len(merged) => merged'[m].devs = Append(merged[m].devs, d)
  <2>1. m \in 1 .. Len(merged') /\ OthersKept(m)
    BY MergedAfterAdd
  <2>2. ASSUME m \notin 1 .. Len(merged) PROVE merged'[m].devs = <<d>>
    <3>1. merged'[m] = [devs |-> <<d>>, speed |-> port.speed]
      BY <2>2, MergedAfterAdd
    <3> QED
      BY <3>1
  <2>3. ASSUME m \in 1 .. Len(merged) PROVE merged'[m].devs = Append(merged[m].devs, d)
    <3>1. merged'[m] = [devs |-> Append(merged[m].devs, d), speed |-> merged[m].speed + port.speed]
      BY <2>3, MergedAfterAdd
    <3> QED
      BY <3>1
  <2> QED
    BY <2>1, <2>2, <2>3 DEF OthersKept
<1>2. d \in Nat
  BY DEF TypeOK
<1>3. \A k \in 1 .. Len(merged') : k # m => MembersOf(k)' = MembersOf(k)
  BY <1>1 DEF MembersOf
<1>4. ASSUME m \in 1 .. Len(merged) PROVE MembersOf(m)' = MembersOf(m) \cup {d}
  <2> DEFINE q == merged[m].devs
             q2 == merged'[m].devs
  <2>1. q \in Seq(Nat)
    <3>1. merged[m] \in MergedDev
      BY <1>4 DEF TypeOK
    <3> QED
      BY <3>1 DEF MergedDev
  <2>2. q2 = Append(q, d)
    BY <1>1, <1>4
  <2>3. MembersOf(m) = {q[j] : j \in DOMAIN q} /\ MembersOf(m)' = {q2[j] : j \in DOMAIN q2}
    BY DEF MembersOf
  <2> HIDE DEF q, q2
  <2>4. /\ Len(q) \in Nat /\ DOMAIN q = 1 .. Len(q)
        /\ DOMAIN q2 = 1 .. Len(q) + 1 /\ q2[Len(q) + 1] = d
        /\ \A i \in 1 .. Len(q) : q2[i] = q[i]
    BY <1>2, <2>1, <2>2
  <2> QED
    BY <2>3, <2>4
<1>5. ASSUME m \notin 1 .. Len(merged) PROVE MembersOf(m)' = {d}
  BY <1>1, <1>5 DEF MembersOf
<1> QED
  BY <1>3, <1>4, <1>5

\* A port joins the table: the merged devices.
LEMMA MergedAddInv ==
    ASSUME DiscoveryInv, NEW port \in Range(ports), AddPort(port), UNCHANGED <<ports, mergeNics>>
    PROVE  MergedInv' /\ merged' \in Seq(MergedDev)
<1> SUFFICES ASSUME NEW m, m = FindMatchingDev(port), NEW d, d = Len(devs) + 1
             PROVE  MergedInv' /\ merged' \in Seq(MergedDev)
  OBVIOUS
<1> USE DEF DiscoveryInv
<1>1. /\ port.speed \in Nat /\ Len(devs) \in Nat /\ DOMAIN devs = 1 .. Len(devs)
      /\ Len(devs') = d /\ DOMAIN devs' = 1 .. d /\ devs'[d] = port
      /\ \A i \in 1 .. Len(devs) : devs'[i] = devs[i] /\ devs[i].speed \in Nat
  <2>1. port.speed \in Nat /\ \A p \in Range(ports) : p.speed \in Nat
    BY PortTypes
  <2>2. devs \in Seq(Range(ports)) /\ devs' = Append(devs, port)
    BY DEF TypeOK, AddPort
  <2> QED
    BY <2>1, <2>2
<1>2. /\ merged' \in Seq(MergedDev) /\ merged \in Seq(MergedDev) /\ Len(merged) \in Nat
      /\ Len(merged') \in Nat /\ DOMAIN merged = 1 .. Len(merged) /\ DOMAIN merged' = 1 .. Len(merged')
      /\ m \in 1 .. Len(merged')
  <2>1. merged' \in Seq(MergedDev) /\ m \in 1 .. Len(merged')
    BY <1>1, MergedAfterAdd
  <2>2. merged \in Seq(MergedDev)
    BY DEF TypeOK
  <2> QED
    BY <2>1, <2>2
<1>3. \A k \in 1 .. Len(merged') : k # m =>
          k \in 1 .. Len(merged) /\ merged'[k] = merged[k] /\ MembersOf(k)' = MembersOf(k)
  <2>1. OthersKept(m)
    BY <1>1, MergedAfterAdd
  <2> QED
    BY <2>1 DEF OthersKept, MembersOf
<1>4. ASSUME m \in 1 .. Len(merged)
      PROVE  /\ Len(merged') = Len(merged) /\ MembersOf(m)' = MembersOf(m) \cup {d}
             /\ merged'[m] = [devs |-> Append(merged[m].devs, d), speed |-> merged[m].speed + port.speed]
  <2>0. TypeOK /\ port.speed \in Nat
    BY <1>1
  <2> HIDE DEF DiscoveryInv
  <2>1. /\ Len(merged') = Len(merged)
        /\ merged'[m] = [devs |-> Append(merged[m].devs, d), speed |-> merged[m].speed + port.speed]
    BY <1>4, <2>0, MergedAfterAdd
  <2>2. MembersOf(m)' = MembersOf(m) \cup {d}
    BY <1>4, <2>0, MembersAfterAdd
  <2> QED
    BY <2>1, <2>2
<1>5. ASSUME m \notin 1 .. Len(merged)
      PROVE  /\ Len(merged') = Len(merged) + 1 /\ MembersOf(m)' = {d}
             /\ merged'[m] = [devs |-> <<d>>, speed |-> port.speed]
  <2>0. TypeOK /\ port.speed \in Nat
    BY <1>1
  <2>1. merged'[m] = [devs |-> <<d>>, speed |-> port.speed]
    <3> HIDE DEF DiscoveryInv
    <3> QED
      BY <1>5, <2>0, MergedAfterAdd
  <2>2. MembersOf(m)' = {d}
    <3> HIDE DEF DiscoveryInv
    <3> QED
      BY <1>5, <2>0, MembersAfterAdd
  <2>3. Len(merged') = Len(merged) + 1
    <3> HIDE DEF DiscoveryInv
    <3> QED
      BY <1>5, <2>0, MergedAfterAdd
  <2> QED
    BY <2>1, <2>2, <2>3
<1>6. \A k \in 1 .. Len(merged) : MembersOf(k) \subseteq 1 .. Len(devs) /\ d \notin MembersOf(k)
  <2>1. d \notin 1 .. Len(devs)
    BY <1>1
  <2>2. \A k \in 1 .. Len(merged) : MembersOf(k) \subseteq 1 .. Len(devs)
    BY <1>1, <1>2, Zenon DEF MergedInv
  <2> QED
    BY <2>1, <2>2, Zenon
<1>7. Len(merged') <= Len(devs')
  <2>1. Len(merged) <= Len(devs)
    BY DEF MergedInv
  <2>2. Len(merged') = Len(merged) \/ Len(merged') = Len(merged) + 1
    BY <1>4, <1>5
  <2>3. Len(merged) \in Nat /\ Len(devs) \in Nat /\ Len(devs') = Len(devs) + 1
    BY <1>1, <1>2
  <2> QED
    BY <2>1, <2>2, <2>3
<1>8. ASSUME NEW e \in 1 .. d
      PROVE  \E k \in 1 .. Len(merged') :
                e \in MembersOf(k)' /\ \A j \in 1 .. Len(merged') : e \in MembersOf(j)' => j = k
  <2>1. CASE e = d
    <3>1. d \in MembersOf(m)'
      BY <1>4, <1>5
    <3>2. ASSUME NEW j \in 1 .. Len(merged'), d \in MembersOf(j)' PROVE j = m
      BY <1>3, <1>6, <3>2
    <3> QED
      BY <1>2, <2>1, <3>1, <3>2
  <2>2. CASE e # d
    <3>1. e \in 1 .. Len(devs)
      BY <1>1, <2>2
    <3>2. PICK k \in 1 .. Len(merged) :
             e \in MembersOf(k) /\ \A j \in 1 .. Len(merged) : e \in MembersOf(j) => j = k
      BY <1>1, <1>2, <3>1 DEF MergedInv
    <3>3. k \in 1 .. Len(merged')
      <4>1. Len(merged') = Len(merged) \/ Len(merged') = Len(merged) + 1
        BY <1>4, <1>5
      <4>2. Len(merged) \in Nat
        BY <1>2
      <4> QED
        BY <4>1, <4>2
    <3>4. e \in MembersOf(k)'
      BY <1>3, <1>4, <3>2, <3>3
    <3>5. ASSUME NEW j \in 1 .. Len(merged'), e \in MembersOf(j)' PROVE j = k
      <4>1. CASE j # m
        BY <1>3, <3>2, <3>5, <4>1
      <4>2. CASE j = m /\ m \in 1 .. Len(merged)
        BY <1>4, <2>2, <3>2, <3>5, <4>2
      <4>3. CASE j = m /\ m \notin 1 .. Len(merged)
        BY <1>5, <2>2, <3>5, <4>3
      <4> QED
        BY <4>1, <4>2, <4>3
    <3> QED
      BY <3>3, <3>4, <3>5
  <2> QED
    BY <2>1, <2>2
<1>9. ASSUME NEW k \in 1 .. Len(merged)
      PROVE  /\ Len(merged[k].devs) \in 1 .. (IF mergeNics THEN MaxDevsPerNic ELSE 1)
             /\ Len(merged[k].devs) = Cardinality(MembersOf(k))
             /\ \A e \in MembersOf(k) : devs[e].key = devs[merged[k].devs[1]].key
             /\ merged[k].speed = Sum(devs, MembersOf(k))
             /\ merged[k].devs \in Seq(Nat) /\ merged[k].devs[1] \in MembersOf(k)
             /\ IsFiniteSet(MembersOf(k)) /\ Summable(devs, MembersOf(k))
  <2>1. /\ Len(merged[k].devs) \in 1 .. (IF mergeNics THEN MaxDevsPerNic ELSE 1)
        /\ Len(merged[k].devs) = Cardinality(MembersOf(k))
        /\ \A e \in MembersOf(k) : devs[e].key = devs[merged[k].devs[1]].key
        /\ merged[k].speed = Sum(devs, MembersOf(k))
    BY <1>2, SpeedIsSum DEF MergedInv
  <2>2. merged[k].devs \in Seq(Nat)
    <3>1. merged[k] \in MergedDev
      BY <1>2
    <3> QED
      BY <3>1 DEF MergedDev
  <2>3. merged[k].devs[1] \in MembersOf(k)
    <3>1. Len(merged[k].devs) >= 1
      BY <2>1, Limits
    <3>2. 1 \in DOMAIN merged[k].devs
      BY <2>2, <3>1
    <3> QED
      BY <3>2 DEF MembersOf
  <2>4. IsFiniteSet(MembersOf(k))
    <3>1. IsFiniteSet(1 .. Len(devs))
      BY <1>1, FS_Interval
    <3>2. MembersOf(k) \in SUBSET (1 .. Len(devs))
      BY <1>6
    <3> QED
      BY <3>1, <3>2, FS_Subset
  <2>5. Summable(devs, MembersOf(k))
    BY <1>1, <1>6, <2>4 DEF Summable
  <2> QED
    BY <2>1, <2>2, <2>3, <2>4, <2>5
<1>10. ASSUME NEW k \in 1 .. Len(merged'), k # m
       PROVE  /\ Len(merged'[k].devs) \in 1 .. (IF mergeNics THEN MaxDevsPerNic ELSE 1)
              /\ Len(merged'[k].devs) = Cardinality(MembersOf(k)')
              /\ MembersOf(k)' \subseteq 1 .. d
              /\ \A e \in MembersOf(k)' : devs'[e].key = devs'[merged'[k].devs[1]].key
              /\ merged'[k].speed = Sum(devs', MembersOf(k)')
  <2>1. k \in 1 .. Len(merged) /\ merged'[k] = merged[k] /\ MembersOf(k)' = MembersOf(k)
    BY <1>3, <1>10
  <2>2. MembersOf(k) \subseteq 1 .. Len(devs) /\ merged[k].devs[1] \in MembersOf(k)
    BY <1>6, <1>9, <2>1
  <2>3. \A e \in MembersOf(k) : devs'[e] = devs[e]
    BY <1>1, <2>2
  <2>4. Sum(devs', MembersOf(k)) = Sum(devs, MembersOf(k))
    BY <1>9, <2>1, <2>3, SumSame
  <2>5. MembersOf(k) \subseteq 1 .. d
    BY <1>1, <2>2
  <2>6. \A e \in MembersOf(k)' : devs'[e].key = devs'[merged'[k].devs[1]].key
    <3>1. \A e \in MembersOf(k) : devs[e].key = devs[merged[k].devs[1]].key
      BY <1>9, <2>1
    <3> QED
      BY <2>1, <2>2, <2>3, <3>1
  <2> QED
    BY <1>9, <2>1, <2>4, <2>5, <2>6
<1>11. ASSUME m \in 1 .. Len(merged)
       PROVE  /\ Len(merged'[m].devs) \in 1 .. (IF mergeNics THEN MaxDevsPerNic ELSE 1)
              /\ Len(merged'[m].devs) = Cardinality(MembersOf(m)')
              /\ MembersOf(m)' \subseteq 1 .. d
              /\ \A e \in MembersOf(m)' : devs'[e].key = devs'[merged'[m].devs[1]].key
              /\ merged'[m].speed = Sum(devs', MembersOf(m)')
  <2>1. mergeNics /\ Len(merged[m].devs) < MaxDevsPerNic /\ devs[merged[m].devs[1]].key = port.key
    BY <1>2, <1>11, MatchingDev
  <2>2. MembersOf(m) \subseteq 1 .. Len(devs) /\ merged[m].devs[1] \in MembersOf(m) /\ d \notin MembersOf(m)
    BY <1>6, <1>9, <1>11
  <2>3. \A e \in MembersOf(m) : devs'[e] = devs[e]
    BY <1>1, <2>2
  <2>4. merged'[m].devs = Append(merged[m].devs, d) /\ merged'[m].speed = merged[m].speed + port.speed
        /\ MembersOf(m)' = MembersOf(m) \cup {d}
    BY <1>4, <1>11
  <2>5. /\ Len(merged'[m].devs) = Len(merged[m].devs) + 1 /\ merged'[m].devs[1] = merged[m].devs[1]
        /\ Len(merged[m].devs) >= 1 /\ Len(merged[m].devs) \in Nat
    BY <1>1, <1>9, <1>11, <2>4, Limits
  <2>6. Cardinality(MembersOf(m) \cup {d}) = Cardinality(MembersOf(m)) + 1
    BY <1>9, <1>11, <2>2, FS_AddElement
  <2>7. Sum(devs', MembersOf(m) \cup {d}) = Sum(devs, MembersOf(m)) + port.speed
    <3>1. /\ d \notin MembersOf(m) /\ Summable(devs, MembersOf(m))
          /\ port.speed \in Nat /\ port.speed = devs'[d].speed
      <4>1. Summable(devs, MembersOf(m))
        BY <1>9, <1>11, Zenon
      <4>2. port.speed \in Nat /\ devs'[d] = port
        BY <1>1, Zenon
      <4> QED
        BY <2>2, <4>1, <4>2, Zenon
    <3>2. SameSpeeds(devs, devs', MembersOf(m))
      BY <2>3 DEF SameSpeeds
    <3> QED
      BY <3>1, <3>2, SumAdd
  <2>8. \A e \in MembersOf(m)' : devs'[e].key = devs'[merged'[m].devs[1]].key
    <3>1. devs'[merged'[m].devs[1]].key = port.key
      BY <2>1, <2>2, <2>3, <2>5, Zenon
    <3>2. ASSUME NEW e \in MembersOf(m) PROVE devs'[e].key = port.key
      BY <1>9, <1>11, <2>1, <2>3, Zenon
    <3>3. devs'[d].key = port.key
      BY <1>1, Zenon
    <3>4. ASSUME NEW e \in MembersOf(m)' PROVE devs'[e].key = port.key
      BY <2>4, <3>2, <3>3, Zenon
    <3> QED
      BY <3>1, <3>4, Zenon
  <2>9. MembersOf(m)' \subseteq 1 .. d
    BY <1>1, <2>2, <2>4
  <2>10. Len(merged'[m].devs) \in 1 .. (IF mergeNics THEN MaxDevsPerNic ELSE 1)
    BY <2>1, <2>5, Limits
  <2>11. Len(merged'[m].devs) = Cardinality(MembersOf(m)')
    BY <1>9, <1>11, <2>4, <2>5, <2>6
  <2> QED
    BY <1>9, <1>11, <2>4, <2>7, <2>8, <2>9, <2>10, <2>11
<1>12. ASSUME m \notin 1 .. Len(merged)
       PROVE  /\ Len(merged'[m].devs) \in 1 .. (IF mergeNics THEN MaxDevsPerNic ELSE 1)
              /\ Len(merged'[m].devs) = Cardinality(MembersOf(m)')
              /\ MembersOf(m)' \subseteq 1 .. d
              /\ \A e \in MembersOf(m)' : devs'[e].key = devs'[merged'[m].devs[1]].key
              /\ merged'[m].speed = Sum(devs', MembersOf(m)')
  <2>1. merged'[m].devs = <<d>> /\ merged'[m].speed = port.speed /\ MembersOf(m)' = {d}
    BY <1>5, <1>12
  <2>2. Len(<<d>>) = 1 /\ <<d>>[1] = d
    OBVIOUS
  <2>3. Cardinality({d}) = 1
    BY FS_Singleton
  <2>4. Sum(devs', {d}) = port.speed
    BY <1>1, SumOne
  <2>5. 1 \in 1 .. (IF mergeNics THEN MaxDevsPerNic ELSE 1) /\ d \in 1 .. d
    BY <1>1, Limits
  <2> QED
    BY <2>1, <2>2, <2>3, <2>4, <2>5
<1>13. ASSUME NEW k \in 1 .. Len(merged')
       PROVE  /\ Len(merged'[k].devs) \in 1 .. (IF mergeNics THEN MaxDevsPerNic ELSE 1)
              /\ Len(merged'[k].devs) = Cardinality(MembersOf(k)')
              /\ MembersOf(k)' \subseteq 1 .. d
              /\ \A e \in MembersOf(k)' : devs'[e].key = devs'[merged'[k].devs[1]].key
              /\ merged'[k].speed = Sum(devs', MembersOf(k)')
  BY <1>10, <1>11, <1>12
<1>14. MergedInv'
  BY <1>1, <1>2, <1>7, <1>8, <1>13, SpeedIsSumPrime DEF MergedInv
<1> QED
  BY <1>2, <1>14

\* The next port of the list: a full table is left only by ports of its last device.
LEMMA NextPort ==
    ASSUME DiscoveryInv, NEW t \in Threads, Probe(t)
    PROVE  /\ next \in 1 .. Len(ports) /\ Len(ports) \in Nat /\ ports[next] \in Range(ports)
           /\ Len(devs) >= MaxIbDevs => ports[next].dev = ports[next - 1].dev
           /\ Len(devs) \in Nat /\ nIbDevs = Len(devs) /\ pc[t] = "discover"
           /\ ports[next].usable \in BOOLEAN
           /\ Len(devs) < next /\ Len(devs) = Cardinality(Usable \cap 1 .. next - 1)
           /\ Len(devs) >= MaxIbDevs => /\ devs[MaxIbDevs].dev = devs[Len(devs)].dev
                                        /\ devs[MaxIbDevs].dev = ports[next - 1].dev
<1>1. TypeOK /\ PortsInv
  BY DEF DiscoveryInv
<1>2. pc[t] = "discover" /\ ~ListEnds
  BY DEF Probe
<1>3. Len(devs) \in Nat /\ nIbDevs = Len(devs)
  BY <1>2, Discovering
<1>4. Len(ports) \in Nat /\ next \in 1 .. Len(ports) + 1 /\ next <= Len(ports)
  BY <1>1, <1>2, PortTypes DEF TypeOK, ListEnds
<1>5. ports[next] \in Range(ports)
  BY <1>1, <1>4, PortTypes
<1>6. ports[next].usable \in BOOLEAN
  BY <1>1, <1>5, PortTypes, Zenon
<1>7. Len(devs) >= MaxIbDevs => ports[next].dev = ports[next - 1].dev
  BY <1>2, <1>3, <1>4 DEF ListEnds
<1> QED
  BY <1>1, <1>2, <1>3, <1>4, <1>5, <1>6, <1>7 DEF PortsInv

\* A port that cannot be used is passed over.
LEMMA SkipPortInv ==
    ASSUME DiscoveryInv, NEW t \in Threads, Probe(t), ~ports[next].usable
    PROVE  PortsInv' /\ MergedInv' /\ TypeOK' /\ nIbDevs' \in Nat
<1>1. /\ next' = next + 1
      /\ UNCHANGED <<ports, nIbDevs, devs, merged, lock, mergeNics, pc, ret, seen, waited, complete>>
  BY DEF Probe
<1>2. TypeOK'
  BY <1>1, NextPort DEF DiscoveryInv, TypeOK
<1>3. MergedInv'
  BY <1>1, MergedFrame DEF DiscoveryInv
<1>4. /\ next \in 1 .. Len(ports) /\ Len(ports) \in Nat /\ Len(devs) \in Nat
      /\ nIbDevs = Len(devs) /\ Len(devs) < next /\ Len(devs) = Cardinality(Usable \cap 1 .. next - 1)
  BY NextPort
<1>5. Usable' \cap 1 .. next' - 1 = Usable \cap 1 .. next - 1
  <2>1. Usable' = Usable /\ next \notin Usable
    BY <1>1 DEF Usable
  <2>2. 1 .. next' - 1 = 1 .. next - 1 \cup {next}
    BY <1>1, <1>4
  <2> QED
    BY <2>1, <2>2
<1>6. Len(devs) >= MaxIbDevs =>
         devs[MaxIbDevs].dev = devs[Len(devs)].dev /\ devs[MaxIbDevs].dev = ports[next].dev
  BY NextPort
<1>7. next' - 1 = next /\ Len(devs) < next'
  BY <1>1, <1>4
<1>8. PortsInv'
  <2>1. Len(devs') = Cardinality(Usable' \cap 1 .. next' - 1)
    BY <1>1, <1>4, <1>5
  <2>2. nIbDevs' = Len(devs') /\ nIbDevs' # -1
    BY <1>1, <1>4
  <2>3. Len(devs') >= MaxIbDevs =>
          /\ devs'[MaxIbDevs].dev = devs'[Len(devs')].dev
          /\ devs'[MaxIbDevs].dev = ports'[next' - 1].dev
    BY <1>1, <1>6, <1>7
  <2> QED
    BY <1>1, <1>7, <2>1, <2>2, <2>3 DEF PortsInv
<1> QED
  BY <1>1, <1>2, <1>3, <1>4, <1>8

\* A port that can be used joins the table.
LEMMA UsePortInv ==
    ASSUME DiscoveryInv, NEW t \in Threads, Probe(t), ports[next].usable
    PROVE  PortsInv' /\ MergedInv' /\ TypeOK' /\ nIbDevs' \in Nat
<1>1. /\ next' = next + 1 /\ AddPort(ports[next])
      /\ UNCHANGED <<ports, lock, mergeNics, pc, ret, seen, waited, complete>>
  BY DEF Probe
<1>2. /\ next \in 1 .. Len(ports) /\ Len(ports) \in Nat /\ Len(devs) \in Nat
      /\ nIbDevs = Len(devs) /\ Len(devs) < next /\ Len(devs) = Cardinality(Usable \cap 1 .. next - 1)
      /\ ports[next] \in Range(ports)
  BY NextPort
<1>3. MergedInv' /\ merged' \in Seq(MergedDev)
  BY <1>1, <1>2, MergedAddInv
<1>4. devs \in Seq(Range(ports)) /\ devs' = Append(devs, ports[next]) /\ nIbDevs' = nIbDevs + 1
  BY <1>1 DEF DiscoveryInv, TypeOK, AddPort
<1>5. /\ devs' \in Seq(Range(ports)) /\ Len(devs') = Len(devs) + 1 /\ devs'[Len(devs) + 1] = ports[next]
      /\ \A i \in 1 .. Len(devs) : devs'[i] = devs[i]
  <2>1. \A port \in Range(ports) : \A s \in Seq(Range(ports)) :
           /\ Append(s, port) \in Seq(Range(ports)) /\ Len(Append(s, port)) = Len(s) + 1
           /\ Append(s, port)[Len(s) + 1] = port
           /\ \A i \in 1 .. Len(s) : Append(s, port)[i] = s[i]
    BY AppendProperties
  <2> DEFINE a == Append(devs, ports[next])
  <2>2. /\ a \in Seq(Range(ports)) /\ Len(a) = Len(devs) + 1 /\ a[Len(devs) + 1] = ports[next]
        /\ \A i \in 1 .. Len(devs) : a[i] = devs[i]
    BY <1>2, <1>4, <2>1, Zenon
  <2>3. devs' = a
    BY <1>4
  <2> HIDE DEF a
  <2> QED
    BY <2>2, <2>3
<1>6. nIbDevs' = Len(devs') /\ nIbDevs' \in 0 .. Len(ports) /\ next' \in 1 .. Len(ports) + 1
  BY <1>1, <1>2, <1>4, <1>5
<1>7. TypeOK'
  <2>1. Range(ports') = Range(ports) /\ nIbDevs' \in -1 .. Len(ports)
    BY <1>1, <1>2, <1>6
  <2> QED
    BY <1>1, <1>3, <1>5, <1>6, <2>1 DEF DiscoveryInv, TypeOK
<1>8. Len(devs') = Cardinality(Usable' \cap 1 .. next' - 1)
  <2> DEFINE U == Usable \cap 1 .. next - 1
  <2>1. Usable' = Usable /\ next \in Usable
    BY <1>1, <1>2, PortTypes DEF Usable, DiscoveryInv
  <2>2. 1 .. next' - 1 = 1 .. next - 1 \cup {next} /\ next \notin 1 .. next - 1
    BY <1>1, <1>2
  <2>3. Usable' \cap 1 .. next' - 1 = U \cup {next} /\ next \notin U
    BY <2>1, <2>2
  <2>4. IsFiniteSet(1 .. next - 1) /\ U \in SUBSET (1 .. next - 1)
    <3>1. 1 \in Int /\ next - 1 \in Int
      BY <1>2
    <3> QED
      BY <3>1, FS_Interval
  <2>5. IsFiniteSet(U)
    BY <2>4, FS_Subset
  <2> HIDE DEF U
  <2>6. Cardinality(U \cup {next}) = Cardinality(U) + 1
    BY <2>3, <2>5, FS_AddElement
  <2> QED
    BY <1>2, <1>5, <2>3, <2>6 DEF U
<1>9. ASSUME Len(devs') >= MaxIbDevs
      PROVE  /\ devs'[MaxIbDevs].dev = devs'[Len(devs')].dev
             /\ devs'[MaxIbDevs].dev = ports'[next' - 1].dev
  <2>1. next' - 1 = next /\ ports' = ports /\ devs'[Len(devs')] = ports[next]
    BY <1>1, <1>2, <1>5
  <2>2. CASE MaxIbDevs = Len(devs) + 1
    BY <1>5, <2>1, <2>2
  <2>3. CASE MaxIbDevs # Len(devs) + 1
    <3>1. MaxIbDevs \in 1 .. Len(devs)
      BY <1>2, <1>5, <1>9, <2>3, Limits
    <3>2. devs[MaxIbDevs].dev = ports[next - 1].dev /\ ports[next].dev = ports[next - 1].dev
      BY <1>2, <3>1, NextPort
    <3> QED
      BY <1>5, <2>1, <3>1, <3>2
  <2> QED
    BY <2>2, <2>3
<1>10. PortsInv'
  <2>1. Len(devs') < next' /\ nIbDevs' # -1
    BY <1>1, <1>2, <1>5, <1>6
  <2> QED
    BY <1>6, <1>8, <1>9, <2>1 DEF PortsInv
<1> QED
  BY <1>3, <1>6, <1>7, <1>10

\* Probe keeps DiscoveryInv, whether it uses the port or skips it.
LEMMA ProbeInv ==
    ASSUME DiscoveryInv, NEW t \in Threads, Probe(t)
    PROVE  DiscoveryInv'
<1>1. PortsInv' /\ MergedInv' /\ TypeOK' /\ nIbDevs' \in Nat
  BY NextPort, SkipPortInv, UsePortInv
<1>2. pc[t] = "discover" /\ UNCHANGED <<lock, pc, ret, seen, waited, complete>>
  BY DEF Probe
<1> QED
  BY <1>1, <1>2, DiscoveryStep DEF DiscoveryInv

\* Every step keeps DiscoveryInv.
LEMMA NextInv == DiscoveryInv /\ [Next]_vars => DiscoveryInv'
<1> SUFFICES ASSUME DiscoveryInv, [Next]_vars
             PROVE  DiscoveryInv'
  OBVIOUS
<1>1. CASE UNCHANGED vars
  <2>1. PortsInv' /\ MergedInv'
    BY <1>1, TableFrame DEF vars, DiscoveryInv
  <2>2. TypeOK'
    BY <1>1 DEF vars, DiscoveryInv, TypeOK
  <2>3. LockInv' /\ ThreadInv'
    BY <1>1 DEF vars, DiscoveryInv, LockInv, ThreadInv, Failed, ListEnds, Mixed
  <2> QED
    BY <2>1, <2>2, <2>3 DEF DiscoveryInv
<1>2. ASSUME NEW t \in Threads, Step(t)
      PROVE  DiscoveryInv'
  BY <1>2, EnterInv, LockStepInv, ProbeInv, DiscoveryFailsInv, RebuildInv, DiscoveredInv, DevicesInv DEF Step
<1> QED
  BY <1>1, <1>2 DEF Next

----------------------------------------------------------------------------
(***************************************************************************)
(* The inductive invariant of ncclIbInit: the lock and ncclNIbDevs keep    *)
(* all but one thread out of the discovery, and the tables of devices are  *)
(* right after every port it looks at, for any number of threads, any      *)
(* node, and whether or not a discovery fails.                             *)
(***************************************************************************)
THEOREM Discovery == Spec => []DiscoveryInv
  BY InitInv, NextInv, PTL DEF Spec

(***************************************************************************)
(* What a finished ncclIbInit leaves in ncclIbDevs and ncclIbMergedDevs,   *)
(* after the first list or after building it again without merging.        *)
(***************************************************************************)
THEOREM Merging == Spec => []MergedDevsExact
<1>1. DiscoveryInv => MergedDevsExact
  <2> SUFFICES ASSUME DiscoveryInv, complete PROVE MergedDevsExact
    BY DEF MergedDevsExact
  <2> USE DEF DiscoveryInv
  <2>1. nIbDevs # -1 /\ ListEnds /\ ~(mergeNics /\ Mixed)
    BY DEF LockInv
  <2>2. nIbDevs = Len(devs) /\ Len(devs) = Cardinality(Usable \cap 1 .. next - 1)
    BY <2>1 DEF PortsInv
  <2>3. /\ Len(devs) \in Nat /\ Len(ports) \in Nat /\ next \in 1 .. Len(ports) + 1
        /\ DOMAIN devs = 1 .. Len(devs) /\ merged \in Seq(MergedDev)
        /\ Len(merged) \in Nat /\ DOMAIN merged = 1 .. Len(merged)
    BY PortTypes DEF TypeOK
  <2>4. next <= Len(ports) => Len(devs) >= MaxIbDevs
    BY <2>1, <2>2, <2>3 DEF ListEnds
  <2>5. Len(devs) > MaxIbDevs => devs[MaxIbDevs].dev = devs[Len(devs)].dev
    BY <2>3, Limits DEF PortsInv
  <2>6. ASSUME NEW d \in DOMAIN devs
        PROVE  Cardinality({m \in DOMAIN merged : d \in MembersOf(m)}) = 1
    <3>1. PICK m \in DOMAIN merged :
             d \in MembersOf(m) /\ \A k \in DOMAIN merged : d \in MembersOf(k) => k = m
      BY DEF MergedInv
    <3>2. {k \in DOMAIN merged : d \in MembersOf(k)} = {m}
      BY <3>1
    <3> QED
      BY <3>2, FS_Singleton
  <2>7. ASSUME NEW m \in DOMAIN merged
        PROVE  /\ Len(merged[m].devs) = Cardinality(MembersOf(m))
               /\ Len(merged[m].devs) = Len(merged[1].devs)
               /\ Len(merged[m].devs) <= MaxDevsPerNic
               /\ \A d \in MembersOf(m) : devs[d].key = devs[merged[m].devs[1]].key
               /\ merged[m].speed = SumOfSpeeds(m)
    <3>1. /\ Len(merged[m].devs) = Cardinality(MembersOf(m))
          /\ \A d \in MembersOf(m) : devs[d].key = devs[merged[m].devs[1]].key
          /\ merged[m].speed = SumOfSpeeds(m)
      BY DEF MergedInv
    <3>2. Len(merged[m].devs) \in 1 .. (IF mergeNics THEN MaxDevsPerNic ELSE 1)
      BY DEF MergedInv
    <3>3. Len(merged[1].devs) \in 1 .. (IF mergeNics THEN MaxDevsPerNic ELSE 1)
      <4>1. 1 \in DOMAIN merged
        BY <2>3
      <4> QED
        BY <4>1 DEF MergedInv
    <3>4. Len(merged[m].devs) <= MaxDevsPerNic
      BY <3>2, Limits
    <3>5. Len(merged[m].devs) = Len(merged[1].devs)
      <4>1. CASE mergeNics
        BY <2>1, <4>1 DEF Mixed
      <4>2. CASE ~mergeNics
        BY <3>2, <3>3, <4>2
      <4> QED
        BY <4>1, <4>2
    <3> QED
      BY <3>1, <3>4, <3>5
  <2> QED
    BY <2>2, <2>4, <2>5, <2>6, <2>7 DEF MergedDevsExact
<1> QED
  BY <1>1, Discovery, PTL

(***************************************************************************)
(* Once a discovery has come to its end no step of any thread touches the  *)
(* tables again: a thread that passed the test without the lock before     *)
(* finds ncclNIbDevs set under it.                                         *)
(***************************************************************************)
THEOREM Once == Spec => DiscoveredOnce
<1>1. DiscoveryInv /\ [Next]_vars => (complete => UNCHANGED <<nIbDevs, devs, merged>>)
  <2> SUFFICES ASSUME DiscoveryInv, [Next]_vars, complete
               PROVE  UNCHANGED <<nIbDevs, devs, merged>>
    OBVIOUS
  <2>1. lock = Nobody /\ nIbDevs # -1
    BY DEF DiscoveryInv, LockInv
  <2>2. \A t \in Threads : pc[t] # "discover"
    BY <2>1, Limits DEF DiscoveryInv, LockInv
  <2>3. ASSUME NEW t \in Threads, Step(t) PROVE UNCHANGED <<nIbDevs, devs, merged>>
    BY <2>1, <2>2, <2>3
       DEF Step, Enter, Lock, MustDiscover, Probe, DiscoveryFails, Rebuild, Discovered, Devices
  <2> QED
    BY <2>3 DEF Next, vars
<1> QED
  BY <1>1, Discovery, PTL DEF Spec, DiscoveredOnce

(***************************************************************************)
(* A thread that waited for the lock is told by ncclIbDevices the number   *)
(* of merged devices of the finished discovery, whoever did it.            *)
(***************************************************************************)
THEOREM Waiters == Spec => []WaitersSeeAll
<1>1. DiscoveryInv => WaitersSeeAll
  BY DEF DiscoveryInv, TypeOK, ThreadInv, Failed, WaitersSeeAll
<1> QED
  BY <1>1, Discovery, PTL

----------------------------------------------------------------------------
\* What the recursion of Pow2 computes at n from f.
PowStep(f, n) == IF n = 0 THEN 1 ELSE 2 * f[n - 1]
IsPow(f, n) == f = [i \in 0 .. n |-> PowStep(f, i)]

\* Pow2 is what its definition says: the recursion ends.
LEMMA PowDefined == IsPow(Pow2, W)
<1> DEFINE Q == {n \in Nat : \E f : IsPow(f, n)}
<1>1. 0 \in Q
  <2> DEFINE f == [i \in 0 .. 0 |-> 1]
  <2>1. IsPow(f, 0)
    BY DEF IsPow, PowStep
  <2> QED
    BY <2>1
<1>2. ASSUME NEW n \in Nat, n \in Q PROVE n + 1 \in Q
  <2>1. PICK f : IsPow(f, n)
    BY <1>2
  <2> DEFINE g == [i \in 0 .. n + 1 |-> IF i = n + 1 THEN PowStep(f, n + 1) ELSE f[i]]
  <2>2. ASSUME NEW i \in 0 .. n + 1 PROVE PowStep(g, i) = PowStep(f, i)
    BY <2>1 DEF PowStep
  <2>3. ASSUME NEW i \in 0 .. n + 1 PROVE g[i] = PowStep(f, i)
    <3>1. CASE i = n + 1
      BY <3>1
    <3>2. CASE i # n + 1
      <4>1. i \in 0 .. n
        BY <3>2
      <4> QED
        BY <4>1, <3>2, <2>1 DEF IsPow
    <3> QED
      BY <3>1, <3>2
  <2>4. IsPow(g, n + 1)
    BY <2>2, <2>3, Zenon DEF IsPow
  <2> QED
    BY <2>4
<1> HIDE DEF Q
<1>3. \A n \in Nat : n \in Q
  BY <1>1, <1>2, SetInduction
<1>4. W \in Nat
  BY GidAssumption
<1>5. \E f : IsPow(f, W)
  BY <1>3, <1>4 DEF Q
<1> DEFINE K == CHOOSE f : IsPow(f, W)
<1>6. IsPow(K, W)
  BY <1>5
<1>7. Pow2 = K
  BY Zenon DEF Pow2, IsPow, PowStep
<1> QED
  BY <1>6, <1>7, Zenon

\* The values of Pow2, from one and doubling.
LEMMA Powers ==
    /\ Pow2[0] = 1
    /\ \A n \in 0 .. W : Pow2[n] \in Nat \ {0}
    /\ \A n \in 0 .. W - 1 : Pow2[n + 1] = 2 * Pow2[n]
<1>1. W \in Nat \ {0}
  BY GidAssumption
<1>2. \A i \in 0 .. W : Pow2[i] = PowStep(Pow2, i)
  BY PowDefined, Zenon DEF IsPow
<1>3. Pow2[0] = 1 /\ \A n \in 0 .. W - 1 : Pow2[n + 1] = 2 * Pow2[n]
  <2>1. 0 \in 0 .. W /\ \A n \in 0 .. W - 1 : n + 1 \in 0 .. W /\ n + 1 # 0 /\ (n + 1) - 1 = n
    BY <1>1
  <2> QED
    BY <1>2, <2>1, Zenon DEF PowStep
<1> DEFINE Q == {n \in Nat : n <= W => Pow2[n] \in Nat \ {0}}
<1>4. 0 \in Q
  BY <1>3
<1>5. ASSUME NEW n \in Nat, n \in Q PROVE n + 1 \in Q
  <2> SUFFICES ASSUME n + 1 <= W PROVE Pow2[n + 1] \in Nat \ {0}
    OBVIOUS
  <2>1. n \in 0 .. W - 1 /\ n <= W
    BY <1>1
  <2>2. PICK p \in Nat \ {0} : p = Pow2[n]
    BY <1>5, <2>1
  <2>3. Pow2[n + 1] = 2 * p
    BY <1>3, <2>1, <2>2
  <2> QED
    BY <2>3
<1> HIDE DEF Q
<1>6. \A n \in Nat : n \in Q
  BY <1>4, <1>5, SetInduction
<1>7. ASSUME NEW n \in 0 .. W PROVE Pow2[n] \in Nat \ {0}
  <2>1. n \in Nat /\ n <= W
    BY <1>1
  <2> QED
    BY <1>6, <2>1 DEF Q
<1> QED
  BY <1>3, <1>7

\* Bit j of a word, counted from the most significant one.
WordBit(x, j) == (x \div Pow2[W - j]) % 2

\* Dividing by half of p brings one more bit.
LEMMA Halve ==
    ASSUME NEW x \in Nat, NEW p \in Nat \ {0}
    PROVE  /\ x \div p \in Nat /\ x \div (2 * p) \in Nat /\ (x \div p) % 2 \in {0, 1}
           /\ x \div p = 2 * (x \div (2 * p)) + ((x \div p) % 2)
OBVIOUS

\* The first n bits agree one by one exactly when what NETMASK leaves agrees.
LEMMA FirstBits ==
    ASSUME NEW x \in Word, NEW y \in Word, NEW n \in 0 .. W
    PROVE  Masked(x, n) = Masked(y, n) <=> \A b \in 1 .. n : WordBit(x, b) = WordBit(y, b)
<1>1. W \in Nat \ {0} /\ Pow2[W] \in Nat \ {0} /\ x \in Nat /\ y \in Nat /\ x < Pow2[W] /\ y < Pow2[W]
  <2>1. W \in Nat \ {0}
    BY GidAssumption
  <2>2. PICK p \in Nat \ {0} : p = Pow2[W]
    BY <2>1, Powers
  <2> QED
    BY <2>1, <2>2 DEF Word
<1> DEFINE Same(k) == \A b \in 1 .. k : WordBit(x, b) = WordBit(y, b)
           Q == {k \in Nat : k <= W => (Masked(x, k) = Masked(y, k) <=> Same(k))}
<1>2. 0 \in Q
  <2>1. PICK p \in Nat \ {0} : p = Pow2[W] /\ x < p /\ y < p
    BY <1>1
  <2>2. x \div p = 0 /\ y \div p = 0
    BY <1>1, <2>1
  <2>3. W - 0 = W
    BY <1>1
  <2>4. Masked(x, 0) = Masked(y, 0)
    BY <2>1, <2>2, <2>3 DEF Masked
  <2>5. Same(0)
    OBVIOUS
  <2> QED
    BY <2>4, <2>5
<1>3. ASSUME NEW k \in Nat, k \in Q PROVE k + 1 \in Q
  <2>1. SUFFICES ASSUME k + 1 <= W PROVE Masked(x, k + 1) = Masked(y, k + 1) <=> Same(k + 1)
    OBVIOUS
  <2>2. Masked(x, k) = Masked(y, k) <=> Same(k)
    BY <1>1, <1>3, <2>1
  <2>3. PICK e \in 0 .. W - 1 : e = W - (k + 1) /\ e + 1 = W - k /\ e \in 0 .. W
    BY <1>1, <2>1
  <2>4. PICK p \in Nat \ {0} : p = Pow2[e] /\ 2 * p = Pow2[e + 1]
    BY <2>3, Powers
  <2>5. PICK u \in Nat, v \in Nat, s \in {0, 1}, t \in {0, 1} :
              /\ u = x \div (2 * p) /\ v = y \div (2 * p) /\ s = (x \div p) % 2 /\ t = (y \div p) % 2
              /\ x \div p = 2 * u + s /\ y \div p = 2 * v + t
    <3>1. /\ x \div p = 2 * (x \div (2 * p)) + ((x \div p) % 2) /\ x \div (2 * p) \in Nat /\ (x \div p) % 2 \in {0, 1}
          /\ y \div p = 2 * (y \div (2 * p)) + ((y \div p) % 2) /\ y \div (2 * p) \in Nat /\ (y \div p) % 2 \in {0, 1}
      BY <1>1, Halve
    <3> QED
      BY <3>1, Zenon
  <2>6. /\ Masked(x, k) = u /\ Masked(y, k) = v /\ Masked(x, k + 1) = 2 * u + s /\ Masked(y, k + 1) = 2 * v + t
        /\ WordBit(x, k + 1) = s /\ WordBit(y, k + 1) = t
    BY <2>3, <2>4, <2>5, Zenon DEF Masked, WordBit
  <2>7. 2 * u + s = 2 * v + t <=> u = v /\ s = t
    OBVIOUS
  <2>8. Same(k + 1) <=> Same(k) /\ s = t
    <3>1. \A b : b \in 1 .. k + 1 <=> b \in 1 .. k \/ b = k + 1
      OBVIOUS
    <3> QED
      BY <2>6, <3>1, Zenon
  <2> QED
    BY <2>2, <2>6, <2>7, <2>8, Zenon
<1> HIDE DEF Q
<1>4. \A k \in Nat : k \in Q
  BY <1>2, <1>3, SetInduction
<1>5. n \in Nat /\ n <= W
  BY <1>1
<1> QED
  BY <1>4, <1>5, Zenon DEF Q

\* A whole word.
LEMMA WholeWord ==
    ASSUME NEW x \in Word, NEW y \in Word
    PROVE  x = y <=> \A b \in 1 .. W : WordBit(x, b) = WordBit(y, b)
<1>1. W \in 0 .. W /\ W - W = 0
  BY GidAssumption
<1>2. x \in Int /\ y \in Int
  BY DEF Word
<1>3. Masked(x, W) = x /\ Masked(y, W) = y
  <2>1. Masked(x, W) = x \div 1 /\ Masked(y, W) = y \div 1
    BY <1>1, Powers, Zenon DEF Masked
  <2> QED
    BY <1>2, <2>1
<1> QED
  BY <1>1, <1>3, FirstBits, Zenon

\* Where bit b of an address is: bit (b - 1) % W + 1 of word (b - 1) \div W + 1.
LEMMA BitPlace ==
    ASSUME NEW i \in Nat, NEW j \in 1 .. W
    PROVE  /\ i * W + j \in Nat \ {0} /\ ((i * W + j) - 1) \div W = i /\ ((i * W + j) - 1) % W = j - 1
           /\ \A words : Bit(words, i * W + j) = WordBit(words[1 + i], j)
<1>1. PICK w \in Nat \ {0} : w = W
  BY GidAssumption
<1>2. j \in 1 .. w
  BY <1>1
<1>3. PICK z \in Nat : z = i * w
  OBVIOUS
<1>4. z + j \in Nat \ {0} /\ j - 1 \in 0 .. w - 1 /\ (z + j) - 1 = w * i + (j - 1) /\ (z + j) - 1 \in Nat
  BY <1>2, <1>3
<1>5. ((z + j) - 1) \div w = i /\ ((z + j) - 1) % w = j - 1
  BY <1>4
<1>6. W - 1 - (j - 1) = W - j
  BY <1>1, <1>2
<1>7. \A words : Bit(words, z + j) = WordBit(words[1 + i], j)
  BY <1>1, <1>5, <1>6, Zenon DEF Bit, WordBit
<1> QED
  BY <1>1, <1>3, <1>4, <1>5, <1>7

\* Every bit of an address is a bit of one of its words.
LEMMA BitPlaces ==
    ASSUME NEW b \in Nat \ {0}
    PROVE  \E i \in Nat, j \in 1 .. W : b = i * W + j
<1>1. PICK w \in Nat \ {0} : w = W
  BY GidAssumption
<1>2. PICK c \in Nat : b = c + 1
  OBVIOUS
<1>3. PICK i \in Nat, k \in 0 .. w - 1 : c = w * i + k
  <2>1. c = w * (c \div w) + (c % w) /\ c \div w \in Nat /\ c % w \in 0 .. w - 1
    OBVIOUS
  <2> QED
    BY <2>1, Zenon
<1>4. k + 1 \in 1 .. w /\ w * i = i * w /\ b = w * i + (k + 1)
  BY <1>2, <1>3
<1> QED
  BY <1>1, <1>4, Zenon

\* A product with a sum.
LEMMA TimesSum ==
    ASSUME NEW w \in Nat, NEW a \in Nat, NEW d \in Nat, NEW i, i = a + 1 + d
    PROVE  i * w = a * w + w + d * w /\ w * i = a * w + w + d * w /\ a * w \in Nat /\ d * w \in Nat
OBVIOUS

Words4 == [1 .. 4 -> Word]

\* An IPv4 prefix: its bits against the last word.
LEMMA PrefixOfWord ==
    ASSUME NEW x \in Words4, NEW y \in Words4, NEW n \in 0 .. W
    PROVE  Masked(x[1], n) = Masked(y[4], n) <=> \A b \in 1 .. n : Bit(x, b) = Bit(y, 3 * W + b)
<1>1. W \in Nat \ {0} /\ x[1] \in Word /\ y[4] \in Word
  BY GidAssumption DEF Words4
<1>2. ASSUME NEW b \in 1 .. n PROVE Bit(x, b) = WordBit(x[1], b) /\ Bit(y, 3 * W + b) = WordBit(y[4], b)
  <2>1. b \in 1 .. W /\ 0 * W + b = b
    BY <1>1
  <2>2. Bit(x, 0 * W + b) = WordBit(x[1 + 0], b) /\ Bit(y, 3 * W + b) = WordBit(y[1 + 3], b)
    BY <2>1, BitPlace
  <2>3. 1 + 0 = 1 /\ 1 + 3 = 4
    OBVIOUS
  <2> QED
    BY <2>1, <2>2, <2>3, Zenon
<1>3. PICK u \in Word, v \in Word : u = x[1] /\ v = y[4]
  BY <1>1
<1>4. Masked(u, n) = Masked(v, n) <=> \A b \in 1 .. n : WordBit(u, b) = WordBit(v, b)
  BY FirstBits
<1> QED
  BY <1>2, <1>3, <1>4, Zenon

\* An IPv6 prefix: whole words and the rest.
PrefixEqual(x, y, whole, rest) ==
    /\ \A i \in 1 .. whole : x[i] = y[i]
    /\ rest > 0 => Masked(x[whole + 1], rest) = Masked(y[whole + 1], rest)

\* The comparison of whole words and of the masked next one is that of the
\* first n bits.
LEMMA PrefixOfWords ==
    ASSUME NEW x \in Words4, NEW y \in Words4, NEW n \in 0 .. 4 * W, NEW whole, NEW rest,
           whole = n \div W, rest = n % W
    PROVE  PrefixEqual(x, y, whole, rest) <=> \A b \in 1 .. n : Bit(x, b) = Bit(y, b)
<1>1. PICK w \in Nat \ {0} : w = W
  BY GidAssumption
<1>2. n \in Nat /\ whole \in Nat /\ rest \in 0 .. w - 1 /\ n = w * whole + rest /\ n <= 4 * w
  BY <1>1
<1>3. whole <= 4 /\ (rest > 0 => whole < 4)
  <2>1. ASSUME whole >= 5 PROVE FALSE
    <3>1. PICK d \in Nat : whole = d + 5
      BY <1>2, <2>1
    <3>2. w * whole = w * d + 5 * w /\ w * d \in Nat
      BY <3>1
    <3> QED
      BY <1>2, <3>2
  <2>2. ASSUME rest > 0, whole = 4 PROVE FALSE
    BY <1>2, <2>2
  <2> QED
    BY <1>2, <2>1, <2>2
<1>4. \A i \in 1 .. 4 : x[i] \in Word /\ y[i] \in Word
  BY DEF Words4
<1> DEFINE BitsOf(i, m) == \A j \in 1 .. m : WordBit(x[i], j) = WordBit(y[i], j)
<1>5. ASSUME NEW i \in 1 .. whole PROVE x[i] = y[i] <=> BitsOf(i, W)
  <2>1. x[i] \in Word /\ y[i] \in Word
    BY <1>2, <1>3, <1>4
  <2> QED
    BY <2>1, WholeWord, Zenon
<1>6. ASSUME rest > 0 PROVE Masked(x[whole + 1], rest) = Masked(y[whole + 1], rest) <=> BitsOf(whole + 1, rest)
  <2>1. whole + 1 \in 1 .. 4 /\ rest \in 0 .. W
    BY <1>1, <1>2, <1>3, <1>6
  <2>2. PICK u \in Word, v \in Word : u = x[whole + 1] /\ v = y[whole + 1]
    BY <1>4, <2>1, Zenon
  <2>3. Masked(u, rest) = Masked(v, rest) <=> \A j \in 1 .. rest : WordBit(u, j) = WordBit(v, j)
    BY <2>1, FirstBits
  <2> QED
    BY <2>2, <2>3, Zenon
<1> DEFINE All == (\A i \in 1 .. whole : BitsOf(i, W)) /\ (rest > 0 => BitsOf(whole + 1, rest))
<1>7. ASSUME All, NEW b \in 1 .. n PROVE Bit(x, b) = Bit(y, b)
  <2>0. b \in Nat \ {0} /\ b <= n
    BY <1>2
  <2>1. PICK i \in Nat, j \in 1 .. w : b = i * w + j
    BY <1>1, <2>0, BitPlaces, Zenon
  <2>2. Bit(x, b) = WordBit(x[1 + i], j) /\ Bit(y, b) = WordBit(y[1 + i], j)
    BY <1>1, <2>1, BitPlace
  <2>3. 1 + i \in 1 .. whole \/ (i = whole /\ j <= rest)
    <3>1. CASE i < whole
      BY <1>2, <3>1
    <3>2. CASE i = whole
      <4>1. w * whole = i * w
        BY <3>2
      <4> QED
        BY <1>2, <2>1, <3>2, <4>1
    <3>3. CASE i > whole
      <4>1. i - (whole + 1) \in Nat /\ i = whole + 1 + (i - (whole + 1))
        BY <1>2, <3>3
      <4>2. PICK d \in Nat : i = whole + 1 + d
        BY <4>1, Zenon
      <4>0. w \in Nat /\ whole \in Nat
        BY <1>2
      <4>3. i * w = whole * w + w + d * w /\ d * w \in Nat /\ whole * w \in Nat
        <5>1. \A t : t = whole + 1 + d => t * w = whole * w + w + d * w /\ d * w \in Nat /\ whole * w \in Nat
          BY <4>0, TimesSum
        <5> QED
          BY <4>2, <5>1, Zenon
      <4>4. whole * w = w * whole
        BY <1>2
      <4>5. PICK p \in Nat, r \in Nat : p = whole * w /\ r = d * w
        BY <4>3
      <4>6. b = p + w + r + j /\ n = p + rest
        BY <1>2, <2>1, <4>3, <4>4, <4>5
      <4>7. w \in Nat /\ j \in 1 .. w /\ rest \in 0 .. w - 1
        BY <1>2
      <4> QED
        BY <2>0, <4>6, <4>7
    <3> QED
      BY <1>2, <3>1, <3>2, <3>3
  <2>4. CASE 1 + i \in 1 .. whole
    BY <1>1, <1>7, <2>1, <2>2, <2>4, Zenon
  <2>5. CASE i = whole /\ j <= rest
    <3>0. j \in Nat \ {0} /\ rest \in Nat /\ whole \in Nat
      BY <1>2
    <3>1. j \in 1 .. rest /\ rest > 0 /\ 1 + i = whole + 1
      BY <2>5, <3>0
    <3> QED
      BY <1>7, <2>2, <3>1, Zenon
  <2> QED
    BY <2>3, <2>4, <2>5
<1>8. ASSUME \A b \in 1 .. n : Bit(x, b) = Bit(y, b) PROVE All
  <2>1. ASSUME NEW i \in Nat, NEW j \in 1 .. w, i * w + j <= n PROVE WordBit(x[1 + i], j) = WordBit(y[1 + i], j)
    <3>1. /\ i * W + j \in Nat \ {0}
          /\ Bit(x, i * W + j) = WordBit(x[1 + i], j) /\ Bit(y, i * W + j) = WordBit(y[1 + i], j)
      BY <1>1, BitPlace
    <3>2. i * W + j \in 1 .. n
      BY <1>1, <1>2, <2>1, <3>1
    <3> QED
      BY <1>8, <3>1, <3>2, Zenon
  <2>2. ASSUME NEW i \in 1 .. whole PROVE BitsOf(i, W)
    <3> SUFFICES ASSUME NEW j \in 1 .. w PROVE WordBit(x[i], j) = WordBit(y[i], j)
      BY <1>1
    <3>1. i - 1 \in Nat /\ whole - i \in Nat /\ i = 1 + (i - 1) /\ whole = (i - 1) + 1 + (whole - i)
      BY <1>2
    <3>2. PICK k \in Nat, d \in Nat : i = 1 + k /\ whole = k + 1 + d
      BY <3>1, Zenon
    <3>3. w * whole = k * w + w + d * w /\ d * w \in Nat /\ k * w \in Nat
      BY <3>2, TimesSum
    <3>4. PICK p \in Nat, r \in Nat : p = k * w /\ r = d * w
      BY <3>3
    <3>5. n = p + w + r + rest /\ j <= w
      BY <1>2, <3>3, <3>4
    <3>6. k * w + j <= n
      BY <1>2, <3>4, <3>5
    <3> QED
      BY <2>1, <3>2, <3>6, Zenon
  <2>3. ASSUME rest > 0 PROVE BitsOf(whole + 1, rest)
    <3> SUFFICES ASSUME NEW j \in 1 .. rest PROVE WordBit(x[whole + 1], j) = WordBit(y[whole + 1], j)
      OBVIOUS
    <3>1. j \in 1 .. w /\ whole * w + j <= n /\ 1 + whole = whole + 1
      BY <1>2
    <3> QED
      BY <1>2, <2>1, <3>1
  <2> QED
    BY <2>2, <2>3, Zenon
<1> QED
  BY <1>5, <1>6, <1>7, <1>8, Zenon DEF PrefixEqual

\* matchGidAddrPrefix finds out whether an address is in the user's subnet.
LEMMA MatchIsSubnet ==
    ASSUME usrFam \in Families, usrRange \in AddrRangeType, NEW g \in GidEntry
    PROVE  matchGidAddrPrefix(envIbAddrRange(usrFam), g) <=> InSubnet(g)
<1>1. PICK range : range = envIbAddrRange(usrFam)
  OBVIOUS
<1>2. /\ range.words \in Words4 /\ range.len \in Int /\ g.words \in Words4 /\ W \in Nat \ {0}
      /\ range.len <= (IF usrFam = "AF_INET" THEN W ELSE 4 * W)
  <2>1. usrRange.words \in Words4 /\ usrRange.len \in Int /\ g.words \in Words4 /\ W \in Nat \ {0}
    BY GidAssumption DEF AddrRangeType, GidEntry, Words4
  <2>2. CASE usrRange.af = usrFam /\ usrRange.len <= (IF usrFam = "AF_INET" THEN W ELSE 4 * W)
    BY <1>1, <2>1, <2>2 DEF envIbAddrRange
  <2>3. CASE ~(usrRange.af = usrFam /\ usrRange.len <= (IF usrFam = "AF_INET" THEN W ELSE 4 * W))
    <3>1. range = [usrRange EXCEPT !.len = 0]
      BY <1>1, <2>3 DEF envIbAddrRange
    <3>2. range.words = usrRange.words /\ range.len = 0
      BY <3>1 DEF AddrRangeType
    <3> QED
      BY <2>1, <3>2
  <2> QED
    BY <2>2, <2>3
<1>3. PICK x \in Words4, y \in Words4, n \in Int : x = range.words /\ y = g.words /\ n = range.len
  BY <1>2
<1>4. CASE n < 0
  BY <1>1, <1>3, <1>4 DEF matchGidAddrPrefix, InSubnet
<1>5. CASE n >= 0 /\ usrFam = "AF_INET"
  <2>1. n \in 0 .. W
    BY <1>2, <1>3, <1>5
  <2>2. Masked(x[1], n) = Masked(y[4], n) <=> \A b \in 1 .. n : Bit(x, b) = Bit(y, 3 * W + b)
    BY <2>1, PrefixOfWord
  <2>3. matchGidAddrPrefix(range, g) <=> Masked(x[1], n) = Masked(y[4], n)
    BY <1>3, <1>5, Zenon DEF matchGidAddrPrefix
  <2>4. InSubnet(g) <=> \A b \in 1 .. n : Bit(x, b) = Bit(y, 3 * W + b)
    BY <1>1, <1>3, <1>5, Zenon DEF InSubnet
  <2> QED
    BY <1>1, <2>2, <2>3, <2>4, Zenon
<1>6. CASE n >= 0 /\ usrFam # "AF_INET"
  <2>1. n \in 0 .. 4 * W
    BY <1>2, <1>3, <1>6
  <2>2. PICK whole, rest : whole = n \div W /\ rest = n % W
    OBVIOUS
  <2>3. PrefixEqual(x, y, whole, rest) <=> \A b \in 1 .. n : Bit(x, b) = Bit(y, b)
    BY <2>1, <2>2, PrefixOfWords
  <2>4. matchGidAddrPrefix(range, g) <=> PrefixEqual(x, y, whole, rest)
    BY <1>3, <1>6, <2>2, Zenon DEF matchGidAddrPrefix, PrefixEqual
  <2>5. InSubnet(g) <=> \A b \in 1 .. n : Bit(x, b) = Bit(y, b)
    <3>1. \A b \in 1 .. n : 0 + b = b
      OBVIOUS
    <3>2. InSubnet(g) <=> \A b \in 1 .. n : Bit(x, b) = Bit(y, 0 + b)
      BY <1>1, <1>3, <1>6, Zenon DEF InSubnet
    <3> QED
      BY <3>1, <3>2, Zenon
  <2> QED
    BY <1>1, <2>3, <2>4, <2>5, Zenon
<1> QED
  BY <1>4, <1>5, <1>6
----------------------------------------------------------------------------
(* The search. *)

Fits(i) == OfFamily(i) /\ InSubnet(gids[i])
VersionsKnown == \A i \in DOMAIN gids : gids[i].ver # UnknownVer

\* What the entries looked at so far, those before gidNext, have decided.
SearchInv ==
    /\ gidIndex \in DOMAIN gids /\ gidNext \in Nat \ {0} /\ gidIndex < gidNext
    /\ \A i \in Nat : i < gidNext => i \in DOMAIN gids
    /\ gidIndex # 0 => Fits(gidIndex)
    /\ \A i \in DOMAIN gids : i < gidNext /\ Fits(i) => OfFamily(gidIndex)
    /\ VersionsKnown /\ ~KeptUnseen =>
          \A i \in DOMAIN gids : i < gidNext /\ Wanted(i) => Wanted(gidIndex) /\ gidIndex <= i

GidInputsOk ==
    /\ gids \in GidTables /\ gidParam \in GidIndexParams
    /\ usrFam \in Families /\ usrRange \in AddrRanges /\ usrVer \in {1, 2}

GidInv ==
    /\ GidInputsOk
    /\ gidRet = "none" => gidNext = 1
    /\ gidRet \in {"searching", "success"} /\ gidParam < 0 => SearchInv
    /\ gidRet = "searching" => gidParam < 0
    /\ gidRet = "success" /\ gidParam < 0 => gidNext \notin DOMAIN gids

\* What is known of the inputs of a search; the prefix test on the entries
\* of the table is the test of their bits.
LEMMA TableKnown ==
    ASSUME GidInputsOk
    PROVE  /\ \E n \in Nat \ {0} : DOMAIN gids = 0 .. n - 1
           /\ \A i \in DOMAIN gids : gids[i] \in GidEntry
           /\ usrRange \in AddrRangeType /\ gidParam \in Int
           /\ \A i \in DOMAIN gids : matchGidAddrPrefix(envIbAddrRange(usrFam), gids[i]) <=> InSubnet(gids[i])
<1>1. /\ IsFiniteSet(DOMAIN gids) /\ 0 \in DOMAIN gids
      /\ DOMAIN gids = 0 .. Cardinality(DOMAIN gids) - 1
      /\ \A i \in DOMAIN gids : gids[i] \in GidEntry
  BY GidAssumption, Zenon DEF GidInputsOk
<1>2. usrRange \in AddrRangeType /\ gidParam \in Int /\ usrFam \in Families
  BY GidAssumption DEF GidInputsOk
<1>3. PICK n \in Nat : n = Cardinality(DOMAIN gids)
  BY <1>1, FS_CardinalityType
<1>4. n # 0
  BY <1>1, <1>3
<1>5. \A i \in DOMAIN gids : matchGidAddrPrefix(envIbAddrRange(usrFam), gids[i]) <=> InSubnet(gids[i])
  BY <1>1, <1>2, MatchIsSubnet, Zenon
<1> QED
  BY <1>1, <1>2, <1>3, <1>4, <1>5

\* Looking at one more entry, c, decides as SearchInv says.
LEMMA LookedAt ==
    ASSUME GidInputsOk, SearchInv, gidNext \in DOMAIN gids, UNCHANGED gidInputs, gidNext' = gidNext + 1,
           \/ gidIndex' = gidNext /\ Fits(gidNext)
           \/ gidIndex' = gidIndex,
           Fits(gidNext) => OfFamily(gidIndex'),
           VersionsKnown /\ ~KeptUnseen /\ Wanted(gidNext) =>
               gidIndex' = IF Wanted(gidIndex) THEN gidIndex ELSE gidNext,
           VersionsKnown /\ ~KeptUnseen /\ Wanted(gidIndex) => gidIndex' = gidIndex,
           OfFamily(gidIndex) => OfFamily(gidIndex')
    PROVE  SearchInv'
<1>1. PICK n \in Nat \ {0} : DOMAIN gids = 0 .. n - 1
  BY TableKnown
<1>2. PICK x \in Nat, c \in Nat \ {0} : x = gidIndex /\ c = gidNext /\ x < c /\ x \in DOMAIN gids
  BY <1>1 DEF SearchInv
<1>3. /\ \A i : (OfFamily(i)' <=> OfFamily(i)) /\ (InSubnet(gids[i])' <=> InSubnet(gids[i])) /\ (Wanted(i)' <=> Wanted(i)) /\ (Fits(i)' <=> Fits(i))
      /\ gids' = gids /\ (VersionsKnown' <=> VersionsKnown) /\ (KeptUnseen' <=> KeptUnseen)
  <2>1. gids' = gids /\ usrFam' = usrFam /\ usrRange' = usrRange /\ usrVer' = usrVer
    BY DEF gidInputs
  <2>2. \A i : (OfFamily(i)' <=> OfFamily(i)) /\ (InSubnet(gids[i])' <=> InSubnet(gids[i]))
    BY <2>1 DEF OfFamily, InSubnet, envIbAddrRange
  <2>3. \A i : (Wanted(i)' <=> Wanted(i)) /\ (Fits(i)' <=> Fits(i))
    BY <2>1, <2>2, Zenon DEF Wanted, Fits
  <2>4. (VersionsKnown' <=> VersionsKnown) /\ (KeptUnseen' <=> KeptUnseen)
    BY <2>1, <2>2, Zenon DEF VersionsKnown, KeptUnseen
  <2> QED
    BY <2>1, <2>2, <2>3, <2>4, Zenon
<1>4. PICK y \in DOMAIN gids : y = gidIndex' /\ y \in Nat /\ (y = x \/ y = c) /\ y < c + 1
  BY <1>1, <1>2
<1>5. \A i \in Nat : i < c + 1 <=> i < c \/ i = c
  OBVIOUS
<1>6. \A i \in Nat : i < c + 1 => i \in DOMAIN gids
  <2>1. \A i \in Nat : i < c => i \in DOMAIN gids
    BY <1>2, Zenon DEF SearchInv
  <2> QED
    BY <1>2, <1>5, <2>1, Zenon
<1>7. y # 0 => Fits(y)
  BY <1>2, <1>4 DEF SearchInv
<1>8. ASSUME NEW i \in DOMAIN gids, i < c + 1, Fits(i) PROVE OfFamily(y)
  <2>1. i < c \/ i = c
    BY <1>1, <1>5, <1>8
  <2>2. CASE i < c
    <3>1. OfFamily(gidIndex)
      BY <1>2, <1>8, <2>2, Zenon DEF SearchInv
    <3> QED
      BY <1>4, <3>1, Zenon
  <2>3. CASE i = c
    BY <1>2, <1>4, <1>8, <2>3, Zenon
  <2> QED
    BY <2>1, <2>2, <2>3
<1>9. ASSUME VersionsKnown, ~KeptUnseen, NEW i \in DOMAIN gids, i < c + 1, Wanted(i) PROVE Wanted(y) /\ y <= i
  <2>1. i < c \/ i = c
    BY <1>1, <1>5, <1>9
  <2>2. CASE i < c
    <3>1. Wanted(gidIndex) /\ gidIndex <= i
      BY <1>2, <1>9, <2>2, Zenon DEF SearchInv
    <3>2. y = gidIndex
      BY <1>4, <1>9, <3>1, Zenon
    <3> QED
      BY <3>1, <3>2, Zenon
  <2>3. CASE i = c
    <3>1. CASE Wanted(gidIndex)
      <4>1. y = x
        BY <1>2, <1>4, <1>9, <3>1, Zenon
      <4>2. x <= c
        BY <1>2
      <4> QED
        BY <1>2, <2>3, <3>1, <4>1, <4>2, Zenon
    <3>2. CASE ~Wanted(gidIndex)
      <4>1. y = c
        BY <1>2, <1>4, <1>9, <2>3, <3>2, Zenon
      <4> QED
        BY <1>9, <2>3, <4>1
    <3> QED
      BY <3>1, <3>2
  <2> QED
    BY <2>1, <2>2, <2>3
<1>10. c + 1 \in Nat \ {0} /\ y < c + 1
  BY <1>4
<1> QED
  BY <1>2, <1>3, <1>4, <1>6, <1>7, <1>8, <1>9, <1>10, Zenon DEF SearchInv

\* What the tests of ncclIbUpdateGidIndex say about the two entries.
LEMMA TestsMean ==
    ASSUME GidInputsOk, SearchInv, gidNext \in DOMAIN gids
    PROVE  /\ CandidateFits <=> Fits(gidNext)
           /\ TakeFamily <=> Fits(gidNext) /\ ~OfFamily(gidIndex)
           /\ CompareVersions <=> Fits(gidNext) /\ OfFamily(gidIndex) /\ validGid(gids[gidNext])
           /\ Wanted(gidNext) <=> Fits(gidNext) /\ validGid(gids[gidNext]) /\ gids[gidNext].ver = usrVer
           /\ Wanted(gidIndex) => OfFamily(gidIndex) /\ validGid(gids[gidIndex]) /\ gids[gidIndex].ver = usrVer
           /\ ~KeptUnseen /\ OfFamily(gidIndex) /\ validGid(gids[gidIndex]) /\ gids[gidIndex].ver = usrVer
                 => Wanted(gidIndex)
<1>1. CandidateFits <=> Fits(gidNext)
  BY TableKnown DEF CandidateFits, Candidate, Fits, OfFamily
<1>2. TakeFamily <=> Fits(gidNext) /\ ~OfFamily(gidIndex)
  BY <1>1, Zenon DEF TakeFamily, Current, OfFamily
<1>3. CompareVersions <=> Fits(gidNext) /\ OfFamily(gidIndex) /\ validGid(gids[gidNext])
  BY <1>1, <1>2, Zenon DEF CompareVersions, Candidate
<1>4. /\ Wanted(gidNext) <=> Fits(gidNext) /\ validGid(gids[gidNext]) /\ gids[gidNext].ver = usrVer
      /\ Wanted(gidIndex) => OfFamily(gidIndex) /\ validGid(gids[gidIndex]) /\ gids[gidIndex].ver = usrVer
  BY Zenon DEF Wanted, Fits
<1>5. ASSUME ~KeptUnseen, OfFamily(gidIndex), validGid(gids[gidIndex]), gids[gidIndex].ver = usrVer
      PROVE  Wanted(gidIndex)
  <2>1. CASE gidIndex = 0
    BY <1>5, <2>1, Zenon DEF KeptUnseen, Wanted
  <2>2. CASE gidIndex # 0
    BY <1>5, <2>2, Zenon DEF SearchInv, Fits, Wanted
  <2> QED
    BY <2>1, <2>2
<1> QED
  BY <1>1, <1>2, <1>3, <1>4, <1>5, Zenon

\* A step of the search keeps what SearchInv says of the entries before gidNext.
LEMMA UpdateInv ==
    ASSUME GidInv, UpdateByFamily \/ UpdateSkips \/ UpdateByVersion
    PROVE  SearchInv' /\ gidRet' = "searching" /\ UNCHANGED gidInputs
<1>1. /\ GidInputsOk /\ SearchInv /\ gidNext \in DOMAIN gids /\ gidRet = "searching"
      /\ UNCHANGED gidInputs /\ gidRet' = gidRet /\ gidNext' = gidNext + 1
  BY DEF GidInv, UpdateByFamily, UpdateSkips, UpdateByVersion, Looking, Advance
<1> DEFINE cand == gids[gidNext]
           cur == gids[gidIndex]
<1>2. /\ TakeFamily <=> Fits(gidNext) /\ ~OfFamily(gidIndex)
      /\ CompareVersions <=> Fits(gidNext) /\ OfFamily(gidIndex) /\ validGid(cand)
      /\ Wanted(gidNext) <=> Fits(gidNext) /\ validGid(cand) /\ cand.ver = usrVer
      /\ Wanted(gidIndex) => OfFamily(gidIndex) /\ validGid(cur) /\ cur.ver = usrVer
      /\ ~KeptUnseen /\ OfFamily(gidIndex) /\ validGid(cur) /\ cur.ver = usrVer => Wanted(gidIndex)
      /\ Fits(gidNext) => OfFamily(gidNext)
  BY <1>1, TestsMean, Zenon DEF Fits
<1>3. CASE UpdateByFamily
  <2>1. gidIndex' = gidNext /\ Fits(gidNext) /\ ~OfFamily(gidIndex) /\ OfFamily(gidNext) /\ ~Wanted(gidIndex)
    BY <1>2, <1>3, Zenon DEF UpdateByFamily, Advance
  <2> QED
    BY <1>1, <2>1, LookedAt
<1>4. CASE UpdateSkips
  <2>1. gidIndex' = gidIndex /\ ~(Fits(gidNext) /\ ~OfFamily(gidIndex)) /\ ~Wanted(gidNext)
    BY <1>2, <1>4, Zenon DEF UpdateSkips, Advance
  <2> QED
    BY <1>1, <2>1, LookedAt
<1>5. CASE UpdateByVersion
  <2>1. PICK v \in RoceVersions(Current), w \in RoceVersions(Candidate) :
                gidIndex' = IF TakeVersion(v, w) THEN gidNext ELSE gidIndex
    BY <1>5, Zenon DEF UpdateByVersion, Advance
  <2>2. Fits(gidNext) /\ OfFamily(gidIndex) /\ OfFamily(gidNext) /\ validGid(cand)
    BY <1>2, <1>5, Zenon DEF UpdateByVersion
  <2>3. VersionsKnown => v = cur.ver /\ w = cand.ver
    <3>1. gidIndex \in DOMAIN gids
      BY <1>1 DEF SearchInv
    <3> QED
      BY <1>1, <2>1, <3>1 DEF VersionsKnown, RoceVersions, Current, Candidate
  <2>4. TakeVersion(v, w) <=> (v # w \/ ~validGid(cur)) /\ w = usrVer
    BY DEF TakeVersion, Current
  <2>5. ASSUME VersionsKnown, ~KeptUnseen, Wanted(gidNext), ~Wanted(gidIndex) PROVE gidIndex' = gidNext
    <3>1. cand.ver = usrVer /\ ~(validGid(cur) /\ cur.ver = usrVer)
      BY <1>2, <2>2, <2>5, Zenon
    <3> QED
      BY <2>1, <2>3, <2>4, <2>5, <3>1, Zenon
  <2>6. ASSUME VersionsKnown, Wanted(gidIndex) PROVE gidIndex' = gidIndex
    <3>1. validGid(cur) /\ cur.ver = usrVer
      BY <1>2, <2>6, Zenon
    <3> QED
      BY <2>1, <2>3, <2>4, <2>6, <3>1, Zenon
  <2>7. gidIndex' = gidNext \/ gidIndex' = gidIndex
    BY <2>1, Zenon
  <2>8. OfFamily(gidIndex')
    BY <2>2, <2>7, Zenon
  <2>9. /\ VersionsKnown /\ ~KeptUnseen /\ Wanted(gidNext) => gidIndex' = IF Wanted(gidIndex) THEN gidIndex ELSE gidNext
        /\ VersionsKnown /\ ~KeptUnseen /\ Wanted(gidIndex) => gidIndex' = gidIndex
    BY <2>5, <2>6, Zenon
  <2> QED
    BY <1>1, <2>2, <2>7, <2>8, <2>9, LookedAt
<1> QED
  BY <1>1, <1>3, <1>4, <1>5

\* GidInv holds before a search.
LEMMA GidInitInv == GidInit => GidInv
BY DEF GidInit, GidInv, GidInputsOk

\* Every step of the search keeps GidInv.
LEMMA GidNextInv == GidInv /\ [GidNextStep]_gidvars => GidInv'
<1> SUFFICES ASSUME GidInv, [GidNextStep]_gidvars PROVE GidInv'
  OBVIOUS
<1>1. GidInputsOk /\ \A i \in DOMAIN gids : i \in Nat
  BY TableKnown DEF GidInv
<1>2. UNCHANGED gidInputs => GidInputsOk'
  BY <1>1, Zenon DEF GidInputsOk, gidInputs
<1>3. CASE GidIndexGiven
  BY <1>2, <1>3, TableKnown DEF GidInv, GidIndexGiven, gidInputs
<1>4. CASE GidSearch
  <2>1. gidIndex' = 0 /\ gidNext' = 1 /\ UNCHANGED gidInputs /\ gidRet' = "searching" /\ gidParam < 0 /\ gids' = gids /\ gidParam' = gidParam
    BY <1>4 DEF GidInv, GidSearch, gidInputs
  <2>2. PICK n \in Nat \ {0} : DOMAIN gids = 0 .. n - 1
    BY <1>1, TableKnown
  <2>3. 0 \in DOMAIN gids /\ \A i \in DOMAIN gids : i < 1 <=> i = 0
    BY <2>2
  <2>4. \A i \in Nat : i < 1 => i = 0
    OBVIOUS
  <2>5. 1 \in Nat \ {0} /\ 0 < 1 /\ 0 <= 0
    OBVIOUS
  <2>6. ASSUME NEW i \in DOMAIN gids', i < gidNext' PROVE i = gidIndex'
    BY <2>1, <2>3, <2>6
  <2>7. ASSUME NEW i \in DOMAIN gids', i < gidNext', Fits(i)' PROVE OfFamily(gidIndex)'
    <3>1. i = gidIndex'
      BY <2>6, <2>7
    <3> QED
      BY <2>7, <3>1, Zenon DEF Fits
  <2>8. ASSUME NEW i \in DOMAIN gids', i < gidNext', Wanted(i)' PROVE Wanted(gidIndex)' /\ gidIndex' <= i
    <3>1. i = gidIndex'
      BY <2>6, <2>8
    <3>2. gidIndex' <= i
      BY <2>1, <3>1
    <3> QED
      BY <2>8, <3>1, <3>2, Zenon
  <2>9. SearchInv'
    BY <2>1, <2>3, <2>4, <2>5, <2>7, <2>8, Zenon DEF SearchInv
  <2> QED
    BY <1>2, <2>1, <2>9 DEF GidInv
<1>5. CASE UpdateByFamily \/ UpdateSkips \/ UpdateByVersion
  <2>1. SearchInv' /\ gidRet' = "searching" /\ UNCHANGED gidInputs
    BY <1>5, UpdateInv
  <2>2. gidParam < 0 /\ gidParam' = gidParam
    BY <1>5, <2>1 DEF GidInv, UpdateByFamily, UpdateSkips, UpdateByVersion, Looking, gidInputs
  <2> QED
    BY <1>2, <2>1, <2>2 DEF GidInv
<1>6. CASE UpdateFails
  BY <1>2, <1>6 DEF UpdateFails, GidInv
<1>7. ASSUME UNCHANGED gidInputs, UNCHANGED <<gidIndex, gidNext>>, SearchInv PROVE SearchInv'
  BY <1>7 DEF SearchInv, gidInputs, Fits, OfFamily, InSubnet, envIbAddrRange, VersionsKnown, KeptUnseen, Wanted
<1>8. CASE GidFound
  <2>1. SearchInv /\ UNCHANGED gidInputs /\ UNCHANGED <<gidIndex, gidNext>> /\ gidRet' = "success" /\ gidNext \notin DOMAIN gids
        /\ gids' = gids /\ gidParam' = gidParam
    BY <1>8 DEF GidInv, GidFound, gidInputs
  <2>2. SearchInv'
    BY <1>7, <2>1
  <2> QED
    BY <1>2, <2>1, <2>2 DEF GidInv
<1>9. CASE UNCHANGED gidvars
  <2>1. UNCHANGED gidInputs /\ UNCHANGED <<gidIndex, gidNext>> /\ gidRet' = gidRet /\ gids' = gids /\ gidParam' = gidParam
    BY <1>9 DEF gidvars, gidInputs
  <2> QED
    BY <1>2, <1>7, <2>1 DEF GidInv
<1> QED
  BY <1>3, <1>4, <1>5, <1>6, <1>8, <1>9 DEF GidNextStep

\* The least of the wanted entries.
LEMMA MinWanted ==
    ASSUME NEW S, NEW m \in S, \A i \in S : i \in Nat /\ m <= i
    PROVE  Min(S) = m
<1>1. m \in S /\ \A i \in S : m <= i
  OBVIOUS
<1>2. PICK x : x = CHOOSE k \in S : \A i \in S : k <= i
  OBVIOUS
<1>3. x \in S /\ \A i \in S : x <= i
  BY <1>1, <1>2, Zenon
<1>4. x = m
  BY <1>1, <1>3
<1>5. Min(S) = x
  BY <1>2, Zenon DEF Min
<1> QED
  BY <1>4, <1>5

\* For every table, parameter, prefix and word size, ncclIbGetGidIndex chooses the entry
\* GidFits describes: comparing words and masks is comparing the bits of the prefix.
THEOREM GidChoice == GidSpec => []GidFits
<1>1. GidInv => GidFits
  <2> SUFFICES ASSUME GidInv, gidRet = "success", gidParam < 0
               PROVE  LET wanted == {i \in DOMAIN gids : Wanted(i)}
                      IN  /\ gidIndex # 0 => OfFamily(gidIndex) /\ InSubnet(gids[gidIndex])
                          /\ (\E i \in DOMAIN gids : OfFamily(i) /\ InSubnet(gids[i])) => OfFamily(gidIndex)
                          /\ wanted # {} /\ ~KeptUnseen /\ (\A i \in DOMAIN gids : gids[i].ver # UnknownVer)
                                => gidIndex = Min(wanted)
    BY DEF GidFits
  <2>1. SearchInv /\ gidNext \notin DOMAIN gids /\ GidInputsOk
    BY DEF GidInv
  <2>2. PICK n \in Nat \ {0} : DOMAIN gids = 0 .. n - 1
    BY <2>1, TableKnown
  <2>3. \A i \in DOMAIN gids : i \in Nat /\ i < gidNext
    BY <2>1, <2>2 DEF SearchInv
  <2>4. gidIndex # 0 => OfFamily(gidIndex) /\ InSubnet(gids[gidIndex])
    BY <2>1, Zenon DEF SearchInv, Fits
  <2>5. \A i \in DOMAIN gids : OfFamily(i) /\ InSubnet(gids[i]) => OfFamily(gidIndex)
    BY <2>1, <2>3, Zenon DEF SearchInv, Fits
  <2> DEFINE wanted == {i \in DOMAIN gids : Wanted(i)}
  <2>6. ASSUME wanted # {}, ~KeptUnseen, \A i \in DOMAIN gids : gids[i].ver # UnknownVer
        PROVE  gidIndex = Min(wanted)
    <3>1. \A i \in DOMAIN gids : Wanted(i) => Wanted(gidIndex) /\ gidIndex <= i
      BY <2>1, <2>3, <2>6, Zenon DEF SearchInv, VersionsKnown
    <3>2. PICK i \in DOMAIN gids : Wanted(i)
      BY <2>6
    <3>3. gidIndex \in wanted /\ \A j \in wanted : j \in Nat /\ gidIndex <= j
      BY <2>1, <2>3, <3>1, <3>2 DEF SearchInv
    <3> HIDE DEF wanted
    <3> QED
      BY <3>3, MinWanted
  <2> QED
    BY <2>4, <2>5, <2>6, Zenon
<1> QED
  BY <1>1, GidInitInv, GidNextInv, PTL DEF GidSpec

----------------------------------------------------------------------------
(* The ports of a node in their order. *)

Rank(S, p) == Cardinality({r \in S : r < p})

\* Ranks lie below the number of ports and grow with the ports.
LEMMA RankOrder ==
    ASSUME NEW S \in SUBSET Nat, IsFiniteSet(S), NEW p \in S, NEW q \in S
    PROVE  /\ Rank(S, p) \in Nat /\ Rank(S, p) < Cardinality(S) /\ Cardinality(S) \in Nat
           /\ p < q => Rank(S, p) < Rank(S, q)
<1> DEFINE Below(r) == {x \in S : x < r}
<1>1. PICK N \in Nat : N = Cardinality(S)
  BY FS_CardinalityType
<1>2. ASSUME NEW r \in S
      PROVE  IsFiniteSet(Below(r)) /\ Cardinality(Below(r)) \in Nat /\ Rank(S, r) = Cardinality(Below(r)) /\ Below(r) \in SUBSET S
  <2>1. Below(r) \in SUBSET S
    OBVIOUS
  <2>2. IsFiniteSet(Below(r))
    BY <2>1, FS_Subset
  <2> QED
    BY <2>1, <2>2, FS_CardinalityType DEF Rank
<1>3. Rank(S, p) < N
  <2>1. p \in Nat /\ p \notin Below(p)
    OBVIOUS
  <2>2. Cardinality(Below(p)) <= N
    BY <1>1, <1>2, FS_Subset
  <2>3. Cardinality(Below(p)) # N
    BY <1>1, <1>2, <2>1, FS_Subset
  <2> QED
    BY <1>2, <2>2, <2>3
<1>4. ASSUME p < q PROVE Rank(S, p) < Rank(S, q)
  <2>1. Below(p) \cup {p} \in SUBSET Below(q) /\ p \notin Below(p)
    <3>1. \A x \in S : x \in Nat
      OBVIOUS
    <3>2. \A x \in S : x < p => x < q
      BY <1>4, <3>1
    <3>3. ~(p < p)
      BY <3>1
    <3> QED
      BY <1>4, <3>2, <3>3
  <2>2. Cardinality(Below(p) \cup {p}) = Cardinality(Below(p)) + 1
    BY <1>2, <2>1, FS_AddElement
  <2>3. Cardinality(Below(p) \cup {p}) <= Cardinality(Below(q))
    BY <1>2, <2>1, FS_Subset
  <2> QED
    BY <1>2, <2>2, <2>3
<1> QED
  BY <1>1, <1>2, <1>3, <1>4

\* Every rank is taken, by one port.
LEMMA RankOnto ==
    ASSUME NEW S \in SUBSET Nat, IsFiniteSet(S)
    PROVE  /\ \A p, q \in S : Rank(S, p) = Rank(S, q) => p = q
           /\ \A k \in 0 .. Cardinality(S) - 1 : \E p \in S : Rank(S, p) = k
<1>1. PICK N \in Nat : N = Cardinality(S)
  BY FS_CardinalityType
<1>2. \A p \in S : Rank(S, p) \in 0 .. N - 1
  <2>1. \A p \in S : Rank(S, p) \in Nat /\ Rank(S, p) < N
    BY <1>1, RankOrder
  <2> QED
    BY <2>1
<1>3. ASSUME NEW p \in S, NEW q \in S, Rank(S, p) = Rank(S, q) PROVE p = q
  <2>1. p \in Nat /\ q \in Nat /\ (p < q => Rank(S, p) < Rank(S, q)) /\ (q < p => Rank(S, q) < Rank(S, p)) /\ Rank(S, p) \in Nat
    BY RankOrder
  <2> QED
    BY <1>3, <2>1
<1> DEFINE f == [p \in S |-> Rank(S, p)]
<1>4. f \in Injection(S, 0 .. N - 1)
  BY <1>2, <1>3 DEF Injection, IsInjective
<1>5. IsFiniteSet(0 .. N - 1) /\ Cardinality(0 .. N - 1) = N
  <2>1. 0 \in Int /\ N - 1 \in Int
    OBVIOUS
  <2>2. IsFiniteSet(0 .. N - 1) /\ Cardinality(0 .. N - 1) = IF 0 > N - 1 THEN 0 ELSE (N - 1) - 0 + 1
    BY <2>1, FS_Interval
  <2> QED
    BY <2>2
<1>6. f \in Surjection(S, 0 .. N - 1)
  <2> HIDE DEF f
  <2> QED
    BY <1>1, <1>4, <1>5, FS_Injection
<1>7. \A k \in 0 .. N - 1 : \E p \in S : Rank(S, p) = k
  BY <1>6 DEF Surjection
<1> QED
  BY <1>1, <1>3, <1>7

\* Neighbours have neighbouring ranks.
LEMMA RankNext ==
    ASSUME NEW S \in SUBSET Nat, IsFiniteSet(S), NEW p \in S, NEW q \in S
    PROVE  p < q /\ (\A r \in S : ~(p < r /\ r < q)) <=> Rank(S, q) = Rank(S, p) + 1
<1>1. PICK N \in Nat, a \in Nat, b \in Nat : N = Cardinality(S) /\ a = Rank(S, p) /\ b = Rank(S, q) /\ a < N /\ b < N
  BY RankOrder
<1>2. p \in Nat /\ q \in Nat /\ (p < q => a < b) /\ (q < p => b < a) /\ (p = q => a = b)
  BY <1>1, RankOrder
<1>3. ASSUME p < q, \A r \in S : ~(p < r /\ r < q) PROVE b = a + 1
  <2>1. SUFFICES ASSUME b > a + 1 PROVE FALSE
    BY <1>1, <1>2, <1>3
  <2>2. a + 1 \in 0 .. N - 1
    BY <1>1, <2>1
  <2>3. PICK r \in S : Rank(S, r) = a + 1
    BY <1>1, <2>2, RankOnto
  <2>4. r \in Nat /\ (r < p => a + 1 < a) /\ (q < r => b < a + 1) /\ (r = p => a + 1 = a) /\ (r = q => a + 1 = b)
    BY <1>1, <2>3, RankOrder
  <2>5. p < r /\ r < q
    BY <1>2, <2>1, <2>4
  <2> QED
    BY <1>3, <2>5
<1>4. ASSUME b = a + 1, NEW r \in S, p < r, r < q PROVE FALSE
  <2>1. a < Rank(S, r) /\ Rank(S, r) < b /\ Rank(S, r) \in Nat
    BY <1>1, <1>4, RankOrder
  <2> QED
    BY <1>4, <2>1
<1>5. b = a + 1 => p < q
  BY <1>2
<1> QED
  BY <1>1, <1>3, <1>4, <1>5, Zenon

\* A pair has an even rank and the one after it.
LEMMA PairsByRank ==
    ASSUME NEW S \in SUBSET Nat, IsFiniteSet(S), NEW a
    PROVE  a \in PortPairs(S) <=> /\ a \in S \X S
                                  /\ Rank(S, a[1]) % 2 = 0 /\ Rank(S, a[2]) = Rank(S, a[1]) + 1
<1>1. SUFFICES ASSUME a \in S \X S
               PROVE  a \in PortPairs(S) <=> Rank(S, a[1]) % 2 = 0 /\ Rank(S, a[2]) = Rank(S, a[1]) + 1
  BY DEF PortPairs
<1>2. a[1] \in S /\ a[2] \in S
  BY <1>1
<1>3. a[1] < a[2] /\ (\A r \in S : ~(a[1] < r /\ r < a[2])) <=> Rank(S, a[2]) = Rank(S, a[1]) + 1
  <2>1. PICK p \in S, q \in S : p = a[1] /\ q = a[2]
    BY <1>2
  <2>2. p < q /\ (\A r \in S : ~(p < r /\ r < q)) <=> Rank(S, q) = Rank(S, p) + 1
    BY RankNext
  <2> QED
    BY <2>1, <2>2, Zenon
<1>4. a \in PortPairs(S) <=> /\ a[1] < a[2] /\ Rank(S, a[1]) % 2 = 0
                             /\ \A r \in S : ~(a[1] < r /\ r < a[2])
  BY <1>1, Zenon DEF PortPairs, Rank
<1> QED
  BY <1>3, <1>4, Zenon

\* The ports of an even set fall into disjoint pairs, half as many as ports.
LEMMA PairsPartition ==
    ASSUME NEW S \in SUBSET Nat, IsFiniteSet(S), NEW m \in Nat, Cardinality(S) = 2 * m
    PROVE  /\ IsFiniteSet(PortPairs(S)) /\ Cardinality(PortPairs(S)) = m
           /\ \A a \in PortPairs(S) : a[1] \in S /\ a[2] \in S /\ a[1] # a[2]
           /\ \A p \in S : \E a \in PortPairs(S) : p \in {a[1], a[2]}
           /\ \A a, b \in PortPairs(S) : {a[1], a[2]} \cap {b[1], b[2]} # {} => a = b
<1> DEFINE R(p) == Rank(S, p)
<1>1. /\ \A p \in S : R(p) \in Nat /\ R(p) < 2 * m
      /\ \A p, q \in S : R(p) = R(q) => p = q
      /\ \A k \in Nat : k < 2 * m => \E p \in S : R(p) = k
  <2>1. \A p \in S : R(p) \in Nat /\ R(p) < 2 * m
    BY RankOrder
  <2>2. \A p, q \in S : R(p) = R(q) => p = q
    BY RankOnto
  <2>3. \A k \in Nat : k < 2 * m => k \in 0 .. Cardinality(S) - 1
    OBVIOUS
  <2>4. \A k \in Nat : k < 2 * m => \E p \in S : R(p) = k
    BY <2>3, RankOnto
  <2> QED
    BY <2>1, <2>2, <2>4, Zenon
<1>2. \A a : a \in PortPairs(S) <=> a \in S \X S /\ R(a[1]) % 2 = 0 /\ R(a[2]) = R(a[1]) + 1
  BY PairsByRank
<1> HIDE DEF R
<1>3. ASSUME NEW a \in PortPairs(S)
      PROVE  /\ a[1] \in S /\ a[2] \in S /\ a[1] # a[2] /\ a = <<a[1], a[2]>>
             /\ \E i \in 0 .. m - 1 : R(a[1]) = 2 * i /\ R(a[2]) = 2 * i + 1
  <2>1. a[1] \in S /\ a[2] \in S /\ a = <<a[1], a[2]>>
    BY <1>2
  <2>2. PICK x \in Nat : x = R(a[1]) /\ x < 2 * m /\ x % 2 = 0 /\ R(a[2]) = x + 1
    BY <1>1, <1>2, <2>1
  <2>3. PICK i \in Nat : x = 2 * i
    BY <2>2
  <2>4. i \in 0 .. m - 1 /\ x # x + 1
    BY <2>2, <2>3
  <2> QED
    BY <2>1, <2>2, <2>3, <2>4
<1>4. ASSUME NEW i \in 0 .. m - 1 PROVE \E a \in PortPairs(S) : R(a[1]) = 2 * i /\ R(a[2]) = 2 * i + 1
  <2>1. 2 * i \in Nat /\ 2 * i + 1 \in Nat /\ 2 * i < 2 * m /\ 2 * i + 1 < 2 * m /\ (2 * i) % 2 = 0
    OBVIOUS
  <2>2. PICK p \in S, q \in S : R(p) = 2 * i /\ R(q) = 2 * i + 1
    BY <1>1, <2>1
  <2>3. <<p, q>> \in S \X S /\ <<p, q>>[1] = p /\ <<p, q>>[2] = q
    OBVIOUS
  <2>4. <<p, q>> \in PortPairs(S)
    BY <1>2, <2>1, <2>2, <2>3
  <2> QED
    BY <2>2, <2>3, <2>4, Zenon
<1>5. ASSUME NEW a \in PortPairs(S), NEW b \in PortPairs(S), R(a[1]) = R(b[1]) PROVE a = b
  <2>1. a[1] = b[1] /\ a[2] = b[2]
    BY <1>1, <1>2, <1>3, <1>5
  <2> QED
    BY <1>3, <2>1, Zenon
<1> DEFINE f == [a \in PortPairs(S) |-> R(a[1]) \div 2]
<1>6. ASSUME NEW a \in PortPairs(S) PROVE f[a] \in 0 .. m - 1 /\ R(a[1]) = 2 * f[a]
  <2>1. PICK i \in 0 .. m - 1 : R(a[1]) = 2 * i
    BY <1>3
  <2>2. (2 * i) \div 2 = i
    OBVIOUS
  <2> QED
    BY <2>1, <2>2
<1>7. f \in [PortPairs(S) -> 0 .. m - 1]
  BY <1>6
<1>8. IsFiniteSet(0 .. m - 1) /\ Cardinality(0 .. m - 1) = m
  <2>1. 0 \in Int /\ m - 1 \in Int
    OBVIOUS
  <2>2. IsFiniteSet(0 .. m - 1) /\ Cardinality(0 .. m - 1) = IF 0 > m - 1 THEN 0 ELSE (m - 1) - 0 + 1
    BY <2>1, FS_Interval
  <2> QED
    BY <2>2
<1> HIDE DEF f
<1>9. f \in Injection(PortPairs(S), 0 .. m - 1)
  <2>1. \A a, b \in PortPairs(S) : f[a] = f[b] => a = b
    BY <1>5, <1>6
  <2> QED
    BY <1>7, <2>1 DEF Injection, IsInjective
<1>10. f \in Surjection(PortPairs(S), 0 .. m - 1)
  <2>1. ASSUME NEW i \in 0 .. m - 1 PROVE \E a \in PortPairs(S) : f[a] = i
    <3>1. PICK a \in PortPairs(S) : R(a[1]) = 2 * i
      BY <1>4
    <3>2. f[a] \in 0 .. m - 1 /\ 2 * f[a] = 2 * i
      BY <1>6, <3>1
    <3>3. f[a] = i
      BY <3>2
    <3> QED
      BY <3>3
  <2> QED
    BY <1>7, <2>1 DEF Surjection
<1>11. IsFiniteSet(PortPairs(S)) /\ Cardinality(PortPairs(S)) = m
  BY <1>8, <1>9, <1>10, FS_Injection
<1>12. ASSUME NEW p \in S PROVE \E a \in PortPairs(S) : p \in {a[1], a[2]}
  <2>1. PICK k \in Nat : k = R(p) /\ k < 2 * m
    BY <1>1
  <2>2. PICK i \in Nat : k = 2 * i \/ k = 2 * i + 1
    <3>1. k = 2 * (k \div 2) \/ k = 2 * (k \div 2) + 1
      OBVIOUS
    <3>2. k \div 2 \in Nat
      OBVIOUS
    <3> QED
      BY <3>1, <3>2, Zenon
  <2>3. i \in 0 .. m - 1
    BY <2>1, <2>2
  <2>4. PICK a \in PortPairs(S) : R(a[1]) = 2 * i /\ R(a[2]) = 2 * i + 1
    BY <1>4, <2>3
  <2>5. a[1] \in S /\ a[2] \in S
    BY <1>3
  <2>6. p = a[1] \/ p = a[2]
    BY <1>1, <2>1, <2>2, <2>4, <2>5, Zenon
  <2> QED
    BY <2>6
<1>13. ASSUME NEW a \in PortPairs(S), NEW b \in PortPairs(S), {a[1], a[2]} \cap {b[1], b[2]} # {} PROVE a = b
  <2>1. PICK i \in 0 .. m - 1 : R(a[1]) = 2 * i /\ R(a[2]) = 2 * i + 1
    BY <1>3
  <2>2. PICK j \in 0 .. m - 1 : R(b[1]) = 2 * j /\ R(b[2]) = 2 * j + 1
    BY <1>3
  <2>3. 2 * i # 2 * j + 1 /\ 2 * i + 1 # 2 * j /\ (2 * i + 1 = 2 * j + 1 => 2 * i = 2 * j)
    OBVIOUS
  <2>4. a[1] = b[1] \/ a[1] = b[2] \/ a[2] = b[1] \/ a[2] = b[2]
    BY <1>13
  <2>5. R(a[1]) = R(b[1])
    BY <2>1, <2>2, <2>3, <2>4, Zenon
  <2> QED
    BY <1>5, <2>5
<1> QED
  BY <1>3, <1>11, <1>12, <1>13, Zenon
----------------------------------------------------------------------------
(* An accepted node. *)

Gpus == DOMAIN vnode.gpus
Nics == DOMAIN vnode.nics
Ports == DOMAIN Collected
Gpu(g) == <<"gpu", g>>
Nic(n) == <<"nic", n>>

\* What the assumptions say of a node.
LEMMA NodeTypes ==
    ASSUME vnode \in VNodes
    PROVE  /\ IsFiniteSet(Gpus) /\ IsFiniteSet(Nics)
           /\ \A g \in Gpus : vnode.gpus[g] \in Nat
           /\ \A n \in Nics : vnode.nics[n] \in Nat
           /\ NumGpus \in Nat \ {0} /\ NumNics \in Nat /\ NumGpus = 2 * NumNics
BY VTopoAssumption DEF Gpus, Nics

\* A GPU at every port and a port of its own for every GPU; a NIC has one too, or none.
LEMMA GpuPorts ==
    ASSUME vnode \in VNodes, Accepted
    PROVE  /\ Ports \in SUBSET Nat /\ IsFiniteSet(Ports) /\ Cardinality(Ports) = 2 * NumNics
           /\ Ports = PortsOf(vnode.gpus)
           /\ \A g \in Gpus : vnode.gpus[g] \in Ports
           /\ \A p \in Ports : \E g \in Gpus : vnode.gpus[g] = p
           /\ \A g, h \in Gpus : vnode.gpus[g] = vnode.gpus[h] => g = h
           /\ \A n \in Nics : vnode.nics[n] \in Ports \cup {NoPort}
<1> DEFINE Img == {vnode.gpus[g] : g \in Gpus}
           f == [g \in Gpus |-> vnode.gpus[g]]
           P == PortsOf(vnode.gpus)
<1>1. Ports = P \cup PortsOf(vnode.nics)
  BY DEF Ports, Collected
<1>2. Cardinality(Gpus) = NumGpus /\ Cardinality(P) = NumGpus /\ Cardinality(Ports) = NumGpus
  BY DEF Accepted, CountsFit, Gpus, Ports
<1>3. P = Img \ {NoPort}
  BY DEF PortsOf, Gpus
<1>4. f \in Surjection(Gpus, Img)
  BY DEF Surjection
<1> HIDE DEF f
<1>5. IsFiniteSet(Img) /\ Cardinality(Img) <= NumGpus /\ (Cardinality(Img) = NumGpus <=> f \in Injection(Gpus, Img))
  BY <1>2, <1>4, NodeTypes, FS_Surjection
<1>6. /\ IsFiniteSet(Img \ {NoPort}) /\ Cardinality(Img) \in Nat
      /\ Cardinality(Img \ {NoPort}) = IF NoPort \in Img THEN Cardinality(Img) - 1 ELSE Cardinality(Img)
  BY <1>5, FS_RemoveElement, FS_CardinalityType
<1>7. NumGpus \in Nat
  BY NodeTypes
<1>8. NoPort \notin Img /\ Cardinality(Img) = NumGpus
  BY <1>2, <1>3, <1>5, <1>6, <1>7
<1>9. P = Img /\ IsFiniteSet(P)
  BY <1>3, <1>6, <1>8
<1>10. \A g, h \in Gpus : vnode.gpus[g] = vnode.gpus[h] => g = h
  <2>1. f \in Injection(Gpus, Img)
    BY <1>5, <1>8
  <2> QED
    BY <2>1 DEF Injection, IsInjective, f
<1>11. IsFiniteSet(Ports)
  <2> DEFINE J == {vnode.nics[n] : n \in Nics}
             e == [n \in Nics |-> vnode.nics[n]]
  <2>1. e \in Surjection(Nics, J)
    BY DEF Surjection
  <2> HIDE DEF e
  <2>2. IsFiniteSet(J)
    BY <2>1, NodeTypes, FS_Surjection
  <2>3. PortsOf(vnode.nics) \in SUBSET J
    BY DEF PortsOf, Nics
  <2>4. IsFiniteSet(PortsOf(vnode.nics))
    BY <2>2, <2>3, FS_Subset
  <2> QED
    BY <1>1, <1>9, <2>4, FS_Union
<1>12. Ports = P
  <2>1. P \in SUBSET Ports
    BY <1>1
  <2> QED
    BY <1>2, <1>11, <2>1, FS_Subset
<1>13. Ports \in SUBSET Nat
  BY <1>9, <1>12, NodeTypes
<1>14. \A n \in Nics : vnode.nics[n] \in Ports \cup {NoPort}
  BY <1>1 DEF PortsOf, Nics
<1>15. /\ \A g \in Gpus : vnode.gpus[g] \in Ports
       /\ \A p \in Ports : \E g \in Gpus : vnode.gpus[g] = p
  BY <1>9, <1>12
<1>16. Cardinality(Ports) = 2 * NumNics
  BY <1>2, NodeTypes
<1> QED
  BY <1>10, <1>11, <1>12, <1>13, <1>14, <1>15, <1>16, Zenon

\* The devices at a port: its GPU and its NICs.
LEMMA DevsAt ==
    ASSUME vnode \in VNodes, Accepted, NEW p \in Ports, NEW g \in Gpus, vnode.gpus[g] = p
    PROVE  /\ \A d : d \in Collected[p] <=> d = Gpu(g) \/ \E n \in Nics : vnode.nics[n] = p /\ d = Nic(n)
           /\ TwoDevs(Collected, p) => \E n \in Nics : vnode.nics[n] = p /\ Collected[p] = {Gpu(g), Nic(n)}
           /\ \A n, k \in Nics : TwoDevs(Collected, p) /\ vnode.nics[n] = p /\ vnode.nics[k] = p => n = k
<1> DEFINE C == Collected[p]
<1>1. C = {<<"gpu", h>> : h \in {h \in DOMAIN vnode.gpus : vnode.gpus[h] = p}}
              \cup {<<"nic", n>> : n \in {n \in DOMAIN vnode.nics : vnode.nics[n] = p}}
  BY DEF Collected, Ports
<1>2. \A h \in Gpus : vnode.gpus[h] = p <=> h = g
  BY GpuPorts
<1>3. \A d : d \in C <=> d = Gpu(g) \/ \E n \in Nics : vnode.nics[n] = p /\ d = Nic(n)
  BY <1>1, <1>2, Zenon DEF Gpu, Nic, Gpus, Nics
<1> DEFINE D == C \ {Gpu(g)}
<1>4. /\ \A n : Nic(n) # Gpu(g)
      /\ \A n, k : Nic(n) = Nic(k) => n = k
  BY DEF Nic, Gpu
<1>5. \A d : d \in D <=> \E n \in Nics : vnode.nics[n] = p /\ d = Nic(n)
  BY <1>3, <1>4, Zenon
<1> HIDE DEF C
<1>6. IsFiniteSet(D) /\ IsFiniteSet(C)
  <2> DEFINE f == [d \in D |-> d[2]]
  <2>1. \A d \in D : d[2] \in Nics /\ d = Nic(d[2])
    BY <1>5 DEF Nic
  <2>2. f \in Injection(D, Nics)
    BY <2>1 DEF Injection, IsInjective
  <2> HIDE DEF f
  <2>3. IsFiniteSet(D)
    BY <2>2, NodeTypes, FS_Injection
  <2>4. C = D \cup {Gpu(g)}
    BY <1>3
  <2> HIDE DEF D
  <2> QED
    BY <2>3, <2>4, FS_AddElement
<1>7. ASSUME TwoDevs(Collected, p) PROVE \E n \in Nics : vnode.nics[n] = p /\ C = {Gpu(g), Nic(n)} /\ D = {Nic(n)}
  <2>1. Cardinality(C) = 2 /\ Gpu(g) \in C
    BY <1>3, <1>7 DEF TwoDevs, C
  <2>2. Cardinality(D) = 1
    <3>1. Cardinality(C \ {Gpu(g)}) = Cardinality(C) - 1
      BY <1>6, <2>1, FS_RemoveElement, Zenon
    <3> QED
      BY <2>1, <3>1
  <2>3. PICK d : D = {d}
    BY <1>6, <2>2, FS_Singleton
  <2>4. PICK n \in Nics : vnode.nics[n] = p /\ d = Nic(n)
    BY <1>5, <2>3
  <2> QED
    BY <2>1, <2>3, <2>4
<1>8. ASSUME TwoDevs(Collected, p), NEW n \in Nics, NEW k \in Nics, vnode.nics[n] = p, vnode.nics[k] = p PROVE n = k
  <2>1. PICK i : D = {Nic(i)}
    BY <1>7, <1>8
  <2>2. Nic(n) \in D /\ Nic(k) \in D
    BY <1>5, <1>8, Zenon
  <2> HIDE DEF D
  <2>3. Nic(n) = Nic(i) /\ Nic(k) = Nic(i)
    BY <2>1, <2>2
  <2> QED
    BY <1>4, <2>3
<1> QED
  BY <1>3, <1>7, <1>8, Zenon DEF C

Pairs == PortPairs(Ports)

\* What ends up under the switch of pair a: its GPU and NIC and the other port's GPU.
Under(a, g, n, h) ==
    /\ g \in Gpus /\ n \in Nics /\ h \in Gpus /\ g # h
    /\ vnode.gpus[g] = SwitchOf(a) /\ vnode.nics[n] = SwitchOf(a) /\ vnode.gpus[h] = OtherOf(a)
    /\ {SwitchOf(a), OtherOf(a)} = {a[1], a[2]} /\ SwitchOf(a) # OtherOf(a)
    /\ uppDevs[SwitchOf(a)] = {Gpu(g), Nic(n)} /\ FirstAt(OtherOf(a)) = Gpu(h)

\* The ports of an accepted node fall into NumNics pairs.
LEMMA PairsOfPorts ==
    ASSUME vnode \in VNodes, Accepted
    PROVE  /\ IsFiniteSet(Pairs) /\ Cardinality(Pairs) = NumNics
           /\ \A a \in Pairs : a[1] \in Ports /\ a[2] \in Ports /\ a[1] # a[2]
           /\ \A p \in Ports : \E a \in Pairs : p \in {a[1], a[2]}
           /\ \A a, b \in Pairs : {a[1], a[2]} \cap {b[1], b[2]} # {} => a = b
<1>1. Ports \in SUBSET Nat /\ IsFiniteSet(Ports) /\ Cardinality(Ports) = 2 * NumNics /\ NumNics \in Nat
  BY GpuPorts, NodeTypes
<1>2. PICK S \in SUBSET Nat, m \in Nat : S = Ports /\ IsFiniteSet(S) /\ Cardinality(S) = 2 * m /\ m = NumNics
  BY <1>1
<1>3. /\ IsFiniteSet(PortPairs(S)) /\ Cardinality(PortPairs(S)) = m
      /\ \A a \in PortPairs(S) : a[1] \in S /\ a[2] \in S /\ a[1] # a[2]
      /\ \A p \in S : \E a \in PortPairs(S) : p \in {a[1], a[2]}
      /\ \A a, b \in PortPairs(S) : {a[1], a[2]} \cap {b[1], b[2]} # {} => a = b
  BY <1>2, PairsPartition
<1> QED
  BY <1>2, <1>3, Zenon DEF Pairs

\* One port of a pair has a GPU and a NIC, the other a GPU.
LEMMA SwitchDevs ==
    ASSUME vnode \in VNodes, Accepted, uppDevs = Collected, NEW a \in Pairs
    PROVE  \E g, n, h : Under(a, g, n, h)
<1>1. a[1] \in Ports /\ a[2] \in Ports /\ a[1] # a[2]
  BY PairsOfPorts
<1>2. TwoDevs(uppDevs, a[1]) \/ TwoDevs(uppDevs, a[2])
  BY DEF Accepted, Pairs, Ports
<1>3. PICK s \in Ports, o \in Ports : s = SwitchOf(a) /\ o = OtherOf(a) /\ {s, o} = {a[1], a[2]} /\ s # o /\ TwoDevs(Collected, s)
  BY <1>1, <1>2 DEF SwitchOf, OtherOf
<1>4. PICK g \in Gpus : vnode.gpus[g] = s
  BY GpuPorts
<1>5. PICK h \in Gpus : vnode.gpus[h] = o
  BY GpuPorts
<1>6. PICK n \in Nics : vnode.nics[n] = s /\ Collected[s] = {Gpu(g), Nic(n)}
  BY <1>3, <1>4, DevsAt
<1>7. \A d : d \in Collected[o] <=> d = Gpu(h) \/ \E k \in Nics : vnode.nics[k] = o /\ d = Nic(k)
  BY <1>5, DevsAt
<1>8. FirstAt(o) = Gpu(h)
  <2>1. Gpu(h) \in uppDevs[o] /\ Gpu(h)[1] = "gpu"
    BY <1>7 DEF Gpu
  <2>2. \A k : Nic(k)[1] # "gpu"
    BY DEF Nic
  <2>3. \A d \in uppDevs[o] : d[1] = "gpu" => d = Gpu(h)
    BY <1>7, <2>2, Zenon
  <2>4. PICK d : d = CHOOSE e \in uppDevs[o] : e[1] = "gpu"
    OBVIOUS
  <2>5. d \in uppDevs[o] /\ d[1] = "gpu"
    BY <2>1, <2>4, Zenon
  <2>6. d = Gpu(h)
    BY <2>3, <2>5
  <2> QED
    BY <2>4, <2>6, Zenon DEF FirstAt
<1>9. g # h
  BY <1>3, <1>4, <1>5
<1>10. Under(a, g, n, h)
  BY <1>3, <1>4, <1>5, <1>6, <1>8, <1>9, Zenon DEF Under
<1> QED
  BY <1>10

\* There are as many pairs as NICs, so every NIC is under the switch of a pair.
LEMMA NicsUsed ==
    ASSUME vnode \in VNodes, Accepted, uppDevs = Collected, NEW n \in Nics
    PROVE  \E a \in Pairs : vnode.nics[n] = SwitchOf(a)
<1> DEFINE At(a) == CHOOSE k \in Nics : vnode.nics[k] = SwitchOf(a)
           f == [a \in Pairs |-> At(a)]
<1>1. ASSUME NEW a \in Pairs PROVE f[a] \in Nics /\ vnode.nics[f[a]] = SwitchOf(a) /\ SwitchOf(a) \in {a[1], a[2]}
  <2>1. PICK g, k, h : Under(a, g, k, h)
    BY SwitchDevs
  <2>2. k \in Nics /\ vnode.nics[k] = SwitchOf(a) /\ SwitchOf(a) \in {a[1], a[2]}
    BY <2>1 DEF Under
  <2>3. PICK x : x = At(a)
    OBVIOUS
  <2>4. x \in Nics /\ vnode.nics[x] = SwitchOf(a)
    BY <2>2, <2>3, Zenon
  <2>5. f[a] = x
    BY <2>3
  <2> QED
    BY <2>2, <2>4, <2>5, Zenon
<1>2. f \in [Pairs -> Nics]
  BY <1>1
<1> HIDE DEF f
<1>3. ASSUME NEW a \in Pairs, NEW b \in Pairs, f[a] = f[b] PROVE a = b
  <2>1. SwitchOf(a) \in {a[1], a[2]} /\ SwitchOf(a) \in {b[1], b[2]}
    BY <1>1, <1>3
  <2>2. {a[1], a[2]} \cap {b[1], b[2]} # {}
    BY <2>1
  <2> QED
    BY <2>2, PairsOfPorts
<1>4. f \in Injection(Pairs, Nics)
  BY <1>2, <1>3 DEF Injection, IsInjective
<1>5. Cardinality(Pairs) = Cardinality(Nics) /\ IsFiniteSet(Nics)
  BY PairsOfPorts, NodeTypes DEF Accepted, CountsFit, Nics
<1>6. f \in Surjection(Pairs, Nics)
  BY <1>4, <1>5, FS_Injection
<1>7. PICK a \in Pairs : f[a] = n
  BY <1>6 DEF Surjection
<1> QED
  BY <1>1, <1>7

\* Two different pairs have different switches.
LEMMA OwnSwitch ==
    ASSUME vnode \in VNodes, Accepted, uppDevs = Collected, NEW a \in Pairs, NEW b \in Pairs, SwitchOf(a) = SwitchOf(b)
    PROVE  a = b
<1>1. SwitchOf(a) \in {a[1], a[2]} /\ SwitchOf(b) \in {b[1], b[2]}
  BY SwitchDevs DEF Under
<1>2. {a[1], a[2]} \cap {b[1], b[2]} # {}
  BY <1>1
<1> QED
  BY <1>2, PairsOfPorts

\* The generated topology puts the three devices of a pair under its switch.
LEMMA TopoAt ==
    ASSUME vnode \in VNodes, Accepted, uppDevs = Collected, topo = GenTopo
    PROVE  /\ DOMAIN topo = {SwitchOf(a) : a \in Pairs}
           /\ \A a \in Pairs : \A g, n, h : Under(a, g, n, h) => topo[SwitchOf(a)] = {Gpu(g), Nic(n), Gpu(h)}
<1>1. topo = [p \in {SwitchOf(a) : a \in Pairs} |->
                 uppDevs[p] \cup {FirstAt(OtherOf(CHOOSE a \in Pairs : SwitchOf(a) = p))}]
  BY DEF GenTopo, Pairs, Ports
<1>2. DOMAIN topo = {SwitchOf(a) : a \in Pairs}
  BY <1>1
<1>3. ASSUME NEW a \in Pairs, NEW g, NEW n, NEW h, Under(a, g, n, h) PROVE topo[SwitchOf(a)] = {Gpu(g), Nic(n), Gpu(h)}
  <2>1. PICK b : b = CHOOSE x \in Pairs : SwitchOf(x) = SwitchOf(a)
    OBVIOUS
  <2>2. b \in Pairs /\ SwitchOf(b) = SwitchOf(a)
    BY <2>1, Zenon
  <2>3. b = a
    BY <2>2, OwnSwitch
  <2>4. topo[SwitchOf(a)] = uppDevs[SwitchOf(a)] \cup {FirstAt(OtherOf(b))}
    BY <1>1, <2>1
  <2>5. uppDevs[SwitchOf(a)] = {Gpu(g), Nic(n)} /\ FirstAt(OtherOf(a)) = Gpu(h)
    BY <1>3 DEF Under
  <2> QED
    BY <2>3, <2>4, <2>5
<1> QED
  BY <1>2, <1>3, Zenon

\* What TopologyExact says of the topology written.
TopoRight ==
    LET Kind(kind, p) == {d \in topo[p] : d[1] = kind}
    IN  /\ UNION {topo[p] : p \in DOMAIN topo}
              = ({"gpu"} \X DOMAIN vnode.gpus) \cup ({"nic"} \X DOMAIN vnode.nics)
        /\ \A p, q \in DOMAIN topo : p # q => topo[p] \cap topo[q] = {}
        /\ \A p \in DOMAIN topo :
              /\ Cardinality(Kind("gpu", p)) = 2 /\ Cardinality(Kind("nic", p)) = 1
              /\ \E pair \in PortPairs(PortsOf(vnode.gpus)) :
                    \A d \in topo[p] : PortOf(d) \in {pair[1], pair[2]}

\* Two different elements.
LEMMA CardTwo ==
    ASSUME NEW x, NEW y, x # y
    PROVE  Cardinality({x, y}) = 2
<1>1. IsFiniteSet({x}) /\ Cardinality({x}) = 1
  BY FS_Singleton
<1>2. Cardinality({x} \cup {y}) = 1 + 1
  BY <1>1, FS_AddElement
<1>3. {x} \cup {y} = {x, y} /\ 1 + 1 = 2
  OBVIOUS
<1> QED
  BY <1>2, <1>3

\* The topology of an accepted node is the one TopologyExact asks for.
LEMMA GenTopoRight ==
    ASSUME vnode \in VNodes, Accepted, uppDevs = Collected, topo = GenTopo
    PROVE  TopoRight
<1> DEFINE Kind(kind, p) == {d \in topo[p] : d[1] = kind}
           All == ({"gpu"} \X Gpus) \cup ({"nic"} \X Nics)
<1>1. DOMAIN topo = {SwitchOf(a) : a \in Pairs}
  BY TopoAt
<1>2. ASSUME NEW p \in DOMAIN topo
      PROVE  \E a \in Pairs : \E g, n, h : p = SwitchOf(a) /\ Under(a, g, n, h) /\ topo[p] = {Gpu(g), Nic(n), Gpu(h)}
  <2>1. PICK a \in Pairs : p = SwitchOf(a)
    BY <1>1
  <2>2. PICK g, n, h : Under(a, g, n, h)
    BY SwitchDevs
  <2>3. topo[p] = {Gpu(g), Nic(n), Gpu(h)}
    BY <2>1, <2>2, TopoAt
  <2> QED
    BY <2>1, <2>2, <2>3
<1>3. /\ \A g : Gpu(g)[1] = "gpu" /\ Gpu(g)[2] = g /\ PortOf(Gpu(g)) = vnode.gpus[g]
      /\ \A n : Nic(n)[1] = "nic" /\ Nic(n)[2] = n /\ PortOf(Nic(n)) = vnode.nics[n]
      /\ \A d : d \in All <=> (\E g \in Gpus : d = Gpu(g)) \/ (\E n \in Nics : d = Nic(n))
  BY DEF Gpu, Nic, PortOf
<1>4. ASSUME NEW a \in Pairs, NEW g, NEW n, NEW h, Under(a, g, n, h), NEW d \in {Gpu(g), Nic(n), Gpu(h)}
      PROVE  d \in All /\ PortOf(d) \in {a[1], a[2]}
  <2>1. /\ g \in Gpus /\ n \in Nics /\ h \in Gpus /\ SwitchOf(a) \in {a[1], a[2]} /\ OtherOf(a) \in {a[1], a[2]}
        /\ vnode.gpus[g] = SwitchOf(a) /\ vnode.nics[n] = SwitchOf(a) /\ vnode.gpus[h] = OtherOf(a)
    BY <1>4 DEF Under
  <2>2. d = Gpu(g) \/ d = Nic(n) \/ d = Gpu(h)
    OBVIOUS
  <2>3. d \in All
    <3>1. (\E x \in Gpus : d = Gpu(x)) \/ (\E x \in Nics : d = Nic(x))
      BY <2>1, <2>2, Zenon
    <3> HIDE DEF All
    <3> QED
      BY <1>3, <3>1
  <2>4. PortOf(d) \in {a[1], a[2]}
    <3>1. /\ PortOf(Gpu(g)) = vnode.gpus[g] /\ PortOf(Gpu(h)) = vnode.gpus[h] /\ PortOf(Nic(n)) = vnode.nics[n]
      BY <1>3
    <3>2. PortOf(d) = SwitchOf(a) \/ PortOf(d) = OtherOf(a)
      BY <2>1, <2>2, <3>1, Zenon
    <3> QED
      BY <2>1, <3>2, Zenon
  <2> QED
    BY <2>3, <2>4
<1> HIDE DEF All
<1>5. ASSUME NEW p \in DOMAIN topo, NEW d \in topo[p] PROVE d \in All
  BY <1>2, <1>4
<1>6. ASSUME NEW d \in All PROVE \E p \in DOMAIN topo : d \in topo[p]
  <2>1. CASE \E g \in Gpus : d = Gpu(g)
    <3>1. PICK x \in Gpus : d = Gpu(x)
      BY <2>1
    <3>2. vnode.gpus[x] \in Ports
      BY GpuPorts
    <3>3. PICK a \in Pairs : vnode.gpus[x] \in {a[1], a[2]}
      BY <3>2, PairsOfPorts
    <3>4. PICK g, n, h : Under(a, g, n, h)
      BY SwitchDevs
    <3>5. /\ g \in Gpus /\ h \in Gpus
          /\ vnode.gpus[g] = SwitchOf(a) /\ vnode.gpus[h] = OtherOf(a) /\ {SwitchOf(a), OtherOf(a)} = {a[1], a[2]}
      BY <3>4, Zenon DEF Under
    <3>6. vnode.gpus[x] = vnode.gpus[g] \/ vnode.gpus[x] = vnode.gpus[h]
      BY <3>3, <3>5
    <3>7. x = g \/ x = h
      BY <3>5, <3>6, GpuPorts
    <3>8. SwitchOf(a) \in DOMAIN topo /\ topo[SwitchOf(a)] = {Gpu(g), Nic(n), Gpu(h)}
      BY <1>1, <3>4, TopoAt
    <3> QED
      BY <3>1, <3>7, <3>8
  <2>2. CASE \E n \in Nics : d = Nic(n)
    <3>1. PICK x \in Nics : d = Nic(x)
      BY <2>2
    <3>2. PICK a \in Pairs : vnode.nics[x] = SwitchOf(a)
      BY NicsUsed
    <3>3. PICK g, n, h : Under(a, g, n, h)
      BY SwitchDevs
    <3>4. /\ g \in Gpus /\ n \in Nics /\ vnode.gpus[g] = SwitchOf(a) /\ vnode.nics[n] = SwitchOf(a)
          /\ uppDevs[SwitchOf(a)] = {Gpu(g), Nic(n)}
      BY <3>3, Zenon DEF Under
    <3>5. Nic(x) \in Collected[SwitchOf(a)]
      <4>1. SwitchOf(a) \in Ports
        BY <3>4, GpuPorts
      <4> QED
        BY <3>2, <3>4, <4>1, DevsAt
    <3>6. Nic(x) = Nic(n)
      <4>1. Nic(x) # Gpu(g)
        BY <1>3, Zenon
      <4> QED
        BY <3>4, <3>5, <4>1
    <3>7. SwitchOf(a) \in DOMAIN topo /\ topo[SwitchOf(a)] = {Gpu(g), Nic(n), Gpu(h)}
      BY <1>1, <3>3, TopoAt
    <3> QED
      BY <3>1, <3>6, <3>7
  <2>3. (\E g \in Gpus : d = Gpu(g)) \/ (\E n \in Nics : d = Nic(n))
    BY <1>3
  <2> QED
    BY <2>1, <2>2, <2>3, Zenon
<1>7. UNION {topo[p] : p \in DOMAIN topo} = All
  BY <1>5, <1>6
<1>8. ASSUME NEW p \in DOMAIN topo, NEW q \in DOMAIN topo, p # q PROVE topo[p] \cap topo[q] = {}
  <2> SUFFICES ASSUME NEW d \in topo[p], d \in topo[q] PROVE FALSE
    OBVIOUS
  <2>1. PICK a \in Pairs : p = SwitchOf(a) /\ PortOf(d) \in {a[1], a[2]}
    BY <1>2, <1>4
  <2>2. PICK b \in Pairs : q = SwitchOf(b) /\ PortOf(d) \in {b[1], b[2]}
    BY <1>2, <1>4
  <2>3. {a[1], a[2]} \cap {b[1], b[2]} # {}
    BY <2>1, <2>2
  <2>4. a = b
    BY <2>3, PairsOfPorts
  <2> QED
    BY <1>8, <2>1, <2>2, <2>4
<1>9. ASSUME NEW p \in DOMAIN topo
      PROVE  /\ Cardinality(Kind("gpu", p)) = 2 /\ Cardinality(Kind("nic", p)) = 1
             /\ \E pair \in Pairs : \A d \in topo[p] : PortOf(d) \in {pair[1], pair[2]}
  <2>0. PICK a \in Pairs : \E g, n, h : p = SwitchOf(a) /\ Under(a, g, n, h) /\ topo[p] = {Gpu(g), Nic(n), Gpu(h)}
    BY <1>2
  <2>1. PICK g, n, h : p = SwitchOf(a) /\ Under(a, g, n, h) /\ topo[p] = {Gpu(g), Nic(n), Gpu(h)}
    BY <2>0
  <2>2. Gpu(g)[1] = "gpu" /\ Gpu(h)[1] = "gpu" /\ Nic(n)[1] = "nic"
    BY <1>3, Zenon
  <2>3. Kind("gpu", p) = {Gpu(g), Gpu(h)} /\ Kind("nic", p) = {Nic(n)}
    BY <2>1, <2>2
  <2>4. Gpu(g) # Gpu(h)
    <3>1. g # h
      BY <2>1 DEF Under
    <3> QED
      BY <3>1 DEF Gpu
  <2>5. Cardinality({Gpu(g), Gpu(h)}) = 2 /\ Cardinality({Nic(n)}) = 1
    BY <2>4, CardTwo, FS_Singleton
  <2>6. \A d \in topo[p] : PortOf(d) \in {a[1], a[2]}
    BY <1>4, <2>1
  <2> QED
    BY <2>3, <2>5, <2>6
<1>10. PortPairs(PortsOf(vnode.gpus)) = Pairs
  BY GpuPorts DEF Pairs
<1> QED
  BY <1>7, <1>8, <1>9, <1>10, Zenon DEF TopoRight, All, Gpus, Nics
----------------------------------------------------------------------------
(* The threads. *)

\* What is known at each stage of the static object and of pthread_once.
Planned == Accepted /\ uppDevs = Collected
VTopoInv ==
    /\ vnode \in VNodes /\ vpc \in [VThreads -> {"start", "write", "done"}]
    /\ once \in {"fresh", "constructed", "running", "done", "exited", "aborted"}
    /\ once \in {"fresh", "constructed"} => topoFile = "none" /\ topoEnv = FALSE /\ \A t \in VThreads : vpc[t] = "start"
    /\ once = "constructed" => uppDevs = NoDevs \/ Planned
    /\ once = "running" => Planned /\ topo = GenTopo /\ \A t \in VThreads : vpc[t] # "done"
    /\ once = "done" => \/ topoFile = "none" /\ topoEnv = FALSE
                        \/ /\ topoFile \in {"complete", "truncated"} /\ topoEnv = ~vnode.envSet
                           /\ Planned /\ topo = GenTopo
    /\ \A t \in VThreads : vpc[t] = "write" => once = "running" /\ \A u \in VThreads : vpc[u] = "write" => u = t
    /\ once = "exited" => \A t \in VThreads : vpc[t] = "done"
    /\ once = "aborted" => \A t \in VThreads : vpc[t] = "start"

\* VTopoInv holds before a node is read.
LEMMA VTopoInitInv == VTopoInit => VTopoInv
BY DEF VTopoInit, VTopoInv

\* Every step of the generator keeps VTopoInv.
LEMMA VTopoNextInv == VTopoInv /\ [VTopoNext]_vtopovars => VTopoInv'
<1> SUFFICES ASSUME VTopoInv, [VTopoNext]_vtopovars PROVE VTopoInv'
  OBVIOUS
<1>1. ASSUME vnode' = vnode PROVE (Accepted' <=> Accepted) /\ Collected' = Collected
  BY <1>1 DEF Accepted, CountsFit, Collected, PortsOf, TwoDevs, PortPairs
<1>2. ASSUME uppDevs' = uppDevs PROVE GenTopo' = GenTopo
  BY <1>2 DEF GenTopo, SwitchOf, OtherOf, FirstAt, TwoDevs, PortPairs
<1>3. vnode' = vnode /\ uppDevs' = uppDevs => (Planned' <=> Planned)
  BY <1>1 DEF Planned
<1>4. CASE UNCHANGED vtopovars
  BY <1>2, <1>3, <1>4 DEF vtopovars, VTopoInv
<1>5. CASE RemoveTopoFile
  BY <1>5 DEF RemoveTopoFile, VTopoInv
<1>6. ASSUME NEW t \in VThreads, Construct(t) PROVE VTopoInv'
  <2>1. uppDevs' = NoDevs \/ Planned'
    BY <1>1, <1>6, Zenon DEF Construct, Planned
  <2> QED
    BY <1>6, <2>1 DEF Construct, VTopoInv
<1>7. ASSUME NEW t \in VThreads, GenNothing(t) PROVE VTopoInv'
  BY <1>7 DEF GenNothing, VTopoInv
<1>8. ASSUME NEW t \in VThreads, GenOpen(t) PROVE VTopoInv'
  <2>1. Planned' /\ topo' = GenTopo'
    BY <1>2, <1>3, <1>8 DEF GenOpen, VTopoInv
  <2> QED
    BY <1>8, <2>1 DEF GenOpen, VTopoInv
<1>9. ASSUME NEW t \in VThreads, GenWrite(t) PROVE VTopoInv'
  <2>1. Planned' /\ topo' = GenTopo'
    BY <1>2, <1>3, <1>9 DEF GenWrite, VTopoInv
  <2> QED
    BY <1>9, <2>1 DEF GenWrite, VTopoInv
<1>10. ASSUME NEW t \in VThreads, GenAlready(t) PROVE VTopoInv'
  BY <1>2, <1>3, <1>10 DEF GenAlready, VTopoInv
<1>11. ASSUME NEW t \in VThreads, ConstructThrows(t) PROVE VTopoInv'
  BY <1>11 DEF ConstructThrows, VTopoInv
<1> QED
  BY <1>4, <1>5, <1>6, <1>7, <1>8, <1>9, <1>10, <1>11 DEF VTopoNext

\* For any number of threads and every node, tryGenVTopo returns with no file under way,
\* announces a file just when NCCL_TOPO_FILE was not there, and a file that was written in
\* full has every device under the one switch of its own pair.
THEOREM Topology == VTopoSpec => []TopologyExact
<1>1. VTopoInv => TopologyExact
  <2> SUFFICES ASSUME VTopoInv, Returned PROVE TopologyExact
    BY DEF TopologyExact
  <2>1. once = "done"
    BY DEF Returned, VTopoInv
  <2>2. topoFile # "partial" /\ (topoEnv <=> topoFile # "none" /\ ~vnode.envSet)
    BY <2>1, VTopoAssumption DEF VTopoInv
  <2>3. topoFile = "complete" => TopoRight
    BY <2>1, GenTopoRight DEF VTopoInv, Planned
  <2> QED
    BY <2>2, <2>3, Zenon DEF TopologyExact, TopoRight
<1> QED
  BY <1>1, VTopoInitInv, VTopoNextInv, PTL DEF VTopoSpec

==============================================================================
