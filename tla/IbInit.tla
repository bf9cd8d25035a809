------------------------------- MODULE IbInit -------------------------------
(***************************************************************************)
(* ncclIbInit and ncclIbDevices (unet_ib.cc): the first of the threads     *)
(* that call ncclIbInit discovers the ports of the node's IB devices under *)
(* ncclIbLock and groups the ports of a NIC into merged devices; if NICs   *)
(* with different numbers of ports come out, it builds the list again      *)
(* without merging.  Whether that has been done is first tested without    *)
(* the lock.                                                               *)
(*                                                                         *)
(* A port is a record: dev is the IB device it is a port of, key stands    *)
(* for the PCI path, GUID and link layer that must agree, speed for its    *)
(* bandwidth, usable for the tests it has to pass (its device can be       *)
(* opened and queried; user's list, link state, speed).  The ports of a    *)
(* device follow each other.  The tables are sequences: beyond MaxIbDevs   *)
(* entries the code writes behind its arrays.                              *)
(***************************************************************************)
EXTENDS Integers, Sequences, FiniteSets, FiniteSetsExt

CONSTANTS Threads,         \* threads that call ncclIbInit
          Layouts,         \* nodes: a sequence of ports each
          MergeNics,       \* NCCL_IB_MERGE_NICS
          MaxDevsPerNic,   \* NCCL_IB_MAX_DEVS_PER_NIC
          MaxIbDevs,       \* MAX_IB_DEVS
          MayFail          \* whether a step of the discovery may fail

ASSUME InitAssumption ==
    /\ IsFiniteSet(Threads)
    /\ MergeNics \in BOOLEAN /\ MayFail \in BOOLEAN
    /\ MaxDevsPerNic \in Nat \ {0} /\ MaxIbDevs \in Nat \ {0}
    /\ \A node \in Layouts :
          /\ node \in Seq(Range(node))
          /\ \A port \in Range(node) : port.usable \in BOOLEAN /\ port.speed \in Nat

Nobody == "nobody"

ASSUME LockAssumption == Nobody \notin Threads

VARIABLES ports,      \* the node
          nIbDevs,    \* ncclNIbDevs
          devs,       \* ncclIbDevs: the ports in use
          merged,     \* ncclIbMergedDevs: devices and aggregate speed
          lock,       \* holder of ncclIbLock
          next,       \* next port the discovery looks at
          mergeNics,  \* the discovery still merges
          pc, ret,    \* where a thread is and what ncclIbInit returned to it
          seen,       \* ncclIbDevices' answer to the thread
          waited,     \* history: threads that went for the lock
          complete    \* history: a discovery has come to its end

vars == <<ports, nIbDevs, devs, merged, lock, next, mergeNics, pc, ret, seen, waited, complete>>

NotAsked == -1

Init ==
    /\ ports \in Layouts
    /\ nIbDevs = -1 /\ devs = <<>> /\ merged = <<>>
    /\ lock = Nobody /\ next = 1 /\ mergeNics = FALSE
    /\ pc = [t \in Threads |-> "start"] /\ ret = [t \in Threads |-> "none"]
    /\ seen = [t \in Threads |-> NotAsked]
    /\ waited = {} /\ complete = FALSE

Return(t, result) ==
    /\ pc' = [pc EXCEPT ![t] = "done"]
    /\ ret' = [ret EXCEPT ![t] = result]

----------------------------------------------------------------------------
\* The test without the lock.
Enter(t) ==
    /\ pc[t] = "start"
    /\ IF nIbDevs = -1
       THEN pc' = [pc EXCEPT ![t] = "lock"] /\ waited' = waited \cup {t} /\ UNCHANGED ret
       ELSE Return(t, "success") /\ UNCHANGED waited
    /\ UNCHANGED <<ports, nIbDevs, devs, merged, lock, next, mergeNics, seen, complete>>

\* Mutant of MustDiscover: the test is not repeated under the lock.
MutMustDiscover == TRUE

\* The test under the lock.
MustDiscover == nIbDevs = -1

\* Mutant of Holder: the lock is not taken.
MutHolder(t) == Nobody

\* Who has ncclIbLock during the discovery of t.
Holder(t) == t

Lock(t) ==
    /\ pc[t] = "lock" /\ lock = Nobody
    /\ IF MustDiscover
       THEN /\ lock' = Holder(t)
            /\ nIbDevs' = 0 /\ merged' = <<>> /\ devs' = <<>>
            /\ next' = 1 /\ mergeNics' = MergeNics
            /\ pc' = [pc EXCEPT ![t] = "discover"]
            /\ UNCHANGED ret
       ELSE /\ Return(t, "success")
            /\ UNCHANGED <<nIbDevs, devs, merged, lock, next, mergeNics>>
    /\ UNCHANGED <<ports, seen, waited, complete>>

\* Mutant of FindMatchingDev: a full merged device is matched too.
MutFindMatchingDev(port) ==
    LET match == {m \in DOMAIN merged : devs[merged[m].devs[1]].key = port.key}
    IN  IF mergeNics /\ match # {} THEN Min(match) ELSE Len(merged) + 1

\* ncclIbFindMatchingDev: the first merged device with room whose first port
\* agrees, or a new one.
FindMatchingDev(port) ==
    LET match == {m \in DOMAIN merged :
                     /\ Len(merged[m].devs) < MaxDevsPerNic
                     /\ devs[merged[m].devs[1]].key = port.key}
    IN  IF mergeNics /\ match # {} THEN Min(match) ELSE Len(merged) + 1

AddPort(port) ==
    LET m == FindMatchingDev(port)
        d == Len(devs) + 1
    IN
    /\ devs' = Append(devs, port)
    /\ merged' = IF m > Len(merged)
                 THEN Append(merged, [devs |-> <<d>>, speed |-> port.speed])
                 ELSE [merged EXCEPT ![m] = [devs |-> Append(@.devs, d),
                                             speed |-> @.speed + port.speed]]
    /\ nIbDevs' = nIbDevs + 1

\* The loop over the devices ends; the loop over the ports of a device does
\* not test the limit.
ListEnds ==
    \/ next > Len(ports)
    \/ nIbDevs >= MaxIbDevs
          /\ (next \in 2 .. Len(ports) => ports[next].dev # ports[next - 1].dev)

Probe(t) ==
    /\ pc[t] = "discover" /\ ~ListEnds
    /\ next' = next + 1
    /\ IF ports[next].usable THEN AddPort(ports[next]) ELSE UNCHANGED <<devs, merged, nIbDevs>>
    /\ UNCHANGED <<ports, lock, mergeNics, pc, ret, seen, waited, complete>>

\* Mutant of DiscoveryFails: the lock is not released.
MutDiscoveryFails(t) ==
    /\ MayFail /\ pc[t] = "discover"
    /\ Return(t, "error")
    /\ UNCHANGED <<ports, nIbDevs, devs, merged, lock, next, mergeNics, seen, waited, complete>>

\* The label fail, from any step of the discovery.
DiscoveryFails(t) ==
    /\ MayFail /\ pc[t] = "discover"
    /\ lock' = Nobody
    /\ Return(t, "error")
    /\ UNCHANGED <<ports, nIbDevs, devs, merged, next, mergeNics, seen, waited, complete>>

\* Single- and multi-port NICs came out side by side.
Mixed == \E m \in DOMAIN merged : Len(merged[m].devs) # Len(merged[1].devs)

\* Mutant of Rebuild: the number of devices is not reset.
MutRebuild(t) ==
    /\ pc[t] = "discover" /\ ListEnds
    /\ mergeNics /\ Mixed
    /\ mergeNics' = FALSE
    /\ merged' = <<>> /\ devs' = <<>> /\ next' = 1
    /\ UNCHANGED <<ports, nIbDevs, lock, pc, ret, seen, waited, complete>>

\* goto build_ib_list
Rebuild(t) ==
    /\ pc[t] = "discover" /\ ListEnds
    /\ mergeNics /\ Mixed
    /\ mergeNics' = FALSE
    /\ nIbDevs' = 0 /\ merged' = <<>> /\ devs' = <<>> /\ next' = 1
    /\ UNCHANGED <<ports, lock, pc, ret, seen, waited, complete>>

Discovered(t) ==
    /\ pc[t] = "discover" /\ ListEnds
    /\ ~(mergeNics /\ Mixed)
    /\ complete' = TRUE
    /\ lock' = Nobody
    /\ Return(t, "success")
    /\ UNCHANGED <<ports, nIbDevs, devs, merged, next, mergeNics, seen, waited>>

\* ncclIbDevices, for a thread whose init succeeded.
Devices(t) ==
    /\ pc[t] = "done" /\ ret[t] = "success" /\ seen[t] = NotAsked
    /\ seen' = [seen EXCEPT ![t] = Len(merged)]
    /\ UNCHANGED <<ports, nIbDevs, devs, merged, lock, next, mergeNics, pc, ret, waited, complete>>

Step(t) ==
    \/ Enter(t) \/ Lock(t) \/ Probe(t) \/ DiscoveryFails(t) \/ Rebuild(t) \/ Discovered(t)
    \/ Devices(t)

Next == \E t \in Threads : Step(t)
Spec == Init /\ [][Next]_vars

\* A thread that can run eventually does.
FairSpec == Spec /\ \A t \in Threads : WF_vars(Step(t))

----------------------------------------------------------------------------
MergedDev == [devs : Seq(Nat), speed : Nat]

\* Type correctness.
TypeOK ==
    /\ ports \in Layouts
    /\ devs \in Seq(Range(ports)) /\ merged \in Seq(MergedDev)
    /\ nIbDevs \in -1 .. Len(ports)
    /\ lock \in Threads \cup {Nobody} /\ next \in 1 .. Len(ports) + 1
    /\ pc \in [Threads -> {"start", "lock", "discover", "done"}]
    /\ ret \in [Threads -> {"none", "success", "error"}]
    /\ seen \in [Threads -> -1 .. Len(ports)] /\ waited \subseteq Threads
    /\ mergeNics \in BOOLEAN /\ complete \in BOOLEAN

Usable == {i \in DOMAIN ports : ports[i].usable}
MembersOf(m) == {merged[m].devs[j] : j \in DOMAIN merged[m].devs}
SumOfSpeeds(m) == MapThenSumSet(LAMBDA d : devs[d].speed, MembersOf(m))

(***************************************************************************)
(* What a finished discovery leaves: every usable port, up to the device   *)
(* with which the table was full, is in use once and belongs to exactly    *)
(* one merged device; the ports of a merged device agree and are no more   *)
(* than MaxDevsPerNic; all merged devices have the same number of ports;   *)
(* their speed is the sum of their ports' (also when the list was built    *)
(* twice).  The table is overrun by further ports of its last device only. *)
(***************************************************************************)
MergedDevsExact ==
    complete =>
        /\ nIbDevs = Len(devs) /\ Len(devs) = Cardinality(Usable \cap 1 .. next - 1)
        /\ next <= Len(ports) => Len(devs) >= MaxIbDevs
        /\ Len(devs) > MaxIbDevs => devs[MaxIbDevs].dev = devs[Len(devs)].dev
        /\ \A d \in DOMAIN devs : Cardinality({m \in DOMAIN merged : d \in MembersOf(m)}) = 1
        /\ \A m \in DOMAIN merged :
              /\ Len(merged[m].devs) = Cardinality(MembersOf(m))
              /\ Len(merged[m].devs) = Len(merged[1].devs)
              /\ Len(merged[m].devs) <= MaxDevsPerNic
              /\ \A d \in MembersOf(m) : devs[d].key = devs[merged[m].devs[1]].key
              /\ merged[m].speed = SumOfSpeeds(m)

(***************************************************************************)
(* The discovery happens once: the table of devices, into which every      *)
(* communicator points, never changes again, however late another thread   *)
(* passes the first test of ncclNIbDevs.                                   *)
(***************************************************************************)
DiscoveredOnce == [][complete => UNCHANGED <<nIbDevs, devs, merged>>]_vars

(***************************************************************************)
(* Every call of ncclIbInit returns, a failed discovery included.          *)
(***************************************************************************)
InitReturns == \A t \in Threads : <>(pc[t] = "done")

(***************************************************************************)
(* "Return the number of adapters": unless a discovery fails, a thread     *)
(* that found the devices undiscovered gets, after its ncclIbInit, the     *)
(* number of merged devices of the finished discovery, whichever thread    *)
(* did it.  (A thread that found the discovery under way may get fewer:    *)
(* the test in Enter does not wait for its end.)                           *)
(***************************************************************************)
WaitersSeeAll ==
    (\A t \in Threads : ret[t] # "error") =>
        \A t \in waited : seen[t] # NotAsked => complete /\ seen[t] = Len(merged)

----------------------------------------------------------------------------
\* A discovery has failed.
Failed == \E t \in Threads : ret[t] = "error"

\* Who discovers has the lock; once ncclNIbDevs is set nobody discovers again.
LockInv ==
    /\ \A t \in Threads : pc[t] = "discover" <=> lock = t
    /\ nIbDevs = -1 => lock = Nobody /\ ~complete
    /\ complete => lock = Nobody /\ ListEnds /\ ~(mergeNics /\ Mixed)
    /\ nIbDevs # -1 /\ lock = Nobody => complete \/ Failed

\* What a thread that went for the lock may conclude when its call returns.
ThreadInv ==
    \A t \in Threads :
        /\ ret[t] # "none" <=> pc[t] = "done"
        /\ seen[t] # NotAsked => ret[t] = "success"
        /\ t \in waited =>
              /\ pc[t] # "start"
              /\ ret[t] = "success" => complete \/ Failed
              /\ seen[t] # NotAsked => Failed \/ seen[t] = Len(merged)

\* The ports looked at so far, and the device with which the table was full.
PortsInv ==
    /\ IF nIbDevs = -1 THEN devs = <<>> /\ merged = <<>> /\ next = 1 ELSE nIbDevs = Len(devs)
    /\ Len(devs) < next /\ Len(devs) = Cardinality(Usable \cap 1 .. next - 1)
    /\ Len(devs) >= MaxIbDevs =>
          /\ devs[MaxIbDevs].dev = devs[Len(devs)].dev
          /\ devs[MaxIbDevs].dev = ports[next - 1].dev

\* The merged devices in the course of the discovery.
MergedInv ==
    /\ Len(merged) <= Len(devs)
    /\ \A d \in DOMAIN devs : \E m \in DOMAIN merged :
          d \in MembersOf(m) /\ \A k \in DOMAIN merged : d \in MembersOf(k) => k = m
    /\ \A m \in DOMAIN merged :
          /\ Len(merged[m].devs) \in 1 .. (IF mergeNics THEN MaxDevsPerNic ELSE 1)
          /\ Len(merged[m].devs) = Cardinality(MembersOf(m))
          /\ MembersOf(m) \subseteq DOMAIN devs
          /\ \A d \in MembersOf(m) : devs[d].key = devs[merged[m].devs[1]].key
          /\ merged[m].speed = SumOfSpeeds(m)

(***************************************************************************)
(* What the properties rest on, during the discovery and after it.         *)
(***************************************************************************)
DiscoveryInv == TypeOK /\ LockInv /\ ThreadInv /\ PortsInv /\ MergedInv
=============================================================================
