--------------------------- MODULE Monitor_proofs ---------------------------
(***************************************************************************)
(* For every set of processes, whatever fails and whenever a process       *)
(* crashes: the books a process keeps of its regions and its lock are      *)
(* right, and so are the monitor's records of them.                        *)
(***************************************************************************)
EXTENDS Monitor, SequenceTheorems, WellFoundedInduction, NaturalsInduction, TLAPS

----------------------------------------------------------------------------
(* The processes. *)

\* What a step of process p leaves alone.
Frame(p) ==
    /\ setup' = setup /\ failures' \in Nat /\ failures' >= failures
    /\ \A q \in Pids \ {p} :
          /\ spc'[q] = spc[q] /\ inc'[q] = inc[q] /\ region'[q] = region[q]
          /\ ended'[q] = ended[q]
          /\ (q \in flocks' <=> q \in flocks) /\ (q \in lockFiles' <=> q \in lockFiles)
    /\ \A k \in Keys : k[1] # p => shm'[k] = shm[k]

OfProcess(p) == RegionsKnown(p) /\ LockKept(p)

LEMMA KeyParts ==
    ASSUME TypeOK, NEW k \in Keys
    PROVE  k[1] \in Pids /\ k[2] \in Nat /\ k[3] \in Names /\ k = <<k[1], k[2], k[3]>>
<1>1. PICK p \in Pids : k \in {p} \X (1 .. setup.starts[p]) \X Names
  BY DEF Keys
<1>2. setup.starts[p] \in Nat
  BY StatsAssumption DEF TypeOK, SetupOK
<1> QED
  BY <1>1, <1>2

LEMMA KeysFixed == setup' = setup => Keys' = Keys
BY DEF Keys

\* Which regions a process has to destroy.
LEMMA Opens ==
    ASSUME NEW p \in Pids
    PROVE  /\ region[p] = "none" => Opened(p) = {}
           /\ region[p] = "ib" => Opened(p) = {"ib"}
           /\ region[p] = "bw" => Opened(p) = Names
BY DEF Opened, Names

LEMMA FrameInv ==
    ASSUME StatsInv, NEW p \in Pids, Frame(p), TypeOK', OfProcess(p)'
    PROVE  StatsInv'
<1> SUFFICES ASSUME NEW q \in Pids \ {p} PROVE OfProcess(q)'
  BY DEF StatsInv, OfProcess
<1>1. TypeOK /\ RegionsKnown(q) /\ LockKept(q)
  BY DEF StatsInv
<1>2. /\ spc'[q] = spc[q] /\ inc'[q] = inc[q] /\ region'[q] = region[q]
      /\ ended'[q] = ended[q]
      /\ (q \in flocks' <=> q \in flocks) /\ (q \in lockFiles' <=> q \in lockFiles)
  BY DEF Frame
<1>3. Keys' = Keys /\ \A k \in Keys : k[1] = q => shm'[k] = shm[k]
  BY KeysFixed DEF Frame
<1>4. Left(q)' = Left(q) /\ Opened(q)' = Opened(q)
  BY <1>2, <1>3 DEF Left, Opened
<1>5. RegionsKnown(q)'
  BY <1>1, <1>2, <1>3, <1>4 DEF RegionsKnown
<1>6. LockKept(q)'
  <2>1. failures' \in Nat /\ failures \in Nat /\ failures' >= failures
    BY <1>1 DEF Frame, TypeOK
  <2> QED
    BY <1>1, <1>2, <2>1 DEF LockKept
<1> QED
  BY <1>5, <1>6 DEF OfProcess

LEMMA StartInv == ASSUME StatsInv, NEW p \in Pids, Start(p) PROVE StatsInv'
<1> USE DEF Start, Goto
<1>1. TypeOK /\ RegionsKnown(p) /\ LockKept(p) /\ Keys' = Keys
  BY KeysFixed DEF StatsInv
<1>2. TypeOK'
  BY <1>1, StatsAssumption DEF TypeOK, Names, Using, Exiting, Contents
<1>3. Frame(p)
  BY <1>1 DEF Frame, TypeOK
<1>4. RegionsKnown(p)'
  <2>1. inc'[p] = inc[p] + 1 /\ inc[p] \in Nat
    BY <1>1 DEF TypeOK
  <2>2. Left(p)' = {}
    BY <1>1, <2>1 DEF Left, RegionsKnown
  <2>3. ASSUME NEW k \in Keys, k[1] = p, k[2] > inc'[p] PROVE shm[k] = "none"
    <3>1. k[2] \in Nat
      BY <1>1, KeyParts
    <3> QED
      BY <1>1, <2>1, <2>3, <3>1 DEF RegionsKnown
  <2> QED
    BY <1>1, <2>2, <2>3 DEF RegionsKnown, TypeOK
<1>5. LockKept(p)'
  BY <1>1 DEF LockKept, TypeOK
<1> QED
  BY <1>2, <1>3, <1>4, <1>5, FrameInv DEF OfProcess

LEMMA StartOtherInv == ASSUME StatsInv, NEW p \in Pids, StartOther(p) PROVE StatsInv'
<1> USE DEF StartOther, Goto
<1>1. TypeOK /\ RegionsKnown(p) /\ LockKept(p) /\ Keys' = Keys
  BY KeysFixed DEF StatsInv
<1>2. TypeOK'
  BY <1>1, StatsAssumption DEF TypeOK, Names, Using, Exiting, Contents
<1>3. Frame(p)
  BY <1>1 DEF Frame, TypeOK
<1>4. RegionsKnown(p)'
  <2>1. inc'[p] = inc[p] + 1 /\ inc[p] \in Nat
    BY <1>1 DEF TypeOK
  <2>2. Left(p)' = {}
    BY <1>1, <2>1 DEF Left, RegionsKnown
  <2>3. ASSUME NEW k \in Keys, k[1] = p, k[2] > inc'[p] PROVE shm[k] = "none"
    <3>1. k[2] \in Nat
      BY <1>1, KeyParts
    <3> QED
      BY <1>1, <2>1, <2>3, <3>1 DEF RegionsKnown
  <2> QED
    BY <1>1, <2>2, <2>3 DEF RegionsKnown, TypeOK
<1>5. LockKept(p)'
  BY <1>1 DEF LockKept, TypeOK
<1> QED
  BY <1>2, <1>3, <1>4, <1>5, FrameInv DEF OfProcess

LEMMA CrashInv == ASSUME StatsInv, NEW p \in Pids, Crash(p) PROVE StatsInv'
<1> USE DEF Crash, Goto, End
<1>1. TypeOK /\ RegionsKnown(p) /\ LockKept(p) /\ Keys' = Keys
  BY KeysFixed DEF StatsInv
<1>2. TypeOK'
  BY <1>1, StatsAssumption DEF TypeOK, Names, Using, Exiting, Contents
<1>3. Frame(p)
  BY <1>1 DEF Frame, TypeOK
<1>4. RegionsKnown(p)'
  <2>1. Left(p)' = Left(p)
    BY <1>1 DEF Left, TypeOK
  <2> QED
    BY <1>1, <2>1, Opens DEF RegionsKnown, TypeOK, Opened, Names
<1>5. LockKept(p)'
  BY <1>1 DEF LockKept, TypeOK
<1> QED
  BY <1>2, <1>3, <1>4, <1>5, FrameInv DEF OfProcess

LEMMA OpenLockInv == ASSUME StatsInv, NEW p \in Pids, OpenLock(p) PROVE StatsInv'
<1> USE DEF OpenLock, Goto
<1>1. TypeOK /\ RegionsKnown(p) /\ LockKept(p) /\ Keys' = Keys
  BY KeysFixed DEF StatsInv
<1>2. TypeOK'
  BY <1>1, StatsAssumption DEF TypeOK, Names, Using, Exiting, Contents
<1>3. Frame(p)
  BY <1>1 DEF Frame, TypeOK
<1>4. RegionsKnown(p)'
  <2>1. Left(p)' = Left(p)
    BY <1>1 DEF Left, TypeOK
  <2> QED
    BY <1>1, <2>1, Opens DEF RegionsKnown, TypeOK, Opened, Names
<1>5. LockKept(p)'
  BY <1>1 DEF LockKept, TypeOK
<1> QED
  BY <1>2, <1>3, <1>4, <1>5, FrameInv DEF OfProcess

LEMMA OpenLockFailsInv == ASSUME StatsInv, NEW p \in Pids, OpenLockFails(p) PROVE StatsInv'
<1> USE DEF OpenLockFails, Goto, MayFail
<1>1. TypeOK /\ RegionsKnown(p) /\ LockKept(p) /\ Keys' = Keys
  BY KeysFixed DEF StatsInv
<1>2. TypeOK'
  BY <1>1, StatsAssumption DEF TypeOK, Names, Using, Exiting, Contents
<1>3. Frame(p)
  BY <1>1 DEF Frame, TypeOK
<1>4. RegionsKnown(p)'
  <2>1. Left(p)' = Left(p)
    BY <1>1 DEF Left, TypeOK
  <2> QED
    BY <1>1, <2>1, Opens DEF RegionsKnown, TypeOK, Opened, Names
<1>5. LockKept(p)'
  BY <1>1 DEF LockKept, TypeOK
<1> QED
  BY <1>2, <1>3, <1>4, <1>5, FrameInv DEF OfProcess

LEMMA FlockInv == ASSUME StatsInv, NEW p \in Pids, Flock(p) PROVE StatsInv'
<1> USE DEF Flock, Goto, SetRegion
<1>1. TypeOK /\ RegionsKnown(p) /\ LockKept(p) /\ Keys' = Keys
  BY KeysFixed DEF StatsInv
<1>2. TypeOK'
  BY <1>1, StatsAssumption DEF TypeOK, Names, Using, Exiting, Contents
<1>3. Frame(p)
  BY <1>1 DEF Frame, TypeOK
<1>4. RegionsKnown(p)'
  <2>1. Left(p)' = Left(p)
    BY <1>1 DEF Left, TypeOK
  <2> QED
    BY <1>1, <2>1, Opens DEF RegionsKnown, TypeOK, Opened, Names
<1>5. LockKept(p)'
  BY <1>1 DEF LockKept, TypeOK
<1> QED
  BY <1>2, <1>3, <1>4, <1>5, FrameInv DEF OfProcess

LEMMA FlockWouldBlockInv == ASSUME StatsInv, NEW p \in Pids, FlockWouldBlock(p) PROVE StatsInv'
<1> USE DEF FlockWouldBlock, Goto, SetRegion, MayFail
<1>1. TypeOK /\ RegionsKnown(p) /\ LockKept(p) /\ Keys' = Keys
  BY KeysFixed DEF StatsInv
<1>2. TypeOK'
  BY <1>1, StatsAssumption DEF TypeOK, Names, Using, Exiting, Contents
<1>3. Frame(p)
  BY <1>1 DEF Frame, TypeOK
<1>4. RegionsKnown(p)'
  <2>1. Left(p)' = Left(p)
    BY <1>1 DEF Left, TypeOK
  <2> QED
    BY <1>1, <2>1, Opens DEF RegionsKnown, TypeOK, Opened, Names
<1>5. LockKept(p)'
  BY <1>1 DEF LockKept, TypeOK
<1> QED
  BY <1>2, <1>3, <1>4, <1>5, FrameInv DEF OfProcess

LEMMA FlockFailsInv == ASSUME StatsInv, NEW p \in Pids, FlockFails(p) PROVE StatsInv'
<1> USE DEF FlockFails, Goto, MayFail
<1>1. TypeOK /\ RegionsKnown(p) /\ LockKept(p) /\ Keys' = Keys
  BY KeysFixed DEF StatsInv
<1>2. TypeOK'
  BY <1>1, StatsAssumption DEF TypeOK, Names, Using, Exiting, Contents
<1>3. Frame(p)
  BY <1>1 DEF Frame, TypeOK
<1>4. RegionsKnown(p)'
  <2>1. Left(p)' = Left(p)
    BY <1>1 DEF Left, TypeOK
  <2> QED
    BY <1>1, <2>1, Opens DEF RegionsKnown, TypeOK, Opened, Names
<1>5. LockKept(p)'
  BY <1>1 DEF LockKept, TypeOK
<1> QED
  BY <1>2, <1>3, <1>4, <1>5, FrameInv DEF OfProcess

LEMMA OpenShmInv == ASSUME StatsInv, NEW p \in Pids, OpenShm(p) PROVE StatsInv'
<1> USE DEF OpenShm, Goto, Put
<1>1. TypeOK /\ RegionsKnown(p) /\ LockKept(p) /\ Keys' = Keys
  BY KeysFixed DEF StatsInv
<1>2. \A k \in Keys : k # Key(p) => shm'[k] = shm[k]
  BY <1>1 DEF TypeOK
<1>3. TypeOK'
  BY <1>1, StatsAssumption DEF TypeOK, Names, Using, Exiting, Contents
<1>4. Frame(p)
  BY <1>1, <1>2 DEF Frame, TypeOK, Key
<1>5. RegionsKnown(p)'
  <2>1. Left(p)' \subseteq Left(p) \cup {Key(p)}
    BY <1>1, <1>2 DEF Left, TypeOK
  <2>2. region[p] # "none"
    BY <1>1 DEF RegionsKnown
  <2>3. Opened(p)' = Opened(p) /\ Key(p)[3] \in Opened(p)
    BY <1>1, <2>2 DEF Opened, Key, TypeOK
  <2>4. \A k \in Keys : k[1] = p /\ k[2] > inc[p] => k # Key(p)
    BY <1>1 DEF Key, TypeOK
  <2> QED
    BY <1>1, <1>2, <2>1, <2>3, <2>4 DEF RegionsKnown, TypeOK
<1>6. LockKept(p)'
  BY <1>1 DEF LockKept, TypeOK
<1> QED
  BY <1>3, <1>4, <1>5, <1>6, FrameInv DEF OfProcess

LEMMA ResizeShmInv == ASSUME StatsInv, NEW p \in Pids, ResizeShm(p) PROVE StatsInv'
<1> USE DEF ResizeShm, Goto, Put
<1>1. TypeOK /\ RegionsKnown(p) /\ LockKept(p) /\ Keys' = Keys
  BY KeysFixed DEF StatsInv
<1>2. \A k \in Keys : k # Key(p) => shm'[k] = shm[k]
  BY <1>1 DEF TypeOK
<1>3. TypeOK'
  BY <1>1, StatsAssumption DEF TypeOK, Names, Using, Exiting, Contents
<1>4. Frame(p)
  BY <1>1, <1>2 DEF Frame, TypeOK, Key
<1>5. RegionsKnown(p)'
  <2>1. Left(p)' \subseteq Left(p) \cup {Key(p)}
    BY <1>1, <1>2 DEF Left, TypeOK
  <2>2. region[p] # "none"
    BY <1>1 DEF RegionsKnown
  <2>3. Opened(p)' = Opened(p) /\ Key(p)[3] \in Opened(p)
    BY <1>1, <2>2 DEF Opened, Key, TypeOK
  <2>4. \A k \in Keys : k[1] = p /\ k[2] > inc[p] => k # Key(p)
    BY <1>1 DEF Key, TypeOK
  <2> QED
    BY <1>1, <1>2, <2>1, <2>3, <2>4 DEF RegionsKnown, TypeOK
<1>6. LockKept(p)'
  BY <1>1 DEF LockKept, TypeOK
<1> QED
  BY <1>3, <1>4, <1>5, <1>6, FrameInv DEF OfProcess

LEMMA CreateShmFailsInv == ASSUME StatsInv, NEW p \in Pids, CreateShmFails(p) PROVE StatsInv'
<1> USE DEF CreateShmFails, Goto, Put, MayFail
<1>1. TypeOK /\ RegionsKnown(p) /\ LockKept(p) /\ Keys' = Keys
  BY KeysFixed DEF StatsInv
<1>2. \A k \in Keys : k # Key(p) => shm'[k] = shm[k]
  BY <1>1 DEF TypeOK
<1>3. TypeOK'
  <2>1. shm' \in [Keys -> Contents]
    BY <1>1 DEF TypeOK, Contents
  <2>2. broken' \in [Pids -> BOOLEAN]
    BY <1>1, Zenon DEF TypeOK
  <2>3. spc' \in [Pids -> Using \cup Exiting \cup {"off", "other"}] /\ failures' \in Nat
    BY <1>1 DEF TypeOK, Using
  <2> HIDE DEF Put, Goto, MayFail
  <2> QED
    BY <1>1, <2>1, <2>2, <2>3 DEF TypeOK
<1>4. Frame(p)
  BY <1>1, <1>2 DEF Frame, TypeOK, Key
<1>5. RegionsKnown(p)'
  <2>1. Left(p)' \subseteq Left(p) \cup {Key(p)}
    BY <1>1, <1>2 DEF Left, TypeOK
  <2>2. region[p] # "none"
    BY <1>1 DEF RegionsKnown
  <2>3. Opened(p)' = Opened(p) /\ Key(p)[3] \in Opened(p)
    BY <1>1, <2>2 DEF Opened, Key, TypeOK
  <2>4. \A k \in Keys : k[1] = p /\ k[2] > inc[p] => k # Key(p)
    BY <1>1 DEF Key, TypeOK
  <2> QED
    BY <1>1, <1>2, <2>1, <2>3, <2>4 DEF RegionsKnown, TypeOK
<1>6. LockKept(p)'
  BY <1>1 DEF LockKept, TypeOK
<1> QED
  BY <1>3, <1>4, <1>5, <1>6, FrameInv DEF OfProcess

LEMMA WriteMetaInv == ASSUME StatsInv, NEW p \in Pids, WriteMeta(p) PROVE StatsInv'
<1> USE DEF WriteMeta, Goto, Put
<1>1. TypeOK /\ RegionsKnown(p) /\ LockKept(p) /\ Keys' = Keys
  BY KeysFixed DEF StatsInv
<1>2. \A k \in Keys : k # Key(p) => shm'[k] = shm[k]
  BY <1>1 DEF TypeOK
<1>3. TypeOK'
  BY <1>1, StatsAssumption DEF TypeOK, Names, Using, Exiting, Contents
<1>4. Frame(p)
  BY <1>1, <1>2 DEF Frame, TypeOK, Key
<1>5. RegionsKnown(p)'
  <2>1. Left(p)' \subseteq Left(p) \cup {Key(p)}
    BY <1>1, <1>2 DEF Left, TypeOK
  <2>2. region[p] # "none"
    BY <1>1 DEF RegionsKnown
  <2>3. Opened(p)' = Opened(p) /\ Key(p)[3] \in Opened(p)
    BY <1>1, <2>2 DEF Opened, Key, TypeOK
  <2>4. \A k \in Keys : k[1] = p /\ k[2] > inc[p] => k # Key(p)
    BY <1>1 DEF Key, TypeOK
  <2> QED
    BY <1>1, <1>2, <2>1, <2>3, <2>4 DEF RegionsKnown, TypeOK
<1>6. LockKept(p)'
  BY <1>1 DEF LockKept, TypeOK
<1> QED
  BY <1>3, <1>4, <1>5, <1>6, FrameInv DEF OfProcess

LEMMA WriteDescInv == ASSUME StatsInv, NEW p \in Pids, WriteDesc(p) PROVE StatsInv'
<1> USE DEF WriteDesc, Goto, Put
<1>1. TypeOK /\ RegionsKnown(p) /\ LockKept(p) /\ Keys' = Keys
  BY KeysFixed DEF StatsInv
<1>2. \A k \in Keys : k # Key(p) => shm'[k] = shm[k]
  BY <1>1 DEF TypeOK
<1>3. TypeOK'
  BY <1>1, StatsAssumption DEF TypeOK, Names, Using, Exiting, Contents
<1>4. Frame(p)
  BY <1>1, <1>2 DEF Frame, TypeOK, Key
<1>5. RegionsKnown(p)'
  <2>1. Left(p)' \subseteq Left(p) \cup {Key(p)}
    BY <1>1, <1>2 DEF Left, TypeOK
  <2>2. region[p] # "none"
    BY <1>1 DEF RegionsKnown
  <2>3. Opened(p)' = Opened(p) /\ Key(p)[3] \in Opened(p)
    BY <1>1, <2>2 DEF Opened, Key, TypeOK
  <2>4. \A k \in Keys : k[1] = p /\ k[2] > inc[p] => k # Key(p)
    BY <1>1 DEF Key, TypeOK
  <2> QED
    BY <1>1, <1>2, <2>1, <2>3, <2>4 DEF RegionsKnown, TypeOK
<1>6. LockKept(p)'
  BY <1>1 DEF LockKept, TypeOK
<1> QED
  BY <1>3, <1>4, <1>5, <1>6, FrameInv DEF OfProcess

LEMMA ExitUnusedInv == ASSUME StatsInv, NEW p \in Pids, ExitUnused(p) PROVE StatsInv'
<1> USE DEF ExitUnused, Goto, End
<1>1. TypeOK /\ RegionsKnown(p) /\ LockKept(p) /\ Keys' = Keys
  BY KeysFixed DEF StatsInv
<1>2. TypeOK'
  BY <1>1, StatsAssumption DEF TypeOK, Names, Using, Exiting, Contents
<1>3. Frame(p)
  BY <1>1 DEF Frame, TypeOK
<1>4. RegionsKnown(p)'
  <2>1. Left(p)' = Left(p)
    BY <1>1 DEF Left, TypeOK
  <2> QED
    BY <1>1, <2>1, Opens DEF RegionsKnown, TypeOK, Opened, Names
<1>5. LockKept(p)'
  BY <1>1 DEF LockKept, TypeOK
<1> QED
  BY <1>2, <1>3, <1>4, <1>5, FrameInv DEF OfProcess

LEMMA WipeInv == ASSUME StatsInv, NEW p \in Pids, Wipe(p) PROVE StatsInv'
<1> USE DEF Wipe, Goto, Put
<1>1. TypeOK /\ RegionsKnown(p) /\ LockKept(p) /\ Keys' = Keys
  BY KeysFixed DEF StatsInv
<1>2. \A k \in Keys : k # Key(p) => shm'[k] = shm[k]
  BY <1>1 DEF TypeOK
<1>3. TypeOK'
  BY <1>1, StatsAssumption DEF TypeOK, Names, Using, Exiting, Contents
<1>4. Frame(p)
  BY <1>1, <1>2 DEF Frame, TypeOK, Key
<1>5. RegionsKnown(p)'
  <2>1. Left(p)' \subseteq Left(p) \cup {Key(p)}
    BY <1>1, <1>2 DEF Left, TypeOK
  <2>2. region[p] # "none"
    BY <1>1 DEF RegionsKnown
  <2>3. Opened(p)' = Opened(p) /\ Key(p)[3] \in Opened(p)
    BY <1>1, <2>2 DEF Opened, Key, TypeOK
  <2>4. \A k \in Keys : k[1] = p /\ k[2] > inc[p] => k # Key(p)
    BY <1>1 DEF Key, TypeOK
  <2> QED
    BY <1>1, <1>2, <2>1, <2>3, <2>4 DEF RegionsKnown, TypeOK
<1>6. LockKept(p)'
  BY <1>1 DEF LockKept, TypeOK
<1> QED
  BY <1>3, <1>4, <1>5, <1>6, FrameInv DEF OfProcess

LEMMA WipedInv == ASSUME StatsInv, NEW p \in Pids, Wiped(p) PROVE StatsInv'
<1> USE DEF Wiped, Goto, Put
<1>1. TypeOK /\ RegionsKnown(p) /\ LockKept(p) /\ Keys' = Keys
  BY KeysFixed DEF StatsInv
<1>2. \A k \in Keys : k # Key(p) => shm'[k] = shm[k]
  BY <1>1 DEF TypeOK
<1>3. TypeOK'
  BY <1>1, StatsAssumption DEF TypeOK, Names, Using, Exiting, Contents
<1>4. Frame(p)
  BY <1>1, <1>2 DEF Frame, TypeOK, Key
<1>5. RegionsKnown(p)'
  <2>1. Left(p)' \subseteq Left(p) \cup {Key(p)}
    BY <1>1, <1>2 DEF Left, TypeOK
  <2>2. region[p] # "none"
    BY <1>1 DEF RegionsKnown
  <2>3. Opened(p)' = Opened(p) /\ Key(p)[3] \in Opened(p)
    BY <1>1, <2>2 DEF Opened, Key, TypeOK
  <2>4. \A k \in Keys : k[1] = p /\ k[2] > inc[p] => k # Key(p)
    BY <1>1 DEF Key, TypeOK
  <2> QED
    BY <1>1, <1>2, <2>1, <2>3, <2>4 DEF RegionsKnown, TypeOK
<1>6. LockKept(p)'
  BY <1>1 DEF LockKept, TypeOK
<1> QED
  BY <1>3, <1>4, <1>5, <1>6, FrameInv DEF OfProcess

LEMMA WipeUnsetInv == ASSUME StatsInv, NEW p \in Pids, WipeUnset(p) PROVE StatsInv'
<1> USE DEF WipeUnset, Goto
<1>1. TypeOK /\ RegionsKnown(p) /\ LockKept(p) /\ Keys' = Keys
  BY KeysFixed DEF StatsInv
<1>2. TypeOK'
  BY <1>1, StatsAssumption DEF TypeOK, Names, Using, Exiting, Contents
<1>3. Frame(p)
  BY <1>1 DEF Frame, TypeOK
<1>4. RegionsKnown(p)'
  <2>1. Left(p)' = Left(p)
    BY <1>1 DEF Left, TypeOK
  <2> QED
    BY <1>1, <2>1, Opens DEF RegionsKnown, TypeOK, Opened, Names
<1>5. LockKept(p)'
  BY <1>1 DEF LockKept, TypeOK
<1> QED
  BY <1>2, <1>3, <1>4, <1>5, FrameInv DEF OfProcess

LEMMA WipeDamagesInv == ASSUME StatsInv, NEW p \in Pids, WipeDamages(p) PROVE StatsInv'
<1> USE DEF WipeDamages, Goto
<1>1. TypeOK /\ RegionsKnown(p) /\ LockKept(p) /\ Keys' = Keys
  BY KeysFixed DEF StatsInv
<1>2. PICK S \in SUBSET Left(p) : shm' = [k \in Keys |-> IF k \in S THEN "partial" ELSE shm[k]]
  OBVIOUS
<1>3. \A k \in Keys : (k[1] # p => shm'[k] = shm[k]) /\ (shm'[k] = "none" <=> shm[k] = "none")
  BY <1>2 DEF Left
<1>4. TypeOK'
  BY <1>1, <1>2 DEF TypeOK, Exiting, Contents
<1>5. Frame(p)
  BY <1>1, <1>3 DEF Frame, TypeOK
<1>6. RegionsKnown(p)'
  <2>1. Left(p)' = Left(p)
    BY <1>1, <1>3 DEF Left
  <2> QED
    BY <1>1, <1>3, <2>1 DEF RegionsKnown, TypeOK, Opened
<1>7. LockKept(p)'
  BY <1>1 DEF LockKept, TypeOK
<1> QED
  BY <1>4, <1>5, <1>6, <1>7, FrameInv DEF OfProcess

LEMMA ExitDamagedInv == ASSUME StatsInv, NEW p \in Pids, ExitDamaged(p) PROVE StatsInv'
<1> USE DEF ExitDamaged, Goto, End
<1>1. TypeOK /\ RegionsKnown(p) /\ LockKept(p) /\ Keys' = Keys
  BY KeysFixed DEF StatsInv
<1>2. PICK S \in SUBSET Left(p) : shm' = [k \in Keys |-> IF k \in S THEN "none" ELSE shm[k]]
  OBVIOUS
<1>3. \A k \in Keys : (k[1] # p => shm'[k] = shm[k]) /\ (shm[k] = "none" => shm'[k] = "none")
  BY <1>2 DEF Left
<1>4. spc'[p] = "off" /\ ended'[p] = "crashed" /\ region'[p] = "none" /\ inc'[p] = inc[p]
  BY <1>1 DEF TypeOK
<1>5. shm' \in [Keys -> Contents]
  BY <1>1, <1>2 DEF TypeOK, Contents
<1>6. TypeOK'
  BY <1>1, <1>5 DEF TypeOK, Names
<1>7. Frame(p)
  BY <1>1, <1>3 DEF Frame, TypeOK
<1>8. RegionsKnown(p)'
  BY <1>1, <1>3, <1>4 DEF RegionsKnown
<1>9. LockKept(p)'
  BY <1>4 DEF LockKept
<1> QED
  BY <1>6, <1>7, <1>8, <1>9, FrameInv DEF OfProcess

LEMMA CloseLockInv == ASSUME StatsInv, NEW p \in Pids, CloseLock(p) PROVE StatsInv'
<1> USE DEF CloseLock, Goto
<1>1. TypeOK /\ RegionsKnown(p) /\ LockKept(p) /\ Keys' = Keys
  BY KeysFixed DEF StatsInv
<1>2. TypeOK'
  BY <1>1, StatsAssumption DEF TypeOK, Names, Using, Exiting, Contents
<1>3. Frame(p)
  BY <1>1 DEF Frame, TypeOK
<1>4. RegionsKnown(p)'
  <2>1. Left(p)' = Left(p)
    BY <1>1 DEF Left, TypeOK
  <2> QED
    BY <1>1, <2>1, Opens DEF RegionsKnown, TypeOK, Opened, Names
<1>5. LockKept(p)'
  BY <1>1 DEF LockKept, TypeOK
<1> QED
  BY <1>2, <1>3, <1>4, <1>5, FrameInv DEF OfProcess

LEMMA UnlinkLockInv == ASSUME StatsInv, NEW p \in Pids, UnlinkLock(p) PROVE StatsInv'
<1> USE DEF UnlinkLock, Goto, End
<1>1. TypeOK /\ RegionsKnown(p) /\ LockKept(p) /\ Keys' = Keys
  BY KeysFixed DEF StatsInv
<1>2. TypeOK'
  BY <1>1, StatsAssumption DEF TypeOK, Names, Using, Exiting, Contents
<1>3. Frame(p)
  BY <1>1 DEF Frame, TypeOK
<1>4. RegionsKnown(p)'
  <2>1. Left(p)' = Left(p)
    BY <1>1 DEF Left, TypeOK
  <2> QED
    BY <1>1, <2>1, Opens DEF RegionsKnown, TypeOK, Opened, Names
<1>5. LockKept(p)'
  BY <1>1 DEF LockKept, TypeOK
<1> QED
  BY <1>2, <1>3, <1>4, <1>5, FrameInv DEF OfProcess

LEMMA ExitUnlockedInv == ASSUME StatsInv, NEW p \in Pids, ExitUnlocked(p) PROVE StatsInv'
<1> USE DEF ExitUnlocked, Goto, End
<1>1. TypeOK /\ RegionsKnown(p) /\ LockKept(p) /\ Keys' = Keys
  BY KeysFixed DEF StatsInv
<1>2. TypeOK'
  BY <1>1, StatsAssumption DEF TypeOK, Names, Using, Exiting, Contents
<1>3. Frame(p)
  BY <1>1 DEF Frame, TypeOK
<1>4. RegionsKnown(p)'
  <2>1. Left(p)' = Left(p)
    BY <1>1 DEF Left, TypeOK
  <2> QED
    BY <1>1, <2>1, Opens DEF RegionsKnown, TypeOK, Opened, Names
<1>5. LockKept(p)'
  BY <1>1 DEF LockKept, TypeOK
<1> QED
  BY <1>2, <1>3, <1>4, <1>5, FrameInv DEF OfProcess

LEMMA AllocStatInv == ASSUME StatsInv, NEW p \in Pids, AllocStat(p) PROVE StatsInv'
<1> USE DEF AllocStat, Goto, Put, SetRegion
<1>1. TypeOK /\ RegionsKnown(p) /\ LockKept(p) /\ Keys' = Keys
  BY KeysFixed DEF StatsInv
<1>2. \A k \in Keys : k # Key(p) => shm'[k] = shm[k]
  BY <1>1 DEF TypeOK
<1>3. shm' \in [Keys -> Contents] /\ region[p] # "none"
  BY <1>1 DEF TypeOK, Contents, RegionsKnown
<1> DEFINE More == region[p] = "ib" /\ p \in setup.ranked
<1>4. CASE More
  <2>1. /\ spc' = [spc EXCEPT ![p] = "create"] /\ region' = [region EXCEPT ![p] = "bw"]
        /\ UNCHANGED <<setup, inc, broken, lockFd, lockFiles, flocks, ended, failures>>
    BY <1>4
  <2> USE <2>1
  <2> HIDE DEF AllocStat, Goto, Put, SetRegion
  <2>2. TypeOK'
    BY <1>1, <1>3 DEF TypeOK, Names, Using
  <2>3. Frame(p)
    BY <1>1, <1>2 DEF Frame, TypeOK, Key
  <2>5. RegionsKnown(p)'
    <3>1. Left(p)' \subseteq Left(p) \cup {Key(p)}
      BY <1>1, <1>2 DEF Left, TypeOK
    <3>2. Opened(p)' = Names /\ \A k \in Left(p)' : k[3] \in Names
      <4>1. region'[p] = "bw"
        BY <1>1 DEF TypeOK
      <4> QED
        BY <1>1, <4>1, KeyParts DEF Opened, Left
    <3>3. \A k \in Keys : k[1] = p /\ k[2] > inc[p] => k # Key(p)
      BY <1>1 DEF Key, TypeOK
    <3> QED
      BY <1>1, <1>2, <3>2, <3>3 DEF RegionsKnown, TypeOK
  <2>6. LockKept(p)'
    BY <1>1, AllocStat(p) DEF LockKept, TypeOK, AllocStat
  <2> QED
    BY <2>2, <2>3, <2>5, <2>6, FrameInv DEF OfProcess
<1>5. CASE ~More
  <2>1. /\ spc' = [spc EXCEPT ![p] = "ready"]
        /\ UNCHANGED <<setup, inc, broken, lockFd, lockFiles, flocks, ended, failures, region>>
    BY <1>5
  <2> USE <2>1
  <2>7. spc[p] = "alloc"
    OBVIOUS
  <2> HIDE DEF AllocStat, Goto, Put, SetRegion, More
  <2>2. TypeOK'
    BY <1>1, <1>3 DEF TypeOK, Using
  <2>3. Frame(p)
    BY <1>1, <1>2 DEF Frame, TypeOK, Key
  <2>5. RegionsKnown(p)'
    <3>1. Left(p)' \subseteq Left(p) \cup {Key(p)}
      BY <1>1, <1>2 DEF Left, TypeOK
    <3>2. Opened(p)' = Opened(p) /\ Key(p)[3] \in Opened(p)
      BY <1>1, <1>3 DEF Opened, Key, TypeOK
    <3>3. \A k \in Keys : k[1] = p /\ k[2] > inc[p] => k # Key(p)
      BY <1>1 DEF Key, TypeOK
    <3> QED
      BY <1>1, <1>2, <1>3, <2>7, <3>1, <3>2, <3>3 DEF RegionsKnown, TypeOK
  <2>6. LockKept(p)'
    BY <1>1, <2>7 DEF LockKept, TypeOK
  <2> QED
    BY <2>2, <2>3, <2>5, <2>6, FrameInv DEF OfProcess
<1> QED
  BY <1>4, <1>5

LEMMA FreeStatsInv == ASSUME StatsInv, NEW p \in Pids, FreeStats(p) PROVE StatsInv'
<1> USE DEF FreeStats, Goto
<1>1. TypeOK /\ RegionsKnown(p) /\ LockKept(p) /\ Keys' = Keys
  BY KeysFixed DEF StatsInv
<1>2. TypeOK'
  BY <1>1 DEF TypeOK, Exiting, Contents
<1>3. Frame(p)
  BY <1>1 DEF Frame, TypeOK
<1>4. RegionsKnown(p)'
  <2>1. \A k \in Keys : shm'[k] = "none" <=> shm[k] = "none"
    BY <1>1 DEF TypeOK
  <2>2. Left(p)' = Left(p)
    BY <1>1, <2>1 DEF Left
  <2> QED
    BY <1>1, <2>1, <2>2 DEF RegionsKnown, TypeOK, Opened
<1>5. LockKept(p)'
  BY <1>1 DEF LockKept, TypeOK
<1> QED
  BY <1>2, <1>3, <1>4, <1>5, FrameInv DEF OfProcess

LEMMA UnlinkShmInv == ASSUME StatsInv, NEW p \in Pids, UnlinkShm(p) PROVE StatsInv'
<1> USE DEF UnlinkShm, Goto, Put, SetRegion
<1>1. TypeOK /\ RegionsKnown(p) /\ LockKept(p) /\ Keys' = Keys
  BY KeysFixed DEF StatsInv
<1>2. /\ \A k \in Keys : k # Key(p) => shm'[k] = shm[k]
      /\ \A k \in Keys : k = Key(p) => shm'[k] = "none"
  BY <1>1 DEF TypeOK
<1>3. TypeOK'
  BY <1>1 DEF TypeOK, Exiting, Contents, NextToFree, Names
<1>4. Frame(p)
  BY <1>1, <1>2 DEF Frame, TypeOK, Key
<1>5. RegionsKnown(p)'
  <2>1. ASSUME NEW k \in Left(p)' PROVE k \in Left(p) /\ k[3] # region[p] /\ k[3] \in Names
    <3>1. k \in Keys /\ k # Key(p) /\ k[1] = p /\ k[2] = inc[p] /\ shm[k] # "none"
      BY <1>1, <1>2 DEF Left, TypeOK
    <3>2. k = <<k[1], k[2], k[3]>> /\ k[3] \in Names
      BY <1>1, <3>1, KeyParts
    <3> QED
      BY <3>1, <3>2 DEF Left, Key
  <2>2. \A k \in Left(p)' : k[3] \in Opened(p)'
    <3>1. region[p] = "bw" => region'[p] = "ib"
      BY <1>1 DEF TypeOK, NextToFree
    <3>2. spc[p] = "unlink" /\ region[p] \in Names
      BY <1>1 DEF RegionsKnown, TypeOK, Names
    <3>3. \A k \in Left(p)' : k[3] \in Opened(p)
      BY <1>1, <2>1, <3>2 DEF RegionsKnown
    <3> QED
      BY <2>1, <3>1, <3>2, <3>3 DEF Opened, Names
  <2>3. \A k \in Keys : k[1] = p /\ k[2] > inc[p] => k # Key(p)
    BY <1>1 DEF Key, TypeOK
  <2> QED
    BY <1>1, <1>2, <2>2, <2>3 DEF RegionsKnown, TypeOK, NextToFree
<1>6. LockKept(p)'
  BY <1>1 DEF LockKept, TypeOK
<1> QED
  BY <1>3, <1>4, <1>5, <1>6, FrameInv DEF OfProcess

LEMMA StatsInitInv == StatsInit => StatsInv
<1> SUFFICES ASSUME StatsInit PROVE StatsInv
  OBVIOUS
<1>1. TypeOK
  BY StatsAssumption DEF StatsInit, TypeOK, Names, Using, Exiting, Contents
<1>2. ASSUME NEW p \in Pids PROVE RegionsKnown(p) /\ LockKept(p)
  BY DEF StatsInit, RegionsKnown, LockKept, Left
<1> QED
  BY <1>1, <1>2 DEF StatsInv

LEMMA StatsStutterInv == ASSUME StatsInv, UNCHANGED statsvars PROVE StatsInv'
<1> USE DEF statsvars
<1>1. TypeOK' /\ Keys' = Keys
  BY KeysFixed DEF StatsInv, TypeOK
<1>2. ASSUME NEW p \in Pids PROVE RegionsKnown(p)' /\ LockKept(p)'
  <2>1. Left(p)' = Left(p) /\ Opened(p)' = Opened(p)
    BY <1>1 DEF Left, Opened
  <2> QED
    BY <1>1, <2>1 DEF StatsInv, RegionsKnown, LockKept
<1> QED
  BY <1>1, <1>2 DEF StatsInv

LEMMA StatsNextInv == ASSUME StatsInv, StatsNext PROVE StatsInv' /\ setup' = setup
<1>1. PICK p \in Pids :
        Start(p) \/ StartOther(p) \/ Crash(p) \/ InitStep(p) \/ ExitStep(p)
  BY DEF StatsNext
<1>2. CASE Start(p) \/ StartOther(p) \/ Crash(p)
  <2>1. StatsInv'
    BY <1>2, StartInv, StartOtherInv, CrashInv
  <2> QED
    BY <1>2, <2>1 DEF Start, StartOther, Crash
<1>3. CASE InitStep(p)
  <2>1. StatsInv'
    BY <1>3, OpenLockInv, OpenLockFailsInv, FlockInv, FlockWouldBlockInv, FlockFailsInv, OpenShmInv,
       ResizeShmInv, CreateShmFailsInv, WriteMetaInv, WriteDescInv, AllocStatInv DEF InitStep
  <2> QED
    BY <1>3, <2>1 DEF InitStep, OpenLock, OpenLockFails, Flock, FlockWouldBlock, FlockFails, OpenShm,
       ResizeShm, CreateShmFails, WriteMeta, WriteDesc, AllocStat
<1>4. CASE ExitStep(p)
  <2>1. StatsInv'
    BY <1>4, ExitUnusedInv, FreeStatsInv, WipeInv, WipedInv, WipeUnsetInv, WipeDamagesInv,
       ExitDamagedInv, UnlinkShmInv, CloseLockInv, UnlinkLockInv, ExitUnlockedInv DEF ExitStep
  <2> QED
    BY <1>4, <2>1 DEF ExitStep, ExitUnused, FreeStats, Wipe, Wiped, WipeUnset, WipeDamages,
       ExitDamaged, UnlinkShm, CloseLock, UnlinkLock, ExitUnlocked
<1> QED
  BY <1>1, <1>2, <1>3, <1>4

----------------------------------------------------------------------------
(* The monitor. *)

\* Every non-empty set of naturals has a least element.
LEMMA LeastNatural ==
    ASSUME NEW S \in SUBSET Nat, S # {}
    PROVE  \E m \in S : \A k \in S : m <= k
<1> DEFINE R == OpToRel(<, Nat)
<1>1. IsWellFoundedOn(R, Nat)
  BY NatLessThanWellFounded
<1>2. \A x, y \in Nat : <<x, y>> \in R <=> x < y
  BY DEF OpToRel
<1> HIDE DEF R
<1>3. PICK x \in S : \A y \in S : ~(<<y, x>> \in R)
  BY <1>1, WFMin
<1>4. \A y \in S : ~(y < x)
  BY <1>2, <1>3
<1>5. \A y \in S : x <= y
  BY <1>4
<1> QED
  BY <1>5

\* Induction, for a set instead of a predicate.
LEMMA SetInduction ==
    ASSUME NEW Q, 0 \in Q, \A n \in Nat : n \in Q => n + 1 \in Q
    PROVE  \A n \in Nat : n \in Q
<1> SUFFICES ASSUME NEW n \in Nat, n \notin Q PROVE FALSE
  OBVIOUS
<1> DEFINE S == {k \in Nat : k \notin Q}
<1>1. PICK m \in S : \A k \in S : m <= k
  BY LeastNatural
<1>2. m # 0 /\ m \in Nat
  OBVIOUS
<1>3. m - 1 \in Nat /\ m - 1 \in Q
  BY <1>1, <1>2
<1> QED
  BY <1>2, <1>3

\* One step of Kept, with f for what it has got so far.
KeptStep(recs, S, f, i) ==
  IF i = 0 THEN <<>> ELSE IF recs[i].key \in S THEN Append(f[i - 1], recs[i]) ELSE f[i - 1]

IsKept(recs, S, f, n) == f = [i \in 0 .. n |-> KeptStep(recs, S, f, i)]

\* The recursion of Kept has a solution, and Kept is taken from one.
LEMMA KeptDefined ==
  ASSUME NEW recs, NEW S, Len(recs) \in Nat
  PROVE \E f : IsKept(recs, S, f, Len(recs)) /\ Kept(recs, S) = f[Len(recs)]
<1> DEFINE Q == {n \in Nat : \E f : IsKept(recs, S, f, n)}
<1>1. 0 \in Q
  <2> DEFINE f == [i \in 0 .. 0 |-> <<>>]
  <2>1. IsKept(recs, S, f, 0)
    BY DEF IsKept, KeptStep
  <2> QED
    BY <2>1
<1>2. ASSUME NEW n \in Nat, n \in Q PROVE n + 1 \in Q
  <2>1. PICK f : IsKept(recs, S, f, n)
    BY <1>2
  <2> DEFINE g == [i \in 0 .. n + 1 |-> IF i = n + 1 THEN KeptStep(recs, S, f, n + 1) ELSE f[i]]
  <2>2. ASSUME NEW i \in 0 .. n + 1 PROVE KeptStep(recs, S, g, i) = KeptStep(recs, S, f, i)
    BY <2>1 DEF KeptStep
  <2>3. ASSUME NEW i \in 0 .. n + 1 PROVE g[i] = KeptStep(recs, S, f, i)
    <3>1. CASE i = n + 1
      BY <3>1
    <3>2. CASE i # n + 1
      <4>1. i \in 0 .. n
        BY <3>2
      <4> QED
        BY <4>1, <3>2, <2>1 DEF IsKept
    <3> QED
      BY <3>1, <3>2
  <2>4. IsKept(recs, S, g, n + 1)
    BY <2>2, <2>3, Zenon DEF IsKept
  <2> QED
    BY <2>4
<1> HIDE DEF Q
<1>3. \A n \in Nat : n \in Q
  BY <1>1, <1>2, SetInduction
<1>4. \E f : IsKept(recs, S, f, Len(recs))
  BY <1>3 DEF Q
<1> DEFINE K == CHOOSE f : IsKept(recs, S, f, Len(recs))
<1>5. IsKept(recs, S, K, Len(recs))
  BY <1>4
<1>6. Kept(recs, S) = K[Len(recs)]
  BY Zenon DEF Kept, IsKept, KeptStep
<1> QED
  BY <1>5, <1>6

\* Kept only drops records.
LEMMA KeptElements ==
    ASSUME NEW T, NEW recs \in Seq(T), NEW S
    PROVE  Kept(recs, S) \in Seq(T)
<1>1. Len(recs) \in Nat /\ \A i \in 1 .. Len(recs) : recs[i] \in T
  OBVIOUS
<1>2. PICK f : IsKept(recs, S, f, Len(recs)) /\ Kept(recs, S) = f[Len(recs)]
  BY <1>1, KeptDefined
<1> DEFINE Q == {n \in Nat : n <= Len(recs) => f[n] \in Seq(T)}
<1>3. \A i \in 0 .. Len(recs) : f[i] = KeptStep(recs, S, f, i)
  BY <1>2, Zenon DEF IsKept
<1>4. 0 \in Q
  <2>1. f[0] = <<>> /\ <<>> \in Seq(T)
    BY <1>1, <1>3, EmptySeq DEF KeptStep
  <2> QED
    BY <2>1
<1>5. ASSUME NEW n \in Nat, n \in Q PROVE n + 1 \in Q
  <2> SUFFICES ASSUME n + 1 <= Len(recs) PROVE f[n + 1] \in Seq(T)
    OBVIOUS
  <2>1. n + 1 \in 1 .. Len(recs) /\ n + 1 \in 0 .. Len(recs) /\ (n + 1) - 1 = n /\ n + 1 # 0 /\ n <= Len(recs)
    BY <1>1
  <2>2. f[n] \in Seq(T) /\ recs[n + 1] \in T
    BY <1>1, <1>5, <2>1
  <2>3. f[n + 1] = Append(f[n], recs[n + 1]) \/ f[n + 1] = f[n]
    BY <1>3, <2>1 DEF KeptStep
  <2>4. Append(f[n], recs[n + 1]) \in Seq(T)
    BY <2>2
  <2> QED
    BY <2>2, <2>3, <2>4
<1> HIDE DEF Q
<1>6. \A n \in Nat : n \in Q
  BY <1>4, <1>5, SetInduction
<1> QED
  BY <1>1, <1>2, <1>6 DEF Q

LEMMA SeqMonotone ==
    ASSUME NEW S, NEW T, S \subseteq T
    PROVE  Seq(S) \subseteq Seq(T)
<1> SUFFICES ASSUME NEW s \in Seq(S) PROVE s \in Seq(T)
  OBVIOUS
<1>1. Len(s) \in Nat /\ s = [i \in 1 .. Len(s) |-> s[i]] /\ \A i \in 1 .. Len(s) : s[i] \in T
  OBVIOUS
<1> QED
  BY <1>1, IsASeq

\* What is left of the records after some of them were dropped.
LEMMA RecordsKept ==
    ASSUME NEW T, NEW S, records \in [Names -> Seq(T)]
    PROVE  [n \in Names |-> Kept(records[n], S)] \in [Names -> Seq(T)]
<1> SUFFICES ASSUME NEW n \in Names PROVE Kept(records[n], S) \in Seq(T)
  OBVIOUS
<1>1. records[n] \in Seq(T)
  OBVIOUS
<1> QED
  BY <1>1, KeptElements

\* Nothing that happens makes a good record bad.
LEMMA GoodStays ==
    ASSUME setup' = setup, torn => torn', optPids' \subseteq optPids
    PROVE  Good \subseteq Good'
<1>1. Keys' = Keys
  BY KeysFixed
<1> SUFFICES ASSUME NEW r \in Good PROVE r \in Good'
  OBVIOUS
<1>2. r \in Records /\ (r.desc \/ torn) /\ (optPids # {} => r.key[1] \in setup.asked)
  BY Zenon DEF Good
<1>3. r \in Records'
  BY <1>1, <1>2, Zenon DEF Records
<1>4. optPids' # {} => r.key[1] \in setup'.asked
  BY <1>2
<1> QED
  BY <1>2, <1>3, <1>4, Zenon DEF Good

LEMMA RecordsStay ==
    ASSUME MonitorInv, setup' = setup, torn => torn', optPids' \subseteq optPids, records' = records
    PROVE  records' \in [Names -> Seq(Good')]
<1>1. Seq(Good) \subseteq Seq(Good')
  BY GoodStays, SeqMonotone
<1> QED
  BY <1>1 DEF MonitorInv

\* A check that drops records.
LEMMA RecordsDropped ==
    ASSUME MonitorInv, setup' = setup, torn => torn', optPids' \subseteq optPids,
           NEW S, records' = [n \in Names |-> Kept(records[n], S)]
    PROVE  records' \in [Names -> Seq(Good')]
<1>1. Seq(Good) \subseteq Seq(Good')
  BY GoodStays, SeqMonotone
<1>2. records' \in [Names -> Seq(Good)]
  BY RecordsKept DEF MonitorInv
<1> QED
  BY <1>1, <1>2

\* Between the monitor's steps.
LEMMA MonitorStutterInv ==
    ASSUME MonitorInv, setup' = setup, UNCHANGED monitorvars
    PROVE  MonitorInv'
<1> USE DEF monitorvars
<1>1. records' \in [Names -> Seq(Good')] /\ Keys' = Keys
  BY RecordsStay, KeysFixed
<1> QED
  BY <1>1 DEF MonitorInv, ScanAsked

\* A region in the scan becomes a record.
LEMMA RecordAdded ==
    ASSUME StatsInv, MonitorInv, setup' = setup, torn => torn', optPids' = optPids,
           NEW k \in todo, NEW desc \in BOOLEAN, NEW counters \in BOOLEAN, desc \/ torn',
           AddRecord(k, desc, counters)
    PROVE  records' \in [Names -> Seq(Good')]
<1>1. k \in Keys /\ k[3] \in Names /\ TypeOK
  BY KeyParts DEF MonitorInv, StatsInv
<1>2. PICK r : r = [key |-> k, desc |-> desc, counters |-> counters]
  OBVIOUS
<1>3. r \in Good'
  <2>1. r \in Records' /\ r.key = k /\ (r.desc \/ torn')
    <3>1. Keys' = Keys
      BY KeysFixed
    <3>2. r \in Records'
      BY <1>1, <1>2, <3>1, Zenon DEF Records
    <3>3. r.key = k /\ r.desc = desc
      BY <1>2
    <3> QED
      BY <3>2, <3>3
  <2>2. optPids' # {} => k[1] \in setup'.asked
    BY DEF MonitorInv, ScanAsked
  <2> QED
    BY <2>1, <2>2, Zenon DEF Good
<1>4. records' = [records EXCEPT ![k[3]] = Append(@, r)]
  BY <1>2 DEF AddRecord
<1>5. records \in [Names -> Seq(Good')]
  <2>1. Seq(Good) \subseteq Seq(Good')
    BY GoodStays, SeqMonotone
  <2> QED
    BY <2>1 DEF MonitorInv
<1>6. Append(records[k[3]], r) \in Seq(Good')
  BY <1>1, <1>3, <1>5
<1> QED
  BY <1>1, <1>4, <1>5, <1>6

LEMMA FailuresInv ==
    ASSUME StatsInv, MayFail,
           UNCHANGED <<setup, spc, inc, region, broken, lockFd, shm, lockFiles, flocks, ended>>
    PROVE  StatsInv'
<1>1. failures \in Nat /\ failures' = failures + 1 /\ Keys' = Keys
  BY KeysFixed DEF MayFail, StatsInv, TypeOK
<1>2. TypeOK'
  BY <1>1 DEF StatsInv, TypeOK
<1>3. ASSUME NEW p \in Pids PROVE RegionsKnown(p)' /\ LockKept(p)'
  <2>1. Left(p)' = Left(p) /\ Opened(p)' = Opened(p)
    BY <1>1 DEF Left, Opened
  <2> QED
    BY <1>1, <2>1 DEF StatsInv, RegionsKnown, LockKept
<1> QED
  BY <1>2, <1>3 DEF StatsInv

\* Steps of the monitor that neither drop nor add a record.
LEMMA PlainStepsInv ==
    ASSUME MonitorInv,
           \/ GetLockPids \/ GetLockPidsFails \/ CheckAsked \/ CheckLockFilesFails
           \/ ListStats \/ ListStatsFails
           \/ \E k \in todo : CheckStatsSkips(k) \/ CheckStatsThrows(k)
    PROVE  MonitorInv'
<1>1. CASE GetLockPids \/ GetLockPidsFails \/ ListStatsFails
  <2>1. /\ UNCHANGED <<setup, optPids, ucommdPids, todo, records, torn>>
        /\ mpc' # "aborted"
    BY <1>1 DEF GetLockPids, GetLockPidsFails, ListStatsFails, statsvars
  <2>2. records' \in [Names -> Seq(Good')] /\ Keys' = Keys
    BY <2>1, RecordsStay, KeysFixed
  <2> QED
    BY <2>1, <2>2 DEF MonitorInv, ScanAsked
<1>2. CASE CheckAsked
  <2>1. /\ UNCHANGED <<setup, todo, records, torn>> /\ mpc' # "aborted"
        /\ optPids' = optPids \cap lockPids /\ ucommdPids' = optPids' /\ optPids # {}
    BY <1>2 DEF CheckAsked, statsvars
  <2>2. records' \in [Names -> Seq(Good')] /\ Keys' = Keys
    BY <2>1, RecordsStay, KeysFixed
  <2> QED
    BY <2>1, <2>2 DEF MonitorInv, ScanAsked
<1>3. CASE ListStats
  <2>1. /\ UNCHANGED <<setup, optPids, ucommdPids, records, torn>> /\ mpc' # "aborted"
        /\ todo' \subseteq Keys /\ \A k \in todo' : k[1] \in ucommdPids
    BY <1>3 DEF ListStats, statsvars, InScan
  <2>2. records' \in [Names -> Seq(Good')] /\ Keys' = Keys
    BY <2>1, RecordsStay, KeysFixed
  <2> QED
    BY <2>1, <2>2 DEF MonitorInv, ScanAsked
<1>4. CASE \E k \in todo : CheckStatsSkips(k)
  <2>1. /\ UNCHANGED <<setup, optPids, ucommdPids, records, torn>> /\ mpc' # "aborted"
        /\ todo' \subseteq todo
    BY <1>4 DEF CheckStatsSkips, statsvars
  <2>2. records' \in [Names -> Seq(Good')] /\ Keys' = Keys
    BY <2>1, RecordsStay, KeysFixed
  <2> QED
    BY <2>1, <2>2 DEF MonitorInv, ScanAsked
<1>5. CASE \E k \in todo : CheckStatsThrows(k)
  <2>1. PICK k \in todo : CheckStatsThrows(k)
    BY <1>5
  <2>2. /\ UNCHANGED <<setup, optPids, ucommdPids, records>> /\ todo' = {}
        /\ torn' = (torn \/ shm[k] # "empty") /\ shm[k] # "empty"
    BY <2>1 DEF CheckStatsThrows, Unmappable, statsvars
  <2>3. torn' = TRUE
    BY <2>2
  <2>4. records' \in [Names -> Seq(Good')] /\ Keys' = Keys
    BY <2>2, <2>3, RecordsStay, KeysFixed
  <2> QED
    BY <2>2, <2>3, <2>4 DEF MonitorInv, ScanAsked
<1>6. CASE CheckLockFilesFails
  <2>1. /\ UNCHANGED <<setup, todo, records, torn>> /\ mpc' # "aborted" /\ optPids' = {}
    BY <1>6 DEF CheckLockFilesFails
  <2>2. records' \in [Names -> Seq(Good')] /\ Keys' = Keys
    BY <2>1, RecordsStay, KeysFixed
  <2> QED
    BY <2>1, <2>2 DEF MonitorInv, ScanAsked
<1> QED
  BY <1>1, <1>2, <1>3, <1>4, <1>5, <1>6

LEMMA DroppingStepsInv ==
    ASSUME MonitorInv, CheckLockFiles \/ CleanStats
    PROVE  MonitorInv'
<1>1. CASE CheckLockFiles
  <2>1. /\ UNCHANGED <<setup, todo, torn>> /\ mpc' # "aborted" /\ optPids' = {}
        /\ records' = [n \in Names |-> Kept(records[n], {k \in Keys : k[1] \in lockPids})]
    BY <1>1 DEF CheckLockFiles, statsvars, Prune
  <2>2. records' \in [Names -> Seq(Good')] /\ Keys' = Keys
    BY <2>1, RecordsDropped, KeysFixed
  <2> QED
    BY <2>1, <2>2 DEF MonitorInv, ScanAsked
<1>2. CASE CleanStats
  <2>1. /\ UNCHANGED <<setup, optPids, ucommdPids, todo, torn>> /\ mpc' # "aborted"
        /\ records' = [n \in Names |-> Kept(records[n], {k \in Keys : shm[k] # "none"})]
    BY <1>2 DEF CleanStats, statsvars
  <2>2. records' \in [Names -> Seq(Good')] /\ Keys' = Keys
    BY <2>1, RecordsDropped, KeysFixed
  <2> QED
    BY <2>1, <2>2 DEF MonitorInv, ScanAsked
<1> QED
  BY <1>1, <1>2

LEMMA RecordingStepsInv ==
    ASSUME StatsInv, MonitorInv, NEW k \in todo, CheckStats(k) \/ CheckStatsTorn(k)
    PROVE  MonitorInv'
<1>1. /\ UNCHANGED <<setup, optPids, ucommdPids>> /\ mpc' # "aborted" /\ todo' \subseteq todo
      /\ torn' = torn \/ torn' = TRUE
  BY DEF CheckStats, CheckStatsTorn, statsvars
<1>2. PICK desc \in BOOLEAN, counters \in BOOLEAN : (desc \/ torn') /\ AddRecord(k, desc, counters)
  BY Zenon DEF CheckStats, CheckStatsTorn
<1>3. records' \in [Names -> Seq(Good')] /\ Keys' = Keys
  <2>1. torn => torn'
    BY <1>1
  <2> QED
    BY <1>1, <1>2, <2>1, RecordAdded, KeysFixed
<1> QED
  BY <1>1, <1>3 DEF MonitorInv, ScanAsked

\* Printing stops the monitor only when the first record has no names, and
\* that record comes from a header that was not complete.
LEMMA PrintThrowsInv ==
    ASSUME MonitorInv, PrintThrows
    PROVE  MonitorInv'
<1>1. UNCHANGED <<setup, optPids, ucommdPids, todo, records, torn>>
  BY DEF PrintThrows, statsvars
<1>2. PICK i \in DOMAIN records["ib"] : ~records["ib"][1].desc
  BY DEF PrintThrows
<1>3. torn
  <2>1. records["ib"] \in Seq(Good)
    BY DEF MonitorInv, Names
  <2>2. records["ib"][1] \in Good
    BY <1>2, <2>1
  <2> QED
    BY <1>2, <2>2, Zenon DEF Good
<1>4. records' \in [Names -> Seq(Good')] /\ Keys' = Keys
  BY <1>1, RecordsStay, KeysFixed
<1> QED
  BY <1>1, <1>3, <1>4 DEF MonitorInv, ScanAsked

LEMMA UcommdInitInv == UcommdInit => UcommdInv
<1> SUFFICES ASSUME UcommdInit PROVE UcommdInv
  OBVIOUS
<1>1. StatsInv
  BY StatsInitInv DEF UcommdInit
<1>2. records \in [Names -> Seq(Good)]
  BY EmptySeq DEF UcommdInit, MonitorInit
<1>3. MonitorInv
  BY <1>2 DEF UcommdInit, MonitorInit, MonitorInv, ScanAsked
<1> QED
  BY <1>1, <1>3 DEF UcommdInv

LEMMA UcommdNextInv == UcommdInv /\ [UcommdNext]_allvars => UcommdInv'
<1> SUFFICES ASSUME StatsInv, MonitorInv, [UcommdNext]_allvars PROVE StatsInv' /\ MonitorInv'
  BY DEF UcommdInv
<1>1. CASE UNCHANGED allvars
  <2>1. UNCHANGED statsvars /\ UNCHANGED monitorvars /\ setup' = setup
    BY <1>1 DEF allvars, statsvars
  <2> QED
    BY <2>1, StatsStutterInv, MonitorStutterInv
<1>2. CASE StatsNext /\ UNCHANGED monitorvars
  BY <1>2, StatsNextInv, MonitorStutterInv
<1>3. CASE MonitorNext
  <2>1. MonitorInv'
    BY <1>3, PlainStepsInv, DroppingStepsInv, RecordingStepsInv, PrintThrowsInv DEF MonitorNext, Check
  <2>2. CASE GetLockPidsFails \/ CheckLockFilesFails \/ ListStatsFails
    <3>1. StatsInv'
      BY <2>2, FailuresInv DEF GetLockPidsFails, CheckLockFilesFails, ListStatsFails
    <3> QED
      BY <2>1, <3>1
  <2>3. CASE ~(GetLockPidsFails \/ CheckLockFilesFails \/ ListStatsFails)
    <3>1. UNCHANGED statsvars
      BY <1>3, <2>3 DEF MonitorNext, Check, GetLockPids, CheckAsked, CheckLockFiles, ListStats, CheckStatsSkips,
         CheckStats, CheckStatsTorn, CheckStatsThrows, CleanStats, PrintThrows
    <3> QED
      BY <2>1, <3>1, StatsStutterInv
  <2> QED
    BY <2>2, <2>3
<1> QED
  BY <1>1, <1>2, <1>3 DEF UcommdNext

(***************************************************************************)
(* The invariant of the processes and the monitor, for every set of pids,  *)
(* and setup (stats.cc, unet_perf.cc, monitor.cc).                         *)
(***************************************************************************)
THEOREM UcommdInvariant == UcommdSpec => []UcommdInv
<1>1. UcommdInit => UcommdInv
  BY UcommdInitInv
<1>2. UcommdInv /\ [UcommdNext]_allvars => UcommdInv'
  BY UcommdNextInv
<1> QED
  BY <1>1, <1>2, PTL DEF UcommdSpec

(***************************************************************************)
(* Wherever its initialisation stopped, a process that exits leaves no     *)
(* region in /dev/shm, and no lock file unless flock failed; regions are   *)
(* never without a lock unless a call failed (~UnetPerfMonitor, ~StatsShm).*)
(***************************************************************************)
THEOREM ExitsClean == UcommdSpec => []CleanExit
<1>1. UcommdInv => CleanExit
  <2> SUFFICES ASSUME UcommdInv, NEW p \in Pids
               PROVE  /\ ended[p] \in {"exited", "bare"} => Left(p) = {}
                      /\ ended[p] = "exited" => p \notin lockFiles
                      /\ ended[p] = "never" /\ p \notin flocks /\ failures = 0 => Left(p) = {}
    BY DEF CleanExit, Left
  <2>1. TypeOK /\ RegionsKnown(p) /\ LockKept(p)
    BY DEF UcommdInv, StatsInv
  <2>2. spc[p] # "off" /\ region[p] = "none" => Left(p) = {}
    BY <2>1, Opens DEF RegionsKnown
  <2> QED
    BY <2>1, <2>2 DEF RegionsKnown, LockKept, TypeOK
<1> QED
  BY <1>1, UcommdInvariant, PTL

(***************************************************************************)
(* However processes come and go between its steps, only an incomplete     *)
(* header stops the monitor (check_stats, run).                            *)
(***************************************************************************)
THEOREM MonitorStops == UcommdSpec => []OnlyTornHeadersKill
<1>1. UcommdInv => OnlyTornHeadersKill
  BY DEF UcommdInv, MonitorInv, OnlyTornHeadersKill
<1> QED
  BY <1>1, UcommdInvariant, PTL

(***************************************************************************)
(* While a process the user asked for holds its lock, no other process is  *)
(* shown (check_ucommd_pids, scan_stats).                                  *)
(***************************************************************************)
THEOREM AskedOnly == UcommdSpec => []OnlyAsked
<1>1. UcommdInv => OnlyAsked
  <2> SUFFICES ASSUME UcommdInv, optPids # {}, NEW k \in Keys, Recorded(k) PROVE k[1] \in setup.asked
    BY DEF OnlyAsked
  <2>1. k[3] \in Names
    BY KeyParts DEF UcommdInv, StatsInv
  <2>2. PICK i \in DOMAIN records[k[3]] : records[k[3]][i].key = k
    BY DEF Recorded
  <2>3. PICK r : r = records[k[3]][i]
    OBVIOUS
  <2>4. r \in Good
    <3>1. records[k[3]] \in Seq(Good)
      BY <2>1 DEF UcommdInv, MonitorInv
    <3> QED
      BY <2>2, <2>3, <3>1
  <2>5. r.key = k
    BY <2>2, <2>3
  <2> QED
    BY <2>4, <2>5, Zenon DEF Good
<1> QED
  BY <1>1, UcommdInvariant, PTL
=============================================================================
