------------------------------- MODULE Stats -------------------------------
(***************************************************************************)
(* The statistics of a process (stats.cc, unet_perf.cc): ncclIbListen gets *)
(* them the first time it is called, which takes the process's lock file   *)
(* and creates up to two shared memory regions in /dev/shm, for the IB     *)
(* counters and, when the process has a rank, for the bandwidth counters.  *)
(* They are destroyed when the process exits; a process that crashes       *)
(* leaves its files behind, and the system drops its lock.                 *)
(*                                                                         *)
(* A region is named after the pid, the counters and the address of an     *)
(* object; the address is taken to differ between the processes that have  *)
(* the same pid one after the other, and is represented by their number.   *)
(* A region's content is what a reader finds: no file, an "empty" one, a   *)
(* "zero" header, a "partial" one that is being written or cleared, the    *)
(* "full" header, or "live": the pid is set too.                           *)
(***************************************************************************)
EXTENDS Integers, FiniteSets

CONSTANTS Pids,         \* process ids
          Setups        \* who starts and what may fail, see SetupOK

\* starts: bound on the processes of a pid; ranked: pids of processes with a
\* rank; failures: bound on failing system calls.
SetupOK(s) == s.starts \in [Pids -> Nat] /\ s.failures \in Nat /\ s.ranked \subseteq Pids

ASSUME StatsAssumption == \A s \in Setups : SetupOK(s)

VARIABLES setup,       \* the setup of this behaviour
          spc,         \* where a process is
          inc,         \* how many processes have had the pid
          region,      \* the last StatsShm of a process
          broken,      \* its create_shm failed: meta_ is not set
          lockFd,      \* lock_fd_ is set
          shm,         \* the regions in /dev/shm
          lockFiles,   \* pids with a lock file in /dev/shm
          flocks,      \* pids that /proc/locks shows
          ended,       \* history: how the pid's last process ended
          failures     \* failing system calls so far

statsvars == <<setup, spc, inc, region, broken, lockFd, shm, lockFiles, flocks, ended, failures>>

Names == {"ib", "bw"}
Keys == UNION {{p} \X (1 .. setup.starts[p]) \X Names : p \in Pids}
Key(p) == <<p, inc[p], region[p]>>

\* The regions of the process that has, or had last, the pid.
Left(p) == {k \in Keys : k[1] = p /\ k[2] = inc[p] /\ shm[k] # "none"}

StatsInit ==
    /\ setup \in Setups
    /\ spc = [p \in Pids |-> "off"] /\ inc = [p \in Pids |-> 0]
    /\ region = [p \in Pids |-> "none"] /\ broken = [p \in Pids |-> FALSE]
    /\ lockFd = [p \in Pids |-> FALSE]
    /\ shm = [k \in Keys |-> "none"] /\ lockFiles = {} /\ flocks = {}
    /\ ended = [p \in Pids |-> "never"] /\ failures = 0

Goto(p, label) == spc' = [spc EXCEPT ![p] = label]
SetRegion(p, n) == region' = [region EXCEPT ![p] = n]
Put(p, content) == shm' = [shm EXCEPT ![Key(p)] = content]
MayStart(p) == inc[p] < setup.starts[p]
MayFail == failures < setup.failures /\ failures' = failures + 1

----------------------------------------------------------------------------
\* A process that uses the plugin starts.
Start(p) ==
    /\ spc[p] = "off" /\ MayStart(p)
    /\ Goto(p, "run")
    /\ inc' = [inc EXCEPT ![p] = @ + 1]
    /\ ended' = [ended EXCEPT ![p] = "never"]
    /\ UNCHANGED <<setup, region, broken, lockFd, shm, lockFiles, flocks, failures>>

\* A process that has nothing to do with it gets the pid and locks some file.
StartOther(p) ==
    /\ spc[p] = "off" /\ inc[p] > 0 /\ MayStart(p)
    /\ Goto(p, "other")
    /\ inc' = [inc EXCEPT ![p] = @ + 1]
    /\ flocks' = flocks \cup {p}
    /\ UNCHANGED <<setup, region, broken, lockFd, shm, lockFiles, ended, failures>>

\* A process ends, in whatever step: the system drops its lock and its memory.
End(p, how) ==
    /\ Goto(p, "off")
    /\ flocks' = flocks \ {p}
    /\ region' = [region EXCEPT ![p] = "none"]
    /\ broken' = [broken EXCEPT ![p] = FALSE]
    /\ lockFd' = [lockFd EXCEPT ![p] = FALSE]
    /\ ended' = [ended EXCEPT ![p] = how]

Crash(p) ==
    /\ spc[p] # "off"
    /\ End(p, "crashed")
    /\ UNCHANGED <<setup, inc, shm, lockFiles, failures>>

----------------------------------------------------------------------------
\* The first ncclIbListen: get_stat_, UnetPerfMonitor::init.  Statistics that
\* are disabled end in "error" like a lock file that cannot be opened.
OpenLock(p) ==
    /\ spc[p] = "run"
    /\ Goto(p, "flock")
    /\ lockFiles' = lockFiles \cup {p}
    /\ UNCHANGED <<setup, inc, region, broken, lockFd, shm, flocks, ended, failures>>

OpenLockFails(p) ==
    /\ spc[p] = "run" /\ MayFail
    /\ Goto(p, "error")
    /\ UNCHANGED <<setup, inc, region, broken, lockFd, shm, lockFiles, flocks, ended>>

Flock(p) ==
    /\ spc[p] = "flock"
    /\ Goto(p, "create") /\ SetRegion(p, "ib")
    /\ lockFd' = [lockFd EXCEPT ![p] = TRUE]
    /\ flocks' = flocks \cup {p}
    /\ UNCHANGED <<setup, inc, broken, shm, lockFiles, ended, failures>>

\* EWOULDBLOCK: the descriptor is closed, and kept; init goes on unlocked.
FlockWouldBlock(p) ==
    /\ spc[p] = "flock" /\ MayFail
    /\ Goto(p, "create") /\ SetRegion(p, "ib")
    /\ lockFd' = [lockFd EXCEPT ![p] = TRUE]
    /\ UNCHANGED <<setup, inc, broken, shm, lockFiles, flocks, ended>>

FlockFails(p) ==
    /\ spc[p] = "flock" /\ MayFail
    /\ Goto(p, "error")
    /\ UNCHANGED <<setup, inc, region, broken, lockFd, shm, lockFiles, flocks, ended>>

\* create_shm: shm_open, then ftruncate, then mmap, with the memset of init.
OpenShm(p) ==
    /\ spc[p] = "create"
    /\ Goto(p, "resize") /\ Put(p, "empty")
    /\ UNCHANGED <<setup, inc, region, broken, lockFd, lockFiles, flocks, ended, failures>>

ResizeShm(p) ==
    /\ spc[p] = "resize"
    /\ Goto(p, "map") /\ Put(p, "zero")
    /\ UNCHANGED <<setup, inc, region, broken, lockFd, lockFiles, flocks, ended, failures>>

\* Any of these calls fails; the file is unlinked, if there is one.
CreateShmFails(p) ==
    /\ spc[p] \in {"create", "resize", "map"} /\ MayFail
    /\ Goto(p, "error") /\ Put(p, "none")
    /\ broken' = [broken EXCEPT ![p] = TRUE]
    /\ UNCHANGED <<setup, inc, region, lockFd, lockFiles, flocks, ended>>

\* mmap, and the memcpy of the header and the names of the counters, begun and ended.
WriteMeta(p) ==
    /\ spc[p] = "map"
    /\ Goto(p, "desc") /\ Put(p, "partial")
    /\ UNCHANGED <<setup, inc, region, broken, lockFd, lockFiles, flocks, ended, failures>>

WriteDesc(p) ==
    /\ spc[p] = "desc"
    /\ Goto(p, "alloc") /\ Put(p, "full")
    /\ UNCHANGED <<setup, inc, region, broken, lockFd, lockFiles, flocks, ended, failures>>

\* allocStat, and pid and rank are set; then the bandwidth region or the end.
AllocStat(p) ==
    /\ spc[p] = "alloc"
    /\ Put(p, "live")
    /\ IF region[p] = "ib" /\ p \in setup.ranked
       THEN Goto(p, "create") /\ SetRegion(p, "bw")
       ELSE Goto(p, "ready") /\ UNCHANGED region
    /\ UNCHANGED <<setup, inc, broken, lockFd, lockFiles, flocks, ended, failures>>

----------------------------------------------------------------------------
\* exit() of a process that never got the statistics.
ExitUnused(p) ==
    /\ spc[p] = "run"
    /\ End(p, "bare")
    /\ UNCHANGED <<setup, inc, shm, lockFiles, failures>>

\* ~UnetPerfMonitor: freeStat clears the counters, the pid included.
FreeStats(p) ==
    /\ spc[p] \in {"ready", "error"}
    /\ Goto(p, IF region[p] = "none" THEN "close" ELSE "wipe")
    /\ shm' = [k \in Keys |-> IF k[1] = p /\ k[2] = inc[p] /\ shm[k] = "live" THEN "full" ELSE shm[k]]
    /\ UNCHANGED <<setup, inc, region, broken, lockFd, lockFiles, flocks, ended, failures>>

\* ~StatsShm: memset, begun and ended, ...
Wipe(p) ==
    /\ spc[p] = "wipe" /\ ~broken[p]
    /\ Goto(p, "wiping") /\ Put(p, "partial")
    /\ UNCHANGED <<setup, inc, region, broken, lockFd, lockFiles, flocks, ended, failures>>

Wiped(p) ==
    /\ spc[p] = "wiping"
    /\ Goto(p, "unlink") /\ Put(p, "zero")
    /\ UNCHANGED <<setup, inc, region, broken, lockFd, lockFiles, flocks, ended, failures>>

\* ... or, when create_shm failed, a memset through a pointer and with a size
\* nobody set: it does nothing, or the process crashes here (Crash), ...
WipeUnset(p) ==
    /\ spc[p] = "wipe" /\ broken[p]
    /\ Goto(p, "unlink")
    /\ broken' = [broken EXCEPT ![p] = FALSE]
    /\ UNCHANGED <<setup, inc, region, lockFd, shm, lockFiles, flocks, ended, failures>>

\* ... or it overwrites memory of the process, its other region included, which
\* then goes on to exit with whatever names and descriptors are left.
WipeDamages(p) ==
    /\ spc[p] = "wipe" /\ broken[p]
    /\ Goto(p, "damaged")
    /\ \E S \in SUBSET Left(p) : shm' = [k \in Keys |-> IF k \in S THEN "partial" ELSE shm[k]]
    /\ UNCHANGED <<setup, inc, region, broken, lockFd, lockFiles, flocks, ended, failures>>

ExitDamaged(p) ==
    /\ spc[p] = "damaged"
    /\ \E S \in SUBSET Left(p) : shm' = [k \in Keys |-> IF k \in S THEN "none" ELSE shm[k]]
    /\ lockFiles' \in {lockFiles, lockFiles \ {p}}
    /\ End(p, "crashed")
    /\ UNCHANGED <<setup, inc, failures>>

\* Mutant of NextToFree: only the last region is destroyed.
MutNextToFree(n) == "none"

\* The bandwidth region goes before the IB region.
NextToFree(n) == IF n = "bw" THEN "ib" ELSE "none"

UnlinkShm(p) ==
    /\ spc[p] = "unlink"
    /\ Put(p, "none") /\ SetRegion(p, NextToFree(region[p]))
    /\ Goto(p, IF NextToFree(region[p]) = "none" THEN "close" ELSE "wipe")
    /\ UNCHANGED <<setup, inc, broken, lockFd, lockFiles, flocks, ended, failures>>

\* The lock goes last, and then its file.
CloseLock(p) ==
    /\ spc[p] = "close" /\ lockFd[p]
    /\ flocks' = flocks \ {p}
    /\ Goto(p, "unlock")
    /\ UNCHANGED <<setup, inc, region, broken, lockFd, shm, lockFiles, ended, failures>>

UnlinkLock(p) ==
    /\ spc[p] = "unlock"
    /\ lockFiles' = lockFiles \ {p}
    /\ End(p, "exited")
    /\ UNCHANGED <<setup, inc, shm, failures>>

ExitUnlocked(p) ==
    /\ spc[p] = "close" /\ ~lockFd[p]
    /\ End(p, "bare")
    /\ UNCHANGED <<setup, inc, shm, lockFiles, failures>>

InitStep(p) ==
    \/ OpenLock(p) \/ OpenLockFails(p) \/ Flock(p) \/ FlockWouldBlock(p) \/ FlockFails(p)
    \/ OpenShm(p) \/ ResizeShm(p) \/ CreateShmFails(p) \/ WriteMeta(p) \/ WriteDesc(p) \/ AllocStat(p)

ExitStep(p) ==
    \/ ExitUnused(p) \/ FreeStats(p) \/ Wipe(p) \/ Wiped(p) \/ WipeUnset(p) \/ WipeDamages(p)
    \/ ExitDamaged(p) \/ UnlinkShm(p) \/ CloseLock(p) \/ UnlinkLock(p) \/ ExitUnlocked(p)

StatsNext ==
    \E p \in Pids :
        Start(p) \/ StartOther(p) \/ Crash(p) \/ InitStep(p) \/ ExitStep(p)

----------------------------------------------------------------------------
(***************************************************************************)
(* A process that exits leaves no region behind, wherever its              *)
(* initialisation stopped, and no lock file unless flock failed; one that  *)
(* overwrote its own memory (WipeDamages) counts as crashed.  A process    *)
(* that is there has regions without the lock only if a call failed.       *)
(***************************************************************************)
CleanExit ==
    \A p \in Pids :
        /\ ended[p] \in {"exited", "bare"} => Left(p) = {}
        /\ ended[p] = "exited" => p \notin lockFiles
        /\ ended[p] = "never" /\ p \notin flocks /\ failures = 0 => Left(p) = {}

----------------------------------------------------------------------------
(* The inductive invariant behind it. *)

Contents == {"none", "empty", "zero", "partial", "full", "live"}
Using == {"run", "flock", "create", "resize", "map", "desc", "alloc", "ready", "error"}
Exiting == {"wipe", "wiping", "damaged", "unlink", "close", "unlock"}

TypeOK ==
    /\ setup \in Setups
    /\ spc \in [Pids -> Using \cup Exiting \cup {"off", "other"}]
    /\ inc \in [Pids -> Nat] /\ region \in [Pids -> Names \cup {"none"}]
    /\ broken \in [Pids -> BOOLEAN] /\ lockFd \in [Pids -> BOOLEAN]
    /\ shm \in [Keys -> Contents] /\ lockFiles \subseteq Pids /\ flocks \subseteq Pids
    /\ ended \in [Pids -> {"never", "exited", "bare", "crashed"}] /\ failures \in Nat

\* The regions a process has begun to create and has not destroyed yet.
Opened(p) == {n \in Names : region[p] = n \/ region[p] = "bw"}

\* A process knows of all its regions, and nobody has created those of a later one.
RegionsKnown(p) ==
    /\ spc[p] # "off" => \A k \in Left(p) : k[3] \in Opened(p)
    /\ spc[p] = "off" /\ ended[p] # "crashed" => Left(p) = {}
    /\ spc[p] # "error" =>
          (region[p] = "none" <=> spc[p] \in {"off", "other", "run", "flock", "close", "unlock"})
    /\ \A k \in Keys : k[1] = p /\ k[2] > inc[p] => shm[k] = "none"

\* A process with regions has its lock, unless a call failed.
LockKept(p) ==
    /\ ended[p] # "never" => spc[p] \in {"off", "other"}
    /\ ended[p] = "exited" => p \notin lockFiles
    /\ spc[p] = "error" => failures > 0
    /\ spc[p] \notin {"off", "other", "run", "flock", "error", "close", "unlock"} /\ failures = 0
          => p \in flocks

StatsInv == TypeOK /\ \A p \in Pids : RegionsKnown(p) /\ LockKept(p)
=============================================================================
