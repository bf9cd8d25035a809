------------------------------ MODULE Monitor ------------------------------
(***************************************************************************)
(* The monitor (monitor.cc): it looks for processes with statistics, maps  *)
(* their regions and prints the counters, while processes start, exit and  *)
(* crash (Stats).  A check, once at the start and then every ten seconds,  *)
(* reads /proc/locks, takes the pids of the lock files in /dev/shm or the  *)
(* ones the user asked for, drops the records of pids without a lock, maps *)
(* the regions it has no record of, and drops the records whose file is    *)
(* gone.  The bandwidth mode of printing is left out.  The setup says      *)
(* whether there is a monitor and which pids its option asks for.          *)
(***************************************************************************)
EXTENDS Stats, Sequences

VARIABLES mpc,          \* where the monitor is
          optPids,      \* opts_.pids, at first the option --pid
          lockPids,     \* lock_pids_
          ucommdPids,   \* ucommd_pids_
          todo,         \* region files of the scan still to look at
          records,      \* stats_records_: by name, file and what the header said
          torn          \* history: a header was read that was not complete

monitorvars == <<mpc, optPids, lockPids, ucommdPids, todo, records, torn>>
allvars == <<statsvars, monitorvars>>

MonitorInit ==
    /\ mpc = (IF setup.monitor THEN "idle" ELSE "absent")
    /\ optPids = setup.asked
    /\ lockPids = {} /\ ucommdPids = {} /\ todo = {}
    /\ records = [n \in Names |-> <<>>] /\ torn = FALSE

Recorded(k) == \E i \in DOMAIN records[k[3]] : records[k[3]][i].key = k

----------------------------------------------------------------------------
GetLockPids ==
    /\ mpc = "idle"
    /\ lockPids' = flocks /\ mpc' = "pids"
    /\ UNCHANGED <<statsvars, optPids, ucommdPids, todo, records, torn>>

\* /proc/locks cannot be read: the scan goes on with the pids of the last check.
GetLockPidsFails ==
    /\ mpc = "idle" /\ MayFail
    /\ mpc' = "list"
    /\ UNCHANGED <<setup, spc, inc, region, broken, lockFd, shm, lockFiles, flocks, ended>>
    /\ UNCHANGED <<optPids, lockPids, ucommdPids, todo, records, torn>>

\* The records of the regions in S, in their order (erase of a vector).
Kept(recs, S) ==
    LET K[i \in 0 .. Len(recs)] ==
            IF i = 0 THEN <<>>
            ELSE IF recs[i].key \in S THEN Append(K[i - 1], recs[i]) ELSE K[i - 1]
    IN  K[Len(recs)]

\* Mutant of Prune: the records are kept.
MutPrune(recs) == recs

\* The records of pids that hold a lock.
Prune(recs) == Kept(recs, {k \in Keys : k[1] \in lockPids})

\* check_ucommd_pids: asked-for pids that are alive decide alone, and then
\* nothing is dropped; a pid found dead is no longer asked for.
CheckAsked ==
    /\ mpc = "pids" /\ optPids \cap lockPids # {}
    /\ optPids' = optPids \cap lockPids /\ ucommdPids' = optPids'
    /\ mpc' = "list"
    /\ UNCHANGED <<statsvars, lockPids, todo, records, torn>>

CheckLockFiles ==
    /\ mpc = "pids" /\ optPids \cap lockPids = {}
    /\ optPids' = {} /\ ucommdPids' = lockFiles \cap lockPids
    /\ records' = [n \in Names |-> Prune(records[n])]
    /\ mpc' = "list"
    /\ UNCHANGED <<statsvars, lockPids, todo, torn>>

\* /dev/shm cannot be opened: there are no pids, and nothing is dropped.
CheckLockFilesFails ==
    /\ mpc = "pids" /\ optPids \cap lockPids = {} /\ MayFail
    /\ optPids' = {} /\ ucommdPids' = {}
    /\ mpc' = "list"
    /\ UNCHANGED <<setup, spc, inc, region, broken, lockFd, shm, lockFiles, flocks, ended>>
    /\ UNCHANGED <<lockPids, todo, records, torn>>

\* Mutant of InScan: the pid of a region is not looked at.
MutInScan(k) == shm[k] # "none" /\ ~Recorded(k)

\* Mutant of InScan: a process is known by its pid alone.
MutInScanPid(k) ==
    /\ shm[k] # "none" /\ k[1] \in ucommdPids
    /\ \A i \in DOMAIN records[k[3]] : records[k[3]][i].key[1] # k[1]

InScan(k) == shm[k] # "none" /\ k[1] \in ucommdPids /\ ~Recorded(k)

\* scan_stats: the directory is read, then file after file is looked at.
ListStats ==
    /\ mpc = "list"
    /\ todo' = {k \in Keys : InScan(k)}
    /\ mpc' = "scan"
    /\ UNCHANGED <<statsvars, optPids, lockPids, ucommdPids, records, torn>>

ListStatsFails ==
    /\ mpc = "list" /\ MayFail
    /\ mpc' = "scan"
    /\ UNCHANGED <<setup, spc, inc, region, broken, lockFd, shm, lockFiles, flocks, ended>>
    /\ UNCHANGED <<optPids, lockPids, ucommdPids, todo, records, torn>>

\* desc and counters: whether there are names and counters in the record.
AddRecord(k, desc, counters) ==
    records' = [records EXCEPT ![k[3]] = Append(@, [key |-> k, desc |-> desc, counters |-> counters])]

\* Mutant of Unmappable: an empty file is read like any other.
MutUnmappable(k) == shm[k] = "none"

\* check_stats: the file is gone, or has no size yet and mmap fails.
Unmappable(k) == shm[k] \in {"none", "empty"}

CheckStatsSkips(k) ==
    /\ mpc = "scan" /\ k \in todo /\ Unmappable(k)
    /\ todo' = todo \ {k}
    /\ UNCHANGED <<statsvars, mpc, optPids, lockPids, ucommdPids, records, torn>>

CheckStats(k) ==
    /\ mpc = "scan" /\ k \in todo /\ shm[k] \in {"full", "live"}
    /\ todo' = todo \ {k}
    /\ AddRecord(k, TRUE, TRUE)
    /\ UNCHANGED <<statsvars, mpc, optPids, lockPids, ucommdPids, torn>>

\* A header that is being written or cleared: every field read may be there
\* or not.
CheckStatsTorn(k) ==
    /\ mpc = "scan" /\ k \in todo /\ shm[k] = "partial"
    /\ todo' = todo \ {k}
    /\ \E desc, counters \in BOOLEAN : AddRecord(k, desc, counters)
    /\ torn' = TRUE
    /\ UNCHANGED <<statsvars, mpc, optPids, lockPids, ucommdPids>>

\* std::stoi on a header without a time throws, and nothing catches it.
CheckStatsThrows(k) ==
    /\ mpc = "scan" /\ k \in todo /\ ~Unmappable(k) /\ shm[k] \in {"empty", "zero", "partial"}
    /\ mpc' = "aborted"
    /\ torn' = (torn \/ shm[k] # "empty")
    /\ todo' = {}
    /\ UNCHANGED <<statsvars, optPids, lockPids, ucommdPids, records>>

\* clean_stats ends the check (lock_pids_ is not read again before it is cleared).
CleanStats ==
    /\ mpc = "scan" /\ todo = {}
    /\ records' = [n \in Names |-> Kept(records[n], {k \in Keys : shm[k] # "none"})]
    /\ lockPids' = {}
    /\ mpc' = "idle"
    /\ UNCHANGED <<statsvars, optPids, ucommdPids, todo, torn>>

\* run() prints the IB counters with the widths of the first record's names;
\* width.at throws for a record that has more counters and is not all zero.
PrintThrows ==
    /\ mpc = "idle" /\ ucommdPids # {}
    /\ \E i \in DOMAIN records["ib"] :
          /\ shm[records["ib"][i].key] \in {"partial", "full", "live"}
          /\ records["ib"][i].counters /\ ~records["ib"][1].desc
    /\ mpc' = "aborted"
    /\ UNCHANGED <<statsvars, optPids, lockPids, ucommdPids, todo, records, torn>>

Check ==
    \/ GetLockPids \/ CheckAsked \/ CheckLockFiles \/ ListStats
    \/ \E k \in todo : CheckStatsSkips(k) \/ CheckStats(k) \/ CheckStatsTorn(k) \/ CheckStatsThrows(k)
    \/ CleanStats

MonitorNext == Check \/ GetLockPidsFails \/ CheckLockFilesFails \/ ListStatsFails \/ PrintThrows

UcommdInit == StatsInit /\ MonitorInit
UcommdNext ==
    \/ StatsNext /\ UNCHANGED monitorvars
    \/ MonitorNext
UcommdSpec == UcommdInit /\ [][UcommdNext]_allvars

\* The monitor's timer goes on ticking.
UcommdFairSpec == UcommdSpec /\ WF_allvars(Check)

----------------------------------------------------------------------------
(***************************************************************************)
(* Processes that come and go in the middle of a check can stop the        *)
(* monitor in one way only: it read a header that was just being written   *)
(* or cleared, or that a crash left so.  Files that appear, are still      *)
(* empty or vanish between two of its steps do not.                        *)
(***************************************************************************)
OnlyTornHeadersKill == mpc = "aborted" => torn

(***************************************************************************)
(* As long as one of the processes the user asked for has its lock, the    *)
(* monitor shows no other process.                                         *)
(***************************************************************************)
OnlyAsked == optPids # {} => \A k \in Keys : Recorded(k) => k[1] \in setup.asked

(***************************************************************************)
(* A process that has its statistics and its lock, and keeps them, is      *)
(* found with all its regions, however its start raced the monitor's       *)
(* checks, whatever crashed processes of its pid left behind (unless the   *)
(* user asked for others).                                                 *)
(***************************************************************************)
LiveFound ==
    \A p \in Pids :
        spc[p] = "ready" /\ p \in flocks ~>
            \/ spc[p] # "ready" \/ mpc \in {"absent", "aborted"}
            \/ optPids # {} /\ p \notin optPids
            \/ \A k \in Keys : k[1] = p /\ k[2] = inc[p] /\ shm[k] # "none" => Recorded(k)

\* Pids with a record of a process that is gone.
Ghosts == {k[1] : k \in {k \in Keys : Recorded(k) /\ (spc[k[1]] = "off" \/ inc[k[1]] # k[2])}}

(***************************************************************************)
(* The records of a process that exited or crashed are dropped, though the *)
(* crash leaves its files, unless another process gets its pid.  While a   *)
(* process the user asked for lives, the files that are left keep a record *)
(* (check_ucommd_pids returns before it drops any).                        *)
(***************************************************************************)
DeadForgotten ==
    \A p \in Pids :
        p \in Ghosts ~>
            \/ p \notin Ghosts \/ spc[p] # "off" \/ mpc = "aborted"
            \/ optPids # {} /\ \E k \in Keys : k[1] = p /\ Recorded(k) /\ shm[k] # "none"

----------------------------------------------------------------------------
(* The inductive invariant behind the first two. *)

Records == [key : Keys, desc : BOOLEAN, counters : BOOLEAN]

\* What every record satisfies, whenever it was made.
Good ==
    {r \in Records : /\ r.desc \/ torn
                     /\ optPids # {} => r.key[1] \in setup.asked}

\* Processes that nobody asked for do not get into the scan.
ScanAsked ==
    /\ optPids \subseteq setup.asked
    /\ optPids # {} => ucommdPids \subseteq setup.asked /\ \A k \in todo : k[1] \in setup.asked

MonitorInv ==
    /\ torn \in BOOLEAN /\ todo \subseteq Keys
    /\ records \in [Names -> Seq(Good)]
    /\ ScanAsked
    /\ mpc = "aborted" => torn

UcommdInv == StatsInv /\ MonitorInv
=============================================================================
