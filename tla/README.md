# TLA+ verification of nccl-exts

nccl-exts is a set of NCCL plugins: **unet**, a network plugin for InfiniBand and
RoCE (`src/unet`), **utuner**, a tuner plugin (`src/utuner`), the **ucommd**
statistics that unet feeds and a **monitor** tool that reads them
(`src/ucommd`, `tools/monitor`).  This directory models the parts that carry
protocol logic, checks them with TLC on small instances and proves most of their
safety properties with TLAPS for all instances (section 4).
Paths below are relative to the root of the repository; `PROJECT.json` maps every
definition to the lines it models.

## 1. Inventory

| Component | State | Operations | What is hard | What must hold |
|---|---|---|---|---|
| Data path (`unet_ib.cc` 1566–2161) | request pool, CTS FIFO in the sender's memory, sizes FIFO in the receiver's, `qpIndex`, `devIndex`, event counters | Irecv (+PostFifo), Isend (+MultiSend), Iflush, Test | two processes and a fabric without acknowledgements; completions in any order on several CQs; slots and requests reused | tagged ordered channel, no lost CTS, exact event counts, no queue overflow, everything completes |
| Device resources (1006–1042, 1589–1715) | `pd`, `pdRefs`, MR cache per device, each under the device's lock | InitCommDevBase, DestroyBase, RegMr, DeregMr | operations of several communicators interleave between devices; calls fail half-way, on the way in and out | counts exact, nothing freed while in use |
| Connection (1115–1564) | `stage->state`, `stage->offset`, QPs, metadata | Connect, Accept, called again and again | partial transfers, failing steps, dying peer, strays, silent ones too | streams in step, returned communicators usable, both connect |
| Bootstrap socket (`socket.cc`) | socket state, retry counters, byte streams | connect, accept, progress | retries, wrong magic, closed connections | strays dropped, death noticed |
| Async events (108–192, 2072–2155) | fatal error counters, event in hand | async thread; checks in Irecv and Test | thread writes into communicators others close | no use after free, errors reported |
| Discovery (461–677) | `ncclIbDevs`, `ncclIbMergedDevs`, `ncclNIbDevs` | Init, Devices | double-checked lock, second pass without merging, a full table | one discovery, merged devices partition the ports |
| utuner (`plugin.c`) | statics of API v1, contexts of v2/v3, tables | init, getCollInfo, destroy | statics shared by communicators without a lock, boundaries | answers come from the asker's table |
| GID selection (191–395) | index found so far | search of the GID table | an entry taken early must give way to a better one; prefixes that end inside a word; versions that cannot be read | the first entry with all the user asked for |
| Virtual topology (`gen_vtopo.cc`) | devices per up-port, the generated file, an environment variable | constructor, gen, destructor | threads racing for one generation; devices skipped or sharing ports; writes nobody checks | only finished files are announced; every device under exactly one switch, its own |
| ucommd statistics (`stats.cc`, `unet_perf.cc`) | shared memory regions, lock file, counters | get statistics, destroy at exit | any system call fails; crashes; readers in other processes | exits leave nothing behind |
| monitor (`monitor.cc`) | pids with locks, records of mapped regions | check (locks, pids, scan, clean), print | it reads regions others create, clear and unlink; pids are reused | the living found, the dead forgotten, the monitor survives |

Interactions: NCCL's proxy threads call unet; the sender and the receiver of a
connection talk over the bootstrap socket first and then only through RDMA writes
(CTS from receiver to sender, data and sizes from sender to receiver); all
communicators of a process share devices (protection domain, MR cache) and the
async thread per port; unet counts into the ucommd statistics, which the monitor
maps read-only.

Not modelled because there is no protocol state to check: the verbs wrapper, the
plugin tables, utilities, logging and parameters, build files, network interface
lookup and address parsing.  `PROJECT.json` lists all components and the hazards
found in the code, each with the properties that cover it.

## 2. Modules

| Module | Role |
|---|---|
| `CtsFifo` | abstract CTS flow control: ring of slots, elements placed in any order, only the first element cleared |
| `CtsFifo_proofs` | its theorems |
| `Striping` | QPs, devices and chunks of a transfer; pure operators |
| `TaggedChannel` | what a connection promises its caller |
| `IbTransfer` | the whole data path; implements `TaggedChannel` and `CtsFifo` |
| `IbTransferInv`, `IbTransfer_proofs` | its inductive invariants; the theorems about it and about `Striping` |
| `IbDevice` | protection domains and the MR cache |
| `Socket`, `IbConnect` | bootstrap socket; connection establishment on top of it (`IbConnect` EXTENDS `Socket`) |
| `IbAsync` | async events and fatal errors |
| `IbInit` | device discovery |
| `Gid` | choice of the GID index |
| `VTopo` | virtual topology |
| `Tuner` | utuner |
| `Stats` | the statistics of processes that start, fail, exit and crash |
| `Monitor` | the monitor, composed with those processes (`Monitor` EXTENDS `Stats`) |
| `IbDevice_proofs`, `IbConnect_proofs`, `IbAsync_proofs`, `Tuner_proofs` | theorems about the module of that name |
| `Startup_proofs` | theorems about `IbInit`, `Gid` and `VTopo` |
| `Monitor_proofs` | theorems about `Stats` and `Monitor` together |
| `MC*` | instances for TLC |

### How the models correspond to the code

**IbTransfer.**  One connection, the two ends on their own threads.  `rreqs`,
`sreqs` are the request pools (`type`, `events`, `nreqs`; `arg` is the union's
send size or sizes slot), `fifo` the sender's `ncclIbSendFifo` array, `fifoReqs`,
`sizesFifo`, `fifoHead`, `fifoTail`, `devIndex` and the two `qpIndex` are the
fields of those names.  `Irecv` is `ncclIbIrecv` with `ncclIbPostFifo`; `Isend`
is `ncclIbIsend` up to and including `ncclIbMultiSend`, `IsendReturn` the memset and
`fifoHead++` that follow it (a separate step because the data is on the wire in
between and the receiver can act on it); `RecvTestPoll`/`SendTestPoll` take one
completion in `ncclIbTest`, `…Done` is its return of a finished request.  The
fabric is external: `LandCts` places one element of a CTS write (elements of one
write in any order), `Deliver` the oldest message of a QP (RC: in order per QP,
no order between QPs).  A work request still executing is an unpolled completion.
`ops` is history only.  Addresses and keys are abstracted to "buffer r of receive
k"; payload to the set of byte offsets.  The caller's contract – NCCL keeps at
most `NCCL_NET_MAX_REQUESTS` receives open per connection and polls what it
starts – is the guard `RecvWindowOpen`/`SendWindowOpen`, external.

**IbDevice.**  One action per device visited under its lock, so operations of
different communicators interleave between devices as they do in the loops of the
code.  `pd` remembers "stale" after deallocation, as the pointer does.  The lost
references of failing paths are recorded in `pdLeaks`/`mrLeaks`, the regions whose
deregistration failed in `orphans`, so that the invariants can state exact counts; the
leaks are the code's behaviour, not a modelling device.  The failures are those of
`alloc_pd`, `create_cq`, `destroy_cq`, `dealloc_pd`, `reg_mr`, `dereg_mr` and of
`ncclRealloc`, each with what the early return leaves: a reference without a domain, a
domain without a reference, a region the cache no longer lists, a capacity without
memory.  `room` is the memory there really is for entries; an insertion outside it
(`RegOverrun`) makes the process undefined, and nothing is said of it after that.

**Socket / IbConnect.**  An action is what a call does between two points where
it has to wait.  A stream is a sequence of units of the items sent (magic, type,
metadata, ready word) and holds `SockBuf` units, so every transfer may be cut at
any unit.  A stray sends a wrong magic number, hangs up, or says nothing (or part of the
magic number) for as long as it likes (`StraySpeaks` ends that, without fairness).  Both
processes may die at any point before they return.  Metadata is abstracted to MTU and
ECE, the fields whose handling differs between the sides.  The uninitialised reply (line 1417) is a
nondeterministic choice.

**IbAsync.**  `GetEvent`, `HandleEvent`, `AckEvent` are the loop of
`ncclIbAsyncThreadMain`; `DestroyQp` waits for acknowledgement as
`ibv_destroy_qp` does (external).  One device, one QP and one request per
communicator: the counters are per communicator and per device, so more QPs
would add no outcome.

**IbInit.**  `Enter` is the test without the lock, `Lock` the one under it,
`Probe` one port; `key` stands for PCI path, GUID and link layer, `dev` for the
verbs device the port belongs to.  `ListEnds` has the code's two loops: the one over
the devices tests `MAX_IB_DEVS`, the one over a device's ports does not.

**Gid.**  `UpdateByFamily`, `UpdateSkips`, `UpdateByVersion` and `UpdateFails` are the
ways `ncclIbUpdateGidIndex` can end for one candidate.  Words have `W` bits, and
the masks are modelled as what they keep of a word; `GidFits` compares with a
definition that goes bit by bit.  A version file with other text leaves a variable
uninitialised: `RoceVersions` is then every value.

**VTopo.**  A node gives the up-port at which each GPU and NIC was found.
`Construct` is the static object's constructor, `GenOpen`/`GenWrite` are `gen()` under
`pthread_once`, cut where the file exists but is not complete.  The file may come out
truncated, since nobody checks a write, and it is announced only if the variable was not
in the environment (`envSet`: it was there, empty; `setenv` does not overwrite it).  A
device on the root complex (`onRoot`) makes the constructor throw.  The XML text and the
NUMA node are left out; `topo` is which devices stand under which switch.

**Stats.**  `OpenLock` … `AllocStat` are `UnetPerfMonitor::init`, one action per system
call or write that another process can see; `FreeStats` … `UnlinkLock` the
destructors at exit; `Crash` may come in any step, and `StartOther` gives the pid to
a process that has nothing to do with the plugin.  The content of a region is
abstracted to what a reader can tell apart (no file, empty, zero, partial, full,
live); the values of the counters are left out.  When `create_shm` failed, the
destructor's `memset` has a pointer and a size nobody set: it does nothing
(`WipeUnset`), crashes (`Crash`) or overwrites memory of the process, its other region
included (`WipeDamages`, `ExitDamaged`).

**Monitor.**  The actions are the steps of one check, in the code's order: read
`/proc/locks`, decide the pids and prune the records, list `/dev/shm`, look at one
file after the other, clean.  Each of the three may fail (`GetLockPidsFails`,
`CheckLockFilesFails`, `ListStatsFails`), and the check goes on as the code does.
Processes move between any two steps.  A header that
is being written or cleared yields any mixture of fields (`CheckStatsTorn`) or makes
`std::stoi` throw (`CheckStatsThrows`), which ends the monitor.

**Tuner.**  The tables are the code's; an answer stays until the caller takes it.
Each communicator asks in any order.  `pluginInit_v1` takes no lock, so its load of
`n++` and the rest are two actions and calls for two communicators may overlap between
them; `raced` remembers that they did.  The test of the arguments in version 3 reads the
first two costs of the table as a pointer (302), and so does `Invalid`.

## 3. Runs

| Run | Shows | Bounds, and why they suffice |
|---|---|---|
| `cts_fifo` | no CTS lost or overwritten; the inductive invariant | 3 slots, window 2, groups of 2, 6 receives: every slot is reused, both slots of the window open |
| `transfer_reuse` | implements `TaggedChannel` and `CtsFifo`; data complete; everything completes | 2 devices, ring of 2 slots, 3 receives (a slot is reused), groups, empty messages, flush |
| `transfer_window` | QP lock step, receiver ready, exact events, pool and queues suffice | 2 devices with 2 QPs each used in turn, two receives open, 17 receives: more than `2*MAX_REQUESTS` CTS writes per device; flushes; the first two receives may both be groups, which uses the sender's pool to the last request; from the sixth on the receives come one by one (`LongRun`) |
| `device` | exact reference counts, valid registrations; the inductive invariant | 2 communicators, 2 devices, 3 overlapping ranges, capacity from 1 so that the cache grows, 2 failing calls of seven kinds (leaked entries make caches of three), after the second of which the communicators call one at a time (`InTurn`) |
| `connect` | stages in step, strays dropped, both connect unless a silent stray is waited on, death noticed, returned communicators usable | 4 bad attempts against 3 retries, 2 strays of three kinds, items of 2 units, every step may fail, each process may die at any point |
| `connect_ece` | **violation**: uninitialised ECE flag in the reply | |
| `async` | no use after close; QP errors reported; the inductive invariant | 2 communicators, 2 requests each, failing connects, failing device |
| `async_freed` | **violation**: a failed connect frees memory its QPs point into | |
| `async_device` | **violation**: device error unreported without a completion | |
| `startup` | one discovery, exact merged devices, waiting threads see all, init always returns; the inductive invariant of discovery; the right GID; an exact topology, announced when finished; the tuner's answers from the asker's table, nearest choice, cost table, and its fall-back | four unrelated parts, each run while the others rest. Discovery: 3 threads, all nodes of up to 4 ports on 2 NICs, nodes of 5 to 7 ports on up to 6 NICs with a table of 5, failing at any port. GID: all tables of 1 and 3 of 12 kinds of entries, words of 2 bits, 6 ranges. Topology: 2 threads, all places of 4 NICs at 9 ports, of one GPU, one NIC too many, devices on the root complex, an empty variable. Tuner: all versions, all tables, all sizes where an answer can change; the second communicator agrees with the first in both numbers, one or none |
| `tuner_v1` | **violation**: two overlapping calls of `pluginInit_v1` leave one's table in use for both | |
| `ucommd` | exits leave nothing; the monitor finds, forgets and survives | five setups: two processes, of which the user asked for one, or for both; two processes of one pid after each other, with one failing call; one process with both regions and a failing call; and, without a monitor, with two failing calls |

Bounds: `MaxOps`, `MaxFailures`, `MaxBadConnects`, `MaxStrays`, `MaxRequests`
(IbAsync) cap otherwise unbounded counters.  Alignment is 2 instead of 128 so
that messages of 5 bytes give full, partial and empty chunks.

Deadlock is checked in all runs except those of `IbAsync`, `tuner_v1`, `startup` and
`ucommd`, where everyone may stop for good: all communicators are closed, or wait on
a device that owes nothing; all calls have returned; all processes have ended
(whether what must happen does is what the liveness properties say).  The
other MC modules allow stuttering only in the final state of the bounded run; in
`MCIbConnect` once one side has returned; and in `transfer_reuse` when
`ncclIbTest` polls in vain, so that a request nothing completes is caught by
`EverythingCompletes`.

Fairness.  `IbTransfer`: both callers keep polling and eventually send – NCCL's
proxy threads loop over their operations – and RC queue pairs deliver; no fairness
on posting receives.  `IbConnect`: NCCL calls connect and accept until they return
a communicator or an error; TCP delivers; strays owe nothing.  `IbAsync`: the async
thread is a thread of its own and callers poll; none on the device.  `IbInit`: a thread that can run
does.  `Monitor`: its timer goes on ticking, so a check that is due goes on; no
fairness on processes, which may stay in any step for ever.

## 4. What is proved

Every theorem holds for every value of the constants that satisfies the named
`ASSUME` of the module, so for any number of processes, threads, communicators,
devices, slots and failures.  An invariant of the form "what the user relies on" is
almost never inductive; each component therefore has an inductive invariant, the
proof has one lemma per action, and the properties follow from the invariant.

**CtsFifo** (`CtsFifo_proofs`; assumes `Window < MaxRequests`): `Invariance`, and from
it `TypeCorrect`, `CtsNeverLost`, `CtsNeverOverwritten`, `WindowRespected`.  That the
clear of slot `Slot(head+1)` hits no newer CTS needs to know that no receive
`head+1+MaxRequests` is posted, which follows from the window, which follows from
receives retiring only after their CTS is consumed.  `IndInv` puts these together: the
window, retirement after consumption, elements under way belong to unconsumed receives
and are not already placed, and what is placed sits in its own slot.  The arithmetic
core is that two receives less than `MaxRequests` apart have different slots.  The
assumption is the code's: the ring has `NCCL_NET_MAX_REQUESTS * NCCL_NET_IB_MAX_RECVS`
slots and the window is `NCCL_NET_MAX_REQUESTS`.

**Striping** (`IbTransfer_proofs`): `ChunksPartition` – for every size, alignment and
number of QPs each byte of a message is carried by exactly one QP of the transfer.

**IbTransfer** (`IbTransfer_proofs`; assumes `TransferAssumption`, and for the queues
`SlotAssumption`): `ImmCredited`, `NeverReceiverNotReady` and `CtsFifoImplemented` from
`RecvSound`, `Spec => []RecvInv`; `CountersExact`, `DataArrives`, `ChannelImplemented`,
`PoolsSuffice` and `QueuesNeverOverflow` from `SendSound`, which adds the sender's half
`SendInv` (`IbTransferInv`).

The receiver's half comes first because it needs nothing of the other.  Neither
invariant is inductive alone: a message carries no name, so that it meets its own
receive rests on everything that keeps both ends in step.
`InStep` says that each end starts receive k at QP `StartQp(k)`, a function of k alone;
`CtsRight` that an announcement describes the receive it names; `QpOk` that the work
requests of a QP are in the order of their receives, that those the sender has not come
to are still there, and that the i-th message under way meets the i-th work request;
`RecvReqOk`, `RecvCqeOk` and `RecvEventsOk` that a request lives until the last of its
work requests and completions is counted, so that none of them names a request that was
given to another receive; `StateOk` that a receive is done only after its data was
posted, and retired when the window passes it.  `IsendMatches` is the case that needs
most of it: one call of `ncclIbIsend` completes a group and posts on every QP of the
transfer.  `CtsFifoImplemented` maps each action to a step of `CtsFifo` or to a stutter;
the step `Retire` is where `StateOk` is needed, and with it the theorems about `CtsFifo`
hold of the data path.

`SendInv` says what the sender's memory and messages have to do with the receives:
`HeadOk` that only the slot at the head holds matched sends, `SentOk` that exactly the
receives the sender has passed are full and the one at the head is filled as far as
sends are matched, `MsgOk` that a message carries the chunks, sizes and requests of the
receive it meets, `SendReqOk`, `SendCqeOk` and `SendEventsOk` that a send request lives
until the last of its messages and completions is counted.  A message names requests
of a pool that is reused, so none of these is inductive without the exact counts.
`CountersExact` is then counting.  `DataArrives` adds `DataInv`: what has arrived of a
buffer is the union of the parts of the QPs that have delivered; when the request has no
event left those are all QPs of the transfer, and `ChunksPartition` says that their
parts are the whole message.  `ChannelImplemented` adds `ReportInv`: the slot of
`sizesFifo` holds the sizes that were sent as soon as one message of a group has
arrived, or the immediate data of a single receive has been polled; unfinished receives
have slots of their own (`SlotsApart`), so no neighbour overwrites them.  Each action is
a step of `TaggedChannel` or a stutter: `Irecv` posts, `Isend` fills (the group at the
head is the oldest open one), `RecvTestDone` reports.  `PoolsSuffice` adds `PoolInv`:
the active requests of the sender can be placed injectively at buffers that were sent
for, so in a window of receives there are fewer than `MaxRequests` of them as long as
the head has an open buffer; the receiver needs one request per receive of the window.

`QueuesNeverOverflow` adds `QueueInv`.  Work requests of a QP are of different requests,
and so are its completions of one kind (`CqesApart`), which bounds the receive queues
and both completion queues.  The sends under way are within the window of each other
(`SendsClose`); messages and unpolled completions of a QP are of different receives, so
of at most `Window` of them, each with the work requests of one group (the sum is the
library's `MapThenSumSet`, whose recursion `SumsDef` unfolds).  The CTS writes are the
interesting case, because most are unsignaled and a send queue entry is freed only when
a later signaled one is polled: devices take turns (`TurnsOk`), so among any
`MaxRequests` consecutive writes of a device there is one whose slot is the device's
number (`SignaledTurn`; this needs `SlotAssumption`, `NDevs <= MaxRequests`, and
`NCCL_IB_MAX_DEVS_PER_NIC` is 2); its completion is awaited until it is polled
(`CtsAwaited`), its receive is open for as long, and the window does not let the device
write `MaxRequests` more in the meantime.

**IbDevice** (`IbDevice_proofs`): `DomainsCounted`, `DomainsUsable`,
`RegistrationsValid`, `CacheCounted` from `DeviceInvariant`.  `DeviceInv` says of each
communicator how far it is in each of its loops and what it therefore holds on each
device (`CommOk`), of each device that `pdRefs` is the number of holders plus the
references lost by failing paths, that a counted domain is the same for all its holders
and not a deallocated one, and NULL only with a lost reference (`PdOk`), of the cache
that entries and registered regions correspond one to one, each counted by its holders
and lost references (`CacheOk`), except the regions a failed `dereg_mr` left, which have
no entry (`OrphansOk`), and that the entries are within the memory there is, which is
less than the capacity only after a failed growth (`RoomOk`).  The counts are
cardinalities of sets that an action changes by one element.

**IbConnect** (`IbConnect_proofs`): `StreamsNeverSlip` and `ReturnedUsable` from
`ConnectInvariant`.  `ConnectInv` relates the stage and the offset of each side with
the units in the streams: what one side has sent is what the other has taken plus what
is under way.  `UpInStep` needs existential counts because a side that failed or died
has sent an unknown part of an item.  `ReturnedUsable` speaks of the QPs of both sides
being in RTS and of the connecting side's MTU; the accepting side's is in section 5.

**IbAsync** (`IbAsync_proofs`): `CloseIsSafe` from `Invariance`: an event of a queue
pair that is queued or in the async thread's hand keeps the queue pair from being
destroyed, and so the communicator from being freed.  `OnlyFailedConnectsFree` shows
that failed connects are the only way to the finding of run `async_freed`: under
`~ConnectMayFail` the thread never writes into freed memory.

**IbInit** (`Startup_proofs`): `Merging`, `Waiters` and the action property `Once` from
`Discovery`.  `DiscoveryInv` says who holds the lock and what is known at each step,
that `ncclIbDevs` holds the usable ports among those looked at (with the exception at
the limit of the table), and that the merged devices partition it at every moment of
the discovery, not only when it is complete.

**Gid** (`Startup_proofs`; assumes `GidAssumption`): `GidChoice`, `GidSpec => []GidFits`,
for tables of any length and words of any width.  Two arguments meet.  About the data:
`matchGidAddrPrefix` compares whole words and then what the mask leaves of the next one,
`GidFits` compares bits; that both agree (`MatchIsSubnet`) comes down to `FirstBits`, two
words have the same quotient by a power of two exactly when they have the same leading
bits, an induction over the number of bits.  `Pow2` is a recursive function so that what
it computes can be proved (`PowDefined`, `Powers`).  About the search: `SearchInv` says
what the entries before `gidNext` have decided: the index is that of a fitting entry or
still 0, and the first wanted entry among them, unless entry 0 was kept unseen or a
version is unknown.

**VTopo** (`Startup_proofs`; assumes `VTopoAssumption`): `Topology`,
`VTopoSpec => []TopologyExact`, for any number of threads, GPUs and NICs.  The ports of an
accepted node are ranked; pairs have ranks 2k and 2k + 1 and so partition them
(`PairsPartition`).  There are as many NICs as pairs and each pair has one, so no NIC is
left over (`NicsUsed`): this is where the count check of the constructor is needed.  The
theorem says nothing of what is in a file that a failed write cut short, and it has the
file announced only where the variable was not there before.
`VTopoInv` adds what is known at each stage of the static object and of `pthread_once`.

**Stats and Monitor** (`Monitor_proofs`): `ExitsClean`, `MonitorStops`, `AskedOnly` from
`UcommdInvariant`, for the processes and the monitor interleaved.  `StatsInv` says for
each process which regions and lock file can exist in each of its steps.
`MonitorInv` says that every record belongs to a region the monitor was asked for and
that only a torn header ends it.  What `Kept` computes is a recursive function; that
its result holds only elements of its argument is proved by induction over a set
(`SetInduction`, from the least-number principle).

**Tuner** (`Tuner_proofs`): `FallsBackUnlessRaced` and `AnswersNearest` from
`TunerInvariant`, for any communicators, shapes, sizes and versions.  The invariant ties
each context of versions 2 and 3 to its own call, and the static variables of version 1
to the first communicator as long as no two calls of `pluginInit_v1` have overlapped
(`~raced`): so the race that run `tuner_v1` shows is the only way to a table that does
not fit.

`IndInv`, `DeviceInv`, `AsyncInv` and `DiscoveryInv` are invariants of runs too;
`ConnectInv`, `UcommdInv` and `TunerInv` hold on the instances of `connect`, `ucommd` and
`startup` as well, and `RecvInv`, `SendInv`, `DataInv`, `ReportInv`, `PoolInv` and
`QueueInv` on those of the two transfer runs (add them as INVARIANTs to those
configurations to repeat this).

Every safety property the passing runs check is the statement of a theorem.  Only
model-checked are the liveness properties, since fairness and `ENABLED` are out of the
prover's reach.  There are no `RECURSIVE` operators in the project.

## 5. Findings

Four runs are expected to end in a violation; `findings` in `PROJECT.json` quotes
the line each one contradicts: the uninitialised ECE flag, communicators freed
under their QPs, device errors not reported without a completion, and the statics of
tuner version 1 that overlapping calls leave with one communicator's table for all.

Seen while modelling, and visible in the models without a run of their own:

* `ncclIbAccept` configures its QPs with the peer's MTU (line 1468) before it
  adjusts the MTU (1514–1516): `AcceptPathMtu` is `cmeta.mtu`, whatever `RecvMtu`
  is.  `ReturnedCommUsable` therefore speaks of the connecting side's MTU only.
* `ncclIbInit` called while another thread discovers returns at once (484, 488),
  and `ncclIbDevices` answers what was found so far: `WaitersSeeAll` speaks only of
  threads that came before the discovery began.  After a failed discovery a later
  call succeeds with a partial table.
* A failed `ncclIbConnect`/`ncclIbAccept` does not close its socket, so the peer's
  calls wait until the process ends.
* `alloc_pd` failing leaves `pdRefs` at 1, so later communicators get the NULL domain
  (1010); a failing `dereg_mr` leaves a registered region without a cache entry (1691)
  and the references on the later devices (1711); a failing `ncclRealloc` leaves the
  capacity raised without memory, and the next insertion overruns the cache (1602).
* `ncclIbTest` adds the whole size of a send to the peer's bandwidth counter for
  every completion (2138), and there is one per QP the message was striped over, so
  with n QPs the throughput the monitor prints is n times too high.  (The counter
  influences nothing else and is left out of `IbTransfer`.)
* A device with several ports at the limit overruns `ncclIbDevs` (533):
  `MergedDevsExact` says by which ports.
* The subnet of GID entry 0 is never examined (359–370), so it may be kept although
  another entry is in the user's subnet (`KeptUnseen`); an entry without a readable
  version file fails the search.
* QPs that are older than the first `ncclIbListen` are never counted but uncounted,
  and the counter wraps below zero (1058, 2171); likewise completion queues and regions.
* A failed `StatsShm::init` makes the destructor clear memory through an unset pointer
  (`stats.cc` 157, `WipeUnset`, `WipeDamages`); after `EWOULDBLOCK` the closed lock descriptor is
  closed again at exit (`unet_perf.cc` 167).
* A region that is being created or destroyed, or that a crash left half written, ends
  the monitor with an uncaught exception (`monitor.cc` 214, 414):
  `OnlyTornHeadersKill` says that nothing else does.  A `--sample-interval` above ten
  seconds divides by zero (363).
* A stray that hangs up before it has sent a magic number fails the whole accept
  (`socket.cc` 431, `AcceptPeerGone`), and one that never finishes it is waited on for
  ever while the peer stays in the backlog (433, `HeldByStray`).
* An empty `NCCL_TOPO_FILE` lets the generation go on (`gen_vtopo.cc` 41) but keeps the
  file from being announced (318); errors of the writes are not looked at (269–317), so
  a truncated file is announced; a device on the root complex ends the process with an
  exception (159, 181).
* `NCCL_TOPO_FILE` is inherited by child processes, while the parent removes the file
  when it exits (`RemoveTopoFile`).
* The leftovers of a crashed process are shown as alive when any process that holds a
  lock gets its pid (`StartOther`).

## 6. Not modelled, and plan

Not modelled: the values of the ucommd counters; the monitor's bandwidth mode (rates
over wall-clock time) and the set-up of its timer; static destruction while other
threads still count, forked children that share the parent's regions, and the data
race on the static pointers of `ncclIbListen`, all of which are about memory below the
models' level; in discovery relaxed ordering, properties and PCI path parsing; in the
bootstrap socket the choice of an interface and address parsing; the verbs wrapper,
plugin tables, logging, utilities and build files, which keep no protocol state.

1. Done: data path, flow control, devices, connection, async events, discovery with
   its limits, GID selection, virtual topology, tuner, statistics and monitor; proofs
   of section 4.
2. Open in the models: ends of a connection with different numbers of devices
   (`unet_ib.cc` 1276), the bandwidth mode of the monitor.
