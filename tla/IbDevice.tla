------------------------------ MODULE IbDevice ------------------------------
(***************************************************************************)
(* What the communicators of a process share on the devices of a (merged)  *)
(* NIC: the reference-counted protection domain (ncclIbInitCommDevBase,    *)
(* ncclIbDestroyBase) and the cache of memory regions                      *)
(* (ncclIbRegMrDmaBuf, ncclIbDeregMr), each behind the lock of its device. *)
(*                                                                         *)
(* An operation of a communicator visits the devices one after the other   *)
(* and holds a device's lock only while it is on that device, so the       *)
(* operations of different communicators interleave between devices.       *)
(* The calls named in Failures may fail, and what the early return then    *)
(* leaves behind stays: references, regions, a capacity without memory.    *)
(***************************************************************************)
EXTENDS Integers, Sequences, SequencesExt, FiniteSets

CONSTANTS Comms,          \* communicators of the process
          NDevs,          \* devices of the merged NIC
          Ranges,         \* page ranges [addr, pages] that are registered
          Handles,        \* struct ibv_mr*: a freed one may be handed out again
          MinCapacity,    \* first capacity of the cache (32)
          Failures,       \* calls that may fail
          MaxFailures     \* bound: failed calls in a behaviour

ASSUME DeviceAssumption ==
    /\ NDevs \in Nat \ {0} /\ MinCapacity \in Nat \ {0}
    /\ IsFiniteSet(Comms)
    /\ Ranges \subseteq [addr : Nat, pages : Nat \ {0}]
    /\ Failures \subseteq {"alloc_pd", "create_cq", "destroy_cq", "dealloc_pd",
                           "realloc", "reg_mr", "dereg_mr"}
    /\ MaxFailures \in Nat

NoMr == "null"

ASSUME HandleAssumption == NoMr \notin Handles

VARIABLES comm,       \* what each communicator is doing and holds
          pd,         \* ibDev->pd: "null", "live" or, once deallocated, "stale"
          pdRefs,     \* ibDev->pdRefs
          slots,      \* mrCache.slots[0 .. population-1]
          capacity,   \* mrCache.capacity
          room,       \* entries the memory behind mrCache.slots really has
          mrs,        \* memory regions registered with the device, by handle
          pdLeaks,    \* history: references nobody will give back
          mrLeaks,    \* history: handles of regions nobody will give back
          orphans,    \* history: regions whose deregistration failed
          overrun,    \* devices on which an entry was written outside the memory
          failed      \* calls that have failed so far

vars == <<comm, pd, pdRefs, slots, capacity, room, mrs, pdLeaks, mrLeaks, orphans, overrun, failed>>

pdVars == <<pd, pdRefs, pdLeaks>>
cacheVars == <<slots, capacity, room, mrs, mrLeaks, orphans, overrun>>

Devs == 0 .. NDevs - 1

NoRange == [addr |-> 0, pages |-> 0]

(***************************************************************************)
(* A communicator: pc says what it is doing, dev the device it does it on, *)
(* pds the devs whose base it holds (with the pd it copied), range and     *)
(* regs the registration it holds or is building.                          *)
(***************************************************************************)
Closed == [pc |-> "closed", dev |-> 0, pds |-> [d \in Devs |-> "none"],
           range |-> NoRange, regs |-> [d \in Devs |-> NoMr]]

Init ==
    /\ comm = [c \in Comms |-> Closed]
    /\ pd = [d \in Devs |-> "null"] /\ pdRefs = [d \in Devs |-> 0]
    /\ slots = [d \in Devs |-> <<>>]
    /\ capacity = [d \in Devs |-> 0] /\ room = [d \in Devs |-> 0]
    /\ mrs = [d \in Devs |-> [h \in Handles |-> NoRange]]
    /\ pdLeaks = [d \in Devs |-> 0]
    /\ mrLeaks = [d \in Devs |-> [h \in Handles |-> 0]]
    /\ orphans = [d \in Devs |-> {}] /\ overrun = {}
    /\ failed = 0

\* Step on to the next device, or to pc when the last one is done.
Advance(c, pc) ==
    IF comm[c].dev + 1 = NDevs THEN [comm[c] EXCEPT !.pc = pc, !.dev = 0]
    ELSE [comm[c] EXCEPT !.dev = @ + 1]

\* A call of the verbs library or of the allocator returns an error.
Fails(call) == call \in Failures /\ failed < MaxFailures /\ failed' = failed + 1

----------------------------------------------------------------------------
(* Opening and closing: the protection domain. *)

\* ncclIbConnect / ncclIbAccept reach their IB setup.
Open(c) ==
    /\ comm[c].pc = "closed"
    /\ comm' = [comm EXCEPT ![c].pc = "opening"]
    /\ UNCHANGED <<pdVars, cacheVars, failed>>

\* Mutant of MustAllocPd: the domain is allocated when there never was one.
MutMustAllocPd(d) == pd[d] = "null"

MustAllocPd(d) == pdRefs[d] = 0

\* A connection attempt or a close fails: nobody will give back the references
\* that the communicator holds on these devices.
Abandon(c, held) ==
    /\ comm' = [comm EXCEPT ![c] = Closed]
    /\ pdLeaks' = [d \in Devs |-> IF d \in held THEN pdLeaks[d] + 1 ELSE pdLeaks[d]]

\* ncclIbInitCommDevBase on the next device.
InitCommDevBase(c) ==
    LET d == comm[c].dev
        newPd == IF MustAllocPd(d) THEN "live" ELSE pd[d]
    IN
    /\ comm[c].pc = "opening"
    /\ pdRefs' = [pdRefs EXCEPT ![d] = @ + 1]
    /\ pd' = [pd EXCEPT ![d] = newPd]
    /\ comm' = [comm EXCEPT ![c] = [Advance(c, "open") EXCEPT !.pds[d] = newPd]]
    /\ UNCHANGED <<pdLeaks, cacheVars, failed>>

\* alloc_pd fails after pdRefs was incremented and leaves NULL in pd.
AllocPdFails(c) ==
    LET d == comm[c].dev IN
    /\ Fails("alloc_pd")
    /\ comm[c].pc = "opening" /\ MustAllocPd(d)
    /\ pdRefs' = [pdRefs EXCEPT ![d] = @ + 1]
    /\ pd' = [pd EXCEPT ![d] = "null"]
    /\ Abandon(c, 0 .. d)
    /\ UNCHANGED cacheVars

\* The PD is there, creating the CQ fails.
CreateCqFails(c) ==
    LET d == comm[c].dev IN
    /\ Fails("create_cq")
    /\ comm[c].pc = "opening"
    /\ pdRefs' = [pdRefs EXCEPT ![d] = @ + 1]
    /\ pd' = [pd EXCEPT ![d] = IF MustAllocPd(d) THEN "live" ELSE @]
    /\ Abandon(c, 0 .. d)
    /\ UNCHANGED cacheVars

Close(c) ==
    /\ comm[c].pc = "open"
    /\ comm' = [comm EXCEPT ![c].pc = "closing"]
    /\ UNCHANGED <<pdVars, cacheVars, failed>>

\* Mutant of LastRef: the domain is freed when one reference is left.
MutLastRef(d) == pdRefs[d] - 1 <= 1

\* ncclIbDestroyBase on the next device: the last reference frees the PD.
LastRef(d) == pdRefs[d] - 1 = 0

DestroyBase(c) ==
    LET d == comm[c].dev IN
    /\ comm[c].pc = "closing"
    /\ pdRefs' = [pdRefs EXCEPT ![d] = @ - 1]
    /\ pd' = [pd EXCEPT ![d] = IF LastRef(d) THEN "stale" ELSE @]
    /\ comm' = [comm EXCEPT ![c] = [Advance(c, "closed") EXCEPT !.pds[d] = "none"]]
    /\ UNCHANGED <<pdLeaks, cacheVars, failed>>

\* destroy_cq fails: the close returns before it gives up its reference.
DestroyCqFails(c) ==
    /\ Fails("destroy_cq")
    /\ comm[c].pc = "closing"
    /\ Abandon(c, comm[c].dev .. NDevs - 1)
    /\ UNCHANGED <<pd, pdRefs, cacheVars>>

\* dealloc_pd fails: the reference is given up, the domain stays allocated.
DeallocPdFails(c) ==
    LET d == comm[c].dev IN
    /\ Fails("dealloc_pd")
    /\ comm[c].pc = "closing" /\ LastRef(d)
    /\ pdRefs' = [pdRefs EXCEPT ![d] = @ - 1]
    /\ Abandon(c, d + 1 .. NDevs - 1)
    /\ UNCHANGED <<pd, cacheVars>>

----------------------------------------------------------------------------
(* Registering and deregistering memory: the cache. *)

\* ncclIbRegMrDmaBuf is called on an open communicator.
RegMr(c, range) ==
    /\ comm[c].pc = "open"
    /\ comm' = [comm EXCEPT ![c] = [@ EXCEPT !.pc = "registering", !.range = range]]
    /\ UNCHANGED <<pdVars, cacheVars, failed>>

\* Mutant of Covers: the distance to the start of the region is forgotten.
MutCovers(entry, range) == range.addr >= entry.addr /\ range.pages <= entry.pages

\* The entry's region holds all pages of the range.
Covers(entry, range) ==
    range.addr >= entry.addr /\ (range.addr - entry.addr) + range.pages <= entry.pages

\* Where the scan stops: at the end, at the first entry that starts behind the
\* range, or at an entry that covers it.
ScanStop(d, range) ==
    CHOOSE i \in 1 .. Len(slots[d]) + 1 :
        LET Stops(j) == \/ j = Len(slots[d]) + 1
                        \/ range.addr < slots[d][j].addr
                        \/ Covers(slots[d][j], range)
        IN  Stops(i) /\ \A j \in 1 .. i - 1 : ~Stops(j)

Hit(d, range) ==
    LET i == ScanStop(d, range) IN
    i <= Len(slots[d]) /\ ~(range.addr < slots[d][i].addr)

\* Mutant of Grown: a full cache does not grow.
MutGrown(d) == IF capacity[d] < MinCapacity THEN MinCapacity ELSE capacity[d]

Grown(d) ==
    IF Len(slots[d]) < capacity[d] THEN capacity[d]
    ELSE IF capacity[d] < MinCapacity THEN MinCapacity ELSE 2 * capacity[d]

\* The memory there is for entries once ncclRealloc was called, if it was.
Room(d) == IF Len(slots[d]) < capacity[d] THEN room[d] ELSE Grown(d)

FreshHandle(d, h) == mrs[d][h] = NoRange

\* ncclIbRegMrDmaBufInternal finds the range in the cache.
RegHit(c) ==
    LET d == comm[c].dev
        i == ScanStop(d, comm[c].range)
    IN
    /\ comm[c].pc = "registering"
    /\ Hit(d, comm[c].range)
    /\ slots' = [slots EXCEPT ![d][i].refs = @ + 1]
    /\ comm' = [comm EXCEPT ![c] = [Advance(c, "holding") EXCEPT !.regs[d] = slots[d][i].mr]]
    /\ UNCHANGED <<pdVars, capacity, room, mrs, mrLeaks, orphans, overrun, failed>>

\* It registers the range and inserts it where the scan stopped.
RegMiss(c, h) ==
    LET d == comm[c].dev
        range == comm[c].range
    IN
    /\ comm[c].pc = "registering"
    /\ ~Hit(d, range) /\ FreshHandle(d, h)
    /\ Len(slots[d]) < Room(d)
    /\ capacity' = [capacity EXCEPT ![d] = Grown(d)] /\ room' = [room EXCEPT ![d] = Room(d)]
    /\ mrs' = [mrs EXCEPT ![d][h] = range]
    /\ slots' = [slots EXCEPT ![d] = InsertAt(@, ScanStop(d, range),
                    [addr |-> range.addr, pages |-> range.pages, refs |-> 1, mr |-> h])]
    /\ comm' = [comm EXCEPT ![c] = [Advance(c, "holding") EXCEPT !.regs[d] = h]]
    /\ UNCHANGED <<pdVars, mrLeaks, orphans, overrun, failed>>

\* The insertion writes behind the memory of the cache (or through NULL): from
\* here on the process is undefined.
RegOverrun(c) ==
    LET d == comm[c].dev IN
    /\ comm[c].pc = "registering"
    /\ ~Hit(d, comm[c].range) /\ Len(slots[d]) >= Room(d)
    /\ overrun' = overrun \cup {d}
    /\ UNCHANGED <<comm, pdVars, slots, capacity, room, mrs, mrLeaks, orphans, failed>>

\* The call fails and the caller goes on: nobody will give back the references
\* to regions that the communicator holds on these devices.
GiveUp(c, held) ==
    /\ comm' = [comm EXCEPT ![c] = [@ EXCEPT !.pc = "open", !.dev = 0, !.range = NoRange,
                                             !.regs = [e \in Devs |-> NoMr]]]
    /\ mrLeaks' = [e \in Devs |-> [h \in Handles |->
          IF e \in held /\ comm[c].regs[e] = h THEN mrLeaks[e][h] + 1 ELSE mrLeaks[e][h]]]

\* ncclRealloc fails after the capacity was raised; the wrapper is freed with the
\* references already taken on the earlier devices.
ReallocFails(c) ==
    LET d == comm[c].dev IN
    /\ Fails("realloc")
    /\ comm[c].pc = "registering"
    /\ ~Hit(d, comm[c].range) /\ Len(slots[d]) = capacity[d]
    /\ capacity' = [capacity EXCEPT ![d] = Grown(d)]
    /\ GiveUp(c, 0 .. d - 1)
    /\ UNCHANGED <<pdVars, slots, room, mrs, orphans, overrun>>

\* reg_mr fails; the cache may have grown.
RegFails(c) ==
    LET d == comm[c].dev IN
    /\ Fails("reg_mr")
    /\ comm[c].pc = "registering"
    /\ ~Hit(d, comm[c].range)
    /\ capacity' = [capacity EXCEPT ![d] = Grown(d)] /\ room' = [room EXCEPT ![d] = Room(d)]
    /\ GiveUp(c, 0 .. d - 1)
    /\ UNCHANGED <<pdVars, slots, mrs, orphans, overrun>>

Dereg(c) ==
    /\ comm[c].pc = "holding"
    /\ comm' = [comm EXCEPT ![c].pc = "deregistering"]
    /\ UNCHANGED <<pdVars, cacheVars, failed>>

\* Mutant of RemoveSlot: the last entry is dropped instead of moved.
MutRemoveSlot(s, i) == SubSeq(s, 1, Len(s) - 1)

\* memmove of the last entry over the one that is released.
RemoveSlot(s, i) == SubSeq([s EXCEPT ![i] = s[Len(s)]], 1, Len(s) - 1)

\* ncclIbDeregMrInternal finds the handle in slot i ...
Found(d, i, h) == slots[d][i].mr = h /\ \A j \in 1 .. i - 1 : slots[d][j].mr # h

\* ... and drops the entry with its last reference, the memory with the last entry.
DropEntry(d, i) ==
    /\ slots[d][i].refs = 1
    /\ slots' = [slots EXCEPT ![d] = RemoveSlot(@, i)]
    /\ capacity' = [capacity EXCEPT ![d] = IF Len(slots[d]) = 1 THEN 0 ELSE @]
    /\ room' = [room EXCEPT ![d] = IF Len(slots[d]) = 1 THEN 0 ELSE @]

\* ncclIbDeregMrInternal on the next device: the last reference unregisters.
DeregMr(c) ==
    LET d == comm[c].dev
        h == comm[c].regs[d]
        rest == [Advance(c, "open") EXCEPT !.regs[d] = NoMr]
    IN
    /\ comm[c].pc = "deregistering"
    /\ \E i \in 1 .. Len(slots[d]) :
          /\ Found(d, i, h)
          /\ \/ DropEntry(d, i) /\ mrs' = [mrs EXCEPT ![d][h] = NoRange]
             \/ /\ slots[d][i].refs # 1
                /\ slots' = [slots EXCEPT ![d][i].refs = @ - 1]
                /\ UNCHANGED <<capacity, room, mrs>>
    /\ comm' = [comm EXCEPT ![c] = IF rest.pc = "open" THEN [rest EXCEPT !.range = NoRange] ELSE rest]
    /\ UNCHANGED <<pdVars, mrLeaks, orphans, overrun, failed>>

\* dereg_mr fails: the entry is gone, the region stays registered, and
\* ncclIbDeregMr returns with the references on the later devices still held.
DeregFails(c) ==
    LET d == comm[c].dev
        h == comm[c].regs[d]
    IN
    /\ Fails("dereg_mr")
    /\ comm[c].pc = "deregistering"
    /\ \E i \in 1 .. Len(slots[d]) : Found(d, i, h) /\ DropEntry(d, i)
    /\ orphans' = [orphans EXCEPT ![d] = @ \cup {h}]
    /\ GiveUp(c, d + 1 .. NDevs - 1)
    /\ UNCHANGED <<pdVars, mrs, overrun>>

Step(c) ==
    \/ Open(c) \/ InitCommDevBase(c) \/ AllocPdFails(c) \/ CreateCqFails(c)
    \/ Close(c) \/ DestroyBase(c) \/ DestroyCqFails(c) \/ DeallocPdFails(c)
    \/ \E range \in Ranges : RegMr(c, range)
    \/ RegHit(c) \/ RegFails(c) \/ ReallocFails(c) \/ RegOverrun(c)
    \/ \E h \in Handles : RegMiss(c, h)
    \/ Dereg(c) \/ DeregMr(c) \/ DeregFails(c)

\* Nothing is said of a process after an overrun.
Undefined == overrun # {} /\ UNCHANGED vars

Next == (overrun = {} /\ \E c \in Comms : Step(c)) \/ Undefined

Spec == Init /\ [][Next]_vars

----------------------------------------------------------------------------
PageRange == [addr : Nat, pages : Nat]

Comm == [pc : {"closed", "opening", "open", "registering", "holding", "deregistering", "closing"},
         dev : Devs,
         pds : [Devs -> {"none", "null", "live", "stale"}],
         range : PageRange,
         regs : [Devs -> Handles \cup {NoMr}]]

Slot == [addr : Nat, pages : Nat \ {0}, refs : Nat \ {0}, mr : Handles]

\* Type correctness of the communicators and the devices' shared state.
TypeOK ==
    /\ comm \in [Comms -> Comm]
    /\ pd \in [Devs -> {"null", "live", "stale"}] /\ pdRefs \in [Devs -> Nat]
    /\ slots \in [Devs -> Seq(Slot)]
    /\ capacity \in [Devs -> Nat] /\ room \in [Devs -> Nat]
    /\ mrs \in [Devs -> [Handles -> PageRange]]
    /\ pdLeaks \in [Devs -> Nat] /\ mrLeaks \in [Devs -> [Handles -> Nat]]
    /\ orphans \in [Devs -> SUBSET Handles] /\ overrun \in SUBSET Devs
    /\ failed \in Nat

PagesOf(range) == range.addr .. range.addr + range.pages - 1
HoldsPd(c, d) == comm[c].pds[d] # "none"
RegionOf(entry) == [addr |-> entry.addr, pages |-> entry.pages]
PdHolders(d) == {c \in Comms : HoldsPd(c, d)}
MrHolders(d, h) == {c \in Comms : comm[c].regs[d] = h}

(***************************************************************************)
(* The reference count of a protection domain is the number of             *)
(* communicators that hold it plus the references lost by failed           *)
(* connection attempts and closes, and a communicator that holds a live    *)
(* domain never sees it deallocated under its feet by another one's close. *)
(***************************************************************************)
PdRefsExact ==
    \A d \in Devs :
        /\ pdRefs[d] = Cardinality(PdHolders(d)) + pdLeaks[d]
        /\ (\E c \in Comms : comm[c].pds[d] = "live") => pd[d] = "live"

(***************************************************************************)
(* Whatever failed before, the domain a communicator copied from a device  *)
(* is the one the device has now and not a deallocated one, also when it   *)
(* was freed and allocated again; it is NULL only if a failed attempt to   *)
(* allocate one left its reference behind.  No region outlives its domain  *)
(* (or the last close could not free it), except one that a failed         *)
(* registration or deregistration has lost.                                *)
(***************************************************************************)
PdUsable ==
    \A d \in Devs :
        /\ \A c \in Comms : HoldsPd(c, d) =>
              /\ comm[c].pds[d] = pd[d] /\ pd[d] # "stale"
              /\ pd[d] = "null" => pdLeaks[d] > 0
        /\ \A h \in Handles :
              mrs[d][h] # NoRange /\ mrLeaks[d][h] = 0 /\ h \notin orphans[d] => pd[d] # "stale"

(***************************************************************************)
(* A registration that a caller holds stays valid: on every device its     *)
(* handle is a registered region that contains all pages of the range,     *)
(* whatever others register, share and release meanwhile.                  *)
(***************************************************************************)
RegistrationValid ==
    \A c \in Comms, d \in Devs :
        LET h == comm[c].regs[d] IN
        h # NoMr => PagesOf(comm[c].range) \subseteq PagesOf(mrs[d][h])

(***************************************************************************)
(* The cache lists every registered region exactly once, except the ones   *)
(* whose deregistration failed, which it does not list, and the reference  *)
(* count of an entry is the number of holders plus the references lost by  *)
(* failed calls.  So a region is unregistered by its last holder and not   *)
(* before.  The entries are in the memory of the cache, and one is written *)
(* outside it only when growing it failed and left the capacity raised.    *)
(***************************************************************************)
CacheExact ==
    \A d \in Devs :
        /\ Len(slots[d]) <= room[d]
        /\ d \in overrun => room[d] < capacity[d]
        /\ \A h \in Handles :
              LET entries == {i \in DOMAIN slots[d] : slots[d][i].mr = h} IN
              IF mrs[d][h] = NoRange \/ h \in orphans[d] THEN entries = {}
              ELSE \E i \in DOMAIN slots[d] :
                     /\ entries = {i}
                     /\ mrs[d][h] = RegionOf(slots[d][i])
                     /\ slots[d][i].refs =
                           Cardinality(MrHolders(d, h)) + mrLeaks[d][h]

----------------------------------------------------------------------------
Registering == {"registering", "holding", "deregistering"}

\* What a communicator holds where it is in its loop over the devices.
PdDue(c, d) ==
    \/ comm[c].pc \in {"open"} \cup Registering
    \/ comm[c].pc = "opening" /\ d < comm[c].dev
    \/ comm[c].pc = "closing" /\ d >= comm[c].dev
MrDue(c, d) ==
    \/ comm[c].pc = "holding"
    \/ comm[c].pc = "registering" /\ d < comm[c].dev
    \/ comm[c].pc = "deregistering" /\ d >= comm[c].dev

CommOk(c) ==
    /\ comm[c].pc \in {"closed", "open", "holding"} => comm[c].dev = 0
    /\ comm[c].pc \in Registering => comm[c].range \in Ranges
    /\ \A d \in Devs :
          /\ HoldsPd(c, d) <=> PdDue(c, d)
          /\ comm[c].regs[d] # NoMr <=> MrDue(c, d)

\* A domain is the same from the first reference to the last one.
PdOk(d) ==
    /\ pdRefs[d] = Cardinality(PdHolders(d)) + pdLeaks[d]
    /\ \A c \in Comms : HoldsPd(c, d) => comm[c].pds[d] = pd[d]
    /\ pdRefs[d] > 0 => pd[d] # "stale" /\ (pd[d] = "null" => pdLeaks[d] > 0)

\* Entries, regions, their references and their holders.
EntryOk(d, i) ==
    LET e == slots[d][i] IN
    /\ mrs[d][e.mr] = RegionOf(e)
    /\ e.refs = Cardinality(MrHolders(d, e.mr)) + mrLeaks[d][e.mr]
HandleOk(d, h) ==
    \/ \E i \in 1 .. Len(slots[d]) : slots[d][i].mr = h
    \/ (mrs[d][h] = NoRange \/ h \in orphans[d]) /\ mrLeaks[d][h] = 0 /\ MrHolders(d, h) = {}
CacheOk(d) ==
    /\ Len(slots[d]) <= capacity[d]
    /\ \A i, j \in 1 .. Len(slots[d]) : slots[d][i].mr = slots[d][j].mr => i = j
    /\ \A i \in 1 .. Len(slots[d]) : EntryOk(d, i)
    /\ \A h \in Handles : HandleOk(d, h)

\* The regions the cache has lost, and the memory of the cache.
OrphansOk(d) ==
    \A h \in orphans[d] : mrs[d][h] # NoRange /\ \A i \in 1 .. Len(slots[d]) : slots[d][i].mr # h
RoomOk(d) ==
    /\ Len(slots[d]) <= room[d] /\ room[d] <= capacity[d]
    /\ d \in overrun => room[d] < capacity[d]

(***************************************************************************)
(* What the properties rest on: what every communicator holds on every     *)
(* device where it is in its loop, the counts of the domains and the       *)
(* regions, and the memory of the caches agree.                            *)
(***************************************************************************)
DeviceInv ==
    /\ TypeOK
    /\ \A c \in Comms : CommOk(c)
    /\ \A d \in Devs : PdOk(d) /\ CacheOk(d)
    /\ \A d \in Devs : OrphansOk(d) /\ RoomOk(d)
    /\ RegistrationValid
=============================================================================
