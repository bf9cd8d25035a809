------------------------------- MODULE VTopo -------------------------------
(***************************************************************************)
(* The virtual topology (gen_vtopo.cc): on one server model, whose GPUs    *)
(* and NICs hang under pairs of up-ports, the process writes a topology    *)
(* file in which the two GPUs and the NIC of a pair share a switch, and    *)
(* names it in NCCL_TOPO_FILE.  Every thread that initialises a plugin     *)
(* calls tryGenVTopo (plugin.cc).                                          *)
(*                                                                         *)
(* A node gives the up-port of every GPU and NIC found under /sys (NoPort: *)
(* the device is skipped because its path does not resolve or is on no     *)
(* known root); ports are numbered in the order of their bus ids.  The     *)
(* order of devices at a port is GPUs first.  A device right on the root   *)
(* complex has a path too short to hold an up-port.                        *)
(***************************************************************************)
EXTENDS Integers, FiniteSets

CONSTANTS VThreads,          \* threads that call tryGenVTopo
          VNodes,            \* nodes: gpus, nics, onRoot, switches, enabled,
                             \* envSet (NCCL_TOPO_FILE is there, with no name in it)
          NumGpus, NumNics   \* the model's numbers, 8 and 4

ASSUME VTopoAssumption ==
    /\ IsFiniteSet(VThreads) /\ VThreads # {}
    /\ NumGpus \in Nat \ {0} /\ NumNics \in Nat /\ NumGpus = 2 * NumNics
    /\ \A node \in VNodes :
          /\ \A place \in {node.gpus, node.nics} :
                IsFiniteSet(DOMAIN place) /\ \A d \in DOMAIN place : place[d] \in Nat
          /\ node.enabled \in BOOLEAN /\ node.envSet \in BOOLEAN

VARIABLES vnode,      \* the node
          uppDevs,    \* upp_devs_: devices found at each up-port; no ports: nothing to do
          once,       \* how far the static object and pthread_once are
          vpc,        \* where a thread is
          topo,       \* the topology in the file: switch port -> devices
          topoFile,   \* the file: "none", "partial", "complete", "truncated"
          topoEnv     \* the plugin has set NCCL_TOPO_FILE

vtopovars == <<vnode, uppDevs, once, vpc, topo, topoFile, topoEnv>>

NoPort == 0
NoDevs == [p \in {} |-> {}]

VTopoInit ==
    /\ vnode \in VNodes
    /\ uppDevs = NoDevs /\ topo = NoDevs
    /\ once = "fresh" /\ vpc = [t \in VThreads |-> "start"]
    /\ topoFile = "none" /\ topoEnv = FALSE

----------------------------------------------------------------------------
PortsOf(place) == {place[d] : d \in DOMAIN place} \ {NoPort}

\* What the constructor collects: <<"gpu", g>> and <<"nic", n>> at each port.
Collected ==
    [p \in PortsOf(vnode.gpus) \cup PortsOf(vnode.nics) |->
        {<<"gpu", g>> : g \in {g \in DOMAIN vnode.gpus : vnode.gpus[g] = p}}
        \cup {<<"nic", n>> : n \in {n \in DOMAIN vnode.nics : vnode.nics[n] = p}}]

\* The ports are taken in pairs, in their order.
PortPairs(ports) ==
    {pair \in ports \X ports :
        /\ pair[1] < pair[2]
        /\ Cardinality({r \in ports : r < pair[1]}) % 2 = 0
        /\ \A r \in ports : ~(pair[1] < r /\ r < pair[2])}

TwoDevs(devs, p) == Cardinality(devs[p]) = 2

\* Mutant of CountsFit: the number of NICs is not tested.
MutCountsFit == Cardinality(DOMAIN vnode.gpus) = NumGpus

CountsFit ==
    /\ Cardinality(DOMAIN vnode.gpus) = NumGpus
    /\ Cardinality(DOMAIN vnode.nics) = NumNics

\* The tests of the constructor, from the environment to the port pairs.
Accepted ==
    /\ vnode.enabled
    /\ CountsFit
    /\ Cardinality(PortsOf(vnode.gpus)) = NumGpus
    /\ Cardinality(DOMAIN Collected) = NumGpus
    /\ DOMAIN Collected \subseteq vnode.switches
    /\ \A pair \in PortPairs(DOMAIN Collected) :
          TwoDevs(Collected, pair[1]) \/ TwoDevs(Collected, pair[2])

\* substr throws out_of_range on the path of a device on the root complex: GPUs
\* are looked at first, NICs if every GPU has a port of its own.
Throws ==
    /\ vnode.enabled
    /\ CountsFit
    /\ \E d \in vnode.onRoot : d[1] = "gpu" \/ Cardinality(PortsOf(vnode.gpus)) = NumGpus

\* Nobody catches it: the process ends without a destructor.
ConstructThrows(t) ==
    /\ vpc[t] = "start" /\ once = "fresh"
    /\ Throws
    /\ once' = "aborted"
    /\ UNCHANGED <<vnode, uppDevs, vpc, topo, topoFile, topoEnv>>

\* static GenVTopo vtopo_: the first thread constructs it, the others wait.
Construct(t) ==
    /\ vpc[t] = "start" /\ once = "fresh"
    /\ ~Throws
    /\ uppDevs' = IF Accepted THEN Collected ELSE NoDevs
    /\ once' = "constructed"
    /\ UNCHANGED <<vnode, vpc, topo, topoFile, topoEnv>>

\* The port of a pair with two devices becomes their switch, and the first
\* device (a GPU) of the other port joins them.
SwitchOf(pair) == IF TwoDevs(uppDevs, pair[1]) THEN pair[1] ELSE pair[2]
OtherOf(pair) == IF TwoDevs(uppDevs, pair[1]) THEN pair[2] ELSE pair[1]
FirstAt(p) == CHOOSE d \in uppDevs[p] : d[1] = "gpu"

GenTopo ==
    LET pairs == PortPairs(DOMAIN uppDevs)
    IN  [p \in {SwitchOf(pair) : pair \in pairs} |->
            LET pair == CHOOSE pair \in pairs : SwitchOf(pair) = p
            IN  uppDevs[p] \cup {FirstAt(OtherOf(pair))}]

\* pthread_once: gen() by one thread; mkdir and fopen may fail.
GenNothing(t) ==
    /\ vpc[t] = "start" /\ once = "constructed"
    /\ once' = "done"
    /\ vpc' = [vpc EXCEPT ![t] = "done"]
    /\ UNCHANGED <<vnode, uppDevs, topo, topoFile, topoEnv>>

GenOpen(t) ==
    /\ vpc[t] = "start" /\ once = "constructed"
    /\ uppDevs # NoDevs
    /\ topo' = GenTopo
    /\ topoFile' = "partial"
    /\ once' = "running"
    /\ vpc' = [vpc EXCEPT ![t] = "write"]
    /\ UNCHANGED <<vnode, uppDevs, topoEnv>>

\* Written and closed, which nobody checks, and only then announced, unless the
\* variable is there already (setenv does not overwrite it).
GenWrite(t) ==
    /\ vpc[t] = "write"
    /\ topoFile' \in {"complete", "truncated"} /\ topoEnv' = ~vnode.envSet
    /\ once' = "done"
    /\ vpc' = [vpc EXCEPT ![t] = "done"]
    /\ UNCHANGED <<vnode, uppDevs, topo>>

\* pthread_once returns to the others when the first call is over.
GenAlready(t) ==
    /\ vpc[t] = "start" /\ once = "done"
    /\ vpc' = [vpc EXCEPT ![t] = "done"]
    /\ UNCHANGED <<vnode, uppDevs, once, topo, topoFile, topoEnv>>

\* The destructor, when the process exits.
RemoveTopoFile ==
    /\ \A t \in VThreads : vpc[t] = "done"
    /\ once # "exited"
    /\ once' = "exited"
    /\ topoFile' = "none"
    /\ UNCHANGED <<vnode, uppDevs, vpc, topo, topoEnv>>

VTopoNext ==
    \/ \E t \in VThreads :
          \/ Construct(t) \/ ConstructThrows(t)
          \/ GenNothing(t) \/ GenOpen(t) \/ GenWrite(t) \/ GenAlready(t)
    \/ RemoveTopoFile

VTopoSpec == VTopoInit /\ [][VTopoNext]_vtopovars

----------------------------------------------------------------------------
PortOf(d) == IF d[1] = "gpu" THEN vnode.gpus[d[2]] ELSE vnode.nics[d[2]]
Returned == \E t \in VThreads : vpc[t] = "done" /\ once # "exited"

(***************************************************************************)
(* A thread that comes back from tryGenVTopo while the process runs finds  *)
(* no file that is still being written, and NCCL_TOPO_FILE set by the      *)
(* plugin just when there is a file and the variable was not there before  *)
(* (one that was there, empty, leaves the file unannounced).  A file that  *)
(* no failed write cut short has every GPU and every NIC of the node under *)
(* exactly one switch, two GPUs and one NIC under each, all of them from   *)
(* the switch's own pair of ports: no device that was skipped, shares a    *)
(* port or is one too many is lost silently.                               *)
(***************************************************************************)
TopologyExact ==
    Returned =>
        /\ topoFile # "partial"
        /\ topoEnv <=> topoFile # "none" /\ ~vnode.envSet
        /\ topoFile = "complete" =>
              LET Kind(kind, p) == {d \in topo[p] : d[1] = kind}
              IN  /\ UNION {topo[p] : p \in DOMAIN topo}
                        = ({"gpu"} \X DOMAIN vnode.gpus) \cup ({"nic"} \X DOMAIN vnode.nics)
                  /\ \A p, q \in DOMAIN topo : p # q => topo[p] \cap topo[q] = {}
                  /\ \A p \in DOMAIN topo :
                        /\ Cardinality(Kind("gpu", p)) = 2 /\ Cardinality(Kind("nic", p)) = 1
                        /\ \E pair \in PortPairs(PortsOf(vnode.gpus)) :
                              \A d \in topo[p] : PortOf(d) \in {pair[1], pair[2]}
=============================================================================
