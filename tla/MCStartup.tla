----------------------------- MODULE MCStartup -----------------------------
(* Instances for TLC of what the plugins decide before any data moves:     *)
(* IbInit, Gid and VTopo when a process starts, Tuner for its              *)
(* communicators.  They share no state, so a behaviour runs one of them    *)
(* while the others rest.                                                  *)
EXTENDS IbInit, Gid, VTopo, MCTuner

CONSTANTS t1, t2, t3

----------------------------------------------------------------------------
Port(dev, key, usable) == [dev |-> dev, key |-> key, speed |-> key, usable |-> usable]

\* Ports with these NICs, as devices of their own or as ports of one device
\* while the NIC stays the same.
Separate(nics) == [i \in DOMAIN nics |-> Port(i, nics[i], TRUE)]
Grouped(nics) ==
    [i \in DOMAIN nics |->
        Port(Cardinality({j \in 2 .. i : nics[j] # nics[j - 1]}), nics[i], TRUE)]

\* All nodes of up to four ports of at most two NICs, some unusable.
SmallNodes ==
    UNION {{[i \in 1 .. k |-> Port(i, kinds[i][1], kinds[i][2])]
                : kinds \in [1 .. k -> {<<1, TRUE>>, <<2, TRUE>>, <<2, FALSE>>}]} : k \in 0 .. 4}

\* Three NICs with two ports each, a mix of single- and multi-port NICs, and
\* nodes with one or two ports more than the table has room for.
LargeNodes ==
    LET nics == {<<1, 1, 2, 2, 3, 3>>, <<1, 1, 2, 2, 3>>, <<2, 3, 1, 2, 3, 1>>,
                 <<1, 2, 3, 4, 5, 5>>, <<1, 1, 2, 2, 3, 3, 3>>, <<1, 2, 3, 4, 5, 6>>}
    IN  {Separate(s) : s \in nics} \cup {Grouped(s) : s \in nics}

Nodes == SmallNodes \cup LargeNodes

InitRests ==
    /\ ports = <<>> /\ nIbDevs = 0 /\ devs = <<>> /\ merged = <<>>
    /\ lock = Nobody /\ next = 1 /\ mergeNics = FALSE
    /\ pc = [t \in Threads |-> "done"] /\ ret = [t \in Threads |-> "error"]
    /\ seen = [t \in Threads |-> NotAsked]
    /\ waited = {} /\ complete = FALSE

----------------------------------------------------------------------------
Entry(a, b, c, d, ver) == [words |-> <<a, b, c, d>>, ver |-> ver]

\* IPv4 and global IPv6 addresses in two subnets, IPv4 multicast, link-local
\* and unset entries; files without a version.
Entries ==
    {Entry(0, 0, MappedWord, d, ver) : d \in {1, 2}, ver \in {1, 2}}
    \cup {Entry(1, 0, 0, 1, 1), Entry(1, 0, 0, 1, 2), Entry(1, 2, 0, 1, 2)}
    \cup {Entry(LinkLocalWord, 0, 0, 1, 2), Entry(0, 0, 0, 0, 2),
          Entry(MulticastWord, 0, MappedWord, 1, 2),
          Entry(0, 0, MappedWord, 2, UnknownVer), Entry(0, 0, MappedWord, 1, UnreadableVer)}

Tables == UNION {[0 .. k -> Entries] : k \in {0, 2}}

AddrRange(af, a, b, len) == [af |-> af, words |-> <<a, b, 0, 0>>, len |-> len]

\* Not set; a whole and a partial IPv4 word, a length that is too long; IPv6
\* prefixes that end inside the second word; a negative length.
Ranges == {AddrRange("none", 0, 0, 0), AddrRange("AF_INET", 1, 0, 2), AddrRange("AF_INET", 2, 0, 1),
           AddrRange("AF_INET", 2, 0, 3), AddrRange("AF_INET6", 1, 2, 3), AddrRange("AF_INET6", 1, 0, -1)}

Params == {-1, 1}

GidRests ==
    /\ gids = [i \in {0} |-> Entry(0, 0, 0, 0, 2)] /\ gidParam = 0
    /\ usrFam = "AF_INET" /\ usrRange = AddrRange("none", 0, 0, 0) /\ usrVer = 2
    /\ gidIndex = 0 /\ gidNext = 1 /\ gidRet = "error"

----------------------------------------------------------------------------
Node(gpus, nics, switches, enabled) ==
    [gpus |-> gpus, nics |-> nics, onRoot |-> {}, switches |-> switches, enabled |-> enabled,
     envSet |-> FALSE]

OwnPorts == [g \in 1 .. NumGpus |-> g]
OnePerPair == [i \in 1 .. NumNics |-> 2 * i]
Switches == 1 .. NumGpus + 1

\* Every place of the NICs; one NIC too many; every place of one GPU, with
\* other devices at some ports; another server model; devices on the root
\* complex; an empty NCCL_TOPO_FILE.
Servers ==
    {Node(OwnPorts, nics, Switches, TRUE) : nics \in [1 .. NumNics -> 0 .. NumGpus + 1]}
    \cup {Node(OwnPorts, [i \in 1 .. NumNics + 1 |-> IF i > NumNics THEN p ELSE 2 * i], Switches, TRUE)
             : p \in 0 .. NumGpus + 1}
    \cup {Node([OwnPorts EXCEPT ![g] = p], OnePerPair, switches, TRUE)
             : g \in 1 .. NumGpus, p \in 0 .. NumGpus + 1, switches \in {Switches, 1 .. NumGpus - 1}}
    \cup {Node(OwnPorts, OnePerPair, Switches, FALSE)}
    \cup {[Node([OwnPorts EXCEPT ![1] = p], OnePerPair, Switches, enabled) EXCEPT !.onRoot = root]
             : p \in {1, 2}, enabled \in BOOLEAN, root \in {{<<"gpu", 3>>}, {<<"nic", 2>>}}}
    \cup {[Node(OwnPorts, nics, Switches, TRUE) EXCEPT !.envSet = TRUE]
             : nics \in {OnePerPair, [OnePerPair EXCEPT ![1] = NumGpus]}}

VTopoRests ==
    /\ vnode = Node(OwnPorts, OnePerPair, Switches, FALSE)
    /\ uppDevs = NoDevs /\ topo = NoDevs
    /\ once = "exited" /\ vpc = [t \in VThreads |-> "done"]
    /\ topoFile = "none" /\ topoEnv = FALSE

----------------------------------------------------------------------------
TunerRests ==
    /\ version = 2 /\ stage = [c \in Comms |-> "gone"] /\ shape = [c \in Comms |-> NoShape]
    /\ loaded = [c \in Comms |-> 0] /\ context = [c \in Comms |-> NoContext]
    /\ n = 0 /\ nranks = 0 /\ nnodes = 0 /\ tuner_cfg_index = NoCfg
    /\ answer = NoAnswer /\ raced = FALSE

----------------------------------------------------------------------------
allvars == <<vars, gidvars, vtopovars, tunervars>>

MCInit ==
    \/ Init /\ GidRests /\ VTopoRests /\ TunerRests
    \/ InitRests /\ GidInit /\ VTopoRests /\ TunerRests
    \/ InitRests /\ GidRests /\ VTopoInit /\ TunerRests
    \/ InitRests /\ GidRests /\ VTopoRests /\ TunerInit

MCNext ==
    \/ Next /\ UNCHANGED <<gidvars, vtopovars, tunervars>>
    \/ GidNextStep /\ UNCHANGED <<vars, vtopovars, tunervars>>
    \/ VTopoNext /\ UNCHANGED <<vars, gidvars, tunervars>>
    \/ TunerNext /\ UNCHANGED <<vars, gidvars, vtopovars>>

MCFairSpec == MCInit /\ [][MCNext]_allvars /\ \A t \in Threads : WF_vars(Step(t))
=============================================================================
