------------------------------- MODULE Tuner -------------------------------
(***************************************************************************)
(* The tuner plugin (utuner/plugin.c).  A communicator registers its shape *)
(* (ranks, nodes) with init; getCollInfo then answers the algorithm and    *)
(* the protocol for a collective of some size from the table tuned for the *)
(* shape, or leaves them undefined.  In version 1 of the plugin API there  *)
(* is no context: static variables remember the shape of the first         *)
(* communicator.  In versions 2 and 3 every communicator has a context of  *)
(* its own; in version 3 the answer is an entry of the cost table that     *)
(* NCCL passes in.                                                         *)
(***************************************************************************)
EXTENDS Integers, Sequences, FiniteSets, FiniteSetsExt

CONSTANTS Comms,       \* communicators of the process
          Shapes,      \* shapes <<nRanks, nNodes>> each of them may have
          Sizes,       \* collective sizes asked about, in bytes
          Ignored,     \* sets of combinations NCCL may rule out in version 3
          Versions     \* of the plugin API that NCCL may load

ASSUME TunerAssumption ==
    /\ IsFiniteSet(Comms) /\ Sizes \subseteq Nat
    /\ \A c \in Comms : Shapes[c] \subseteq Nat \X Nat
    /\ Versions \subseteq 1 .. 3

VARIABLES version,        \* of the plugin API NCCL has loaded
          stage,          \* of a communicator
          shape,          \* <<nRanks, nNodes>> of a communicator
          loaded,         \* the value of n that n++ read in pluginInit_v1
          n, nranks, nnodes, tuner_cfg_index,   \* static variables of version 1
          context,        \* tuner context of a communicator
          answer,         \* what the last getCollInfo answered
          raced           \* history: two calls of pluginInit_v1 have overlapped

static == <<n, nranks, nnodes, tuner_cfg_index>>
tunervars == <<version, stage, shape, loaded, static, context, answer, raced>>

----------------------------------------------------------------------------
Undef == [algo |-> "undef", proto |-> "undef"]
Choice(algo, proto, k) == [ap |-> [algo |-> algo, proto |-> proto], nbytes |-> 2^k]

TreeLL128(k)  == Choice("tree", "LL128", k)
RingLL128(k)  == Choice("ring", "LL128", k)
RingLL(k)     == Choice("ring", "LL", k)
RingSimple(k) == Choice("ring", "simple", k)
Default(k)    == [ap |-> Undef, nbytes |-> 2^k]

tuner_shapes == <<<<16, 2>>, <<32, 4>>, <<48, 6>>, <<64, 8>>,
                  <<80, 10>>, <<96, 12>>, <<112, 14>>, <<128, 16>>>>

allreduce_tuner_cfgs ==
    <<<<TreeLL128(20), TreeLL128(23)>>,
      <<TreeLL128(21), Default(22), Default(24), TreeLL128(25), Default(26), Default(27),
        RingSimple(28)>>,
      <<TreeLL128(21), Default(22), Default(24), TreeLL128(25), RingLL128(26), RingLL128(27),
        RingSimple(28)>>,
      <<TreeLL128(21), Default(22), Default(24), TreeLL128(25), TreeLL128(26), RingLL128(27),
        Default(28), RingSimple(29)>>,
      <<TreeLL128(25), TreeLL128(26), RingLL128(27), RingLL128(28)>>,
      <<TreeLL128(25), TreeLL128(26), RingLL128(27), RingLL128(28)>>,
      <<TreeLL128(25), TreeLL128(27), RingLL128(28), Default(29), RingSimple(30)>>,
      <<TreeLL128(26), TreeLL128(27), RingLL128(28), RingLL128(29), RingSimple(30)>>>>

reducescatter_tuner_cfgs ==
    <<<<RingLL(20)>>, <<RingLL(20), RingLL(21)>>, <<RingLL(21), RingLL(22)>>,
      <<RingLL(21), RingLL(22)>>, <<RingLL(21), RingLL(22)>>, <<RingLL(22)>>, <<>>, <<>>>>

allgather_tuner_cfgs ==
    <<<<RingLL(20)>>, <<RingLL(20), RingLL(21)>>, <<RingLL(21)>>,
      <<RingLL(21), RingLL(22)>>, <<RingLL(21), RingLL(22)>>, <<RingLL(22)>>, <<>>, <<>>>>

CollTypes == {"allreduce", "allgather", "reducescatter", "broadcast"}

\* The choices of a configuration; a collective without a table has none.
ap_choices(cfg, coll) ==
    CASE coll = "allreduce"     -> allreduce_tuner_cfgs[cfg]
      [] coll = "allgather"     -> allgather_tuner_cfgs[cfg]
      [] coll = "reducescatter" -> reducescatter_tuner_cfgs[cfg]
      [] OTHER                  -> <<>>

NoCfg == -1

get_tuner_cfg_index(s) ==
    LET match == {i \in DOMAIN tuner_shapes : tuner_shapes[i] = s}
    IN  IF match = {} THEN NoCfg ELSE Min(match)

Least(a, b) == IF a < b THEN a ELSE b

\* Mutant of Pick: the comparison with the midpoint is dropped.
MutPick(ch, size) ==
    LET k == Len(ch)
        i == Min({j \in 1 .. k : j = k \/ ch[j].nbytes >= size})
        b == ch[i].nbytes
    IN  CASE i = 1 /\ size < (b * 3) \div 4 -> Undef
          [] i = k /\ size > b + Least(b \div 2, 2^28) -> Undef
          [] OTHER -> ch[i].ap

\* The scan and the three tests of get_algo_proto on a table with choices.
Pick(ch, size) ==
    LET k == Len(ch)
        i == Min({j \in 1 .. k : j = k \/ ch[j].nbytes >= size})
        b == ch[i].nbytes
    IN  CASE i = 1 /\ size < (b * 3) \div 4 -> Undef
          [] i = k /\ size > b + Least(b \div 2, 2^28) -> Undef
          [] i > 1 /\ size < (ch[i - 1].nbytes + b) \div 2 -> ch[i - 1].ap
          [] OTHER -> ch[i].ap

get_algo_proto(cfg, coll, size) ==
    IF cfg = NoCfg \/ ap_choices(cfg, coll) = <<>> THEN Undef ELSE Pick(ap_choices(cfg, coll), size)

----------------------------------------------------------------------------
NoShape == <<0, 0>>
NoContext == -2
NoAnswer == [comm |-> "none"]
Refusal == [comm |-> "refused"]      \* ncclInvalidArgument

TunerInit ==
    /\ version \in Versions
    /\ stage = [c \in Comms |-> "new"]
    /\ shape = [c \in Comms |-> NoShape]
    /\ loaded = [c \in Comms |-> 0]
    /\ n = 0 /\ nranks = 0 /\ nnodes = 0 /\ tuner_cfg_index = NoCfg
    /\ context = [c \in Comms |-> NoContext]
    /\ answer = NoAnswer /\ raced = FALSE

\* pluginInit_v1 up to the load of n++: there is no lock, so that calls for
\* two communicators may overlap here and both find n = 0.
pluginInit_v1_Enter(c) ==
    /\ version = 1 /\ stage[c] = "new"
    /\ \E s \in Shapes[c] : shape' = [shape EXCEPT ![c] = s]
    /\ loaded' = [loaded EXCEPT ![c] = n]
    /\ stage' = [stage EXCEPT ![c] = "init"]
    /\ raced' = (raced \/ \E d \in Comms : stage[d] = "init")
    /\ UNCHANGED <<version, static, context, answer>>

\* Mutant of SameShape: only the ranks are compared.
MutSameShape(s) == nranks = s[1]

SameShape(s) == nranks = s[1] /\ nnodes = s[2]

\* The rest of pluginInit_v1, from the store of n++ on.
pluginInit_v1(c) ==
    /\ version = 1 /\ stage[c] = "init"
    /\ n' = loaded[c] + 1
    /\ IF loaded[c] = 0
       THEN /\ nranks' = shape[c][1] /\ nnodes' = shape[c][2]
            /\ tuner_cfg_index' = get_tuner_cfg_index(shape[c])
       ELSE /\ tuner_cfg_index' = IF SameShape(shape[c]) THEN tuner_cfg_index ELSE NoCfg
            /\ UNCHANGED <<nranks, nnodes>>
    /\ stage' = [stage EXCEPT ![c] = "ready"]
    /\ UNCHANGED <<version, shape, loaded, context, answer, raced>>

\* Versions 2 and 3 share init and destroy.
pluginInit_v2(c) ==
    /\ version >= 2 /\ stage[c] = "new"
    /\ \E s \in Shapes[c] :
          /\ shape' = [shape EXCEPT ![c] = s]
          /\ context' = [context EXCEPT ![c] = get_tuner_cfg_index(s)]
    /\ stage' = [stage EXCEPT ![c] = "ready"]
    /\ UNCHANGED <<version, loaded, static, answer, raced>>

pluginGetCollInfo_v1(c, coll, size) ==
    /\ version = 1
    /\ answer' = [comm |-> c, coll |-> coll, size |-> size,
                  ap |-> get_algo_proto(tuner_cfg_index, coll, size)]
    /\ UNCHANGED <<version, stage, shape, loaded, static, context, raced>>

pluginGetCollInfo_v2(c, coll, size) ==
    /\ version = 2
    /\ answer' = [comm |-> c, coll |-> coll, size |-> size,
                  ap |-> get_algo_proto(context[c], coll, size)]
    /\ UNCHANGED <<version, stage, shape, loaded, static, context, raced>>

\* NCCL's table of costs: -1 (NCCL_ALGO_PROTO_IGNORE) for a combination that
\* must not be used, a positive cost for the others.
Combos == [algo : {"tree", "ring"}, proto : {"LL", "LL128", "simple"}]
Ignore == -1
CostTables == {[ap \in Combos |-> IF ap \in out THEN Ignore ELSE 7] : out \in Ignored}
NULL == <<>>

\* The update of the cost table for an algorithm and a protocol in range.
Tuned(table, ap) ==
    IF ap \in Combos /\ table[ap] # Ignore THEN [table EXCEPT ![ap] = 0] ELSE table

\* The test of the arguments; *collCostTable is the first two costs of the
\* table, read as a pointer.
Invalid(table) ==
    table = NULL \/ \A proto \in {"LL", "LL128"} : table[[algo |-> "tree", proto |-> proto]] = 0

pluginGetCollInfo_v3(c, coll, size, table) ==
    /\ version = 3
    /\ answer' = IF Invalid(table) THEN Refusal
                 ELSE [comm |-> c, coll |-> coll, size |-> size, before |-> table,
                       table |-> Tuned(table, get_algo_proto(context[c], coll, size))]
    /\ UNCHANGED <<version, stage, shape, loaded, static, context, raced>>

\* pluginDestroy_v1 leaves the static variables alone.
pluginDestroy(c) ==
    /\ stage[c] = "ready"
    /\ stage' = [stage EXCEPT ![c] = "gone"]
    /\ context' = IF version = 1 THEN context ELSE [context EXCEPT ![c] = NoContext]
    /\ UNCHANGED <<version, shape, loaded, static, answer, raced>>

\* NCCL, external: it asks about communicators that are set up, and takes an
\* answer before it asks again.
Asks(c) == stage[c] = "ready" /\ answer = NoAnswer

Taken == answer # NoAnswer /\ answer' = NoAnswer
         /\ UNCHANGED <<version, stage, shape, loaded, static, context, raced>>

TunerNext ==
    \/ Taken
    \/ \E c \in Comms :
          \/ pluginInit_v1_Enter(c) \/ pluginInit_v1(c) \/ pluginInit_v2(c) \/ pluginDestroy(c)
          \/ /\ Asks(c)
             /\ \E coll \in CollTypes, size \in Sizes :
                   \/ pluginGetCollInfo_v1(c, coll, size)
                   \/ pluginGetCollInfo_v2(c, coll, size)
                   \/ \E table \in CostTables \cup {NULL} : pluginGetCollInfo_v3(c, coll, size, table)

TunerSpec == TunerInit /\ [][TunerNext]_tunervars

----------------------------------------------------------------------------
Distance(a, b) == IF a < b THEN b - a ELSE a - b

\* What the tables mean: a choice is the measured best for its size; sizes
\* from 3/4 of the first to half as much again as the last (but no more than
\* 256 MB beyond it) take the choice nearest to them, the larger one on a tie.
Nearest(ch, size) ==
    LET lo == (ch[1].nbytes * 3) \div 4
        hi == ch[Len(ch)].nbytes + Least(ch[Len(ch)].nbytes \div 2, 2^28)
        best == {i \in DOMAIN ch : \A j \in DOMAIN ch :
                    Distance(size, ch[i].nbytes) <= Distance(size, ch[j].nbytes)}
    IN  IF ch = <<>> \/ size < lo \/ size > hi THEN Undef ELSE ch[Max(best)].ap

\* The answer meant for a communicator of shape s.
Intended(s, coll, size) ==
    IF get_tuner_cfg_index(s) = NoCfg THEN Undef
    ELSE LET ch == ap_choices(get_tuner_cfg_index(s), coll)
         IN  IF ch = <<>> THEN Undef ELSE Nearest(ch, size)

\* Versions 1 and 2: the answer is that one or, in version 1, no choice; of
\* version 1 nothing is said once two of its init calls have overlapped.
AnswerNearest ==
    \/ answer.ap = Intended(shape[answer.comm], answer.coll, answer.size)
    \/ version = 1 /\ (raced \/ answer.ap = Undef)

\* Version 3: with the updated table NCCL uses the tuned combination if it
\* allowed it, what it marked as ignored still is, no other cost has changed.
TableTuned ==
    LET ap == Intended(shape[answer.comm], answer.coll, answer.size)
    IN  \A x \in Combos :
           IF answer.before[x] = Ignore THEN answer.table[x] = Ignore
           ELSE IF x = ap THEN \A y \in Combos \ {x} :
                                  answer.table[y] # Ignore => answer.table[x] < answer.table[y]
           ELSE answer.table[x] = answer.before[x]

(***************************************************************************)
(* Whatever other communicators were set up or destroyed in between, the   *)
(* answer of getCollInfo leads NCCL to the tuned choice nearest to the     *)
(* size in the table of the asking communicator's own shape, unless NCCL   *)
(* ruled it out or version 1 gives no choice (or has raced).               *)
(***************************************************************************)
AnswersFit ==
    answer \notin {NoAnswer, Refusal} => IF version = 3 THEN TableTuned ELSE AnswerNearest

(***************************************************************************)
(* "tuner v1 does not support multiple communicators, fall back to         *)
(* default": a table is in use only while all communicators set up so far, *)
(* destroyed ones included, have its shape.                                *)
(***************************************************************************)
FallsBack ==
    tuner_cfg_index # NoCfg =>
        \A c \in Comms : stage[c] \in {"ready", "gone"} => shape[c] = tuner_shapes[tuner_cfg_index]

(***************************************************************************)
(* The code keeps to that as long as no two calls of pluginInit_v1 have    *)
(* overlapped (plugin.c takes no lock there): whatever was set up, asked   *)
(* and destroyed before, and whatever the shape of the first communicator. *)
(***************************************************************************)
FallsBackInTurn == ~raced => FallsBack

----------------------------------------------------------------------------
(* The inductive invariant behind the two. *)

TunerTypeOK ==
    /\ version \in Versions /\ raced \in BOOLEAN
    /\ stage \in [Comms -> {"new", "init", "ready", "gone"}]
    /\ shape \in [Comms -> Nat \X Nat] /\ loaded \in [Comms -> Nat]
    /\ n \in Nat /\ nranks \in Nat /\ nnodes \in Nat
    /\ tuner_cfg_index \in {NoCfg} \cup DOMAIN tuner_shapes
    /\ context \in [Comms -> {NoCfg, NoContext} \cup DOMAIN tuner_shapes]

\* Version 1 without overlaps: a call finds n as it was when it came in, and
\* the static variables are those of the first communicator.
StaticsRight ==
    /\ version # 1 => tuner_cfg_index = NoCfg
    /\ version = 1 /\ ~raced =>
          /\ n = 0 => tuner_cfg_index = NoCfg /\ \A c \in Comms : stage[c] \in {"new", "init"}
          /\ \A c \in Comms : stage[c] = "init" =>
                loaded[c] = n /\ \A d \in Comms \ {c} : stage[d] # "init"
          /\ tuner_cfg_index # NoCfg => tuner_shapes[tuner_cfg_index] = <<nranks, nnodes>>

ContextsRight ==
    \A c \in Comms : version # 1 /\ stage[c] = "ready" => context[c] = get_tuner_cfg_index(shape[c])

\* An answer is about a communicator whose shape is settled.
AnswerSettled ==
    answer \notin {NoAnswer, Refusal} =>
        answer.comm \in Comms /\ stage[answer.comm] \in {"ready", "gone"}

TunerInv ==
    TunerTypeOK /\ StaticsRight /\ FallsBackInTurn /\ ContextsRight /\ AnswerSettled /\ AnswersFit
=============================================================================
