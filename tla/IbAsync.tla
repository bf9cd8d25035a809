------------------------------ MODULE IbAsync ------------------------------
(***************************************************************************)
(* Asynchronous errors (unet_ib.cc): the thread ncclIbAsyncThreadMain of a *)
(* device takes events from the device and counts fatal ones in the stats  *)
(* of the communicator that owns the QP or CQ (its qp_context, a pointer   *)
(* INTO the communicator) or in the stats of the device; ncclIbIrecv and   *)
(* ncclIbTest, called by the communicators' own threads, look at these     *)
(* counters.                                                               *)
(*                                                                         *)
(* One device; every communicator has one QP and at most one request.  The *)
(* device may break a QP or break altogether; a broken QP may or may not   *)
(* flush its request with an error completion.                             *)
(***************************************************************************)
EXTENDS Naturals, FiniteSets

CONSTANTS Comms,               \* communicators on the device
          ReturnAsyncEvents,   \* NCCL_IB_RETURN_ASYNC_EVENTS
          ConnectMayFail,      \* whether a connection attempt may fail
          DeviceMayFail,       \* whether the whole device may break
          MaxRequests          \* bound: requests of a communicator in a behaviour

ASSUME AsyncAssumption ==
    /\ IsFiniteSet(Comms)
    /\ ReturnAsyncEvents \in BOOLEAN /\ ConnectMayFail \in BOOLEAN /\ DeviceMayFail \in BOOLEAN
    /\ MaxRequests \in Nat

VARIABLES life,       \* of a communicator: "none", "connecting", "ready", "closing", "gone", "failed"
          memory,     \* whether the communicator's memory is allocated
          qp,         \* "none", "live", "broken" or "destroyed"
          fatal,      \* fatalErrorCount of the communicator
          devFatal,   \* fatalErrorCount of the device
          broken,     \* the device is broken
          events,     \* events the device has raised, nobody has taken: one of a kind
          taken,      \* the event in the hands of the async thread
          apc,        \* where the async thread is
          req,        \* the communicator's request: "none", "pending"
          cq,         \* completion to poll: "empty", "success" or "error"
          ret,        \* last result the caller got: "ok" or "error"
          made        \* requests made so far

hw == <<qp, broken, events, cq>>
async == <<taken, apc, devFatal>>
vars == <<life, memory, qp, fatal, devFatal, broken, events, taken, apc, req, cq, ret, made>>

None == [kind |-> "none"]
QpEvent(c) == [kind |-> "qp", comm |-> c]
DevEvent == [kind |-> "device"]
Events == {DevEvent} \cup {QpEvent(c) : c \in Comms}

Init ==
    /\ life = [c \in Comms |-> "none"] /\ memory = [c \in Comms |-> FALSE]
    /\ qp = [c \in Comms |-> "none"] /\ fatal = [c \in Comms |-> 0]
    /\ devFatal = 0 /\ broken = FALSE
    /\ events = {} /\ taken = None /\ apc = "wait"
    /\ req = [c \in Comms |-> "none"] /\ cq = [c \in Comms |-> "empty"]
    /\ ret = [c \in Comms |-> "ok"] /\ made = [c \in Comms |-> 0]

----------------------------------------------------------------------------
(* The device. *)

BreakQp(c) ==
    /\ qp[c] = "live" /\ ~broken
    /\ qp' = [qp EXCEPT ![c] = "broken"]
    /\ events' = events \cup {QpEvent(c)}
    /\ UNCHANGED <<life, memory, fatal, broken, async, req, cq, ret, made>>

BreakDevice ==
    /\ DeviceMayFail /\ ~broken
    /\ broken' = TRUE
    /\ events' = events \cup {DevEvent}
    /\ UNCHANGED <<life, memory, qp, fatal, async, req, cq, ret, made>>

Complete(c) ==
    /\ req[c] = "pending" /\ cq[c] = "empty" /\ ~broken
    /\ cq' = [cq EXCEPT ![c] = IF qp[c] = "live" THEN "success" ELSE "error"]
    /\ UNCHANGED <<life, memory, qp, fatal, broken, events, async, req, ret, made>>

----------------------------------------------------------------------------
(* The async thread. *)

\* ibv_get_async_event: of several events, whichever the device reports first.
GetEvent ==
    /\ apc = "wait"
    /\ \E e \in events : taken' = e /\ events' = events \ {e}
    /\ apc' = "handle"
    /\ UNCHANGED <<life, memory, qp, fatal, devFatal, broken, req, cq, ret, made>>

\* ncclIbQpFatalError / ncclIbCqFatalError, or ncclIbDevFatalError.
CountFatal ==
    /\ IF taken.kind = "qp"
       THEN fatal' = [fatal EXCEPT ![taken.comm] = @ + 1] /\ UNCHANGED devFatal
       ELSE devFatal' = devFatal + 1 /\ UNCHANGED fatal

\* Mutant of Unacknowledged: the event is acknowledged when it is taken.
MutUnacknowledged(c) == FALSE

\* An event of c is taken and, as that happens last, not yet acknowledged.
Unacknowledged(c) == taken = QpEvent(c)

HandleEvent ==
    /\ apc = "handle"
    /\ CountFatal
    /\ apc' = "ack"
    /\ UNCHANGED <<life, memory, hw, taken, req, ret, made>>

AckEvent ==
    /\ apc = "ack"
    /\ taken' = None /\ apc' = "wait"
    /\ UNCHANGED <<life, memory, hw, fatal, devFatal, req, ret, made>>

----------------------------------------------------------------------------
(* A communicator and its caller. *)

\* ncclIbStatsInit on fresh memory, then a QP whose context points into it.
Connect(c) ==
    /\ life[c] = "none"
    /\ life' = [life EXCEPT ![c] = "connecting"]
    /\ memory' = [memory EXCEPT ![c] = TRUE]
    /\ fatal' = [fatal EXCEPT ![c] = 0]
    /\ qp' = [qp EXCEPT ![c] = "live"]
    /\ UNCHANGED <<async, broken, events, req, cq, ret, made>>

Connected(c) ==
    /\ life[c] = "connecting"
    /\ life' = [life EXCEPT ![c] = "ready"]
    /\ UNCHANGED <<memory, hw, fatal, async, req, ret, made>>

\* The label fail of ncclIbConnect and ncclIbAccept: free(comm), and no more.
ConnectFails(c) ==
    /\ ConnectMayFail /\ life[c] = "connecting"
    /\ life' = [life EXCEPT ![c] = "failed"]
    /\ memory' = [memory EXCEPT ![c] = FALSE]
    /\ ret' = [ret EXCEPT ![c] = "error"]
    /\ UNCHANGED <<hw, fatal, async, req, made>>

\* ncclIbStatsCheckFatalCount
Fatal(count) == ReturnAsyncEvents /\ count > 0

Irecv(c) ==
    /\ life[c] = "ready" /\ ret[c] = "ok" /\ req[c] = "none" /\ made[c] < MaxRequests
    /\ made' = [made EXCEPT ![c] = @ + 1]
    /\ IF Fatal(fatal[c])
       THEN ret' = [ret EXCEPT ![c] = "error"] /\ UNCHANGED req
       ELSE req' = [req EXCEPT ![c] = "pending"] /\ UNCHANGED ret
    /\ UNCHANGED <<life, memory, hw, fatal, async>>

\* Mutant of TestFails: the communicator's counter is not looked at.
MutTestFails(c) == cq[c] = "error" \/ (cq[c] = "success" /\ Fatal(devFatal))

\* What ncclIbTest returns: first the communicator's counter, then the
\* completion's status, then, behind a completion, the device's counter.
TestFails(c) ==
    \/ Fatal(fatal[c])
    \/ cq[c] = "error"
    \/ cq[c] = "success" /\ Fatal(devFatal)

Test(c) ==
    /\ life[c] = "ready" /\ ret[c] = "ok" /\ req[c] = "pending"
    /\ IF TestFails(c)
       THEN ret' = [ret EXCEPT ![c] = "error"] /\ UNCHANGED <<req, cq>>
       ELSE /\ cq[c] = "success"
            /\ cq' = [cq EXCEPT ![c] = "empty"]
            /\ req' = [req EXCEPT ![c] = "none"]
            /\ UNCHANGED ret
    /\ UNCHANGED <<life, memory, qp, fatal, broken, events, async, made>>

\* ncclIbCloseSend / ncclIbCloseRecv, when idle or after an error.
Close(c) ==
    /\ life[c] = "ready" /\ (req[c] = "none" \/ ret[c] = "error")
    /\ life' = [life EXCEPT ![c] = "closing"]
    /\ UNCHANGED <<memory, hw, fatal, async, req, ret, made>>

\* What ibv_destroy_qp (external) leaves of the events nobody has taken.
Remaining(c) == events \ {QpEvent(c)}

\* ibv_destroy_qp waits until the QP's events that were taken are acknowledged.
DestroyQp(c) ==
    /\ life[c] = "closing" /\ qp[c] # "destroyed"
    /\ ~Unacknowledged(c)
    /\ qp' = [qp EXCEPT ![c] = "destroyed"]
    /\ cq' = [cq EXCEPT ![c] = "empty"] /\ req' = [req EXCEPT ![c] = "none"]
    /\ events' = Remaining(c)
    /\ UNCHANGED <<life, memory, fatal, async, broken, ret, made>>

FreeComm(c) ==
    /\ life[c] = "closing" /\ qp[c] = "destroyed"
    /\ life' = [life EXCEPT ![c] = "gone"]
    /\ memory' = [memory EXCEPT ![c] = FALSE]
    /\ UNCHANGED <<hw, fatal, async, req, ret, made>>

AsyncThread == GetEvent \/ HandleEvent \/ AckEvent
Caller(c) ==
    \/ Connect(c) \/ Connected(c) \/ ConnectFails(c) \/ Irecv(c) \/ Test(c)
    \/ Close(c) \/ DestroyQp(c) \/ FreeComm(c)

Next ==
    \/ BreakDevice \/ AsyncThread
    \/ \E c \in Comms : BreakQp(c) \/ Complete(c) \/ Caller(c)

Spec == Init /\ [][Next]_vars

(***************************************************************************)
(* The async thread is a thread of its own, and the callers poll their     *)
(* requests until they are told; the device owes nothing.                  *)
(***************************************************************************)
Fairness == WF_vars(AsyncThread) /\ \A c \in Comms : WF_vars(Test(c))
FairSpec == Spec /\ Fairness

----------------------------------------------------------------------------
\* Type correctness.
TypeOK ==
    /\ life \in [Comms -> {"none", "connecting", "ready", "closing", "gone", "failed"}]
    /\ memory \in [Comms -> BOOLEAN] /\ broken \in BOOLEAN
    /\ qp \in [Comms -> {"none", "live", "broken", "destroyed"}]
    /\ fatal \in [Comms -> Nat] /\ devFatal \in Nat
    /\ events \subseteq Events /\ taken \in Events \cup {None}
    /\ apc \in {"wait", "handle", "ack"}
    /\ req \in [Comms -> {"none", "pending"}] /\ cq \in [Comms -> {"empty", "success", "error"}]
    /\ ret \in [Comms -> {"ok", "error"}] /\ made \in [Comms -> 0 .. MaxRequests]

\* The async thread is about to write into the communicator of its event.
WritesTo(c) == apc = "handle" /\ taken = QpEvent(c)

(***************************************************************************)
(* The async thread never writes into a communicator that was closed: its  *)
(* close waits in ibv_destroy_qp for the event in the thread's hands.      *)
(***************************************************************************)
NoUseAfterClose == \A c \in Comms : WritesTo(c) /\ life[c] # "failed" => memory[c]

(***************************************************************************)
(* What NoUseAfterClose rests on: the memory lives from Connect to         *)
(* FreeComm, the QP is destroyed before it goes, and an event of the QP,   *)
(* raised or in the thread's hands, is always one of a broken QP that is   *)
(* not destroyed: ibv_destroy_qp has neither dropped it nor waited for it. *)
(***************************************************************************)
AsyncInv ==
    /\ TypeOK
    /\ taken = None <=> apc = "wait"
    /\ \A c \in Comms :
          /\ life[c] = "none" <=> qp[c] = "none"
          /\ life[c] \in {"connecting", "ready", "closing"} => memory[c]
          /\ life[c] = "gone" => qp[c] = "destroyed"
          /\ QpEvent(c) \in events \/ taken = QpEvent(c) => qp[c] = "broken"

(***************************************************************************)
(* The async thread never writes into a communicator that was freed        *)
(* ("acknowledgment needs to happen last to avoid user-after-free").       *)
(***************************************************************************)
NoUseAfterFree == \A c \in Comms : WritesTo(c) => memory[c]

(***************************************************************************)
(* A caller that waits for a request on a broken QP is told, even when the *)
(* QP never produces a completion.                                         *)
(***************************************************************************)
QpErrorReported ==
    \A c \in Comms :
        (qp[c] = "broken" /\ req[c] = "pending" /\ life[c] = "ready") ~>
            (ret[c] = "error" \/ req[c] = "none")

(***************************************************************************)
(* "Once the IB fatal event is reported in the async thread, we want to    *)
(* propagate this error to communicator": a caller that waits for a        *)
(* request on a device whose fatal error is counted is told.               *)
(***************************************************************************)
DeviceErrorReported ==
    \A c \in Comms :
        (devFatal > 0 /\ req[c] = "pending" /\ life[c] = "ready") ~>
            (ret[c] = "error" \/ req[c] = "none")
=============================================================================
