--------------------------- MODULE IbAsync_proofs ---------------------------
(***************************************************************************)
(* For every set of communicators and every setting, closing one never     *)
(* pulls its memory from under the async thread.                           *)
(***************************************************************************)
EXTENDS IbAsync, TLAPS

\* Events of different communicators differ, from each other and from the rest.
LEMMA EventsDiffer ==
    /\ None \notin Events
    /\ \A c \in Comms : QpEvent(c) # DevEvent /\ QpEvent(c) # None
    /\ \A c, d \in Comms : QpEvent(c) = QpEvent(d) => c = d
    /\ \A c \in Comms : QpEvent(c).kind = "qp" /\ QpEvent(c).comm = c
    /\ DevEvent.kind = "device"
<1>1. \A c \in Comms : QpEvent(c).kind = "qp" /\ QpEvent(c).comm = c
  BY DEF QpEvent
<1>2. DevEvent.kind = "device" /\ None.kind = "none"
  BY DEF DevEvent, None
<1>3. \A c \in Comms : QpEvent(c) # DevEvent /\ QpEvent(c) # None
  BY <1>1, <1>2
<1>4. None # DevEvent
  BY <1>2
<1>5. \A c, d \in Comms : QpEvent(c) = QpEvent(d) => c = d
  <2> SUFFICES ASSUME NEW c \in Comms, NEW d \in Comms, QpEvent(c) = QpEvent(d) PROVE c = d
    OBVIOUS
  <2> QED
    BY <1>1
<1> HIDE DEF QpEvent, DevEvent, None
<1> QED
  BY <1>1, <1>2, <1>3, <1>4, <1>5 DEF Events

LEMMA InitInv == Init => AsyncInv
<1> SUFFICES ASSUME Init PROVE AsyncInv
  OBVIOUS
<1>1. TypeOK
  <2>1. memory \in [Comms -> BOOLEAN] /\ broken \in BOOLEAN
    BY Zenon DEF Init
  <2>2. made \in [Comms -> 0 .. MaxRequests]
    BY AsyncAssumption DEF Init
  <2> QED
    BY <2>1, <2>2 DEF Init, TypeOK
<1> QED
  BY <1>1, EventsDiffer DEF Init, AsyncInv

\* What the device and the async thread do.
LEMMA DeviceInv ==
    ASSUME AsyncInv, BreakDevice \/ \E c \in Comms : BreakQp(c) \/ Complete(c)
    PROVE  AsyncInv'
<1> USE DEF AsyncInv
<1>1. CASE BreakDevice
  <2>1. TypeOK'
    BY <1>1 DEF BreakDevice, TypeOK, async, Events
  <2> QED
    BY <1>1, <2>1, EventsDiffer DEF BreakDevice, async
<1>2. ASSUME NEW c \in Comms, BreakQp(c) PROVE AsyncInv'
  <2>1. TypeOK'
    BY <1>2 DEF BreakQp, TypeOK, async, Events
  <2>2. \A d \in Comms : QpEvent(d) \in events' => qp'[d] = "broken"
    BY <1>2, EventsDiffer DEF BreakQp, TypeOK
  <2> QED
    BY <1>2, <2>1, <2>2, EventsDiffer DEF BreakQp, async, TypeOK
<1>3. ASSUME NEW c \in Comms, Complete(c) PROVE AsyncInv'
  <2>1. TypeOK'
    BY <1>3 DEF Complete, TypeOK, async
  <2> QED
    BY <1>3, <2>1 DEF Complete, async
<1> QED
  BY <1>1, <1>2, <1>3

LEMMA AsyncThreadInv ==
    ASSUME AsyncInv, AsyncThread
    PROVE  AsyncInv'
<1> USE DEF AsyncInv
<1>1. CASE GetEvent
  <2>1. TypeOK'
    BY <1>1 DEF GetEvent, TypeOK
  <2> QED
    BY <1>1, <2>1, EventsDiffer DEF GetEvent, TypeOK
<1>2. CASE HandleEvent
  <2>1. taken \in Events
    BY <1>2, EventsDiffer DEF HandleEvent, TypeOK
  <2>2. fatal' \in [Comms -> Nat] /\ devFatal' \in Nat
    <3>1. CASE taken.kind = "qp"
      <4>1. PICK c \in Comms : taken = QpEvent(c)
        BY <2>1, <3>1, EventsDiffer DEF Events
      <4>2. taken.comm = c
        BY <4>1, EventsDiffer
      <4> QED
        BY <1>2, <3>1, <4>2 DEF HandleEvent, CountFatal, TypeOK
    <3>2. CASE taken.kind # "qp"
      BY <1>2, <3>2 DEF HandleEvent, CountFatal, TypeOK
    <3> QED
      BY <3>1, <3>2
  <2>3. TypeOK'
    BY <1>2, <2>2 DEF HandleEvent, TypeOK, hw
  <2> QED
    BY <1>2, <2>3 DEF HandleEvent, hw
<1>3. CASE AckEvent
  <2>1. TypeOK'
    BY <1>3 DEF AckEvent, TypeOK, hw
  <2> QED
    BY <1>3, <2>1, EventsDiffer DEF AckEvent, hw
<1> QED
  BY <1>1, <1>2, <1>3 DEF AsyncThread

\* What the communicator's own thread does.
LEMMA CallerInv ==
    ASSUME AsyncInv, NEW c \in Comms, Caller(c)
    PROVE  AsyncInv'
<1> USE DEF AsyncInv
<1>1. CASE Connect(c)
  <2>1. TypeOK'
    BY <1>1 DEF Connect, TypeOK, async
  <2> QED
    BY <1>1, <2>1 DEF Connect, async, TypeOK
<1>2. CASE Connected(c)
  <2>1. TypeOK'
    BY <1>2 DEF Connected, TypeOK, async, hw
  <2> QED
    BY <1>2, <2>1 DEF Connected, async, hw, TypeOK
<1>3. CASE ConnectFails(c)
  <2>1. TypeOK'
    BY <1>3 DEF ConnectFails, TypeOK, async, hw
  <2> QED
    BY <1>3, <2>1 DEF ConnectFails, async, hw, TypeOK
<1>4. CASE Irecv(c)
  <2>1. made' \in [Comms -> 0 .. MaxRequests]
    BY <1>4, AsyncAssumption DEF Irecv, TypeOK
  <2>2. TypeOK'
    BY <1>4, <2>1 DEF Irecv, TypeOK, async, hw
  <2> QED
    BY <1>4, <2>2 DEF Irecv, async, hw
<1>5. CASE Test(c)
  <2>1. TypeOK'
    BY <1>5 DEF Test, TypeOK, async
  <2> QED
    BY <1>5, <2>1 DEF Test, async
<1>6. CASE Close(c)
  <2>1. TypeOK'
    BY <1>6 DEF Close, TypeOK, async, hw
  <2> QED
    BY <1>6, <2>1 DEF Close, async, hw, TypeOK
<1>7. CASE DestroyQp(c)
  <2>1. TypeOK'
    BY <1>7 DEF DestroyQp, Remaining, TypeOK, async
  <2>2. \A d \in Comms : QpEvent(d) \in events' \/ taken = QpEvent(d) => d # c
    BY <1>7 DEF DestroyQp, Remaining, Unacknowledged
  <2> QED
    BY <1>7, <2>1, <2>2 DEF DestroyQp, Remaining, async, TypeOK
<1>8. CASE FreeComm(c)
  <2>1. TypeOK'
    BY <1>8 DEF FreeComm, TypeOK, async, hw
  <2> QED
    BY <1>8, <2>1 DEF FreeComm, async, hw, TypeOK
<1> QED
  BY <1>1, <1>2, <1>3, <1>4, <1>5, <1>6, <1>7, <1>8 DEF Caller

(***************************************************************************)
(* The inductive invariant: the life of a communicator's memory, of its QP *)
(* and of the events of the QP are nested, whatever the device breaks.     *)
(***************************************************************************)
THEOREM Invariance == Spec => []AsyncInv
<1>1. AsyncInv /\ [Next]_vars => AsyncInv'
  <2> SUFFICES ASSUME AsyncInv, [Next]_vars PROVE AsyncInv'
    OBVIOUS
  <2>1. CASE UNCHANGED vars
    BY <2>1 DEF AsyncInv, TypeOK, vars
  <2>2. CASE Next
    BY <2>2, DeviceInv, AsyncThreadInv, CallerInv DEF Next
  <2> QED
    BY <2>1, <2>2
<1> QED
  BY <1>1, InitInv, PTL DEF Spec

(***************************************************************************)
(* The async thread never writes into a communicator that ncclIbCloseSend  *)
(* or ncclIbCloseRecv has freed.                                           *)
(***************************************************************************)
THEOREM CloseIsSafe == Spec => []NoUseAfterClose
<1>1. AsyncInv => NoUseAfterClose
  BY DEF AsyncInv, TypeOK, NoUseAfterClose, WritesTo
<1> QED
  BY <1>1, Invariance, PTL

(***************************************************************************)
(* The label fail of ncclIbConnect and ncclIbAccept is the only way to a   *)
(* write into freed memory: without failing attempts there is none.        *)
(***************************************************************************)
THEOREM OnlyFailedConnectsFree ==
    ASSUME ~ConnectMayFail
    PROVE  Spec => []NoUseAfterFree
<1> DEFINE NoneFailed == \A c \in Comms : life[c] # "failed"
<1>1. Init => NoneFailed
  BY DEF Init
<1>2. AsyncInv /\ NoneFailed /\ [Next]_vars => NoneFailed'
  <2> SUFFICES ASSUME AsyncInv, NoneFailed, Next, NEW c \in Comms
               PROVE  life'[c] # "failed"
    BY DEF vars
  <2>1. life' = life \/ \E d \in Comms :
            life' = [life EXCEPT ![d] = "connecting"] \/ life' = [life EXCEPT ![d] = "ready"]
            \/ life' = [life EXCEPT ![d] = "closing"] \/ life' = [life EXCEPT ![d] = "gone"]
    BY DEF Next, AsyncThread, Caller, BreakDevice, BreakQp, Complete, GetEvent, HandleEvent,
           AckEvent, Connect, Connected, ConnectFails, Irecv, Test, Close, DestroyQp, FreeComm
  <2> QED
    BY <2>1 DEF AsyncInv, TypeOK
<1>3. NoUseAfterClose /\ NoneFailed => NoUseAfterFree
  BY DEF NoUseAfterClose, NoUseAfterFree
<1> QED
  BY <1>1, <1>2, <1>3, Invariance, CloseIsSafe, PTL DEF Spec
=============================================================================
