------------------------------ MODULE IbConnect ------------------------------
(***************************************************************************)
(* Establishing a connection (unet_ib.cc): ncclIbConnect and ncclIbAccept, *)
(* two resumable state machines.  A call runs through the stages until one *)
(* of them has to wait, and the next call resumes there from stage->state  *)
(* and stage->offset; an action is what a call does between two such       *)
(* points.  The sides exchange their metadata (QP numbers, MTU, ECE,       *)
(* rkeys), bring their QPs to RTS, and the connecting side ends with a     *)
(* ready word.                                                             *)
(*                                                                         *)
(* Setup steps named in Failures may fail, and a process may die.          *)
(***************************************************************************)
EXTENDS Socket, FiniteSets

CONSTANTS MetaSize,         \* units of struct ncclIbConnectionMetadata
          ReadySize,        \* units of the ready word
          SendMtu, RecvMtu,   \* active MTU of the two ports
          SendEce, RecvEce,   \* whether the two devices support ECE
          Failures,         \* setup steps that may fail
          Deaths            \* processes that may die: "send", "recv"

ASSUME ConnectAssumption ==
    /\ MetaSize \in Nat \ {0} /\ ReadySize \in Nat \ {0}
    /\ SendMtu \in Nat /\ RecvMtu \in Nat
    /\ SendEce \in BOOLEAN /\ RecvEce \in BOOLEAN
    /\ Failures \subseteq {"start", "connect", "link", "rts", "accept"}
    /\ Deaths \subseteq {"send", "recv"}

VARIABLES cstage, coffset,   \* stage->state and stage->offset of the connecting side
          cret,              \* what the calls returned: "pending", "ok" or "error"
          cqp,               \* its QPs: state, path MTU, whether set_ece was called
          astage, aoffset, aret, aqp,   \* the same of the accepting side
          cmeta, ameta       \* metadata in the two directions

cvars == <<cstage, coffset, cret, cqp, cmeta>>
avars == <<astage, aoffset, aret, aqp, ameta>>
vars == <<sockvars, cvars, avars>>

NoQp == [state |-> "none", mtu |-> 0, ece |-> FALSE]
NoMeta == [mtu |-> 0, ece |-> FALSE]

Init ==
    /\ SocketInit
    /\ cstage = "Start" /\ coffset = 0 /\ cret = "pending" /\ cqp = NoQp /\ cmeta = NoMeta
    /\ astage = "Start" /\ aoffset = 0 /\ aret = "pending" /\ aqp = NoQp /\ ameta = NoMeta

Min2(x, y) == IF x < y THEN x ELSE y

SockUnchanged(changed) ==
    /\ "csock" \notin changed => UNCHANGED csock
    /\ "asock" \notin changed => UNCHANGED asock
    /\ "up" \notin changed => UNCHANGED up
    /\ "down" \notin changed => UNCHANGED down
    /\ UNCHANGED <<refused, timedOut, afrom, backlog, strays, strayUp, upEof, downEof>>

\* exit / fail: the stage starts over.  On failure the communicator is freed
\* but its socket is not closed, so the peer is not told.
ConnectFails ==
    /\ cret' = "error" /\ cstage' = "Start" /\ UNCHANGED <<coffset, cqp, cmeta>>
AcceptFails ==
    /\ aret' = "error" /\ astage' = "Start" /\ aoffset' = 0 /\ UNCHANGED <<aqp, ameta>>

----------------------------------------------------------------------------
(* ncclIbConnect *)

ConnectStart ==
    /\ cret = "pending" /\ cstage = "Start"
    /\ \/ /\ cstage' = "Connect" /\ csock' = "Connecting"
          /\ UNCHANGED <<coffset, cret, cqp, cmeta>>
       \/ "start" \in Failures /\ ConnectFails /\ UNCHANGED csock
    /\ SockUnchanged({"csock"})
    /\ UNCHANGED avars

\* ncclSocketReady on a socket in error.
ConnectSocketError ==
    /\ cret = "pending" /\ cstage = "Connect" /\ csock = "Error"
    /\ ConnectFails
    /\ UNCHANGED <<sockvars, avars>>

\* IB setup: QPs are created and moved to INIT, the metadata is filled in.
ConnectSetup ==
    /\ cret = "pending" /\ cstage = "Connect" /\ csock = "Ready"
    /\ \/ /\ cqp' = [cqp EXCEPT !.state = "INIT"]
          /\ cmeta' = [mtu |-> SendMtu, ece |-> SendEce]
          /\ cstage' = "Send" /\ coffset' = 0
          /\ UNCHANGED cret
       \/ "connect" \in Failures /\ ConnectFails
    /\ UNCHANGED <<sockvars, avars>>

AfterConnectSend(sent) == IF sent = MetaSize THEN 0 ELSE sent

ConnectSend(k) ==
    /\ cret = "pending" /\ cstage = "Send"
    /\ SendUnits(up, "meta", k, coffset, MetaSize)
    /\ coffset' = AfterConnectSend(coffset + k)
    /\ cstage' = IF coffset + k = MetaSize THEN "Connecting" ELSE cstage
    /\ SockUnchanged({"up"})
    /\ UNCHANGED <<cret, cqp, cmeta, avars>>

\* The peer's metadata is complete: QPs go to RTR and RTS with it.  Peer
\* devices of several link layers make the call return as it stands, without
\* going through exit.
ConnectRts ==
    \/ /\ cqp' = [state |-> "RTS", mtu |-> ameta.mtu, ece |-> ameta.ece]
       /\ cstage' = "Connected" /\ coffset' = 0
       /\ UNCHANGED <<cret, cmeta>>
    \/ "rts" \in Failures /\ ConnectFails
    \/ "link" \in Failures /\ cret' = "error" /\ coffset' = MetaSize
       /\ UNCHANGED <<cstage, cqp, cmeta>>

ConnectRecv(k) ==
    /\ cret = "pending" /\ cstage = "Connecting"
    /\ RecvUnits(down, k, coffset, MetaSize)
    /\ IF coffset + k = MetaSize THEN ConnectRts
       ELSE coffset' = coffset + k /\ UNCHANGED <<cstage, cret, cqp, cmeta>>
    /\ SockUnchanged({"down"})
    /\ UNCHANGED avars

\* ncclSocketProgress returns an error: the peer's process is gone.
ConnectPeerGone ==
    /\ cret = "pending"
    /\ \/ cstage = "Connecting" /\ RecvFails(down, downEof, up)
       \/ cstage \in {"Send", "Connected"} /\ SendFails(downEof)
       \/ cstage = "Connect" /\ csock = "Connected" /\ SendFails(downEof)
    /\ ConnectFails
    /\ UNCHANGED <<sockvars, avars>>

ConnectReady(k) ==
    /\ cret = "pending" /\ cstage = "Connected"
    /\ SendUnits(up, "ready", k, coffset, ReadySize)
    /\ coffset' = coffset + k
    /\ IF coffset' = ReadySize THEN cstage' = "Start" /\ cret' = "ok"
       ELSE UNCHANGED <<cstage, cret>>
    /\ SockUnchanged({"up"})
    /\ UNCHANGED <<cqp, cmeta, avars>>

----------------------------------------------------------------------------
(* ncclIbAccept *)

AcceptStart ==
    /\ aret = "pending" /\ astage = "Start"
    /\ \/ /\ astage' = "Accept" /\ asock' = "Accepting"
          /\ UNCHANGED <<aoffset, aret, aqp, ameta>>
       \/ "start" \in Failures /\ AcceptFails /\ UNCHANGED asock
    /\ SockUnchanged({"asock"})
    /\ UNCHANGED cvars

AcceptReady ==
    /\ aret = "pending" /\ astage = "Accept" /\ asock = "Ready"
    /\ astage' = "Recv" /\ aoffset' = 0
    /\ UNCHANGED <<sockvars, aret, aqp, ameta, cvars>>

\* ECE flag of the reply: the responder's, or, when the requestor has none,
\* the uninitialized word of the reply on the stack.
ReplyEce == IF cmeta.ece THEN {RecvEce} ELSE BOOLEAN

\* The adjusted MTU of the reply.
ReplyMtu == Min2(cmeta.mtu, RecvMtu)

\* Path MTU that ncclIbRtrQp gives the accepting side's QPs: the metadata's,
\* as it was received.
AcceptPathMtu == cmeta.mtu

\* The peer's metadata is complete: QPs are created and go to RTS at once;
\* then the MTU is adjusted and the reply filled in.
AcceptRts ==
    \/ /\ aqp' = [state |-> "RTS", mtu |-> AcceptPathMtu, ece |-> cmeta.ece]
       /\ \E ece \in ReplyEce : ameta' = [mtu |-> ReplyMtu, ece |-> ece]
       /\ astage' = "Send" /\ aoffset' = 0
       /\ UNCHANGED aret
    \/ "accept" \in Failures /\ AcceptFails

AcceptRecv(k) ==
    /\ aret = "pending" /\ astage = "Recv"
    /\ RecvUnits(up, k, aoffset, MetaSize)
    /\ IF aoffset + k = MetaSize THEN AcceptRts
       ELSE aoffset' = aoffset + k /\ UNCHANGED <<astage, aret, aqp, ameta>>
    /\ SockUnchanged({"up"})
    /\ UNCHANGED cvars

\* ncclSocketProgress returns an error: the peer's process is gone, or a stray
\* hung up before it sent a magic number.
AcceptPeerGone ==
    /\ aret = "pending"
    /\ \/ asock = "Accepted" /\ afrom = "stray" /\ Head(strayUp) = "hangup"
       \/ asock = "Accepted" /\ afrom = "peer" /\ RecvFails(up, upEof, down)
       \/ astage \in {"Recv", "PendingReady"} /\ RecvFails(up, upEof, down)
       \/ astage = "Send" /\ SendFails(upEof)
    /\ AcceptFails
    /\ UNCHANGED <<sockvars, cvars>>

\* Mutant of AfterAcceptSend: offset is not reset.
MutAfterAcceptSend(sent) == sent

AfterAcceptSend(sent) == IF sent = MetaSize THEN 0 ELSE sent

\* Mutant of AcceptSend: the communicator is returned without waiting for the ready word.
MutAcceptSend(k) ==
    /\ aret = "pending" /\ astage = "Send"
    /\ SendUnits(down, "meta", k, aoffset, MetaSize)
    /\ aoffset' = AfterAcceptSend(aoffset + k)
    /\ IF aoffset + k = MetaSize THEN astage' = "Start" /\ aret' = "ok"
       ELSE UNCHANGED <<astage, aret>>
    /\ SockUnchanged({"down"})
    /\ UNCHANGED <<aqp, ameta, cvars>>

AcceptSend(k) ==
    /\ aret = "pending" /\ astage = "Send"
    /\ SendUnits(down, "meta", k, aoffset, MetaSize)
    /\ aoffset' = AfterAcceptSend(aoffset + k)
    /\ astage' = IF aoffset + k = MetaSize THEN "PendingReady" ELSE astage
    /\ SockUnchanged({"down"})
    /\ UNCHANGED <<aret, aqp, ameta, cvars>>

AcceptRecvReady(k) ==
    /\ aret = "pending" /\ astage = "PendingReady"
    /\ RecvUnits(up, k, aoffset, ReadySize)
    /\ IF aoffset + k = ReadySize
       THEN astage' = "Start" /\ aoffset' = 0 /\ aret' = "ok"
       ELSE aoffset' = aoffset + k /\ UNCHANGED <<astage, aret>>
    /\ SockUnchanged({"up"})
    /\ UNCHANGED <<aqp, ameta, cvars>>

----------------------------------------------------------------------------
\* A process dies: its sockets are closed by the system.
ConnectorDies ==
    /\ "send" \in Deaths /\ cret = "pending"
    /\ cret' = "dead" /\ upEof' = TRUE
    /\ UNCHANGED <<csock, refused, timedOut, asock, afrom, backlog, strays, up, down,
                   strayUp, downEof, cstage, coffset, cqp, cmeta, avars>>

AcceptorDies ==
    /\ "recv" \in Deaths /\ aret = "pending"
    /\ aret' = "dead" /\ downEof' = TRUE
    /\ UNCHANGED <<csock, refused, timedOut, asock, afrom, backlog, strays, up, down,
                   strayUp, upEof, cvars, astage, aoffset, aqp, ameta>>

\* The sockets move only while their side is being polled.
SocketStep ==
    /\ \/ cret = "pending" /\ (StartConnect \/ PollConnect \/ FinalizeConnect)
       \/ aret = "pending" /\ (TryAccept \/ FinalizeAccept)
    /\ UNCHANGED <<cvars, avars>>

StrayStep == (StrayConnects \/ StraySpeaks) /\ UNCHANGED <<cvars, avars>>

Units == 1 .. SockBuf
Connect ==
    \/ ConnectStart \/ ConnectSocketError \/ ConnectSetup \/ ConnectPeerGone
    \/ \E k \in Units : ConnectSend(k) \/ ConnectRecv(k) \/ ConnectReady(k)
Accept ==
    \/ AcceptStart \/ AcceptReady \/ AcceptPeerGone
    \/ \E k \in Units : AcceptRecv(k) \/ AcceptSend(k) \/ AcceptRecvReady(k)

Next == Connect \/ Accept \/ SocketStep \/ StrayStep \/ ConnectorDies \/ AcceptorDies

Spec == Init /\ [][Next]_vars

(***************************************************************************)
(* NCCL calls connect and accept again until they return a communicator or *)
(* an error, and the network carries what was sent.  Strays owe nothing.   *)
(***************************************************************************)
Fairness == WF_vars(Connect) /\ WF_vars(Accept) /\ WF_vars(SocketStep)
FairSpec == Spec /\ Fairness

----------------------------------------------------------------------------
(***************************************************************************)
(* The streams stay in step with the stages however they are cut: each     *)
(* stage finds next on its stream the item it is about to read, never the  *)
(* tail of the previous one (stage->offset is carried over and reset), and *)
(* it reads from the peer: no stray gets past the check of the magic       *)
(* number, and none puts its data before the peer's.                       *)
(***************************************************************************)
StreamsInStep ==
    /\ (astage \in {"Recv", "Send", "PendingReady"} \/ aret = "ok") => afrom = "peer"
    /\ (asock = "Accepted" /\ afrom = "peer" /\ up # <<>>) => Head(up) = "magic"
    /\ (aret = "pending" /\ astage = "Recv" /\ up # <<>>) => Head(up) = "meta"
    /\ (aret = "pending" /\ astage = "PendingReady" /\ up # <<>>) => Head(up) = "ready"
    /\ (cret = "pending" /\ cstage = "Connecting" /\ down # <<>>) => Head(down) = "meta"

(***************************************************************************)
(* A communicator is handed out only when the QPs of BOTH sides can        *)
(* transmit: the first CTS write or the first data finds its peer in RTS.  *)
(* And the path MTU of the connecting side's QPs ("Adjust the MTU") fits   *)
(* both ports, though each side knows only its own before the exchange.    *)
(* (The accepting side's QPs are configured before it adjusts the MTU.)    *)
(***************************************************************************)
ReturnedCommUsable ==
    (cret = "ok" \/ aret = "ok") =>
        /\ cqp.state = "RTS" /\ aqp.state = "RTS"
        /\ cqp.mtu <= Min2(SendMtu, RecvMtu)

(***************************************************************************)
(* Unless one of the sides fails or dies, both calls return a              *)
(* communicator, whatever refusals within the retry limits, partial        *)
(* transfers and strays come in between.  One thing alone keeps them from  *)
(* it: an accepted stray that never finishes its magic number, which       *)
(* socketFinalizeAccept waits on for ever while the peer stays in the      *)
(* backlog.                                                                *)
(***************************************************************************)
HeldByStray == asock = "Accepted" /\ afrom = "stray" /\ strayUp = <<"silent">>

BothConnect ==
    \/ <>(\/ cret = "ok" /\ aret = "ok"
          \/ cret \in {"error", "dead"} \/ aret \in {"error", "dead"})
    \/ <>[]HeldByStray

(***************************************************************************)
(* When a process dies its peer does not poll for ever: every stage that   *)
(* waits finds the stream closed or the send failing, or had everything it *)
(* needed to return a communicator.  The accepting side owes this once it  *)
(* has accepted the connection of the one that died; the connecting side   *)
(* at any time, its connection not yet made, not yet accepted or waiting   *)
(* behind a stray included.                                                *)
(***************************************************************************)
DeathNoticed ==
    /\ (cret = "dead" /\ afrom = "peer") ~> aret # "pending"
    /\ aret = "dead" ~> cret # "pending"

(***************************************************************************)
(* ECE is used only for enhancements both sides have ("matching            *)
(* enhancements between the requestor and the responder").                 *)
(***************************************************************************)
EceMatched == cqp.ece => SendEce /\ RecvEce

----------------------------------------------------------------------------
(***************************************************************************)
(* What the properties rest on.  The connecting side sends one word: magic *)
(* number, type, metadata, ready.  The stream up is the part of it between *)
(* the units received and the units sent, and the two stages say how many  *)
(* these are.                                                              *)
(***************************************************************************)
Items == {"magic", "type", "meta", "ready"}
Rets == {"pending", "ok", "error", "dead"}

TypeOK ==
    /\ csock \in {"Initialized", "Connecting", "ConnectPolling", "Connected", "Ready", "Error"}
    /\ asock \in {"Initialized", "Accepting", "Accepted", "Ready"}
    /\ afrom \in {"none", "peer", "stray"} /\ backlog \in Seq({"peer", "stray"})
    /\ up \in Seq(Items) /\ down \in Seq(Items) /\ strayUp \in Seq(StrayKinds)
    /\ cstage \in {"Start", "Connect", "Send", "Connecting", "Connected"}
    /\ astage \in {"Start", "Accept", "Recv", "Send", "PendingReady"}
    /\ coffset \in Nat /\ aoffset \in Nat /\ cret \in Rets /\ aret \in Rets

HelloSize == 2
WordSize == HelloSize + MetaSize + ReadySize
Item(i) == CASE i = 1 -> "magic" [] i = 2 -> "type" [] i \in 3 .. HelloSize + MetaSize -> "meta"
             [] OTHER -> "ready"

\* The stream holds the word's units behind the first r, up to the first s.
Window(stream, r, s) ==
    /\ r <= s /\ stream \in Seq(Items) /\ Len(stream) = s - r
    /\ \A i \in 1 .. s - r : stream[i] = Item(r + i)

UnitsSent ==
    CASE cstage = "Send" -> HelloSize + coffset
      [] cstage = "Connecting" -> HelloSize + MetaSize
      [] cstage = "Connected" -> HelloSize + MetaSize + coffset
      [] OTHER -> IF csock = "Ready" THEN HelloSize ELSE 0
UnitsReceived ==
    CASE astage = "Recv" -> HelloSize + aoffset
      [] astage = "Send" -> HelloSize + MetaSize
      [] astage = "PendingReady" -> HelloSize + MetaSize + aoffset
      [] OTHER -> IF asock = "Ready" THEN HelloSize ELSE 0

\* The connecting side's QPs, configured with the reply.
QpsReady == cqp.state = "RTS" /\ cqp.mtu <= Min2(SendMtu, RecvMtu)

\* Once a side has returned, its count stays where it was.
UpInStep(r, s) ==
    /\ Window(up, r, s) /\ s # 1
    /\ cret = "pending" => s = UnitsSent
    /\ aret = "pending" => r = UnitsReceived
    /\ asock # "Ready" => r = 0
    /\ cret = "ok" => s > HelloSize + MetaSize
    /\ aret = "ok" => r > HelloSize + MetaSize
    /\ s > HelloSize + MetaSize => QpsReady

SocketsInStep ==
    /\ cstage \in {"Send", "Connecting", "Connected"} => csock = "Ready"
    /\ cret = "pending" /\ cstage = "Start" => csock = "Initialized"
    /\ astage \in {"Recv", "Send", "PendingReady"} \/ aret = "ok" => asock = "Ready"
    /\ aret = "pending" /\ astage = "Start" => asock = "Initialized"
    /\ asock = "Ready" => afrom = "peer"

\* The metadata of the reply is there, and with it the accepting side's QPs.
ReplyMade == aqp.state = "RTS" /\ ameta.mtu \in Nat /\ ameta.mtu <= Min2(SendMtu, RecvMtu)

MetadataInStep ==
    /\ cmeta.mtu \in 0 .. SendMtu
    /\ \A i \in 1 .. Len(down) : down[i] = "meta"
    /\ aret = "pending" /\ astage = "Recv" => aoffset < MetaSize
    /\ (astage \in {"Send", "PendingReady"} \/ aret = "ok") => ReplyMade
    /\ (\/ down # <<>> \/ cstage = "Connected" \/ cret = "ok"
        \/ cstage = "Connecting" /\ coffset > 0) => ReplyMade
    /\ (cstage = "Connected" \/ cret = "ok") => QpsReady

ConnectInv ==
    /\ TypeOK /\ SocketsInStep /\ MetadataInStep
    /\ \E r, s \in 0 .. WordSize : UpInStep(r, s)
=============================================================================
