------------------------------- MODULE Socket -------------------------------
(***************************************************************************)
(* The bootstrap socket of a connection (socket.cc): the connecting side   *)
(* (ncclSocketConnect, socketStartConnect, socketPollConnect,              *)
(* socketFinalizeConnect), the accepting side (ncclSocketAccept,           *)
(* socketTryAccept, socketFinalizeAccept), both asynchronous and driven by *)
(* ncclSocketReady, and the byte streams between them.                     *)
(*                                                                         *)
(* A stream is a sequence of units (a unit stands for some bytes of the    *)
(* named item), and holds at most SockBuf of them, so that transfers are   *)
(* cut at any unit.  Stray connections reach the same port and present     *)
(* another magic number, hang up, or say nothing for as long as they like. *)
(***************************************************************************)
EXTENDS Naturals, Sequences

CONSTANTS SockBuf,          \* units a stream buffers
          RefusedRetries,   \* RETRY_REFUSED_TIMES
          TimedOutRetries,  \* RETRY_TIMEDOUT_TIMES
          MaxBadConnects,   \* bound: refused or timed-out attempts in a behaviour
          MaxStrays,        \* bound: stray connections in a behaviour
          StrayKinds        \* what strays do: "badmagic" (send another magic), "hangup",
                            \* "silent" (send nothing, or not all of a magic number)

ASSUME SocketAssumption ==
    /\ SockBuf \in Nat \ {0, 1}
    /\ RefusedRetries \in Nat \ {0} /\ TimedOutRetries \in Nat \ {0}
    /\ MaxBadConnects \in Nat /\ MaxStrays \in Nat
    /\ StrayKinds \subseteq {"badmagic", "hangup", "silent"}

VARIABLES csock,      \* state of the connecting socket
          refused, timedOut,   \* its retry counters
          asock,      \* state of the accepting socket
          afrom,      \* connection it has accepted: "none", "peer" or "stray"
          backlog,    \* connections that wait to be accepted
          strays,     \* stray connections made so far
          up, down,   \* streams from and to the connecting side
          strayUp,    \* stream of the stray connection
          upEof, downEof   \* the process at the source of the stream has died

sockvars == <<csock, refused, timedOut, asock, afrom, backlog, strays,
              up, down, strayUp, upEof, downEof>>

SocketInit ==
    /\ csock = "Initialized" /\ refused = 0 /\ timedOut = 0
    /\ asock = "Initialized" /\ afrom = "none"
    /\ backlog = <<>> /\ strays = 0
    /\ up = <<>> /\ down = <<>> /\ strayUp = <<>>
    /\ upEof = FALSE /\ downEof = FALSE

----------------------------------------------------------------------------
(* The connecting side. *)

\* The port listens until the accepting process dies.
Established ==
    /\ ~downEof
    /\ csock' = "Connected"
    /\ backlog' = Append(backlog, "peer")
    /\ UNCHANGED <<refused, timedOut>>

\* A refused attempt is retried until it is the RefusedRetries-th.
Refused ==
    /\ downEof \/ refused + timedOut < MaxBadConnects
    /\ refused' = refused + 1
    /\ csock' = IF refused' = RefusedRetries THEN "Error" ELSE "Connecting"
    /\ UNCHANGED <<timedOut, backlog>>

TimedOut ==
    /\ refused + timedOut < MaxBadConnects
    /\ timedOut' = timedOut + 1
    /\ csock' = IF timedOut' = TimedOutRetries THEN "Error" ELSE "Connecting"
    /\ UNCHANGED <<refused, backlog>>

InProgress == csock' = "ConnectPolling" /\ UNCHANGED <<refused, timedOut, backlog>>

StartConnect ==
    /\ csock = "Connecting"
    /\ Established \/ InProgress \/ Refused \/ TimedOut
    /\ UNCHANGED <<asock, afrom, strays, up, down, strayUp, upEof, downEof>>

PollConnect ==
    /\ csock = "ConnectPolling"
    /\ Established \/ Refused \/ TimedOut
    /\ UNCHANGED <<asock, afrom, strays, up, down, strayUp, upEof, downEof>>

\* The magic number and the type are sent as soon as there is room; once the
\* first bytes are out, socketWait does not return before the rest is.
FinalizeConnect ==
    /\ csock = "Connected"
    /\ Len(up) + 2 <= SockBuf
    /\ up' = up \o <<"magic", "type">>
    /\ csock' = "Ready"
    /\ UNCHANGED <<refused, timedOut, asock, afrom, backlog, strays,
                   down, strayUp, upEof, downEof>>

----------------------------------------------------------------------------
(* The accepting side. *)

\* Somebody else connects to the port.
StrayConnects ==
    /\ ~downEof /\ strays < MaxStrays /\ strayUp = <<>> /\ afrom # "stray"
    /\ \A i \in DOMAIN backlog : backlog[i] # "stray"
    /\ strays' = strays + 1
    /\ \E kind \in StrayKinds : strayUp' = <<kind>>
    /\ backlog' = Append(backlog, "stray")
    /\ UNCHANGED <<csock, refused, timedOut, asock, afrom, up, down, upEof, downEof>>

\* A silent stray may some day finish its magic number or hang up.
StraySpeaks ==
    /\ strayUp = <<"silent">>
    /\ \E kind \in StrayKinds \ {"silent"} : strayUp' = <<kind>>
    /\ UNCHANGED <<csock, refused, timedOut, asock, afrom, backlog, strays, up, down, upEof, downEof>>

TryAccept ==
    /\ asock = "Accepting"
    /\ backlog # <<>>
    /\ asock' = "Accepted" /\ afrom' = Head(backlog) /\ backlog' = Tail(backlog)
    /\ UNCHANGED <<csock, refused, timedOut, strays, up, down, strayUp, upEof, downEof>>

\* What the accepting side finds first on its connection.
AcceptIn == IF afrom = "peer" THEN up ELSE strayUp

\* Mutant of MagicOk: the magic number is not compared.
MutMagicOk(unit) == TRUE

\* The test of the magic number.
MagicOk(unit) == unit = "magic"

\* Mutant of AfterHello: the type is not read.
MutAfterHello(stream) == Tail(stream)

\* The stream behind the magic number and the type.
AfterHello(stream) == Tail(Tail(stream))

\* Nothing happens while the magic number is not there.  A wrong one closes the
\* connection and goes back to accepting; the right one is followed by the wait
\* for the type, which all users of the magic number agree on.
FinalizeAccept ==
    /\ asock = "Accepted"
    /\ AcceptIn # <<>> /\ Head(AcceptIn) \notin {"hangup", "silent"}
    /\ IF MagicOk(Head(AcceptIn))
       THEN /\ asock' = "Ready"
            /\ IF afrom = "peer" THEN up' = AfterHello(up) /\ UNCHANGED strayUp
               ELSE strayUp' = <<>> /\ UNCHANGED up
            /\ UNCHANGED afrom
       ELSE /\ asock' = "Accepting" /\ afrom' = "none"
            /\ IF afrom = "peer" THEN up' = <<>> /\ UNCHANGED strayUp
               ELSE strayUp' = <<>> /\ UNCHANGED up
    /\ UNCHANGED <<csock, refused, timedOut, backlog, strays, down, upEof, downEof>>

----------------------------------------------------------------------------
(***************************************************************************)
(* ncclSocketProgress: k more units of the item, of which offset out of    *)
(* size are through.  A receive reports the connection closed when the     *)
(* stream is empty and its source gone; it is reset, with what it still    *)
(* holds, when the source went away with data unread.  A send to a process *)
(* that is gone may be buffered or fail.                                   *)
(***************************************************************************)
SendUnits(stream, item, k, offset, size) ==
    /\ k + offset <= size /\ Len(stream) + k <= SockBuf
    /\ stream' = stream \o [i \in 1 .. k |-> item]

RecvUnits(stream, k, offset, size) ==
    /\ k + offset <= size /\ k <= Len(stream)
    /\ stream' = SubSeq(stream, k + 1, Len(stream))

\* Mutant of RecvFails: a receive of no bytes passes for one that would block.
MutRecvFails(stream, eof, other) == FALSE

RecvFails(stream, eof, other) == eof /\ (stream = <<>> \/ other # <<>>)
SendFails(eof) == eof
=============================================================================
