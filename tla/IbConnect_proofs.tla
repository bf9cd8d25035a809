-------------------------- MODULE IbConnect_proofs --------------------------
(***************************************************************************)
(* For every size of the metadata, the ready word and the socket buffers,  *)
(* and whatever fails, dies or strays: the stages read what was sent for   *)
(* them, and a returned communicator has its QPs ready on both sides.      *)
(***************************************************************************)
EXTENDS IbConnect, SequenceTheorems, TLAPS

LEMMA Constants ==
    /\ MetaSize \in Nat \ {0} /\ ReadySize \in Nat \ {0} /\ SockBuf \in Nat
    /\ SendMtu \in Nat /\ RecvMtu \in Nat /\ WordSize \in Nat
    /\ WordSize = HelloSize + MetaSize + ReadySize /\ HelloSize = 2
    /\ "magic" \notin StrayKinds
  BY ConnectAssumption, SocketAssumption DEF WordSize, HelloSize

----------------------------------------------------------------------------
(* Streams. *)

Repeated(k, item) == [i \in 1 .. k |-> item]

Longer(t, u, k, item) ==
    /\ t \in Seq(Items) /\ Len(t) = Len(u) + k
    /\ \A i \in 1 .. Len(u) : t[i] = u[i]
    /\ \A i \in Len(u) + 1 .. Len(u) + k : t[i] = item

\* What sending k units of an item does to a stream.
LEMMA Appended ==
    ASSUME NEW u \in Seq(Items), NEW k \in Nat, NEW item \in Items,
           NEW t, t = u \o Repeated(k, item)
    PROVE  Longer(t, u, k, item)
<1> DEFINE v == Repeated(k, item)
<1>1. v \in Seq(Items) /\ Len(v) = k /\ \A i \in 1 .. k : v[i] = item
  BY DEF Repeated
<1> HIDE DEF v
<1>2. t = u \o v
  BY DEF v
<1>3. /\ t \in Seq(Items) /\ Len(t) = Len(u) + Len(v)
      /\ \A i \in 1 .. Len(u) + Len(v) : t[i] = IF i <= Len(u) THEN u[i] ELSE v[i - Len(u)]
  BY <1>1, <1>2, ConcatProperties
<1>4. Len(u) \in Nat
  OBVIOUS
<1>5. ASSUME NEW i \in Len(u) + 1 .. Len(u) + k PROVE t[i] = item
  <2>1. i \in 1 .. Len(u) + Len(v) /\ ~(i <= Len(u)) /\ i - Len(u) \in 1 .. k
    BY <1>1, <1>4
  <2>2. t[i] = v[i - Len(u)]
    BY <1>3, <2>1
  <2> QED
    BY <1>1, <2>1, <2>2
<1> QED
  BY <1>1, <1>3, <1>4, <1>5 DEF Longer

\* What receiving k units does.
LEMMA Taken ==
    ASSUME NEW u \in Seq(Items), NEW k \in Nat, k <= Len(u),
           NEW t, t = SubSeq(u, k + 1, Len(u))
    PROVE  t \in Seq(Items) /\ Len(t) = Len(u) - k /\ \A i \in 1 .. Len(u) - k : t[i] = u[k + i]
<1>1. Len(u) \in Nat /\ k + 1 \in 1 .. Len(u) + 1
  OBVIOUS
<1>2. CASE k = Len(u)
  BY <1>1, <1>2, SubSeqProperties
<1>3. CASE k < Len(u)
  <2>1. /\ t \in Seq(Items) /\ Len(t) = Len(u) - (k + 1) + 1
        /\ \A i \in 1 .. Len(u) - (k + 1) + 1 : t[i] = u[(k + 1) + i - 1]
    BY <1>1, <1>3, SubSeqProperties
  <2>2. Len(u) - (k + 1) + 1 = Len(u) - k
    BY <1>1
  <2>3. ASSUME NEW i \in 1 .. Len(u) - k PROVE t[i] = u[k + i]
    <3>1. (k + 1) + i - 1 = k + i
      BY <1>1
    <3> QED
      BY <2>1, <2>2, <3>1
  <2> QED
    BY <2>1, <2>2, <2>3, Zenon
<1> QED
  BY <1>1, <1>2, <1>3

LEMMA WindowSent ==
    ASSUME NEW r \in Nat, NEW s \in Nat, NEW u, Window(u, r, s), NEW k \in Nat, NEW item \in Items,
           \A i \in s + 1 .. s + k : Item(i) = item,
           NEW t, t = u \o Repeated(k, item)
    PROVE  Window(t, r, s + k)
<1>1. u \in Seq(Items) /\ Len(u) = s - r /\ r <= s /\ \A i \in 1 .. s - r : u[i] = Item(r + i)
  BY DEF Window
<1>2. /\ t \in Seq(Items) /\ Len(t) = Len(u) + k
      /\ \A i \in 1 .. Len(u) : t[i] = u[i]
      /\ \A i \in Len(u) + 1 .. Len(u) + k : t[i] = item
  <2>1. Longer(t, u, k, item)
    BY <1>1, Appended
  <2> QED
    BY <2>1 DEF Longer
<1>3. ASSUME NEW i \in 1 .. s + k - r PROVE t[i] = Item(r + i)
  <2>1. CASE i <= s - r
    <3>1. i \in 1 .. Len(u) /\ i \in 1 .. s - r
      BY <1>1, <2>1
    <3> QED
      BY <1>1, <1>2, <3>1
  <2>2. CASE i > s - r
    <3>1. i \in Len(u) + 1 .. Len(u) + k /\ r + i \in s + 1 .. s + k
      BY <1>1, <2>2
    <3> QED
      BY <1>2, <3>1
  <2>3. i \in Int /\ s - r \in Int
    BY <1>1
  <2>4. i <= s - r \/ i > s - r
    BY <2>3
  <2> QED
    BY <2>1, <2>2, <2>4
<1>4. Len(t) = s + k - r /\ r <= s + k
  BY <1>1, <1>2
<1> QED
  BY <1>2, <1>3, <1>4 DEF Window

LEMMA WindowReceived ==
    ASSUME NEW r \in Nat, NEW s \in Nat, NEW u, Window(u, r, s), NEW k \in Nat, k <= Len(u),
           NEW t, t = SubSeq(u, k + 1, Len(u))
    PROVE  Window(t, r + k, s)
<1>1. u \in Seq(Items) /\ Len(u) = s - r /\ r <= s /\ \A i \in 1 .. s - r : u[i] = Item(r + i)
  BY DEF Window
<1>2. t \in Seq(Items) /\ Len(t) = Len(u) - k /\ \A i \in 1 .. Len(u) - k : t[i] = u[k + i]
  <2>1. u \in Seq(Items) /\ k <= Len(u)
    BY <1>1
  <2> QED
    BY <2>1, Taken, Zenon
<1>3. ASSUME NEW i \in 1 .. s - (r + k) PROVE t[i] = Item((r + k) + i)
  <2>1. i \in 1 .. Len(u) - k /\ k + i \in 1 .. s - r /\ r + (k + i) = (r + k) + i
    BY <1>1
  <2>2. t[i] = u[k + i] /\ u[k + i] = Item(r + (k + i))
    BY <1>1, <1>2, <2>1
  <2> QED
    BY <2>1, <2>2
<1>4. Len(t) = s - (r + k) /\ r + k <= s
  BY <1>1, <1>2
<1> QED
  BY <1>2, <1>3, <1>4 DEF Window

----------------------------------------------------------------------------
(* The steps. *)

\* The invariant with the counts of received and sent units.
InStep(r, s) == TypeOK /\ SocketsInStep /\ MetadataInStep /\ UpInStep(r, s)

LEMMA ConnectStartInv ==
    ASSUME NEW r \in 0 .. WordSize, NEW s \in 0 .. WordSize, InStep(r, s), ConnectStart
    PROVE  InStep(r, s)'
<1> USE DEF InStep, ConnectStart, SockUnchanged, avars, ConnectFails
<1>1. TypeOK'
  BY DEF TypeOK, Rets
<1>2. SocketsInStep'
  BY DEF SocketsInStep
<1>3. MetadataInStep'
  BY DEF MetadataInStep, ReplyMade, QpsReady, SocketsInStep
<1>4. UpInStep(r, s)'
  BY DEF UpInStep, SocketsInStep, QpsReady, UnitsSent, UnitsReceived
<1> QED
  BY <1>1, <1>2, <1>3, <1>4

LEMMA ConnectSocketErrorInv ==
    ASSUME NEW r \in 0 .. WordSize, NEW s \in 0 .. WordSize, InStep(r, s), ConnectSocketError
    PROVE  InStep(r, s)'
<1> USE DEF InStep, ConnectSocketError, sockvars, avars, ConnectFails
<1>1. TypeOK'
  BY DEF TypeOK, Rets
<1>2. SocketsInStep'
  BY DEF SocketsInStep
<1>3. MetadataInStep'
  BY DEF MetadataInStep, ReplyMade, QpsReady
<1>4. UpInStep(r, s)'
  BY DEF UpInStep, UnitsReceived, QpsReady
<1> QED
  BY <1>1, <1>2, <1>3, <1>4

LEMMA ConnectSetupInv ==
    ASSUME NEW r \in 0 .. WordSize, NEW s \in 0 .. WordSize, InStep(r, s), ConnectSetup
    PROVE  InStep(r, s)'
<1> USE DEF InStep, ConnectSetup, sockvars, avars, ConnectFails
<1>1. TypeOK'
  BY DEF TypeOK, Rets
<1>2. SocketsInStep'
  BY DEF SocketsInStep
<1>3. MetadataInStep'
  <2>1. cmeta'.mtu \in 0 .. SendMtu
    BY Constants DEF MetadataInStep
  <2> QED
    BY <2>1 DEF MetadataInStep, ReplyMade, QpsReady
<1>4. UpInStep(r, s)'
  BY Constants DEF UpInStep, UnitsSent, UnitsReceived, QpsReady
<1> QED
  BY <1>1, <1>2, <1>3, <1>4

LEMMA ConnectPeerGoneInv ==
    ASSUME NEW r \in 0 .. WordSize, NEW s \in 0 .. WordSize, InStep(r, s), ConnectPeerGone
    PROVE  InStep(r, s)'
<1> USE DEF InStep, ConnectPeerGone, sockvars, avars, ConnectFails
<1>1. TypeOK'
  BY DEF TypeOK, Rets
<1>2. SocketsInStep'
  BY DEF SocketsInStep
<1>3. MetadataInStep'
  BY DEF MetadataInStep, ReplyMade, QpsReady
<1>4. UpInStep(r, s)'
  BY DEF UpInStep, UnitsReceived, QpsReady
<1> QED
  BY <1>1, <1>2, <1>3, <1>4

LEMMA AcceptStartInv ==
    ASSUME NEW r \in 0 .. WordSize, NEW s \in 0 .. WordSize, InStep(r, s), AcceptStart
    PROVE  InStep(r, s)'
<1> USE DEF InStep, AcceptStart, SockUnchanged, cvars, AcceptFails
<1>1. TypeOK'
  BY DEF TypeOK, Rets
<1>2. SocketsInStep'
  BY DEF SocketsInStep
<1>3. MetadataInStep'
  BY DEF MetadataInStep, ReplyMade, QpsReady
<1>4. UpInStep(r, s)'
  BY DEF UpInStep, SocketsInStep, QpsReady, UnitsSent, UnitsReceived
<1> QED
  BY <1>1, <1>2, <1>3, <1>4

LEMMA AcceptReadyInv ==
    ASSUME NEW r \in 0 .. WordSize, NEW s \in 0 .. WordSize, InStep(r, s), AcceptReady
    PROVE  InStep(r, s)'
<1> USE DEF InStep, AcceptReady, sockvars, cvars
<1>1. TypeOK'
  BY DEF TypeOK, Rets
<1>2. SocketsInStep'
  BY DEF SocketsInStep
<1>3. MetadataInStep'
  BY Constants DEF MetadataInStep, ReplyMade, QpsReady
<1>4. UpInStep(r, s)'
  BY Constants DEF UpInStep, UnitsSent, UnitsReceived, QpsReady
<1> QED
  BY <1>1, <1>2, <1>3, <1>4

LEMMA AcceptPeerGoneInv ==
    ASSUME NEW r \in 0 .. WordSize, NEW s \in 0 .. WordSize, InStep(r, s), AcceptPeerGone
    PROVE  InStep(r, s)'
<1> USE DEF InStep, AcceptPeerGone, sockvars, cvars, AcceptFails
<1>1. TypeOK'
  BY DEF TypeOK, Rets
<1>2. SocketsInStep'
  BY DEF SocketsInStep
<1>3. MetadataInStep'
  BY DEF MetadataInStep, ReplyMade, QpsReady
<1>4. UpInStep(r, s)'
  BY DEF UpInStep, UnitsSent, QpsReady
<1> QED
  BY <1>1, <1>2, <1>3, <1>4

LEMMA DeathInv ==
    ASSUME NEW r \in 0 .. WordSize, NEW s \in 0 .. WordSize, InStep(r, s), ConnectorDies \/ AcceptorDies
    PROVE  InStep(r, s)'
<1> USE DEF InStep, ConnectorDies, AcceptorDies, cvars, avars
<1>1. TypeOK'
  BY DEF TypeOK, Rets
<1>2. SocketsInStep'
  BY DEF SocketsInStep
<1>3. MetadataInStep'
  BY DEF MetadataInStep, ReplyMade, QpsReady
<1>4. UpInStep(r, s)'
  BY DEF UpInStep, UnitsSent, UnitsReceived, QpsReady
<1> QED
  BY <1>1, <1>2, <1>3, <1>4

LEMMA ItemKinds ==
    ASSUME NEW i \in Nat
    PROVE  /\ i > HelloSize /\ i <= HelloSize + MetaSize => Item(i) = "meta"
           /\ i > HelloSize + MetaSize => Item(i) = "ready"
           /\ Item(1) = "magic" /\ Item(2) = "type"
  BY Constants DEF Item

\* k more units of the word's next item are sent.
LEMMA UpSent ==
    ASSUME NEW r \in 0 .. WordSize, NEW s \in 0 .. WordSize, Window(up, r, s), NEW k \in Nat,
           NEW item \in Items, up' = up \o [i \in 1 .. k |-> item],
           \A i \in s + 1 .. s + k : Item(i) = item
    PROVE  Window(up', r, s + k) /\ up' \in Seq(Items)
<1>1. up' = up \o Repeated(k, item)
  BY DEF Repeated
<1>2. r \in Nat /\ s \in Nat
  BY Constants
<1>3. Window(up', r, s + k)
  BY <1>1, <1>2, WindowSent
<1> QED
  BY <1>3 DEF Window

LEMMA UpReceived ==
    ASSUME NEW r \in 0 .. WordSize, NEW s \in 0 .. WordSize, Window(up, r, s), NEW k \in Nat,
           k <= Len(up), up' = SubSeq(up, k + 1, Len(up))
    PROVE  Window(up', r + k, s) /\ up' \in Seq(Items) /\ r + k \in 0 .. WordSize
<1>1. r \in Nat /\ s \in Nat
  BY Constants
<1>2. Window(up', r + k, s)
  BY <1>1, WindowReceived
<1>3. r + k <= s /\ up' \in Seq(Items)
  BY <1>2, Zenon DEF Window
<1>4. r + k \in 0 .. WordSize
  BY <1>1, <1>3, Constants
<1> QED
  BY <1>2, <1>3, <1>4

LEMMA ConnectSendInv ==
    ASSUME NEW r \in 0 .. WordSize, NEW s \in 0 .. WordSize, InStep(r, s), NEW k \in Units, ConnectSend(k)
    PROVE  s + k \in 0 .. WordSize /\ InStep(r, s + k)'
<1> USE DEF InStep
<1>1. /\ cret = "pending" /\ cstage = "Send" /\ k + coffset <= MetaSize
      /\ up' = up \o [i \in 1 .. k |-> "meta"]
      /\ coffset' = IF coffset + k = MetaSize THEN 0 ELSE coffset + k
      /\ cstage' = IF coffset + k = MetaSize THEN "Connecting" ELSE "Send"
      /\ UNCHANGED <<csock, asock, afrom, backlog, down, strayUp, cret, cqp, cmeta,
                     astage, aoffset, aret, aqp, ameta>>
  BY DEF ConnectSend, SendUnits, AfterConnectSend, SockUnchanged, avars
<1>2. k \in Nat \ {0} /\ coffset \in Nat /\ s = HelloSize + coffset /\ s + k \in 0 .. WordSize
  <2>1. k \in Nat \ {0} /\ coffset \in Nat /\ s \in Nat
    BY Constants DEF Units, TypeOK
  <2>2. s = HelloSize + coffset
    BY <1>1 DEF UpInStep, UnitsSent
  <2> QED
    BY <1>1, <2>1, <2>2, Constants
<1>3. \A i \in s + 1 .. s + k : Item(i) = "meta"
  BY <1>1, <1>2, Constants, ItemKinds
<1>4. Window(up', r, s + k) /\ up' \in Seq(Items)
  BY <1>2, <1>1, <1>3, UpSent DEF UpInStep, Items
<1>5. TypeOK'
  BY <1>1, <1>2, <1>4 DEF TypeOK
<1>6. SocketsInStep'
  BY <1>1 DEF SocketsInStep
<1>7. MetadataInStep'
  BY <1>1, <1>2 DEF MetadataInStep, ReplyMade, QpsReady
<1>8. UpInStep(r, s + k)'
  <2>1. cret' = "pending" /\ s + k = UnitsSent'
    <3>1. CASE coffset + k = MetaSize
      <4>1. UnitsSent' = HelloSize + MetaSize
        BY <1>1, <3>1 DEF UnitsSent
      <4> QED
        BY <1>1, <1>2, <3>1, <4>1, Constants
    <3>2. CASE coffset + k # MetaSize
      <4>1. UnitsSent' = HelloSize + coffset'
        BY <1>1, <3>2 DEF UnitsSent
      <4> QED
        BY <1>1, <1>2, <3>2, <4>1, Constants
    <3> QED
      BY <3>1, <3>2
  <2>2. UnitsReceived' = UnitsReceived
    BY <1>1 DEF UnitsReceived
  <2>3. s + k # 1 /\ ~(s + k > HelloSize + MetaSize)
    BY <1>1, <1>2, Constants
  <2> QED
    BY <1>1, <1>4, <2>1, <2>2, <2>3 DEF UpInStep
<1> QED
  BY <1>2, <1>5, <1>6, <1>7, <1>8

LEMMA ConnectReadyInv ==
    ASSUME NEW r \in 0 .. WordSize, NEW s \in 0 .. WordSize, InStep(r, s), NEW k \in Units, ConnectReady(k)
    PROVE  s + k \in 0 .. WordSize /\ InStep(r, s + k)'
<1> USE DEF InStep
<1>1. /\ cret = "pending" /\ cstage = "Connected" /\ k + coffset <= ReadySize
      /\ up' = up \o [i \in 1 .. k |-> "ready"]
      /\ coffset' = coffset + k
      /\ IF coffset' = ReadySize THEN cstage' = "Start" /\ cret' = "ok"
         ELSE cstage' = "Connected" /\ cret' = "pending"
      /\ UNCHANGED <<csock, asock, afrom, backlog, down, strayUp, cqp, cmeta,
                     astage, aoffset, aret, aqp, ameta>>
  BY DEF ConnectReady, SendUnits, SockUnchanged, avars
<1>2. k \in Nat \ {0} /\ coffset \in Nat /\ s = HelloSize + MetaSize + coffset /\ s + k \in 0 .. WordSize
  <2>1. k \in Nat \ {0} /\ coffset \in Nat /\ s \in Nat
    BY Constants DEF Units, TypeOK
  <2>2. s = HelloSize + MetaSize + coffset
    BY <1>1 DEF UpInStep, UnitsSent
  <2> QED
    BY <1>1, <2>1, <2>2, Constants
<1>3. \A i \in s + 1 .. s + k : Item(i) = "ready"
  BY <1>1, <1>2, Constants, ItemKinds
<1>4. Window(up', r, s + k) /\ up' \in Seq(Items)
  BY <1>2, <1>1, <1>3, UpSent DEF UpInStep, Items
<1>5. TypeOK'
  <2>1. cret' \in Rets /\ cstage' \in {"Start", "Connected"} /\ coffset' \in Nat
    BY <1>1, <1>2 DEF Rets
  <2>2. up' \in Seq(Items)
    BY <1>4
  <2> QED
    BY <1>1, <2>1, <2>2 DEF TypeOK
<1>6. SocketsInStep'
  BY <1>1 DEF SocketsInStep
<1>7. MetadataInStep'
  BY <1>1, <1>2 DEF MetadataInStep, ReplyMade, QpsReady
<1>8. UpInStep(r, s + k)'
  <2>1. QpsReady'
    BY <1>1 DEF MetadataInStep, QpsReady
  <2>2. cret' = "pending" => s + k = UnitsSent'
    <3> SUFFICES ASSUME cret' = "pending" PROVE s + k = UnitsSent'
      OBVIOUS
    <3>1. cstage' = "Connected" /\ coffset' = coffset + k
      BY <1>1
    <3>2. UnitsSent' = HelloSize + MetaSize + coffset'
      BY <3>1 DEF UnitsSent
    <3> QED
      BY <1>2, <3>1, <3>2, Constants
  <2>3. UnitsReceived' = UnitsReceived
    BY <1>1 DEF UnitsReceived
  <2>4. s + k # 1 /\ s + k > HelloSize + MetaSize
    BY <1>1, <1>2, Constants
  <2> QED
    BY <1>1, <1>4, <2>1, <2>2, <2>3, <2>4 DEF UpInStep
<1> QED
  BY <1>2, <1>5, <1>6, <1>7, <1>8

LEMMA DownTypes ==
    ASSUME TypeOK, MetadataInStep, NEW k \in Nat \ {0}, k <= Len(down),
           down' = SubSeq(down, k + 1, Len(down))
    PROVE  /\ down' \in Seq(Items) /\ down # <<>> /\ ReplyMade
           /\ \A i \in 1 .. Len(down') : down'[i] = "meta"
<1>1. down \in Seq(Items) /\ Len(down) \in Nat
  BY DEF TypeOK
<1>2. /\ down' \in Seq(Items) /\ Len(down') = Len(down) - k
      /\ \A i \in 1 .. Len(down) - k : down'[i] = down[k + i]
  BY <1>1, Taken
<1>3. down # <<>>
  BY <1>1
<1>4. ASSUME NEW i \in 1 .. Len(down') PROVE down'[i] = "meta"
  <2>1. i \in 1 .. Len(down) - k /\ k + i \in 1 .. Len(down)
    BY <1>1, <1>2
  <2>2. down'[i] = down[k + i]
    BY <1>2, <2>1
  <2> QED
    BY <2>1, <2>2 DEF MetadataInStep
<1> QED
  BY <1>2, <1>3, <1>4 DEF MetadataInStep

LEMMA ConnectRecvInv ==
    ASSUME NEW r \in 0 .. WordSize, NEW s \in 0 .. WordSize, InStep(r, s), NEW k \in Units, ConnectRecv(k)
    PROVE  InStep(r, s)'
<1> USE DEF InStep
<1>1. /\ cret = "pending" /\ cstage = "Connecting" /\ k + coffset <= MetaSize /\ k <= Len(down)
      /\ down' = SubSeq(down, k + 1, Len(down))
      /\ IF coffset + k = MetaSize THEN ConnectRts
         ELSE coffset' = coffset + k /\ UNCHANGED <<cstage, cret, cqp, cmeta>>
      /\ UNCHANGED <<csock, asock, afrom, backlog, up, strayUp, astage, aoffset, aret, aqp, ameta>>
  BY DEF ConnectRecv, RecvUnits, SockUnchanged, avars
<1>2. k \in Nat \ {0} /\ coffset \in Nat
  BY Constants DEF Units, TypeOK
<1>3. /\ down' \in Seq(Items) /\ ReplyMade
      /\ \A i \in 1 .. Len(down') : down'[i] = "meta"
  BY <1>1, <1>2, DownTypes
<1>4. cmeta.mtu \in 0 .. SendMtu /\ cmeta' = cmeta
  BY <1>1 DEF MetadataInStep, ConnectRts, ConnectFails
<1>5. TypeOK'
  BY <1>1, <1>2, <1>3, Constants DEF TypeOK, Rets, ConnectRts, ConnectFails
<1>6. SocketsInStep'
  BY <1>1 DEF SocketsInStep, ConnectRts, ConnectFails
<1>7. MetadataInStep'
  <2>1. cstage' = "Connected" \/ cret' = "ok" => cqp' = [state |-> "RTS", mtu |-> ameta.mtu, ece |-> ameta.ece]
    BY <1>1 DEF ConnectRts, ConnectFails
  <2>2. cstage' = "Connected" \/ cret' = "ok" => QpsReady'
    BY <1>3, <2>1 DEF ReplyMade, QpsReady
  <2>3. ReplyMade'
    BY <1>1, <1>3 DEF ReplyMade
  <2>4. aret' = "pending" /\ astage' = "Recv" => aoffset' < MetaSize
    BY <1>1 DEF MetadataInStep
  <2> QED
    BY <1>3, <1>4, <2>2, <2>3, <2>4 DEF MetadataInStep
<1>8. UpInStep(r, s)'
  <2>1. s = HelloSize + MetaSize
    BY <1>1 DEF UpInStep, UnitsSent
  <2>2. cret' = "pending" => s = UnitsSent'
    <3> SUFFICES ASSUME cret' = "pending" PROVE s = UnitsSent'
      OBVIOUS
    <3>1. cstage' = "Connecting" \/ (cstage' = "Connected" /\ coffset' = 0)
      <4>1. CASE coffset + k = MetaSize
        <5>1. ConnectRts
          BY <1>1, <4>1
        <5> QED
          BY <1>1, <5>1 DEF ConnectRts, ConnectFails
      <4>2. CASE coffset + k # MetaSize
        BY <1>1, <4>2
      <4> QED
        BY <4>1, <4>2
    <3>2. CASE cstage' = "Connecting"
      BY <2>1, <3>2 DEF UnitsSent
    <3>3. CASE cstage' = "Connected" /\ coffset' = 0
      <4>1. UnitsSent' = HelloSize + MetaSize + 0
        BY <3>3 DEF UnitsSent
      <4> QED
        BY <2>1, <4>1, Constants
    <3> QED
      BY <3>1, <3>2, <3>3
  <2>3. cret' # "ok" /\ UnitsReceived' = UnitsReceived
    BY <1>1 DEF ConnectRts, ConnectFails, UnitsReceived
  <2> QED
    BY <1>1, <2>1, <2>2, <2>3, Constants DEF UpInStep
<1> QED
  BY <1>5, <1>6, <1>7, <1>8

LEMMA AcceptRecvInv ==
    ASSUME NEW r \in 0 .. WordSize, NEW s \in 0 .. WordSize, InStep(r, s), NEW k \in Units, AcceptRecv(k)
    PROVE  r + k \in 0 .. WordSize /\ InStep(r + k, s)'
<1> USE DEF InStep
<1>1. /\ aret = "pending" /\ astage = "Recv" /\ k + aoffset <= MetaSize /\ k <= Len(up)
      /\ up' = SubSeq(up, k + 1, Len(up))
      /\ IF aoffset + k = MetaSize THEN AcceptRts
         ELSE aoffset' = aoffset + k /\ UNCHANGED <<astage, aret, aqp, ameta>>
      /\ UNCHANGED <<csock, asock, afrom, backlog, down, strayUp, cstage, coffset, cret, cqp, cmeta>>
  BY DEF AcceptRecv, RecvUnits, SockUnchanged, cvars
<1>2. k \in Nat \ {0} /\ aoffset \in Nat /\ r = HelloSize + aoffset
  <2>1. k \in Nat \ {0} /\ aoffset \in Nat
    BY Constants DEF Units, TypeOK
  <2> QED
    BY <1>1, <2>1 DEF UpInStep, UnitsReceived
<1>3. Window(up', r + k, s) /\ up' \in Seq(Items) /\ r + k \in 0 .. WordSize
  BY <1>1, <1>2, UpReceived DEF UpInStep
<1>4. TypeOK'
  <2>1. /\ astage' \in {astage, "Start", "Send"} /\ aoffset' \in Nat
        /\ aret' \in {aret, "error"}
    BY <1>1, <1>2 DEF AcceptRts, AcceptFails
  <2>2. astage' \in {"Start", "Recv", "Send"} /\ aret' \in Rets
    BY <1>1, <2>1 DEF Rets
  <2> QED
    BY <1>1, <1>3, <2>1, <2>2 DEF TypeOK
<1>5. SocketsInStep'
  BY <1>1 DEF SocketsInStep, AcceptRts, AcceptFails
<1>6. ReplyMade => ReplyMade'
  <2>1. CASE UNCHANGED <<aqp, ameta>>
    BY <2>1 DEF ReplyMade
  <2>2. CASE ~UNCHANGED <<aqp, ameta>>
    <3>1. aqp' = [state |-> "RTS", mtu |-> AcceptPathMtu, ece |-> cmeta.ece]
          /\ \E ece \in ReplyEce : ameta' = [mtu |-> ReplyMtu, ece |-> ece]
      BY <1>1, <2>2 DEF AcceptRts, AcceptFails
    <3>2. aqp'.state = "RTS" /\ ameta'.mtu = ReplyMtu
      BY <3>1
    <3>3. cmeta.mtu \in 0 .. SendMtu
      BY DEF MetadataInStep
    <3> QED
      BY <3>2, <3>3, Constants DEF ReplyMade, ReplyMtu, Min2
  <2> QED
    BY <2>1, <2>2
<1>7. astage' = "Send" => ReplyMade'
  <2> SUFFICES ASSUME astage' = "Send" PROVE ReplyMade'
    OBVIOUS
  <2>1. aqp' = [state |-> "RTS", mtu |-> AcceptPathMtu, ece |-> cmeta.ece]
        /\ \E ece \in ReplyEce : ameta' = [mtu |-> ReplyMtu, ece |-> ece]
    BY <1>1 DEF AcceptRts, AcceptFails
  <2>2. aqp'.state = "RTS" /\ ameta'.mtu = ReplyMtu
    BY <2>1
  <2>3. cmeta.mtu \in 0 .. SendMtu
    BY DEF MetadataInStep
  <2> QED
    BY <2>2, <2>3, Constants DEF ReplyMade, ReplyMtu, Min2
<1>8. /\ astage' # "PendingReady" /\ aret' # "ok"
      /\ aret' = "pending" /\ astage' = "Recv" => aoffset' = aoffset + k /\ aoffset + k # MetaSize
      /\ aret' = "pending" => astage' \in {"Recv", "Send"}
      /\ aret' = "pending" /\ astage' = "Send" => aoffset + k = MetaSize
  BY <1>1 DEF AcceptRts, AcceptFails
<1>9. MetadataInStep'
  <2>1. aret' = "pending" /\ astage' = "Recv" => aoffset' < MetaSize
    BY <1>1, <1>2, <1>8, Constants
  <2> HIDE DEF InStep
  <2>2. MetadataInStep
    BY DEF InStep
  <2>3. QpsReady' <=> QpsReady
    BY <1>1 DEF QpsReady
  <2> QED
    BY <1>1, <1>6, <1>7, <1>8, <2>1, <2>2, <2>3 DEF MetadataInStep
<1>10. UpInStep(r + k, s)'
  <2>1. UnitsSent' = UnitsSent
    BY <1>1 DEF UnitsSent
  <2>2. aret' = "pending" => r + k = UnitsReceived'
    BY <1>2, <1>8, Constants DEF UnitsReceived
  <2>3. asock' = "Ready"
    BY <1>1 DEF SocketsInStep
  <2>4. QpsReady' <=> QpsReady
    BY <1>1 DEF QpsReady
  <2> QED
    BY <1>1, <1>3, <1>8, <2>1, <2>2, <2>3, <2>4 DEF UpInStep
<1> QED
  BY <1>3, <1>4, <1>5, <1>9, <1>10

LEMMA AcceptSendInv ==
    ASSUME NEW r \in 0 .. WordSize, NEW s \in 0 .. WordSize, InStep(r, s), NEW k \in Units, AcceptSend(k)
    PROVE  InStep(r, s)'
<1> USE DEF InStep
<1>1. /\ aret = "pending" /\ astage = "Send" /\ k + aoffset <= MetaSize
      /\ down' = down \o [i \in 1 .. k |-> "meta"]
      /\ aoffset' = IF aoffset + k = MetaSize THEN 0 ELSE aoffset + k
      /\ astage' = IF aoffset + k = MetaSize THEN "PendingReady" ELSE "Send"
      /\ UNCHANGED <<csock, asock, afrom, backlog, up, strayUp, aret, aqp, ameta,
                     cstage, coffset, cret, cqp, cmeta>>
  BY DEF AcceptSend, SendUnits, AfterAcceptSend, SockUnchanged, cvars
<1>2. k \in Nat /\ aoffset \in Nat /\ down \in Seq(Items) /\ Len(down) \in Nat
  BY Constants DEF Units, TypeOK
<1>3. Longer(down', down, k, "meta")
  <2>1. down' = down \o Repeated(k, "meta")
    BY <1>1 DEF Repeated
  <2>2. "meta" \in Items
    BY DEF Items
  <2> QED
    BY <1>2, <2>1, <2>2, Appended
<1>4. \A i \in 1 .. Len(down') : down'[i] = "meta"
  <2>1. /\ Len(down') = Len(down) + k /\ \A i \in 1 .. Len(down) : down'[i] = down[i]
        /\ \A i \in Len(down) + 1 .. Len(down) + k : down'[i] = "meta"
    BY <1>3 DEF Longer
  <2>2. ASSUME NEW i \in 1 .. Len(down') PROVE i \in 1 .. Len(down) \/ i \in Len(down) + 1 .. Len(down) + k
    BY <1>2, <2>1
  <2>3. \A i \in 1 .. Len(down) : down[i] = "meta"
    BY DEF MetadataInStep
  <2> QED
    BY <2>1, <2>2, <2>3
<1>5. TypeOK'
  <2>1. down' \in Seq(Items)
    BY <1>3 DEF Longer
  <2> QED
    BY <1>1, <1>2, <2>1 DEF TypeOK
<1>6. SocketsInStep'
  BY <1>1 DEF SocketsInStep
<1>7. ReplyMade'
  BY <1>1 DEF MetadataInStep, ReplyMade, QpsReady
<1>8. MetadataInStep'
  BY <1>1, <1>4, <1>7 DEF MetadataInStep, QpsReady
<1>9. UpInStep(r, s)'
  <2>1. UnitsSent' = UnitsSent
    BY <1>1 DEF UnitsSent
  <2>2. UnitsReceived' = UnitsReceived
    BY <1>1, Constants DEF UnitsReceived
  <2> QED
    BY <1>1, <2>1, <2>2 DEF UpInStep, QpsReady
<1> QED
  BY <1>5, <1>6, <1>8, <1>9

LEMMA AcceptRecvReadyInv ==
    ASSUME NEW r \in 0 .. WordSize, NEW s \in 0 .. WordSize, InStep(r, s), NEW k \in Units, AcceptRecvReady(k)
    PROVE  r + k \in 0 .. WordSize /\ InStep(r + k, s)'
<1> USE DEF InStep
<1>1. /\ aret = "pending" /\ astage = "PendingReady" /\ k <= Len(up)
      /\ up' = SubSeq(up, k + 1, Len(up))
      /\ IF aoffset + k = ReadySize
         THEN astage' = "Start" /\ aoffset' = 0 /\ aret' = "ok"
         ELSE aoffset' = aoffset + k /\ astage' = "PendingReady" /\ aret' = "pending"
      /\ UNCHANGED <<csock, asock, afrom, backlog, down, strayUp, aqp, ameta,
                     cstage, coffset, cret, cqp, cmeta>>
  BY DEF AcceptRecvReady, RecvUnits, SockUnchanged, cvars
<1>2. k \in Nat \ {0} /\ aoffset \in Nat /\ r = HelloSize + MetaSize + aoffset
  <2>1. k \in Nat \ {0} /\ aoffset \in Nat
    BY Constants DEF Units, TypeOK
  <2> QED
    BY <1>1, <2>1 DEF UpInStep, UnitsReceived
<1>3. Window(up', r + k, s) /\ up' \in Seq(Items) /\ r + k \in 0 .. WordSize
  BY <1>1, <1>2, UpReceived DEF UpInStep
<1>4. TypeOK'
  <2>1. aret' \in Rets /\ astage' \in {"Start", "PendingReady"} /\ aoffset' \in Nat
    BY <1>1, <1>2 DEF Rets
  <2> QED
    BY <1>1, <1>3, <2>1 DEF TypeOK
<1>5. SocketsInStep'
  BY <1>1 DEF SocketsInStep
<1>6. MetadataInStep'
  BY <1>1 DEF MetadataInStep, ReplyMade, QpsReady
<1>7. UpInStep(r + k, s)'
  <2>1. UnitsSent' = UnitsSent
    BY <1>1 DEF UnitsSent
  <2>2. aret' = "pending" => r + k = UnitsReceived'
    <3> SUFFICES ASSUME aret' = "pending" PROVE r + k = UnitsReceived'
      OBVIOUS
    <3>1. astage' = "PendingReady" /\ aoffset' = aoffset + k
      BY <1>1
    <3>2. UnitsReceived' = HelloSize + MetaSize + aoffset'
      BY <3>1 DEF UnitsReceived
    <3> QED
      BY <1>2, <3>1, <3>2, Constants
  <2>3. asock' = "Ready" /\ r + k > HelloSize + MetaSize
    BY <1>1, <1>2, Constants DEF SocketsInStep
  <2>4. QpsReady' <=> QpsReady
    BY <1>1 DEF QpsReady
  <2> QED
    BY <1>1, <1>3, <2>1, <2>2, <2>3, <2>4 DEF UpInStep
<1> QED
  BY <1>3, <1>4, <1>5, <1>6, <1>7

LEMMA BacklogTypes ==
    ASSUME TypeOK
    PROVE  /\ backlog \in Seq({"peer", "stray"})
           /\ Append(backlog, "peer") \in Seq({"peer", "stray"})
           /\ Append(backlog, "stray") \in Seq({"peer", "stray"})
           /\ backlog # <<>> => Head(backlog) \in {"peer", "stray"} /\ Tail(backlog) \in Seq({"peer", "stray"})
<1> DEFINE S == {"peer", "stray"}
<1>1. backlog \in Seq(S) /\ "peer" \in S /\ "stray" \in S
  BY DEF TypeOK
<1> HIDE DEF S
<1>2. /\ Append(backlog, "peer") \in Seq(S) /\ Append(backlog, "stray") \in Seq(S)
      /\ backlog # <<>> => Head(backlog) \in S /\ Tail(backlog) \in Seq(S)
  BY <1>1
<1> QED
  BY <1>1, <1>2 DEF S

LEMMA ConnectingInv ==
    ASSUME NEW r \in 0 .. WordSize, NEW s \in 0 .. WordSize, InStep(r, s),
           cret = "pending", StartConnect \/ PollConnect, UNCHANGED <<cvars, avars>>
    PROVE  InStep(r, s)'
<1> USE DEF InStep, cvars, avars
<1>1. /\ csock \in {"Connecting", "ConnectPolling"}
      /\ csock' \in {"Connecting", "ConnectPolling", "Connected", "Error"}
      /\ backlog' = backlog \/ backlog' = Append(backlog, "peer")
      /\ UNCHANGED <<asock, afrom, up, down, strayUp>>
  BY DEF StartConnect, PollConnect, Established, InProgress, Refused, TimedOut
<1>2. TypeOK'
  <2>1. backlog' \in Seq({"peer", "stray"})
    BY <1>1, BacklogTypes
  <2> QED
    BY <1>1, <2>1 DEF TypeOK
<1>3. SocketsInStep'
  BY <1>1 DEF SocketsInStep
<1>4. MetadataInStep'
  BY <1>1 DEF MetadataInStep, ReplyMade, QpsReady
<1>5. UpInStep(r, s)'
  BY <1>1 DEF UpInStep, SocketsInStep, QpsReady, UnitsSent, UnitsReceived
<1> QED
  BY <1>2, <1>3, <1>4, <1>5

LEMMA FinalizeConnectInv ==
    ASSUME NEW r \in 0 .. WordSize, NEW s \in 0 .. WordSize, InStep(r, s),
           cret = "pending", FinalizeConnect, UNCHANGED <<cvars, avars>>
    PROVE  InStep(r, HelloSize)'
<1> USE DEF InStep, cvars, avars
<1>1. /\ csock = "Connected" /\ csock' = "Ready" /\ up' = up \o <<"magic", "type">>
      /\ UNCHANGED <<asock, afrom, backlog, down, strayUp>>
  BY DEF FinalizeConnect
<1>2. cstage \in {"Start", "Connect"}
  BY <1>1 DEF SocketsInStep, TypeOK
<1>3. s = 0 /\ r = 0 /\ up = <<>>
  <2>1. s = 0
    BY <1>1, <1>2 DEF UpInStep, UnitsSent
  <2>2. up \in Seq(Items) /\ r <= 0 /\ Len(up) = 0 - r
    BY <2>1 DEF UpInStep, Window
  <2>3. r \in Nat
    BY Constants
  <2>4. r = 0
    BY <2>2, <2>3
  <2> QED
    BY <2>1, <2>2, <2>4
<1>4. up' = <<"magic", "type">>
  BY <1>1, <1>3
<1>5. Window(up', 0, 2) /\ up' \in Seq(Items)
  <2>1. up' \in Seq(Items) /\ Len(up') = 2 /\ up'[1] = "magic" /\ up'[2] = "type"
    BY <1>4 DEF Items
  <2>2. Item(0 + 1) = "magic" /\ Item(0 + 2) = "type"
    BY DEF Item
  <2>3. \A i \in 1 .. 2 - 0 : up'[i] = Item(0 + i)
    BY <2>1, <2>2
  <2> QED
    BY <2>1, <2>3 DEF Window
<1>6. TypeOK'
  BY <1>1, <1>5 DEF TypeOK
<1>7. SocketsInStep'
  BY <1>1, <1>2 DEF SocketsInStep
<1>8. MetadataInStep'
  BY <1>1 DEF MetadataInStep, ReplyMade, QpsReady
<1>9. UpInStep(r, HelloSize)'
  <2>1. UnitsSent' = HelloSize /\ UnitsReceived' = UnitsReceived
    BY <1>1, <1>2 DEF UnitsSent, UnitsReceived
  <2>2. HelloSize = 2 /\ ~(HelloSize > HelloSize + MetaSize)
    BY Constants
  <2> QED
    BY <1>1, <1>3, <1>5, <2>1, <2>2 DEF UpInStep
<1> QED
  BY <1>6, <1>7, <1>8, <1>9

LEMMA StrayInv ==
    ASSUME NEW r \in 0 .. WordSize, NEW s \in 0 .. WordSize, InStep(r, s),
           StrayConnects \/ StraySpeaks \/ TryAccept, UNCHANGED <<cvars, avars>>
    PROVE  InStep(r, s)'
<1> USE DEF InStep, cvars, avars
<1>1. /\ UNCHANGED <<csock, up, down>>
      /\ \/ /\ UNCHANGED <<asock, afrom>> /\ backlog' \in {backlog, Append(backlog, "stray")}
            /\ \E kind \in StrayKinds : strayUp' = <<kind>>
         \/ /\ asock = "Accepting" /\ asock' = "Accepted" /\ backlog # <<>> /\ afrom' = Head(backlog)
            /\ backlog' = Tail(backlog) /\ UNCHANGED strayUp
  BY DEF StrayConnects, StraySpeaks, TryAccept
<1>2. TypeOK'
  <2>1. backlog' \in Seq({"peer", "stray"}) /\ afrom' \in {"none", "peer", "stray"}
    BY <1>1, BacklogTypes DEF TypeOK
  <2>2. strayUp' \in Seq(StrayKinds)
    <3>1. \A kind \in StrayKinds : <<kind>> \in Seq(StrayKinds)
      OBVIOUS
    <3> QED
      BY <1>1, <3>1 DEF TypeOK
  <2> QED
    BY <1>1, <2>1, <2>2 DEF TypeOK
<1>3. SocketsInStep'
  BY <1>1 DEF SocketsInStep
<1>4. MetadataInStep'
  BY <1>1 DEF MetadataInStep, ReplyMade, QpsReady
<1>5. UpInStep(r, s)'
  BY <1>1 DEF UpInStep, UnitsSent, UnitsReceived, QpsReady
<1> QED
  BY <1>2, <1>3, <1>4, <1>5

\* Nothing but the peer's magic number gets a connection accepted.
LEMMA FinalizeAcceptInv ==
    ASSUME NEW r \in 0 .. WordSize, NEW s \in 0 .. WordSize, InStep(r, s),
           aret = "pending", FinalizeAccept, UNCHANGED <<cvars, avars>>
    PROVE  \E q \in 0 .. WordSize : InStep(q, s)'
<1> USE DEF InStep, cvars, avars
<1>1. /\ asock = "Accepted" /\ AcceptIn # <<>> /\ UNCHANGED <<csock, backlog, down>>
  BY DEF FinalizeAccept
<1>2. astage \in {"Start", "Accept"} /\ r = 0
  BY <1>1 DEF SocketsInStep, TypeOK, UpInStep
<1>3. CASE afrom = "peer"
  <2>1. up \in Seq(Items) /\ up # <<>> /\ Len(up) \in Nat
    BY <1>1, <1>3 DEF AcceptIn, TypeOK
  <2>2. s \in Nat /\ Len(up) = s /\ s > 1 /\ \A i \in 1 .. s : up[i] = Item(i)
    <3>1. s \in Nat /\ Len(up) = s - 0 /\ \A i \in 1 .. s - 0 : up[i] = Item(0 + i)
      BY <1>2, Constants DEF UpInStep, Window
    <3>2. Len(up) # 0 /\ s # 1
      BY <2>1 DEF UpInStep
    <3>3. s - 0 = s /\ \A i \in 1 .. s : 0 + i = i
      BY <3>1
    <3> QED
      BY <3>1, <3>2, <3>3
  <2>3. Head(up) = "magic"
    <3>1. up[1] = Item(1) /\ Item(1) = "magic"
      BY <2>2, ItemKinds
    <3> QED
      BY <2>1, <3>1
  <2>4. /\ asock' = "Ready" /\ up' = Tail(Tail(up)) /\ UNCHANGED <<strayUp, afrom>>
    BY <1>3, <2>3 DEF FinalizeAccept, AcceptIn, MagicOk, AfterHello
  <2>5. Window(up', HelloSize, s) /\ up' \in Seq(Items)
    <3>1. Tail(up) \in Seq(Items) /\ Len(Tail(up)) = s - 1 /\ \A i \in 1 .. s - 1 : Tail(up)[i] = up[i + 1]
      BY <2>1, <2>2
    <3>2. PICK v : v = Tail(up)
      OBVIOUS
    <3>3. v \in Seq(Items) /\ Len(v) = s - 1 /\ (\A i \in 1 .. s - 1 : v[i] = up[i + 1]) /\ up' = Tail(v)
      BY <2>4, <3>1, <3>2
    <3>4. v # <<>>
      BY <2>2, <3>3, EmptySeq
    <3>5. up' \in Seq(Items) /\ Len(up') = s - 2 /\ \A i \in 1 .. s - 2 : up'[i] = v[i + 1]
      BY <2>2, <3>3, <3>4
    <3>6. ASSUME NEW i \in 1 .. s - 2 PROVE up'[i] = Item(2 + i)
      <4>1. i + 1 \in 1 .. s - 1 /\ i + 2 \in 1 .. s /\ (i + 1) + 1 = 2 + i
        BY <2>2
      <4>2. up'[i] = v[i + 1] /\ v[i + 1] = up[(i + 1) + 1]
        BY <3>3, <3>5, <4>1
      <4>3. up[2 + i] = Item(2 + i)
        BY <2>2, <4>1
      <4> QED
        BY <4>1, <4>2, <4>3
    <3> QED
      BY <2>2, <3>5, <3>6, Constants DEF Window
  <2>6. TypeOK'
    BY <1>1, <2>4, <2>5 DEF TypeOK
  <2>7. SocketsInStep'
    BY <1>1, <1>3, <2>4 DEF SocketsInStep
  <2>8. MetadataInStep'
    BY <1>1 DEF MetadataInStep, ReplyMade, QpsReady
  <2>9. UpInStep(HelloSize, s)'
    <3>1. UnitsSent' = UnitsSent /\ UnitsReceived' = HelloSize
      BY <1>1, <1>2, <2>4 DEF UnitsSent, UnitsReceived
    <3>2. QpsReady' <=> QpsReady
      BY <1>1 DEF FinalizeAccept, QpsReady
    <3> QED
      BY <2>4, <2>5, <3>1, <3>2 DEF UpInStep
  <2>10. HelloSize \in 0 .. WordSize
    BY Constants
  <2> QED
    BY <2>6, <2>7, <2>8, <2>9, <2>10
<1>4. CASE afrom # "peer"
  <2>1. strayUp \in Seq(StrayKinds) /\ strayUp # <<>>
    BY <1>1, <1>4 DEF AcceptIn, TypeOK
  <2>2. Head(strayUp) # "magic"
    BY <2>1, Constants
  <2>3. /\ asock' = "Accepting" /\ afrom' = "none" /\ strayUp' = <<>> /\ UNCHANGED up
    BY <1>4, <2>2 DEF FinalizeAccept, AcceptIn, MagicOk
  <2>4. TypeOK'
    BY <1>1, <2>3 DEF TypeOK
  <2>5. SocketsInStep'
    BY <1>1, <1>2, <2>3 DEF SocketsInStep
  <2>6. MetadataInStep'
    BY <1>1, <2>3 DEF MetadataInStep, ReplyMade, QpsReady
  <2>7. UpInStep(r, s)'
    BY <1>1, <1>2, <2>3 DEF UpInStep, UnitsSent, UnitsReceived, QpsReady
  <2> QED
    BY <2>4, <2>5, <2>6, <2>7
<1> QED
  BY <1>3, <1>4

----------------------------------------------------------------------------
LEMMA InitInv == Init => ConnectInv
<1> SUFFICES ASSUME Init PROVE ConnectInv
  OBVIOUS
<1> USE DEF Init, SocketInit, NoQp, NoMeta
<1>1. TypeOK
  BY DEF TypeOK, Rets
<1>2. SocketsInStep
  BY DEF SocketsInStep
<1>3. MetadataInStep
  BY Constants DEF MetadataInStep
<1>4. Window(up, 0, 0)
  BY DEF Window
<1>5. UpInStep(0, 0)
  BY <1>4, Constants DEF UpInStep, UnitsSent, UnitsReceived, QpsReady
<1>6. 0 \in 0 .. WordSize
  BY Constants
<1> QED
  BY <1>1, <1>2, <1>3, <1>5, <1>6 DEF ConnectInv

LEMMA NextInv == ConnectInv /\ [Next]_vars => ConnectInv'
<1> SUFFICES ASSUME ConnectInv, [Next]_vars PROVE ConnectInv'
  OBVIOUS
<1>1. PICK r \in 0 .. WordSize, s \in 0 .. WordSize : InStep(r, s)
  BY DEF ConnectInv, InStep
<1>2. SUFFICES \E q \in 0 .. WordSize, t \in 0 .. WordSize : InStep(q, t)'
  BY DEF ConnectInv, InStep
<1>3. CASE UNCHANGED vars
  <2> USE <1>3 DEF vars, sockvars, cvars, avars
  <2>1. TypeOK' /\ SocketsInStep' /\ MetadataInStep'
    BY <1>1 DEF InStep, TypeOK, SocketsInStep, MetadataInStep, ReplyMade, QpsReady
  <2>2. UpInStep(r, s)'
    BY <1>1 DEF InStep, UpInStep, UnitsSent, UnitsReceived, QpsReady
  <2> QED
    BY <2>1, <2>2 DEF InStep
<1>4. CASE Connect
  <2>1. ASSUME NEW k \in Units, ConnectSend(k) PROVE s + k \in 0 .. WordSize /\ InStep(r, s + k)'
    BY <1>1, <2>1, ConnectSendInv
  <2>2. ASSUME NEW k \in Units, ConnectReady(k) PROVE s + k \in 0 .. WordSize /\ InStep(r, s + k)'
    BY <1>1, <2>2, ConnectReadyInv
  <2>3. ASSUME NEW k \in Units, ConnectRecv(k) PROVE InStep(r, s)'
    BY <1>1, <2>3, ConnectRecvInv
  <2>4. ConnectStart \/ ConnectSocketError \/ ConnectSetup \/ ConnectPeerGone => InStep(r, s)'
    BY <1>1, ConnectStartInv, ConnectSocketErrorInv, ConnectSetupInv, ConnectPeerGoneInv
  <2> QED
    BY <1>4, <2>1, <2>2, <2>3, <2>4 DEF Connect
<1>5. CASE Accept
  <2>1. ASSUME NEW k \in Units, AcceptRecv(k) PROVE r + k \in 0 .. WordSize /\ InStep(r + k, s)'
    BY <1>1, <2>1, AcceptRecvInv
  <2>2. ASSUME NEW k \in Units, AcceptRecvReady(k) PROVE r + k \in 0 .. WordSize /\ InStep(r + k, s)'
    BY <1>1, <2>2, AcceptRecvReadyInv
  <2>3. ASSUME NEW k \in Units, AcceptSend(k) PROVE InStep(r, s)'
    BY <1>1, <2>3, AcceptSendInv
  <2>4. AcceptStart \/ AcceptReady \/ AcceptPeerGone => InStep(r, s)'
    BY <1>1, AcceptStartInv, AcceptReadyInv, AcceptPeerGoneInv
  <2> QED
    BY <1>5, <2>1, <2>2, <2>3, <2>4 DEF Accept
<1>6. CASE SocketStep
  <2>1. /\ UNCHANGED <<cvars, avars>>
        /\ \/ cret = "pending" /\ (StartConnect \/ PollConnect)
           \/ cret = "pending" /\ FinalizeConnect
           \/ aret = "pending" /\ FinalizeAccept
           \/ TryAccept
    BY <1>6 DEF SocketStep
  <2>2. CASE cret = "pending" /\ (StartConnect \/ PollConnect)
    BY <1>1, <2>1, <2>2, ConnectingInv
  <2>3. CASE cret = "pending" /\ FinalizeConnect
    <3>1. HelloSize \in 0 .. WordSize
      BY Constants
    <3> QED
      BY <1>1, <2>1, <2>3, <3>1, FinalizeConnectInv
  <2>4. CASE aret = "pending" /\ FinalizeAccept
    BY <1>1, <2>1, <2>4, FinalizeAcceptInv
  <2>5. CASE TryAccept
    BY <1>1, <2>1, <2>5, StrayInv
  <2> QED
    BY <2>1, <2>2, <2>3, <2>4, <2>5
<1>7. CASE StrayStep
  BY <1>1, <1>7, StrayInv DEF StrayStep
<1>8. CASE ConnectorDies \/ AcceptorDies
  BY <1>1, <1>8, DeathInv
<1> QED
  BY <1>3, <1>4, <1>5, <1>6, <1>7, <1>8 DEF Next

(***************************************************************************)
(* Stages, offsets, streams and metadata of the two sides agree in every   *)
(* reachable state.                                                        *)
(***************************************************************************)
THEOREM ConnectInvariant == Spec => []ConnectInv
  BY InitInv, NextInv, PTL DEF Spec

(***************************************************************************)
(* Every stage of ncclIbConnect and ncclIbAccept finds its own item next   *)
(* on the stream, from the peer, wherever the transfers are cut.           *)
(***************************************************************************)
THEOREM StreamsNeverSlip == Spec => []StreamsInStep
<1>1. ConnectInv => StreamsInStep
  <2> SUFFICES ASSUME ConnectInv PROVE StreamsInStep
    OBVIOUS
  <2>1. PICK r \in 0 .. WordSize, s \in 0 .. WordSize : InStep(r, s)
    BY DEF ConnectInv, InStep
  <2>2. r \in Nat /\ s \in Nat
    BY Constants
  <2>3. up # <<>> => Head(up) = Item(r + 1)
    <3>1. up \in Seq(Items) /\ Len(up) = s - r /\ \A i \in 1 .. s - r : up[i] = Item(r + i)
      BY <2>1 DEF InStep, UpInStep, Window
    <3>2. up # <<>> => 1 \in 1 .. s - r /\ Head(up) = up[1]
      BY <2>2, <3>1
    <3> QED
      BY <3>1, <3>2
  <2>4. asock = "Accepted" => r = 0
    BY <2>1 DEF InStep, UpInStep
  <2>0. aoffset \in Nat /\ (aret = "pending" => r = UnitsReceived)
    BY <2>1, Zenon DEF InStep, UpInStep, TypeOK
  <2>5. aret = "pending" /\ astage = "Recv" => r + 1 > HelloSize /\ r + 1 <= HelloSize + MetaSize
    <3> SUFFICES ASSUME aret = "pending", astage = "Recv"
                 PROVE  r + 1 > HelloSize /\ r + 1 <= HelloSize + MetaSize
      OBVIOUS
    <3>1. r = HelloSize + aoffset
      BY <2>0 DEF UnitsReceived
    <3>2. aoffset < MetaSize
      BY <2>1, Zenon DEF InStep, MetadataInStep
    <3> QED
      BY <2>0, <3>1, <3>2, Constants
  <2>6. aret = "pending" /\ astage = "PendingReady" => r + 1 > HelloSize + MetaSize
    <3> SUFFICES ASSUME aret = "pending", astage = "PendingReady" PROVE r + 1 > HelloSize + MetaSize
      OBVIOUS
    <3>1. r = HelloSize + MetaSize + aoffset
      BY <2>0 DEF UnitsReceived
    <3> QED
      BY <2>0, <3>1, Constants
  <2>7. down # <<>> => Head(down) = "meta"
    <3>1. down \in Seq(Items) /\ \A i \in 1 .. Len(down) : down[i] = "meta"
      BY <2>1 DEF InStep, TypeOK, MetadataInStep
    <3> QED
      BY <3>1
  <2>8. /\ asock = "Accepted" => Item(r + 1) = "magic"
        /\ aret = "pending" /\ astage = "Recv" => Item(r + 1) = "meta"
        /\ aret = "pending" /\ astage = "PendingReady" => Item(r + 1) = "ready"
    <3>1. r + 1 \in Nat /\ 0 + 1 = 1
      BY <2>2
    <3> QED
      BY <2>4, <2>5, <2>6, <3>1, ItemKinds
  <2>9. (astage \in {"Recv", "Send", "PendingReady"} \/ aret = "ok") => afrom = "peer"
    BY <2>1 DEF InStep, SocketsInStep
  <2> QED
    BY <2>3, <2>7, <2>8, <2>9 DEF StreamsInStep
<1> QED
  BY <1>1, ConnectInvariant, PTL

(***************************************************************************)
(* Whichever side returns a communicator first, the QPs of both are in RTS *)
(* and the path MTU of the connecting side's QPs fits both ports.  It says *)
(* nothing of the path MTU of the accepting side's QPs, which are          *)
(* configured with the MTU of the connecting side's port as it came.       *)
(***************************************************************************)
THEOREM ReturnedUsable == Spec => []ReturnedCommUsable
<1>1. ConnectInv => ReturnedCommUsable
  <2> SUFFICES ASSUME ConnectInv, cret = "ok" \/ aret = "ok"
               PROVE  cqp.state = "RTS" /\ aqp.state = "RTS" /\ cqp.mtu <= Min2(SendMtu, RecvMtu)
    BY DEF ReturnedCommUsable
  <2>1. PICK r \in 0 .. WordSize, s \in 0 .. WordSize : InStep(r, s)
    BY DEF ConnectInv, InStep
  <2>2. r \in Nat /\ s \in Nat /\ r <= s
    BY <2>1, Constants DEF InStep, UpInStep, Window
  <2>3. aqp.state = "RTS"
    BY <2>1 DEF InStep, MetadataInStep, ReplyMade
  <2>4. s > HelloSize + MetaSize
    BY <2>1, <2>2, Constants DEF InStep, UpInStep
  <2>5. QpsReady
    BY <2>1, <2>4 DEF InStep, UpInStep
  <2> QED
    BY <2>3, <2>5 DEF QpsReady
<1> QED
  BY <1>1, ConnectInvariant, PTL
=============================================================================
