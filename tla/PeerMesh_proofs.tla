--------------------------- MODULE PeerMesh_proofs ----------------------------
(* Proofs about PeerMesh, for any number of slots and programs: type           *)
(* correctness.  Each step of a program is a sequence of packets to players,   *)
(* which SendTo holds back or sends; what that does to peers and connections   *)
(* is stated once for all handlers.                                            *)
(*                                                                             *)
(* Then what PeerMeshTurns_proofs needs to show that no turn is lost: the      *)
(* parts of its invariant (InvW to InvT, MeshInv), and that the most common    *)
(* kind of step, an act of a program, keeps each of them.                      *)
EXTENDS PeerMesh, Subsequences_proofs, TLAPS

--------------------------------------------------------------------------------
(* Types.                                                                      *)

\* The packets that players exchange, those that are held back, and those that may be on
\* their way to f.
Game == {p \in Packets : p.type \in EchoTypes \cup {"PT_TURN", "PT_DISCONNECT"}}
Held == {p \in Packets : p.type \in {"PT_TURN", "PT_DISCONNECT"}}
Joined(e) == plr_self[e] \in Slots
Sendable(f) == {p \in Packets : /\ p.type = "PT_JOIN_REQUEST" => Joined(f)
                                /\ p.type = "PT_JOIN_ACCEPT" => p.src \in Slots}

PeerType == [endpoint : Endpoints, queued : BOOLEAN, sendQueue : Seq(Held)]
PeerTables == [Slots -> PeerType]
Letters == {to \in [Programs -> Seq(Packets)] : \A f \in Programs : to[f] \in Seq(Sendable(f))}
Steps == [peers : PeerTables, to : Letters]

FdTables == [Programs -> [Programs -> {NoConnection} \cup Connections]]
Between(e, f) == Connections \cap {<<e, f>>, <<f, e>>}
IsFds(fds) == /\ fds \in FdTables
              /\ \A e, f \in Programs : fds[e][f] \in {NoConnection} \cup Between(e, f)
IsWires(wires) == /\ wires = [c \in Connections |-> [f \in Ends(c) |-> wires[c][f]]]
                  /\ \A c \in Connections : \A f \in Ends(c) : wires[c][f] \in Seq(Sendable(f))

Typed ==
    /\ plr_self \in [Programs -> Slots \cup {PLR_BROADCAST}]
    /\ firstpeer \in [Programs -> Endpoints]
    /\ peers \in [Programs -> PeerTables]
    /\ isConnected \in [Programs -> SUBSET Slots]
    /\ awaiting \in [Programs -> BOOLEAN]
    /\ sent \in [Programs -> 0 .. MaxTurn]
    /\ got \in [Programs -> [Programs -> 0 .. MaxTurn]]
    /\ IsFds(fd)
    /\ send_queue \in [Programs -> Letters]
    /\ backlog \subseteq Connections
    /\ IsWires(wire)
    /\ gone \subseteq Programs
    /\ echoes \in 0 .. MaxEvents
    /\ faults \in 0 .. MaxEvents
    /\ crossed \subseteq Connections
    /\ taken \in [Programs -> SUBSET Slots]

LEMMA Numbers ==
    /\ N \in Nat /\ N >= 1
    /\ Slots \subseteq Nat /\ \A i \in Slots : i < N
    /\ PLR_BROADCAST \notin Slots /\ PLR_MASTER \notin Slots /\ PLR_BROADCAST # PLR_MASTER
    /\ 0 \in Slots /\ 0 \in 0 .. MaxTurn /\ 1 \in 0 .. MaxTurn /\ MaxEvents \in Nat
BY ParametersAssumption DEF Slots, PLR_BROADCAST, PLR_MASTER

LEMMA ConnectionTypes ==
    /\ NoConnection \notin Connections
    /\ \A e, f \in Programs : e # f => <<e, f>> \in Connections
    /\ \A c \in Connections : /\ c[1] \in Programs /\ c[2] \in Programs /\ c[1] # c[2]
                              /\ c = <<c[1], c[2]>> /\ Ends(c) = {c[1], c[2]}
    /\ \A e, f : Ends(<<e, f>>) = {e, f}
    /\ \A e, f, g, h : <<e, f>> = <<g, h>> => e = g /\ f = h
    /\ \A e, f : <<e>> = <<f>> => e = f
    /\ \A e : <<e>> # NoEndpoint
BY DEF Connections, NoConnection, Ends, NoEndpoint

LEMMA SeqMonotonicHere ==
    ASSUME NEW S, NEW T, S \subseteq T
    PROVE  Seq(S) \subseteq Seq(T)
OBVIOUS

LEMMA PacketTypes ==
    /\ JoinRequest \in Packets /\ JoinRequest.type = "PT_JOIN_REQUEST"
    /\ \A i, j \in Slots : /\ JoinAccept(i, j) \in Packets /\ JoinAccept(i, j).src = i
                           /\ JoinAccept(i, j).type = "PT_JOIN_ACCEPT"
                           /\ JoinAccept(i, j).player = j
    /\ \A i \in Slots, e \in Programs :
           /\ ConnectPacket(i, e) \in Packets /\ ConnectPacket(i, e).type = "PT_CONNECT"
           /\ ConnectPacket(i, e).player = i /\ ConnectPacket(i, e).endpoint = <<e>>
    /\ \A i, j \in Slots \cup {PLR_BROADCAST}, n \in 0 .. MaxTurn :
           /\ Turn(i, j, n) \in Packets /\ Turn(i, j, n).type = "PT_TURN"
           /\ Turn(i, j, n).src = i /\ Turn(i, j, n).dst = j /\ Turn(i, j, n).turn = n
    /\ \A t \in EchoTypes, i, j \in Slots \cup {PLR_BROADCAST} :
           /\ Echo(t, i, j) \in Packets /\ Echo(t, i, j).type = t
           /\ Echo(t, i, j).src = i /\ Echo(t, i, j).dst = j
    /\ \A i, j \in Slots :
           /\ Disconnect(i, j) \in Packets /\ Disconnect(i, j).type = "PT_DISCONNECT"
           /\ Disconnect(i, j).src = i /\ Disconnect(i, j).dst = PLR_BROADCAST
           /\ Disconnect(i, j).player = j
    /\ NoPeer \in PeerType
<1>1. NoEndpoint \in Endpoints /\ \A e \in Programs : <<e>> \in Endpoints
  BY DEF Endpoints
<1>2. <<>> \in Seq(Held)
  OBVIOUS
<1> QED BY <1>1, <1>2, Numbers DEF JoinRequest, JoinAccept, ConnectPacket, Turn, Echo, Disconnect,
              Packet, Packets, NoPeer, PeerType, EchoTypes, NoEndpoint

LEMMA KindsOfPackets ==
    /\ Held \subseteq Game /\ Game \subseteq Packets
    /\ \A f : Game \subseteq Sendable(f) /\ Held \subseteq Sendable(f) /\ Sendable(f) \subseteq Packets
    /\ \A p \in Game : p.type \notin EchoTypes => p \in Held
    /\ \A p \in Packets : /\ p.src \in Slots \cup {PLR_BROADCAST, PLR_MASTER}
                          /\ p.dst \in Slots \cup {PLR_BROADCAST, PLR_MASTER}
                          /\ p.player \in Slots /\ p.endpoint \in Endpoints
                          /\ p.turn \in 0 .. MaxTurn
BY DEF Held, Game, Sendable, EchoTypes, Packets

LEMMA TypedImplies == Typed => TypeOK
<1> SUFFICES ASSUME Typed PROVE TypeOK
  OBVIOUS
<1>1. Seq(Held) \subseteq Seq(Packets) /\ \A f : Seq(Sendable(f)) \subseteq Seq(Packets)
  BY KindsOfPackets, SeqMonotonicHere
<1>2. peers \in [Programs -> [Slots ->
           [endpoint : Endpoints, queued : BOOLEAN, sendQueue : Seq(Packets)]]]
  <2>1. PeerType \subseteq [endpoint : Endpoints, queued : BOOLEAN, sendQueue : Seq(Packets)]
    BY <1>1 DEF PeerType
  <2> QED BY <2>1 DEF Typed, PeerTables
<1>3. send_queue \in [Programs -> [Programs -> Seq(Packets)]]
  BY DEF Typed, Letters
<1>4. \A c \in Connections : wire[c] \in [Ends(c) -> Seq(Packets)]
  BY <1>1 DEF Typed, IsWires
<1>5. \A e, f \in Programs :
           fd[e][f] \in {NoConnection} \cup (Connections \cap {<<e, f>>, <<f, e>>})
  BY DEF Typed, IsFds, Between
<1> QED BY <1>2, <1>3, <1>4, <1>5 DEF Typed, TypeOK

--------------------------------------------------------------------------------
(* What sending does to a step.                                                *)

LEMMA RawStep ==
    ASSUME NEW s \in Steps, NEW endpoint, NEW p \in Packets,
           \A f \in Programs : endpoint = <<f>> => p \in Sendable(f)
    PROVE  /\ Raw(s, endpoint, p) \in Steps
           /\ Raw(s, endpoint, p).peers = s.peers
           /\ \A f \in Programs : Raw(s, endpoint, p).to[f] =
                  IF endpoint = <<f>> THEN Append(s.to[f], p) ELSE s.to[f]
<1> DEFINE to == [f \in Programs |-> IF endpoint = <<f>> THEN Append(s.to[f], p) ELSE s.to[f]]
<1>1. s.peers \in PeerTables /\ s.to \in Letters
  BY DEF Steps
<1>2. to \in Letters
  <2>1. \A f \in Programs : s.to[f] \in Seq(Packets) /\ s.to[f] \in Seq(Sendable(f))
    BY <1>1 DEF Letters
  <2>2. ASSUME NEW f \in Programs PROVE to[f] \in Seq(Packets) /\ to[f] \in Seq(Sendable(f))
    <3>1. CASE endpoint = <<f>>
      <4>1. p \in Sendable(f) /\ to[f] = Append(s.to[f], p)
        BY <3>1
      <4> QED BY <2>1, <4>1
    <3>2. CASE endpoint # <<f>>
      BY <2>1, <3>2
    <3> QED BY <3>1, <3>2
  <2> QED BY <2>2 DEF Letters
<1> HIDE DEF to
<1>3. Raw(s, endpoint, p) = [s EXCEPT !.to = to]
  BY DEF Raw, to
<1>4. Raw(s, endpoint, p) \in Steps /\ Raw(s, endpoint, p).peers = s.peers
      /\ Raw(s, endpoint, p).to = to
  BY <1>1, <1>2, <1>3 DEF Steps
<1> QED BY <1>4 DEF to

\* Whether SendTo holds a packet back.
Holds(peer, p) == peer.queued /\ p.type \notin EchoTypes
HeldBack(peer, p) == [peer EXCEPT !.sendQueue = Append(@, p)]

LEMMA HeldBackType ==
    ASSUME NEW peer \in PeerType, NEW p \in Held
    PROVE  /\ HeldBack(peer, p) \in PeerType
           /\ HeldBack(peer, p).endpoint = peer.endpoint /\ HeldBack(peer, p).queued = peer.queued
           /\ HeldBack(peer, p).sendQueue = Append(peer.sendQueue, p)
<1>1. Append(peer.sendQueue, p) \in Seq(Held)
  BY DEF PeerType
<1> QED BY <1>1 DEF PeerType, HeldBack

LEMMA SendToStep ==
    ASSUME NEW s \in Steps, NEW i \in Slots, NEW p \in Game
    PROVE  /\ SendTo(s, i, p) \in Steps
           /\ SendTo(s, i, p).peers =
                  IF Holds(s.peers[i], p) THEN [s.peers EXCEPT ![i] = HeldBack(s.peers[i], p)]
                  ELSE s.peers
           /\ \A f \in Programs : SendTo(s, i, p).to[f] =
                  IF ~ Holds(s.peers[i], p) /\ s.peers[i].endpoint = <<f>>
                  THEN Append(s.to[f], p) ELSE s.to[f]
<1>1. s.peers \in PeerTables /\ s.to \in Letters /\ s.peers[i] \in PeerType
  BY DEF Steps, PeerTables
<1>2. CASE Holds(s.peers[i], p)
  <2> DEFINE table == [s.peers EXCEPT ![i] = HeldBack(s.peers[i], p)]
  <2>1. p \in Held
    BY <1>2, KindsOfPackets DEF Holds
  <2>2. table \in PeerTables
    BY <1>1, <2>1, HeldBackType DEF PeerTables
  <2>3. SendTo(s, i, p) = [s EXCEPT !.peers = table]
    BY <1>1, <1>2 DEF SendTo, Holds, HeldBack, Steps, PeerTables
  <2> HIDE DEF table
  <2>4. SendTo(s, i, p) \in Steps /\ SendTo(s, i, p).peers = table /\ SendTo(s, i, p).to = s.to
    BY <1>1, <2>2, <2>3 DEF Steps
  <2> QED BY <1>2, <2>4 DEF table
<1>3. CASE ~ Holds(s.peers[i], p)
  <2> DEFINE endpoint == s.peers[i].endpoint
  <2>1. SendTo(s, i, p) = Raw(s, endpoint, p)
    BY <1>3 DEF SendTo, Holds
  <2>2. p \in Packets /\ \A f \in Programs : p \in Sendable(f)
    BY KindsOfPackets
  <2> HIDE DEF endpoint
  <2>3. /\ Raw(s, endpoint, p) \in Steps
        /\ Raw(s, endpoint, p).peers = s.peers
        /\ \A f \in Programs : Raw(s, endpoint, p).to[f] =
               IF endpoint = <<f>> THEN Append(s.to[f], p) ELSE s.to[f]
    BY <2>2, RawStep
  <2> QED BY <1>3, <2>1, <2>3 DEF endpoint
<1> QED BY <1>2, <1>3

LEMMA DrainStep ==
    ASSUME NEW s \in Steps, NEW player \in Slots
    PROVE  /\ DrainSendQueue(s, player) \in Steps
           /\ DrainSendQueue(s, player).peers =
                  [s.peers EXCEPT ![player] = [s.peers[player] EXCEPT !.queued = FALSE,
                                                                      !.sendQueue = <<>>]]
           /\ \A f \in Programs : DrainSendQueue(s, player).to[f] =
                  IF s.peers[player].endpoint = <<f>>
                  THEN s.to[f] \o s.peers[player].sendQueue ELSE s.to[f]
<1> DEFINE peer == s.peers[player]
           table == [s.peers EXCEPT ![player] = [peer EXCEPT !.queued = FALSE, !.sendQueue = <<>>]]
           to == [f \in Programs |-> IF peer.endpoint = <<f>> THEN s.to[f] \o peer.sendQueue
                                     ELSE s.to[f]]
<1>1. s.peers \in PeerTables /\ s.to \in Letters /\ peer \in PeerType
  BY DEF Steps, PeerTables
<1>2. <<>> \in Seq(Held)
  OBVIOUS
<1>3. [peer EXCEPT !.queued = FALSE, !.sendQueue = <<>>] \in PeerType
  <2> HIDE DEF peer
  <2> QED BY <1>1, <1>2 DEF PeerType
<1>4. table \in PeerTables
  BY <1>1, <1>3 DEF PeerTables
<1>5. to \in Letters
  <2>0. \A f : Seq(Held) \subseteq Seq(Sendable(f)) /\ Seq(Held) \subseteq Seq(Packets)
    BY KindsOfPackets, SeqMonotonicHere
  <2>1. \A f \in Programs : s.to[f] \in Seq(Packets) /\ s.to[f] \in Seq(Sendable(f))
    BY <1>1 DEF Letters
  <2>2. \A f : peer.sendQueue \in Seq(Packets) /\ peer.sendQueue \in Seq(Sendable(f))
    BY <1>1, <2>0 DEF PeerType
  <2>3. ASSUME NEW f \in Programs
        PROVE s.to[f] \o peer.sendQueue \in Seq(Packets) /\ s.to[f] \o peer.sendQueue \in Seq(Sendable(f))
    <3> DEFINE a == s.to[f]
               b == peer.sendQueue
    <3>1. a \in Seq(Packets) /\ a \in Seq(Sendable(f)) /\ b \in Seq(Packets) /\ b \in Seq(Sendable(f))
      BY <2>1, <2>2
    <3> HIDE DEF a, b
    <3>2. a \o b \in Seq(Packets) /\ a \o b \in Seq(Sendable(f))
      BY <3>1
    <3> QED BY <3>2 DEF a, b
  <2> HIDE DEF peer
  <2> QED BY <2>1, <2>3 DEF Letters
<1>6. DrainSendQueue(s, player) = [s EXCEPT !.peers = table, !.to = to]
  BY <1>1 DEF DrainSendQueue, Steps
<1> HIDE DEF table, to
<1>7. DrainSendQueue(s, player) \in Steps /\ DrainSendQueue(s, player).peers = table
      /\ DrainSendQueue(s, player).to = to
  BY <1>1, <1>4, <1>5, <1>6 DEF Steps
<1> QED BY <1>7 DEF table, to

\* Packets to some players, one after the other.
Direct(base, players, pk, i, f) ==
    i \in players /\ base.peers[i].endpoint = <<f>> /\ ~ Holds(base.peers[i], pk[i])
SentTo(base, players, pk, n, s) ==
    /\ s \in Steps
    /\ \A i \in Slots : s.peers[i] =
           IF i < n /\ i \in players /\ Holds(base.peers[i], pk[i])
           THEN HeldBack(base.peers[i], pk[i]) ELSE base.peers[i]
    /\ \A f \in Programs :
           /\ (\A i \in Slots : i < n => ~ Direct(base, players, pk, i, f)) => s.to[f] = base.to[f]
           /\ \A j \in Slots :
                  (/\ j < n /\ Direct(base, players, pk, j, f)
                   /\ \A i \in Slots : i < n /\ Direct(base, players, pk, i, f) => i = j)
                      => s.to[f] = Append(base.to[f], pk[j])

SendRun(h, base, players, pk) ==
    [i \in 0 .. N |-> IF i = 0 THEN base
                     ELSE IF i - 1 \in players THEN SendTo(h[i - 1], i - 1, pk[i - 1])
                          ELSE h[i - 1]]

LEMMA SendRunExists ==
    ASSUME NEW base \in Steps, NEW players, NEW pk \in [Slots -> Game]
    PROVE  \E h \in [0 .. N -> Steps] : h = SendRun(h, base, players, pk)
<1> DEFINE step == [i \in 1 .. N |-> [s \in Steps |->
               IF i - 1 \in players THEN SendTo(s, i - 1, pk[i - 1]) ELSE s]]
<1>1. N \in Nat /\ \A i \in 1 .. N : i - 1 \in Slots
  BY Numbers DEF Slots
<1>2. \A i \in 1 .. N, s \in Steps : SendTo(s, i - 1, pk[i - 1]) \in Steps
  <2> TAKE i \in 1 .. N, s \in Steps
  <2> DEFINE j == i - 1
             p == pk[j]
  <2>1. j \in Slots /\ p \in Game
    BY <1>1
  <2> HIDE DEF j, p
  <2>2. SendTo(s, j, p) \in Steps
    BY <2>1, SendToStep
  <2> QED BY <2>2 DEF j, p
<1>3. step \in [1 .. N -> [Steps -> Steps]]
  BY <1>2
<1>4. \A i \in 1 .. N, s \in Steps : step[i][s] = IF i - 1 \in players
          THEN SendTo(s, i - 1, pk[i - 1]) ELSE s
  OBVIOUS
<1> HIDE DEF step
<1>5. PICK h \in [0 .. N -> Steps] : h = RunBy(h, base, step, N)
  BY <1>1, <1>3, Runs
<1>6. \A i \in 0 .. N : (IF i = 0 THEN base ELSE step[i][h[i - 1]]) =
          IF i = 0 THEN base
          ELSE IF i - 1 \in players THEN SendTo(h[i - 1], i - 1, pk[i - 1]) ELSE h[i - 1]
  <2> TAKE i \in 0 .. N
  <2>1. i # 0 => h[i - 1] \in Steps /\ i \in 1 .. N
    BY <1>1, <1>5
  <2> QED BY <1>4, <2>1
<1>7. RunBy(h, base, step, N) = SendRun(h, base, players, pk)
  BY <1>6 DEF RunBy, SendRun
<1> QED BY <1>5, <1>7

LEMMA SendRunResult ==
    ASSUME NEW base \in Steps, NEW players, NEW pk \in [Slots -> Game],
           NEW h \in [0 .. N -> Steps], h = SendRun(h, base, players, pk)
    PROVE  \A n \in 0 .. N : SentTo(base, players, pk, n, h[n])
<1> DEFINE Ns == {n \in Nat : n <= N => SentTo(base, players, pk, n, h[n])}
<1>0. N \in Nat /\ Slots \subseteq Nat /\ \A i \in Slots : i < N /\ i >= 0
  BY Numbers DEF Slots
<1>1. /\ h[0] = base
      /\ \A i \in 1 .. N : h[i] = IF i - 1 \in players THEN SendTo(h[i - 1], i - 1, pk[i - 1])
                                 ELSE h[i - 1]
  BY <1>0 DEF SendRun
<1>2. 0 \in Ns
  <2>1. SentTo(base, players, pk, 0, base)
    BY <1>0 DEF SentTo
  <2> QED BY <1>1, <2>1
<1>3. ASSUME NEW n \in Nat, n \in Ns PROVE n + 1 \in Ns
  <2> SUFFICES ASSUME n + 1 <= N PROVE SentTo(base, players, pk, n + 1, h[n + 1])
    OBVIOUS
  <2> DEFINE s == h[n]
             t == h[n + 1]
             p == pk[n]
  <2>1. SentTo(base, players, pk, n, s)
    BY <1>0, <1>3
  <2>2. n \in Slots /\ s \in Steps /\ p \in Game
    BY <1>0, <2>1 DEF Slots, SentTo
  <2>3. t = IF n \in players THEN SendTo(s, n, p) ELSE s
    <3>1. n + 1 \in 1 .. N /\ (n + 1) - 1 = n
      BY <1>0
    <3> QED BY <1>1, <3>1
  <2>4. s.peers[n] = base.peers[n]
    BY <2>1, <2>2 DEF SentTo
  <2>5. \A i \in Slots : i < n + 1 <=> i < n \/ i = n
    BY <1>0
  <2>a. p = pk[n]
    OBVIOUS
  <2> HIDE DEF s, t, p
  <2>6. CASE n \in players
    <3>1. /\ t \in Steps
          /\ t.peers = IF Holds(s.peers[n], p) THEN [s.peers EXCEPT ![n] = HeldBack(s.peers[n], p)]
                       ELSE s.peers
          /\ \A f \in Programs : t.to[f] =
                  IF ~ Holds(s.peers[n], p) /\ s.peers[n].endpoint = <<f>>
                  THEN Append(s.to[f], p) ELSE s.to[f]
      BY <2>2, <2>3, <2>6, SendToStep
    <3>2. s.peers \in [Slots -> PeerType]
      BY <2>2 DEF Steps, PeerTables
    <3>3. \A i \in Slots : t.peers[i] =
             IF i < n + 1 /\ i \in players /\ Holds(base.peers[i], pk[i])
             THEN HeldBack(base.peers[i], pk[i]) ELSE base.peers[i]
      <4> TAKE i \in Slots
      <4>1. CASE i = n
        BY <2>1, <2>2, <2>4, <2>5, <2>6, <2>a, <3>1, <3>2, <4>1
      <4>2. CASE i # n
        <5>1. t.peers[i] = s.peers[i]
          BY <3>1, <3>2, <4>2
        <5> QED BY <2>1, <2>5, <4>2, <5>1 DEF SentTo
      <4> QED BY <4>1, <4>2
    <3>4. \A f \in Programs : t.to[f] = IF Direct(base, players, pk, n, f) THEN Append(s.to[f], p)
                                       ELSE s.to[f]
      BY <2>4, <2>6, <2>a, <3>1 DEF Direct
    <3>5. ASSUME NEW f \in Programs, \A i \in Slots : i < n + 1 => ~ Direct(base, players, pk, i, f)
          PROVE t.to[f] = base.to[f]
      BY <2>1, <2>2, <2>5, <3>4, <3>5 DEF SentTo
    <3>6. ASSUME NEW f \in Programs, NEW j \in Slots, j < n + 1, Direct(base, players, pk, j, f),
                 \A i \in Slots : i < n + 1 /\ Direct(base, players, pk, i, f) => i = j
          PROVE t.to[f] = Append(base.to[f], pk[j])
      <4>1. CASE j = n
        <5>1. \A i \in Slots : i < n => ~ Direct(base, players, pk, i, f)
          BY <1>0, <2>5, <3>6, <4>1
        <5>2. s.to[f] = base.to[f]
          BY <2>1, <5>1 DEF SentTo
        <5> QED BY <2>a, <3>4, <3>6, <4>1, <5>2
      <4>2. CASE j # n
        <5>1. j < n /\ ~ Direct(base, players, pk, n, f)
          BY <2>2, <2>5, <3>6, <4>2
        <5>2. s.to[f] = Append(base.to[f], pk[j])
          BY <2>1, <2>5, <3>6, <5>1 DEF SentTo
        <5> QED BY <3>4, <5>1, <5>2
      <4> QED BY <4>1, <4>2
    <3>7. \A f \in Programs : \A j \in Slots :
             (/\ j < n + 1 /\ Direct(base, players, pk, j, f)
              /\ \A i \in Slots : i < n + 1 /\ Direct(base, players, pk, i, f) => i = j)
                 => t.to[f] = Append(base.to[f], pk[j])
      BY <3>6
    <3>8. \A f \in Programs :
             (\A i \in Slots : i < n + 1 => ~ Direct(base, players, pk, i, f)) => t.to[f] = base.to[f]
      BY <3>5
    <3>9. SentTo(base, players, pk, n + 1, t)
      BY <3>1, <3>3, <3>7, <3>8, Zenon DEF SentTo
    <3> QED BY <3>9 DEF t
  <2>7. CASE n \notin players
    <3>1. t = s /\ \A f : ~ Direct(base, players, pk, n, f)
      BY <2>3, <2>7 DEF Direct
    <3>2. \A i \in Slots : i \in players => (i < n + 1 <=> i < n)
      BY <2>5, <2>7
    <3>3. \A i \in Slots : t.peers[i] =
             IF i < n + 1 /\ i \in players /\ Holds(base.peers[i], pk[i])
             THEN HeldBack(base.peers[i], pk[i]) ELSE base.peers[i]
      BY <2>1, <3>1, <3>2 DEF SentTo
    <3>4. \A i \in Slots : \A f : i < n + 1 /\ Direct(base, players, pk, i, f) <=>
                               i < n /\ Direct(base, players, pk, i, f)
      BY <3>2 DEF Direct
    <3>7. \A f \in Programs : \A j \in Slots :
             (/\ j < n + 1 /\ Direct(base, players, pk, j, f)
              /\ \A i \in Slots : i < n + 1 /\ Direct(base, players, pk, i, f) => i = j)
                 => t.to[f] = Append(base.to[f], pk[j])
      BY <2>1, <3>1, <3>4 DEF SentTo
    <3>8. \A f \in Programs :
             (\A i \in Slots : i < n + 1 => ~ Direct(base, players, pk, i, f)) => t.to[f] = base.to[f]
      BY <2>1, <3>1, <3>4 DEF SentTo
    <3>9. t \in Steps
      BY <2>1, <3>1 DEF SentTo
    <3>10. SentTo(base, players, pk, n + 1, t)
      BY <3>3, <3>7, <3>8, <3>9, Zenon DEF SentTo
    <3> QED BY <3>10 DEF t
  <2> QED BY <2>6, <2>7 DEF t
<1> HIDE DEF Ns
<1>4. Nat \subseteq Ns
  BY <1>2, <1>3, Induct
<1> QED BY <1>0, <1>4 DEF Ns

LEMMA BroadcastSends ==
    ASSUME NEW base \in Steps, NEW p \in Game
    PROVE  SentTo(base, Slots, [i \in Slots |-> p], N, Broadcast(base, p))
<1> DEFINE pk == [i \in Slots |-> p]
           R(g) == [i \in 0 .. N |-> IF i = 0 THEN base
                                    ELSE IF i - 1 \in Slots THEN SendTo(g[i - 1], i - 1, p)
                                         ELSE g[i - 1]]
           F == CHOOSE g : g = R(g)
<1>0. N \in Nat /\ \A i \in 1 .. N : i - 1 \in Slots
  BY Numbers DEF Slots
<1>1. pk \in [Slots -> Game] /\ \A i \in Slots : pk[i] = p
  OBVIOUS
<1> HIDE DEF pk
<1>2. PICK h \in [0 .. N -> Steps] : h = SendRun(h, base, Slots, pk)
  BY <1>1, SendRunExists
<1>3. SendRun(h, base, Slots, pk) = R(h)
  BY <1>1 DEF SendRun
<1>4. F = R(F)
  <2> HIDE DEF R
  <2> QED BY <1>2, <1>3
<1>5. F[0] = h[0] /\ \A i \in 1 .. N : F[i - 1] = h[i - 1] => F[i] = h[i]
  <2>1. h = R(h)
    BY <1>2, <1>3
  <2>2. \A g : R(g)[0] = base /\ \A i \in 1 .. N : R(g)[i] = SendTo(g[i - 1], i - 1, p)
    BY <1>0
  <2> HIDE DEF R, F
  <2> QED BY <1>4, <2>1, <2>2
<1>6. Broadcast(base, p) = F[N]
  BY DEF Broadcast, ForEach
<1> HIDE DEF F
<1>7. F[N] = h[N]
  BY <1>0, <1>5, Alike
<1>8. SentTo(base, Slots, pk, N, h[N])
  BY <1>0, <1>1, <1>2, SendRunResult
<1> QED BY <1>6, <1>7, <1>8 DEF pk

\* Echo requests of player self to some others.
Requested(self) == [i \in Slots |-> Echo("PT_ECHO_REQUEST", self, i)]

LEMMA EchoRequestsSend ==
    ASSUME NEW base \in Steps, NEW self \in Slots
    PROVE  SentTo(base, Slots \ {self}, Requested(self), N,
                  ForEach(Slots \ {self}, base, LAMBDA s, i :
                      SendTo(s, i, Echo("PT_ECHO_REQUEST", self, i))))
<1> DEFINE pk == Requested(self)
           R(g) == [i \in 0 .. N |-> IF i = 0 THEN base
                        ELSE IF i - 1 \in Slots \ {self}
                             THEN SendTo(g[i - 1], i - 1, Echo("PT_ECHO_REQUEST", self, i - 1))
                             ELSE g[i - 1]]
           F == CHOOSE g : g = R(g)
           Q == ForEach(Slots \ {self}, base, LAMBDA s, i :
                      SendTo(s, i, Echo("PT_ECHO_REQUEST", self, i)))
<1>0. N \in Nat /\ \A i \in 1 .. N : i - 1 \in Slots
  BY Numbers DEF Slots
<1>1. pk \in [Slots -> Game] /\ \A i \in Slots : pk[i] = Echo("PT_ECHO_REQUEST", self, i)
  <2>1. \A i \in Slots : Echo("PT_ECHO_REQUEST", self, i) \in Game
    BY PacketTypes DEF Game, EchoTypes
  <2> QED BY <2>1 DEF Requested
<1> HIDE DEF pk
<1>2. PICK h \in [0 .. N -> Steps] : h = SendRun(h, base, Slots \ {self}, pk)
  BY <1>1, SendRunExists
<1>3. SendRun(h, base, Slots \ {self}, pk) = R(h)
  BY <1>0, <1>1 DEF SendRun
<1>4. F = R(F)
  <2> HIDE DEF R
  <2> QED BY <1>2, <1>3
<1>5. F[0] = h[0] /\ \A i \in 1 .. N : F[i - 1] = h[i - 1] => F[i] = h[i]
  <2>1. h = R(h)
    BY <1>2, <1>3
  <2>2. \A g : /\ R(g)[0] = base
               /\ \A i \in 1 .. N : R(g)[i] = IF i - 1 \in Slots \ {self}
                      THEN SendTo(g[i - 1], i - 1, Echo("PT_ECHO_REQUEST", self, i - 1)) ELSE g[i - 1]
    BY <1>0
  <2> HIDE DEF R, F
  <2> QED BY <1>4, <2>1, <2>2
<1>6. Q = F[N]
  BY DEF ForEach
<1> HIDE DEF F
<1>7. F[N] = h[N]
  BY <1>0, <1>5, Alike
<1>8. SentTo(base, Slots \ {self}, pk, N, h[N])
  BY <1>0, <1>1, <1>2, SendRunResult
<1> QED BY <1>6, <1>7, <1>8 DEF pk

\* The farewell of a player that is dropped.
LEMMA FarewellsSend ==
    ASSUME NEW base \in Steps, NEW self \in Slots, NEW player \in Slots
    PROVE  SentTo(base, Slots \ {player}, [i \in Slots |-> Disconnect(self, player)], N,
                  ForEach(Slots \ {player}, base, LAMBDA s, i :
                      SendTo(s, i, Disconnect(self, player))))
<1> DEFINE p == Disconnect(self, player)
           pk == [i \in Slots |-> p]
           R(g) == [i \in 0 .. N |-> IF i = 0 THEN base
                        ELSE IF i - 1 \in Slots \ {player} THEN SendTo(g[i - 1], i - 1, p)
                             ELSE g[i - 1]]
           F == CHOOSE g : g = R(g)
           Q == ForEach(Slots \ {player}, base, LAMBDA s, i :
                      SendTo(s, i, Disconnect(self, player)))
<1>0. N \in Nat /\ \A i \in 1 .. N : i - 1 \in Slots
  BY Numbers DEF Slots
<1>1. pk \in [Slots -> Game] /\ \A i \in Slots : pk[i] = p
  <2>1. p \in Game
    BY PacketTypes DEF Game
  <2> QED BY <2>1
<1> HIDE DEF pk
<1>2. PICK h \in [0 .. N -> Steps] : h = SendRun(h, base, Slots \ {player}, pk)
  BY <1>1, SendRunExists
<1>3. SendRun(h, base, Slots \ {player}, pk) = R(h)
  BY <1>0, <1>1 DEF SendRun
<1>4. F = R(F)
  <2> HIDE DEF R
  <2> QED BY <1>2, <1>3
<1>5. F[0] = h[0] /\ \A i \in 1 .. N : F[i - 1] = h[i - 1] => F[i] = h[i]
  <2>1. h = R(h)
    BY <1>2, <1>3
  <2>2. \A g : /\ R(g)[0] = base
               /\ \A i \in 1 .. N : R(g)[i] = IF i - 1 \in Slots \ {player}
                      THEN SendTo(g[i - 1], i - 1, p) ELSE g[i - 1]
    BY <1>0
  <2> HIDE DEF R, F
  <2> QED BY <1>4, <2>1, <2>2
<1>6. Q = F[N]
  BY DEF ForEach
<1> HIDE DEF F
<1>7. F[N] = h[N]
  BY <1>0, <1>5, Alike
<1>8. SentTo(base, Slots \ {player}, pk, N, h[N])
  BY <1>0, <1>1, <1>2, SendRunResult
<1> QED BY <1>6, <1>7, <1>8 DEF pk

\* The players with which e begins the handshake once it knows its number.
Greets(e, self, base) ==
    {i \in Slots : self < i \/ \E f \in Programs :
        base.peers[i].endpoint = <<f>> /\ fd[e][f] # NoConnection}

LEMMA HandshakesSend ==
    ASSUME NEW base \in Steps, NEW self \in Slots, NEW e \in Programs
    PROVE  SentTo(base, Greets(e, self, base), Requested(self), N,
                  ForEach(Slots, base, LAMBDA s, i : InitiateHandshake(e, self, s, i)))
<1> DEFINE pk == Requested(self)
           greeted == Greets(e, self, base)
           R(g) == [i \in 0 .. N |-> IF i = 0 THEN base
                        ELSE IF i - 1 \in Slots
                             THEN InitiateHandshake(e, self, g[i - 1], i - 1)
                             ELSE g[i - 1]]
           F == CHOOSE g : g = R(g)
           Q == ForEach(Slots, base, LAMBDA s, i : InitiateHandshake(e, self, s, i))
<1>0. N \in Nat /\ \A i \in 1 .. N : i - 1 \in Slots /\ i - 1 \in 0 .. N
  BY Numbers DEF Slots
<1>1. pk \in [Slots -> Game] /\ \A i \in Slots : pk[i] = Echo("PT_ECHO_REQUEST", self, i)
  <2>1. \A i \in Slots : Echo("PT_ECHO_REQUEST", self, i) \in Game
    BY PacketTypes DEF Game, EchoTypes
  <2> QED BY <2>1 DEF Requested
<1> HIDE DEF pk, greeted
<1>2. PICK h \in [0 .. N -> Steps] : h = SendRun(h, base, greeted, pk)
  BY <1>1, SendRunExists
<1>3. \A n \in 0 .. N : SentTo(base, greeted, pk, n, h[n])
  BY <1>1, <1>2, SendRunResult
<1>4. ASSUME NEW i \in 1 .. N
      PROVE  InitiateHandshake(e, self, h[i - 1], i - 1) =
                 IF i - 1 \in greeted THEN SendTo(h[i - 1], i - 1, pk[i - 1]) ELSE h[i - 1]
  <2> DEFINE s == h[i - 1]
             j == i - 1
  <2>1. j \in Slots /\ SentTo(base, greeted, pk, j, s)
    BY <1>0, <1>3
  <2>2. pk[j] = Echo("PT_ECHO_REQUEST", self, j)
    BY <1>1, <2>1
  <2> HIDE DEF s, j
  <2>3. ~ (j < j)
    BY <2>1, Numbers
  <2>4. s.peers[j] = base.peers[j]
    BY <2>1, <2>3 DEF SentTo
  <2>5. j \in greeted <=> (self < j \/ \E f \in Programs :
           s.peers[j].endpoint = <<f>> /\ fd[e][f] # NoConnection)
    BY <2>1, <2>4 DEF greeted, Greets
  <2>6. InitiateHandshake(e, self, s, j) = IF j \in greeted THEN SendTo(s, j, pk[j]) ELSE s
    BY <2>2, <2>5 DEF InitiateHandshake
  <2> QED BY <2>6 DEF s, j
<1>5. SendRun(h, base, greeted, pk) = R(h)
  BY <1>0, <1>4 DEF SendRun
<1>6. F = R(F)
  <2> HIDE DEF R
  <2> QED BY <1>2, <1>5
<1>7. F[0] = h[0] /\ \A i \in 1 .. N : F[i - 1] = h[i - 1] => F[i] = h[i]
  <2>1. h = R(h)
    BY <1>2, <1>5
  <2>2. \A g : /\ R(g)[0] = base
               /\ \A i \in 1 .. N : R(g)[i] = InitiateHandshake(e, self, g[i - 1], i - 1)
    BY <1>0
  <2> HIDE DEF R, F
  <2> QED BY <1>6, <2>1, <2>2
<1>8. Q = F[N]
  BY DEF ForEach
<1> HIDE DEF F
<1>9. F[N] = h[N]
  BY <1>0, <1>7, Alike
<1>10. SentTo(base, greeted, pk, N, h[N])
  BY <1>0, <1>3
<1> QED BY <1>8, <1>9, <1>10 DEF pk, greeted

\* A player that joins, and some others, are told of each other.
IntroduceOne(s, f, player, i) ==
    Raw(Raw(s, s.peers[i].endpoint, ConnectPacket(player, f)),
        <<f>>, ConnectPacket(i, s.peers[i].endpoint[1]))

\* What the one that joins is told: of each of some players once.
Announces(list, base, others, n) ==
    /\ list \in Seq(Packets)
    /\ \A k \in 1 .. Len(list) : \E i \in others, x \in Programs :
           i < n /\ base.peers[i].endpoint = <<x>> /\ list[k] = ConnectPacket(i, x)
    /\ \A i \in others : i < n => \E k \in 1 .. Len(list) : list[k].player = i
    /\ \A k, l \in 1 .. Len(list) : k < l => list[k].player < list[l].player

ToldFacts(base, f, player, others, n, s) ==
    /\ \A x \in Programs \ {f} :
           /\ (\A i \in others : i < n => base.peers[i].endpoint # <<x>>) => s.to[x] = base.to[x]
           /\ \A j \in others :
                  (/\ j < n /\ base.peers[j].endpoint = <<x>>
                   /\ \A i \in others : i < n /\ base.peers[i].endpoint = <<x>> => i = j)
                      => s.to[x] = Append(base.to[x], ConnectPacket(player, f))
    /\ \E list : Announces(list, base, others, n) /\ s.to[f] = base.to[f] \o list

\* The others are players, and not the one that joins.
Reachable(base, others) ==
    \A i \in others : \E x \in Programs : base.peers[i].endpoint = <<x>>
Elsewhere(base, f, others) ==
    \A i \in others : \E x \in Programs : x # f /\ base.peers[i].endpoint = <<x>>

ToldBy(base, f, player, others, n, s) ==
    /\ s \in Steps /\ s.peers = base.peers
    /\ Elsewhere(base, f, others) => ToldFacts(base, f, player, others, n, s)

IntroducedOne(s, f, player, i, x) ==
    /\ IntroduceOne(s, f, player, i) \in Steps
    /\ IntroduceOne(s, f, player, i).peers = s.peers
    /\ x # f =>
       /\ IntroduceOne(s, f, player, i).to[x] = Append(s.to[x], ConnectPacket(player, f))
       /\ IntroduceOne(s, f, player, i).to[f] = Append(s.to[f], ConnectPacket(i, x))
       /\ \A y \in Programs \ {x, f} : IntroduceOne(s, f, player, i).to[y] = s.to[y]

LEMMA IntroduceOneStep ==
    ASSUME NEW s \in Steps, NEW f \in Programs, NEW player \in Slots, NEW i \in Slots,
           NEW x \in Programs, s.peers[i].endpoint = <<x>>
    PROVE  IntroducedOne(s, f, player, i, x)
<1> DEFINE p == ConnectPacket(player, f)
           q == ConnectPacket(i, x)
           t == Raw(s, <<x>>, p)
           r == Raw(t, <<f>>, q)
<1>1. /\ p \in Packets /\ q \in Packets
      /\ \A y : p \in Sendable(y) /\ q \in Sendable(y)
  BY PacketTypes DEF Sendable
<1>2. IntroduceOne(s, f, player, i) = r
  <2>1. s.peers[i].endpoint[1] = x
    OBVIOUS
  <2> QED BY <2>1 DEF IntroduceOne
<1>3. \A y, z : <<y>> = <<z>> => y = z
  OBVIOUS
<1> HIDE DEF p, q
<1>4. /\ t \in Steps /\ t.peers = s.peers
      /\ \A y \in Programs : t.to[y] = IF <<x>> = <<y>> THEN Append(s.to[y], p) ELSE s.to[y]
  BY <1>1, RawStep
<1> HIDE DEF t
<1>5. /\ r \in Steps /\ r.peers = t.peers
      /\ \A y \in Programs : r.to[y] = IF <<f>> = <<y>> THEN Append(t.to[y], q) ELSE t.to[y]
  BY <1>1, <1>4, RawStep, ZenonT(30)
<1> HIDE DEF r
<1> QED BY <1>2, <1>3, <1>4, <1>5 DEF p, q, IntroducedOne

LEMMA AnnouncesMore ==
    ASSUME NEW base, NEW others \in SUBSET Slots, NEW n \in Nat, NEW list, NEW x \in Programs,
           Announces(list, base, others, n), n \in others, base.peers[n].endpoint = <<x>>
    PROVE  Announces(Append(list, ConnectPacket(n, x)), base, others, n + 1)
<1> DEFINE p == ConnectPacket(n, x)
           new == Append(list, p)
<1>1. p \in Packets /\ p.player = n /\ \A i \in others : i \in Nat
  BY PacketTypes, Numbers
<1>2. list \in Seq(Packets)
  BY DEF Announces
<1>a. p = ConnectPacket(n, x)
  OBVIOUS
<1> HIDE DEF p
<1>3. /\ new \in Seq(Packets) /\ Len(new) = Len(list) + 1 /\ new[Len(list) + 1] = p
      /\ \A k \in 1 .. Len(list) : new[k] = list[k]
      /\ Len(list) \in Nat
  BY <1>1, <1>2
<1> HIDE DEF new
<1>4. \A k \in 1 .. Len(new) : k \in 1 .. Len(list) \/ k = Len(list) + 1
  BY <1>3
<1>5. \A i \in others : i < n + 1 <=> i < n \/ i = n
  BY <1>1
<1>6. \A k \in 1 .. Len(new) : \E i \in others, y \in Programs :
           i < n + 1 /\ base.peers[i].endpoint = <<y>> /\ new[k] = ConnectPacket(i, y)
  <2> TAKE k \in 1 .. Len(new)
  <2>1. CASE k = Len(list) + 1
    BY <1>3, <1>5, <1>a, <2>1
  <2>2. CASE k \in 1 .. Len(list)
    <3>1. PICK i \in others, y \in Programs :
             i < n /\ base.peers[i].endpoint = <<y>> /\ list[k] = ConnectPacket(i, y)
      BY <2>2 DEF Announces
    <3> QED BY <1>3, <1>5, <2>2, <3>1
  <2> QED BY <1>4, <2>1, <2>2
<1>7. \A i \in others : i < n + 1 => \E k \in 1 .. Len(new) : new[k].player = i
  <2> SUFFICES ASSUME NEW i \in others, i < n + 1 PROVE \E k \in 1 .. Len(new) : new[k].player = i
    OBVIOUS
  <2>1. CASE i = n
    <3>1. Len(list) + 1 \in 1 .. Len(new)
      BY <1>3
    <3> QED BY <1>1, <1>3, <2>1, <3>1
  <2>2. CASE i < n
    <3>1. PICK k \in 1 .. Len(list) : list[k].player = i
      BY <2>2 DEF Announces
    <3>2. k \in 1 .. Len(new)
      BY <1>3
    <3> QED BY <1>3, <3>1, <3>2
  <2> QED BY <1>5, <2>1, <2>2
<1>8. \A k \in 1 .. Len(list) : list[k].player \in Nat /\ list[k].player < n
  <2> TAKE k \in 1 .. Len(list)
  <2>1. PICK i \in others, y \in Programs : i < n /\ list[k] = ConnectPacket(i, y)
    BY DEF Announces
  <2> QED BY <1>1, <2>1, PacketTypes
<1>9. \A k, l \in 1 .. Len(new) : k < l => new[k].player < new[l].player
  <2> SUFFICES ASSUME NEW k \in 1 .. Len(new), NEW l \in 1 .. Len(new), k < l
               PROVE  new[k].player < new[l].player
    OBVIOUS
  <2>1. k \in 1 .. Len(list)
    BY <1>3, <1>4
  <2>2. CASE l = Len(list) + 1
    BY <1>1, <1>3, <1>8, <2>1, <2>2
  <2>3. CASE l \in 1 .. Len(list)
    BY <1>3, <2>1, <2>3 DEF Announces
  <2> QED BY <1>4, <2>2, <2>3
<1>10. Announces(new, base, others, n + 1)
  BY <1>3, <1>6, <1>7, <1>9, Zenon DEF Announces
<1> QED BY <1>10 DEF new, p

LEMMA ToldMore ==
    ASSUME NEW base \in Steps, NEW f \in Programs, NEW player \in Slots,
           NEW others \in SUBSET Slots, Elsewhere(base, f, others), NEW n \in Slots, NEW s,
           s \in Steps, s.peers = base.peers, ToldFacts(base, f, player, others, n, s)
    PROVE  ToldFacts(base, f, player, others, n + 1,
                  IF n \in others THEN IntroduceOne(s, f, player, n) ELSE s)
<1>0. n \in Nat /\ \A i \in others : i \in Nat /\ (i < n + 1 <=> i < n \/ i = n)
  BY Numbers
<1>1. s \in Steps /\ s.peers = base.peers
  OBVIOUS
<1>2. PICK list : Announces(list, base, others, n) /\ s.to[f] = base.to[f] \o list
  BY DEF ToldFacts
<1>3. CASE n \in others
  <2> DEFINE t == IntroduceOne(s, f, player, n)
  <2>1. PICK x \in Programs : x # f /\ base.peers[n].endpoint = <<x>>
    BY <1>3 DEF Elsewhere
  <2>b. s.peers[n].endpoint = <<x>>
    BY <1>1, <2>1
  <2>c. /\ IntroduceOne(s, f, player, n) \in Steps
        /\ IntroduceOne(s, f, player, n).peers = s.peers
        /\ IntroduceOne(s, f, player, n).to[x] = Append(s.to[x], ConnectPacket(player, f))
        /\ IntroduceOne(s, f, player, n).to[f] = Append(s.to[f], ConnectPacket(n, x))
        /\ \A y \in Programs \ {x, f} : IntroduceOne(s, f, player, n).to[y] = s.to[y]
    <3> HIDE DEF t
    <3>1. s \in Steps /\ x # f
      BY <1>1, <2>1
    <3>2. IntroducedOne(s, f, player, n, x)
      BY <3>1, <2>b, IntroduceOneStep
    <3> QED BY <3>1, <3>2 DEF IntroducedOne
  <2>2. /\ t \in Steps /\ t.peers = base.peers
        /\ t.to[x] = Append(s.to[x], ConnectPacket(player, f))
        /\ t.to[f] = Append(s.to[f], ConnectPacket(n, x))
        /\ \A y \in Programs \ {x, f} : t.to[y] = s.to[y]
    BY <1>1, <2>c
  <2>a. IntroduceOne(s, f, player, n) = t
    OBVIOUS
  <2> HIDE DEF t
  <2>3. \A y : base.peers[n].endpoint = <<y>> <=> x = y
    BY <2>1
  <2>4. ASSUME NEW y \in Programs \ {f},
               \A i \in others : i < n + 1 => base.peers[i].endpoint # <<y>>
        PROVE  t.to[y] = base.to[y]
    <3>1. \A i \in others : i < n => base.peers[i].endpoint # <<y>>
      BY <1>0, <2>4
    <3>2. y # x
      BY <1>0, <1>3, <2>1, <2>4
    <3> QED BY <2>2, <3>1, <3>2 DEF ToldFacts
  <2>5. ASSUME NEW y \in Programs \ {f}, NEW j \in others, j < n + 1, base.peers[j].endpoint = <<y>>,
               \A i \in others : i < n + 1 /\ base.peers[i].endpoint = <<y>> => i = j
        PROVE  t.to[y] = Append(base.to[y], ConnectPacket(player, f))
    <3>1. CASE j = n
      <4>1. x = y /\ \A i \in others : i < n => base.peers[i].endpoint # <<y>>
        BY <1>0, <2>3, <2>5, <3>1
      <4>2. s.to[y] = base.to[y]
        BY <4>1 DEF ToldFacts
      <4> QED BY <2>2, <4>1, <4>2
    <3>2. CASE j # n
      <4>1. j < n /\ base.peers[n].endpoint # <<y>>
        BY <1>0, <1>3, <2>5, <3>2
      <4>2. y # x
        BY <2>3, <4>1
      <4>3. \A i \in others : i < n /\ base.peers[i].endpoint = <<y>> => i = j
        BY <1>0, <2>5
      <4>4. s.to[y] = Append(base.to[y], ConnectPacket(player, f))
        BY <2>5, <4>1, <4>3 DEF ToldFacts
      <4> QED BY <2>2, <4>2, <4>4
    <3> QED BY <3>1, <3>2
  <2>6. Announces(Append(list, ConnectPacket(n, x)), base, others, n + 1)
    BY <1>0, <1>2, <1>3, <2>1, AnnouncesMore
  <2>7. t.to[f] = base.to[f] \o Append(list, ConnectPacket(n, x))
    <3> DEFINE p == ConnectPacket(n, x)
               b == base.to[f]
    <3>1. p \in Packets /\ b \in Seq(Packets) /\ list \in Seq(Packets)
      BY <1>2, PacketTypes DEF Steps, Letters, Announces
    <3> HIDE DEF p, b
    <3>2. Append(b \o list, p) = b \o Append(list, p)
      BY <3>1, AppendBehind
    <3> QED BY <1>2, <2>2, <3>2 DEF p, b
  <2>8. \A y \in Programs \ {f} :
           /\ (\A i \in others : i < n + 1 => base.peers[i].endpoint # <<y>>) => t.to[y] = base.to[y]
           /\ \A j \in others :
                  (/\ j < n + 1 /\ base.peers[j].endpoint = <<y>>
                   /\ \A i \in others : i < n + 1 /\ base.peers[i].endpoint = <<y>> => i = j)
                      => t.to[y] = Append(base.to[y], ConnectPacket(player, f))
    BY <2>4, <2>5
  <2>9. ToldFacts(base, f, player, others, n + 1, t)
    BY <2>2, <2>6, <2>7, <2>8, Zenon DEF ToldFacts
  <2> QED BY <1>3, <2>9, <2>a
<1>4. CASE n \notin others
  <2>1. \A i \in others : i < n + 1 <=> i < n
    BY <1>0, <1>4
  <2>2. Announces(list, base, others, n + 1)
    BY <1>2, <2>1 DEF Announces
  <2>3. \A y \in Programs \ {f} :
           /\ (\A i \in others : i < n + 1 => base.peers[i].endpoint # <<y>>) => s.to[y] = base.to[y]
           /\ \A j \in others :
                  (/\ j < n + 1 /\ base.peers[j].endpoint = <<y>>
                   /\ \A i \in others : i < n + 1 /\ base.peers[i].endpoint = <<y>> => i = j)
                      => s.to[y] = Append(base.to[y], ConnectPacket(player, f))
    BY <2>1 DEF ToldFacts
  <2>4. ToldFacts(base, f, player, others, n + 1, s)
    BY <1>1, <1>2, <2>2, <2>3, Zenon DEF ToldFacts
  <2> QED BY <1>4, <2>4
<1> QED BY <1>3, <1>4

LEMMA IntroduceTold ==
    ASSUME NEW base \in Steps, NEW f \in Programs, NEW player \in Slots,
           NEW others \in SUBSET Slots, Reachable(base, others)
    PROVE  ToldBy(base, f, player, others, N,
                  ForEach(others, base, LAMBDA s, i :
                    Raw(Raw(s, s.peers[i].endpoint, ConnectPacket(player, f)),
                        <<f>>, ConnectPacket(i, s.peers[i].endpoint[1]))))
<1> DEFINE T == {s \in Steps : s.peers = base.peers}
           step == [i \in 1 .. N |-> [s \in T |->
               IF i - 1 \in others THEN IntroduceOne(s, f, player, i - 1) ELSE s]]
           R(g) == [i \in 0 .. N |-> IF i = 0 THEN base
                        ELSE IF i - 1 \in others
                             THEN IntroduceOne(g[i - 1], f, player, i - 1)
                             ELSE g[i - 1]]
           F == CHOOSE g : g = R(g)
           Q == ForEach(others, base, LAMBDA s, i :
                    Raw(Raw(s, s.peers[i].endpoint, ConnectPacket(player, f)),
                        <<f>>, ConnectPacket(i, s.peers[i].endpoint[1])))
<1>0. N \in Nat /\ \A i \in 1 .. N : i - 1 \in Slots
  BY Numbers DEF Slots
<1>1. \A i \in Slots, s \in T : i \in others => IntroduceOne(s, f, player, i) \in T
  <2> TAKE i \in Slots, s \in T
  <2> HAVE i \in others
  <2>1. PICK x \in Programs : base.peers[i].endpoint = <<x>>
    BY DEF Reachable
  <2>2. s \in Steps /\ s.peers = base.peers /\ s.peers[i].endpoint = <<x>>
    BY <2>1
  <2>3. IntroduceOne(s, f, player, i) \in Steps /\ IntroduceOne(s, f, player, i).peers = s.peers
    <3>1. IntroducedOne(s, f, player, i, x)
      BY <2>1, <2>2, IntroduceOneStep
    <3> QED BY <3>1 DEF IntroducedOne
  <2> QED BY <2>2, <2>3
<1>2. step \in [1 .. N -> [T -> T]]
  BY <1>0, <1>1
<1>3. \A i \in 1 .. N, s \in T : step[i][s] = IF i - 1 \in others
          THEN IntroduceOne(s, f, player, i - 1) ELSE s
  OBVIOUS
<1>b. base \in T
  OBVIOUS
<1> HIDE DEF step, T
<1>4. PICK h \in [0 .. N -> T] : h = RunBy(h, base, step, N)
  BY <1>0, <1>2, <1>b, Runs
<1>5. \A i \in 0 .. N : (IF i = 0 THEN base ELSE step[i][h[i - 1]]) =
          IF i = 0 THEN base
          ELSE IF i - 1 \in others THEN IntroduceOne(h[i - 1], f, player, i - 1) ELSE h[i - 1]
  <2> TAKE i \in 0 .. N
  <2>1. i # 0 => h[i - 1] \in T /\ i \in 1 .. N
    BY <1>0, <1>4
  <2> QED BY <1>3, <2>1
<1>6. h = R(h)
  <2>1. RunBy(h, base, step, N) = R(h)
    BY <1>5 DEF RunBy
  <2> QED BY <1>4, <2>1
<1>7. F = R(F)
  <2> HIDE DEF R
  <2> QED BY <1>6
<1>8. \A g : /\ R(g)[0] = base
             /\ \A i \in 1 .. N : R(g)[i] = IF i - 1 \in others
                    THEN IntroduceOne(g[i - 1], f, player, i - 1) ELSE g[i - 1]
  BY <1>0
<1>9. F[0] = h[0] /\ \A i \in 1 .. N : F[i - 1] = h[i - 1] => F[i] = h[i]
  <2> HIDE DEF R, F
  <2> QED BY <1>6, <1>7, <1>8
<1>10. Q = F[N]
  BY DEF ForEach, IntroduceOne
<1> HIDE DEF F
<1>11. F[N] = h[N]
  BY <1>0, <1>9, Alike
<1> DEFINE Ns == {n \in Nat : n <= N => ToldBy(base, f, player, others, n, h[n])}
<1>12. 0 \in Ns
  <2>1. h[0] = base
    <3> HIDE DEF R
    <3> QED BY <1>6, <1>8
  <2>2. Announces(<<>>, base, others, 0)
    <3>1. <<>> \in Seq(Packets)
      OBVIOUS
    <3>2. \A i \in others : ~ (i < 0)
      BY Numbers
    <3> QED BY <3>1, <3>2 DEF Announces
  <2>3. base.to[f] = base.to[f] \o <<>>
    BY DEF Steps, Letters
  <2>4. \A i \in others : ~ (i < 0)
    BY Numbers
  <2>5. ToldBy(base, f, player, others, 0, base)
    BY <2>2, <2>3, <2>4 DEF ToldBy, ToldFacts
  <2> QED BY <2>1, <2>5
<1>13. ASSUME NEW n \in Nat, n \in Ns PROVE n + 1 \in Ns
  <2> SUFFICES ASSUME n + 1 <= N PROVE ToldBy(base, f, player, others, n + 1, h[n + 1])
    OBVIOUS
  <2>1. n \in Slots /\ n + 1 \in 1 .. N /\ (n + 1) - 1 = n /\ n <= N
    BY <1>0 DEF Slots
  <2>2. ToldBy(base, f, player, others, n, h[n])
    BY <1>13, <2>1
  <2>3. h[n + 1] = IF n \in others THEN IntroduceOne(h[n], f, player, n) ELSE h[n]
    <3> HIDE DEF R
    <3> QED BY <1>6, <1>8, <2>1
  <2> DEFINE t == h[n]
             r == IF n \in others THEN IntroduceOne(t, f, player, n) ELSE t
  <2> HIDE DEF t
  <2>4. t \in Steps /\ t.peers = base.peers
    BY <2>2 DEF t, ToldBy
  <2>5. r \in Steps /\ r.peers = base.peers
    BY <1>1, <2>1, <2>4 DEF T
  <2>6. Elsewhere(base, f, others) => ToldFacts(base, f, player, others, n + 1, r)
    BY <2>1, <2>2, <2>4, ToldMore DEF t, ToldBy
  <2>7. ToldBy(base, f, player, others, n + 1, r)
    BY <2>5, <2>6 DEF ToldBy
  <2> QED BY <2>3, <2>7 DEF t
<1>14. N \in Ns
  <2> HIDE DEF Ns
  <2> QED BY <1>0, <1>12, <1>13, Induct
<1>15. ToldBy(base, f, player, others, N, h[N])
  BY <1>0, <1>14
<1> QED BY <1>10, <1>11, <1>15

--------------------------------------------------------------------------------
(* What the operators of protocol_zt do to connections.                        *)

LEMMA StepType ==
    ASSUME Typed, NEW e \in Programs
    PROVE  /\ Step(e) \in Steps /\ Step(e).peers = peers[e]
           /\ \A f \in Programs : Step(e).to[f] = <<>>
<1>1. [f \in Programs |-> <<>>] \in Letters
  <2>1. \A S : <<>> \in Seq(S)
    OBVIOUS
  <2> QED BY <2>1 DEF Letters
<1>2. peers[e] \in PeerTables
  BY DEF Typed
<1> QED BY <1>1, <1>2 DEF Step, Steps

LEMMA MailConcat ==
    ASSUME NEW f, NEW a \in Seq(Sendable(f)), NEW b \in Seq(Sendable(f))
    PROVE  a \o b \in Seq(Sendable(f))
<1> DEFINE S == Sendable(f)
<1>1. a \in Seq(S) /\ b \in Seq(S)
  OBVIOUS
<1> HIDE DEF S
<1>2. a \o b \in Seq(S)
  BY <1>1
<1> QED BY <1>2 DEF S

LEMMA LettersOf ==
    ASSUME NEW to \in Letters, NEW f \in Programs
    PROVE  to[f] \in Seq(Sendable(f)) /\ to[f] \in Seq(Packets)
BY DEF Letters

LEMMA MakeLetters ==
    ASSUME NEW to, to = [f \in Programs |-> to[f]], \A f \in Programs : to[f] \in Seq(Sendable(f))
    PROVE  to \in Letters
<1>1. \A f : Seq(Sendable(f)) \subseteq Seq(Packets)
  BY KindsOfPackets, SeqMonotonicHere
<1>2. to \in [Programs -> Seq(Packets)]
  BY <1>1
<1> QED BY <1>2 DEF Letters

Delivered(e, fds, wires, queues, packets) ==
    /\ IsWires(wire') /\ send_queue' \in [Programs -> Letters]
    /\ \A c \in Connections : \A f \in Ends(c) : wire'[c][f] =
           IF f # e /\ e \in Ends(c) /\ fds[e][f] = c /\ (fds[f][e] = c \/ c \in backlog')
           THEN wires[c][f] \o packets[f] ELSE wires[c][f]
    /\ \A f \in Programs : send_queue'[e][f] =
           IF fds[e][f] = NoConnection THEN queues[e][f] \o packets[f] ELSE <<>>
    /\ \A x \in Programs \ {e} : send_queue'[x] = queues[x]

LEMMA DeliverShape ==
    ASSUME NEW e \in Programs, NEW fds, NEW wires, IsWires(wires), NEW queues \in [Programs -> Letters],
           NEW packets \in Letters, Deliver(e, fds, wires, queues, packets)
    PROVE  Delivered(e, fds, wires, queues, packets)
<1>1. \A c \in Connections : \A f \in Ends(c) : wire'[c][f] =
                  IF f # e /\ e \in Ends(c) /\ fds[e][f] = c /\ (fds[f][e] = c \/ c \in backlog')
                  THEN wires[c][f] \o packets[f] ELSE wires[c][f]
  BY DEF Deliver
<1>2. \A c \in Connections : \A f \in Ends(c) : f \in Programs
  BY ConnectionTypes
<1>3. ASSUME NEW c \in Connections, NEW f \in Ends(c) PROVE wire'[c][f] \in Seq(Sendable(f))
  <2>1. packets[f] \in Seq(Sendable(f)) /\ wires[c][f] \in Seq(Sendable(f))
    BY <1>2, LettersOf DEF IsWires
  <2>2. wires[c][f] \o packets[f] \in Seq(Sendable(f))
    BY <2>1, MailConcat
  <2> QED BY <1>1, <2>1, <2>2
<1>4. wire' = [c \in Connections |-> [f \in Ends(c) |-> wire'[c][f]]]
  BY DEF Deliver
<1>5. IsWires(wire')
  BY <1>3, <1>4 DEF IsWires
<1>6. /\ \A f \in Programs : send_queue'[e][f] =
             IF fds[e][f] = NoConnection THEN queues[e][f] \o packets[f] ELSE <<>>
      /\ \A x \in Programs \ {e} : send_queue'[x] = queues[x]
      /\ send_queue' = [x \in Programs |-> send_queue'[x]]
      /\ send_queue'[e] = [f \in Programs |-> send_queue'[e][f]]
  BY DEF Deliver
<1>7. ASSUME NEW f \in Programs PROVE send_queue'[e][f] \in Seq(Sendable(f))
  <2>1. queues[e] \in Letters
    OBVIOUS
  <2>2. queues[e][f] \in Seq(Sendable(f)) /\ packets[f] \in Seq(Sendable(f))
    BY <2>1, LettersOf
  <2>3. queues[e][f] \o packets[f] \in Seq(Sendable(f))
    BY <2>2, MailConcat
  <2>4. <<>> \in Seq(Sendable(f))
    OBVIOUS
  <2> QED BY <1>6, <2>3, <2>4
<1>8. send_queue'[e] \in Letters
  BY <1>6, <1>7, MakeLetters
<1>9. send_queue' \in [Programs -> Letters]
  BY <1>6, <1>8
<1> QED BY <1>1, <1>5, <1>6, <1>9 DEF Delivered

\* What is on its way stays fit to be there as long as who has joined has joined.
LEMMA MailKept ==
    ASSUME \A x \in Programs : Joined(x) => Joined(x)', IsWires(wire'), send_queue' \in [Programs -> Letters]
    PROVE  (IsWires(wire) /\ send_queue \in [Programs -> Letters])'
<1>1. \A f \in Programs : Sendable(f) \subseteq Sendable(f)'
  BY DEF Sendable
<1>2. \A f \in Programs : Seq(Sendable(f)) \subseteq Seq(Sendable(f)')
  BY <1>1, SeqMonotonicHere
<1>3. IsWires(wire)'
  <2>1. \A c \in Connections : \A f \in Ends(c) : f \in Programs
    BY ConnectionTypes
  <2> QED BY <1>2, <2>1 DEF IsWires
<1>4. Letters \subseteq Letters'
  BY <1>2 DEF Letters
<1> QED BY <1>3, <1>4

LEMMA FdShape ==
    ASSUME Typed, NEW e \in Programs, NEW f \in Programs, fd[e][f] # NoConnection
    PROVE  /\ e # f /\ fd[e][f] \in Connections /\ fd[e][f] \in {<<e, f>>, <<f, e>>}
           /\ Ends(fd[e][f]) = {e, f} /\ wire[fd[e][f]][e] \in Seq(Sendable(e))
<1>1. fd[e][f] \in Between(e, f)
  BY DEF Typed, IsFds
<1>2. fd[e][f] \in Connections /\ fd[e][f] \in {<<e, f>>, <<f, e>>}
  BY <1>1 DEF Between
<1>3. Ends(fd[e][f]) = {e, f} /\ e # f
  BY <1>2, ConnectionTypes
<1> QED BY <1>2, <1>3 DEF Typed, IsWires

LEMMA TailMail ==
    ASSUME NEW f, NEW a \in Seq(Sendable(f)), a # <<>>
    PROVE  /\ Tail(a) \in Seq(Sendable(f)) /\ Head(a) \in Sendable(f)
           /\ a = <<Head(a)>> \o Tail(a)
<1> DEFINE S == Sendable(f)
<1>1. a \in Seq(S) /\ a # <<>>
  OBVIOUS
<1> HIDE DEF S
<1>2. Tail(a) \in Seq(S) /\ Head(a) \in S /\ a = <<Head(a)>> \o Tail(a)
  BY <1>1
<1> QED BY <1>2 DEF S

LEMMA RestShape ==
    ASSUME Typed, NEW e \in Programs, NEW f \in Programs, fd[e][f] # NoConnection,
           wire[fd[e][f]][e] # <<>>
    PROVE  /\ IsWires(Rest(e, f))
           /\ Rest(e, f)[fd[e][f]][e] = Tail(wire[fd[e][f]][e])
           /\ \A c \in Connections : \A x \in Ends(c) :
                  (c # fd[e][f] \/ x # e) => Rest(e, f)[c][x] = wire[c][x]
           /\ Arrived(e, f) \in Sendable(e) /\ Arrived(e, f) \in Packets
           /\ wire[fd[e][f]][e] = <<Arrived(e, f)>> \o Rest(e, f)[fd[e][f]][e]
<1> DEFINE c0 == fd[e][f]
<1>1. e # f /\ c0 \in Connections /\ Ends(c0) = {e, f} /\ wire[c0][e] \in Seq(Sendable(e))
  BY FdShape
<1>2. IsWires(wire)
  BY DEF Typed
<1>3. Rest(e, f) = [wire EXCEPT ![c0][e] = Tail(@)]
  BY DEF Rest
<1>a. wire[c0][e] # <<>>
  OBVIOUS
<1>4. Tail(wire[c0][e]) \in Seq(Sendable(e)) /\ Arrived(e, f) \in Sendable(e)
      /\ wire[c0][e] = <<Arrived(e, f)>> \o Tail(wire[c0][e])
  BY <1>1, <1>a, TailMail DEF Arrived
<1>5. /\ wire = [c \in Connections |-> [x \in Ends(c) |-> wire[c][x]]]
      /\ \A c \in Connections : \A x \in Ends(c) : wire[c][x] \in Seq(Sendable(x))
  BY <1>2 DEF IsWires
<1> HIDE DEF c0
<1>6. /\ Rest(e, f) = [c \in Connections |-> [x \in Ends(c) |-> Rest(e, f)[c][x]]]
      /\ Rest(e, f)[c0][e] = Tail(wire[c0][e])
      /\ \A c \in Connections : \A x \in Ends(c) :
                  (c # c0 \/ x # e) => Rest(e, f)[c][x] = wire[c][x]
  <2> DEFINE old == wire[c0]
             new == [old EXCEPT ![e] = Tail(@)]
  <2>1. old = [x \in Ends(c0) |-> wire[c0][x]]
    BY <1>1, <1>5
  <2>2. /\ new = [x \in Ends(c0) |-> new[x]] /\ new[e] = Tail(wire[c0][e])
        /\ \A x \in Ends(c0) \ {e} : new[x] = wire[c0][x]
    BY <1>1, <2>1
  <2>3. wire = [c \in Connections |-> wire[c]]
    BY <1>5
  <2>4. Rest(e, f) = [wire EXCEPT ![c0] = new]
    BY <1>3
  <2> HIDE DEF new, old
  <2>5. Rest(e, f)[c0] = new /\ \A c \in Connections \ {c0} : Rest(e, f)[c] = wire[c]
    BY <1>1, <2>3, <2>4
  <2>6. Rest(e, f) = [c \in Connections |-> Rest(e, f)[c]]
    BY <2>3, <2>4
  <2>7. \A c \in Connections : Rest(e, f)[c] = [x \in Ends(c) |-> Rest(e, f)[c][x]]
    <3> TAKE c \in Connections
    <3>1. CASE c = c0
      BY <2>2, <2>5, <3>1
    <3>2. CASE c # c0
      BY <1>5, <2>5, <3>2
    <3> QED BY <3>1, <3>2
  <2>8. Rest(e, f) = [c \in Connections |-> [x \in Ends(c) |-> Rest(e, f)[c][x]]]
    BY <2>6, <2>7
  <2>9. \A c \in Connections : \A x \in Ends(c) :
                  (c # c0 \/ x # e) => Rest(e, f)[c][x] = wire[c][x]
    BY <2>2, <2>5
  <2> QED BY <2>2, <2>5, <2>8, <2>9
<1>7. \A c \in Connections : \A x \in Ends(c) : Rest(e, f)[c][x] \in Seq(Sendable(x))
  <2> TAKE c \in Connections
  <2> TAKE x \in Ends(c)
  <2>1. CASE c = c0 /\ x = e
    BY <1>4, <1>6, <2>1
  <2>2. CASE c # c0 \/ x # e
    BY <1>5, <1>6, <2>2
  <2> QED BY <2>1, <2>2
<1>8. IsWires(Rest(e, f))
  BY <1>6, <1>7 DEF IsWires
<1>9. Arrived(e, f) \in Packets
  BY <1>4, KindsOfPackets
<1> QED BY <1>4, <1>6, <1>8, <1>9 DEF c0

Closes(e, others, wires) ==
    /\ IsFds(ClosedFds(e, others)) /\ IsWires(ClosedWires(e, others, wires))
    /\ ClosedQueues(e, others) \in [Programs -> Letters]
    /\ \A f \in Programs : ClosedFds(e, others)[e][f] =
           IF f \in others THEN NoConnection ELSE fd[e][f]
    /\ \A x \in Programs \ {e} : ClosedFds(e, others)[x] = fd[x]
    /\ \A c \in Connections : \A f \in Ends(c) : ClosedWires(e, others, wires)[c][f] =
           IF f = e /\ \E g \in others : fd[e][g] = c THEN <<>> ELSE wires[c][f]
    /\ \A f \in Programs : ClosedQueues(e, others)[e][f] =
           IF f \in others THEN <<>> ELSE send_queue[e][f]
    /\ \A x \in Programs \ {e} : ClosedQueues(e, others)[x] = send_queue[x]

LEMMA ClosedShape ==
    ASSUME Typed, NEW e \in Programs, NEW others, NEW wires, IsWires(wires)
    PROVE  Closes(e, others, wires)
<1>0. /\ fd \in FdTables /\ \A x, f \in Programs : fd[x][f] \in {NoConnection} \cup Between(x, f)
      /\ send_queue \in [Programs -> Letters]
  BY DEF Typed, IsFds
<1>1. /\ \A f \in Programs : ClosedFds(e, others)[e][f] =
                  IF f \in others THEN NoConnection ELSE fd[e][f]
      /\ \A x \in Programs \ {e} : ClosedFds(e, others)[x] = fd[x]
      /\ ClosedFds(e, others) \in FdTables
  BY <1>0 DEF ClosedFds, FdTables
<1>2. IsFds(ClosedFds(e, others))
  BY <1>0, <1>1 DEF IsFds
<1>3. \A c \in Connections : \A f \in Ends(c) : ClosedWires(e, others, wires)[c][f] =
                  IF f = e /\ \E g \in others : fd[e][g] = c THEN <<>> ELSE wires[c][f]
  BY DEF ClosedWires
<1>4. IsWires(ClosedWires(e, others, wires))
  <2> DEFINE new == ClosedWires(e, others, wires)
  <2>1. new = [c \in Connections |-> [f \in Ends(c) |-> new[c][f]]]
    BY DEF ClosedWires
  <2>2. \A S : <<>> \in Seq(S)
    OBVIOUS
  <2>3. \A c \in Connections : \A f \in Ends(c) : new[c][f] \in Seq(Sendable(f))
    <3> TAKE c \in Connections
    <3> TAKE f \in Ends(c)
    <3>1. wires[c][f] \in Seq(Sendable(f))
      BY DEF IsWires
    <3>2. new[c][f] = <<>> \/ new[c][f] = wires[c][f]
      BY <1>3
    <3> HIDE DEF new
    <3> QED BY <2>2, <3>1, <3>2
  <2> QED BY <2>1, <2>3 DEF IsWires
<1>5. /\ \A f \in Programs : ClosedQueues(e, others)[e][f] =
                  IF f \in others THEN <<>> ELSE send_queue[e][f]
      /\ \A x \in Programs \ {e} : ClosedQueues(e, others)[x] = send_queue[x]
      /\ ClosedQueues(e, others) = [x \in Programs |-> ClosedQueues(e, others)[x]]
      /\ ClosedQueues(e, others)[e] = [f \in Programs |-> ClosedQueues(e, others)[e][f]]
  <2>1. send_queue[e] \in [Programs -> Seq(Packets)]
    BY <1>0 DEF Letters
  <2> QED BY <1>0, <2>1 DEF ClosedQueues
<1>6. ClosedQueues(e, others)[e] \in Letters
  <2>1. \A f \in Programs : send_queue[e][f] \in Seq(Sendable(f)) /\ <<>> \in Seq(Sendable(f))
    BY <1>0, LettersOf
  <2>2. \A f \in Programs : ClosedQueues(e, others)[e][f] \in Seq(Sendable(f))
    BY <1>5, <2>1
  <2> DEFINE q == ClosedQueues(e, others)[e]
  <2>3. q = [f \in Programs |-> q[f]] /\ \A f \in Programs : q[f] \in Seq(Sendable(f))
    BY <1>5, <2>2
  <2> HIDE DEF q
  <2>4. q \in Letters
    BY <2>3, MakeLetters
  <2> QED BY <2>4 DEF q
<1>7. ClosedQueues(e, others) \in [Programs -> Letters]
  <2>1. \A x \in Programs : ClosedQueues(e, others)[x] \in Letters
    BY <1>0, <1>5, <1>6
  <2> QED BY <1>5, <2>1
<1> QED BY <1>1, <1>2, <1>3, <1>4, <1>5, <1>7 DEF Closes

\* What all steps of e do to peers.
PeersStep(e, table) == /\ peers' \in [Programs -> PeerTables] /\ peers'[e] = table
                       /\ \A x \in Programs \ {e} : peers'[x] = peers[x]

LEMMA PeersShape ==
    ASSUME Typed, NEW e \in Programs, NEW table \in PeerTables, peers' = [peers EXCEPT ![e] = table]
    PROVE  PeersStep(e, table)
BY DEF Typed, PeersStep

Finished(e, step) ==
    /\ IsWires(wire') /\ send_queue' \in [Programs -> Letters] /\ fd' = fd /\ backlog' = backlog
    /\ PeersStep(e, step.peers)
    /\ \A c \in Connections : \A f \in Ends(c) : wire'[c][f] =
           IF f # e /\ e \in Ends(c) /\ fd[e][f] = c /\ (fd[f][e] = c \/ c \in backlog)
           THEN wire[c][f] \o step.to[f] ELSE wire[c][f]
    /\ \A f \in Programs : send_queue'[e][f] =
           IF fd[e][f] = NoConnection THEN send_queue[e][f] \o step.to[f] ELSE <<>>
    /\ \A x \in Programs \ {e} : send_queue'[x] = send_queue[x]

LEMMA FinishShape ==
    ASSUME Typed, NEW e \in Programs, NEW step \in Steps, Finish(e, step)
    PROVE  Finished(e, step)
<1> DEFINE to == step.to
           table == step.peers
<1>1. to \in Letters /\ table \in PeerTables
  BY DEF Steps
<1>2. /\ peers' = [peers EXCEPT ![e] = table] /\ fd' = fd /\ backlog' = backlog
      /\ Deliver(e, fd, wire, send_queue, to)
  BY DEF Finish
<1>3. IsWires(wire) /\ send_queue \in [Programs -> Letters]
  BY DEF Typed
<1> HIDE DEF to, table
<1>4. PeersStep(e, table)
  BY <1>1, <1>2, PeersShape
<1>5. /\ IsWires(wire') /\ send_queue' \in [Programs -> Letters]
      /\ \A c \in Connections : \A f \in Ends(c) : wire'[c][f] =
                  IF f # e /\ e \in Ends(c) /\ fd[e][f] = c /\ (fd[f][e] = c \/ c \in backlog')
                  THEN wire[c][f] \o to[f] ELSE wire[c][f]
      /\ \A f \in Programs : send_queue'[e][f] =
                  IF fd[e][f] = NoConnection THEN send_queue[e][f] \o to[f] ELSE <<>>
      /\ \A x \in Programs \ {e} : send_queue'[x] = send_queue[x]
  <2>1. Delivered(e, fd, wire, send_queue, to)
    BY <1>1, <1>2, <1>3, DeliverShape
  <2> QED BY <2>1 DEF Delivered
<1> QED BY <1>2, <1>4, <1>5, Zenon DEF Finished, to, table

Received(e, g, step) ==
    /\ IsWires(wire') /\ send_queue' \in [Programs -> Letters] /\ fd' = fd /\ backlog' = backlog
    /\ PeersStep(e, step.peers)
    /\ \A c \in Connections : \A f \in Ends(c) : wire'[c][f] =
           IF f # e /\ e \in Ends(c) /\ fd[e][f] = c /\ (fd[f][e] = c \/ c \in backlog)
           THEN wire[c][f] \o step.to[f] ELSE Rest(e, g)[c][f]
    /\ \A f \in Programs : send_queue'[e][f] =
           IF fd[e][f] = NoConnection THEN send_queue[e][f] \o step.to[f] ELSE <<>>
    /\ \A x \in Programs \ {e} : send_queue'[x] = send_queue[x]

LEMMA FinishReceiveShape ==
    ASSUME Typed, NEW e \in Programs, NEW g \in Programs, NEW step \in Steps,
           fd[e][g] # NoConnection, wire[fd[e][g]][e] # <<>>, FinishReceive(e, g, step)
    PROVE  Received(e, g, step)
<1> DEFINE to == step.to
           table == step.peers
           rest == Rest(e, g)
<1>1. to \in Letters /\ table \in PeerTables
  BY DEF Steps
<1>2. /\ peers' = [peers EXCEPT ![e] = table] /\ fd' = fd /\ backlog' = backlog
      /\ Deliver(e, fd, rest, send_queue, to)
  BY DEF FinishReceive
<1>3. /\ IsWires(rest) /\ send_queue \in [Programs -> Letters]
      /\ \A c \in Connections : \A x \in Ends(c) : x # e => rest[c][x] = wire[c][x]
  BY RestShape DEF Typed
<1> HIDE DEF to, table, rest
<1>4. PeersStep(e, table)
  BY <1>1, <1>2, PeersShape
<1>5. /\ IsWires(wire') /\ send_queue' \in [Programs -> Letters]
      /\ \A c \in Connections : \A f \in Ends(c) : wire'[c][f] =
                  IF f # e /\ e \in Ends(c) /\ fd[e][f] = c /\ (fd[f][e] = c \/ c \in backlog')
                  THEN rest[c][f] \o to[f] ELSE rest[c][f]
      /\ \A f \in Programs : send_queue'[e][f] =
                  IF fd[e][f] = NoConnection THEN send_queue[e][f] \o to[f] ELSE <<>>
      /\ \A x \in Programs \ {e} : send_queue'[x] = send_queue[x]
  <2>1. Delivered(e, fd, rest, send_queue, to)
    BY <1>1, <1>2, <1>3, DeliverShape
  <2> QED BY <2>1 DEF Delivered
<1>6. \A c \in Connections : \A f \in Ends(c) : wire'[c][f] =
                  IF f # e /\ e \in Ends(c) /\ fd[e][f] = c /\ (fd[f][e] = c \/ c \in backlog)
                  THEN wire[c][f] \o to[f] ELSE rest[c][f]
  BY <1>2, <1>3, <1>5
<1> QED BY <1>2, <1>4, <1>5, <1>6, Zenon DEF Received, to, table, rest

Forgot(e, player, wires, step) ==
    LET others == Reached(peers[e][player].endpoint)
        closed == ClosedWires(e, others, wires)
    IN
    /\ IsWires(wire') /\ send_queue' \in [Programs -> Letters] /\ backlog' = backlog
    /\ fd' = ClosedFds(e, others) /\ IsFds(fd')
    /\ isConnected' = [isConnected EXCEPT ![e] = @ \ {player}]
    /\ got' = [got EXCEPT ![e] = [f \in Programs |-> IF f \in others THEN 0 ELSE @[f]]]
    /\ PeersStep(e, [step.peers EXCEPT ![player] = NoPeer])
    /\ \A c \in Connections : \A f \in Ends(c) : wire'[c][f] =
           IF f # e /\ e \in Ends(c) /\ fd'[e][f] = c /\ (fd'[f][e] = c \/ c \in backlog)
           THEN closed[c][f] \o step.to[f] ELSE closed[c][f]
    /\ \A f \in Programs : send_queue'[e][f] =
           IF fd'[e][f] = NoConnection
           THEN ClosedQueues(e, others)[e][f] \o step.to[f] ELSE <<>>
    /\ \A x \in Programs \ {e} : send_queue'[x] = send_queue[x]

LEMMA ForgetShape ==
    ASSUME Typed, NEW e \in Programs, NEW player \in Slots, NEW wires, IsWires(wires),
           NEW step \in Steps, ForgetPlayer(e, player, wires, step)
    PROVE  Forgot(e, player, wires, step)
<1> DEFINE others == Reached(peers[e][player].endpoint)
           closed == ClosedWires(e, others, wires)
           queues == ClosedQueues(e, others)
           to == step.to
           table == [step.peers EXCEPT ![player] = NoPeer]
<1>1. to \in Letters /\ table \in PeerTables
  BY PacketTypes DEF Steps, PeerTables
<1>2. DisconnectNet(player, step).peers = table /\ DisconnectNet(player, step).to = to
  BY DEF DisconnectNet, Steps
<1>3. /\ peers' = [peers EXCEPT ![e] = table] /\ backlog' = backlog
      /\ fd' = ClosedFds(e, others)
      /\ isConnected' = [isConnected EXCEPT ![e] = @ \ {player}]
      /\ got' = [got EXCEPT ![e] = [f \in Programs |-> IF f \in others THEN 0 ELSE @[f]]]
      /\ Deliver(e, fd', closed, queues, to)
  BY <1>2 DEF ForgetPlayer
<1> HIDE DEF to, table, others
<1>4. /\ IsFds(ClosedFds(e, others)) /\ IsWires(closed) /\ queues \in [Programs -> Letters]
      /\ \A x \in Programs \ {e} : queues[x] = send_queue[x]
  <2>1. Closes(e, others, wires)
    BY ClosedShape
  <2> QED BY <2>1 DEF Closes
<1> HIDE DEF closed, queues
<1>5. PeersStep(e, table)
  BY <1>1, <1>3, PeersShape
<1> DEFINE fds == fd'
<1>6. Deliver(e, fds, closed, queues, to)
  BY <1>3
<1> HIDE DEF fds
<1>7. /\ IsWires(wire') /\ send_queue' \in [Programs -> Letters]
      /\ \A c \in Connections : \A f \in Ends(c) : wire'[c][f] =
                  IF f # e /\ e \in Ends(c) /\ fds[e][f] = c /\ (fds[f][e] = c \/ c \in backlog')
                  THEN closed[c][f] \o to[f] ELSE closed[c][f]
      /\ \A f \in Programs : send_queue'[e][f] =
                  IF fds[e][f] = NoConnection THEN queues[e][f] \o to[f] ELSE <<>>
      /\ \A x \in Programs \ {e} : send_queue'[x] = queues[x]
  <2>1. Delivered(e, fds, closed, queues, to)
    BY <1>1, <1>4, <1>6, DeliverShape
  <2> QED BY <2>1 DEF Delivered
<1> QED BY <1>3, <1>4, <1>5, <1>7, SMTT(30) DEF Forgot, fds, to, table, others, closed, queues

--------------------------------------------------------------------------------
(* Types: each action.                                                         *)

\* What a step does to the packets and to the tables of peers and connections keeps the
\* types.
Wired == /\ IsWires(wire') /\ send_queue' \in [Programs -> Letters] /\ IsFds(fd')
         /\ backlog' \subseteq Connections /\ peers' \in [Programs -> PeerTables]
         /\ \A x \in Programs : Joined(x) => Joined(x)'
OthersTyped ==
    /\ plr_self \in [Programs -> Slots \cup {PLR_BROADCAST}]
    /\ firstpeer \in [Programs -> Endpoints]
    /\ isConnected \in [Programs -> SUBSET Slots]
    /\ awaiting \in [Programs -> BOOLEAN]
    /\ sent \in [Programs -> 0 .. MaxTurn]
    /\ got \in [Programs -> [Programs -> 0 .. MaxTurn]]
    /\ gone \subseteq Programs
    /\ echoes \in 0 .. MaxEvents
    /\ faults \in 0 .. MaxEvents
    /\ crossed \subseteq Connections
    /\ taken \in [Programs -> SUBSET Slots]

LEMMA TypedParts == Typed => OthersTyped
BY DEF Typed, OthersTyped

LEMMA TypedAgain ==
    ASSUME Wired, OthersTyped'
    PROVE  Typed'
<1>1. (IsWires(wire) /\ send_queue \in [Programs -> Letters])'
  BY MailKept DEF Wired
<1>2. IsFds(fd)'
  BY DEF Wired, IsFds
<1> QED BY <1>1, <1>2 DEF Wired, OthersTyped, Typed

LEMMA FinishWired ==
    ASSUME Typed, NEW e \in Programs, NEW step \in Steps, Finish(e, step),
           \A x \in Programs : Joined(x) => Joined(x)'
    PROVE  Wired
<1>1. Finished(e, step)
  BY FinishShape
<1> QED BY <1>1 DEF Finished, PeersStep, Wired, Typed

LEMMA ReceiveWired ==
    ASSUME Typed, NEW e \in Programs, NEW g \in Programs, NEW step \in Steps,
           fd[e][g] # NoConnection, wire[fd[e][g]][e] # <<>>, FinishReceive(e, g, step),
           \A x \in Programs : Joined(x) => Joined(x)'
    PROVE  Wired
<1>1. Received(e, g, step)
  BY FinishReceiveShape
<1> QED BY <1>1 DEF Received, PeersStep, Wired, Typed

LEMMA ForgetWired ==
    ASSUME Typed, NEW e \in Programs, NEW player \in Slots, NEW wires, IsWires(wires),
           NEW step \in Steps, ForgetPlayer(e, player, wires, step),
           \A x \in Programs : Joined(x) => Joined(x)'
    PROVE  /\ Wired /\ isConnected' \in [Programs -> SUBSET Slots]
           /\ got' \in [Programs -> [Programs -> 0 .. MaxTurn]]
<1>1. Forgot(e, player, wires, step)
  BY ForgetShape
<1>2. Wired
  BY <1>1 DEF Forgot, PeersStep, Wired, Typed
<1>3. isConnected' = [isConnected EXCEPT ![e] = @ \ {player}]
  BY DEF ForgetPlayer
<1>4. isConnected' \in [Programs -> SUBSET Slots]
  BY <1>3 DEF Typed
<1>5. got' \in [Programs -> [Programs -> 0 .. MaxTurn]]
  <2> DEFINE others == Reached(peers[e][player].endpoint)
             row == [f \in Programs |-> IF f \in others THEN 0 ELSE got[e][f]]
  <2>1. got' = [got EXCEPT ![e] = [f \in Programs |-> IF f \in others THEN 0 ELSE @[f]]]
    BY DEF ForgetPlayer
  <2> HIDE DEF others
  <2>2. row \in [Programs -> 0 .. MaxTurn]
    BY Numbers DEF Typed
  <2>3. got' = [got EXCEPT ![e] = row]
    BY <2>1
  <2> HIDE DEF row
  <2> QED BY <2>2, <2>3 DEF Typed
<1> QED BY <1>2, <1>4, <1>5

LEMMA JoinedSame ==
    ASSUME plr_self' = plr_self
    PROVE  \A x \in Programs : Joined(x) => Joined(x)'
BY DEF Joined

LEMMA AskToJoinTyped ==
    ASSUME Typed, NEW e \in Programs, NEW f \in Programs, AskToJoin(e, f)
    PROVE  Typed'
<1>1. /\ Finish(e, Raw(Step(e), <<f>>, JoinRequest)) /\ Joined(f) /\ plr_self' = plr_self
      /\ firstpeer' = [firstpeer EXCEPT ![e] = <<f>>]
  BY DEF AskToJoin, Playing, Typed, Joined
<1>2. Raw(Step(e), <<f>>, JoinRequest) \in Steps
  <2> DEFINE s == Step(e)
             p == JoinRequest
  <2>1. s \in Steps
    BY StepType
  <2>2. p \in Packets /\ \A g \in Programs : <<f>> = <<g>> => p \in Sendable(g)
    BY <1>1, PacketTypes DEF Sendable
  <2> HIDE DEF s, p
  <2>3. Raw(s, <<f>>, p) \in Steps
    BY <2>1, <2>2, RawStep
  <2> QED BY <2>3 DEF s, p
<1>3. Wired
  BY <1>1, <1>2, FinishWired, JoinedSame
<1>4. firstpeer' \in [Programs -> Endpoints]
  BY <1>1 DEF Typed, Endpoints
<1>5. OthersTyped'
  BY <1>1, <1>4, TypedParts DEF AskToJoin, OthersTyped, turnVars
<1> QED BY <1>3, <1>5, TypedAgain

LEMMA BroadcastType ==
    ASSUME Typed, NEW e \in Programs, NEW p \in Game
    PROVE  Broadcast(Step(e), p) \in Steps
<1> DEFINE s == Step(e)
<1>1. s \in Steps
  BY StepType
<1> HIDE DEF s
<1>2. SentTo(s, Slots, [i \in Slots |-> p], N, Broadcast(s, p))
  BY <1>1, BroadcastSends
<1>3. Broadcast(s, p) \in Steps
  BY <1>2 DEF SentTo
<1> QED BY <1>3 DEF s

LEMMA PlayingJoined ==
    ASSUME Typed, NEW e \in Playing
    PROVE  e \in Programs /\ e \notin gone /\ Joined(e) /\ plr_self[e] \in Slots
BY DEF Typed, Playing, Joined

LEMMA SendTurnTyped ==
    ASSUME Typed, NEW e \in Programs, SendTurn(e)
    PROVE  Typed'
<1> DEFINE p == Turn(plr_self[e], PLR_BROADCAST, sent'[e])
<1>1. /\ e \in Playing /\ sent[e] < MaxTurn /\ sent' = [sent EXCEPT ![e] = @ + 1]
      /\ Finish(e, Broadcast(Step(e), p)) /\ plr_self' = plr_self
  BY DEF SendTurn
<1>2. sent' \in [Programs -> 0 .. MaxTurn]
  BY <1>1, Numbers, ParametersAssumption DEF Typed
<1>3. p \in Game
  <2>1. plr_self[e] \in Slots /\ sent'[e] \in 0 .. MaxTurn
    BY <1>1, <1>2, PlayingJoined
  <2> DEFINE self == plr_self[e]
             n == sent'[e]
  <2>2. self \in Slots \cup {PLR_BROADCAST} /\ PLR_BROADCAST \in Slots \cup {PLR_BROADCAST}
        /\ n \in 0 .. MaxTurn
    BY <2>1
  <2> HIDE DEF self, n
  <2>3. Turn(self, PLR_BROADCAST, n) \in Game
    BY <2>2, PacketTypes DEF Game
  <2> QED BY <2>3 DEF self, n
<1> HIDE DEF p
<1>4. Broadcast(Step(e), p) \in Steps
  BY <1>3, BroadcastType
<1>5. Wired
  BY <1>1, <1>4, FinishWired, JoinedSame
<1>6. OthersTyped'
  BY <1>1, <1>2, TypedParts DEF SendTurn, OthersTyped, turnVars
<1> QED BY <1>5, <1>6, TypedAgain

LEMMA SendEchoRequestsTyped ==
    ASSUME Typed, NEW e \in Programs, SendEchoRequests(e)
    PROVE  Typed'
<1> DEFINE r == ForEach(Slots \ {plr_self[e]}, Step(e), LAMBDA s, i :
                     SendTo(s, i, Echo("PT_ECHO_REQUEST", plr_self[e], i)))
<1>1. e \in Playing /\ Finish(e, r) /\ plr_self' = plr_self
      /\ echoes' = echoes + 1 /\ echoes + faults < MaxEvents
  BY DEF SendEchoRequests
<1>2. r \in Steps
  <2> DEFINE base == Step(e)
             self == plr_self[e]
             q == ForEach(Slots \ {self}, base, LAMBDA s, i :
                     SendTo(s, i, Echo("PT_ECHO_REQUEST", self, i)))
  <2>1. base \in Steps /\ self \in Slots
    BY <1>1, StepType, PlayingJoined
  <2>2. r = q
    OBVIOUS
  <2> HIDE DEF base, self, r
  <2>3. SentTo(base, Slots \ {self}, Requested(self), N, q)
    BY <2>1, EchoRequestsSend
  <2>4. q \in Steps
    <3> HIDE DEF q
    <3> QED BY <2>3 DEF SentTo
  <2> QED BY <2>2, <2>4
<1> HIDE DEF r
<1>3. Wired
  BY <1>1, <1>2, FinishWired, JoinedSame
<1>4. echoes' \in 0 .. MaxEvents
  BY <1>1, Numbers DEF Typed
<1>6. OthersTyped'
  BY <1>1, <1>4, TypedParts DEF SendEchoRequests, OthersTyped, turnVars
<1> QED BY <1>3, <1>6, TypedAgain

LEMMA DropPlayerTyped ==
    ASSUME Typed, NEW e \in Programs, NEW player \in Slots, DropPlayer(e, player)
    PROVE  Typed'
<1> DEFINE r == ForEach(Slots \ {player}, Step(e), LAMBDA s, i :
               SendTo(s, i, Disconnect(plr_self[e], player)))
<1>1. e \in Playing /\ ForgetPlayer(e, player, wire, r) /\ plr_self' = plr_self
  BY DEF DropPlayer
<1>2. r \in Steps
  <2> DEFINE base == Step(e)
             self == plr_self[e]
             q == ForEach(Slots \ {player}, base, LAMBDA s, i :
                     SendTo(s, i, Disconnect(self, player)))
  <2>1. base \in Steps /\ self \in Slots
    BY <1>1, StepType, PlayingJoined
  <2>2. r = q
    OBVIOUS
  <2> HIDE DEF base, self, r
  <2>3. SentTo(base, Slots \ {player}, [i \in Slots |-> Disconnect(self, player)], N, q)
    BY <2>1, FarewellsSend
  <2>4. q \in Steps
    <3> HIDE DEF q
    <3> QED BY <2>3 DEF SentTo
  <2> QED BY <2>2, <2>4
<1> HIDE DEF r
<1>3. IsWires(wire)
  BY DEF Typed
<1>4. Wired /\ isConnected' \in [Programs -> SUBSET Slots]
      /\ got' \in [Programs -> [Programs -> 0 .. MaxTurn]]
  BY <1>1, <1>2, <1>3, ForgetWired, JoinedSame
<1>6. OthersTyped'
  BY <1>1, <1>4, TypedParts DEF DropPlayer, OthersTyped, turnVars
<1> QED BY <1>4, <1>6, TypedAgain

LEMMA SlotOfPacket ==
    ASSUME Typed, NEW e \in Programs, NEW f \in Programs, NEW type, Arrives(e, f, type)
    PROVE  /\ fd[e][f] # NoConnection /\ wire[fd[e][f]][e] # <<>> /\ e \notin gone
           /\ Arrived(e, f).type = type /\ Arrived(e, f) \in Packets
           /\ Arrived(e, f) \in Sendable(e)
           /\ Arrived(e, f).player \in Slots /\ Arrived(e, f).endpoint \in Endpoints
           /\ Arrived(e, f).turn \in 0 .. MaxTurn
<1>1. fd[e][f] # NoConnection /\ wire[fd[e][f]][e] # <<>> /\ e \notin gone /\ Arrived(e, f).type = type
  BY DEF Arrives, Arrived
<1>2. Arrived(e, f) \in Packets /\ Arrived(e, f) \in Sendable(e)
  BY <1>1, RestShape
<1> QED BY <1>1, <1>2, KindsOfPackets

LEMMA SendableFacts ==
    ASSUME NEW f, NEW p \in Sendable(f)
    PROVE  /\ p \in Packets /\ (p.type = "PT_JOIN_REQUEST" => Joined(f))
           /\ p.type = "PT_JOIN_ACCEPT" => p.src \in Slots
BY Zenon DEF Sendable

\* Where a program has put a new peer, or a new endpoint.
LEMMA PutPeer ==
    ASSUME NEW s \in Steps, NEW i \in Slots, NEW peer \in PeerType
    PROVE  /\ [s EXCEPT !.peers[i] = peer] \in Steps
           /\ [s EXCEPT !.peers[i] = peer].peers = [s.peers EXCEPT ![i] = peer]
           /\ [s EXCEPT !.peers[i] = peer].to = s.to
<1>1. s.peers \in PeerTables /\ s.to \in Letters
  BY DEF Steps
<1>2. [s.peers EXCEPT ![i] = peer] \in PeerTables
  BY <1>1 DEF PeerTables
<1> QED BY <1>1, <1>2 DEF Steps

SameEndpoints(s, t) == \A i \in Slots : s.peers[i].endpoint = t.peers[i].endpoint

LEMMA SendToEndpoints ==
    ASSUME NEW s \in Steps, NEW i \in Slots, NEW p \in Game
    PROVE  SendTo(s, i, p) \in Steps /\ SameEndpoints(SendTo(s, i, p), s)
<1>1. /\ SendTo(s, i, p) \in Steps
      /\ SendTo(s, i, p).peers =
             IF Holds(s.peers[i], p) THEN [s.peers EXCEPT ![i] = HeldBack(s.peers[i], p)]
             ELSE s.peers
  BY SendToStep
<1>2. s.peers \in [Slots -> PeerType]
  BY DEF Steps, PeerTables
<1>3. Holds(s.peers[i], p) => HeldBack(s.peers[i], p).endpoint = s.peers[i].endpoint
  BY <1>2, KindsOfPackets, HeldBackType DEF Holds
<1> QED BY <1>1, <1>2, <1>3 DEF SameEndpoints

LEMMA FirstTurnType ==
    ASSUME Typed, NEW e \in Programs, NEW s \in Steps, NEW i \in Slots
    PROVE  FirstTurn(e, s, i) \in Steps /\ SameEndpoints(FirstTurn(e, s, i), s)
<1> DEFINE p == Turn(plr_self[e], i, sent[e])
<1>1. p \in Game
  <2>1. plr_self[e] \in Slots \cup {PLR_BROADCAST} /\ sent[e] \in 0 .. MaxTurn
    BY DEF Typed
  <2> QED BY <2>1, PacketTypes DEF Game
<1>2. FirstTurn(e, s, i) = s \/ FirstTurn(e, s, i) = SendTo(s, i, p)
  BY DEF FirstTurn
<1> HIDE DEF p
<1>3. SendTo(s, i, p) \in Steps /\ SameEndpoints(SendTo(s, i, p), s)
  BY <1>1, SendToEndpoints
<1> QED BY <1>2, <1>3 DEF SameEndpoints

LEMMA HandshakeType ==
    ASSUME NEW e, NEW self \in Slots, NEW s \in Steps, NEW i \in Slots
    PROVE  InitiateHandshake(e, self, s, i) \in Steps
<1> DEFINE p == Echo("PT_ECHO_REQUEST", self, i)
<1>1. p \in Game
  BY PacketTypes DEF Game, EchoTypes
<1>2. InitiateHandshake(e, self, s, i) = s \/ InitiateHandshake(e, self, s, i) = SendTo(s, i, p)
  BY DEF InitiateHandshake
<1> HIDE DEF p
<1> QED BY <1>1, <1>2, SendToEndpoints

LEMMA LeastSlot ==
    ASSUME NEW S \in SUBSET Slots, S # {}
    PROVE  \E i \in S : \A j \in S : i <= j
<1>1. S \subseteq Nat
  BY Numbers
<1>2. PICK x \in S : \A y \in S : <<y, x>> \notin OpToRel(<, Nat)
  BY <1>1, NatLessThanWellFounded, WFMin
<1>3. \A y \in S : ~ (y < x)
  BY <1>1, <1>2 DEF OpToRel
<1> QED BY <1>1, <1>3

\* A handler that puts a new peer into a slot.
NewPeer(f) == [endpoint |-> <<f>>, queued |-> TRUE, sendQueue |-> <<>>]
QueuedPeer(endpoint) == [endpoint |-> endpoint, queued |-> TRUE, sendQueue |-> <<>>]

LEMMA QueuedPeerType ==
    ASSUME NEW endpoint \in Endpoints
    PROVE  QueuedPeer(endpoint) \in PeerType
<1>1. <<>> \in Seq(Held)
  OBVIOUS
<1> QED BY <1>1 DEF QueuedPeer, PeerType

LEMMA IntroduceType ==
    ASSUME Typed, NEW e \in Programs, NEW f \in Programs, NEW player \in Slots, Joined(e),
           NEW s \in Steps, \A i \in Slots \ {player} : s.peers[i].endpoint = peers[e][i].endpoint
    PROVE  Introduce(e, f, player, s) \in Steps
<1> DEFINE others == Others(e, player)
           told == ForEach(others, s, LAMBDA r, i :
                    Raw(Raw(r, r.peers[i].endpoint, ConnectPacket(player, f)),
                        <<f>>, ConnectPacket(i, r.peers[i].endpoint[1])))
           p == JoinAccept(plr_self[e], player)
           last == Raw(told, <<f>>, p)
<1>1. others \in SUBSET Slots /\ Reachable(s, others)
  <2>1. \A i \in Slots : peers[e][i].endpoint \in Endpoints
    BY DEF Typed, PeerTables, PeerType
  <2> QED BY <2>1 DEF Others, Reachable, Endpoints
<1>2. p \in Packets /\ \A g : p \in Sendable(g)
  BY PacketTypes DEF Joined, Sendable
<1>3. Introduce(e, f, player, s) = DrainSendQueue(last, player)
  BY DEF Introduce
<1> HIDE DEF p, others
<1>4. ToldBy(s, f, player, others, N, told)
  BY <1>1, IntroduceTold
<1> HIDE DEF told
<1>5. told \in Steps
  BY <1>4 DEF ToldBy
<1>6. last \in Steps
  BY <1>2, <1>5, RawStep
<1> HIDE DEF last
<1>7. DrainSendQueue(last, player) \in Steps
  BY <1>6, DrainStep
<1> QED BY <1>3, <1>7

LEMMA HandleJoinRequestTyped ==
    ASSUME Typed, NEW e \in Programs, NEW f \in Programs, HandleJoinRequest(e, f)
    PROVE  Typed'
<1> DEFINE player == CHOOSE i \in FreeSlots(e) : \A j \in FreeSlots(e) : i <= j
           base == [Step(e) EXCEPT !.peers[player] = QueuedPeer(<<f>>)]
           first == FirstTurn(e, base, player)
           r == Introduce(e, f, player, first)
<1>1. /\ Arrives(e, f, "PT_JOIN_REQUEST") /\ FreeSlots(e) # {}
      /\ FinishReceive(e, f, r) /\ plr_self' = plr_self
      /\ isConnected' = [isConnected EXCEPT ![e] = @ \cup {player}]
      /\ taken' = IF player \in isConnected[e]
                  THEN [taken EXCEPT ![e] = @ \cup {player}] ELSE taken
  BY DEF HandleJoinRequest, QueuedPeer
<1>2. player \in Slots
  <2>1. FreeSlots(e) \in SUBSET Slots
    BY DEF FreeSlots
  <2>2. \E i \in FreeSlots(e) : \A j \in FreeSlots(e) : i <= j
    BY <1>1, <2>1, LeastSlot
  <2> QED BY <2>1, <2>2
<1> HIDE DEF player
<1>3. base \in Steps /\ \A i \in Slots \ {player} : base.peers[i].endpoint = peers[e][i].endpoint
  <2> DEFINE s == Step(e)
             peer == QueuedPeer(<<f>>)
  <2>1. s \in Steps /\ s.peers = peers[e]
    BY StepType
  <2>2. peer \in PeerType
    BY QueuedPeerType DEF Endpoints
  <2> HIDE DEF s, peer
  <2>3. [s EXCEPT !.peers[player] = peer] \in Steps
        /\ [s EXCEPT !.peers[player] = peer].peers = [s.peers EXCEPT ![player] = peer]
    BY <1>2, <2>1, <2>2, PutPeer
  <2>4. s.peers \in [Slots -> PeerType]
    BY <2>1 DEF Steps, PeerTables
  <2> QED BY <2>1, <2>3, <2>4 DEF s, peer
<1>4. Joined(e)
  <2>1. Arrived(e, f) \in Sendable(e) /\ Arrived(e, f).type = "PT_JOIN_REQUEST"
    BY <1>1, SlotOfPacket
  <2> HIDE DEF base
  <2> QED BY <2>1, SendableFacts
<1> HIDE DEF base
<1>5. first \in Steps /\ SameEndpoints(first, base)
  BY <1>2, <1>3, FirstTurnType
<1> HIDE DEF first
<1>6. r \in Steps
  <2>1. \A i \in Slots \ {player} : first.peers[i].endpoint = peers[e][i].endpoint
    BY <1>3, <1>5 DEF SameEndpoints
  <2> QED BY <1>2, <1>4, <1>5, <2>1, IntroduceType
<1> HIDE DEF r
<1>7. Wired
  BY <1>1, <1>6, SlotOfPacket, ReceiveWired, JoinedSame
<1>8. isConnected' \in [Programs -> SUBSET Slots] /\ taken' \in [Programs -> SUBSET Slots]
  BY <1>1, <1>2 DEF Typed
<1>9. OthersTyped'
  BY <1>1, <1>8, TypedParts DEF HandleJoinRequest, OthersTyped, turnVars
<1> QED BY <1>7, <1>9, TypedAgain

LEMMA ReceiveConnectTyped ==
    ASSUME Typed, NEW e \in Programs, NEW f \in Programs, ReceiveConnect(e, f)
    PROVE  Typed'
<1> DEFINE player == Arrived(e, f).player
           base == [Step(e) EXCEPT !.peers[player] = QueuedPeer(Arrived(e, f).endpoint)]
           first == FirstTurn(e, base, player)
           r == IF plr_self[e] = PLR_BROADCAST THEN first
                ELSE InitiateHandshake(e, plr_self[e], first, player)
<1>1. /\ Arrives(e, f, "PT_CONNECT") /\ FinishReceive(e, f, r) /\ plr_self' = plr_self
      /\ isConnected' = [isConnected EXCEPT ![e] = @ \cup {player}]
      /\ taken' = IF player \in isConnected[e]
                  THEN [taken EXCEPT ![e] = @ \cup {player}] ELSE taken
  BY DEF ReceiveConnect, QueuedPeer
<1>2. player \in Slots /\ Arrived(e, f).endpoint \in Endpoints
  BY <1>1, SlotOfPacket
<1> HIDE DEF player
<1>3. base \in Steps
  <2> DEFINE s == Step(e)
             peer == QueuedPeer(Arrived(e, f).endpoint)
  <2>1. s \in Steps
    BY StepType
  <2>2. peer \in PeerType
    BY <1>2, QueuedPeerType
  <2> HIDE DEF s, peer
  <2>3. [s EXCEPT !.peers[player] = peer] \in Steps
    BY <1>2, <2>1, <2>2, PutPeer
  <2> QED BY <2>3 DEF s, peer
<1> HIDE DEF base
<1>4. first \in Steps
  BY <1>2, <1>3, FirstTurnType
<1> HIDE DEF first
<1>5. r \in Steps
  <2>1. plr_self[e] # PLR_BROADCAST => plr_self[e] \in Slots
    BY DEF Typed
  <2> QED BY <1>2, <1>4, <2>1, HandshakeType
<1> HIDE DEF r
<1>7. Wired
  BY <1>1, <1>5, SlotOfPacket, ReceiveWired, JoinedSame
<1>8. isConnected' \in [Programs -> SUBSET Slots] /\ taken' \in [Programs -> SUBSET Slots]
  BY <1>1, <1>2 DEF Typed
<1>9. OthersTyped'
  BY <1>1, <1>8, TypedParts DEF ReceiveConnect, OthersTyped, turnVars
<1> QED BY <1>7, <1>9, TypedAgain

LEMMA ReceiveAcceptTyped ==
    ASSUME Typed, NEW e \in Programs, NEW f \in Programs, ReceiveAccept(e, f)
    PROVE  Typed'
<1> DEFINE master == Arrived(e, f).src
           self == Arrived(e, f).player
           base == [Step(e) EXCEPT !.peers[master].endpoint = <<f>>]
           greeted == ForEach(Slots, base, LAMBDA s, i : InitiateHandshake(e, self, s, i))
           r == DrainSendQueue(greeted, master)
<1>1. /\ Arrives(e, f, "PT_JOIN_ACCEPT") /\ FinishReceive(e, f, r)
      /\ plr_self' = [plr_self EXCEPT ![e] = self]
      /\ isConnected' = [isConnected EXCEPT ![e] = @ \cup {master, self}]
      /\ firstpeer' = [firstpeer EXCEPT ![e] = NoEndpoint]
  BY DEF ReceiveAccept
<1>2. master \in Slots /\ self \in Slots
  <2>1. Arrived(e, f) \in Sendable(e) /\ Arrived(e, f).type = "PT_JOIN_ACCEPT" /\ self \in Slots
    BY <1>1, SlotOfPacket
  <2> QED BY <2>1 DEF Sendable
<1> HIDE DEF master, self
<1>3. base \in Steps
  <2> DEFINE s == Step(e)
             peer == [s.peers[master] EXCEPT !.endpoint = <<f>>]
  <2>1. s \in Steps
    BY StepType
  <2> HIDE DEF s
  <2>2. peer \in PeerType
    BY <1>2, <2>1 DEF Steps, PeerTables, PeerType, Endpoints
  <2>3. [s EXCEPT !.peers[master].endpoint = <<f>>] = [s EXCEPT !.peers[master] = peer]
    BY <1>2, <2>1 DEF Steps, PeerTables
  <2> HIDE DEF peer
  <2>4. [s EXCEPT !.peers[master] = peer] \in Steps
    BY <1>2, <2>1, <2>2, PutPeer
  <2> QED BY <2>3, <2>4 DEF s
<1> HIDE DEF base
<1>4. SentTo(base, Greets(e, self, base), Requested(self), N, greeted)
  BY <1>2, <1>3, HandshakesSend
<1> HIDE DEF greeted
<1>5. r \in Steps
  BY <1>2, <1>4, DrainStep DEF SentTo
<1> HIDE DEF r
<1>6. \A x \in Programs : Joined(x) => Joined(x)'
  BY <1>1, <1>2 DEF Joined, Typed
<1>7. Wired
  BY <1>1, <1>5, <1>6, SlotOfPacket, ReceiveWired
<1>8. /\ isConnected' \in [Programs -> SUBSET Slots]
      /\ plr_self' \in [Programs -> Slots \cup {PLR_BROADCAST}]
      /\ firstpeer' \in [Programs -> Endpoints]
  BY <1>1, <1>2 DEF Typed, Endpoints
<1>9. OthersTyped'
  BY <1>1, <1>8, TypedParts DEF ReceiveAccept, OthersTyped, turnVars
<1> QED BY <1>7, <1>9, TypedAgain

LEMMA FromPlayer ==
    ASSUME Typed, NEW e \in Programs, NEW f \in Programs, NEW type, Arrives(e, f, type),
           IsFromPlayer(e, f)
    PROVE  /\ Arrived(e, f).src \in Slots /\ peers[e][Arrived(e, f).src].endpoint = <<f>>
           /\ Arrived(e, f).dst \in {plr_self[e], PLR_BROADCAST}
BY DEF IsFromPlayer

LEMMA DrainType ==
    ASSUME NEW s \in Steps, NEW i \in Slots
    PROVE  DrainSendQueue(s, i) \in Steps
BY DrainStep

LEMMA ReceiveTurnTyped ==
    ASSUME Typed, NEW e \in Programs, NEW f \in Programs, ReceiveTurn(e, f)
    PROVE  Typed'
<1> DEFINE src == Arrived(e, f).src
           p == Turn(plr_self[e], PLR_BROADCAST, 1)
           s == IF awaiting[e] THEN Broadcast(Step(e), p) ELSE FirstTurn(e, Step(e), src)
           r == DrainSendQueue(s, src)
<1>1. /\ Arrives(e, f, "PT_TURN") /\ IsFromPlayer(e, f) /\ FinishReceive(e, f, r)
      /\ plr_self' = plr_self
      /\ got' = [got EXCEPT ![e][f] = Arrived(e, f).turn]
      /\ isConnected' = [isConnected EXCEPT ![e] = @ \cup {src}]
      /\ awaiting' = [awaiting EXCEPT ![e] = FALSE]
      /\ sent' = IF awaiting[e] THEN [sent EXCEPT ![e] = 1] ELSE sent
  BY DEF ReceiveTurn
<1>2. src \in Slots /\ Arrived(e, f).turn \in 0 .. MaxTurn
  BY <1>1, SlotOfPacket, FromPlayer
<1>3. p \in Game
  <2> DEFINE self == plr_self[e]
  <2>1. self \in Slots \cup {PLR_BROADCAST} /\ PLR_BROADCAST \in Slots \cup {PLR_BROADCAST}
        /\ 1 \in 0 .. MaxTurn
    BY Numbers DEF Typed
  <2> HIDE DEF self
  <2>2. Turn(self, PLR_BROADCAST, 1) \in Game
    BY <2>1, PacketTypes DEF Game
  <2> QED BY <2>2 DEF self
<1> HIDE DEF src, p
<1>4. s \in Steps
  <2>1. Broadcast(Step(e), p) \in Steps
    BY <1>3, BroadcastType
  <2>2. Step(e) \in Steps
    BY StepType
  <2>3. FirstTurn(e, Step(e), src) \in Steps
    BY <1>2, <2>2, FirstTurnType
  <2> QED BY <2>1, <2>3
<1> HIDE DEF s
<1>5. r \in Steps
  BY <1>2, <1>4, DrainType
<1> HIDE DEF r
<1>6. Wired
  BY <1>1, <1>5, SlotOfPacket, ReceiveWired, JoinedSame
<1>7. /\ isConnected' \in [Programs -> SUBSET Slots]
      /\ awaiting' \in [Programs -> BOOLEAN]
      /\ sent' \in [Programs -> 0 .. MaxTurn]
  BY <1>1, <1>2, Numbers DEF Typed
<1>8. got' \in [Programs -> [Programs -> 0 .. MaxTurn]]
  BY <1>1, <1>2 DEF Typed
<1>9. OthersTyped'
  BY <1>1, <1>7, <1>8, TypedParts DEF ReceiveTurn, OthersTyped
<1> QED BY <1>6, <1>9, TypedAgain

LEMMA ReceiveEchoTyped ==
    ASSUME Typed, NEW e \in Programs, NEW f \in Programs, NEW type \in EchoTypes,
           ReceiveEcho(e, f, type)
    PROVE  Typed'
<1> DEFINE src == Arrived(e, f).src
           p == Echo("PT_ECHO_REPLY", plr_self[e], src)
           s == IF type = "PT_ECHO_REQUEST" THEN SendTo(Step(e), src, p) ELSE Step(e)
           r == DrainSendQueue(s, src)
<1>1. /\ Arrives(e, f, type) /\ IsFromPlayer(e, f) /\ FinishReceive(e, f, r)
      /\ plr_self' = plr_self
  BY DEF ReceiveEcho
<1>2. src \in Slots
  BY <1>1, FromPlayer
<1> HIDE DEF src
<1>3. p \in Game
  <2> DEFINE self == plr_self[e]
  <2>1. self \in Slots \cup {PLR_BROADCAST} /\ src \in Slots \cup {PLR_BROADCAST}
        /\ "PT_ECHO_REPLY" \in EchoTypes
    BY <1>2 DEF Typed, EchoTypes
  <2> HIDE DEF self
  <2>2. Echo("PT_ECHO_REPLY", self, src) \in Game
    BY <2>1, PacketTypes DEF Game
  <2> QED BY <2>2 DEF self
<1> HIDE DEF p
<1>4. s \in Steps
  <2>1. Step(e) \in Steps
    BY StepType
  <2>2. SendTo(Step(e), src, p) \in Steps
    BY <1>2, <1>3, <2>1, SendToEndpoints
  <2> QED BY <2>1, <2>2
<1> HIDE DEF s
<1>5. r \in Steps
  BY <1>2, <1>4, DrainType
<1> HIDE DEF r
<1>6. Wired
  BY <1>1, <1>5, SlotOfPacket, ReceiveWired, JoinedSame
<1>9. OthersTyped'
  BY <1>1, TypedParts DEF ReceiveEcho, OthersTyped, turnVars
<1> QED BY <1>6, <1>9, TypedAgain

LEMMA ReceiveDisconnectTyped ==
    ASSUME Typed, NEW e \in Programs, NEW f \in Programs, ReceiveDisconnect(e, f)
    PROVE  Typed'
<1> DEFINE src == Arrived(e, f).src
           player == Arrived(e, f).player
           drained == DrainSendQueue(Step(e), src)
           step == IF src = player THEN Step(e) ELSE drained
<1>1. Arrives(e, f, "PT_DISCONNECT") /\ IsFromPlayer(e, f) /\ plr_self' = plr_self
  BY DEF ReceiveDisconnect
<1>2. src \in Slots /\ player \in Slots
  BY <1>1, FromPlayer, SlotOfPacket
<1>3. \/ /\ fd' = ClosedFds(e, {f}) /\ wire' = ClosedWires(e, {f}, wire)
         /\ send_queue' = ClosedQueues(e, {f})
         /\ UNCHANGED <<peers, isConnected, got, backlog>>
      \/ ForgetPlayer(e, player, Rest(e, f), step)
      \/ FinishReceive(e, f, drained) /\ UNCHANGED <<isConnected, got>>
  BY DEF ReceiveDisconnect
<1>a. UNCHANGED <<plr_self, firstpeer, awaiting, sent, gone, echoes, faults, crossed, taken>>
  BY DEF ReceiveDisconnect
<1>4. Step(e) \in Steps /\ drained \in Steps
  BY <1>2, StepType, DrainType
<1> HIDE DEF src, player, drained
<1>5. step \in Steps
  BY <1>4
<1> HIDE DEF step
<1>6. CASE /\ fd' = ClosedFds(e, {f}) /\ wire' = ClosedWires(e, {f}, wire)
           /\ send_queue' = ClosedQueues(e, {f})
           /\ UNCHANGED <<peers, isConnected, got, backlog>>
  <2>1. Closes(e, {f}, wire)
    BY ClosedShape DEF Typed
  <2>2. Wired
    BY <1>1, <1>6, <2>1, JoinedSame DEF Closes, Wired, Typed
  <2>3. OthersTyped'
    BY <1>a, <1>6, TypedParts DEF OthersTyped
  <2> QED BY <2>2, <2>3, TypedAgain
<1>7. CASE ForgetPlayer(e, player, Rest(e, f), step)
  <2>1. IsWires(Rest(e, f))
    <3>1. fd[e][f] # NoConnection /\ wire[fd[e][f]][e] # <<>>
      BY <1>1, SlotOfPacket
    <3> QED BY <3>1, RestShape
  <2> DEFINE rest == Rest(e, f)
  <2> HIDE DEF rest
  <2>2. IsWires(rest) /\ ForgetPlayer(e, player, rest, step)
    BY <1>7, <2>1 DEF rest
  <2>3. Wired /\ isConnected' \in [Programs -> SUBSET Slots]
        /\ got' \in [Programs -> [Programs -> 0 .. MaxTurn]]
    BY <1>1, <1>2, <1>5, <2>2, ForgetWired, JoinedSame
  <2>4. OthersTyped'
    BY <1>a, <2>3, TypedParts DEF OthersTyped
  <2> QED BY <2>3, <2>4, TypedAgain
<1>8. CASE FinishReceive(e, f, drained) /\ UNCHANGED <<isConnected, got>>
  <2>1. Wired
    BY <1>1, <1>4, <1>8, SlotOfPacket, ReceiveWired, JoinedSame
  <2>2. OthersTyped'
    BY <1>a, <1>8, TypedParts DEF OthersTyped
  <2> QED BY <2>1, <2>2, TypedAgain
<1> QED BY <1>3, <1>6, <1>7, <1>8

LEMMA IgnoreTyped ==
    ASSUME Typed, NEW e \in Programs, NEW f \in Programs, Ignore(e, f)
    PROVE  Typed'
<1>1. /\ fd[e][f] # NoConnection /\ wire[fd[e][f]][e] # <<>> /\ wire' = Rest(e, f)
      /\ UNCHANGED <<gameVars, turnVars, fd, send_queue, backlog, gone, echoes, faults,
                     crossed, taken>>
  BY DEF Ignore
<1>2. IsWires(Rest(e, f))
  BY <1>1, RestShape
<1>3. Wired
  BY <1>1, <1>2, JoinedSame DEF gameVars, Wired, Typed
<1>4. OthersTyped'
  BY <1>1, TypedParts DEF OthersTyped, gameVars, turnVars
<1> QED BY <1>3, <1>4, TypedAgain

--------------------------------------------------------------------------------
(* Types: connections and faults.                                              *)

LEMMA OneLetter ==
    ASSUME Typed, NEW e \in Programs, NEW f \in Programs
    PROVE  [g \in Programs |-> IF g = f THEN send_queue[e][f] ELSE <<>>] \in Letters
<1> DEFINE to == [g \in Programs |-> IF g = f THEN send_queue[e][f] ELSE <<>>]
<1>1. send_queue[e][f] \in Seq(Sendable(f))
  BY LettersOf DEF Typed
<1>2. \A S : <<>> \in Seq(S)
  OBVIOUS
<1>3. \A g \in Programs : to[g] \in Seq(Sendable(g))
  BY <1>1, <1>2
<1>4. to = [g \in Programs |-> to[g]]
  OBVIOUS
<1> HIDE DEF to
<1>5. to \in Letters
  BY <1>3, <1>4, MakeLetters
<1> QED BY <1>5 DEF to

LEMMA FdPut ==
    ASSUME Typed, NEW e \in Programs, NEW f \in Programs, NEW c \in Between(e, f)
    PROVE  /\ IsFds([fd EXCEPT ![e][f] = c]) /\ [fd EXCEPT ![e][f] = c][e][f] = c
           /\ \A x, y \in Programs : x # e \/ y # f => [fd EXCEPT ![e][f] = c][x][y] = fd[x][y]
<1>1. fd \in [Programs -> [Programs -> {NoConnection} \cup Connections]]
      /\ \A x, y \in Programs : fd[x][y] \in {NoConnection} \cup Between(x, y)
  BY DEF Typed, IsFds, FdTables
<1>2. c \in Connections
  BY DEF Between
<1>3. /\ [fd EXCEPT ![e][f] = c] \in FdTables /\ [fd EXCEPT ![e][f] = c][e][f] = c
      /\ \A x, y \in Programs : x # e \/ y # f => [fd EXCEPT ![e][f] = c][x][y] = fd[x][y]
  BY <1>1, <1>2 DEF FdTables
<1> QED BY <1>1, <1>3 DEF IsFds

LEMMA OpenTyped ==
    ASSUME Typed, NEW e \in Programs, NEW f \in Programs \ {e}, Open(e, f)
    PROVE  Typed'
<1> DEFINE c == <<e, f>>
           to == [g \in Programs |-> IF g = f THEN send_queue[e][f] ELSE <<>>]
           fresh == [wire EXCEPT ![c] = [g \in Ends(c) |-> <<>>]]
<1>1. /\ fd' = [fd EXCEPT ![e][f] = c]
      /\ backlog' = IF f \in gone THEN backlog ELSE backlog \cup {c}
      /\ Deliver(e, fd', fresh, send_queue, to)
      /\ crossed' = IF fd[f][e] = <<f, e>> THEN crossed \cup {c, <<f, e>>} ELSE crossed
      /\ UNCHANGED <<gameVars, turnVars, gone, echoes, faults, taken>>
  BY DEF Open
<1>2. c \in Connections /\ <<f, e>> \in Connections /\ c \in Between(e, f)
  BY ConnectionTypes DEF Between
<1>3. to \in Letters
  BY OneLetter
<1>4. IsWires(fresh)
  <2>1. IsWires(wire)
    BY DEF Typed
  <2>2. \A S : <<>> \in Seq(S)
    OBVIOUS
  <2>3. \A d \in Connections : \A g \in Ends(d) : fresh[d][g] = IF d = c THEN <<>> ELSE wire[d][g]
    BY <1>2, <2>1 DEF IsWires
  <2>4. fresh = [d \in Connections |-> [g \in Ends(d) |-> fresh[d][g]]]
    BY <1>2, <2>1 DEF IsWires
  <2>5. \A d \in Connections : \A g \in Ends(d) : fresh[d][g] \in Seq(Sendable(g))
    <3> TAKE d \in Connections
    <3> TAKE g \in Ends(d)
    <3>1. wire[d][g] \in Seq(Sendable(g)) /\ (fresh[d][g] = <<>> \/ fresh[d][g] = wire[d][g])
      BY <2>1, <2>3 DEF IsWires
    <3> HIDE DEF fresh
    <3> QED BY <2>2, <3>1
  <2> HIDE DEF fresh
  <2> QED BY <2>4, <2>5 DEF IsWires
<1> HIDE DEF c, to, fresh
<1> DEFINE fds == fd'
<1>5. Deliver(e, fds, fresh, send_queue, to)
  BY <1>1
<1> HIDE DEF fds
<1>6. Delivered(e, fds, fresh, send_queue, to)
  BY <1>3, <1>4, <1>5, DeliverShape DEF Typed
<1>7. IsFds(fd')
  BY <1>1, <1>2, FdPut
<1>8. Wired
  BY <1>1, <1>2, <1>6, <1>7, JoinedSame DEF Delivered, Wired, Typed, gameVars
<1>9. OthersTyped'
  BY <1>1, <1>2, TypedParts DEF OthersTyped, gameVars, turnVars
<1> QED BY <1>8, <1>9, TypedAgain

LEMMA AcceptTyped ==
    ASSUME Typed, NEW e \in Programs, NEW f \in Programs \ {e}, Accept(e, f)
    PROVE  Typed'
<1> DEFINE c == <<f, e>>
           to == [g \in Programs |-> IF g = f /\ fd[e][f] = NoConnection
                                    THEN send_queue[e][f] ELSE <<>>]
           closed == ClosedWires(e, {f}, wire)
<1>1. /\ fd' = [fd EXCEPT ![e][f] = c] /\ backlog' = backlog \ {c}
      /\ Deliver(e, fd', closed, send_queue, to)
      /\ UNCHANGED <<gameVars, turnVars, gone, echoes, faults, crossed, taken>>
  BY DEF Accept
<1>2. c \in Connections /\ c \in Between(e, f)
  BY ConnectionTypes DEF Between
<1>3. to \in Letters
  <2>1. CASE fd[e][f] = NoConnection
    <3>1. to = [g \in Programs |-> IF g = f THEN send_queue[e][f] ELSE <<>>]
      BY <2>1
    <3> QED BY <3>1, OneLetter
  <2>2. CASE fd[e][f] # NoConnection
    <3>1. to = [g \in Programs |-> <<>>]
      BY <2>2
    <3>2. \A S : <<>> \in Seq(S)
      OBVIOUS
    <3> QED BY <3>1, <3>2 DEF Letters
  <2> QED BY <2>1, <2>2
<1>4. IsWires(closed)
  <2>1. Closes(e, {f}, wire)
    BY ClosedShape DEF Typed
  <2> QED BY <2>1 DEF Closes
<1> HIDE DEF c, to, closed
<1> DEFINE fds == fd'
<1>5. Deliver(e, fds, closed, send_queue, to)
  BY <1>1
<1> HIDE DEF fds
<1>6. Delivered(e, fds, closed, send_queue, to)
  BY <1>3, <1>4, <1>5, DeliverShape DEF Typed
<1>7. IsFds(fd')
  BY <1>1, <1>2, FdPut
<1>8. Wired
  BY <1>1, <1>2, <1>6, <1>7, JoinedSame DEF Delivered, Wired, Typed, gameVars
<1>9. OthersTyped'
  BY <1>1, <1>2, TypedParts DEF OthersTyped, gameVars, turnVars
<1> QED BY <1>8, <1>9, TypedAgain

LEMMA DisconnectedTyped ==
    ASSUME Typed, NEW e \in Programs, NEW f \in Programs \ {e}, Disconnected(e, f)
    PROVE  Typed'
<1>1. /\ \E player \in Slots : peers' = [peers EXCEPT ![e][player] = NoPeer]
      /\ fd' = ClosedFds(e, {f}) /\ send_queue' = ClosedQueues(e, {f})
      /\ UNCHANGED <<plr_self, firstpeer, isConnected, awaiting, turnVars, backlog, wire,
                     gone, echoes, faults, crossed, taken>>
  BY DEF Disconnected
<1>2. Closes(e, {f}, wire)
  BY ClosedShape DEF Typed
<1>3. peers' \in [Programs -> PeerTables]
  BY <1>1, PacketTypes DEF Typed, PeerTables
<1>4. Wired
  BY <1>1, <1>2, <1>3, JoinedSame DEF Closes, Wired, Typed
<1>5. OthersTyped'
  BY <1>1, TypedParts DEF OthersTyped, turnVars
<1> QED BY <1>4, <1>5, TypedAgain

LEMMA PrefixMail ==
    ASSUME NEW f, NEW a \in Seq(Sendable(f)), NEW n \in Int, n <= Len(a)
    PROVE  SubSeq(a, 1, n) \in Seq(Sendable(f))
<1> DEFINE S == Sendable(f)
<1>1. a \in Seq(S) /\ n \in Int /\ n <= Len(a)
  OBVIOUS
<1> HIDE DEF S
<1>2. SubSeq(a, 1, n) \in Seq(S)
  BY <1>1
<1> QED BY <1>2 DEF S

LEMMA EndedTyped ==
    ASSUME Typed, NEW e \in Programs, NEW lost \in [Programs -> Nat], NEW wires, IsWires(wires),
           Ended(e, lost, wires), faults < MaxEvents,
           UNCHANGED <<plr_self, firstpeer, isConnected, awaiting, turnVars, echoes, crossed, taken>>
    PROVE  Typed'
<1>1. /\ gone' = gone \cup {e}
      /\ faults' = faults + 1
      /\ fd' = [fd EXCEPT ![e] = [f \in Programs |-> NoConnection]]
      /\ send_queue' = [send_queue EXCEPT ![e] = [f \in Programs |-> <<>>]]
      /\ backlog' = {c \in backlog : c[2] # e}
      /\ peers' = [peers EXCEPT ![e] = [i \in Slots |-> NoPeer]]
      /\ wire' = [c \in Connections |-> [f \in Ends(c) |->
             IF f = e THEN <<>>
             ELSE IF fd[e][f] = c THEN SubSeq(wires[c][f], 1, Len(wires[c][f]) - lost[f])
             ELSE wires[c][f]]]
  BY DEF Ended
<1>2. \A S : <<>> \in Seq(S)
  OBVIOUS
<1>3. IsWires(wire')
  <2>1. wire' = [c \in Connections |-> [f \in Ends(c) |-> wire'[c][f]]]
    BY <1>1
  <2>2. ASSUME NEW c \in Connections, NEW f \in Ends(c) PROVE wire'[c][f] \in Seq(Sendable(f))
    <3> DEFINE a == wires[c][f]
               n == Len(a) - lost[f]
    <3>1. f \in Programs /\ a \in Seq(Sendable(f))
      BY ConnectionTypes DEF IsWires
    <3>2. n \in Int /\ n <= Len(a)
      <4>1. Len(a) \in Nat /\ lost[f] \in Nat
        BY <3>1
      <4> QED BY <4>1
    <3> HIDE DEF a
    <3>3. SubSeq(a, 1, n) \in Seq(Sendable(f))
      <4> HIDE DEF n
      <4> QED BY <3>1, <3>2, PrefixMail
    <3>4. wire'[c][f] = <<>> \/ wire'[c][f] = SubSeq(a, 1, n) \/ wire'[c][f] = a
      BY <1>1 DEF a
    <3> HIDE DEF n
    <3> QED BY <1>2, <3>1, <3>3, <3>4
  <2> QED BY <2>1, <2>2 DEF IsWires
<1>4. send_queue' \in [Programs -> Letters]
  <2>1. [f \in Programs |-> <<>>] \in Letters
    BY <1>2 DEF Letters
  <2> QED BY <1>1, <2>1 DEF Typed
<1>5. IsFds(fd')
  BY <1>1 DEF Typed, IsFds, FdTables
<1>6. peers' \in [Programs -> PeerTables]
  <2>1. [i \in Slots |-> NoPeer] \in PeerTables
    BY PacketTypes DEF PeerTables
  <2> QED BY <1>1, <2>1 DEF Typed
<1>7. backlog' \subseteq Connections /\ gone' \subseteq Programs /\ faults' \in 0 .. MaxEvents
  BY <1>1, Numbers DEF Typed
<1>8. Wired
  BY <1>3, <1>4, <1>5, <1>6, <1>7, JoinedSame DEF Wired
<1>9. OthersTyped'
  BY <1>7, TypedParts DEF OthersTyped, turnVars
<1> QED BY <1>8, <1>9, TypedAgain

LEMMA CrashTyped ==
    ASSUME Typed, NEW e \in Programs, Crash(e)
    PROVE  Typed'
<1>1. PICK lost \in [Programs -> 0 .. 2] : Ended(e, lost, wire)
  BY DEF Crash
<1>2. lost \in [Programs -> Nat] /\ IsWires(wire)
  BY DEF Typed
<1>4. faults < MaxEvents
  BY Numbers DEF Crash, Typed
<1>3. UNCHANGED <<plr_self, firstpeer, isConnected, awaiting, turnVars, echoes, crossed, taken>>
  BY DEF Crash
<1> QED BY <1>1, <1>2, <1>3, <1>4, EndedTyped

LEMMA LeaveGameTyped ==
    ASSUME Typed, NEW e \in Programs, LeaveGame(e)
    PROVE  Typed'
<1> DEFINE p == Disconnect(plr_self[e], plr_self[e])
           step == Broadcast(Step(e), p)
           wires == [c \in Connections |-> [f \in Ends(c) |->
                     IF f # e /\ e \in Ends(c) /\ fd[e][f] = c /\ (fd[f][e] = c \/ c \in backlog)
                     THEN wire[c][f] \o step.to[f] ELSE wire[c][f]]]
           lost == [f \in Programs |-> 0]
<1>1. /\ e \in Playing /\ faults < MaxEvents /\ Ended(e, lost, wires)
      /\ UNCHANGED <<plr_self, firstpeer, isConnected, awaiting, turnVars, echoes, crossed, taken>>
  BY Numbers DEF LeaveGame, Typed
<1>2. p \in Game
  BY <1>1, PlayingJoined, PacketTypes DEF Game
<1> HIDE DEF p
<1>3. step \in Steps
  BY <1>2, BroadcastType
<1> HIDE DEF step
<1>4. IsWires(wires)
  <2>1. wires = [c \in Connections |-> [f \in Ends(c) |-> wires[c][f]]]
    OBVIOUS
  <2>2. ASSUME NEW c \in Connections, NEW f \in Ends(c) PROVE wires[c][f] \in Seq(Sendable(f))
    <3> HIDE DEF wires
    <3>0. f \in Programs
      BY ConnectionTypes
    <3>1. wire[c][f] \in Seq(Sendable(f)) /\ f \in Programs
      BY <3>0 DEF Typed, IsWires
    <3>a. step.to \in Letters
      BY <1>3 DEF Steps
    <3>b. wires[c][f] = wire[c][f] \/ wires[c][f] = wire[c][f] \o step.to[f]
      BY DEF wires
    <3>2. step.to[f] \in Seq(Sendable(f))
      BY <3>1, <3>a, LettersOf
    <3>3. wire[c][f] \o step.to[f] \in Seq(Sendable(f))
      BY <3>1, <3>2, MailConcat
    <3> QED BY <3>1, <3>3, <3>b
  <2> HIDE DEF wires
  <2> QED BY <2>1, <2>2 DEF IsWires
<1>5. lost \in [Programs -> Nat]
  OBVIOUS
<1> HIDE DEF wires, lost
<1> QED BY <1>1, <1>4, <1>5, EndedTyped

--------------------------------------------------------------------------------

LEMMA InitTyped == Init => Typed
<1> SUFFICES ASSUME Init PROVE Typed
  OBVIOUS
<1>1. PICK in \in {{Host} \cup members : members \in Memberships} : \E slot \in [in -> Slots] :
        /\ \A e, f \in in : slot[e] = slot[f] => e = f
        /\ plr_self = [e \in Programs |-> IF e \in in THEN slot[e] ELSE PLR_BROADCAST]
        /\ peers = [e \in Programs |-> [i \in Slots |->
               IF e \in in /\ \E f \in in \ {e} : slot[f] = i
               THEN [NoPeer EXCEPT !.endpoint = <<CHOOSE f \in in : slot[f] = i>>]
               ELSE NoPeer]]
        /\ isConnected = [e \in Programs |-> IF e \in in THEN {slot[f] : f \in in} ELSE {}]
        /\ awaiting = [e \in Programs |-> e \notin in]
        /\ sent = [e \in Programs |-> IF e \in in THEN 1 ELSE 0]
        /\ got = [e \in Programs |-> [f \in Programs |->
               IF e \in in /\ f \in in \ {e} THEN 1 ELSE 0]]
        /\ fd = [e \in Programs |-> [f \in Programs |->
               IF e \in in /\ f \in in \ {e}
               THEN IF f = Host \/ (e # Host /\ slot[e] < slot[f])
                    THEN <<e, f>> ELSE <<f, e>>
               ELSE NoConnection]]
        /\ gone = Programs \ (in \cup Joiners)
        /\ firstpeer = [e \in Programs |-> NoEndpoint]
        /\ send_queue = [e \in Programs |-> [f \in Programs |-> <<>>]]
        /\ backlog = {}
        /\ wire = [c \in Connections |-> [e \in Ends(c) |-> <<>>]]
        /\ echoes = 0
        /\ faults = 0
        /\ crossed = {}
        /\ taken = [e \in Programs |-> {}]
  BY DEF Init
<1>2. PICK slot \in [in -> Slots] :
        /\ plr_self = [e \in Programs |-> IF e \in in THEN slot[e] ELSE PLR_BROADCAST]
        /\ peers = [e \in Programs |-> [i \in Slots |->
               IF e \in in /\ \E f \in in \ {e} : slot[f] = i
               THEN [NoPeer EXCEPT !.endpoint = <<CHOOSE f \in in : slot[f] = i>>]
               ELSE NoPeer]]
        /\ isConnected = [e \in Programs |-> IF e \in in THEN {slot[f] : f \in in} ELSE {}]
        /\ awaiting = [e \in Programs |-> e \notin in]
        /\ sent = [e \in Programs |-> IF e \in in THEN 1 ELSE 0]
        /\ got = [e \in Programs |-> [f \in Programs |->
               IF e \in in /\ f \in in \ {e} THEN 1 ELSE 0]]
        /\ fd = [e \in Programs |-> [f \in Programs |->
               IF e \in in /\ f \in in \ {e}
               THEN IF f = Host \/ (e # Host /\ slot[e] < slot[f])
                    THEN <<e, f>> ELSE <<f, e>>
               ELSE NoConnection]]
        /\ gone = Programs \ (in \cup Joiners)
        /\ firstpeer = [e \in Programs |-> NoEndpoint]
        /\ send_queue = [e \in Programs |-> [f \in Programs |-> <<>>]]
        /\ backlog = {}
        /\ wire = [c \in Connections |-> [e \in Ends(c) |-> <<>>]]
        /\ echoes = 0
        /\ faults = 0
        /\ crossed = {}
        /\ taken = [e \in Programs |-> {}]
  BY <1>1, Zenon
<1>3. in \subseteq Programs
  BY ParametersAssumption
<1>4. \A S : <<>> \in Seq(S)
  OBVIOUS
<1>5. peers \in [Programs -> PeerTables]
  <2>1. ASSUME NEW e \in Programs, NEW i \in Slots PROVE peers[e][i] \in PeerType
    <3>1. CASE e \in in /\ \E f \in in \ {e} : slot[f] = i
      <4> DEFINE g == CHOOSE f \in in : slot[f] = i
      <4>1. g \in in
        BY <3>1
      <4>2. peers[e][i] = [NoPeer EXCEPT !.endpoint = <<g>>]
        BY <1>2, <3>1
      <4> HIDE DEF g
      <4>3. <<g>> \in Endpoints
        BY <1>3, <4>1 DEF Endpoints
      <4> QED BY <4>2, <4>3, PacketTypes DEF PeerType
    <3>2. CASE ~ (e \in in /\ \E f \in in \ {e} : slot[f] = i)
      <4>1. peers[e][i] = NoPeer
        BY <1>2, <3>2
      <4> QED BY <4>1, PacketTypes
    <3> QED BY <3>1, <3>2
  <2>2. peers = [e \in Programs |-> peers[e]]
    BY <1>2
  <2>3. \A e \in Programs : peers[e] = [i \in Slots |-> peers[e][i]]
    BY <1>2
  <2> QED BY <2>1, <2>2, <2>3 DEF PeerTables
<1>6. IsFds(fd)
  <2>1. ASSUME NEW e \in Programs, NEW f \in Programs
        PROVE  fd[e][f] \in {NoConnection} \cup Between(e, f)
    <3>1. fd[e][f] = NoConnection \/ (e # f /\ fd[e][f] \in {<<e, f>>, <<f, e>>})
      BY <1>2
    <3> QED BY <3>1, ConnectionTypes DEF Between
  <2>2. \A e, f \in Programs : fd[e][f] \in {NoConnection} \cup Connections
    BY <2>1 DEF Between
  <2>3. fd = [e \in Programs |-> [f \in Programs |-> fd[e][f]]]
    BY <1>2
  <2>4. fd \in FdTables
    BY <2>2, <2>3 DEF FdTables
  <2> QED BY <2>1, <2>4 DEF IsFds
<1>7. IsWires(wire)
  <2>1. \A c \in Connections : \A f \in Ends(c) : wire[c][f] = <<>>
    BY <1>2
  <2>2. wire = [c \in Connections |-> [f \in Ends(c) |-> wire[c][f]]]
    BY <1>2
  <2> QED BY <1>4, <2>1, <2>2 DEF IsWires
<1>8. send_queue \in [Programs -> Letters]
  <2>1. [f \in Programs |-> <<>>] \in Letters
    BY <1>4 DEF Letters
  <2> QED BY <1>2, <2>1
<1>9. OthersTyped
  <2>1. plr_self \in [Programs -> Slots \cup {PLR_BROADCAST}]
    BY <1>2
  <2>2. firstpeer \in [Programs -> Endpoints]
    BY <1>2 DEF Endpoints
  <2>3. isConnected \in [Programs -> SUBSET Slots]
    BY <1>2
  <2>4. awaiting \in [Programs -> BOOLEAN] /\ sent \in [Programs -> 0 .. MaxTurn]
    BY <1>2, Numbers
  <2>5. got \in [Programs -> [Programs -> 0 .. MaxTurn]]
    BY <1>2, Numbers
  <2>6. gone \subseteq Programs /\ echoes \in 0 .. MaxEvents /\ faults \in 0 .. MaxEvents
        /\ crossed \subseteq Connections /\ taken \in [Programs -> SUBSET Slots]
    BY <1>2, Numbers
  <2> QED BY <2>1, <2>2, <2>3, <2>4, <2>5, <2>6 DEF OthersTyped
<1>10. backlog \subseteq Connections
  BY <1>2
<1> QED BY <1>5, <1>6, <1>7, <1>8, <1>9, <1>10 DEF Typed, OthersTyped

LEMMA NextTyped == Typed /\ [Next]_vars => Typed'
<1> SUFFICES ASSUME Typed, [Next]_vars PROVE Typed'
  OBVIOUS
<1>1. CASE UNCHANGED vars
  <2>1. Wired
    BY <1>1, JoinedSame DEF vars, gameVars, netVars, Wired, Typed
  <2>2. OthersTyped'
    BY <1>1, TypedParts DEF vars, gameVars, turnVars, OthersTyped
  <2> QED BY <2>1, <2>2, TypedAgain
<1>2. ASSUME NEW e \in Programs, SendTurn(e) PROVE Typed'
  BY <1>2, SendTurnTyped
<1>3. ASSUME NEW e \in Programs, SendEchoRequests(e) PROVE Typed'
  BY <1>3, SendEchoRequestsTyped
<1>4. ASSUME NEW e \in Programs, LeaveGame(e) PROVE Typed'
  BY <1>4, LeaveGameTyped
<1>5. ASSUME NEW e \in Programs, Crash(e) PROVE Typed'
  BY <1>5, CrashTyped
<1>6. ASSUME NEW e \in Programs, NEW player \in Slots, DropPlayer(e, player) PROVE Typed'
  BY <1>6, DropPlayerTyped
<1>7. ASSUME NEW e \in Programs, NEW f \in Programs \ {e}, AskToJoin(e, f) PROVE Typed'
  BY <1>7, AskToJoinTyped
<1>8. ASSUME NEW e \in Programs, NEW f \in Programs \ {e}, Open(e, f) PROVE Typed'
  BY <1>8, OpenTyped
<1>9. ASSUME NEW e \in Programs, NEW f \in Programs \ {e}, Accept(e, f) PROVE Typed'
  BY <1>9, AcceptTyped
<1>10. ASSUME NEW e \in Programs, NEW f \in Programs \ {e}, Disconnected(e, f) PROVE Typed'
  BY <1>10, DisconnectedTyped
<1>11. ASSUME NEW e \in Programs, NEW f \in Programs \ {e}, Receive(e, f) PROVE Typed'
  <2>1. CASE HandleJoinRequest(e, f)
    BY <2>1, HandleJoinRequestTyped
  <2>2. CASE ReceiveConnect(e, f)
    BY <2>2, ReceiveConnectTyped
  <2>3. CASE ReceiveAccept(e, f)
    BY <2>3, ReceiveAcceptTyped
  <2>4. CASE ReceiveTurn(e, f)
    BY <2>4, ReceiveTurnTyped
  <2>5. CASE \E type \in EchoTypes : ReceiveEcho(e, f, type)
    BY <2>5, ReceiveEchoTyped
  <2>6. CASE ReceiveDisconnect(e, f)
    BY <2>6, ReceiveDisconnectTyped
  <2>7. CASE Ignore(e, f)
    BY <2>7, IgnoreTyped
  <2> QED BY <1>11, <2>1, <2>2, <2>3, <2>4, <2>5, <2>6, <2>7 DEF Receive
<1>12. CASE Next
  <2>1. PICK e \in Programs :
           \/ SendTurn(e)
           \/ SendEchoRequests(e)
           \/ LeaveGame(e)
           \/ Crash(e)
           \/ \E player \in Slots : DropPlayer(e, player)
           \/ \E f \in Programs \ {e} : AskToJoin(e, f)
           \/ Poll(e)
    BY <1>12, Zenon DEF Next
  <2>2. CASE Poll(e)
    <3>1. PICK f \in Programs \ {e} :
             Open(e, f) \/ Accept(e, f) \/ Disconnected(e, f) \/ Receive(e, f)
      BY <2>2, Zenon DEF Poll
    <3> QED BY <3>1, <1>8, <1>9, <1>10, <1>11
  <2> QED BY <2>1, <2>2, <1>2, <1>3, <1>4, <1>5, <1>6, <1>7
<1> QED BY <1>1, <1>12

\* A join request is only ever on its way to a player, an acceptance comes from a player,
\* and what a program holds back for another one are turns and farewells only: so the
\* handlers of protocol_zt put slots, endpoints and connections where they belong.
THEOREM TypeCorrect == Spec => []TypeOK
<1>1. Spec => []Typed
  BY InitTyped, NextTyped, PTL DEF Spec
<1>2. Typed => TypeOK
  BY TypedImplies
<1> QED BY <1>1, <1>2, PTL

--------------------------------------------------------------------------------
(* What is on its way from m to x: on the connection that either has opened,   *)
(* and in m's queue.  It is counted, because each request, acceptance and      *)
(* introduction is there at most once.                                         *)

Requests == {p \in Packets : p.type = "PT_JOIN_REQUEST"}
Accepts == {p \in Packets : p.type = "PT_JOIN_ACCEPT"}
Connects(e) == {p \in Packets : p.type = "PT_CONNECT" /\ p.endpoint = <<e>>}
TurnPackets == {p \in Packets : p.type = "PT_TURN"}
Farewells == {p \in Packets : p.type = "PT_DISCONNECT"}

Count(seq, set) == Len(Among(seq, set))
L1(m, x) == wire[<<m, x>>][x]
L2(m, x) == wire[<<x, m>>][x]
L3(m, x) == send_queue[m][x]
Cnt(m, x, set) == Count(L1(m, x), set) + Count(L2(m, x), set) + Count(L3(m, x), set)
Flying(m, x) == {p \in Packets : Cnt(m, x, {p}) > 0}

--------------------------------------------------------------------------------
(* The invariant.                                                              *)

KnowsAt(e, f, i) == peers[e][i].endpoint = <<f>>
Met(e, f) == \E i \in Slots : KnowsAt(e, f, i)

\* What tells of e when it comes from m; that m has told f of e, and f does not know yet.
News(m, e) == Connects(e) \cup (IF m = e THEN Accepts ELSE {})
Told(m, f, e) == m # f /\ Cnt(m, f, News(m, e)) > 0
Intro(f, e) == \E m \in Programs : Told(m, f, e)

\* Programs that have not asked to join, or whose request has not been handled.
Fresh(e) == ~ Joined(e) /\ firstpeer[e] = NoEndpoint
Asking(e) == \E m \in Programs \ {e} : Cnt(e, m, Requests) > 0
Unborn(e) == Fresh(e) \/ Asking(e)

\* Connections and what is on them.
LinkW(e, f) ==
    /\ fd[e][f] # NoConnection => L3(e, f) = <<>>
    /\ L2(f, e) # <<>> => fd[e][f] = <<e, f>> /\ <<e, f>> \notin backlog
    /\ L1(e, f) # <<>> => fd[f][e] = <<e, f>> \/ <<e, f>> \in backlog
    /\ <<e, f>> \in backlog => f \notin gone /\ fd[f][e] # <<e, f>>
    /\ <<e, f>> \in crossed => <<f, e>> \in crossed
    /\ e \in gone => fd[e][f] = NoConnection /\ L3(e, f) = <<>>
InvW == /\ \A e \in Programs : \A f \in Programs \ {e} : LinkW(e, f)
        /\ \A e \in gone, i \in Slots : peers[e][i] = NoPeer

\* Tables of players.
TableOk(e) ==
    /\ \A i, j \in Slots : peers[e][i].endpoint # NoEndpoint
           /\ peers[e][i].endpoint = peers[e][j].endpoint => i = j
    /\ \A i \in Slots :
           /\ peers[e][i].endpoint # <<e>>
           /\ peers[e][i].endpoint = NoEndpoint => peers[e][i] = NoPeer
           /\ ~ peers[e][i].queued => peers[e][i].sendQueue = <<>>
           /\ peers[e][i].endpoint # NoEndpoint => i \in isConnected[e]
    /\ ~ Joined(e) => awaiting[e]
    /\ Joined(e) => firstpeer[e] = NoEndpoint
InvK == \A e \in Programs : TableOk(e)

\* A program that is not born has at most opened a connection and sent its request.
LinkOut(e, x) ==
    /\ <<x, e>> \notin backlog /\ fd[x][e] # <<x, e>> /\ fd[e][x] # <<x, e>>
    /\ <<e, x>> \notin crossed /\ <<x, e>> \notin crossed
    /\ e \notin gone /\ (fd[x][e] = <<e, x>> \/ <<e, x>> \in backlog) => fd[e][x] = <<e, x>>
    /\ e \notin gone /\ x \notin gone /\ fd[e][x] = <<e, x>>
           => fd[x][e] = <<e, x>> \/ <<e, x>> \in backlog
InvL == \A e \in Programs : Unborn(e) => \A x \in Programs \ {e} : LinkOut(e, x)
Strange(e, x) == /\ Cnt(x, e, Packets) = 0 /\ ~ Met(x, e) /\ got[x][e] = 0 /\ got[e][x] = 0
                 /\ Cnt(e, x, Packets \ Requests) = 0 /\ Cnt(e, x, Requests) <= 1
Unknown(e) ==
    /\ ~ Joined(e) /\ \A i \in Slots : peers[e][i] = NoPeer
    /\ \A x \in Programs \ {e} : Strange(e, x)
    /\ \A m \in Programs : \A x \in Programs \ {m} : Cnt(m, x, Connects(e)) = 0
Asked(e, x) == /\ Fresh(e) => Cnt(e, x, Packets) = 0
               /\ Cnt(e, x, Requests) > 0 => firstpeer[e] = <<x>>
InvU == \A e \in Programs : /\ Unborn(e) => Unknown(e)
                            /\ \A x \in Programs \ {e} : Asked(e, x)

\* Of each player each program is told once.
ToldOnce(f, e) ==
    /\ Intro(f, e) => f # e /\ ~ Met(f, e)
    /\ \A m \in Programs \ {f} : Cnt(m, f, News(m, e)) <= 1
    /\ \A m, n \in Programs : Told(m, f, e) /\ Told(n, f, e) => m = n
InvI == \A f, e \in Programs : ToldOnce(f, e)

\* The number of f is the same everywhere.
Numbered(f, n) ==
    /\ Joined(f) => plr_self[f] = n
    /\ \A e \in Programs, i \in Slots : KnowsAt(e, f, i) => i = n
    /\ \A m \in Programs : \A x \in Programs \ {m} : \A p \in Flying(m, x) :
           p \in Connects(f) => p.player = n
    /\ \A m \in Programs \ {f} : \A p \in Flying(m, f) :
           /\ p \in Accepts => p.player = n
           /\ p \in Game => p.dst = n \/ (p \in Held /\ p.dst = PLR_BROADCAST)
InvN == \A f \in Programs : \E n \in Slots : Numbered(f, n)

\* What players send, and what they hold back for slot i.
SentByPlayer(e, f, p) ==
    /\ Joined(e) /\ p.src = plr_self[e] /\ (e \notin gone => ~ Intro(e, f))
    /\ p \in Farewells => \A i \in Slots : KnowsAt(e, f, i) => i # p.player
    /\ p \in Accepts => firstpeer[f] = <<e>> /\ ~ Joined(f)
\* A packet of e for its slot i.
Proper(e, i, p) ==
    /\ Joined(e) /\ p.src = plr_self[e]
    /\ p.dst = i \/ (p \in Held /\ p.dst = PLR_BROADCAST)
    /\ p \in Farewells => p.player # i
    /\ p \in TurnPackets => ~ awaiting[e]
HeldFor(e, i) == {p \in Held : Proper(e, i, p)}
MaySend(e, f, p) == /\ p \in Game \cup Accepts => SentByPlayer(e, f, p)
                    /\ p.type = "PT_CONNECT" => p.endpoint # NoEndpoint
InvS == /\ \A e \in Programs : \A f \in Programs \ {e} : \A p \in Flying(e, f) : MaySend(e, f, p)
        /\ \A e \in Programs, i \in Slots : peers[e][i].sendQueue \in Seq(HeldFor(e, i))

\* An acceptance comes on the connection that the program has opened, before any turn.
Ahead(seq) == Among(seq, Held \cup Accepts) # <<>> => Head(Among(seq, Held \cup Accepts)) \in Accepts
Accepted(m, f) ==
    /\ fd[f][m] = <<f, m>> /\ <<f, m>> \notin backlog /\ <<m, f>> \notin backlog
    /\ fd[m][f] \in {NoConnection, <<f, m>>}
    /\ L1(m, f) = <<>> /\ L3(m, f) = <<>> /\ Ahead(L2(m, f))
    /\ m \notin gone /\ Met(m, f) => fd[m][f] = <<f, m>>
InvA == \A m \in Programs : \A f \in Programs \ {m} :
    f \notin gone /\ Cnt(m, f, Accepts) > 0 => Accepted(m, f)

\* e has turns on their way to f, or holds none back, only if f knows e by then.
Ready(e, f) == f \notin gone => (Joined(f) /\ ~ Intro(f, e)) \/ Cnt(e, f, Accepts) > 0
InvQ == \A e \in Programs : \A f \in Programs \ {e} :
    (\E i \in Slots : KnowsAt(e, f, i) /\ ~ peers[e][i].queued) \/ Cnt(e, f, Held) > 0
        => Ready(e, f)

InvV == \A e \in Programs : awaiting[e] =>
    \A f \in Programs \ {e} : Cnt(e, f, TurnPackets) = 0 /\ got[f][e] = 0

\* Two programs that know each other, or will.
Rel(e, f) == Met(e, f) \/ Intro(e, f)
Bond(e, f) == /\ e \notin gone /\ f \notin gone /\ Rel(e, f) /\ Rel(f, e)
              /\ <<e, f>> \notin crossed /\ <<f, e>> \notin crossed
LinkOk(e, f) ==
    \/ /\ fd[e][f] = NoConnection /\ fd[f][e] = NoConnection
       /\ <<e, f>> \notin backlog /\ <<f, e>> \notin backlog
    \/ fd[e][f] = <<e, f>> /\ fd[f][e] = NoConnection /\ <<e, f>> \in backlog /\ <<f, e>> \notin backlog
    \/ fd[f][e] = <<f, e>> /\ fd[e][f] = NoConnection /\ <<f, e>> \in backlog /\ <<e, f>> \notin backlog
    \/ /\ fd[e][f] # NoConnection /\ fd[e][f] = fd[f][e]
       /\ <<e, f>> \notin backlog /\ <<f, e>> \notin backlog
InvC == \A e \in Programs : \A f \in Programs \ {e} : Bond(e, f) =>
            LinkOk(e, f) /\ (Intro(e, f) => got[f][e] = 0)

\* The turns of e that f gets.
Mail(e, f) == (IF fd[e][f] = NoConnection THEN <<>> ELSE wire[fd[e][f]][f]) \o send_queue[e][f]
Stream(e, f, i) == Among(Mail(e, f) \o peers[e][i].sendQueue, TurnPackets)
Tally(turns, last, seen) ==
    /\ \A k \in 1 .. Len(turns) : turns[k].turn = last - Len(turns) + k
    /\ seen = last - Len(turns) \/ (seen = 0 /\ turns # <<>>)
InvT == \A e \in Programs : \A f \in Programs \ {e} : \A i \in Slots :
    Bond(e, f) /\ ~ awaiting[e] /\ KnowsAt(e, f, i) /\ i \notin taken[e]
        => Tally(Stream(e, f, i), sent[e], got[f][e])

\* The inductive invariant, with Typed.
MeshInv == /\ InvW /\ InvK /\ InvL /\ InvU /\ InvI /\ InvN
           /\ InvS /\ InvA /\ InvQ /\ InvV /\ InvC /\ InvT

LEMMA CountBasics ==
    /\ \A set : Count(<<>>, set) = 0
    /\ \A a \in Seq(Packets) : \A set : Count(a, set) \in Nat
<1>1. \A set : Count(<<>>, set) = 0
  <2> TAKE set
  <2>1. Among(<<>>, set) = <<>>
    BY AmongEmpty
  <2> QED BY <2>1 DEF Count
<1>2. ASSUME NEW a \in Seq(Packets), NEW set PROVE Count(a, set) \in Nat
  <2>1. Among(a, set) \in Seq(Packets)
    BY AmongType
  <2> QED BY <2>1 DEF Count
<1> QED BY <1>1, <1>2

LEMMA CountConcat ==
    ASSUME NEW a \in Seq(Packets), NEW b \in Seq(Packets), NEW set
    PROVE  Count(a \o b, set) = Count(a, set) + Count(b, set)
<1>1. Among(a \o b, set) = Among(a, set) \o Among(b, set)
  BY AmongConcat
<1>2. Among(a, set) \in Seq(Packets) /\ Among(b, set) \in Seq(Packets)
  BY AmongType
<1> QED BY <1>1, <1>2 DEF Count

LEMMA CountAppend ==
    ASSUME NEW a \in Seq(Packets), NEW p \in Packets, NEW set
    PROVE  Count(Append(a, p), set) = Count(a, set) + IF p \in set THEN 1 ELSE 0
<1>1. Among(Append(a, p), set) = IF p \in set THEN Append(Among(a, set), p) ELSE Among(a, set)
  BY AmongAppend
<1>2. Among(a, set) \in Seq(Packets)
  BY AmongType
<1> QED BY <1>1, <1>2 DEF Count

LEMMA CountOne ==
    ASSUME NEW p \in Packets, NEW set
    PROVE  Count(<<p>>, set) = IF p \in set THEN 1 ELSE 0
<1>1. <<>> \in Seq(Packets) /\ Append(<<>>, p) = <<p>>
  OBVIOUS
<1>2. Count(Append(<<>>, p), set) = Count(<<>>, set) + IF p \in set THEN 1 ELSE 0
  BY <1>1, CountAppend
<1> QED BY <1>1, <1>2, CountBasics

LEMMA CountHead ==
    ASSUME NEW a \in Seq(Packets), a # <<>>, NEW set
    PROVE  /\ Head(a) \in Packets /\ Tail(a) \in Seq(Packets)
           /\ Count(a, set) = Count(Tail(a), set) + IF Head(a) \in set THEN 1 ELSE 0
<1> DEFINE h == Head(a)
           t == Tail(a)
           one == <<h>>
<1>1. h \in Packets /\ t \in Seq(Packets) /\ one \in Seq(Packets) /\ a = one \o t
  OBVIOUS
<1>3. Count(one, set) = IF h \in set THEN 1 ELSE 0
  BY <1>1, CountOne
<1> HIDE DEF h, t, one
<1>2. Count(one \o t, set) = Count(one, set) + Count(t, set)
  BY <1>1, CountConcat
<1>4. Count(t, set) \in Nat /\ Count(one, set) \in Nat
  BY <1>1, CountBasics
<1>5. Count(a, set) = Count(t, set) + IF h \in set THEN 1 ELSE 0
  BY <1>1, <1>2, <1>3, <1>4
<1> QED BY <1>1, <1>5 DEF h, t

LEMMA CountPrefix ==
    ASSUME NEW a \in Seq(Packets), NEW n \in 0 .. Len(a), NEW set
    PROVE  /\ SubSeq(a, 1, n) \in Seq(Packets)
           /\ Count(SubSeq(a, 1, n), set) <= Count(a, set)
<1> DEFINE b == SubSeq(a, 1, n)
           c == SubSeq(a, n + 1, Len(a))
<1>1. b \in Seq(Packets) /\ c \in Seq(Packets) /\ a = b \o c
  BY Cut
<1> HIDE DEF b, c
<1>2. Count(b \o c, set) = Count(b, set) + Count(c, set)
  BY <1>1, CountConcat
<1>3. Count(c, set) \in Nat /\ Count(b, set) \in Nat
  BY <1>1, CountBasics
<1>4. b \in Seq(Packets) /\ Count(b, set) <= Count(a, set)
  BY <1>1, <1>2, <1>3
<1> QED BY <1>4 DEF b

LEMMA CountWithin ==
    ASSUME NEW a \in Seq(Packets), NEW set, NEW wider, set \cap Packets \subseteq wider
    PROVE  Count(a, set) <= Count(a, wider)
<1> DEFINE P == {s \in Seq(Packets) : Count(s, set) <= Count(s, wider)}
<1>1. <<>> \in P
  <2>1. <<>> \in Seq(Packets)
    OBVIOUS
  <2> QED BY <2>1, CountBasics
<1>2. ASSUME NEW s \in Seq(Packets), NEW x \in Packets, s \in P PROVE Append(s, x) \in P
  <2>1. Count(Append(s, x), set) = Count(s, set) + IF x \in set THEN 1 ELSE 0
    BY CountAppend
  <2>2. Count(Append(s, x), wider) = Count(s, wider) + IF x \in wider THEN 1 ELSE 0
    BY CountAppend
  <2>3. Append(s, x) \in Seq(Packets) /\ Count(s, set) \in Nat /\ Count(s, wider) \in Nat
    BY CountBasics
  <2> QED BY <1>2, <2>1, <2>2, <2>3
<1>3. Seq(Packets) \subseteq P
  <2> HIDE DEF P
  <2> QED BY <1>1, <1>2, SeqInduct
<1> QED BY <1>3

LEMMA CountNone ==
    ASSUME NEW S \in SUBSET Packets, NEW a \in Seq(S), NEW set, S \cap set = {}
    PROVE  Count(a, set) = 0
<1>1. Among(a, set) = <<>>
  BY AmongNone
<1> QED BY <1>1 DEF Count

\* What is counted is there.
LEMMA CountWitness ==
    ASSUME NEW a \in Seq(Packets), NEW set, Count(a, set) > 0
    PROVE  \E p \in Packets : p \in set /\ Count(a, {p}) > 0
<1> DEFINE P == {s \in Seq(Packets) : Count(s, set) > 0 =>
                    \E p \in Packets : p \in set /\ Count(s, {p}) > 0}
<1>1. <<>> \in P
  <2>1. <<>> \in Seq(Packets) /\ ~(0 > 0)
    OBVIOUS
  <2>2. Count(<<>>, set) = 0
    BY CountBasics
  <2> QED BY <2>1, <2>2
<1>2. ASSUME NEW s \in Seq(Packets), NEW x \in Packets, s \in P PROVE Append(s, x) \in P
  <2>1. Count(Append(s, x), set) = Count(s, set) + IF x \in set THEN 1 ELSE 0
    BY CountAppend
  <2>2. \A p : Count(Append(s, x), {p}) = Count(s, {p}) + IF x \in {p} THEN 1 ELSE 0
    BY CountAppend
  <2>3. Append(s, x) \in Seq(Packets) /\ Count(s, set) \in Nat /\ \A p : Count(s, {p}) \in Nat
    BY CountBasics
  <2>4. CASE x \in set
    <3>1. Count(Append(s, x), {x}) = Count(s, {x}) + 1
      BY <2>2
    <3>2. Count(s, {x}) \in Nat
      BY <2>3
    <3>3. Count(Append(s, x), {x}) > 0
      BY <3>1, <3>2
    <3> QED BY <2>3, <2>4, <3>3
  <2>5. CASE x \notin set
    <3>1. Count(Append(s, x), set) = Count(s, set)
      BY <2>1, <2>3, <2>5
    <3>2. ASSUME NEW p, Count(s, {p}) > 0 PROVE Count(Append(s, x), {p}) > 0
      <4> DEFINE n == Count(s, {p})
                 m == Count(Append(s, x), {p})
      <4>1. m = n + (IF x \in {p} THEN 1 ELSE 0) /\ n \in Nat /\ n > 0
        BY <2>2, <2>3, <3>2
      <4> HIDE DEF n, m
      <4>2. m > 0
        BY <4>1
      <4> QED BY <4>2 DEF m
    <3> QED BY <1>2, <2>3, <3>1, <3>2
  <2> QED BY <2>4, <2>5
<1>3. Seq(Packets) \subseteq P
  <2> HIDE DEF P
  <2> QED BY <1>1, <1>2, SeqInduct
<1> QED BY <1>3

\* Where only one element is in a set, it is counted once.
LEMMA CountOnce ==
    ASSUME NEW a \in Seq(Packets), NEW set,
           \A k, l \in 1 .. Len(a) : a[k] \in set /\ a[l] \in set => k = l
    PROVE  Count(a, set) <= 1
<1> DEFINE Within(s) == \E k \in 1 .. Len(s) : s[k] \in set
           Once(s) == \A k, l \in 1 .. Len(s) : s[k] \in set /\ s[l] \in set => k = l
           P == {s \in Seq(Packets) : /\ ~ Within(s) => Count(s, set) = 0
                                      /\ Once(s) => Count(s, set) <= 1}
<1>1. <<>> \in P
  <2>1. <<>> \in Seq(Packets) /\ 0 <= 1
    OBVIOUS
  <2>2. Count(<<>>, set) = 0
    BY CountBasics
  <2> QED BY <2>1, <2>2
<1>2. ASSUME NEW s \in Seq(Packets), NEW x \in Packets, s \in P PROVE Append(s, x) \in P
  <2> DEFINE t == Append(s, x)
             n == Len(s)
  <2>1. Count(t, set) = Count(s, set) + IF x \in set THEN 1 ELSE 0
    BY CountAppend
  <2>2. t \in Seq(Packets) /\ Count(s, set) \in Nat /\ n \in Nat
    BY CountBasics
  <2>3. Len(t) = n + 1 /\ t[n + 1] = x /\ \A k \in 1 .. n : t[k] = s[k]
    OBVIOUS
  <2>4. (~ Within(s) => Count(s, set) = 0) /\ (Once(s) => Count(s, set) <= 1)
    BY <1>2
  <2> HIDE DEF t, n
  <2>5. n + 1 \in 1 .. Len(t) /\ \A k \in 1 .. n : k \in 1 .. Len(t) /\ k # n + 1
    BY <2>2, <2>3
  <2>6. ~ Within(t) => x \notin set /\ ~ Within(s)
    BY <2>3, <2>5 DEF n
  <2>7. ~ Within(t) => Count(t, set) = 0
    BY <2>1, <2>2, <2>4, <2>6
  <2>8. Once(t) => Once(s)
    BY <2>3, <2>5 DEF n
  <2>9. Once(t) /\ x \in set => ~ Within(s)
    BY <2>3, <2>5 DEF n
  <2>10. Once(t) => Count(t, set) <= 1
    <3> HAVE Once(t)
    <3> HIDE DEF Once, Within
    <3> QED BY <2>1, <2>2, <2>4, <2>8, <2>9
  <2> HIDE DEF Once, Within
  <2> QED BY <2>2, <2>7, <2>10 DEF t
<1>3. Seq(Packets) \subseteq P
  <2> HIDE DEF P
  <2> QED BY <1>1, <1>2, SeqInduct
<1>4. a \in P
  BY <1>3
<1> QED BY <1>4

--------------------------------------------------------------------------------
(* Moves: what a step of e does to connections and to what is on them.  It     *)
(* takes a packet from g (g = e: it does not), closes the connections to some  *)
(* programs, and sends "out".                                                  *)

Reaches(e, y, c) == fd[e][y] = c /\ (fd[y][e] = c \/ c \in backlog)
SendLanes(e, y, others, out) ==
    /\ L1(e, y)' = IF y \notin others /\ Reaches(e, y, <<e, y>>) THEN L1(e, y) \o out ELSE L1(e, y)
    /\ L2(e, y)' = IF y \notin others /\ Reaches(e, y, <<y, e>>) THEN L2(e, y) \o out ELSE L2(e, y)
    /\ L3(e, y)' = IF y \in others THEN <<>>
                   ELSE IF fd[e][y] = NoConnection THEN L3(e, y) \o out ELSE <<>>
Taken(e, y, g, others, c, lane) ==
    IF y \in others /\ fd[e][y] = c THEN <<>>
    ELSE IF y = g /\ fd[e][y] = c THEN Tail(lane) ELSE lane
ReceiveLanes(e, y, g, others) ==
    /\ L1(y, e)' = Taken(e, y, g, others, <<y, e>>, L1(y, e))
    /\ L2(y, e)' = Taken(e, y, g, others, <<e, y>>, L2(y, e))
    /\ L3(y, e)' = L3(y, e)
SameLanes(x, y) == L1(x, y)' = L1(x, y) /\ L2(x, y)' = L2(x, y) /\ L3(x, y)' = L3(x, y)
Gets(e, g) == g \in Programs /\ fd[e][g] # NoConnection /\ wire[fd[e][g]][e] # <<>>
Move(e, g, others, out) ==
    /\ \A f \in Programs : fd'[e][f] = IF f \in others THEN NoConnection ELSE fd[e][f]
    /\ \A x \in Programs \ {e} : fd'[x] = fd[x]
    /\ backlog' = backlog /\ crossed' = crossed /\ gone' = gone /\ e \notin gone
    /\ out \in Letters /\ \A y \in others : out[y] = <<>>
    /\ g # e => Gets(e, g)
    /\ \A y \in Programs \ {e} : SendLanes(e, y, others, out[y]) /\ ReceiveLanes(e, y, g, others)
    /\ \A x \in Programs \ {e} : \A y \in Programs \ {e, x} : SameLanes(x, y)

\* What is counted on the way from x to y.
Flow(e, g, out) ==
    \A x \in Programs : \A y \in Programs \ {x} : \A set :
        Cnt(x, y, set)' + (IF y = e /\ x = g /\ Arrived(e, g) \in set THEN 1 ELSE 0)
            <= Cnt(x, y, set) + (IF x = e THEN Count(out[y], set) ELSE 0)

Plain(w, q) == /\ \A c \in Connections : \A f \in Ends(c) : w[c][f] \in Seq(Packets)
               /\ \A m, x \in Programs : q[m][x] \in Seq(Packets)

LEMMA PlainLanes ==
    ASSUME NEW w, NEW q, Plain(w, q), NEW m \in Programs, NEW x \in Programs \ {m}
    PROVE  w[<<m, x>>][x] \in Seq(Packets) /\ w[<<x, m>>][x] \in Seq(Packets) /\ q[m][x] \in Seq(Packets)
<1>1. /\ <<m, x>> \in Connections /\ <<x, m>> \in Connections
      /\ x \in Ends(<<m, x>>) /\ x \in Ends(<<x, m>>)
  BY ConnectionTypes
<1> QED BY <1>1 DEF Plain

LEMMA AllPlain ==
    ASSUME Typed
    PROVE  Plain(wire, send_queue)
<1>1. \A f : Seq(Sendable(f)) \subseteq Seq(Packets)
  BY SeqMonotonicHere DEF Sendable
<1> QED BY <1>1 DEF Typed, IsWires, Letters, Plain

LEMMA AllPlainAfter ==
    ASSUME Typed'
    PROVE  Plain(wire', send_queue')
<1>1. \A f : Seq(Sendable(f)') \subseteq Seq(Packets)
  BY SeqMonotonicHere DEF Sendable
<1> QED BY <1>1 DEF Typed, IsWires, Letters, Plain

LEMMA LanesTyped ==
    ASSUME Typed, NEW m \in Programs, NEW x \in Programs \ {m}
    PROVE  /\ L1(m, x) \in Seq(Packets) /\ L2(m, x) \in Seq(Packets) /\ L3(m, x) \in Seq(Packets)
           /\ \A set : Cnt(m, x, set) \in Nat
<1>1. L1(m, x) \in Seq(Packets) /\ L2(m, x) \in Seq(Packets) /\ L3(m, x) \in Seq(Packets)
  BY AllPlain, PlainLanes DEF L1, L2, L3
<1>2. \A set : Count(L1(m, x), set) \in Nat /\ Count(L2(m, x), set) \in Nat /\ Count(L3(m, x), set) \in Nat
  BY <1>1, CountBasics
<1> QED BY <1>1, <1>2 DEF Cnt

LEMMA LanesTypedAfter ==
    ASSUME Typed', NEW m \in Programs, NEW x \in Programs \ {m}
    PROVE  /\ L1(m, x)' \in Seq(Packets) /\ L2(m, x)' \in Seq(Packets) /\ L3(m, x)' \in Seq(Packets)
           /\ \A set : Cnt(m, x, set)' \in Nat
<1>1. L1(m, x)' \in Seq(Packets) /\ L2(m, x)' \in Seq(Packets) /\ L3(m, x)' \in Seq(Packets)
  BY AllPlainAfter, PlainLanes DEF L1, L2, L3
<1>2. \A set : Count(L1(m, x)', set) \in Nat /\ Count(L2(m, x)', set) \in Nat /\ Count(L3(m, x)', set) \in Nat
  BY <1>1, CountBasics
<1> QED BY <1>1, <1>2 DEF Cnt

LEMMA TakenCount ==
    ASSUME NEW e, NEW y, NEW g, NEW others, NEW c, NEW lane \in Seq(Packets), NEW set,
           y = g /\ fd[e][y] = c => lane # <<>>
    PROVE  /\ Taken(e, y, g, others, c, lane) \in Seq(Packets)
           /\ Count(Taken(e, y, g, others, c, lane), set) +
                (IF y = g /\ fd[e][y] = c /\ Head(lane) \in set THEN 1 ELSE 0) <= Count(lane, set)
<1>1. Count(lane, set) \in Nat /\ Count(<<>>, set) = 0
  BY CountBasics
<1>2. lane # <<>> => /\ Tail(lane) \in Seq(Packets)
                     /\ Count(lane, set) = Count(Tail(lane), set) + IF Head(lane) \in set THEN 1 ELSE 0
                     /\ Count(Tail(lane), set) \in Nat
  BY CountHead, CountBasics
<1>3. <<>> \in Seq(Packets)
  OBVIOUS
<1> DEFINE n == Count(lane, set)
           m == Count(Tail(lane), set)
           t == Taken(e, y, g, others, c, lane)
           hit == IF y = g /\ fd[e][y] = c /\ Head(lane) \in set THEN 1 ELSE 0
<1>4. CASE y \in others /\ fd[e][y] = c
  <2>1. t = <<>>
    BY <1>4 DEF Taken
  <2>2. hit <= n
    <3>1. CASE y = g
      BY <1>1, <1>2, <1>4, <3>1
    <3>2. CASE y # g
      BY <1>1, <3>2
    <3> QED BY <3>1, <3>2
  <2>3. hit \in Nat
    OBVIOUS
  <2>4. Count(t, set) + hit <= n
    <3> HIDE DEF hit, n, t
    <3> QED BY <1>1, <2>1, <2>2, <2>3
  <2> QED BY <1>3, <2>1, <2>4
<1>5. CASE ~(y \in others /\ fd[e][y] = c) /\ y = g /\ fd[e][y] = c
  <2>1. t = Tail(lane)
    BY <1>5 DEF Taken
  <2>2. m + hit = n
    BY <1>1, <1>2, <1>5
  <2>3. hit \in Nat /\ m \in Nat /\ n \in Nat
    BY <1>1, <1>2, <1>5
  <2>4. Count(t, set) = m
    BY <2>1
  <2>5. Count(t, set) + hit <= n
    <3> HIDE DEF hit, n, t, m
    <3> QED BY <2>2, <2>3, <2>4
  <2> QED BY <1>2, <1>5, <2>1, <2>5
<1>6. CASE ~(y \in others /\ fd[e][y] = c) /\ ~(y = g /\ fd[e][y] = c)
  <2>1. t = lane /\ hit = 0
    BY <1>6 DEF Taken
  <2> QED BY <1>1, <2>1
<1> QED BY <1>4, <1>5, <1>6

LEMMA SendCount ==
    ASSUME Typed, NEW e \in Programs, NEW y \in Programs \ {e}, NEW others, NEW out \in Seq(Packets),
           SendLanes(e, y, others, out), NEW set
    PROVE  Cnt(e, y, set)' <= Cnt(e, y, set) + Count(out, set)
<1> DEFINE a == L1(e, y)
           b == L2(e, y)
           c == L3(e, y)
           n == Count(out, set)
<1>1. a \in Seq(Packets) /\ b \in Seq(Packets) /\ c \in Seq(Packets)
  BY LanesTyped
<1>2. <<e, y>> # <<y, e>> /\ <<e, y>> # NoConnection /\ <<y, e>> # NoConnection
  BY DEF NoConnection
<1>3. /\ L1(e, y)' \in {a, a \o out} /\ L2(e, y)' \in {b, b \o out} /\ L3(e, y)' \in {c, c \o out, <<>>}
      /\ L1(e, y)' = a \/ L2(e, y)' = b
      /\ (L1(e, y)' = a /\ L2(e, y)' = b) \/ L3(e, y)' = <<>>
  BY <1>2 DEF SendLanes, Reaches
<1> HIDE DEF a, b, c
<1>4. /\ Count(a, set) \in Nat /\ Count(b, set) \in Nat /\ Count(c, set) \in Nat /\ n \in Nat
      /\ Count(<<>>, set) = 0
      /\ Count(a \o out, set) = Count(a, set) + n /\ Count(b \o out, set) = Count(b, set) + n
      /\ Count(c \o out, set) = Count(c, set) + n
  BY <1>1, CountBasics, CountConcat
<1>5. Cnt(e, y, set) = Count(a, set) + Count(b, set) + Count(c, set)
  BY DEF Cnt, a, b, c
<1>6. Cnt(e, y, set)' = Count(L1(e, y)', set) + Count(L2(e, y)', set) + Count(L3(e, y)', set)
  BY DEF Cnt
<1> HIDE DEF n
<1>7. Count(L1(e, y)', set) \in {Count(a, set), Count(a, set) + n}
  BY <1>3, <1>4
<1>8. Count(L2(e, y)', set) \in {Count(b, set), Count(b, set) + n}
  BY <1>3, <1>4
<1>9. Count(L3(e, y)', set) \in {Count(c, set), Count(c, set) + n, 0}
  BY <1>3, <1>4
<1>10. /\ Count(L1(e, y)', set) = Count(a, set) \/ Count(L2(e, y)', set) = Count(b, set)
       /\ (Count(L1(e, y)', set) = Count(a, set) /\ Count(L2(e, y)', set) = Count(b, set))
           \/ Count(L3(e, y)', set) = 0
  BY <1>3, <1>4
<1>11. Cnt(e, y, set)' <= Cnt(e, y, set) + n
  BY <1>4, <1>5, <1>6, <1>7, <1>8, <1>9, <1>10
<1> QED BY <1>11 DEF n

LEMMA ReceiveCount ==
    ASSUME Typed, NEW e \in Programs, NEW y \in Programs \ {e}, NEW g, NEW others,
           ReceiveLanes(e, y, g, others), NEW set, y = g => Gets(e, g)
    PROVE  Cnt(y, e, set)' + (IF y = g /\ Arrived(e, g) \in set THEN 1 ELSE 0) <= Cnt(y, e, set)
<1> DEFINE a == L1(y, e)
           b == L2(y, e)
           c == L3(y, e)
           p == Taken(e, y, g, others, <<y, e>>, a)
           q == Taken(e, y, g, others, <<e, y>>, b)
           h1 == IF y = g /\ fd[e][y] = <<y, e>> /\ Head(a) \in set THEN 1 ELSE 0
           h2 == IF y = g /\ fd[e][y] = <<e, y>> /\ Head(b) \in set THEN 1 ELSE 0
           h == IF y = g /\ Arrived(e, g) \in set THEN 1 ELSE 0
<1>1. a \in Seq(Packets) /\ b \in Seq(Packets) /\ c \in Seq(Packets)
  BY LanesTyped
<1>2. L1(y, e)' = p /\ L2(y, e)' = q /\ L3(y, e)' = c
  BY DEF ReceiveLanes
<1>3. y = g => fd[e][y] \in {<<e, y>>, <<y, e>>}
  BY FdShape DEF Gets
<1>4. h <= h1 + h2 /\ h \in Nat /\ h1 \in Nat /\ h2 \in Nat
  <2>1. y = g /\ fd[e][y] = <<y, e>> => Arrived(e, g) = Head(a)
    BY DEF Arrived, L1
  <2>2. y = g /\ fd[e][y] = <<e, y>> => Arrived(e, g) = Head(b)
    BY DEF Arrived, L2
  <2> QED BY <1>3, <2>1, <2>2
<1>5. /\ y = g /\ fd[e][y] = <<y, e>> => a # <<>>
      /\ y = g /\ fd[e][y] = <<e, y>> => b # <<>>
  BY DEF Gets, L1, L2
<1> HIDE DEF a, b, c
<1>6. Count(p, set) + h1 <= Count(a, set) /\ p \in Seq(Packets)
  BY <1>1, <1>5, TakenCount
<1>7. Count(q, set) + h2 <= Count(b, set) /\ q \in Seq(Packets)
  BY <1>1, <1>5, TakenCount
<1>8. Cnt(y, e, set) = Count(a, set) + Count(b, set) + Count(c, set)
  BY DEF Cnt, a, b, c
<1>9. Cnt(y, e, set)' = Count(p, set) + Count(q, set) + Count(c, set)
  BY <1>2 DEF Cnt
<1> HIDE DEF p, q, h1, h2, h
<1>10. /\ Count(a, set) \in Nat /\ Count(b, set) \in Nat /\ Count(c, set) \in Nat
       /\ Count(p, set) \in Nat /\ Count(q, set) \in Nat
  BY <1>1, <1>6, <1>7, CountBasics
<1>11. Cnt(y, e, set)' + h <= Cnt(y, e, set)
  BY <1>4, <1>6, <1>7, <1>8, <1>9, <1>10
<1> QED BY <1>11 DEF h

LEMMA MoveFlow ==
    ASSUME Typed, NEW e \in Programs, NEW g \in Programs, NEW others, NEW out, Move(e, g, others, out)
    PROVE  Flow(e, g, out)
<1> SUFFICES ASSUME NEW x \in Programs, NEW y \in Programs \ {x}, NEW set
             PROVE  Cnt(x, y, set)' + (IF y = e /\ x = g /\ Arrived(e, g) \in set THEN 1 ELSE 0)
                        <= Cnt(x, y, set) + (IF x = e THEN Count(out[y], set) ELSE 0)
  BY DEF Flow
<1>1. Cnt(x, y, set) \in Nat
  BY LanesTyped
<1>2. CASE x # e /\ y # e
  <2>1. SameLanes(x, y)
    BY <1>2 DEF Move
  <2>2. Cnt(x, y, set)' = Cnt(x, y, set)
    BY <2>1 DEF SameLanes, Cnt
  <2> QED BY <1>1, <1>2, <2>2
<1>3. CASE x = e
  <2>1. out[y] \in Seq(Packets) /\ SendLanes(e, y, others, out[y])
    BY <1>3, LettersOf DEF Move
  <2>2. Cnt(e, y, set)' <= Cnt(e, y, set) + Count(out[y], set)
    BY <1>3, <2>1, SendCount
  <2>3. Cnt(e, y, set)' = Cnt(x, y, set)'
    BY <1>3
  <2>4. L1(e, y)' \in Seq(Packets) /\ L2(e, y)' \in Seq(Packets) /\ L3(e, y)' \in Seq(Packets)
    <3>1. L1(e, y) \in Seq(Packets) /\ L2(e, y) \in Seq(Packets) /\ L3(e, y) \in Seq(Packets)
      BY <1>3, LanesTyped
    <3>2. <<>> \in Seq(Packets)
      OBVIOUS
    <3>3. \A s, t \in Seq(Packets) : s \o t \in Seq(Packets)
      OBVIOUS
    <3> QED BY <2>1, <3>1, <3>2, <3>3 DEF SendLanes
  <2>5. Cnt(x, y, set)' \in Nat
    <3>1. /\ Count(L1(e, y)', set) \in Nat /\ Count(L2(e, y)', set) \in Nat /\ Count(L3(e, y)', set) \in Nat
      BY <2>4, CountBasics
    <3> QED BY <1>3, <3>1 DEF Cnt
  <2> QED BY <1>3, <2>2, <2>3, <2>5
<1>4. CASE y = e
  <2>1. ReceiveLanes(e, x, g, others) /\ (x = g => Gets(e, g))
    BY <1>4 DEF Move
  <2>2. Cnt(x, e, set)' + (IF x = g /\ Arrived(e, g) \in set THEN 1 ELSE 0) <= Cnt(x, e, set)
    BY <1>4, <2>1, ReceiveCount
  <2> QED BY <1>1, <1>4, <2>2
<1> QED BY <1>2, <1>3, <1>4

--------------------------------------------------------------------------------
(* The handlers are moves.                                                     *)

LEMMA PairTypes ==
    ASSUME NEW x \in Programs, NEW y \in Programs \ {x}
    PROVE  /\ <<x, y>> \in Connections /\ <<y, x>> \in Connections
           /\ x \in Ends(<<x, y>>) /\ y \in Ends(<<x, y>>) /\ x \in Ends(<<y, x>>) /\ y \in Ends(<<y, x>>)
           /\ <<x, y>> # <<y, x>> /\ NoConnection # <<x, y>> /\ NoConnection # <<y, x>>
           /\ \A e : e \in Ends(<<x, y>>) <=> e = x \/ e = y
           /\ \A e : e \in Ends(<<y, x>>) <=> e = x \/ e = y
BY ConnectionTypes DEF NoConnection

LEMMA FinishMove ==
    ASSUME Typed, NEW e \in Programs, e \notin gone, NEW step \in Steps, Finish(e, step),
           gone' = gone, crossed' = crossed
    PROVE  Move(e, e, {}, step.to) /\ PeersStep(e, step.peers)
<1>0. step.to \in Letters
  BY DEF Steps
<1>1. Finished(e, step)
  BY FinishShape
<1>2. ASSUME NEW y \in Programs \ {e}
      PROVE  SendLanes(e, y, {}, step.to[y]) /\ ReceiveLanes(e, y, e, {})
  <2>1. /\ <<e, y>> \in Connections /\ <<y, e>> \in Connections
        /\ e \in Ends(<<e, y>>) /\ y \in Ends(<<e, y>>) /\ e \in Ends(<<y, e>>) /\ y \in Ends(<<y, e>>)
    BY PairTypes
  <2>2. L1(e, y)' = IF Reaches(e, y, <<e, y>>) THEN L1(e, y) \o step.to[y] ELSE L1(e, y)
    BY <1>1, <2>1 DEF Finished, L1, Reaches
  <2>3. L2(e, y)' = IF Reaches(e, y, <<y, e>>) THEN L2(e, y) \o step.to[y] ELSE L2(e, y)
    BY <1>1, <2>1 DEF Finished, L2, Reaches
  <2>4. L3(e, y)' = IF fd[e][y] = NoConnection THEN L3(e, y) \o step.to[y] ELSE <<>>
    BY <1>1 DEF Finished, L3
  <2>5. L1(y, e)' = L1(y, e) /\ L2(y, e)' = L2(y, e) /\ L3(y, e)' = L3(y, e)
    BY <1>1, <2>1 DEF Finished, L1, L2, L3
  <2> QED BY <2>2, <2>3, <2>4, <2>5 DEF SendLanes, ReceiveLanes, Taken
<1>3. ASSUME NEW x \in Programs \ {e}, NEW y \in Programs \ {e, x} PROVE SameLanes(x, y)
  <2>1. /\ <<x, y>> \in Connections /\ <<y, x>> \in Connections /\ y \in Ends(<<x, y>>) /\ y \in Ends(<<y, x>>)
        /\ e \notin Ends(<<x, y>>) /\ e \notin Ends(<<y, x>>)
    BY PairTypes
  <2> QED BY <1>1, <2>1 DEF Finished, SameLanes, L1, L2, L3
<1> QED BY <1>0, <1>1, <1>2, <1>3 DEF Move, Finished

LEMMA ReceiveMove ==
    ASSUME Typed, NEW e \in Programs, e \notin gone, NEW g \in Programs \ {e}, Gets(e, g),
           NEW step \in Steps, FinishReceive(e, g, step), gone' = gone, crossed' = crossed
    PROVE  Move(e, g, {}, step.to) /\ PeersStep(e, step.peers)
<1>0. step.to \in Letters
  BY DEF Steps
<1>1. Received(e, g, step)
  BY FinishReceiveShape DEF Gets
<1>4. /\ Rest(e, g)[fd[e][g]][e] = Tail(wire[fd[e][g]][e])
      /\ \A c \in Connections : \A x \in Ends(c) :
             (c # fd[e][g] \/ x # e) => Rest(e, g)[c][x] = wire[c][x]
  BY RestShape DEF Gets
<1>2. ASSUME NEW y \in Programs \ {e}
      PROVE  SendLanes(e, y, {}, step.to[y]) /\ ReceiveLanes(e, y, g, {})
  <2>1. /\ <<e, y>> \in Connections /\ <<y, e>> \in Connections
        /\ e \in Ends(<<e, y>>) /\ y \in Ends(<<e, y>>) /\ e \in Ends(<<y, e>>) /\ y \in Ends(<<y, e>>)
    BY PairTypes
  <2>2. L1(e, y)' = IF Reaches(e, y, <<e, y>>) THEN L1(e, y) \o step.to[y] ELSE L1(e, y)
    BY <1>1, <1>4, <2>1 DEF Received, L1, Reaches
  <2>3. L2(e, y)' = IF Reaches(e, y, <<y, e>>) THEN L2(e, y) \o step.to[y] ELSE L2(e, y)
    BY <1>1, <1>4, <2>1 DEF Received, L2, Reaches
  <2>4. L3(e, y)' = IF fd[e][y] = NoConnection THEN L3(e, y) \o step.to[y] ELSE <<>>
    BY <1>1 DEF Received, L3
  <2>5. L1(y, e)' = Rest(e, g)[<<y, e>>][e] /\ L2(y, e)' = Rest(e, g)[<<e, y>>][e] /\ L3(y, e)' = L3(y, e)
    BY <1>1, <2>1 DEF Received, L1, L2, L3
  <2>6. fd[e][g] \in {<<e, g>>, <<g, e>>}
    BY FdShape DEF Gets
  <2>7. y # g => <<y, e>> # fd[e][g] /\ <<e, y>> # fd[e][g]
    BY <2>6
  <2>8. L1(y, e)' = IF y = g /\ fd[e][y] = <<y, e>> THEN Tail(L1(y, e)) ELSE L1(y, e)
    BY <1>4, <2>1, <2>5, <2>7 DEF L1
  <2>9. L2(y, e)' = IF y = g /\ fd[e][y] = <<e, y>> THEN Tail(L2(y, e)) ELSE L2(y, e)
    BY <1>4, <2>1, <2>5, <2>7 DEF L2
  <2> QED BY <2>2, <2>3, <2>4, <2>5, <2>8, <2>9 DEF SendLanes, ReceiveLanes, Taken
<1>3. ASSUME NEW x \in Programs \ {e}, NEW y \in Programs \ {e, x} PROVE SameLanes(x, y)
  <2>1. /\ <<x, y>> \in Connections /\ <<y, x>> \in Connections /\ y \in Ends(<<x, y>>) /\ y \in Ends(<<y, x>>)
        /\ e \notin Ends(<<x, y>>) /\ e \notin Ends(<<y, x>>)
    BY PairTypes
  <2> QED BY <1>1, <1>4, <2>1 DEF Received, SameLanes, L1, L2, L3
<1> QED BY <1>0, <1>1, <1>2, <1>3 DEF Move, Received

\* A farewell: e closes the connections to some programs that it sends nothing.
LEMMA ForgetMove ==
    ASSUME Typed, NEW e \in Programs, e \notin gone, NEW g \in Programs, g # e => Gets(e, g),
           NEW player \in Slots, NEW step \in Steps,
           ForgetPlayer(e, player, IF g = e THEN wire ELSE Rest(e, g), step),
           \A y \in Reached(peers[e][player].endpoint) : step.to[y] = <<>>,
           gone' = gone, crossed' = crossed
    PROVE  /\ Move(e, g, Reached(peers[e][player].endpoint), step.to)
           /\ PeersStep(e, [step.peers EXCEPT ![player] = NoPeer])
<1> DEFINE wires == IF g = e THEN wire ELSE Rest(e, g)
           others == Reached(peers[e][player].endpoint)
           closed == ClosedWires(e, others, wires)
<1>0. step.to \in Letters
  BY DEF Steps
<1>5. IsWires(wires)
  BY RestShape DEF Gets, Typed
<1>4. /\ g # e => wires[fd[e][g]][e] = Tail(wire[fd[e][g]][e])
      /\ \A c \in Connections : \A x \in Ends(c) :
             (g = e \/ c # fd[e][g] \/ x # e) => wires[c][x] = wire[c][x]
  BY RestShape DEF Gets
<1> HIDE DEF wires
<1>1. Forgot(e, player, wires, step)
  BY <1>5, ForgetShape DEF wires
<1>6. Closes(e, others, wires)
  BY <1>5, ClosedShape
<1>7. fd' = ClosedFds(e, others) /\ backlog' = backlog
  BY <1>1 DEF Forgot
<1>8. /\ \A f \in Programs : fd'[e][f] = IF f \in others THEN NoConnection ELSE fd[e][f]
      /\ \A x \in Programs \ {e} : fd'[x] = fd[x]
  BY <1>6, <1>7 DEF Closes
<1>9. \A c \in Connections : \A f \in Ends(c) : closed[c][f] =
          IF f = e /\ \E h \in others : fd[e][h] = c THEN <<>> ELSE wires[c][f]
  BY <1>6 DEF Closes
<1>10. \A c \in Connections : \A f \in Ends(c) : wire'[c][f] =
           IF f # e /\ e \in Ends(c) /\ fd'[e][f] = c /\ (fd'[f][e] = c \/ c \in backlog)
           THEN closed[c][f] \o step.to[f] ELSE closed[c][f]
  BY <1>1 DEF Forgot
<1>11. /\ \A f \in Programs : send_queue'[e][f] =
              IF fd'[e][f] = NoConnection THEN ClosedQueues(e, others)[e][f] \o step.to[f] ELSE <<>>
       /\ \A x \in Programs \ {e} : send_queue'[x] = send_queue[x]
  BY <1>1 DEF Forgot
<1>12. \A f \in Programs : ClosedQueues(e, others)[e][f] = IF f \in others THEN <<>> ELSE send_queue[e][f]
  BY <1>6 DEF Closes
<1>13. ASSUME NEW f \in Programs \ {e}, NEW h \in others, fd[e][h] \in {<<e, f>>, <<f, e>>} PROVE h = f
  <2>1. h \in Programs
    BY DEF Reached
  <2>2. <<e, f>> # NoConnection /\ <<f, e>> # NoConnection
    BY PairTypes
  <2>3. fd[e][h] \in {<<e, h>>, <<h, e>>}
    BY <1>13, <2>1, <2>2, FdShape
  <2>4. \A a, b, c, d : <<a, b>> = <<c, d>> => a = c /\ b = d
    BY ConnectionTypes
  <2> HIDE DEF others
  <2> QED BY <1>13, <2>3, <2>4
<1>14. \A f \in others : step.to[f] = <<>>
  OBVIOUS
<1> HIDE DEF others, closed
<1>2. ASSUME NEW y \in Programs \ {e}
      PROVE  SendLanes(e, y, others, step.to[y]) /\ ReceiveLanes(e, y, g, others)
  <2>1. /\ <<e, y>> \in Connections /\ <<y, e>> \in Connections
        /\ e \in Ends(<<e, y>>) /\ y \in Ends(<<e, y>>) /\ e \in Ends(<<y, e>>) /\ y \in Ends(<<y, e>>)
        /\ <<e, y>> # NoConnection /\ <<y, e>> # NoConnection
    BY PairTypes
  <2>2. L1(e, y)' = IF y \notin others /\ Reaches(e, y, <<e, y>>) THEN L1(e, y) \o step.to[y] ELSE L1(e, y)
    BY <1>4, <1>8, <1>9, <1>10, <2>1 DEF L1, Reaches
  <2>3. L2(e, y)' = IF y \notin others /\ Reaches(e, y, <<y, e>>) THEN L2(e, y) \o step.to[y] ELSE L2(e, y)
    BY <1>4, <1>8, <1>9, <1>10, <2>1 DEF L2, Reaches
  <2>4. L3(e, y)' = IF y \in others THEN <<>>
                    ELSE IF fd[e][y] = NoConnection THEN L3(e, y) \o step.to[y] ELSE <<>>
    <3>1. <<>> \o <<>> = <<>>
      OBVIOUS
    <3> QED BY <1>8, <1>11, <1>12, <1>14, <3>1 DEF L3
  <2>5. L1(y, e)' = closed[<<y, e>>][e] /\ L2(y, e)' = closed[<<e, y>>][e] /\ L3(y, e)' = L3(y, e)
    BY <1>10, <1>11, <2>1 DEF L1, L2, L3
  <2>6. /\ closed[<<y, e>>][e] = IF y \in others /\ fd[e][y] = <<y, e>> THEN <<>> ELSE wires[<<y, e>>][e]
        /\ closed[<<e, y>>][e] = IF y \in others /\ fd[e][y] = <<e, y>> THEN <<>> ELSE wires[<<e, y>>][e]
    BY <1>9, <1>13, <2>1
  <2>7. g # e => fd[e][g] \in {<<e, g>>, <<g, e>>}
    BY FdShape DEF Gets
  <2>8. /\ wires[<<y, e>>][e] = IF y = g /\ fd[e][y] = <<y, e>> THEN Tail(L1(y, e)) ELSE L1(y, e)
        /\ wires[<<e, y>>][e] = IF y = g /\ fd[e][y] = <<e, y>> THEN Tail(L2(y, e)) ELSE L2(y, e)
    BY <1>4, <2>1, <2>7 DEF L1, L2
  <2> QED BY <2>2, <2>3, <2>4, <2>5, <2>6, <2>8 DEF SendLanes, ReceiveLanes, Taken
<1>3. ASSUME NEW x \in Programs \ {e}, NEW y \in Programs \ {e, x} PROVE SameLanes(x, y)
  <2>1. /\ <<x, y>> \in Connections /\ <<y, x>> \in Connections /\ y \in Ends(<<x, y>>) /\ y \in Ends(<<y, x>>)
        /\ e \notin Ends(<<x, y>>) /\ e \notin Ends(<<y, x>>)
    BY PairTypes
  <2> QED BY <1>4, <1>9, <1>10, <1>11, <2>1 DEF SameLanes, L1, L2, L3
<1>15. PeersStep(e, [step.peers EXCEPT ![player] = NoPeer])
  BY <1>1 DEF Forgot
<1>16. Move(e, g, others, step.to)
  BY <1>0, <1>2, <1>3, <1>7, <1>8, <1>14 DEF Move
<1> QED BY <1>15, <1>16 DEF others

--------------------------------------------------------------------------------
(* What is flying.                                                             *)

\* A set that covers all that is on some lanes.
LEMMA CountThree ==
    ASSUME NEW a \in Seq(Packets), NEW b \in Seq(Packets), NEW c \in Seq(Packets), NEW set
    PROVE  /\ Count(a, set) + Count(b, set) + Count(c, set) > 0
                  => \E p \in Packets : p \in set /\ Count(a, {p}) + Count(b, {p}) + Count(c, {p}) > 0
           /\ \A p \in Packets : p \in set /\ Count(a, {p}) + Count(b, {p}) + Count(c, {p}) > 0
                  => Count(a, set) + Count(b, set) + Count(c, set) > 0
<1>1. \A s : Count(a, s) \in Nat /\ Count(b, s) \in Nat /\ Count(c, s) \in Nat
  BY CountBasics
<1>2. ASSUME Count(a, set) + Count(b, set) + Count(c, set) > 0
      PROVE  \E p \in Packets : p \in set /\ Count(a, {p}) + Count(b, {p}) + Count(c, {p}) > 0
  <2>1. Count(a, set) > 0 \/ Count(b, set) > 0 \/ Count(c, set) > 0
    BY <1>1, <1>2
  <2>2. \E p \in Packets : p \in set /\ (Count(a, {p}) > 0 \/ Count(b, {p}) > 0 \/ Count(c, {p}) > 0)
    BY <2>1, CountWitness
  <2>3. PICK p \in Packets : p \in set /\ (Count(a, {p}) > 0 \/ Count(b, {p}) > 0 \/ Count(c, {p}) > 0)
    BY <2>2
  <2>4. Count(a, {p}) \in Nat /\ Count(b, {p}) \in Nat /\ Count(c, {p}) \in Nat
    BY <1>1
  <2>5. Count(a, {p}) + Count(b, {p}) + Count(c, {p}) > 0
    BY <2>3, <2>4
  <2> QED BY <2>3, <2>5
<1>3. ASSUME NEW p \in Packets, p \in set, Count(a, {p}) + Count(b, {p}) + Count(c, {p}) > 0
      PROVE  Count(a, set) + Count(b, set) + Count(c, set) > 0
  <2>0. {p} \cap Packets \subseteq set
    BY <1>3
  <2>1. Count(a, {p}) <= Count(a, set)
    BY <2>0, CountWithin
  <2>2. Count(b, {p}) <= Count(b, set)
    BY <2>0, CountWithin
  <2>3. Count(c, {p}) <= Count(c, set)
    BY <2>0, CountWithin
  <2>4. /\ Count(a, {p}) \in Nat /\ Count(b, {p}) \in Nat /\ Count(c, {p}) \in Nat
        /\ Count(a, set) \in Nat /\ Count(b, set) \in Nat /\ Count(c, set) \in Nat
    BY <1>1
  <2> QED BY <1>3, <2>1, <2>2, <2>3, <2>4
<1> QED BY <1>2, <1>3

LEMMA FlyingIn ==
    ASSUME Typed, NEW m \in Programs, NEW x \in Programs \ {m}, NEW set
    PROVE  Cnt(m, x, set) > 0 <=> \E p \in Flying(m, x) : p \in set
<1> DEFINE a == L1(m, x)
           b == L2(m, x)
           c == L3(m, x)
<1>1. a \in Seq(Packets) /\ b \in Seq(Packets) /\ c \in Seq(Packets)
  BY LanesTyped
<1>2. \A s : Cnt(m, x, s) = Count(a, s) + Count(b, s) + Count(c, s)
  BY DEF Cnt
<1> HIDE DEF a, b, c
<1>3. /\ Count(a, set) + Count(b, set) + Count(c, set) > 0
             => \E p \in Packets : p \in set /\ Count(a, {p}) + Count(b, {p}) + Count(c, {p}) > 0
      /\ \A p \in Packets : p \in set /\ Count(a, {p}) + Count(b, {p}) + Count(c, {p}) > 0
             => Count(a, set) + Count(b, set) + Count(c, set) > 0
  BY <1>1, CountThree
<1>4. \A p : p \in Flying(m, x) <=> p \in Packets /\ Count(a, {p}) + Count(b, {p}) + Count(c, {p}) > 0
  BY <1>2 DEF Flying
<1>5. Cnt(m, x, set) = Count(a, set) + Count(b, set) + Count(c, set)
  BY <1>2
<1> QED BY <1>3, <1>4, <1>5

LEMMA FlyingAfter ==
    ASSUME Typed', NEW m \in Programs, NEW x \in Programs \ {m}, NEW set
    PROVE  Cnt(m, x, set)' > 0 <=> \E p \in Flying(m, x)' : p \in set
<1> DEFINE a == L1(m, x)'
           b == L2(m, x)'
           c == L3(m, x)'
<1>1. a \in Seq(Packets) /\ b \in Seq(Packets) /\ c \in Seq(Packets)
  BY LanesTypedAfter
<1>2. \A s : Cnt(m, x, s)' = Count(a, s) + Count(b, s) + Count(c, s)
  BY DEF Cnt
<1>4. \A p : p \in Flying(m, x)' <=> p \in Packets /\ Count(a, {p}) + Count(b, {p}) + Count(c, {p}) > 0
  BY <1>2 DEF Flying
<1> HIDE DEF a, b, c
<1>3. /\ Count(a, set) + Count(b, set) + Count(c, set) > 0
             => \E p \in Packets : p \in set /\ Count(a, {p}) + Count(b, {p}) + Count(c, {p}) > 0
      /\ \A p \in Packets : p \in set /\ Count(a, {p}) + Count(b, {p}) + Count(c, {p}) > 0
             => Count(a, set) + Count(b, set) + Count(c, set) > 0
  BY <1>1, CountThree
<1>5. Cnt(m, x, set)' = Count(a, set) + Count(b, set) + Count(c, set)
  BY <1>2
<1> QED BY <1>3, <1>4, <1>5

\* Kinds of packets.
LEMMA Kinds ==
    /\ Accepts \cap Game = {} /\ Requests \cap Game = {} /\ Accepts \cap Requests = {}
    /\ \A e : Connects(e) \cap Game = {} /\ Connects(e) \cap Accepts = {} /\ Connects(e) \cap Requests = {}
    /\ TurnPackets \subseteq Held /\ Farewells \subseteq Held /\ Held = TurnPackets \cup Farewells
    /\ TurnPackets \cap Farewells = {} /\ Held \subseteq Game /\ Game \subseteq Packets
    /\ Accepts \subseteq Packets /\ Requests \subseteq Packets /\ \A e : Connects(e) \subseteq Packets
    /\ \A p \in Game \cup Requests \cup Accepts : p.type # "PT_CONNECT"
    /\ \A p \in Game : p.type \in EchoTypes <=> p \notin Held
BY DEF Accepts, Game, Requests, Connects, TurnPackets, Farewells, Held, EchoTypes

--------------------------------------------------------------------------------
(* Talk: what most steps of a program do to the players that it knows, and     *)
(* what it may send.                                                           *)

Alone(e) == \A x \in Programs \ {e} :
    /\ peers'[x] = peers[x] /\ plr_self'[x] = plr_self[x] /\ firstpeer'[x] = firstpeer[x]
    /\ isConnected'[x] = isConnected[x] /\ awaiting'[x] = awaiting[x] /\ sent'[x] = sent[x]
    /\ got'[x] = got[x] /\ taken'[x] = taken[x]

\* The slot of h, which e hears of from g.
LearntAt(e, g, h, i) ==
    /\ g # e /\ Arrived(e, g) \in News(g, h)
    /\ i = IF Arrived(e, g) \in Accepts THEN Arrived(e, g).src ELSE Arrived(e, g).player
Learns(e, g) == \A i \in Slots, h \in Programs :
    KnowsAt(e, h, i)' => KnowsAt(e, h, i) \/ LearntAt(e, g, h, i)

Table(e) == \A i \in Slots :
    /\ peers'[e][i].endpoint = NoEndpoint => peers'[e][i] = NoPeer
    /\ ~ peers'[e][i].queued => peers'[e][i].sendQueue = <<>>
    /\ peers'[e][i].endpoint # NoEndpoint => i \in isConnected'[e]
    /\ peers'[e][i].sendQueue \in Seq(HeldFor(e, i)')

Joins(e, g) == /\ g # e /\ Arrived(e, g) \in Accepts /\ firstpeer[e] = <<g>>
               /\ plr_self'[e] = Arrived(e, g).player /\ firstpeer'[e] = NoEndpoint
Self(e, g, extra) ==
    /\ \/ plr_self'[e] = plr_self[e] /\ firstpeer'[e] = firstpeer[e]
       \/ plr_self'[e] = plr_self[e] /\ extra # {}
       \/ Joins(e, g)
    /\ extra \in {{}, Requests} /\ (extra # {} => Fresh(e) /\ g = e)
    /\ awaiting'[e] => awaiting[e]
    /\ ~ Joined(e)' => awaiting'[e]
    /\ g # e /\ Arrived(e, g) \in Accepts => Joins(e, g)
    /\ \A y \in Programs \ {e} : \/ got'[e][y] = got[e][y] \/ got'[e][y] = 0
                                 \/ y = g /\ Arrived(e, g) \in TurnPackets

\* What e may send to y.
GoodFor(e, y) == {p \in Game : \E i \in Slots : /\ KnowsAt(e, y, i) /\ Proper(e, i, p)
                                                /\ p \in Held => ~ peers[e][i].queued}
Says(e, out, extra) == \A y \in Programs \ {e} : out[y] \in Seq(GoodFor(e, y)' \cup extra)

Talk(e, g, out, extra) ==
    /\ e \notin gone /\ gone \subseteq gone' /\ Alone(e) /\ Learns(e, g) /\ Table(e) /\ Self(e, g, extra)
    /\ Flow(e, g, out) /\ Says(e, out, extra) /\ (g # e => Gets(e, g))

LEMMA TalkFlow ==
    ASSUME Typed, Typed', NEW e \in Programs, NEW g \in Programs, NEW out, NEW extra,
           Talk(e, g, out, extra), NEW x \in Programs, NEW y \in Programs \ {x}
    PROVE  /\ \A set : (\/ x # e \/ set \cap (Game \cup Requests) = {}
                      \/ set \cap (GoodFor(e, y)' \cup extra) = {}) =>
                  Cnt(x, y, set)' + (IF y = e /\ x = g /\ Arrived(e, g) \in set THEN 1 ELSE 0)
                      <= Cnt(x, y, set)
           /\ \A p \in Flying(x, y)' : p \in Flying(x, y) \/ (x = e /\ p \in GoodFor(e, y)' \cup extra)
           /\ y = e /\ x = g => Arrived(e, g) \in Flying(x, y)
<1>1. \A set : Cnt(x, y, set)' + (IF y = e /\ x = g /\ Arrived(e, g) \in set THEN 1 ELSE 0)
                   <= Cnt(x, y, set) + (IF x = e THEN Count(out[y], set) ELSE 0)
  BY DEF Talk, Flow
<1>2. \A set : Cnt(x, y, set) \in Nat /\ Cnt(x, y, set)' \in Nat
  BY LanesTyped, LanesTypedAfter
<1>3. GoodFor(e, y)' \cup extra \in SUBSET Packets /\ GoodFor(e, y)' \cup extra \subseteq Game \cup Requests
  BY Kinds DEF GoodFor, Talk, Self
<1>4. x = e => out[y] \in Seq(GoodFor(e, y)' \cup extra)
  BY DEF Talk, Says
<1> DEFINE S == GoodFor(e, y)' \cup extra
<1> HIDE DEF S
<1>5. \A set : x = e /\ S \cap set = {} => Count(out[y], set) = 0
  BY <1>3, <1>4, CountNone DEF S
<1>6. ASSUME NEW set, \/ x # e \/ set \cap (Game \cup Requests) = {}
                      \/ set \cap (GoodFor(e, y)' \cup extra) = {}
      PROVE  Cnt(x, y, set)' + (IF y = e /\ x = g /\ Arrived(e, g) \in set THEN 1 ELSE 0) <= Cnt(x, y, set)
  <2> DEFINE n == Cnt(x, y, set)'
             m == Cnt(x, y, set)
             h == IF y = e /\ x = g /\ Arrived(e, g) \in set THEN 1 ELSE 0
             k == IF x = e THEN Count(out[y], set) ELSE 0
  <2>1. n + h <= m + k /\ n \in Nat /\ m \in Nat /\ h \in Nat
    BY <1>1, <1>2
  <2>2. k = 0
    <3>1. x = e => S \cap set = {}
      BY <1>3, <1>6 DEF S
    <3> QED BY <1>5, <3>1
  <2> HIDE DEF n, m, h, k
  <2>3. n + h <= m
    BY <2>1, <2>2
  <2> QED BY <2>3 DEF n, m, h
<1>7. ASSUME NEW p \in Flying(x, y)' PROVE p \in Flying(x, y) \/ (x = e /\ p \in GoodFor(e, y)' \cup extra)
  <2>1. p \in Packets /\ Cnt(x, y, {p})' > 0
    BY DEF Flying
  <2> SUFFICES ASSUME ~ (x = e /\ p \in S) PROVE Cnt(x, y, {p}) > 0
    BY <2>1 DEF Flying, S
  <2> DEFINE n == Cnt(x, y, {p})'
             m == Cnt(x, y, {p})
             h == IF y = e /\ x = g /\ Arrived(e, g) \in {p} THEN 1 ELSE 0
             k == IF x = e THEN Count(out[y], {p}) ELSE 0
  <2>2. n + h <= m + k /\ n \in Nat /\ m \in Nat /\ h \in Nat
    BY <1>1, <1>2
  <2>3. k = 0
    BY <1>5
  <2>4. n > 0
    BY <2>1
  <2> HIDE DEF n, m, h, k
  <2>5. m > 0
    BY <2>2, <2>3, <2>4
  <2> QED BY <2>5 DEF m
<1>8. ASSUME y = e, x = g, NEW p, p = Arrived(e, g) PROVE p \in Flying(x, y)
  <2> DEFINE n == Cnt(x, y, {p})'
             m == Cnt(x, y, {p})
             h == IF y = e /\ x = g /\ Arrived(e, g) \in {p} THEN 1 ELSE 0
  <2>1. n + h <= m
    BY <1>6, <1>8
  <2>2. h = 1
    BY <1>8
  <2>3. n \in Nat /\ m \in Nat
    BY <1>2
  <2> HIDE DEF n, m, h
  <2>4. m > 0
    BY <2>1, <2>2, <2>3
  <2>5. p \in Packets
    BY <1>8, RestShape DEF Talk, Gets
  <2> QED BY <2>4, <2>5 DEF Flying, m
<1> QED BY <1>6, <1>7, <1>8

LEMMA NewsKinds ==
    /\ \A m, h : News(m, h) \subseteq Packets /\ News(m, h) \cap (Game \cup Requests) = {}
    /\ \A m, h : \A p \in News(m, h) : p \in Accepts \/ p \in Connects(h)
    /\ \A m, h : \A p \in News(m, h) : p \in Accepts => m = h
    /\ \A h : Accepts \subseteq News(h, h)
    /\ \A m, h : Connects(h) \subseteq News(m, h)
BY Kinds DEF News

LEMMA TalkTold ==
    ASSUME Typed, Typed', NEW e \in Programs, NEW g \in Programs, NEW out, NEW extra,
           Talk(e, g, out, extra), NEW f \in Programs, NEW h \in Programs
    PROVE  /\ \A m \in Programs : Told(m, f, h)' => Told(m, f, h)
           /\ Intro(f, h)' => Intro(f, h)
<1>1. ASSUME NEW m \in Programs, Told(m, f, h)' PROVE Told(m, f, h)
  <2>1. m # f /\ Cnt(m, f, News(m, h))' > 0
    BY <1>1 DEF Told, News
  <2>2. Cnt(m, f, News(m, h))' = Cnt(m, f, News(m, h))'
    OBVIOUS
  <2> DEFINE S == News(m, h)
  <2>3. S \cap (Game \cup Requests) = {}
    BY NewsKinds
  <2>4. Cnt(m, f, S)' > 0
    BY <2>1 DEF News, Connects, Accepts
  <2>5. PICK p \in Flying(m, f)' : p \in S
    BY <2>1, <2>4, FlyingAfter
  <2>6. p \in Flying(m, f)
    <3>1. p \in Flying(m, f) \/ (m = e /\ p \in GoodFor(e, f)' \cup extra)
      BY <2>1, TalkFlow
    <3>2. GoodFor(e, f)' \cup extra \subseteq Game \cup Requests
      BY DEF GoodFor, Talk, Self
    <3> QED BY <2>3, <2>5, <3>1, <3>2
  <2>7. Cnt(m, f, S) > 0
    BY <2>1, <2>5, <2>6, FlyingIn
  <2> QED BY <2>1, <2>7 DEF Told
<1> QED BY <1>1 DEF Intro

\* Whom e hears of, it does not know yet, and nobody else tells e of it.
LEMMA TalkLearns ==
    ASSUME Typed, Typed', InvI, NEW e \in Programs, NEW g \in Programs, NEW out, NEW extra,
           Talk(e, g, out, extra), NEW h \in Programs, NEW i, LearntAt(e, g, h, i)
    PROVE  /\ g # e /\ Arrived(e, g) \in Flying(g, e) /\ Told(g, e, h) /\ Intro(e, h) /\ h # e
           /\ ~ Met(e, h) /\ ~ Intro(e, h)'
<1> DEFINE S == News(g, h)
<1>1. g # e /\ Arrived(e, g) \in S
  BY DEF LearntAt
<1>2. Arrived(e, g) \in Flying(g, e)
  BY <1>1, TalkFlow
<1>3. Cnt(g, e, S) > 0
  BY <1>1, <1>2, FlyingIn
<1>4. Told(g, e, h) /\ Intro(e, h)
  BY <1>1, <1>3 DEF Told, Intro
<1>5. h # e /\ ~ Met(e, h) /\ Cnt(g, e, S) <= 1
  BY <1>1, <1>4 DEF InvI, ToldOnce
<1>6. ~ Intro(e, h)'
  <2> SUFFICES ASSUME Intro(e, h)' PROVE FALSE
    OBVIOUS
  <2>1. PICK m \in Programs : Told(m, e, h)'
    BY DEF Intro
  <2>2. m = g
    <3>1. Told(m, e, h)
      BY <2>1, TalkTold
    <3> QED BY <1>4, <3>1 DEF InvI, ToldOnce
  <2>3. Cnt(g, e, S)' > 0
    BY <2>1, <2>2 DEF Told, News, Connects, Accepts
  <2>4. S \cap (Game \cup Requests) = {}
    BY NewsKinds
  <2> DEFINE n == Cnt(g, e, S)'
             k == Cnt(g, e, S)
             j == IF e = e /\ g = g /\ Arrived(e, g) \in S THEN 1 ELSE 0
  <2>5. n + j <= k
    <3> HIDE DEF S
    <3> QED BY <1>1, <2>4, TalkFlow
  <2>6. j = 1 /\ n > 0 /\ k <= 1
    BY <1>1, <1>5, <2>3
  <2>7. n \in Nat /\ k \in Nat
    BY <1>1, LanesTyped, LanesTypedAfter
  <2> HIDE DEF n, k, j
  <2> QED BY <2>5, <2>6, <2>7
<1> QED BY <1>1, <1>2, <1>4, <1>5, <1>6

LEMMA TalkMet ==
    ASSUME Typed, Typed', InvI, NEW e \in Programs, NEW g \in Programs, NEW out, NEW extra,
           Talk(e, g, out, extra), NEW x \in Programs, NEW y \in Programs
    PROVE  /\ \A i \in Slots : KnowsAt(x, y, i)' =>
                  KnowsAt(x, y, i) \/ (x = e /\ LearntAt(e, g, y, i))
           /\ Met(x, y)' => Met(x, y) \/ (x = e /\ Intro(e, y) /\ ~ Met(e, y) /\ ~ Intro(e, y)')
<1>1. ASSUME NEW i \in Slots, KnowsAt(x, y, i)'
      PROVE  KnowsAt(x, y, i) \/ (x = e /\ LearntAt(e, g, y, i))
  <2>1. CASE x = e
    BY <1>1, <2>1 DEF Talk, Learns
  <2>2. CASE x # e
    BY <1>1, <2>2 DEF Talk, Alone, KnowsAt
  <2> QED BY <2>1, <2>2
<1>2. \A i \in Slots : x = e /\ LearntAt(e, g, y, i) => Intro(e, y) /\ ~ Met(e, y) /\ ~ Intro(e, y)'
  BY TalkLearns
<1> QED BY <1>1, <1>2 DEF Met

LEMMA TalkJoined ==
    ASSUME Typed, Typed', InvK, NEW e \in Programs, NEW g \in Programs, NEW out, NEW extra,
           Talk(e, g, out, extra), NEW x \in Programs
    PROVE  /\ Joined(x) => Joined(x)' /\ plr_self'[x] = plr_self[x] /\ firstpeer'[x] = firstpeer[x]
           /\ Joined(x)' => \/ Joined(x)
                            \/ x = e /\ Joins(e, g)
           /\ x # e => peers'[x] = peers[x] /\ plr_self'[x] = plr_self[x] /\ firstpeer'[x] = firstpeer[x]
                       /\ isConnected'[x] = isConnected[x] /\ awaiting'[x] = awaiting[x]
                       /\ (Joined(x)' <=> Joined(x)) /\ got'[x] = got[x]
<1>1. Joined(x) => firstpeer[x] = NoEndpoint /\ \A f : firstpeer[x] # <<f>>
  BY ConnectionTypes DEF InvK, TableOk
<1>2. x # e => plr_self'[x] = plr_self[x] /\ peers'[x] = peers[x] /\ firstpeer'[x] = firstpeer[x]
               /\ isConnected'[x] = isConnected[x] /\ awaiting'[x] = awaiting[x] /\ got'[x] = got[x]
  BY DEF Talk, Alone
<1>3. x = e => \/ plr_self'[e] = plr_self[e] /\ firstpeer'[e] = firstpeer[e]
               \/ plr_self'[e] = plr_self[e] /\ ~ Joined(e)
               \/ Joins(e, g)
  BY DEF Talk, Self, Fresh
<1>4. Joins(e, g) => ~ Joined(e) \/ x # e
  BY <1>1 DEF Joins
<1> QED BY <1>2, <1>3, <1>4 DEF Joined

LEMMA TalkInvK ==
    ASSUME Typed, Typed', InvK, InvI, NEW e \in Programs, NEW g \in Programs, NEW out, NEW extra,
           Talk(e, g, out, extra)
    PROVE  InvK'
<1> SUFFICES ASSUME NEW x \in Programs PROVE TableOk(x)'
  BY DEF InvK
<1>0. TableOk(x)
  BY DEF InvK
<1>1. CASE x # e
  <2>1. peers'[x] = peers[x] /\ plr_self'[x] = plr_self[x] /\ firstpeer'[x] = firstpeer[x]
        /\ isConnected'[x] = isConnected[x] /\ awaiting'[x] = awaiting[x]
    BY <1>1 DEF Talk, Alone
  <2> QED BY <1>0, <2>1 DEF TableOk, Joined
<1>2. CASE x = e
  <2>0. \A i \in Slots : peers'[e][i].endpoint \in Endpoints
    BY DEF Typed, PeerTables, PeerType
  <2>1. ASSUME NEW i \in Slots, NEW j \in Slots, peers'[e][i].endpoint # NoEndpoint,
               peers'[e][i].endpoint = peers'[e][j].endpoint
        PROVE  i = j
    <3>1. PICK h \in Programs : peers'[e][i].endpoint = <<h>>
      BY <2>0, <2>1 DEF Endpoints
    <3>2. KnowsAt(e, h, i)' /\ KnowsAt(e, h, j)'
      BY <2>1, <3>1 DEF KnowsAt
    <3>3. \A k \in {i, j} : KnowsAt(e, h, k) \/ (LearntAt(e, g, h, k) /\ ~ Met(e, h))
      <4>1. \A k \in Slots : KnowsAt(e, h, k)' => KnowsAt(e, h, k) \/ LearntAt(e, g, h, k)
        BY TalkMet
      <4>2. \A k : LearntAt(e, g, h, k) => ~ Met(e, h)
        BY TalkLearns
      <4> QED BY <3>2, <4>1, <4>2
    <3>4. CASE Met(e, h)
      <4>1. KnowsAt(e, h, i) /\ KnowsAt(e, h, j)
        BY <3>3, <3>4
      <4>2. <<h>> # NoEndpoint /\ peers[e][i].endpoint = <<h>> /\ peers[e][j].endpoint = <<h>>
        BY <4>1, ConnectionTypes DEF KnowsAt
      <4>3. peers[e][i].endpoint # NoEndpoint /\ peers[e][i].endpoint = peers[e][j].endpoint => i = j
        BY <1>0, <1>2 DEF TableOk
      <4> QED BY <4>2, <4>3
    <3>5. CASE ~ Met(e, h)
      <4>1. LearntAt(e, g, h, i) /\ LearntAt(e, g, h, j)
        BY <3>3, <3>5 DEF Met
      <4> QED BY <4>1 DEF LearntAt
    <3> QED BY <3>4, <3>5
  <2>2. ASSUME NEW i \in Slots PROVE peers'[e][i].endpoint # <<e>>
    <3> SUFFICES ASSUME KnowsAt(e, e, i)' PROVE FALSE
      BY DEF KnowsAt
    <3>1. KnowsAt(e, e, i) \/ LearntAt(e, g, e, i)
      BY TalkMet
    <3>2. ~ LearntAt(e, g, e, i)
      BY TalkLearns
    <3> QED BY <1>0, <1>2, <3>1, <3>2 DEF TableOk, KnowsAt
  <2>3. \A i \in Slots :
           /\ peers'[e][i].endpoint = NoEndpoint => peers'[e][i] = NoPeer
           /\ ~ peers'[e][i].queued => peers'[e][i].sendQueue = <<>>
           /\ peers'[e][i].endpoint # NoEndpoint => i \in isConnected'[e]
    BY DEF Talk, Table
  <2>4. ~ Joined(e)' => awaiting'[e]
    BY DEF Talk, Self
  <2>5. Joined(e)' => firstpeer'[e] = NoEndpoint
    <3>1. Joined(e)' => Joined(e) \/ Joins(e, g)
      BY TalkJoined
    <3>2. Joined(e) => firstpeer'[e] = firstpeer[e] /\ firstpeer[e] = NoEndpoint
      BY <1>0, <1>2, TalkJoined DEF TableOk
    <3> QED BY <3>1, <3>2 DEF Joins
  <2>6. TableOk(e)'
    BY <2>1, <2>2, <2>3, <2>4, <2>5 DEF TableOk
  <2> QED BY <1>2, <2>6
<1> QED BY <1>1, <1>2

LEMMA TalkInvI ==
    ASSUME Typed, Typed', InvI, NEW e \in Programs, NEW g \in Programs, NEW out, NEW extra,
           Talk(e, g, out, extra)
    PROVE  InvI'
<1> SUFFICES ASSUME NEW f \in Programs, NEW h \in Programs PROVE ToldOnce(f, h)'
  BY DEF InvI
<1>0. ToldOnce(f, h)
  BY DEF InvI
<1>1. Intro(f, h)' => f # h /\ ~ Met(f, h)'
  BY <1>0, TalkTold, TalkMet DEF ToldOnce
<1>2. ASSUME NEW m \in Programs \ {f} PROVE Cnt(m, f, News(m, h))' <= 1
  <2> DEFINE S == News(m, h)
             n == Cnt(m, f, S)'
             k == Cnt(m, f, S)
             j == IF f = e /\ m = g /\ Arrived(e, g) \in S THEN 1 ELSE 0
  <2>1. n + j <= k
    <3>1. S \cap (Game \cup Requests) = {}
      BY NewsKinds
    <3> HIDE DEF S
    <3> QED BY <3>1, TalkFlow
  <2>2. n \in Nat /\ k \in Nat /\ j \in Nat
    BY LanesTyped, LanesTypedAfter
  <2>3. k <= 1
    BY <1>0 DEF ToldOnce
  <2> HIDE DEF k, j
  <2>4. n <= 1
    <3> HIDE DEF n
    <3> QED BY <2>1, <2>2, <2>3
  <2> QED BY <2>4 DEF News, Connects, Accepts
<1>3. \A m, n \in Programs : Told(m, f, h)' /\ Told(n, f, h)' => m = n
  BY <1>0, TalkTold DEF ToldOnce
<1> QED BY <1>1, <1>2, <1>3 DEF ToldOnce

\* Who is not born before a step is not in it, but for its own request.
LEMMA TalkUnborn ==
    ASSUME Typed, Typed', InvK, InvU, NEW e \in Programs, NEW g \in Programs, NEW out, NEW extra,
           Talk(e, g, out, extra), NEW x \in Programs, Unborn(x)'
    PROVE  /\ Unborn(x) /\ Unknown(x) /\ ~ Joined(x)' /\ (x = e => g = e)
<1>1. ASSUME ~ Joined(x) PROVE ~ Unborn(x) => firstpeer[x] # NoEndpoint
  BY <1>1 DEF Unborn, Fresh
<1>2. Unborn(x)
  <2> SUFFICES ASSUME ~ Unborn(x) PROVE FALSE
    OBVIOUS
  <2>1. ~ Fresh(x) /\ \A m \in Programs \ {x} : ~ (Cnt(x, m, Requests) > 0)
    BY DEF Unborn, Asking
  <2>2. extra = {} \/ x # e
    BY <2>1 DEF Talk, Self
  <2>3. ASSUME NEW m \in Programs \ {x}, Cnt(x, m, Requests)' > 0 PROVE FALSE
    <3>1. PICK p \in Flying(x, m)' : p \in Requests
      BY <2>3, FlyingAfter
    <3>2. p \in Flying(x, m) \/ (x = e /\ p \in GoodFor(e, m)' \cup extra)
      BY TalkFlow
    <3>3. p \in Flying(x, m)
      BY <2>2, <3>1, <3>2, Kinds DEF GoodFor
    <3> QED BY <2>1, <3>1, <3>3, FlyingIn
  <2>4. ~ Asking(x)'
    BY <2>3 DEF Asking, Requests
  <2>5. Fresh(x)'
    BY <2>4 DEF Unborn
  <2>6. ~ Joined(x)' /\ firstpeer'[x] = NoEndpoint
    BY <2>5 DEF Fresh
  <2>7. ~ Joined(x)
    BY <2>6, TalkJoined
  <2>8. firstpeer[x] # NoEndpoint
    BY <2>1, <2>7 DEF Fresh
  <2>9. x = e /\ Joins(e, g)
    BY <2>2, <2>6, <2>8 DEF Talk, Self, Alone
  <2>10. Arrived(e, g).player \in Slots
    BY <2>9, RestShape, KindsOfPackets DEF Talk, Gets, Joins
  <2> QED BY <2>6, <2>9, <2>10 DEF Joins, Joined
<1>3. Unknown(x)
  BY <1>2 DEF InvU
<1>4. x = e => g = e
  <2> SUFFICES ASSUME x = e, g # e PROVE FALSE
    OBVIOUS
  <2>1. Arrived(e, g) \in Flying(g, e) /\ Arrived(e, g) \in Packets
    <3>1. Arrived(e, g) \in Flying(g, e)
      BY TalkFlow
    <3> QED BY <3>1 DEF Flying
  <2>2. Cnt(g, e, Packets) > 0
    BY <2>1, FlyingIn
  <2>3. Cnt(g, x, Packets) = 0
    BY <1>3 DEF Unknown, Strange
  <2> QED BY <2>2, <2>3
<1>5. ~ Joined(x)'
  <2>1. ~ Joined(x)
    BY <1>3 DEF Unknown
  <2> QED BY <1>4, <2>1, TalkJoined DEF Joins
<1> QED BY <1>2, <1>3, <1>4, <1>5

LEMMA TalkInvU ==
    ASSUME Typed, Typed', InvK, InvU, InvI, NEW e \in Programs, NEW g \in Programs, NEW out,
           Talk(e, g, out, {})
    PROVE  InvU'
<1> SUFFICES ASSUME NEW x \in Programs
             PROVE  (Unborn(x)' => Unknown(x)') /\ \A y \in Programs \ {x} : Asked(x, y)'
  BY DEF InvU
<1>1. ASSUME Unborn(x)' PROVE Unknown(x)'
  <2>1. Unborn(x) /\ Unknown(x) /\ ~ Joined(x)' /\ (x = e => g = e)
    BY <1>1, TalkUnborn
  <2>2. ~ LearntAt(e, g, x, 0) /\ \A i : ~ LearntAt(e, g, x, i)
    <3> SUFFICES ASSUME NEW i, LearntAt(e, g, x, i) PROVE FALSE
      OBVIOUS
    <3>1. g # e /\ Arrived(e, g) \in Flying(g, e) /\ Arrived(e, g) \in News(g, x)
      BY TalkLearns DEF LearntAt
    <3>2. CASE Arrived(e, g) \in Connects(x)
      <4>1. Cnt(g, e, Connects(x)) > 0
        BY <3>1, <3>2, FlyingIn
      <4> QED BY <2>1, <3>1, <4>1 DEF Unknown
    <3>3. CASE Arrived(e, g) \in Accepts /\ g = x
      <4>1. Arrived(e, g) \in Packets \ Requests
        BY <3>3, Kinds
      <4>2. Cnt(x, e, Packets \ Requests) > 0
        BY <3>1, <3>3, <4>1, FlyingIn
      <4> QED BY <2>1, <3>1, <3>3, <4>2 DEF Unknown, Strange
    <3> QED BY <3>1, <3>2, <3>3, NewsKinds
  <2>3. \A y \in Programs : Met(y, x)' => Met(y, x)
    BY <2>2, TalkMet DEF Met
  <2>4. \A i \in Slots : peers'[x][i] = NoPeer
    <3>1. CASE x # e
      BY <2>1, <3>1, TalkJoined DEF Unknown
    <3>2. CASE x = e
      <4> SUFFICES ASSUME NEW i \in Slots PROVE peers'[e][i].endpoint = NoEndpoint
        BY <3>2 DEF Talk, Table
      <4>1. peers'[e][i].endpoint \in Endpoints
        BY DEF Typed, PeerTables, PeerType
      <4> SUFFICES ASSUME NEW h \in Programs, KnowsAt(e, h, i)' PROVE FALSE
        BY <4>1 DEF Endpoints, KnowsAt
      <4>2. KnowsAt(e, h, i)
        BY <2>1, <3>2, TalkMet DEF LearntAt
      <4> QED BY <2>1, <3>2, <4>2, ConnectionTypes DEF Unknown, KnowsAt, NoPeer
    <3> QED BY <3>1, <3>2
  <2>5. ASSUME NEW y \in Programs \ {x} PROVE Strange(x, y)'
    <3>0. Strange(x, y)
      BY <2>1 DEF Unknown
    <3>1. \A p : p \notin Flying(y, x)'
      <4> SUFFICES ASSUME NEW p \in Flying(y, x)' PROVE FALSE
        OBVIOUS
      <4>1. p \in Flying(y, x) \/ (y = e /\ p \in GoodFor(e, x)')
        BY TalkFlow
      <4>2. p \notin Flying(y, x)
        <5>1. p \in Flying(y, x) => p \in Packets
          BY DEF Flying
        <5> QED BY <3>0, <5>1, FlyingIn DEF Strange
      <4>3. Met(e, x)'
        BY <4>1, <4>2 DEF GoodFor, Met
      <4> QED BY <2>3, <3>0, <4>1, <4>2, <4>3 DEF Strange
    <3>2. Cnt(y, x, Packets)' = 0
      <4>1. ~ (Cnt(y, x, Packets)' > 0)
        BY <3>1, FlyingAfter
      <4>2. Cnt(y, x, Packets)' \in Nat
        BY LanesTypedAfter
      <4> QED BY <4>1, <4>2
    <3>3. ~ Met(y, x)'
      BY <2>3, <3>0 DEF Strange
    <3>4. got'[y][x] = 0 /\ got'[x][y] = 0
      <4>1. got'[y][x] = 0
        <5>1. CASE y # e
          BY <3>0, <5>1, TalkJoined DEF Strange
        <5>2. CASE y = e
          <6>1. ~ (x = g /\ Arrived(e, g) \in TurnPackets)
            <7> SUFFICES ASSUME x = g, Arrived(e, g) \in TurnPackets PROVE FALSE
              OBVIOUS
            <7>1. Arrived(e, g) \in Flying(x, e) /\ Arrived(e, g) \in Packets \ Requests
              BY <5>2, TalkFlow, Kinds
            <7>2. Cnt(x, y, Packets \ Requests) > 0
              BY <5>2, <7>1, FlyingIn
            <7> QED BY <3>0, <7>2 DEF Strange
          <6> QED BY <3>0, <5>2, <6>1 DEF Talk, Self, Strange
        <5> QED BY <5>1, <5>2
      <4>2. got'[x][y] = 0
        <5>1. CASE x # e
          BY <3>0, <5>1, TalkJoined DEF Strange
        <5>2. CASE x = e
          BY <2>1, <3>0, <5>2 DEF Talk, Self, Strange
        <5> QED BY <5>1, <5>2
      <4> QED BY <4>1, <4>2
    <3>5. x = e => GoodFor(e, y)' = {}
      BY <2>1 DEF GoodFor, Proper
    <3>6. \A p \in Flying(x, y)' : p \in Flying(x, y)
      BY <3>5, TalkFlow
    <3>7. Cnt(x, y, Packets \ Requests)' = 0
      <4>1. ~ (Cnt(x, y, Packets \ Requests)' > 0)
        <5> SUFFICES ASSUME Cnt(x, y, Packets \ Requests)' > 0 PROVE FALSE
          OBVIOUS
        <5> DEFINE S == Packets \ Requests
        <5>1. Cnt(x, y, S)' > 0
          BY DEF Packets, Requests, Slots, PLR_BROADCAST, PLR_MASTER, Endpoints
        <5>2. PICK p \in Flying(x, y)' : p \in S
          <6> HIDE DEF S
          <6> QED BY <5>1, FlyingAfter
        <5>3. Cnt(x, y, S) > 0
          <6> HIDE DEF S
          <6> QED BY <3>6, <5>2, FlyingIn
        <5> QED BY <3>0, <5>3 DEF Strange
      <4>2. Cnt(x, y, Packets \ Requests)' \in Nat
        BY LanesTypedAfter
      <4> QED BY <4>1, <4>2
    <3>8. Cnt(x, y, Requests)' <= 1
      <4> DEFINE n == Cnt(x, y, Requests)'
                 k == Cnt(x, y, Requests)
                 j == IF y = e /\ x = g /\ Arrived(e, g) \in Requests THEN 1 ELSE 0
      <4>1. n + j <= k
        BY <3>5, TalkFlow
      <4>2. n \in Nat /\ k \in Nat /\ j \in Nat
        BY LanesTyped, LanesTypedAfter
      <4>3. k <= 1
        BY <3>0 DEF Strange
      <4> HIDE DEF k, j
      <4>4. n <= 1
        <5> HIDE DEF n
        <5> QED BY <4>1, <4>2, <4>3
      <4> QED BY <4>4
    <3> QED BY <3>2, <3>3, <3>4, <3>7, <3>8 DEF Strange, Requests, Packets, Slots, PLR_BROADCAST, PLR_MASTER, Endpoints
  <2>6. ASSUME NEW m \in Programs, NEW y \in Programs \ {m} PROVE Cnt(m, y, Connects(x))' = 0
    <3> DEFINE S == Connects(x)
               n == Cnt(m, y, S)'
               k == Cnt(m, y, S)
               j == IF y = e /\ m = g /\ Arrived(e, g) \in S THEN 1 ELSE 0
    <3>1. n + j <= k
      <4>1. S \cap (Game \cup Requests) = {}
        BY Kinds
      <4> HIDE DEF S
      <4> QED BY <4>1, TalkFlow
    <3>2. n \in Nat /\ k \in Nat /\ j \in Nat
      BY LanesTyped, LanesTypedAfter
    <3>3. k = 0
      BY <2>1 DEF Unknown
    <3> HIDE DEF k, j
    <3>4. n = 0
      <4> HIDE DEF n
      <4> QED BY <3>1, <3>2, <3>3
    <3> QED BY <3>4 DEF Connects
  <2> QED BY <2>1, <2>4, <2>5, <2>6 DEF Unknown
<1>2. ASSUME NEW y \in Programs \ {x} PROVE Asked(x, y)'
  <2>1. Asked(x, y)
    BY DEF InvU
  <2>2. Cnt(x, y, Requests)' > 0 => firstpeer'[x] = <<y>>
    <3> SUFFICES ASSUME Cnt(x, y, Requests)' > 0 PROVE firstpeer'[x] = <<y>>
      OBVIOUS
    <3>1. PICK p \in Flying(x, y)' : p \in Requests
      BY FlyingAfter
    <3>2. p \in Flying(x, y)
      BY <3>1, TalkFlow, Kinds DEF GoodFor
    <3>3. Cnt(x, y, Requests) > 0
      BY <3>1, <3>2, FlyingIn
    <3>4. firstpeer[x] = <<y>>
      BY <2>1, <3>3 DEF Asked
    <3>5. Unborn(x)'
      BY DEF Unborn, Asking, Requests
    <3>6. x = e => g = e
      BY <3>5, TalkUnborn
    <3> QED BY <3>4, <3>6 DEF Talk, Alone, Self, Joins
  <2>3. ASSUME Fresh(x)' PROVE Cnt(x, y, Packets)' = 0
    <3>1. Unborn(x)'
      BY <2>3 DEF Unborn
    <3>2. Unborn(x) /\ Unknown(x) /\ ~ Joined(x)' /\ (x = e => g = e)
      BY <3>1, TalkUnborn
    <3>3. Fresh(x)
      BY <2>3, <3>2 DEF Talk, Alone, Self, Joins, Fresh, Unknown
    <3>4. Cnt(x, y, Packets) = 0
      BY <2>1, <3>3 DEF Asked
    <3>5. x = e => GoodFor(e, y)' = {}
      BY <3>2 DEF GoodFor, Proper
    <3>6. \A p : p \notin Flying(x, y)'
      <4> SUFFICES ASSUME NEW p \in Flying(x, y)' PROVE FALSE
        OBVIOUS
      <4>1. p \in Flying(x, y) /\ p \in Packets
        BY <3>5, TalkFlow DEF Flying
      <4> QED BY <3>4, <4>1, FlyingIn
    <3>7. ~ (Cnt(x, y, Packets)' > 0)
      BY <3>6, FlyingAfter
    <3>8. Cnt(x, y, Packets)' \in Nat
      BY LanesTypedAfter
    <3> QED BY <3>7, <3>8
  <2> QED BY <2>2, <2>3 DEF Asked, Requests, Packets, Slots, PLR_BROADCAST, PLR_MASTER, Endpoints
<1> QED BY <1>1, <1>2

LEMMA TalkInvN ==
    ASSUME Typed, Typed', InvK, InvI, InvN, InvS, NEW e \in Programs, NEW g \in Programs, NEW out,
           NEW extra, Talk(e, g, out, extra)
    PROVE  InvN'
<1> SUFFICES ASSUME NEW f \in Programs PROVE \E n \in Slots : Numbered(f, n)'
  BY DEF InvN
<1>1. PICK n \in Slots : Numbered(f, n)
  BY DEF InvN
<1>2. Joined(f)' => plr_self'[f] = n
  <2>1. CASE Joined(f)
    BY <1>1, <2>1, TalkJoined DEF Numbered
  <2>2. ASSUME f = e, Joins(e, g) PROVE plr_self'[f] = n
    <3>1. g # e /\ Arrived(e, g) \in Accepts /\ plr_self'[e] = Arrived(e, g).player
      BY <2>2 DEF Joins
    <3>2. Arrived(e, g) \in Flying(g, e)
      BY <3>1, TalkFlow
    <3> QED BY <1>1, <2>2, <3>1, <3>2 DEF Numbered
  <2> QED BY <2>1, <2>2, TalkJoined
<1>3. ASSUME NEW x \in Programs, NEW i \in Slots, KnowsAt(x, f, i)' PROVE i = n
  <2>1. KnowsAt(x, f, i) \/ (x = e /\ LearntAt(e, g, f, i))
    BY <1>3, TalkMet
  <2>2. CASE KnowsAt(x, f, i)
    BY <1>1, <2>2 DEF Numbered
  <2>3. CASE LearntAt(e, g, f, i)
    <3>1. g # e /\ Arrived(e, g) \in Flying(g, e)
      BY <2>3, TalkLearns
    <3>2. CASE Arrived(e, g) \in Connects(f)
      BY <1>1, <2>3, <3>1, <3>2, Kinds DEF Numbered, LearntAt
    <3>3. CASE Arrived(e, g) \in Accepts
      <4>1. g = f /\ i = Arrived(e, g).src
        BY <2>3, <3>3, NewsKinds DEF LearntAt
      <4>2. SentByPlayer(g, e, Arrived(e, g))
        BY <3>1, <3>3 DEF InvS, MaySend
      <4> QED BY <1>1, <4>1, <4>2 DEF SentByPlayer, Numbered
    <3> QED BY <2>3, <3>2, <3>3, NewsKinds DEF LearntAt
  <2> QED BY <2>1, <2>2, <2>3
<1>4. ASSUME NEW m \in Programs, NEW x \in Programs \ {m}, NEW p \in Flying(m, x)', p \in Connects(f)
      PROVE  p.player = n
  <2>1. p \in Flying(m, x) \/ p \in GoodFor(e, x)' \cup extra
    BY TalkFlow
  <2>2. p \notin GoodFor(e, x)' \cup extra
    BY <1>4, Kinds DEF GoodFor, Talk, Self
  <2> QED BY <1>1, <1>4, <2>1, <2>2 DEF Numbered
<1>5. ASSUME NEW m \in Programs \ {f}, NEW p \in Flying(m, f)'
      PROVE  /\ p \in Accepts => p.player = n
             /\ p \in Game => p.dst = n \/ (p \in Held /\ p.dst = PLR_BROADCAST)
  <2>1. p \in Flying(m, f) \/ (m = e /\ p \in GoodFor(e, f)' \cup extra)
    BY TalkFlow
  <2>2. CASE p \in Flying(m, f)
    BY <1>1, <2>2 DEF Numbered
  <2>3. CASE p \in GoodFor(e, f)'
    <3>1. p \notin Accepts
      BY <2>3, Kinds DEF GoodFor
    <3>2. PICK i \in Slots : KnowsAt(e, f, i)' /\ Proper(e, i, p)'
      BY <2>3 DEF GoodFor
    <3>3. i = n
      BY <1>3, <3>2
    <3>4. p.dst = i \/ (p \in Held /\ p.dst = PLR_BROADCAST)
      BY <3>2 DEF Proper, Held, PLR_BROADCAST
    <3> QED BY <3>1, <3>3, <3>4
  <2>4. CASE p \in extra
    <3>1. p \in Requests
      BY <2>4 DEF Talk, Self
    <3> QED BY <3>1, Kinds
  <2> QED BY <2>1, <2>2, <2>3, <2>4
<1>6. Numbered(f, n)'
  <2>1. \A p \in Packets : p \in Connects(f)' => p \in Connects(f)
    BY DEF Connects
  <2> QED BY <1>2, <1>3, <1>4, <1>5, <2>1 DEF Numbered, Connects, Accepts, Game, Held, PLR_BROADCAST, Slots
<1> QED BY <1>6

LEMMA TalkInvS ==
    ASSUME Typed, Typed', InvK, InvK', InvU, InvI, InvI', InvS, NEW e \in Programs, NEW g \in Programs,
           NEW out, NEW extra, Talk(e, g, out, extra)
    PROVE  InvS'
<1>1. ASSUME NEW x \in Programs, NEW y \in Programs \ {x}, NEW p \in Flying(x, y)'
      PROVE  MaySend(x, y, p)'
  <2>1. p \in Flying(x, y) \/ (x = e /\ p \in GoodFor(e, y)' \cup extra)
    BY TalkFlow
  <2>2. CASE p \in Flying(x, y)
    <3>1. MaySend(x, y, p)
      BY <2>2 DEF InvS
    <3>2. ASSUME p \in Game \cup Accepts PROVE SentByPlayer(x, y, p)'
      <4>1. SentByPlayer(x, y, p)
        BY <3>1, <3>2 DEF MaySend
      <4>2. Joined(x)' /\ plr_self'[x] = plr_self[x] /\ p.src = plr_self[x]
        BY <4>1, TalkJoined DEF SentByPlayer
      <4>3. x \notin gone' => x \notin gone /\ ~ Intro(x, y) /\ ~ Intro(x, y)'
        BY <4>1, TalkTold DEF SentByPlayer, Talk
      <4>4. \A i \in Slots : KnowsAt(x, y, i)' => KnowsAt(x, y, i) \/ (x = e /\ Intro(e, y))
        BY TalkMet, TalkLearns
      <4>5. x = e /\ Intro(e, y) => FALSE
        <5>1. e \notin gone
          BY DEF Talk
        <5> QED BY <4>1, <5>1 DEF SentByPlayer
      <4>6. p \in Accepts => firstpeer'[y] = <<x>> /\ ~ Joined(y)'
        <5> SUFFICES ASSUME p \in Accepts PROVE firstpeer'[y] = <<x>> /\ ~ Joined(y)'
          OBVIOUS
        <5>1. firstpeer[y] = <<x>> /\ ~ Joined(y)
          BY <4>1 DEF SentByPlayer
        <5>2. CASE y # e
          BY <5>1, <5>2, TalkJoined
        <5>3. CASE y = e
          <6>1. ~ Joins(e, g)
            <7> SUFFICES ASSUME Joins(e, g) PROVE FALSE
              OBVIOUS
            <7>1. g = x
              BY <5>1, <5>3, ConnectionTypes DEF Joins
            <7>2. LearntAt(e, g, g, Arrived(e, g).src)
              BY NewsKinds DEF Joins, LearntAt
            <7>3. ~ Intro(e, g)'
              BY <7>2, TalkLearns
            <7>4. Cnt(x, y, News(x, x))' > 0
              <8>1. p \in News(x, x)
                BY NewsKinds
              <8>2. Cnt(x, y, News(x, x))' = Cnt(x, y, News(x, x))'
                OBVIOUS
              <8> QED BY <8>1, FlyingAfter
            <7>5. Told(x, y, x)'
              BY <7>4 DEF Told
            <7> QED BY <5>3, <7>1, <7>3, <7>5 DEF Intro
          <6>2. firstpeer[e] # NoEndpoint
            BY <5>1, <5>3, ConnectionTypes
          <6>3. plr_self'[e] = plr_self[e] /\ firstpeer'[e] = firstpeer[e]
            BY <6>1, <6>2 DEF Talk, Self, Fresh
          <6> QED BY <5>1, <5>3, <6>3 DEF Joined
        <5> QED BY <5>2, <5>3
      <4> QED BY <4>1, <4>2, <4>3, <4>4, <4>5, <4>6 DEF SentByPlayer, Farewells, Accepts, Slots
    <3> QED BY <3>1, <3>2 DEF MaySend, Game, Accepts, NoEndpoint
  <2>3. CASE x = e /\ p \in GoodFor(e, y)'
    <3>1. PICK i \in Slots : KnowsAt(e, y, i)' /\ Proper(e, i, p)'
      BY <2>3 DEF GoodFor
    <3>2. p \in Game /\ p \notin Accepts /\ p.type # "PT_CONNECT"
      BY <2>3, Kinds DEF GoodFor
    <3>3. Joined(e)' /\ p.src = plr_self'[e] /\ (p \in Farewells => p.player # i)
      BY <3>1 DEF Proper, Farewells
    <3>4. ~ Intro(e, y)'
      BY <3>1 DEF InvI, ToldOnce, Met
    <3>5. \A j \in Slots : KnowsAt(e, y, j)' => j = i
      <4> SUFFICES ASSUME NEW j \in Slots, KnowsAt(e, y, j)' PROVE j = i
        OBVIOUS
      <4>1. <<y>> # NoEndpoint /\ peers'[e][i].endpoint = <<y>> /\ peers'[e][j].endpoint = <<y>>
        BY <3>1, ConnectionTypes DEF KnowsAt
      <4>2. TableOk(e)'
        BY DEF InvK
      <4>3. peers'[e][i].endpoint # NoEndpoint /\ peers'[e][i].endpoint = peers'[e][j].endpoint => i = j
        BY <4>2 DEF TableOk, Slots, NoEndpoint
      <4> QED BY <4>1, <4>3
    <3>6. SentByPlayer(e, y, p)'
      BY <3>2, <3>3, <3>4, <3>5 DEF SentByPlayer, Farewells, Accepts, Slots
    <3> QED BY <2>3, <3>2, <3>6 DEF MaySend
  <2>4. CASE x = e /\ p \in extra
    <3>1. p \in Requests
      BY <2>4 DEF Talk, Self
    <3>2. p \notin Game /\ p \notin Accepts /\ p.type # "PT_CONNECT"
      BY <3>1, Kinds
    <3> QED BY <3>2 DEF MaySend, Game, Accepts
  <2> QED BY <2>1, <2>2, <2>3, <2>4
<1>2. ASSUME NEW x \in Programs, NEW i \in Slots PROVE peers'[x][i].sendQueue \in Seq(HeldFor(x, i)')
  <2>1. CASE x = e
    BY <2>1 DEF Talk, Table
  <2>2. CASE x # e
    <3>1. HeldFor(x, i)' = HeldFor(x, i) /\ peers'[x] = peers[x]
      BY <2>2 DEF Talk, Alone, HeldFor, Proper, Joined, Held, Farewells, TurnPackets, PLR_BROADCAST, Slots
    <3> QED BY <3>1 DEF InvS
  <2> QED BY <2>1, <2>2
<1> QED BY <1>1, <1>2 DEF InvS

LEMMA TalkInvV ==
    ASSUME Typed, Typed', InvV, NEW e \in Programs, NEW g \in Programs, NEW out,
           NEW extra, Talk(e, g, out, extra)
    PROVE  InvV'
<1> SUFFICES ASSUME NEW x \in Programs, awaiting'[x], NEW y \in Programs \ {x}
             PROVE  Cnt(x, y, TurnPackets)' = 0 /\ got'[y][x] = 0
  BY DEF InvV, TurnPackets
<1>1. awaiting[x]
  BY DEF Talk, Alone, Self
<1>2. Cnt(x, y, TurnPackets) = 0 /\ got[y][x] = 0
  BY <1>1 DEF InvV
<1>3. x = e => \A p \in GoodFor(e, y)' : p \notin TurnPackets
  BY DEF GoodFor, Proper, TurnPackets
<1>4. ~ \E p \in Flying(x, y)' : p \in TurnPackets
  <2> SUFFICES ASSUME NEW p \in Flying(x, y)', p \in TurnPackets PROVE FALSE
    OBVIOUS
  <2>1. p \in Flying(x, y) \/ (x = e /\ p \in GoodFor(e, y)' \cup extra)
    BY TalkFlow
  <2>2. p \notin extra
    BY Kinds DEF Talk, Self
  <2> QED BY <1>2, <1>3, <2>1, <2>2, FlyingIn
<1>5. Cnt(x, y, TurnPackets)' = 0
  <2>1. ~ (Cnt(x, y, TurnPackets)' > 0)
    BY <1>4, FlyingAfter
  <2>2. Cnt(x, y, TurnPackets)' \in Nat
    BY LanesTypedAfter
  <2> QED BY <2>1, <2>2
<1>6. got'[y][x] = 0
  <2>1. CASE y # e
    BY <1>2, <2>1 DEF Talk, Alone
  <2>2. CASE y = e
    <3>1. ~ (x = g /\ Arrived(e, g) \in TurnPackets)
      BY <1>2, <2>2, TalkFlow, FlyingIn
    <3> QED BY <1>2, <2>2, <3>1 DEF Talk, Self
  <2> QED BY <2>1, <2>2
<1> QED BY <1>5, <1>6

--------------------------------------------------------------------------------
(* Talk on connections.                                                        *)

\* e is told by g that it is not in the game any more.
HangUp(e, g, y) == /\ y = g /\ g # e /\ Arrived(e, g) \in Farewells
                   /\ Arrived(e, g).player = plr_self[e] /\ Joined(e)
Closing(e, g, others) ==
    \A y \in others : y \in Programs /\ Met(e, y) /\ (~ Met(e, y)' \/ HangUp(e, g, y))
\* The players for which e holds nothing back.
Drained(e, g) == \A y \in Programs \ {e} : \A i \in Slots :
    KnowsAt(e, y, i)' /\ ~ peers'[e][i].queued =>
        \/ KnowsAt(e, y, i) /\ ~ peers[e][i].queued
        \/ y = g /\ Arrived(e, g) \in Game \cup Accepts

Act(e, g, others, out, extra) ==
    /\ Talk(e, g, out, extra) /\ Move(e, g, others, out) /\ Closing(e, g, others) /\ Drained(e, g)

LEMMA MoveInvW ==
    ASSUME Typed, InvW, NEW e \in Programs, NEW g \in Programs, NEW others, NEW out,
           Move(e, g, others, out), \A x \in Programs \ {e} : peers'[x] = peers[x]
    PROVE  InvW'
<1>0. /\ \A x \in Programs, y \in Programs : x # y => LinkW(x, y)
      /\ backlog' = backlog /\ crossed' = crossed /\ gone' = gone /\ e \notin gone
      /\ \A f \in Programs : fd'[e][f] = IF f \in others THEN NoConnection ELSE fd[e][f]
      /\ \A x \in Programs \ {e} : fd'[x] = fd[x]
  BY DEF InvW, Move
<1>1. ASSUME NEW y \in Programs \ {e} PROVE LinkW(e, y)'
  <2>1. SendLanes(e, y, others, out[y]) /\ ReceiveLanes(e, y, g, others) /\ (g # e => Gets(e, g))
    BY DEF Move
  <2>2. LinkW(e, y) /\ LinkW(y, e)
    BY <1>0
  <2>3. <<e, y>> # <<y, e>> /\ NoConnection # <<e, y>> /\ NoConnection # <<y, e>>
    BY PairTypes
  <2>4. fd'[e][y] # NoConnection => L3(e, y)' = <<>>
    <3> SUFFICES ASSUME fd'[e][y] # NoConnection PROVE L3(e, y)' = <<>>
      OBVIOUS
    <3>1. fd[e][y] # NoConnection
      BY <1>0
    <3> QED BY <2>1, <3>1 DEF SendLanes
  <2>5. L2(y, e)' # <<>> => fd'[e][y] = <<e, y>> /\ <<e, y>> \notin backlog'
    <3> SUFFICES ASSUME L2(y, e)' # <<>> PROVE fd'[e][y] = <<e, y>> /\ <<e, y>> \notin backlog'
      OBVIOUS
    <3>1. L2(y, e)' = Taken(e, y, g, others, <<e, y>>, L2(y, e))
      BY <2>1 DEF ReceiveLanes
    <3>2. CASE L2(y, e) # <<>>
      <4>1. fd[e][y] = <<e, y>> /\ <<e, y>> \notin backlog
        BY <2>2, <3>2 DEF LinkW
      <4>2. y \notin others
        BY <3>1, <4>1 DEF Taken
      <4> QED BY <1>0, <4>1, <4>2
    <3>3. CASE L2(y, e) = <<>>
      <4>1. ~ (y = g /\ fd[e][y] = <<e, y>>)
        BY <2>1, <3>3 DEF Gets, L2
      <4> QED BY <3>1, <3>3, <4>1 DEF Taken
    <3> QED BY <3>2, <3>3
  <2>6. L1(e, y)' # <<>> => fd'[y][e] = <<e, y>> \/ <<e, y>> \in backlog'
    <3>1. L1(e, y)' # <<>> => L1(e, y) # <<>> \/ Reaches(e, y, <<e, y>>)
      BY <2>1 DEF SendLanes
    <3> QED BY <1>0, <2>2, <3>1 DEF Reaches, LinkW
  <2>7. <<e, y>> \in backlog' => y \notin gone' /\ fd'[y][e] # <<e, y>>
    BY <1>0, <2>2 DEF LinkW
  <2> QED BY <1>0, <2>2, <2>4, <2>5, <2>6, <2>7 DEF LinkW
<1>2. ASSUME NEW x \in Programs \ {e} PROVE LinkW(x, e)'
  <2>1. SendLanes(e, x, others, out[x]) /\ ReceiveLanes(e, x, g, others) /\ (g # e => Gets(e, g))
    BY DEF Move
  <2>2. LinkW(e, x) /\ LinkW(x, e)
    BY <1>0
  <2>3. <<e, x>> # <<x, e>> /\ NoConnection # <<e, x>> /\ NoConnection # <<x, e>>
    BY PairTypes
  <2>4. fd'[x][e] # NoConnection => L3(x, e)' = <<>>
    BY <1>0, <2>1, <2>2 DEF ReceiveLanes, LinkW
  <2>5. L2(e, x)' # <<>> => fd'[x][e] = <<x, e>> /\ <<x, e>> \notin backlog'
    <3>1. L2(e, x)' # <<>> => L2(e, x) # <<>> \/ Reaches(e, x, <<x, e>>)
      BY <2>1 DEF SendLanes
    <3> QED BY <1>0, <2>2, <3>1 DEF Reaches, LinkW
  <2>6. L1(x, e)' # <<>> => fd'[e][x] = <<x, e>> \/ <<x, e>> \in backlog'
    <3> SUFFICES ASSUME L1(x, e)' # <<>>, <<x, e>> \notin backlog' PROVE fd'[e][x] = <<x, e>>
      OBVIOUS
    <3>1. L1(x, e)' = Taken(e, x, g, others, <<x, e>>, L1(x, e))
      BY <2>1 DEF ReceiveLanes
    <3>2. CASE L1(x, e) # <<>>
      <4>1. fd[e][x] = <<x, e>>
        BY <1>0, <2>2, <3>2 DEF LinkW
      <4>2. x \notin others
        BY <3>1, <4>1 DEF Taken
      <4> QED BY <1>0, <4>1, <4>2
    <3>3. CASE L1(x, e) = <<>>
      <4>1. ~ (x = g /\ fd[e][x] = <<x, e>>)
        BY <2>1, <3>3 DEF Gets, L1
      <4> QED BY <3>1, <3>3, <4>1 DEF Taken
    <3> QED BY <3>2, <3>3
  <2>7. <<x, e>> \in backlog' => e \notin gone' /\ fd'[e][x] # <<x, e>>
    BY <1>0, <2>2, <2>3 DEF LinkW
  <2>8. x \in gone' => fd'[x][e] = NoConnection /\ L3(x, e)' = <<>>
    BY <1>0, <2>1, <2>2 DEF LinkW, ReceiveLanes
  <2> QED BY <1>0, <2>2, <2>4, <2>5, <2>6, <2>7, <2>8 DEF LinkW
<1>3. ASSUME NEW x \in Programs \ {e}, NEW y \in Programs \ {e, x} PROVE LinkW(x, y)'
  <2>1. SameLanes(x, y) /\ SameLanes(y, x) /\ LinkW(x, y)
    BY <1>0 DEF Move
  <2> QED BY <1>0, <2>1 DEF LinkW, SameLanes
<1>4. \A x \in gone', i \in Slots : peers'[x][i] = NoPeer
  BY <1>0 DEF InvW, Typed
<1> QED BY <1>1, <1>2, <1>3, <1>4 DEF InvW, Slots, NoPeer, NoEndpoint

\* A program that is not born is not in a pair that is closed.
LEMMA ActInvL ==
    ASSUME Typed, Typed', InvK, InvU, InvL, NEW e \in Programs, NEW g \in Programs, NEW others, NEW out,
           NEW extra, Act(e, g, others, out, extra)
    PROVE  InvL'
<1> SUFFICES ASSUME NEW x \in Programs, Unborn(x)', NEW y \in Programs \ {x} PROVE LinkOut(x, y)'
  BY DEF InvL
<1>1. Unborn(x) /\ Unknown(x)
  BY TalkUnborn DEF Act
<1>2. LinkOut(x, y)
  BY <1>1 DEF InvL
<1>3. ~ Met(x, y) /\ ~ Met(y, x)
  <2>1. ~ Met(y, x)
    BY <1>1 DEF Unknown, Strange
  <2>2. ~ Met(x, y)
    <3>1. \A i \in Slots : peers[x][i].endpoint = NoEndpoint
      BY <1>1 DEF Unknown, NoPeer
    <3>2. <<y>> # NoEndpoint
      BY ConnectionTypes
    <3> QED BY <3>1, <3>2 DEF Met, KnowsAt
  <2> QED BY <2>1, <2>2
<1>4. (x = e => y \notin others) /\ (y = e => x \notin others)
  BY <1>3 DEF Act, Closing
<1>5. fd'[x][y] = fd[x][y] /\ fd'[y][x] = fd[y][x] /\ backlog' = backlog /\ crossed' = crossed /\ gone' = gone
  BY <1>4 DEF Act, Move
<1> QED BY <1>2, <1>5 DEF LinkOut

LEMMA AheadConcat ==
    ASSUME NEW a \in Seq(Packets), NEW b \in Seq(Packets), Ahead(a), Count(a, Accepts) > 0
    PROVE  Ahead(a \o b)
<1> DEFINE S == Held \cup Accepts
           s == Among(a, S)
           t == Among(b, S)
<1>1. s \in Seq(Packets) /\ t \in Seq(Packets)
  BY AmongType
<1>2. Among(a \o b, S) = s \o t
  BY AmongConcat
<1>3. s # <<>>
  <2>1. Accepts \cap Packets \subseteq S
    OBVIOUS
  <2>2. Count(a, Accepts) <= Count(a, S)
    BY <2>1, CountWithin
  <2>3. Count(a, S) = Len(s)
    BY DEF Count
  <2>4. Count(a, Accepts) \in Nat
    BY CountBasics
  <2> HIDE DEF S, s
  <2>5. Len(s) # 0
    BY <1>1, <2>2, <2>3, <2>4
  <2>6. s = <<>> => Len(s) = 0
    OBVIOUS
  <2> QED BY <2>5, <2>6
<1>4. Head(s) \in Accepts
  BY <1>3 DEF Ahead
<1>5. Head(s \o t) = Head(s)
  <2> HIDE DEF s, t
  <2> QED BY <1>1, <1>3
<1> QED BY <1>2, <1>4, <1>5 DEF Ahead

LEMMA AheadTail ==
    ASSUME NEW a \in Seq(Packets), a # <<>>, Ahead(a), Head(a) \notin Accepts
    PROVE  Ahead(Tail(a)) /\ Head(a) \notin Held
<1> DEFINE S == Held \cup Accepts
           one == <<Head(a)>>
           b == Tail(a)
           t == Among(b, S)
           h == Among(one, S)
<1>1. one \in Seq(Packets) /\ b \in Seq(Packets) /\ a = one \o b
  OBVIOUS
<1> HIDE DEF one, b
<1>2. Among(one \o b, S) = h \o t
  BY <1>1, AmongConcat
<1>3. h = IF Head(a) \in S THEN <<Head(a)>> ELSE <<>>
  <2> DEFINE x == Head(a)
  <2>1. x \in Packets /\ <<>> \in Seq(Packets) /\ Append(<<>>, x) = <<x>>
    OBVIOUS
  <2> HIDE DEF x, S
  <2>2. Among(Append(<<>>, x), S) = IF x \in S THEN Append(Among(<<>>, S), x) ELSE Among(<<>>, S)
    BY <2>1, AmongAppend
  <2>3. Among(<<>>, S) = <<>>
    BY AmongEmpty
  <2> QED BY <2>1, <2>2, <2>3 DEF x, h, one
<1>4. t \in Seq(Packets)
  BY <1>1, AmongType
<1>5. Head(a) \notin Held
  <2> SUFFICES ASSUME Head(a) \in Held PROVE FALSE
    OBVIOUS
  <2>1. h = <<Head(a)>>
    BY <1>3
  <2> DEFINE x == Head(a)
  <2>2. x \in Packets
    OBVIOUS
  <2> HIDE DEF x, t
  <2>3. Head(<<x>> \o t) = x /\ <<x>> \o t # <<>>
    BY <1>4, <2>2
  <2>4. Among(a, S) = <<x>> \o t
    BY <1>1, <1>2, <2>1 DEF x
  <2> QED BY <2>3, <2>4 DEF Ahead, x
<1>6. h = <<>>
  BY <1>3, <1>5
<1>7. Among(a, S) = t
  <2> HIDE DEF t, h
  <2> QED BY <1>1, <1>2, <1>4, <1>6
<1> QED BY <1>5, <1>7 DEF Ahead, b

\* What is known while an acceptance is on its way from m to f.
LEMMA AcceptFlying ==
    ASSUME Typed, InvI, InvS, NEW m \in Programs, NEW f \in Programs \ {m}, Cnt(m, f, Accepts) > 0
    PROVE  /\ Joined(m) /\ (m \notin gone => ~ Intro(m, f)) /\ firstpeer[f] = <<m>> /\ ~ Joined(f)
           /\ Told(m, f, m) /\ Intro(f, m) /\ ~ Met(f, m)
<1>1. PICK p \in Flying(m, f) : p \in Accepts
  BY FlyingIn
<1>2. SentByPlayer(m, f, p)
  BY <1>1 DEF InvS, MaySend
<1>3. Cnt(m, f, News(m, m)) > 0
  BY <1>1, NewsKinds, FlyingIn
<1>4. Told(m, f, m) /\ Intro(f, m)
  BY <1>3 DEF Told, Intro
<1>5. ~ Met(f, m)
  BY <1>4 DEF InvI, ToldOnce
<1> QED BY <1>1, <1>2, <1>4, <1>5 DEF SentByPlayer

LEMMA GameFlying ==
    ASSUME Typed, InvS, NEW m \in Programs, NEW f \in Programs \ {m}, NEW p \in Flying(m, f),
           p \in Game \cup Accepts
    PROVE  SentByPlayer(m, f, p)
BY DEF InvS, MaySend

LEMMA ActInvA ==
    ASSUME Typed, Typed', InvK, InvI, InvS, InvA, NEW e \in Programs, NEW g \in Programs, NEW others, NEW out,
           NEW extra, Act(e, g, others, out, extra)
    PROVE  InvA'
<1> SUFFICES ASSUME NEW m \in Programs, NEW f \in Programs \ {m}, f \notin gone', Cnt(m, f, Accepts)' > 0
             PROVE  Accepted(m, f)'
  BY DEF InvA, Accepts
<1>0. Talk(e, g, out, extra) /\ Move(e, g, others, out) /\ Closing(e, g, others) /\ gone' = gone /\ e \notin gone
      /\ backlog' = backlog
  BY DEF Act, Move
<1>1. PICK p \in Flying(m, f)' : p \in Accepts
  BY FlyingAfter
<1>2. Cnt(m, f, Accepts) > 0
  <2>1. p \in Flying(m, f)
    BY <1>0, <1>1, TalkFlow, Kinds DEF GoodFor, Talk, Self
  <2> QED BY <1>1, <2>1, FlyingIn
<1>3. Accepted(m, f)
  BY <1>0, <1>2 DEF InvA
<1>4. /\ Joined(m) /\ (m \notin gone => ~ Intro(m, f)) /\ firstpeer[f] = <<m>> /\ ~ Joined(f)
      /\ Told(m, f, m) /\ Intro(f, m) /\ ~ Met(f, m)
  BY <1>2, AcceptFlying
<1>5. L1(m, f) \in Seq(Packets) /\ L2(m, f) \in Seq(Packets) /\ L3(m, f) \in Seq(Packets)
  BY LanesTyped
<1>6. <<m, f>> # <<f, m>> /\ NoConnection # <<m, f>> /\ NoConnection # <<f, m>>
  BY PairTypes
<1>7. CASE f = e
  <2>1. ReceiveLanes(e, m, g, others) /\ fd'[m] = fd[m] /\ (g # e => Gets(e, g))
    BY <1>0, <1>7 DEF Move
  <2>2. m \notin others
    BY <1>0, <1>4, <1>7 DEF Closing
  <2>3. fd'[e][m] = fd[e][m]
    BY <1>0, <2>2 DEF Move
  <2>4. L1(m, e)' = L1(m, e) /\ L3(m, e)' = L3(m, e)
    BY <1>3, <1>6, <1>7, <2>1, <2>2 DEF ReceiveLanes, Taken, Accepted
  <2>5. L2(m, e)' = IF m = g THEN Tail(L2(m, e)) ELSE L2(m, e)
    BY <1>3, <1>7, <2>1, <2>2 DEF ReceiveLanes, Taken, Accepted
  <2>6. Ahead(L2(m, e)')
    <3>1. CASE m # g
      BY <1>3, <1>7, <2>5, <3>1 DEF Accepted
    <3>2. CASE m = g
      <4>1. L2(m, e) # <<>> /\ Arrived(e, g) = Head(L2(m, e))
        BY <1>3, <1>7, <2>1, <3>2 DEF Gets, Accepted, L2, Arrived
      <4>2. Arrived(e, g) \notin Accepts
        <5> SUFFICES ASSUME Arrived(e, g) \in Accepts PROVE FALSE
          OBVIOUS
        <5>1. LearntAt(e, g, g, Arrived(e, g).src)
          BY <1>7, <3>2, NewsKinds DEF LearntAt
        <5>2. ~ Intro(e, g)'
          BY <1>0, <5>1, TalkLearns
        <5>3. Cnt(m, f, News(m, m))' > 0
          BY <1>1, NewsKinds, FlyingAfter
        <5>4. Told(m, f, m)'
          BY <5>3 DEF Told
        <5> QED BY <1>7, <3>2, <5>2, <5>4 DEF Intro
      <4>3. Ahead(L2(m, e)) /\ L2(m, e) \in Seq(Packets)
        BY <1>3, <1>5, <1>7 DEF Accepted
      <4> DEFINE a == L2(m, e)
      <4>4. a # <<>> /\ Head(a) \notin Accepts /\ Ahead(a) /\ a \in Seq(Packets)
        BY <4>1, <4>2, <4>3
      <4> HIDE DEF a
      <4>5. Ahead(Tail(a))
        BY <4>4, AheadTail
      <4> QED BY <2>5, <3>2, <4>5 DEF a
    <3> QED BY <3>1, <3>2
  <2>7. Met(m, f)' => Met(m, f)
    BY <1>0, <1>7, TalkMet
  <2>8. Ahead(L2(m, f))'
    BY <1>7, <2>6 DEF Ahead, Held, Accepts
  <2> QED BY <1>0, <1>3, <1>7, <2>1, <2>3, <2>4, <2>7, <2>8 DEF Accepted
<1>8. CASE m = e
  <2>1. SendLanes(e, f, others, out[f]) /\ fd'[f] = fd[f]
        /\ fd'[e][f] = IF f \in others THEN NoConnection ELSE fd[e][f]
    BY <1>0, <1>8 DEF Move
  <2>2. Met(e, f)' => Met(e, f)
    BY <1>0, <1>4, <1>8, TalkMet
  <2>3. extra = {}
    BY <1>0, <1>4, <1>8 DEF Talk, Self, Fresh
  <2>4. out[f] \in Seq(Packets)
    BY <1>0, LettersOf DEF Move
  <2>5. fd[e][f] = NoConnection => out[f] = <<>>
    <3> SUFFICES ASSUME fd[e][f] = NoConnection PROVE out[f] = <<>>
      OBVIOUS
    <3>1. ~ Met(e, f)'
      BY <1>0, <1>3, <1>6, <1>8, <2>2 DEF Accepted
    <3>2. GoodFor(e, f)' \cup extra = {}
      BY <2>3, <3>1 DEF GoodFor, Met
    <3>3. out[f] \in Seq({})
      BY <1>0, <1>8, <3>2 DEF Talk, Says
    <3> QED BY <3>3
  <2>6. L1(e, f)' = L1(e, f)
    BY <1>3, <1>6, <1>8, <2>1 DEF SendLanes, Reaches, Accepted
  <2>7. L3(e, f)' = <<>>
    BY <1>3, <1>8, <2>1, <2>5 DEF SendLanes, Accepted
  <2>8. Ahead(L2(e, f)')
    <3>1. CASE L2(e, f)' = L2(e, f)
      BY <1>3, <1>8, <3>1 DEF Accepted
    <3>2. CASE L2(e, f)' = L2(e, f) \o out[f]
      <4> DEFINE a == L2(e, f)
                 b == out[f]
      <4>1. Count(a, Accepts) > 0
        <5>1. L1(e, f) = <<>> /\ L3(e, f) = <<>>
          BY <1>3, <1>8 DEF Accepted
        <5>2. Cnt(e, f, Accepts) = 0 + Count(a, Accepts) + 0
          BY <5>1, CountBasics DEF Cnt
        <5>3. Count(a, Accepts) \in Nat
          BY <1>5, <1>8, CountBasics
        <5> QED BY <1>2, <1>8, <5>2, <5>3
      <4>2. a \in Seq(Packets) /\ b \in Seq(Packets) /\ Ahead(a)
        BY <1>3, <1>5, <1>8, <2>4 DEF Accepted
      <4> HIDE DEF a, b
      <4>3. Ahead(a \o b)
        BY <4>1, <4>2, AheadConcat
      <4> QED BY <3>2, <4>3 DEF a, b
    <3> QED BY <2>1, <3>1, <3>2 DEF SendLanes
  <2>9. f \in others => ~ Met(e, f)'
    <3> SUFFICES ASSUME HangUp(e, g, f) PROVE FALSE
      BY <1>0 DEF Closing
    <3>1. f = g /\ Arrived(e, g) \in Flying(f, e) /\ Arrived(e, g) \in Game
      BY <1>0, <1>8, TalkFlow, Kinds DEF HangUp
    <3>2. Joined(f)
      BY <1>8, <3>1, GameFlying DEF SentByPlayer
    <3> QED BY <1>4, <3>2
  <2>10. Ahead(L2(m, f))'
    BY <1>8, <2>8 DEF Ahead, Held, Accepts
  <2> QED BY <1>0, <1>3, <1>8, <2>1, <2>2, <2>6, <2>7, <2>9, <2>10 DEF Accepted
<1>9. CASE m # e /\ f # e
  <2>1. SameLanes(m, f) /\ fd'[m] = fd[m] /\ fd'[f] = fd[f]
    BY <1>0, <1>9 DEF Move
  <2>2. Met(m, f)' => Met(m, f)
    BY <1>0, <1>9, TalkMet
  <2> QED BY <1>0, <1>3, <2>1, <2>2 DEF Accepted, SameLanes, Ahead, Held, Accepts
<1> QED BY <1>7, <1>8, <1>9

LEMMA ActAccepts ==
    ASSUME Typed, Typed', InvI, InvS, InvA, NEW e \in Programs, NEW g \in Programs, NEW others, NEW out,
           NEW extra, Act(e, g, others, out, extra),
           NEW m \in Programs, NEW f \in Programs \ {m}, f \notin gone, Cnt(m, f, Accepts) > 0
    PROVE  Cnt(m, f, Accepts)' > 0 \/ (f = e /\ m = g /\ Arrived(e, g) \in Accepts)
<1> SUFFICES ASSUME ~ (f = e /\ m = g /\ Arrived(e, g) \in Accepts) PROVE Cnt(m, f, Accepts)' > 0
  OBVIOUS
<1>0. Talk(e, g, out, extra) /\ Move(e, g, others, out) /\ Closing(e, g, others)
  BY DEF Act
<1>1. Accepted(m, f) /\ ~ Met(f, m)
  BY AcceptFlying DEF InvA
<1> DEFINE a == L2(m, f)
           b == L2(m, f)'
<1>2. a \in Seq(Packets) /\ b \in Seq(Packets) /\ L1(m, f)' \in Seq(Packets) /\ L3(m, f)' \in Seq(Packets)
  BY LanesTyped, LanesTypedAfter
<1>3. Count(a, Accepts) > 0
  <2>1. L1(m, f) = <<>> /\ L3(m, f) = <<>>
    BY <1>1 DEF Accepted
  <2>2. Cnt(m, f, Accepts) = 0 + Count(a, Accepts) + 0
    BY <2>1, CountBasics DEF Cnt
  <2>3. Count(a, Accepts) \in Nat
    BY <1>2, CountBasics
  <2> QED BY <2>2, <2>3
<1>4. Count(b, Accepts) >= Count(a, Accepts)
  <2>0. Count(a, Accepts) \in Nat
    BY <1>2, CountBasics
  <2>1. CASE f = e
    <3>1. b = IF m = g THEN Tail(a) ELSE a
      <4>1. m \notin others /\ ReceiveLanes(e, m, g, others)
        BY <1>0, <1>1, <2>1 DEF Closing, Move
      <4> QED BY <1>1, <2>1, <4>1 DEF ReceiveLanes, Taken, Accepted
    <3>2. CASE m # g
      BY <2>0, <3>1, <3>2
    <3>3. CASE m = g
      <4>1. Gets(e, g)
        BY <1>0, <2>1, <3>3 DEF Move
      <4>2. a # <<>> /\ Head(a) \notin Accepts
        BY <1>1, <2>1, <3>3, <4>1 DEF Gets, Accepted, L2, Arrived
      <4>3. Count(a, Accepts) = Count(Tail(a), Accepts) + (IF Head(a) \in Accepts THEN 1 ELSE 0)
        <5> HIDE DEF a
        <5> QED BY <1>2, <4>2, CountHead
      <4>4. Tail(a) \in Seq(Packets)
        <5> HIDE DEF a
        <5> QED BY <1>2, <4>2
      <4>5. Count(Tail(a), Accepts) \in Nat
        BY <4>4, CountBasics
      <4> HIDE DEF a, b
      <4>6. b = Tail(a)
        BY <3>1, <3>3
      <4> QED BY <4>2, <4>3, <4>5, <4>6
    <3> QED BY <3>2, <3>3
  <2>2. CASE m = e
    <3>1. b = a \/ b = a \o out[f]
      BY <1>0, <2>2 DEF Move, SendLanes
    <3>2. out[f] \in Seq(Packets)
      BY <1>0, LettersOf DEF Move
    <3> DEFINE c == out[f]
    <3>5. a \in Seq(Packets) /\ c \in Seq(Packets)
      BY <1>2, <3>2
    <3>6. b = a \/ b = a \o c
      BY <3>1
    <3> HIDE DEF a, b, c
    <3>3. Count(a \o c, Accepts) = Count(a, Accepts) + Count(c, Accepts)
      BY <3>5, CountConcat
    <3>7. Count(c, Accepts) \in Nat
      BY <3>5, CountBasics
    <3>8. Count(a \o c, Accepts) >= Count(a, Accepts)
      BY <2>0, <3>3, <3>7
    <3>9. Count(a, Accepts) >= Count(a, Accepts)
      BY <2>0
    <3> QED BY <3>6, <3>8, <3>9
  <2>3. CASE m # e /\ f # e
    <3>1. b = a
      BY <1>0, <2>3 DEF Move, SameLanes
    <3> QED BY <2>0, <3>1
  <2> QED BY <2>1, <2>2, <2>3
<1>5. Cnt(m, f, Accepts)' = Count(L1(m, f)', Accepts) + Count(b, Accepts) + Count(L3(m, f)', Accepts)
  BY DEF Cnt, Accepts
<1>6. /\ Count(L1(m, f)', Accepts) \in Nat /\ Count(b, Accepts) \in Nat /\ Count(L3(m, f)', Accepts) \in Nat
      /\ Count(a, Accepts) \in Nat
  BY <1>2, CountBasics
<1> HIDE DEF a, b
<1> QED BY <1>3, <1>4, <1>5, <1>6

LEMMA ActInvQ ==
    ASSUME Typed, Typed', InvK, InvI, InvS, InvA, InvQ, NEW e \in Programs, NEW g \in Programs, NEW others,
           NEW out, NEW extra, Act(e, g, others, out, extra)
    PROVE  InvQ'
<1>0. Talk(e, g, out, extra) /\ Drained(e, g) /\ gone \subseteq gone' /\ e \notin gone
  BY DEF Act, Talk
<1> SUFFICES ASSUME NEW x \in Programs, NEW y \in Programs \ {x}, y \notin gone',
                    (\E i \in Slots : KnowsAt(x, y, i)' /\ ~ peers'[x][i].queued) \/ Cnt(x, y, Held)' > 0
             PROVE  Ready(x, y)'
  BY DEF InvQ, Ready, Held, Slots
<1>1. \/ \E i \in Slots : KnowsAt(x, y, i)' /\ ~ peers'[x][i].queued
      \/ Cnt(x, y, Held) > 0
  <2> SUFFICES ASSUME Cnt(x, y, Held)' > 0
               PROVE  \/ \E i \in Slots : KnowsAt(x, y, i)' /\ ~ peers'[x][i].queued
                      \/ Cnt(x, y, Held) > 0
    OBVIOUS
  <2>1. PICK p \in Flying(x, y)' : p \in Held
    BY FlyingAfter
  <2>2. p \in Flying(x, y) \/ (x = e /\ p \in GoodFor(e, y)' \cup extra)
    BY <1>0, TalkFlow
  <2>3. CASE p \in Flying(x, y)
    BY <2>1, <2>3, FlyingIn
  <2>4. CASE x = e /\ p \in GoodFor(e, y)'
    <3>1. PICK i \in Slots : KnowsAt(e, y, i)' /\ (p \in Held => ~ peers'[e][i].queued)
      BY <2>4 DEF GoodFor, Held
    <3> QED BY <2>1, <2>4, <3>1
  <2>5. p \notin extra
    BY <1>0, <2>1, Kinds DEF Talk, Self
  <2> QED BY <2>2, <2>3, <2>4, <2>5
<1>2. \/ (\E i \in Slots : KnowsAt(x, y, i) /\ ~ peers[x][i].queued) \/ Cnt(x, y, Held) > 0
      \/ x = e /\ y = g /\ Arrived(e, g) \in Game \cup Accepts
  <2>1. CASE x = e
    BY <1>0, <1>1, <2>1 DEF Drained
  <2>2. CASE x # e
    BY <1>0, <1>1, <2>2 DEF Talk, Alone, KnowsAt
  <2> QED BY <2>1, <2>2
<1>3. CASE (\E i \in Slots : KnowsAt(x, y, i) /\ ~ peers[x][i].queued) \/ Cnt(x, y, Held) > 0
  <2>1. (Joined(y) /\ ~ Intro(y, x)) \/ Cnt(x, y, Accepts) > 0
    BY <1>0, <1>3 DEF InvQ, Ready
  <2>2. CASE Joined(y) /\ ~ Intro(y, x)
    BY <1>0, <2>2, TalkJoined, TalkTold DEF Ready
  <2>3. CASE Cnt(x, y, Accepts) > 0
    <3>1. Cnt(x, y, Accepts)' > 0 \/ (y = e /\ x = g /\ Arrived(e, g) \in Accepts)
      BY <1>0, <2>3, ActAccepts
    <3>2. CASE Cnt(x, y, Accepts)' > 0
      BY <3>2 DEF Ready, Accepts
    <3>3. CASE y = e /\ x = g /\ Arrived(e, g) \in Accepts
      <4>1. Joins(e, g)
        BY <1>0, <3>3 DEF Talk, Self
      <4>2. LearntAt(e, g, g, Arrived(e, g).src)
        BY <3>3, NewsKinds DEF LearntAt
      <4>3. ~ Intro(e, g)'
        BY <1>0, <4>2, TalkLearns
      <4>4. Arrived(e, g).player \in Slots
        BY <1>0, <4>1, RestShape, KindsOfPackets DEF Talk, Gets, Joins
      <4>5. Joined(e)'
        BY <4>1, <4>4 DEF Joins, Joined, Slots
      <4> QED BY <3>3, <4>3, <4>5 DEF Ready
    <3> QED BY <3>1, <3>2, <3>3
  <2> QED BY <2>1, <2>2, <2>3
<1>4. CASE x = e /\ y = g /\ Arrived(e, g) \in Game \cup Accepts
  <2>1. Arrived(e, g) \in Flying(g, e)
    BY <1>0, <1>4, TalkFlow
  <2>2. SentByPlayer(g, e, Arrived(e, g))
    BY <1>4, <2>1, GameFlying
  <2>3. Joined(g)' /\ ~ Intro(g, e)'
    BY <1>0, <1>4, <2>2, TalkJoined, TalkTold DEF SentByPlayer
  <2> QED BY <1>4, <2>3 DEF Ready
<1> QED BY <1>2, <1>3, <1>4

\* Two players that know each other do not close their connection.
LEMMA ActBondOne ==
    ASSUME Typed, Typed', InvI, InvN, InvS, NEW e \in Programs, NEW g \in Programs, NEW others, NEW out,
           NEW extra, Act(e, g, others, out, extra), NEW y \in Programs \ {e}, Bond(e, y)'
    PROVE  y \notin others
<1>0. Talk(e, g, out, extra) /\ Closing(e, g, others) /\ gone' = gone
  BY DEF Act, Move
<1> SUFFICES ASSUME y \in others PROVE FALSE
  OBVIOUS
<1>1. Met(e, y) /\ ~ Intro(e, y)'
  BY <1>0, TalkTold DEF Closing, InvI, ToldOnce
<1>2. HangUp(e, g, y)
  BY <1>0, <1>1 DEF Closing, Bond, Rel
<1>3. y = g /\ g # e /\ Arrived(e, g) \in Flying(g, e) /\ Arrived(e, g) \in Game
  BY <1>0, <1>2, TalkFlow, Kinds DEF HangUp
<1>4. SentByPlayer(g, e, Arrived(e, g))
  BY <1>3, GameFlying
<1>5. ~ Intro(g, e) /\ ~ Intro(g, e)'
  <2>1. g \notin gone
    BY <1>0, <1>3 DEF Bond
  <2>2. ~ Intro(g, e)
    BY <1>4, <2>1 DEF SentByPlayer
  <2> QED BY <1>0, <2>2, TalkTold
<1>6. PICK n \in Slots : Numbered(e, n)
  BY DEF InvN
<1>7. ~ Met(g, e)
  BY <1>2, <1>4, <1>6 DEF HangUp, Numbered, SentByPlayer, Met
<1>8. ~ Met(g, e)'
  BY <1>0, <1>3, <1>7, TalkMet
<1> QED BY <1>3, <1>5, <1>8 DEF Bond, Rel

LEMMA ActBond ==
    ASSUME Typed, Typed', InvI, InvN, InvS, NEW e \in Programs, NEW g \in Programs, NEW others, NEW out,
           NEW extra, Act(e, g, others, out, extra),
           NEW x \in Programs, NEW y \in Programs \ {x}, Bond(x, y)'
    PROVE  /\ Bond(x, y) /\ fd'[x][y] = fd[x][y] /\ fd'[y][x] = fd[y][x]
           /\ (x = e => y \notin others) /\ (y = e => x \notin others)
<1>0. Talk(e, g, out, extra) /\ gone' = gone /\ crossed' = crossed
  BY DEF Act, Move
<1>1. Bond(y, x)'
  BY DEF Bond
<1>2. (x = e => y \notin others) /\ (y = e => x \notin others)
  BY <1>1, ActBondOne
<1>3. (Rel(x, y)' => Rel(x, y)) /\ (Rel(y, x)' => Rel(y, x))
  BY <1>0, TalkMet, TalkTold DEF Rel
<1>4. Bond(x, y)
  BY <1>0, <1>3 DEF Bond
<1>5. fd'[x][y] = fd[x][y] /\ fd'[y][x] = fd[y][x]
  BY <1>2 DEF Act, Move
<1> QED BY <1>2, <1>4, <1>5

LEMMA ActInvC ==
    ASSUME Typed, Typed', InvK, InvI, InvN, InvS, InvC, NEW e \in Programs, NEW g \in Programs, NEW others,
           NEW out, NEW extra, Act(e, g, others, out, extra)
    PROVE  InvC'
<1>0. Talk(e, g, out, extra) /\ gone' = gone /\ backlog' = backlog
  BY DEF Act, Move
<1> SUFFICES ASSUME NEW x \in Programs, NEW y \in Programs \ {x}, Bond(x, y)'
             PROVE  LinkOk(x, y)' /\ (Intro(x, y)' => got'[y][x] = 0)
  BY DEF InvC
<1>1. Bond(x, y) /\ fd'[x][y] = fd[x][y] /\ fd'[y][x] = fd[y][x]
  BY ActBond
<1>2. LinkOk(x, y)'
  BY <1>0, <1>1 DEF InvC, LinkOk
<1>3. ASSUME Intro(x, y)' PROVE got'[y][x] = 0
  <2>1. Intro(x, y)
    BY <1>0, <1>3, TalkTold
  <2>2. got[y][x] = 0
    BY <1>1, <2>1 DEF InvC
  <2>3. CASE y # e
    BY <1>0, <2>2, <2>3, TalkJoined
  <2>4. CASE y = e
    <3>1. ~ (x = g /\ Arrived(e, g) \in TurnPackets)
      <4> SUFFICES ASSUME x = g, Arrived(e, g) \in TurnPackets PROVE FALSE
        OBVIOUS
      <4>1. Arrived(e, g) \in Flying(x, e) /\ Arrived(e, g) \in Game
        BY <1>0, <2>4, TalkFlow, Kinds
      <4>2. SentByPlayer(x, e, Arrived(e, g))
        BY <2>4, <4>1, GameFlying
      <4> QED BY <1>1, <2>1, <2>4, <4>2 DEF Bond, SentByPlayer
    <3> QED BY <1>0, <2>2, <2>4, <3>1 DEF Talk, Self
  <2> QED BY <2>3, <2>4
<1> QED BY <1>2, <1>3

--------------------------------------------------------------------------------
(* Turns.                                                                      *)

\* What e sends to y and keeps for slot i holds the same turns as what it kept, one more, or
\* the first one.
Queues(e, y, i, out) == Among(out[y] \o peers'[e][i].sendQueue, TurnPackets)
SameTurns(e, y, i, out) ==
    /\ KnowsAt(e, y, i) /\ ~ awaiting[e] /\ i \notin taken[e] /\ sent'[e] = sent[e]
    /\ Queues(e, y, i, out) = Among(peers[e][i].sendQueue, TurnPackets)
OneTurnMore(e, y, i, out) ==
    /\ KnowsAt(e, y, i) /\ ~ awaiting[e] /\ i \notin taken[e] /\ sent'[e] = sent[e] + 1
    /\ \E t \in TurnPackets : /\ t.turn = sent'[e]
                              /\ Queues(e, y, i, out) = Append(Among(peers[e][i].sendQueue, TurnPackets), t)
FirstOfTurns(e, g, y, i, out) ==
    /\ awaiting[e] \/ LearntAt(e, g, y, i)
    /\ \E t \in TurnPackets : t.turn = sent'[e] /\ Queues(e, y, i, out) = <<t>>
Counts(e, g, out) == \A y \in Programs \ {e} : \A i \in Slots :
    KnowsAt(e, y, i)' /\ ~ awaiting'[e] /\ i \notin taken'[e] =>
        SameTurns(e, y, i, out) \/ OneTurnMore(e, y, i, out) \/ FirstOfTurns(e, g, y, i, out)
Heard(e, g, others) ==
    /\ g # e /\ Arrived(e, g) \in TurnPackets /\ IsFromPlayer(e, g) => got'[e][g] = Arrived(e, g).turn
    /\ \A y \in Programs \ {e} : got'[e][y] # got[e][y] =>
           y \in others \/ (y = g /\ Arrived(e, g) \in TurnPackets)

LEMMA MailLanes ==
    ASSUME Typed, NEW m \in Programs, NEW x \in Programs \ {m}
    PROVE  /\ fd[m][x] = NoConnection \/ fd[m][x] = <<m, x>> \/ fd[m][x] = <<x, m>>
           /\ fd[m][x] = NoConnection => Mail(m, x) = L3(m, x)
           /\ fd[m][x] = <<m, x>> => Mail(m, x) = L1(m, x) \o L3(m, x)
           /\ fd[m][x] = <<x, m>> => Mail(m, x) = L2(m, x) \o L3(m, x)
           /\ Mail(m, x) \in Seq(Packets)
<1>1. fd[m][x] = NoConnection \/ fd[m][x] = <<m, x>> \/ fd[m][x] = <<x, m>>
  BY FdShape
<1>2. NoConnection # <<m, x>> /\ NoConnection # <<x, m>>
  BY PairTypes
<1> DEFINE a == L1(m, x)
           b == L2(m, x)
           c == L3(m, x)
<1>3. a \in Seq(Packets) /\ b \in Seq(Packets) /\ c \in Seq(Packets)
  BY LanesTyped
<1>4. fd[m][x] = <<m, x>> => Mail(m, x) = a \o c
  BY <1>2 DEF Mail, L1, L3
<1>5. fd[m][x] = <<x, m>> => Mail(m, x) = b \o c
  BY <1>2 DEF Mail, L2, L3
<1>6. fd[m][x] = NoConnection => Mail(m, x) = <<>> \o c
  BY DEF Mail, L3
<1> HIDE DEF a, b, c
<1>7. <<>> \o c = c /\ a \o c \in Seq(Packets) /\ b \o c \in Seq(Packets)
  BY <1>3
<1>8. Mail(m, x) \in Seq(Packets)
  BY <1>1, <1>3, <1>4, <1>5, <1>6, <1>7
<1> QED BY <1>1, <1>4, <1>5, <1>6, <1>7, <1>8 DEF a, b, c

LEMMA MailLanesAfter ==
    ASSUME Typed', NEW m \in Programs, NEW x \in Programs \ {m}
    PROVE  /\ fd'[m][x] = NoConnection => Mail(m, x)' = L3(m, x)'
           /\ fd'[m][x] = <<m, x>> => Mail(m, x)' = L1(m, x)' \o L3(m, x)'
           /\ fd'[m][x] = <<x, m>> => Mail(m, x)' = L2(m, x)' \o L3(m, x)'
<1>2. NoConnection # <<m, x>> /\ NoConnection # <<x, m>>
  BY PairTypes
<1> DEFINE a == L1(m, x)'
           b == L2(m, x)'
           c == L3(m, x)'
<1>3. a \in Seq(Packets) /\ b \in Seq(Packets) /\ c \in Seq(Packets)
  BY LanesTypedAfter
<1>4. fd'[m][x] = <<m, x>> => Mail(m, x)' = a \o c
  BY <1>2 DEF Mail, L1, L3, NoConnection
<1>5. fd'[m][x] = <<x, m>> => Mail(m, x)' = b \o c
  BY <1>2 DEF Mail, L2, L3, NoConnection
<1>6. fd'[m][x] = NoConnection => Mail(m, x)' = <<>> \o c
  BY DEF Mail, L3, NoConnection
<1> HIDE DEF a, b, c
<1>7. <<>> \o c = c
  BY <1>3
<1>8. fd'[m][x] = NoConnection => Mail(m, x)' = c
  BY <1>6, <1>7
<1> QED BY <1>4, <1>5, <1>8 DEF a, b, c

\* What is sent comes behind what is underway.
LEMMA MailSends ==
    ASSUME Typed, Typed', InvW, NEW e \in Programs, NEW g \in Programs, NEW others, NEW out,
           Move(e, g, others, out), NEW y \in Programs \ {e}, y \notin others, LinkOk(e, y)
    PROVE  Mail(e, y)' = Mail(e, y) \o out[y]
<1>1. SendLanes(e, y, others, out[y]) /\ fd'[e][y] = fd[e][y] /\ out[y] \in Seq(Packets)
  BY LettersOf DEF Move
<1>2. NoConnection # <<e, y>> /\ NoConnection # <<y, e>> /\ <<e, y>> # <<y, e>>
  BY PairTypes
<1>3. fd[e][y] # NoConnection => L3(e, y) = <<>>
  BY DEF InvW, LinkW
<1> DEFINE a == L1(e, y)
           b == L2(e, y)
           c == L3(e, y)
           o == out[y]
<1>4. a \in Seq(Packets) /\ b \in Seq(Packets) /\ c \in Seq(Packets) /\ o \in Seq(Packets)
  BY <1>1, LanesTyped
<1>5. CASE fd[e][y] = NoConnection
  <2>1. Mail(e, y) = c /\ Mail(e, y)' = L3(e, y)'
    BY <1>1, <1>5, MailLanes, MailLanesAfter
  <2>2. L3(e, y)' = c \o o
    BY <1>1, <1>5 DEF SendLanes
  <2> QED BY <2>1, <2>2
<1>6. CASE fd[e][y] = <<e, y>>
  <2>1. Mail(e, y) = a \o c /\ Mail(e, y)' = L1(e, y)' \o L3(e, y)'
    BY <1>1, <1>6, MailLanes, MailLanesAfter
  <2>2. Reaches(e, y, <<e, y>>)
    BY <1>2, <1>6 DEF LinkOk, Reaches
  <2>3. L1(e, y)' = a \o o /\ L3(e, y)' = <<>>
    BY <1>1, <1>2, <1>6, <2>2 DEF SendLanes
  <2>4. c = <<>>
    BY <1>2, <1>3, <1>6
  <2> HIDE DEF a, c, o
  <2>5. a \o c = a /\ (a \o o) \o <<>> = a \o o
    BY <1>4, <2>4
  <2>6. Mail(e, y) = a /\ Mail(e, y)' = a \o o
    BY <2>1, <2>3, <2>5
  <2> QED BY <2>6 DEF o
<1>7. CASE fd[e][y] = <<y, e>>
  <2>1. Mail(e, y) = b \o c /\ Mail(e, y)' = L2(e, y)' \o L3(e, y)'
    BY <1>1, <1>7, MailLanes, MailLanesAfter
  <2>2. Reaches(e, y, <<y, e>>)
    BY <1>2, <1>7 DEF LinkOk, Reaches
  <2>3. L2(e, y)' = b \o o /\ L3(e, y)' = <<>>
    BY <1>1, <1>2, <1>7, <2>2 DEF SendLanes
  <2>4. c = <<>>
    BY <1>2, <1>3, <1>7
  <2> HIDE DEF b, c, o
  <2>5. b \o c = b /\ (b \o o) \o <<>> = b \o o
    BY <1>4, <2>4
  <2>6. Mail(e, y) = b /\ Mail(e, y)' = b \o o
    BY <2>1, <2>3, <2>5
  <2> QED BY <2>6 DEF o
<1> QED BY <1>5, <1>6, <1>7, MailLanes

\* What arrives was first.
LEMMA MailReceives ==
    ASSUME Typed, Typed', InvW, NEW e \in Programs, NEW g \in Programs, NEW others, NEW out,
           Move(e, g, others, out), NEW x \in Programs \ {e}, x \notin others, LinkOk(x, e)
    PROVE  /\ x # g => Mail(x, e)' = Mail(x, e)
           /\ x = g => Mail(x, e) = <<Arrived(e, g)>> \o Mail(x, e)'
<1>1. ReceiveLanes(e, x, g, others) /\ fd'[x] = fd[x] /\ (x = g => Gets(e, g))
  BY DEF Move
<1>2. NoConnection # <<e, x>> /\ NoConnection # <<x, e>> /\ <<e, x>> # <<x, e>>
  BY PairTypes
<1>3. CASE x # g
  <2>1. L1(x, e)' = L1(x, e) /\ L2(x, e)' = L2(x, e) /\ L3(x, e)' = L3(x, e)
    BY <1>1, <1>3 DEF ReceiveLanes, Taken
  <2>2. fd[x][e] = NoConnection \/ fd[x][e] = <<x, e>> \/ fd[x][e] = <<e, x>>
    BY FdShape
  <2>5. Mail(x, e)' = Mail(x, e)
    BY <1>1, <2>1, <2>2 DEF Mail, L1, L2, L3, NoConnection
  <2> QED BY <1>3, <2>5
<1>4. CASE x = g
  <2> DEFINE a == L1(x, e)
             b == L2(x, e)
  <2>0. a \in Seq(Packets) /\ b \in Seq(Packets) /\ LinkW(x, e) /\ LinkW(e, x)
    BY LanesTyped DEF InvW
  <2>1. fd[e][x] # NoConnection /\ wire[fd[e][x]][e] # <<>>
    BY <1>1, <1>4 DEF Gets
  <2>2. fd[x][e] = fd[e][x]
    <3> SUFFICES ASSUME fd[x][e] # fd[e][x] PROVE FALSE
      OBVIOUS
    <3>1. fd[e][x] = <<e, x>> /\ <<e, x>> \in backlog
      BY <2>1 DEF LinkOk
    <3>2. L2(x, e) # <<>>
      BY <2>1, <3>1 DEF L2
    <3> QED BY <2>0, <3>1, <3>2 DEF LinkW
  <2>3. L3(x, e) = <<>> /\ L3(x, e)' = <<>>
    BY <1>1, <2>0, <2>1, <2>2 DEF LinkW, ReceiveLanes
  <2>4. CASE fd[x][e] = <<x, e>>
    <3>1. Mail(x, e) = a \o <<>> /\ Mail(x, e)' = L1(x, e)' \o <<>>
      BY <1>1, <2>3, <2>4, MailLanes, MailLanesAfter
    <3>2. L1(x, e)' = Tail(a) /\ a # <<>> /\ Arrived(e, g) = Head(a)
      BY <1>1, <1>4, <2>1, <2>2, <2>4 DEF ReceiveLanes, Taken, L1, Arrived
    <3> HIDE DEF a
    <3>3. a \o <<>> = a /\ Tail(a) \o <<>> = Tail(a) /\ a = <<Head(a)>> \o Tail(a)
      BY <2>0, <3>2
    <3> QED BY <1>4, <3>1, <3>2, <3>3
  <2>5. CASE fd[x][e] = <<e, x>>
    <3>1. Mail(x, e) = b \o <<>> /\ Mail(x, e)' = L2(x, e)' \o <<>>
      BY <1>1, <2>3, <2>5, MailLanes, MailLanesAfter
    <3>2. L2(x, e)' = Tail(b) /\ b # <<>> /\ Arrived(e, g) = Head(b)
      BY <1>1, <1>4, <2>1, <2>2, <2>5 DEF ReceiveLanes, Taken, L2, Arrived
    <3> HIDE DEF b
    <3>3. b \o <<>> = b /\ Tail(b) \o <<>> = Tail(b) /\ b = <<Head(b)>> \o Tail(b)
      BY <2>0, <3>2
    <3> QED BY <1>4, <3>1, <3>2, <3>3
  <2> QED BY <2>1, <2>2, <2>4, <2>5, MailLanes
<1> QED BY <1>3, <1>4

LEMMA TallySame ==
    ASSUME NEW turns \in Seq(TurnPackets), NEW last \in Nat, NEW seen, Tally(turns, last, seen),
           NEW t \in TurnPackets, t.turn = last + 1
    PROVE  Tally(Append(turns, t), last + 1, seen)
<1> DEFINE n == Len(turns)
           more == Append(turns, t)
<1>1. n \in Nat /\ Len(more) = n + 1 /\ more # <<>>
  OBVIOUS
<1>2. \A k \in 1 .. n : more[k] = turns[k]
  OBVIOUS
<1>3. more[n + 1] = t
  OBVIOUS
<1>4. ASSUME NEW k \in 1 .. Len(more) PROVE more[k].turn = last + 1 - Len(more) + k
  <2>1. k \in 1 .. n \/ k = n + 1
    BY <1>1, <1>4
  <2>2. CASE k \in 1 .. n
    <3>1. turns[k].turn = last - n + k
      BY <2>2 DEF Tally
    <3> HIDE DEF more, n
    <3> QED BY <1>1, <1>2, <2>2, <3>1
  <2>3. CASE k = n + 1
    <3> HIDE DEF more, n
    <3> QED BY <1>1, <1>3, <2>3
  <2> QED BY <2>1, <2>2, <2>3
<1>5. seen = last + 1 - Len(more) \/ (seen = 0 /\ more # <<>>)
  <2>1. seen = last - n \/ seen = 0
    BY DEF Tally
  <2> HIDE DEF more, n
  <2> QED BY <1>1, <2>1
<1> QED BY <1>4, <1>5 DEF Tally

LEMMA TallyFirst ==
    ASSUME NEW t \in TurnPackets, NEW last \in Nat, t.turn = last
    PROVE  Tally(<<t>>, last, 0)
<1>1. Len(<<t>>) = 1 /\ <<t>> # <<>> /\ <<t>>[1] = t
  OBVIOUS
<1>2. \A k \in 1 .. 1 : k = 1
  OBVIOUS
<1> QED BY <1>1, <1>2 DEF Tally

LEMMA TallyHead ==
    ASSUME NEW turns \in Seq(TurnPackets), NEW last \in Nat, NEW seen, NEW t \in TurnPackets,
           Tally(<<t>> \o turns, last, seen)
    PROVE  Tally(turns, last, t.turn)
<1> DEFINE n == Len(turns)
           all == <<t>> \o turns
<1>1. n \in Nat /\ Len(all) = n + 1 /\ all[1] = t /\ 1 \in 1 .. n + 1
  OBVIOUS
<1>2. \A k \in 1 .. n : all[k + 1] = turns[k] /\ k + 1 \in 1 .. n + 1 /\ k \in Nat
  OBVIOUS
<1>3. \A k \in 1 .. n + 1 : all[k].turn = last - (n + 1) + k
  BY <1>1 DEF Tally
<1> HIDE DEF all, n
<1>4. ASSUME NEW k \in 1 .. n PROVE turns[k].turn = last - n + k
  <2>1. all[k + 1].turn = last - (n + 1) + (k + 1)
    BY <1>2, <1>3
  <2>2. last - (n + 1) + (k + 1) = last - n + k
    BY <1>1, <1>2
  <2> QED BY <1>2, <2>1, <2>2
<1>5. t.turn = last - n
  <2>1. t.turn = last - (n + 1) + 1
    BY <1>1, <1>3
  <2> QED BY <1>1, <2>1
<1> QED BY <1>4, <1>5 DEF Tally, n

\* The streams of turns.
LEMMA StreamParts ==
    ASSUME Typed, NEW x \in Programs, NEW y \in Programs \ {x}, NEW i \in Slots
    PROVE  /\ peers[x][i].sendQueue \in Seq(Packets)
           /\ Stream(x, y, i) = Among(Mail(x, y), TurnPackets) \o Among(peers[x][i].sendQueue, TurnPackets)
           /\ Stream(x, y, i) \in Seq(TurnPackets)
<1> DEFINE m == Mail(x, y)
           q == peers[x][i].sendQueue
<1>1. m \in Seq(Packets)
  BY MailLanes
<1>2. q \in Seq(Packets)
  <2>1. Seq(Held) \subseteq Seq(Packets)
    BY KindsOfPackets, SeqMonotonicHere
  <2> QED BY <2>1 DEF Typed, PeerTables, PeerType
<1>3. Stream(x, y, i) = Among(m \o q, TurnPackets)
  BY DEF Stream
<1> HIDE DEF m, q
<1>4. Among(m \o q, TurnPackets) = Among(m, TurnPackets) \o Among(q, TurnPackets)
  BY <1>1, <1>2, AmongConcat
<1>5. m \o q \in Seq(Packets)
  BY <1>1, <1>2
<1>6. Among(m \o q, TurnPackets) \in Seq(Packets \cap TurnPackets)
  BY <1>5, AmongType
<1>7. Packets \cap TurnPackets = TurnPackets
  BY Kinds
<1> QED BY <1>2, <1>3, <1>4, <1>6, <1>7 DEF m, q

\* Where no turns are counted none are underway.
LEMMA NoTurns ==
    ASSUME Typed, NEW x \in Programs, NEW y \in Programs \ {x}, Cnt(x, y, TurnPackets) = 0
    PROVE  Among(Mail(x, y), TurnPackets) = <<>>
<1> DEFINE a == L1(x, y)
           b == L2(x, y)
           c == L3(x, y)
           A(s) == Among(s, TurnPackets)
<1>1. a \in Seq(Packets) /\ b \in Seq(Packets) /\ c \in Seq(Packets)
  BY LanesTyped
<1>2. Len(A(a)) + Len(A(b)) + Len(A(c)) = 0
  BY DEF Cnt, Count
<1>3. /\ fd[x][y] = NoConnection \/ fd[x][y] = <<x, y>> \/ fd[x][y] = <<y, x>>
      /\ fd[x][y] = NoConnection => Mail(x, y) = c
      /\ fd[x][y] = <<x, y>> => Mail(x, y) = a \o c
      /\ fd[x][y] = <<y, x>> => Mail(x, y) = b \o c
  BY MailLanes
<1> HIDE DEF a, b, c
<1>4. A(a) \in Seq(Packets) /\ A(b) \in Seq(Packets) /\ A(c) \in Seq(Packets)
  BY <1>1, AmongType
<1>5. A(a \o c) = A(a) \o A(c) /\ A(b \o c) = A(b) \o A(c)
  BY <1>1, AmongConcat, SMTT(30)
<1> HIDE DEF A
<1>6. A(a) = <<>> /\ A(b) = <<>> /\ A(c) = <<>>
  <2> DEFINE p == A(a)
             q == A(b)
             r == A(c)
  <2>1. p \in Seq(Packets) /\ q \in Seq(Packets) /\ r \in Seq(Packets) /\ Len(p) + Len(q) + Len(r) = 0
    BY <1>2, <1>4
  <2> HIDE DEF p, q, r
  <2>2. Len(p) \in Nat /\ Len(q) \in Nat /\ Len(r) \in Nat
    BY <2>1
  <2>3. Len(p) = 0 /\ Len(q) = 0 /\ Len(r) = 0
    BY <2>1, <2>2
  <2>4. p = <<>> /\ q = <<>> /\ r = <<>>
    BY <2>1, <2>3
  <2> QED BY <2>4 DEF p, q, r
<1>7. <<>> \o <<>> = <<>>
  OBVIOUS
<1>8. A(Mail(x, y)) = <<>>
  BY <1>3, <1>5, <1>6, <1>7
<1> QED BY <1>8 DEF A

\* A packet of the game that may be held back arrives only where the sender is known.
LEMMA HeldArrives ==
    ASSUME Typed, InvS, InvI, InvA, InvQ, NEW e \in Programs, e \notin gone, NEW g \in Programs \ {e}, Gets(e, g),
           Arrived(e, g) \in Held
    PROVE  Joined(e) /\ ~ Intro(e, g)
<1> DEFINE p == Arrived(e, g)
           a == L1(g, e)
           b == L2(g, e)
<1>1. \/ fd[e][g] = <<e, g>> /\ b # <<>> /\ p = Head(b)
      \/ fd[e][g] = <<g, e>> /\ a # <<>> /\ p = Head(a)
  <2>1. fd[e][g] \in {<<e, g>>, <<g, e>>}
    BY FdShape DEF Gets
  <2>2. fd[e][g] = <<e, g>> => b # <<>> /\ p = Head(b)
    BY DEF Gets, Arrived, L2
  <2>3. fd[e][g] = <<g, e>> => a # <<>> /\ p = Head(a)
    BY DEF Gets, Arrived, L1
  <2>4. fd[e][g] = <<e, g>> \/ fd[e][g] = <<g, e>>
    BY <2>1
  <2> QED BY <2>2, <2>3, <2>4, Zenon
<1>2. a \in Seq(Packets) /\ b \in Seq(Packets) /\ L3(g, e) \in Seq(Packets) /\ p \in Held /\ p \in Packets
  BY LanesTyped, Kinds
<1>3. Cnt(g, e, Held) > 0
  <2>1. Count(a, Held) \in Nat /\ Count(b, Held) \in Nat /\ Count(L3(g, e), Held) \in Nat
    BY <1>2, CountBasics
  <2>2. Cnt(g, e, Held) = Count(a, Held) + Count(b, Held) + Count(L3(g, e), Held)
    BY DEF Cnt
  <2>3. Count(a, Held) > 0 \/ Count(b, Held) > 0
    <3> HIDE DEF a, b, p
    <3>1. CASE b # <<>> /\ p = Head(b)
      <4>1. Tail(b) \in Seq(Packets) /\ Count(b, Held) = Count(Tail(b), Held) + (IF Head(b) \in Held THEN 1 ELSE 0)
        BY <1>2, <3>1, CountHead
      <4>2. Count(Tail(b), Held) \in Nat
        BY <4>1, CountBasics
      <4> QED BY <1>2, <3>1, <4>1, <4>2
    <3>2. CASE a # <<>> /\ p = Head(a)
      <4>1. Tail(a) \in Seq(Packets) /\ Count(a, Held) = Count(Tail(a), Held) + (IF Head(a) \in Held THEN 1 ELSE 0)
        BY <1>2, <3>2, CountHead
      <4>2. Count(Tail(a), Held) \in Nat
        BY <4>1, CountBasics
      <4> QED BY <1>2, <3>2, <4>1, <4>2
    <3> QED BY <1>1, <3>1, <3>2
  <2> HIDE DEF a, b
  <2> QED BY <2>1, <2>2, <2>3
<1>4. (Joined(e) /\ ~ Intro(e, g)) \/ Cnt(g, e, Accepts) > 0
  BY <1>3 DEF InvQ, Ready
<1> SUFFICES ASSUME Cnt(g, e, Accepts) > 0 PROVE FALSE
  BY <1>4
<1>5. Accepted(g, e)
  BY DEF InvA
<1>6. <<e, g>> # <<g, e>>
  BY PairTypes
<1>7. b # <<>> /\ p = Head(b) /\ Ahead(b)
  BY <1>1, <1>5, <1>6 DEF Accepted
<1>8. p \notin Accepts
  BY <1>2, Kinds
<1> HIDE DEF b, p
<1> QED BY <1>2, <1>7, <1>8, AheadTail

LEMMA TurnFromPlayer ==
    ASSUME Typed, InvN, InvS, InvI, InvA, InvQ, NEW e \in Programs, e \notin gone, NEW g \in Programs \ {e},
           Gets(e, g), Arrived(e, g) \in TurnPackets, Rel(e, g), Arrived(e, g) \in Flying(g, e)
    PROVE  IsFromPlayer(e, g)
<1> DEFINE p == Arrived(e, g)
<1>1. p \in Held /\ p \in Game /\ p \in Packets
  BY Kinds
<1>2. Joined(e) /\ ~ Intro(e, g)
  BY <1>1, HeldArrives
<1>3. SentByPlayer(g, e, p)
  BY <1>1, GameFlying
<1>4. PICK i \in Slots : KnowsAt(e, g, i)
  BY <1>2 DEF Rel, Met
<1>5. PICK n \in Slots : Numbered(g, n)
  BY DEF InvN
<1>6. plr_self[g] = n /\ i = n /\ p.src = n
  BY <1>3, <1>4, <1>5 DEF Numbered, SentByPlayer
<1>7. PICK m \in Slots : Numbered(e, m)
  BY DEF InvN
<1>8. plr_self[e] = m /\ p.dst \in {m, PLR_BROADCAST}
  BY <1>1, <1>2, <1>7 DEF Numbered
<1> QED BY <1>4, <1>6, <1>8 DEF IsFromPlayer, KnowsAt

LEMMA MailAssociates == \A s, t, u \in Seq(Packets) : (s \o t) \o u = s \o (t \o u)
OBVIOUS

\* Nothing of the game is on its way to a player that is yet to be introduced.
LEMMA IntroNoTurns ==
    ASSUME Typed, InvS, NEW x \in Programs, x \notin gone, NEW y \in Programs \ {x}, Intro(x, y)
    PROVE  Cnt(x, y, TurnPackets) = 0
<1>1. ASSUME Cnt(x, y, TurnPackets) > 0 PROVE FALSE
  <2>1. PICK p \in Flying(x, y) : p \in TurnPackets
    BY <1>1, FlyingIn
  <2>2. SentByPlayer(x, y, p)
    BY <2>1, Kinds, GameFlying
  <2> QED BY <2>2 DEF SentByPlayer
<1>2. Cnt(x, y, TurnPackets) \in Nat
  BY LanesTyped
<1> QED BY <1>1, <1>2

LEMMA ActSendsTurns ==
    ASSUME Typed, Typed', InvI, InvN, InvS, InvW, InvC, InvV, InvT,
           NEW e \in Programs, NEW g \in Programs, NEW others, NEW out, NEW extra,
           Act(e, g, others, out, extra), Counts(e, g, out),
           NEW y \in Programs \ {e}, NEW i \in Slots,
           Bond(e, y)', ~ awaiting'[e], KnowsAt(e, y, i)', i \notin taken'[e]
    PROVE  Tally(Stream(e, y, i)', sent'[e], got'[y][e])
<1>0. Talk(e, g, out, extra) /\ Move(e, g, others, out)
  BY DEF Act
<1>1. Bond(e, y) /\ y \notin others
  BY ActBond
<1>2. LinkOk(e, y) /\ (Intro(e, y) => got[y][e] = 0) /\ e \notin gone
  BY <1>1 DEF InvC, Bond
<1>3. got'[y] = got[y]
  BY <1>0 DEF Talk, Alone
<1> DEFINE T == TurnPackets
           m == Mail(e, y)
           q == peers[e][i].sendQueue
           r == peers'[e][i].sendQueue
           o == out[y]
           A(s) == Among(s, T)
<1>4. m \in Seq(Packets) /\ q \in Seq(Packets) /\ o \in Seq(Packets) /\ r \in Seq(Packets)
  <2>1. Seq(Held) \subseteq Seq(Packets)
    BY KindsOfPackets, SeqMonotonicHere
  <2>2. r \in Seq(Held)
    <3>1. peers'[e] \in [Slots -> PeerType]
      BY DEF Typed, PeerTables, Slots, PeerType, Endpoints, Held, Packets, EchoTypes, PLR_BROADCAST, PLR_MASTER, NoEndpoint
    <3> QED BY <3>1 DEF PeerType
  <2>3. o \in Seq(Packets)
    BY <1>0, LettersOf DEF Move
  <2> QED BY <2>1, <2>2, <2>3, MailLanes, StreamParts
<1>5. Stream(e, y, i) = A(m) \o A(q) /\ Stream(e, y, i) \in Seq(T)
  BY StreamParts
<1>6. Stream(e, y, i)' = A(m) \o A(o \o r)
  <2>1. Mail(e, y)' = m \o o
    BY <1>0, <1>1, <1>2, MailSends
  <2>2. Stream(e, y, i)' = A((m \o o) \o r)
    BY <2>1 DEF Stream, TurnPackets
  <2> HIDE DEF m, o, r, q
  <2>5. m \in Seq(Packets) /\ o \in Seq(Packets) /\ r \in Seq(Packets)
    BY <1>4
  <2>6. o \o r \in Seq(Packets)
    BY <2>5
  <2>7. (m \o o) \o r = m \o (o \o r)
    <3>1. \A s, t, u \in Seq(Packets) : (s \o t) \o u = s \o (t \o u)
      BY MailAssociates
    <3> QED BY <2>5, <3>1, Zenon
  <2>3. (m \o o) \o r = m \o (o \o r) /\ o \o r \in Seq(Packets)
    BY <2>6, <2>7
  <2>4. A(m \o (o \o r)) = A(m) \o A(o \o r)
    <3> DEFINE w == o \o r
    <3>1. m \in Seq(Packets) /\ w \in Seq(Packets)
      BY <2>5, <2>6
    <3> HIDE DEF w
    <3>2. Among(m \o w, TurnPackets) = Among(m, TurnPackets) \o Among(w, TurnPackets)
      BY <3>1, AmongConcat
    <3> QED BY <3>2 DEF w
  <2> QED BY <2>2, <2>3, <2>4
<1>7. A(m) \in Seq(Packets) /\ A(q) \in Seq(Packets)
  BY <1>4, AmongType
<1>8. sent[e] \in Nat /\ sent'[e] \in Nat
  BY DEF Typed
<1>9. Queues(e, y, i, out) = A(o \o r)
  BY DEF Queues
<1>10. KnowsAt(e, y, i) /\ ~ awaiting[e] /\ i \notin taken[e] => Tally(A(m) \o A(q), sent[e], got[y][e])
  BY <1>1, <1>5 DEF InvT
<1>11. awaiting[e] \/ Intro(e, y) => A(m) = <<>> /\ got[y][e] = 0
  <2> SUFFICES ASSUME awaiting[e] \/ Intro(e, y) PROVE A(m) = <<>> /\ got[y][e] = 0
    OBVIOUS
  <2>1. Cnt(e, y, TurnPackets) = 0 /\ got[y][e] = 0
    BY <1>2, IntroNoTurns DEF InvV
  <2> QED BY <2>1, NoTurns
<1>12. CASE SameTurns(e, y, i, out)
  <2> HIDE DEF A, m, q, o, r
  <2> QED BY <1>3, <1>6, <1>9, <1>10, <1>12 DEF SameTurns, A, q
<1>13. CASE OneTurnMore(e, y, i, out)
  <2>1. PICK t \in TurnPackets : t.turn = sent'[e] /\ Queues(e, y, i, out) = Append(A(q), t)
    BY <1>13 DEF OneTurnMore
  <2> DEFINE turns == A(m) \o A(q)
  <2>2. Tally(turns, sent[e], got[y][e]) /\ turns \in Seq(T) /\ sent'[e] = sent[e] + 1
    BY <1>5, <1>10, <1>13 DEF OneTurnMore
  <2>4. A(m) \o Append(A(q), t) = Append(turns, t)
    <3> DEFINE u == A(m)
               v == A(q)
    <3>1. u \in Seq(Packets) /\ v \in Seq(Packets) /\ t \in Packets
      BY <1>7, Kinds
    <3> HIDE DEF u, v
    <3>2. u \o Append(v, t) = Append(u \o v, t)
      BY <3>1, AppendBehind
    <3> QED BY <3>2 DEF u, v
  <2> HIDE DEF A, m, q, o, r, turns
  <2>5. Stream(e, y, i)' = Append(turns, t)
    BY <1>6, <1>9, <2>1, <2>4
  <2>6. Tally(Append(turns, t), sent[e] + 1, got[y][e])
    BY <1>8, <2>1, <2>2, TallySame
  <2> QED BY <1>3, <2>2, <2>5, <2>6
<1>14. CASE FirstOfTurns(e, g, y, i, out)
  <2>1. awaiting[e] \/ Intro(e, y)
    BY <1>0, <1>14, TalkLearns DEF FirstOfTurns
  <2>2. PICK t \in TurnPackets : t.turn = sent'[e] /\ Queues(e, y, i, out) = <<t>>
    BY <1>14 DEF FirstOfTurns
  <2>3. A(m) = <<>> /\ got[y][e] = 0
    BY <1>11, <2>1
  <2> HIDE DEF A, m, q, o, r
  <2>4. <<>> \o <<t>> = <<t>>
    OBVIOUS
  <2>5. Stream(e, y, i)' = <<t>>
    BY <1>6, <1>9, <2>2, <2>3, <2>4
  <2>6. Tally(<<t>>, sent'[e], 0)
    BY <1>8, <2>2, TallyFirst
  <2> QED BY <1>3, <2>3, <2>5, <2>6
<1>15. SameTurns(e, y, i, out) \/ OneTurnMore(e, y, i, out) \/ FirstOfTurns(e, g, y, i, out)
  BY DEF Counts
<1> QED BY <1>12, <1>13, <1>14, <1>15

LEMMA ActGetsTurns ==
    ASSUME Typed, Typed', InvI, InvN, InvS, InvW, InvA, InvQ, InvC, InvT,
           NEW e \in Programs, NEW g \in Programs, NEW others, NEW out, NEW extra,
           Act(e, g, others, out, extra), Heard(e, g, others),
           NEW x \in Programs \ {e}, NEW i \in Slots,
           Bond(x, e)', ~ awaiting'[x], KnowsAt(x, e, i)', i \notin taken'[x]
    PROVE  Tally(Stream(x, e, i)', sent'[x], got'[e][x])
<1>0. Talk(e, g, out, extra) /\ Move(e, g, others, out) /\ e \notin gone
  BY DEF Act, Talk
<1>1. Bond(x, e) /\ x \notin others
  BY ActBond
<1>2. LinkOk(x, e) /\ (Intro(x, e) => got[e][x] = 0)
  BY <1>1 DEF InvC
<1>3. peers'[x] = peers[x] /\ awaiting'[x] = awaiting[x] /\ taken'[x] = taken[x] /\ sent'[x] = sent[x]
  BY <1>0 DEF Talk, Alone
<1> DEFINE T == TurnPackets
           m == Mail(x, e)
           n == Mail(x, e)'
           q == peers[x][i].sendQueue
           A(s) == Among(s, T)
           a == Arrived(e, g)
<1>4. KnowsAt(x, e, i) /\ ~ awaiting[x] /\ i \notin taken[x]
  BY <1>3 DEF KnowsAt
<1>5. Tally(Stream(x, e, i), sent[x], got[e][x])
  BY <1>1, <1>4 DEF InvT
<1>6. (x # g => n = m) /\ (x = g => m = <<a>> \o n)
  BY <1>0, <1>1, <1>2, MailReceives
<1>7. Stream(x, e, i)' = Among(n \o q, T) /\ Stream(x, e, i) = Among(m \o q, T)
  BY <1>3 DEF Stream, TurnPackets
<1>8. CASE x # g
  <2>1. got'[e][x] = got[e][x]
    BY <1>1, <1>8 DEF Heard
  <2> HIDE DEF m, n, q
  <2> QED BY <1>3, <1>5, <1>6, <1>7, <1>8, <2>1
<1>9. CASE x = g
  <2>0. m \in Seq(Packets) /\ n \in Seq(Packets) /\ q \in Seq(Packets) /\ a \in Packets
    <3>1. m \in Seq(Packets) /\ q \in Seq(Packets)
      BY MailLanes, StreamParts
    <3>2. n \in Seq(Packets)
      <4>1. fd'[x][e] = NoConnection \/ fd'[x][e] = <<x, e>> \/ fd'[x][e] = <<e, x>>
        BY <1>0, FdShape DEF Move
      <4> DEFINE u == L1(x, e)'
                 v == L2(x, e)'
                 w == L3(x, e)'
      <4>2. u \in Seq(Packets) /\ v \in Seq(Packets) /\ w \in Seq(Packets)
        BY LanesTypedAfter
      <4>3. n = w \/ n = u \o w \/ n = v \o w
        BY <4>1, MailLanesAfter
      <4> HIDE DEF n, u, v, w
      <4>4. u \o w \in Seq(Packets) /\ v \o w \in Seq(Packets)
        BY <4>2
      <4> QED BY <4>2, <4>3, <4>4
    <3>3. a \in Packets
      BY <1>0, <1>9, RestShape DEF Talk, Gets
    <3> QED BY <3>1, <3>2, <3>3
  <2>1. A(m \o q) = A(<<a>>) \o A(n \o q)
    <3> DEFINE one == <<a>>
    <3>1. one \in Seq(Packets)
      BY <2>0
    <3> HIDE DEF m, n, q, one, A, a
    <3>5. n \in Seq(Packets) /\ q \in Seq(Packets)
      BY <2>0
    <3>6. n \o q \in Seq(Packets)
      BY <3>5
    <3>7. (one \o n) \o q = one \o (n \o q)
      <4>1. \A s, t, u \in Seq(Packets) : (s \o t) \o u = s \o (t \o u)
        BY MailAssociates
      <4> QED BY <3>1, <3>5, <4>1, Zenon
    <3>2. (one \o n) \o q = one \o (n \o q) /\ n \o q \in Seq(Packets)
      BY <3>6, <3>7
    <3>3. A(one \o (n \o q)) = A(one) \o A(n \o q)
      <4> DEFINE w == n \o q
      <4>1. one \in Seq(Packets) /\ w \in Seq(Packets)
        BY <3>1, <3>6
      <4> HIDE DEF w
      <4>2. Among(one \o w, TurnPackets) = Among(one, TurnPackets) \o Among(w, TurnPackets)
        BY <4>1, AmongConcat
      <4> QED BY <4>2 DEF w, A
    <3>4. m = one \o n
      BY <1>6, <1>9 DEF one
    <3> QED BY <3>2, <3>3, <3>4 DEF one
  <2>2. A(<<a>>) = IF a \in T THEN <<a>> ELSE <<>>
    <3>1. a \in Packets /\ <<>> \in Seq(Packets) /\ Append(<<>>, a) = <<a>>
      BY <2>0
    <3> HIDE DEF a, A
    <3>2. A(Append(<<>>, a)) = IF a \in T THEN Append(A(<<>>), a) ELSE A(<<>>)
      BY <3>1, AmongAppend DEF A
    <3>3. A(<<>>) = <<>>
      BY AmongEmpty DEF A
    <3> QED BY <3>1, <3>2, <3>3
  <2>3. A(n \o q) \in Seq(T)
    <3> HIDE DEF n, q
    <3>1. n \o q \in Seq(Packets)
      BY <2>0
    <3>2. A(n \o q) \in Seq(Packets \cap T)
      BY <3>1, AmongType
    <3> QED BY <3>2, Kinds
  <2>4. CASE a \notin T
    <3>1. got'[e][x] = got[e][x]
      BY <1>1, <1>9, <2>4 DEF Heard
    <3>2. Stream(x, e, i)' = Stream(x, e, i)
      <4> DEFINE s == A(n \o q)
      <4>1. Stream(x, e, i)' = s /\ Stream(x, e, i) = <<>> \o s
        BY <1>7, <2>1, <2>2, <2>4
      <4> HIDE DEF s
      <4>2. <<>> \o s = s
        BY <2>3 DEF s
      <4> QED BY <4>1, <4>2
    <3> QED BY <1>3, <1>5, <3>1, <3>2
  <2>5. CASE a \in T
    <3>1. a \in Flying(g, e) /\ Gets(e, g) /\ g # e
      BY <1>0, <1>9, TalkFlow DEF Talk
    <3>2. Rel(e, g)
      BY <1>1, <1>9 DEF Bond
    <3>3. IsFromPlayer(e, g)
      BY <1>0, <2>5, <3>1, <3>2, TurnFromPlayer
    <3>4. got'[e][g] = a.turn
      BY <2>5, <3>1, <3>3 DEF Heard
    <3> DEFINE s == A(n \o q)
    <3>5. Stream(x, e, i)' = s /\ Stream(x, e, i) = <<a>> \o s
      BY <1>7, <2>1, <2>2, <2>5
    <3>6. sent[x] \in Nat /\ s \in Seq(TurnPackets)
      BY <2>3 DEF Typed
    <3> HIDE DEF s, a
    <3>7. Tally(s, sent[x], a.turn)
      BY <1>5, <2>5, <3>5, <3>6, TallyHead
    <3> QED BY <1>3, <1>9, <3>4, <3>5, <3>7
  <2> QED BY <2>4, <2>5
<1> QED BY <1>8, <1>9

LEMMA ActInvT ==
    ASSUME Typed, Typed', InvI, InvN, InvS, InvW, InvA, InvQ, InvC, InvV, InvT,
           NEW e \in Programs, NEW g \in Programs, NEW others, NEW out, NEW extra,
           Act(e, g, others, out, extra), Counts(e, g, out), Heard(e, g, others)
    PROVE  InvT'
<1> SUFFICES ASSUME NEW x \in Programs, NEW y \in Programs \ {x}, NEW i \in Slots,
                    Bond(x, y)', ~ awaiting'[x], KnowsAt(x, y, i)', i \notin taken'[x]
             PROVE  Tally(Stream(x, y, i)', sent'[x], got'[y][x])
  BY DEF InvT, Tally, Slots
<1>1. CASE x = e
  BY <1>1, ActSendsTurns
<1>2. CASE y = e
  BY <1>2, ActGetsTurns
<1>3. CASE x # e /\ y # e
  <2>0. Talk(e, g, out, extra) /\ Move(e, g, others, out)
    BY DEF Act
  <2>1. /\ peers'[x] = peers[x] /\ awaiting'[x] = awaiting[x] /\ taken'[x] = taken[x]
        /\ sent'[x] = sent[x] /\ got'[y] = got[y]
    BY <1>3, <2>0 DEF Talk, Alone
  <2>2. Bond(x, y)
    BY ActBond
  <2>3. KnowsAt(x, y, i)
    BY <2>1 DEF KnowsAt
  <2>4. Tally(Stream(x, y, i), sent[x], got[y][x])
    BY <2>1, <2>2, <2>3 DEF InvT
  <2>5. Mail(x, y)' = Mail(x, y)
    <3>1. SameLanes(x, y) /\ fd'[x] = fd[x]
      BY <1>3, <2>0 DEF Move
    <3>2. fd[x][y] = NoConnection \/ fd[x][y] = <<x, y>> \/ fd[x][y] = <<y, x>>
      BY FdShape
    <3> QED BY <3>1, <3>2 DEF Mail, SameLanes, L1, L2, L3, NoConnection
  <2>6. Stream(x, y, i)' = Stream(x, y, i)
    BY <2>1, <2>5 DEF Stream, TurnPackets
  <2> QED BY <2>1, <2>4, <2>6
<1> QED BY <1>1, <1>2, <1>3

--------------------------------------------------------------------------------
(* What a program says in one step: packets to some players, and what it held  *)
(* back for others.                                                            *)

\* No endpoint is in two slots, and nothing is held back where nothing is to be waited for.
Sole(table) ==
    /\ \A i, j \in Slots : table[i].endpoint # NoEndpoint /\ table[i].endpoint = table[j].endpoint => i = j
    /\ \A i \in Slots : ~ table[i].queued => table[i].sendQueue = <<>>
Silent(s) == \A f \in Programs : s.to[f] = <<>>

Kept(base, players, pk, i) ==
    IF i \in players /\ Holds(base.peers[i], pk[i]) THEN Append(base.peers[i].sendQueue, pk[i])
    ELSE base.peers[i].sendQueue
AtOnce(base, players, pk, i) ==
    IF i \in players /\ ~ Holds(base.peers[i], pk[i]) THEN <<pk[i]>> ELSE <<>>
Spoken(base, players, pk, drained, r) ==
    /\ r \in Steps
    /\ \A i \in Slots :
           /\ r.peers[i].endpoint = base.peers[i].endpoint
           /\ r.peers[i].queued <=> base.peers[i].queued /\ i \notin drained
           /\ r.peers[i].sendQueue = IF i \in drained THEN <<>> ELSE Kept(base, players, pk, i)
    /\ \A y \in Programs :
           /\ (\A i \in Slots : base.peers[i].endpoint # <<y>>) => r.to[y] = <<>>
           /\ \A i \in Slots : base.peers[i].endpoint = <<y>> =>
                  r.to[y] = AtOnce(base, players, pk, i) \o
                                (IF i \in drained THEN Kept(base, players, pk, i) ELSE <<>>)

LEMMA KeptTypes ==
    ASSUME NEW base \in Steps, NEW players, NEW pk \in [Slots -> Game], NEW i \in Slots, NEW S,
           base.peers[i].sendQueue \in Seq(S), i \in players => pk[i] \in S
    PROVE  /\ Kept(base, players, pk, i) \in Seq(S) /\ AtOnce(base, players, pk, i) \in Seq(S)
           /\ AtOnce(base, players, pk, i) \o Kept(base, players, pk, i) \in Seq(S)
<1> DEFINE q == base.peers[i].sendQueue
           p == pk[i]
<1>1. q \in Seq(S) /\ <<>> \in Seq(S) /\ (p \in S => Append(q, p) \in Seq(S) /\ <<p>> \in Seq(S))
  OBVIOUS
<1>2. Kept(base, players, pk, i) \in Seq(S)
  <2> HIDE DEF q, p
  <2>1. Kept(base, players, pk, i) \in {Append(q, p), q} /\ (i \notin players => Kept(base, players, pk, i) = q)
    BY DEF Kept, q, p
  <2>2. i \in players => p \in S
    BY DEF p
  <2> QED BY <1>1, <2>1, <2>2
<1>3. AtOnce(base, players, pk, i) \in Seq(S)
  <2> HIDE DEF q, p
  <2>1. AtOnce(base, players, pk, i) \in {<<p>>, <<>>} /\ (i \notin players => AtOnce(base, players, pk, i) = <<>>)
    BY DEF AtOnce, p
  <2>2. i \in players => p \in S
    BY DEF p
  <2> QED BY <1>1, <2>1, <2>2
<1> DEFINE a == AtOnce(base, players, pk, i)
           k == Kept(base, players, pk, i)
<1>4. a \in Seq(S) /\ k \in Seq(S)
  BY <1>2, <1>3
<1> HIDE DEF a, k
<1>5. a \o k \in Seq(S)
  BY <1>4
<1> QED BY <1>4, <1>5 DEF a, k

LEMMA SentSpoken ==
    ASSUME NEW base \in Steps, Silent(base), Sole(base.peers), NEW players, NEW pk \in [Slots -> Game],
           NEW s, SentTo(base, players, pk, N, s)
    PROVE  Spoken(base, players, pk, {}, s)
<1>0. \A i \in Slots : i < N
  BY Numbers
<1>1. s \in Steps
  BY DEF SentTo
<1>2. ASSUME NEW i \in Slots
      PROVE  /\ s.peers[i].endpoint = base.peers[i].endpoint
             /\ s.peers[i].queued <=> base.peers[i].queued
             /\ s.peers[i].sendQueue = Kept(base, players, pk, i)
  <2>1. base.peers[i] \in PeerType /\ pk[i] \in Game
    BY DEF Steps, PeerTables
  <2>2. CASE i \in players /\ Holds(base.peers[i], pk[i])
    <3>1. s.peers[i] = HeldBack(base.peers[i], pk[i])
      BY <1>0, <2>2 DEF SentTo
    <3>2. pk[i] \in Held
      BY <2>1, <2>2, KindsOfPackets DEF Holds
    <3> DEFINE peer == base.peers[i]
               p == pk[i]
    <3> HIDE DEF peer, p
    <3>3. /\ HeldBack(peer, p).endpoint = peer.endpoint /\ HeldBack(peer, p).queued = peer.queued
          /\ HeldBack(peer, p).sendQueue = Append(peer.sendQueue, p)
      BY <2>1, <3>2, HeldBackType DEF peer, p
    <3> QED BY <2>2, <3>1, <3>3 DEF Kept, peer, p
  <2>3. CASE ~ (i \in players /\ Holds(base.peers[i], pk[i]))
    <3>1. s.peers[i] = base.peers[i]
      BY <2>3 DEF SentTo
    <3> QED BY <2>3, <3>1 DEF Kept
  <2> QED BY <2>2, <2>3
<1>3. ASSUME NEW y \in Programs, \A i \in Slots : base.peers[i].endpoint # <<y>>
      PROVE  s.to[y] = <<>>
  <2>1. \A i \in Slots : ~ Direct(base, players, pk, i, y)
    BY <1>3 DEF Direct
  <2>2. s.to[y] = base.to[y]
    BY <2>1 DEF SentTo
  <2> QED BY <2>2 DEF Silent
<1>4. ASSUME NEW y \in Programs, NEW i \in Slots, base.peers[i].endpoint = <<y>>
      PROVE  s.to[y] = AtOnce(base, players, pk, i) \o <<>>
  <2>0. base.to[y] = <<>> /\ <<y>> # NoEndpoint
    BY ConnectionTypes DEF Silent
  <2>1. \A j \in Slots : base.peers[j].endpoint = <<y>> => j = i
    BY <1>4, <2>0 DEF Sole
  <2>2. CASE Direct(base, players, pk, i, y)
    <3>1. \A j \in Slots : j < N /\ Direct(base, players, pk, j, y) => j = i
      BY <2>1 DEF Direct
    <3>2. s.to[y] = Append(base.to[y], pk[i])
      BY <1>0, <2>2, <3>1 DEF SentTo
    <3>3. AtOnce(base, players, pk, i) = <<pk[i]>>
      BY <2>2 DEF Direct, AtOnce
    <3> DEFINE p == pk[i]
    <3> HIDE DEF p
    <3>4. Append(<<>>, p) = <<p>> \o <<>>
      OBVIOUS
    <3> QED BY <2>0, <3>2, <3>3, <3>4 DEF p
  <2>3. CASE ~ Direct(base, players, pk, i, y)
    <3>1. \A j \in Slots : ~ Direct(base, players, pk, j, y)
      BY <2>1, <2>3 DEF Direct
    <3>2. s.to[y] = base.to[y]
      BY <3>1 DEF SentTo
    <3>3. AtOnce(base, players, pk, i) = <<>>
      BY <1>4, <2>3 DEF Direct, AtOnce
    <3>4. <<>> \o <<>> = <<>>
      OBVIOUS
    <3> QED BY <2>0, <3>2, <3>3, <3>4
  <2> QED BY <2>2, <2>3
<1> QED BY <1>1, <1>2, <1>3, <1>4 DEF Spoken

LEMMA DrainSpoken ==
    ASSUME NEW base \in Steps, Sole(base.peers), NEW players, NEW pk \in [Slots -> Game],
           NEW s, Spoken(base, players, pk, {}, s), NEW j \in Slots
    PROVE  Spoken(base, players, pk, {j}, DrainSendQueue(s, j))
<1> DEFINE r == DrainSendQueue(s, j)
<1>1. s \in Steps
  BY DEF Spoken
<1>2. /\ r \in Steps
      /\ r.peers = [s.peers EXCEPT ![j] = [s.peers[j] EXCEPT !.queued = FALSE, !.sendQueue = <<>>]]
      /\ \A f \in Programs : r.to[f] =
             IF s.peers[j].endpoint = <<f>> THEN s.to[f] \o s.peers[j].sendQueue ELSE s.to[f]
  BY <1>1, DrainStep
<1> HIDE DEF r
<1>3. s.peers \in [Slots -> PeerType]
  BY <1>1 DEF Steps, PeerTables
<1>4. /\ r.peers[j].endpoint = s.peers[j].endpoint /\ r.peers[j].queued = FALSE /\ r.peers[j].sendQueue = <<>>
      /\ \A i \in Slots : i # j => r.peers[i] = s.peers[i]
  BY <1>2, <1>3 DEF PeerType
<1>5. ASSUME NEW i \in Slots
      PROVE  /\ r.peers[i].endpoint = base.peers[i].endpoint
             /\ r.peers[i].queued <=> base.peers[i].queued /\ i \notin {j}
             /\ r.peers[i].sendQueue = IF i \in {j} THEN <<>> ELSE Kept(base, players, pk, i)
  <2>1. /\ s.peers[i].endpoint = base.peers[i].endpoint
        /\ s.peers[i].queued <=> base.peers[i].queued
        /\ s.peers[i].sendQueue = Kept(base, players, pk, i)
    BY DEF Spoken
  <2> QED BY <1>4, <2>1
<1>6. ASSUME NEW y \in Programs, \A i \in Slots : base.peers[i].endpoint # <<y>>
      PROVE  r.to[y] = <<>>
  <2>1. s.to[y] = <<>> /\ s.peers[j].endpoint # <<y>>
    BY <1>6 DEF Spoken
  <2> QED BY <1>2, <2>1
<1>7. ASSUME NEW y \in Programs, NEW i \in Slots, base.peers[i].endpoint = <<y>>
      PROVE  r.to[y] = AtOnce(base, players, pk, i) \o
                           (IF i \in {j} THEN Kept(base, players, pk, i) ELSE <<>>)
  <2> DEFINE a == AtOnce(base, players, pk, i)
             k == Kept(base, players, pk, i)
  <2>1. s.to[y] = a \o <<>> /\ s.peers[i].sendQueue = k /\ s.peers[i].endpoint = <<y>>
    BY <1>7 DEF Spoken
  <2>2. s.peers[j].endpoint = <<y>> <=> i = j
    <3>1. s.peers[j].endpoint = base.peers[j].endpoint
      BY DEF Spoken
    <3>2. <<y>> # NoEndpoint
      BY ConnectionTypes
    <3> QED BY <1>7, <3>1, <3>2 DEF Sole
  <2>3. a \in Seq(Game)
    <3> DEFINE p == pk[i]
    <3>1. a \in {<<p>>, <<>>} /\ p \in Game
      BY DEF AtOnce
    <3> HIDE DEF a, p
    <3>2. <<p>> \in Seq(Game) /\ <<>> \in Seq(Game)
      BY <3>1
    <3> QED BY <3>1, <3>2
  <2> HIDE DEF a, k
  <2>4. a \o <<>> = a
    BY <2>3
  <2> QED BY <1>2, <2>1, <2>2, <2>4 DEF a, k
<1>8. \A i \in Slots : r.peers[i].queued <=> base.peers[i].queued /\ i \notin {j}
  BY <1>5
<1>9. Spoken(base, players, pk, {j}, r)
  BY <1>2, <1>5, <1>6, <1>7 DEF Spoken
<1> QED BY <1>9 DEF r

\* Nothing is said, or something to one player.
LEMMA NoneSpoken ==
    ASSUME NEW base \in Steps, Silent(base), NEW pk
    PROVE  Spoken(base, {}, pk, {}, base)
<1>1. \A i \in Slots : AtOnce(base, {}, pk, i) = <<>> /\ Kept(base, {}, pk, i) = base.peers[i].sendQueue
  BY DEF AtOnce, Kept
<1>2. <<>> \o <<>> = <<>>
  OBVIOUS
<1> QED BY <1>1, <1>2 DEF Spoken, Silent

LEMMA OneSpoken ==
    ASSUME NEW base \in Steps, Silent(base), Sole(base.peers), NEW i \in Slots, NEW p \in Game
    PROVE  Spoken(base, {i}, [j \in Slots |-> p], {}, SendTo(base, i, p))
<1> DEFINE pk == [j \in Slots |-> p]
           s == SendTo(base, i, p)
<1>1. pk \in [Slots -> Game] /\ \A j \in Slots : pk[j] = p
  OBVIOUS
<1> HIDE DEF pk
<1>2. /\ s \in Steps
      /\ s.peers = IF Holds(base.peers[i], p) THEN [base.peers EXCEPT ![i] = HeldBack(base.peers[i], p)]
                   ELSE base.peers
      /\ \A f \in Programs : s.to[f] =
             IF ~ Holds(base.peers[i], p) /\ base.peers[i].endpoint = <<f>>
             THEN Append(base.to[f], p) ELSE base.to[f]
  BY SendToStep
<1> HIDE DEF s
<1>3. base.peers \in [Slots -> PeerType] /\ \A j \in Slots : j < N
  BY Numbers DEF Steps, PeerTables
<1>4. \A j \in Slots : s.peers[j] = IF j < N /\ j \in {i} /\ Holds(base.peers[j], pk[j])
                                   THEN HeldBack(base.peers[j], pk[j]) ELSE base.peers[j]
  BY <1>1, <1>2, <1>3
<1>5. ASSUME NEW f \in Programs
      PROVE  /\ (\A j \in Slots : j < N => ~ Direct(base, {i}, pk, j, f)) => s.to[f] = base.to[f]
             /\ \A j \in Slots : j < N /\ Direct(base, {i}, pk, j, f) => s.to[f] = Append(base.to[f], pk[j])
  BY <1>1, <1>2, <1>3 DEF Direct
<1>6. SentTo(base, {i}, pk, N, s)
  BY <1>2, <1>4, <1>5 DEF SentTo
<1>7. Spoken(base, {i}, pk, {}, s)
  BY <1>1, <1>6, SentSpoken
<1> QED BY <1>7 DEF pk, s

\* The turns that are said and kept: those that were kept, and a new one.
LEMMA SpokenTurns ==
    ASSUME NEW base \in Steps, Sole(base.peers), NEW players, NEW pk \in [Slots -> Game], NEW drained,
           NEW r, Spoken(base, players, pk, drained, r), NEW i \in Slots, NEW y \in Programs,
           base.peers[i].endpoint = <<y>>
    PROVE  Among(r.to[y] \o r.peers[i].sendQueue, TurnPackets) =
               IF i \in players /\ pk[i] \in TurnPackets
               THEN Append(Among(base.peers[i].sendQueue, TurnPackets), pk[i])
               ELSE Among(base.peers[i].sendQueue, TurnPackets)
<1> DEFINE q == base.peers[i].sendQueue
           p == pk[i]
           a == AtOnce(base, players, pk, i)
           k == Kept(base, players, pk, i)
           w == r.to[y] \o r.peers[i].sendQueue
<1>1. p \in Game /\ p \in Packets /\ base.peers[i] \in PeerType /\ q \in Seq(Packets)
  <2>1. Seq(Held) \subseteq Seq(Packets)
    BY SeqMonotonicHere, KindsOfPackets
  <2> QED BY <2>1, Kinds DEF Steps, PeerTables, PeerType
<1>2. a \in Seq(Packets) /\ k \in Seq(Packets)
  <2>1. i \in players => pk[i] \in Packets
    BY <1>1
  <2> QED BY <1>1, <2>1, KeptTypes
<1>3. w = a \o k
  <2>1. r.to[y] = a \o (IF i \in drained THEN k ELSE <<>>)
    BY DEF Spoken
  <2>2. r.peers[i].sendQueue = IF i \in drained THEN <<>> ELSE k
    BY DEF Spoken
  <2> HIDE DEF a, k
  <2>3. (a \o k) \o <<>> = a \o k /\ (a \o <<>>) \o k = a \o k
    BY <1>2
  <2> QED BY <2>1, <2>2, <2>3
<1>4. /\ i \in players /\ Holds(base.peers[i], p) => a = <<>> /\ k = Append(q, p) /\ p \in Held
      /\ i \in players /\ ~ Holds(base.peers[i], p) => a = <<p>> /\ k = q
      /\ i \in players /\ ~ Holds(base.peers[i], p) /\ p \in Held => q = <<>>
      /\ i \notin players => a = <<>> /\ k = q
  <2>1. p.type \in EchoTypes <=> p \notin Held
    BY <1>1, Kinds
  <2>2. ~ base.peers[i].queued => q = <<>>
    BY DEF Sole
  <2> QED BY <2>1, <2>2 DEF AtOnce, Kept, Holds
<1> HIDE DEF w, a, k, q, p
<1>5. <<>> \o k = k
  BY <1>2
<1>6. CASE i \notin players
  BY <1>3, <1>4, <1>5, <1>6 DEF w, q, p
<1>7. CASE i \in players /\ Holds(base.peers[i], p)
  <2>1. Among(Append(q, p), TurnPackets) =
            IF p \in TurnPackets THEN Append(Among(q, TurnPackets), p) ELSE Among(q, TurnPackets)
    BY <1>1, AmongAppend
  <2>2. w = Append(q, p)
    BY <1>3, <1>4, <1>5, <1>7
  <2> QED BY <1>7, <2>1, <2>2 DEF w, q, p
<1>8. CASE i \in players /\ ~ Holds(base.peers[i], p) /\ p \in Held
  <2>1. q = <<>> /\ w = <<p>> \o <<>>
    BY <1>3, <1>4, <1>8
  <2>2. <<p>> \o <<>> = Append(<<>>, p) /\ <<>> \in Seq(Packets)
    OBVIOUS
  <2>3. Among(Append(<<>>, p), TurnPackets) =
            IF p \in TurnPackets THEN Append(Among(<<>>, TurnPackets), p) ELSE Among(<<>>, TurnPackets)
    BY <1>1, <2>2, AmongAppend
  <2> QED BY <1>8, <2>1, <2>2, <2>3 DEF w, q, p
<1>9. CASE i \in players /\ ~ Holds(base.peers[i], p) /\ p \notin Held
  <2>1. w = <<p>> \o q /\ p \notin TurnPackets
    BY <1>3, <1>4, <1>9, Kinds
  <2> DEFINE one == <<p>>
             m == Among(one, TurnPackets)
             n == Among(q, TurnPackets)
  <2>2. one \in Seq({p}) /\ one \in Seq(Packets) /\ {p} \in SUBSET Packets
    BY <1>1
  <2>3. m = <<>>
    <3> DEFINE S == {p}
    <3>1. S \in SUBSET Packets /\ one \in Seq(S) /\ S \cap TurnPackets = {}
      BY <2>1, <2>2
    <3> HIDE DEF S, one
    <3>2. Among(one, TurnPackets) = <<>>
      BY <3>1, AmongNone
    <3> QED BY <3>2
  <2>4. n \in Seq(Packets)
    BY <1>1, AmongType
  <2> HIDE DEF one
  <2>5. Among(one \o q, TurnPackets) = m \o n
    BY <1>1, <2>2, AmongConcat
  <2> HIDE DEF m, n
  <2>6. m \o n = n
    BY <2>3, <2>4
  <2>7. Among(w, TurnPackets) = n
    BY <2>1, <2>5, <2>6 DEF one
  <2> QED BY <2>1, <2>7 DEF w, q, p, n
<1> QED BY <1>6, <1>7, <1>8, <1>9

LEMMA SeqBoth ==
    ASSUME NEW S, NEW T, NEW a \in Seq(S), a \in Seq(T)
    PROVE  a \in Seq(S \cap T)
OBVIOUS

\* What e has said is in its table and on its way, but for the players that it has lost.
Outcome(e, base, players, pk, drained, lost, r) ==
    /\ Spoken(base, players, pk, drained, r)
    /\ \A i \in Slots : peers'[e][i] = IF i \in lost THEN NoPeer ELSE r.peers[i]
    /\ \A i \in lost : i \notin players /\ i \notin drained
ProperAfter(e, i) == {p \in Game : Proper(e, i, p)'}
AllProper(e, base, players, pk, lost) ==
    \A i \in Slots : i \notin lost =>
        /\ i \in players => pk[i] \in ProperAfter(e, i)
        /\ base.peers[i].sendQueue \in Seq(HeldFor(e, i)')

LEMMA HeldForAfter ==
    ASSUME NEW e, NEW i
    PROVE  HeldFor(e, i)' = {p \in Held : Proper(e, i, p)'} /\ HeldFor(e, i)' = Held \cap ProperAfter(e, i)
BY Kinds DEF HeldFor, ProperAfter, Held, Packets, EchoTypes, Slots, PLR_BROADCAST, PLR_MASTER, Endpoints,
             NoEndpoint

LEMMA OutcomeTable ==
    ASSUME NEW e \in Programs, NEW base \in Steps, Sole(base.peers), NEW players,
           NEW pk \in [Slots -> Game], NEW drained, NEW lost, NEW r,
           Outcome(e, base, players, pk, drained, lost, r), AllProper(e, base, players, pk, lost),
           NEW i \in Slots
    PROVE  /\ ~ peers'[e][i].queued => peers'[e][i].sendQueue = <<>>
           /\ peers'[e][i].sendQueue \in Seq(HeldFor(e, i)')
           /\ base.peers[i] = NoPeer => peers'[e][i] = NoPeer
           /\ peers'[e][i].endpoint = IF i \in lost THEN NoEndpoint ELSE base.peers[i].endpoint
           /\ peers'[e][i].queued => base.peers[i].queued
           /\ i \notin lost /\ ~ peers'[e][i].queued => ~ base.peers[i].queued \/ i \in drained
           /\ i \in lost => peers'[e][i] = NoPeer
<1>1. CASE i \in lost
  <2>1. peers'[e][i] = NoPeer
    BY <1>1 DEF Outcome
  <2>2. <<>> \in Seq(HeldFor(e, i)')
    OBVIOUS
  <2> QED BY <1>1, <2>1, <2>2 DEF NoPeer
<1>2. CASE i \notin lost
  <2> DEFINE b == base.peers[i]
             k == Kept(base, players, pk, i)
             p == pk[i]
             q == b.sendQueue
             S == ProperAfter(e, i)
  <2>0. b \in PeerType /\ p \in Game
    BY DEF Steps, PeerTables
  <2>1. /\ peers'[e][i] = r.peers[i] /\ r.peers[i] \in PeerType
        /\ r.peers[i].endpoint = b.endpoint /\ (r.peers[i].queued <=> b.queued /\ i \notin drained)
        /\ r.peers[i].sendQueue = IF i \in drained THEN <<>> ELSE k
    BY <1>2 DEF Outcome, Spoken, Steps, PeerTables
  <2>2. ~ b.queued => q = <<>> /\ k = q
    BY DEF Sole, Kept, Holds
  <2>3. k \in Seq(Held)
    <3>1. q \in Seq(Held) /\ <<>> \in Seq(Held) /\ (p \in Held => Append(q, p) \in Seq(Held))
      BY <2>0 DEF PeerType
    <3>2. i \in players /\ Holds(b, p) => p \in Held
      BY <2>0, Kinds DEF Holds
    <3> QED BY <3>1, <3>2 DEF Kept
  <2>4. k \in Seq(S)
    <3>1. q \in Seq(Held \cap S)
      BY <1>2, HeldForAfter DEF AllProper
    <3>2. Held \cap S \subseteq S
      OBVIOUS
    <3>3. Seq(Held \cap S) \subseteq Seq(S)
      BY <3>2, SeqMonotonicHere
    <3>4. i \in players => pk[i] \in S
      BY <1>2 DEF AllProper
    <3>5. base.peers[i].sendQueue \in Seq(S)
      BY <3>1, <3>3
    <3> HIDE DEF S, k
    <3> QED BY <3>4, <3>5, KeptTypes DEF k
  <2>5. k \in Seq(HeldFor(e, i)')
    <3> HIDE DEF k, S
    <3>1. k \in Seq(Held \cap S)
      BY <2>3, <2>4, SeqBoth
    <3> QED BY <3>1, HeldForAfter DEF S
  <2>6. <<>> \in Seq(HeldFor(e, i)')
    OBVIOUS
  <2>7. b = NoPeer => peers'[e][i] = NoPeer
    <3> SUFFICES ASSUME b = NoPeer PROVE peers'[e][i] = NoPeer
      OBVIOUS
    <3>1. b.queued = FALSE /\ q = <<>> /\ b.endpoint = NoEndpoint
      BY DEF NoPeer
    <3>2. r.peers[i].queued \in BOOLEAN
      BY <2>1 DEF PeerType
    <3>3. r.peers[i].queued = FALSE /\ r.peers[i].sendQueue = <<>> /\ r.peers[i].endpoint = NoEndpoint
      BY <2>1, <2>2, <3>1, <3>2
    <3>4. r.peers[i] = NoPeer
      BY <2>1, <3>3 DEF PeerType, NoPeer
    <3> QED BY <2>1, <3>4
  <2> HIDE DEF k, q
  <2>8. ~ peers'[e][i].queued => peers'[e][i].sendQueue = <<>>
    BY <2>1, <2>2
  <2>9. peers'[e][i].sendQueue \in Seq(HeldFor(e, i)')
    BY <2>1, <2>5, <2>6
  <2> QED BY <1>2, <2>1, <2>7, <2>8, <2>9
<1> QED BY <1>1, <1>2

LEMMA OutcomeSays ==
    ASSUME NEW e \in Programs, NEW base \in Steps, Sole(base.peers), NEW players,
           NEW pk \in [Slots -> Game], NEW drained, NEW lost, NEW r,
           Outcome(e, base, players, pk, drained, lost, r), AllProper(e, base, players, pk, lost)
    PROVE  /\ Says(e, r.to, {})
           /\ \A y \in Programs : (\A i \in Slots : peers'[e][i].endpoint # <<y>>) => r.to[y] = <<>>
<1>0. \A y \in Programs : <<y>> # NoEndpoint
  BY ConnectionTypes
<1>1. ASSUME NEW y \in Programs, \A i \in Slots : peers'[e][i].endpoint # <<y>> PROVE r.to[y] = <<>>
  <2>1. CASE \A i \in Slots : base.peers[i].endpoint # <<y>>
    BY <2>1 DEF Outcome, Spoken
  <2>2. CASE \E i \in Slots : base.peers[i].endpoint = <<y>>
    <3>1. PICK i \in Slots : base.peers[i].endpoint = <<y>>
      BY <2>2
    <3>2. i \in lost
      BY <1>1, <3>1, OutcomeTable
    <3>3. i \notin players /\ i \notin drained
      BY <3>2 DEF Outcome
    <3>4. r.to[y] = AtOnce(base, players, pk, i) \o <<>> /\ AtOnce(base, players, pk, i) = <<>>
      BY <3>1, <3>3 DEF Outcome, Spoken, AtOnce
    <3>5. <<>> \o <<>> = <<>>
      OBVIOUS
    <3> QED BY <3>4, <3>5
  <2> QED BY <2>1, <2>2
<1>2. ASSUME NEW y \in Programs \ {e} PROVE r.to[y] \in Seq(GoodFor(e, y)' \cup {})
  <2> DEFINE G == GoodFor(e, y)'
  <2>0. <<>> \in Seq(G) /\ G \cup {} = G
    OBVIOUS
  <2>1. CASE \A i \in Slots : peers'[e][i].endpoint # <<y>>
    BY <1>1, <2>0, <2>1
  <2>2. CASE \E i \in Slots : peers'[e][i].endpoint = <<y>>
    <3>1. PICK i \in Slots : peers'[e][i].endpoint = <<y>>
      BY <2>2
    <3>2. i \notin lost /\ base.peers[i].endpoint = <<y>> /\ KnowsAt(e, y, i)'
      <4>1. peers'[e][i].endpoint = IF i \in lost THEN NoEndpoint ELSE base.peers[i].endpoint
        BY OutcomeTable
      <4>2. <<y>> # NoEndpoint
        BY <1>0
      <4> QED BY <3>1, <4>1, <4>2 DEF KnowsAt
    <3> DEFINE a == AtOnce(base, players, pk, i)
               k == Kept(base, players, pk, i)
               S == ProperAfter(e, i)
               p == pk[i]
    <3>3. r.to[y] = a \o (IF i \in drained THEN k ELSE <<>>)
      BY <3>2 DEF Outcome, Spoken
    <3>4. \A x \in S : (x \in Held => ~ peers'[e][i].queued) => x \in G
      BY <3>2 DEF ProperAfter, GoodFor, Game, Held, Packets, EchoTypes, Slots, PLR_BROADCAST, PLR_MASTER,
                  Endpoints, NoEndpoint
    <3>5. i \in players => p \in S
      BY <3>2 DEF AllProper
    <3>6. base.peers[i].sendQueue \in Seq(S)
      <4>1. base.peers[i].sendQueue \in Seq(Held \cap S)
        BY <3>2, HeldForAfter DEF AllProper
      <4>2. Held \cap S \subseteq S
        OBVIOUS
      <4>3. Seq(Held \cap S) \subseteq Seq(S)
        BY <4>2, SeqMonotonicHere
      <4> QED BY <4>1, <4>3
    <3>7. a \in Seq(S) /\ a \o k \in Seq(S)
      <4> HIDE DEF S
      <4> QED BY <3>5, <3>6, KeptTypes
    <3>8. CASE ~ peers'[e][i].queued
      <4>1. S \subseteq G
        BY <3>4, <3>8
      <4>2. Seq(S) \subseteq Seq(G)
        BY <4>1, SeqMonotonicHere
      <4> HIDE DEF a, k, S, G
      <4>3. a \o <<>> = a
        BY <3>7
      <4>4. r.to[y] = a \/ r.to[y] = a \o k
        BY <3>3, <4>3
      <4>5. r.to[y] \in Seq(G)
        BY <3>7, <4>2, <4>4
      <4> QED BY <2>0, <4>5 DEF G
    <3>9. CASE peers'[e][i].queued
      <4>1. i \notin drained /\ base.peers[i].queued
        <5>1. peers'[e][i] = r.peers[i]
          BY <3>2 DEF Outcome
        <5> QED BY <3>9, <5>1 DEF Outcome, Spoken
      <4>2. p \in Game
        OBVIOUS
      <4>3. a = <<>> \/ (i \in players /\ a = <<p>> /\ p \notin Held)
        <5>1. p.type \in EchoTypes <=> p \notin Held
          BY <4>2, Kinds
        <5> QED BY <4>1, <5>1 DEF AtOnce, Holds
      <4>4. a = <<>> \/ (a = <<p>> /\ p \in G)
        BY <3>4, <3>5, <4>3
      <4>5. r.to[y] = a \o <<>>
        BY <3>3, <4>1
      <4> HIDE DEF a, p, G
      <4>6. a \in Seq(G)
        <5>1. p \in G => <<p>> \in Seq(G)
          OBVIOUS
        <5> QED BY <2>0, <4>4, <5>1
      <4>7. a \o <<>> = a
        BY <4>6
      <4> QED BY <2>0, <4>5, <4>6, <4>7 DEF G
    <3> QED BY <3>8, <3>9
  <2> QED BY <2>1, <2>2
<1> QED BY <1>1, <1>2 DEF Says

--------------------------------------------------------------------------------
(* What a step of e starts from: its table of players, with what it has heard. *)

Grounds(e, g, base, lost) ==
    /\ base \in Steps /\ Sole(base.peers)
    /\ \A i \in Slots : base.peers[i].endpoint = NoEndpoint => base.peers[i] = NoPeer
    /\ \A i \in Slots : i \notin lost =>
           /\ base.peers[i].endpoint # NoEndpoint => i \in isConnected'[e]
           /\ base.peers[i].sendQueue \in Seq(HeldFor(e, i)')
           /\ \A h \in Programs : base.peers[i].endpoint = <<h>> =>
                  /\ KnowsAt(e, h, i) \/ LearntAt(e, g, h, i)
                  /\ ~ base.peers[i].queued =>
                         \/ KnowsAt(e, h, i) /\ ~ peers[e][i].queued
                         \/ h = g /\ Arrived(e, g) \in Game \cup Accepts

Speech(e, g, others, base, players, pk, drained, lost, r) ==
    /\ Grounds(e, g, base, lost) /\ pk \in [Slots -> Game]
    /\ Outcome(e, base, players, pk, drained, lost, r)
    /\ \A i \in Slots : i \in players => pk[i] \in ProperAfter(e, i)
    /\ \A i \in Slots : i \in drained => /\ base.peers[i].endpoint = <<g>>
                                         /\ Arrived(e, g) \in Game \cup Accepts
    /\ Alone(e) /\ Self(e, g, {}) /\ Move(e, g, others, r.to) /\ Closing(e, g, others)

\* The turns that players are sent besides those that were held back for them.
Adds(e, table, players, pk, lost, out) ==
    \A y \in Programs \ {e}, i \in Slots : KnowsAt(e, y, i)' =>
        /\ i \notin lost /\ table[i].endpoint = <<y>>
        /\ Queues(e, y, i, out) = IF i \in players /\ pk[i] \in TurnPackets
                                  THEN Append(Among(table[i].sendQueue, TurnPackets), pk[i])
                                  ELSE Among(table[i].sendQueue, TurnPackets)

LEMMA SpeechAct ==
    ASSUME Typed, Typed', NEW e \in Programs, NEW g \in Programs, NEW others, NEW base, NEW players, NEW pk,
           NEW drained, NEW lost, NEW r, Speech(e, g, others, base, players, pk, drained, lost, r)
    PROVE  Act(e, g, others, r.to, {}) /\ Adds(e, base.peers, players, pk, lost, r.to)
<1> USE DEF Speech
<1>0. base \in Steps /\ Sole(base.peers) /\ \A h \in Programs : <<h>> # NoEndpoint
  BY ConnectionTypes DEF Grounds
<1>1. AllProper(e, base, players, pk, lost)
  BY DEF AllProper, Grounds, Outcome
<1>2. \A i \in Slots :
           /\ ~ peers'[e][i].queued => peers'[e][i].sendQueue = <<>>
           /\ peers'[e][i].sendQueue \in Seq(HeldFor(e, i)')
           /\ base.peers[i] = NoPeer => peers'[e][i] = NoPeer
           /\ peers'[e][i].endpoint = IF i \in lost THEN NoEndpoint ELSE base.peers[i].endpoint
           /\ peers'[e][i].queued => base.peers[i].queued
           /\ i \notin lost /\ ~ peers'[e][i].queued => ~ base.peers[i].queued \/ i \in drained
           /\ i \in lost => peers'[e][i] = NoPeer
  BY <1>0, <1>1, OutcomeTable
<1>3. ASSUME NEW h \in Programs, NEW i \in Slots, KnowsAt(e, h, i)'
      PROVE  i \notin lost /\ base.peers[i].endpoint = <<h>> /\ (KnowsAt(e, h, i) \/ LearntAt(e, g, h, i))
  <2>1. peers'[e][i].endpoint = <<h>> /\ <<h>> # NoEndpoint
    BY <1>0, <1>3 DEF KnowsAt
  <2>2. i \notin lost /\ base.peers[i].endpoint = <<h>>
    BY <1>2, <2>1
  <2> QED BY <2>2 DEF Grounds
<1>4. Learns(e, g)
  BY <1>3 DEF Learns
<1>5. Table(e)
  <2> SUFFICES ASSUME NEW i \in Slots
               PROVE  /\ peers'[e][i].endpoint = NoEndpoint => peers'[e][i] = NoPeer
                      /\ ~ peers'[e][i].queued => peers'[e][i].sendQueue = <<>>
                      /\ peers'[e][i].endpoint # NoEndpoint => i \in isConnected'[e]
                      /\ peers'[e][i].sendQueue \in Seq(HeldFor(e, i)')
    BY DEF Table, Slots, NoEndpoint, NoPeer
  <2>1. peers'[e][i].endpoint = NoEndpoint => peers'[e][i] = NoPeer
    <3>1. CASE i \in lost
      BY <1>2, <3>1
    <3>2. CASE i \notin lost
      BY <1>2, <3>2 DEF Grounds
    <3> QED BY <3>1, <3>2
  <2>2. peers'[e][i].endpoint # NoEndpoint => i \in isConnected'[e]
    BY <1>2 DEF Grounds
  <2> QED BY <1>2, <2>1, <2>2
<1>6. Says(e, r.to, {})
  BY <1>0, <1>1, OutcomeSays
<1>7. Flow(e, g, r.to) /\ e \notin gone /\ gone' = gone /\ (g # e => Gets(e, g))
  BY MoveFlow DEF Move
<1>8. Talk(e, g, r.to, {})
  BY <1>4, <1>5, <1>6, <1>7 DEF Talk
<1>9. Drained(e, g)
  <2> SUFFICES ASSUME NEW y \in Programs \ {e}, NEW i \in Slots, KnowsAt(e, y, i)', ~ peers'[e][i].queued
               PROVE  (KnowsAt(e, y, i) /\ ~ peers[e][i].queued) \/ (y = g /\ Arrived(e, g) \in Game \cup Accepts)
    BY DEF Drained, Game, Accepts, Slots, Packets, EchoTypes, PLR_BROADCAST, PLR_MASTER, Endpoints, NoEndpoint
  <2>1. i \notin lost /\ base.peers[i].endpoint = <<y>>
    BY <1>3
  <2>2. ~ base.peers[i].queued \/ i \in drained
    BY <1>2, <2>1
  <2>3. CASE i \in drained
    <3>1. <<y>> = <<g>> /\ Arrived(e, g) \in Game \cup Accepts
      BY <2>1, <2>3
    <3>2. y = g
      BY <3>1
    <3> QED BY <3>1, <3>2
  <2>4. CASE ~ base.peers[i].queued
    BY <2>1, <2>4 DEF Grounds
  <2> QED BY <2>2, <2>3, <2>4
<1>10. Act(e, g, others, r.to, {})
  BY <1>8, <1>9 DEF Act
<1>11. ASSUME NEW y \in Programs \ {e}, NEW i \in Slots, KnowsAt(e, y, i)'
       PROVE  /\ i \notin lost /\ base.peers[i].endpoint = <<y>>
              /\ Queues(e, y, i, r.to) =
                         IF i \in players /\ pk[i] \in TurnPackets
                         THEN Append(Among(base.peers[i].sendQueue, TurnPackets), pk[i])
                         ELSE Among(base.peers[i].sendQueue, TurnPackets)
  <2>1. i \notin lost /\ base.peers[i].endpoint = <<y>>
    BY <1>3, <1>11
  <2>2. peers'[e][i] = r.peers[i] /\ Spoken(base, players, pk, drained, r)
    BY <2>1 DEF Outcome
  <2>3. Among(r.to[y] \o r.peers[i].sendQueue, TurnPackets) =
            IF i \in players /\ pk[i] \in TurnPackets
            THEN Append(Among(base.peers[i].sendQueue, TurnPackets), pk[i])
            ELSE Among(base.peers[i].sendQueue, TurnPackets)
    BY <1>0, <2>1, <2>2, SpokenTurns
  <2>4. Queues(e, y, i, r.to) = Among(r.to[y] \o r.peers[i].sendQueue, TurnPackets)
    BY <2>2 DEF Queues
  <2> QED BY <2>1, <2>3, <2>4
<1> QED BY <1>10, <1>11 DEF Adds

\* What e has held back it still may send.
LEMMA HeldForKept ==
    ASSUME NEW e, Joined(e) => plr_self'[e] = plr_self[e], awaiting'[e] => awaiting[e], NEW i
    PROVE  /\ HeldFor(e, i) \subseteq HeldFor(e, i)'
           /\ \A a \in Seq(HeldFor(e, i)) : a \in Seq(HeldFor(e, i)')
<1>1. ASSUME NEW p \in Held, Proper(e, i, p) PROVE Proper(e, i, p)'
  BY <1>1 DEF Proper, Joined, Slots, Held, Packets, EchoTypes, Slots, PLR_BROADCAST, PLR_MASTER, Endpoints,
                 NoEndpoint, Farewells, TurnPackets
<1>2. HeldFor(e, i) \subseteq HeldFor(e, i)'
  BY <1>1, HeldForAfter DEF HeldFor
<1>3. Seq(HeldFor(e, i)) \subseteq Seq(HeldFor(e, i)')
  BY <1>2, SeqMonotonicHere
<1> QED BY <1>2, <1>3

LEMMA TableSole ==
    ASSUME InvK, Typed, NEW e \in Programs
    PROVE  /\ Sole(peers[e]) /\ Sole(Step(e).peers) /\ Silent(Step(e)) /\ Step(e) \in Steps
           /\ Step(e).peers = peers[e]
<1>1. Sole(peers[e])
  BY DEF InvK, TableOk, Sole
<1> QED BY <1>1, StepType DEF Silent

LEMMA PlainGrounds ==
    ASSUME Typed, InvK, InvS, NEW e \in Programs, NEW g, NEW lost,
           Joined(e) => plr_self'[e] = plr_self[e], awaiting'[e] => awaiting[e],
           \A i \in Slots : i \notin lost /\ i \in isConnected[e] => i \in isConnected'[e]
    PROVE  Grounds(e, g, Step(e), lost)
<1>1. Step(e) \in Steps /\ Step(e).peers = peers[e] /\ Sole(peers[e])
  BY TableSole
<1>2. \A i \in Slots : /\ peers[e][i].endpoint = NoEndpoint => peers[e][i] = NoPeer
                       /\ peers[e][i].endpoint # NoEndpoint => i \in isConnected[e]
  BY DEF InvK, TableOk
<1>3. \A i \in Slots : peers[e][i].sendQueue \in Seq(HeldFor(e, i)')
  BY HeldForKept DEF InvS
<1> QED BY <1>1, <1>2, <1>3 DEF Grounds, KnowsAt
================================================================================
