--------------------------- MODULE TurnSync_proofs ---------------------------
(***************************************************************************)
(* Proofs about TurnSync, for every number of slots, every window K and    *)
(* every run: the types, the window of own turns, and that it implements   *)
(* Lockstep.                                                               *)
(***************************************************************************)
EXTENDS TurnSync, FiniteSetTheorems, TLAPS

-----------------------------------------------------------------------------
(* Sequences.                                                              *)

LEMMA SeqClosure ==
    ASSUME NEW S, NEW s \in Seq(S)
    PROVE  /\ <<>> \in Seq(S)
           /\ \A e \in S : Append(s, e) \in Seq(S)
           /\ \A t \in Seq(S) : s \o t \in Seq(S)
           /\ s # <<>> => Tail(s) \in Seq(S) /\ Head(s) \in S
           /\ \A m, n \in Nat : m >= 1 /\ n <= Len(s) => SubSeq(s, m, n) \in Seq(S)
  OBVIOUS

LEMMA Singleton ==
    ASSUME NEW S, NEW e \in S
    PROVE  <<e>> \in Seq(S)
  OBVIOUS

LEMMA SubSeqAll ==
    ASSUME NEW S, NEW s \in Seq(S)
    PROVE  SubSeq(s, 1, Len(s)) = s
  OBVIOUS

LEMMA SmallResidue ==
    ASSUME NEW m \in Nat, NEW x \in Nat, x < m
    PROVE  x % m = x
  OBVIOUS

-----------------------------------------------------------------------------
(* A window of own turns: at most K, numbered from c to n - 1.             *)

WindowAt(queue, c, n) ==
    /\ Len(queue) <= K
    /\ n = c + Len(queue)
    /\ \A i \in 1 .. Len(queue) : queue[i].n = c + i - 1

LEMMA WindowFresh ==
    ASSUME NEW queue \in Seq(Turns), NEW c \in Nat, NEW n \in Nat, WindowAt(queue, c, n)
    PROVE  \A i \in 1 .. Len(queue) : ~ IsStale(queue[i], c)
<1> SUFFICES ASSUME NEW i \in 1 .. Len(queue) PROVE ~ IsStale(queue[i], c)
  OBVIOUS
<1>1. queue[i].n - c = i - 1 /\ i - 1 \in Nat /\ i - 1 < K
  BY ParametersAssumption DEF WindowAt
<1>2. K <= SeqMod \div 2 /\ SeqMod \in Nat /\ K \in Nat
  BY ParametersAssumption
<1>3. SeqMod \div 2 <= SeqMod /\ SeqMod \div 2 \in Nat
  BY <1>2
<1>4. (i - 1) % SeqMod = i - 1
  <2>1. i - 1 < SeqMod
    BY <1>1, <1>2, <1>3
  <2> QED
    BY <1>1, <1>2, <2>1, SmallResidue
<1> QED
  BY <1>1, <1>2, <1>3, <1>4 DEF IsStale, Residue

LEMMA DropStaleType ==
    ASSUME NEW queue \in Seq(Turns), NEW c \in Nat
    PROVE  DropStale(queue, c) \in Seq(Turns)
<1> DEFINE stale == {i \in 1 .. Len(queue) : \A j \in 1 .. i : IsStale(queue[j], c)}
<1>1. IsFiniteSet(stale)
  BY FS_Interval, FS_Subset
<1>2. Cardinality(stale) \in Nat
  BY <1>1, FS_CardinalityType
<1>3. DropStale(queue, c) = SubSeq(queue, Cardinality(stale) + 1, Len(queue))
  BY DEF DropStale
<1> HIDE DEF stale
<1> QED
  BY <1>2, <1>3, SeqClosure

LEMMA DropStaleFresh ==
    ASSUME NEW queue \in Seq(Turns), NEW c \in Nat,
           \A i \in 1 .. Len(queue) : ~ IsStale(queue[i], c)
    PROVE  DropStale(queue, c) = queue
<1> DEFINE stale == {i \in 1 .. Len(queue) : \A j \in 1 .. i : IsStale(queue[j], c)}
<1>1. stale = {}
  OBVIOUS
<1>2. Cardinality(stale) = 0
  BY <1>1, FS_EmptySet
<1>3. DropStale(queue, c) = SubSeq(queue, Cardinality(stale) + 1, Len(queue))
  BY DEF DropStale
<1> HIDE DEF stale
<1> QED
  BY <1>2, <1>3, SubSeqAll

LEMMA WindowRenumbered ==
    ASSUME NEW queue \in Seq(Turns), NEW m \in Nat, Len(queue) <= K
    PROVE  /\ Renumbered(queue, m) \in Seq(Turns)
           /\ Len(Renumbered(queue, m)) = Len(queue)
           /\ WindowAt(Renumbered(queue, m), m, m + Len(queue))
<1> DEFINE new == Renumbered(queue, m)
<1>1. \A i \in 1 .. Len(queue) : queue[i] \in Turns
  OBVIOUS
<1>2. \A i \in 1 .. Len(queue) : [queue[i] EXCEPT !.n = m + i - 1].n = m + i - 1
  BY <1>1 DEF Turns
<1>3. \A i \in 1 .. Len(queue) : [queue[i] EXCEPT !.n = m + i - 1] \in Turns
  BY <1>1 DEF Turns
<1>4. new = [i \in 1 .. Len(queue) |-> [queue[i] EXCEPT !.n = m + i - 1]]
  BY DEF Renumbered
<1>5. Len(queue) \in Nat
  OBVIOUS
<1> HIDE DEF new
<1>6. new \in [1 .. Len(queue) -> Turns]
  BY <1>3, <1>4
<1>7. new \in Seq(Turns) /\ Len(new) = Len(queue)
  BY <1>5, <1>6
<1>8. \A i \in 1 .. Len(new) : new[i].n = m + i - 1
  BY <1>2, <1>4, <1>7
<1> QED
  BY <1>7, <1>8 DEF WindowAt, new

LEMMA WindowTail ==
    ASSUME NEW queue \in Seq(Turns), NEW c \in Nat, NEW n \in Nat,
           WindowAt(queue, c, n), queue # <<>>
    PROVE  WindowAt(Tail(queue), c + 1, n)
  BY ParametersAssumption DEF WindowAt, Turns

LEMMA WindowExtended ==
    ASSUME NEW queue \in Seq(Turns), NEW c \in Nat, NEW n \in Nat,
           WindowAt(queue, c, n), Len(queue) < K,
           NEW new \in Seq(Turns), Len(new) = K - Len(queue),
           \A i \in 1 .. Len(new) : new[i].n = n + i - 1
    PROVE  WindowAt(queue \o new, c, n + Len(new))
<1> DEFINE all == queue \o new
<1>1. Len(all) = Len(queue) + Len(new) /\ Len(all) = K
  BY ParametersAssumption
<1>2. \A i \in 1 .. Len(queue) : all[i] = queue[i]
  OBVIOUS
<1>3. \A i \in 1 .. Len(all) : i > Len(queue) =>
          i - Len(queue) \in 1 .. Len(new) /\ all[i] = new[i - Len(queue)]
  OBVIOUS
<1> HIDE DEF all
<1>4. n = c + Len(queue) /\ Len(queue) \in Nat /\ Len(new) \in Nat
  BY DEF WindowAt
<1>5. ASSUME NEW i \in 1 .. Len(all) PROVE all[i].n = c + i - 1
  <2>1. CASE i <= Len(queue)
    BY <2>1, <1>2 DEF WindowAt
  <2>2. CASE i > Len(queue)
    <3>1. new[i - Len(queue)].n = n + (i - Len(queue)) - 1
      BY <2>2, <1>3
    <3> QED
      BY <2>2, <3>1, <1>3, <1>4
  <2> QED
    BY <2>1, <2>2, <1>1, <1>4
<1> QED
  BY <1>1, <1>4, <1>5, ParametersAssumption DEF WindowAt, all

-----------------------------------------------------------------------------
(* Packets and channels: a turn is sent by the program it belongs to, and  *)
(* never reaches that program again.                                       *)

UpPackets(p) == {packet \in Packets : packet.type = "PT_TURN" => packet.src = p}
DownPackets(p) == {packet \in Packets : packet.type = "PT_TURN" => packet.src # p}

UpOK(ups) == ups \in [Slots -> Seq(Packets)] /\ \A p \in Slots : ups[p] \in Seq(UpPackets(p))
DownOK(downs) ==
    downs \in [Slots -> Seq(Packets)] /\ \A p \in Slots : downs[p] \in Seq(DownPackets(p))

LEMMA PacketFields ==
    ASSUME NEW packet \in Packets
    PROVE  /\ packet.type = "PT_TURN" =>
                 /\ packet.src \in Slots
                 /\ packet.dst \in Slots \cup {PLR_BROADCAST}
                 /\ packet.turn \in Turns
           /\ packet.type \in {"PT_CONNECT", "PT_JOIN_ACCEPT", "PT_DISCONNECT"} =>
                 packet.player \in Slots
           /\ packet.type = "PT_DISCONNECT" => packet.src \in Slots \cup {PLR_MASTER}
           /\ packet.type = "PT_MESSAGE" => packet.src \in Slots
  BY DEF Packets, Eof

LEMMA OtherPackets ==
    ASSUME NEW p \in Slots
    PROVE  /\ ConnectPacket(p) \in Packets /\ ConnectPacket(p).type # "PT_TURN"
           /\ AcceptPacket(p) \in Packets /\ AcceptPacket(p).type # "PT_TURN"
           /\ \A q \in Slots \cup {PLR_MASTER} :
                 DisconnectPacket(q, p) \in Packets /\ DisconnectPacket(q, p).type # "PT_TURN"
           /\ \A q \in Slots : DeltaPacket(p, q) \in Packets /\ DeltaPacket(p, q).type # "PT_TURN"
           /\ Eof \in Packets /\ Eof.type # "PT_TURN"
  BY DEF Packets, ConnectPacket, AcceptPacket, DisconnectPacket, DeltaPacket, Eof

LEMMA NeutralPackets ==
    ASSUME NEW packet \in Packets, packet.type # "PT_TURN", NEW p
    PROVE  packet \in UpPackets(p) /\ packet \in DownPackets(p)
  BY DEF UpPackets, DownPackets

LEMMA PacketsOfTurns ==
    ASSUME NEW p \in Slots, NEW dst \in Slots \cup {PLR_BROADCAST}, NEW turns \in Seq(Turns)
    PROVE  ToPackets(p, dst, turns) \in Seq(UpPackets(p))
<1>1. \A t \in Turns : TurnPacket(p, dst, t) \in UpPackets(p)
  BY DEF TurnPacket, UpPackets, Packets
<1> QED
  BY <1>1 DEF ToPackets

LEMMA ChannelSubtypes ==
    ASSUME NEW p
    PROVE  /\ \A s \in Seq(UpPackets(p)) : s \in Seq(Packets)
           /\ \A s \in Seq(DownPackets(p)) : s \in Seq(Packets)
<1>1. UpPackets(p) \subseteq Packets /\ DownPackets(p) \subseteq Packets
  BY DEF UpPackets, DownPackets
<1> QED
  BY <1>1

LEMMA UpSet ==
    ASSUME NEW ups, \A p \in Slots : ups[p] \in Seq(UpPackets(p)),
           NEW f, f = [p \in Slots |-> ups[p]]
    PROVE  UpOK(f)
  BY ChannelSubtypes DEF UpOK

LEMMA DownSet ==
    ASSUME NEW downs, \A p \in Slots : downs[p] \in Seq(DownPackets(p)),
           NEW f, f = [p \in Slots |-> downs[p]]
    PROVE  DownOK(f)
  BY ChannelSubtypes DEF DownOK

LEMMA UpSent ==
    ASSUME UpOK(up), NEW p \in Slots, NEW packets \in Seq(UpPackets(p))
    PROVE  UpOK(Sent(p, packets))
<1>1. up[p] \o packets \in Seq(UpPackets(p))
  BY DEF UpOK
<1>2. up[p] \o packets \in Seq(Packets)
  BY <1>1, ChannelSubtypes
<1> QED
  BY <1>1, <1>2 DEF UpOK, Sent

LEMMA UpTail ==
    ASSUME UpOK(up), NEW p \in Slots, up[p] # <<>>
    PROVE  UpOK([up EXCEPT ![p] = Tail(@)])
<1>1. Tail(up[p]) \in Seq(UpPackets(p)) /\ Tail(up[p]) \in Seq(Packets)
  BY SeqClosure DEF UpOK
<1> QED
  BY <1>1 DEF UpOK

LEMMA UpCleared ==
    ASSUME NEW ups, UpOK(ups), NEW S
    PROVE  UpOK([r \in Slots |-> IF r \in S THEN <<>> ELSE ups[r]])
  BY DEF UpOK

LEMMA DownTail ==
    ASSUME DownOK(down), NEW p \in Slots, down[p] # <<>>
    PROVE  DownOK([down EXCEPT ![p] = Tail(@)])
<1>1. Tail(down[p]) \in Seq(DownPackets(p)) /\ Tail(down[p]) \in Seq(Packets)
  BY SeqClosure DEF DownOK
<1> QED
  BY <1>1 DEF DownOK

LEMMA DownClosed ==
    ASSUME NEW downs, DownOK(downs), NEW S
    PROVE  DownOK([r \in Slots |-> IF r \in S THEN Append(downs[r], Eof) ELSE downs[r]])
<1>1. PICK p \in Slots : TRUE
  BY ParametersAssumption DEF Slots
<1>2. Eof \in Packets /\ \A r : Eof \in DownPackets(r)
  BY <1>1, OtherPackets, NeutralPackets
<1> QED
  BY <1>2 DEF DownOK

LEMMA DownBroadcast ==
    ASSUME DownOK(down), NEW packet \in Packets, NEW source,
           packet.type = "PT_TURN" => packet.src = source
    PROVE  DownOK(Broadcast(down, packet, source))
<1>1. \A q : q # source => packet \in DownPackets(q)
  BY DEF DownPackets
<1> QED
  BY <1>1 DEF DownOK, Broadcast

-----------------------------------------------------------------------------
(* The inductive invariant.  OwnWindow alone is not inductive: a turn of   *)
(* its own must not come back to a program (the channels), and a program   *)
(* must count itself among the players whose turns it consumes.            *)

PeersOK ==
    /\ phase \in [Slots -> {"free", "joining", "in", "out"}]
    /\ isConnected \in [Slots -> SUBSET Slots]
    /\ connections \in SUBSET Slots
    /\ \A p \in Slots : phase[p] = "in" => p \in isConnected[p]

TurnsOK ==
    /\ turnQueue \in [Slots -> [Slots -> Seq(Turns)]]
    /\ current_turn \in [Slots -> Nat]
    /\ next_turn \in [Slots -> Nat]
    /\ \A p \in Slots :
          phase[p] # "out" => WindowAt(Own(p), current_turn[p], next_turn[p])

IInv == PeersOK /\ TurnsOK /\ UpOK(up) /\ DownOK(down)

LEMMA IInvImpliesOwnWindow == IInv => OwnWindow
  BY DEF IInv, TurnsOK, WindowAt, OwnWindow

\* A step that leaves the turns alone and brings no program back.
LEMMA TurnsKept ==
    ASSUME TurnsOK,
           UNCHANGED <<turnQueue, current_turn, next_turn>>,
           \A r \in Slots : phase[r] = "out" => phase'[r] = "out"
    PROVE  TurnsOK'
  BY DEF TurnsOK, Own

\* A step that changes the queues and counters of one program.
LEMMA TurnsOfOne ==
    ASSUME TurnsOK, NEW p \in Slots,
           NEW queues \in [Slots -> Seq(Turns)], NEW c \in Nat, NEW n \in Nat,
           WindowAt(queues[p], c, n),
           turnQueue' = [turnQueue EXCEPT ![p] = queues],
           current_turn' = [current_turn EXCEPT ![p] = c],
           next_turn' = [next_turn EXCEPT ![p] = n],
           phase' = phase
    PROVE  TurnsOK'
<1>1. turnQueue' \in [Slots -> [Slots -> Seq(Turns)]]
  BY DEF TurnsOK
<1>2. current_turn' \in [Slots -> Nat] /\ next_turn' \in [Slots -> Nat]
  BY DEF TurnsOK
<1>3. ASSUME NEW r \in Slots, phase'[r] # "out"
      PROVE  WindowAt(turnQueue'[r][r], current_turn'[r], next_turn'[r])
  <2>1. CASE r = p
    BY <2>1 DEF TurnsOK
  <2>2. CASE r # p
    <3>1. turnQueue'[r] = turnQueue[r] /\ current_turn'[r] = current_turn[r]
             /\ next_turn'[r] = next_turn[r]
      BY <2>2 DEF TurnsOK
    <3> QED
      BY <3>1, <1>3 DEF TurnsOK, Own
  <2> QED
    BY <2>1, <2>2
<1> QED
  BY <1>1, <1>2, <1>3 DEF TurnsOK, Own

\* A step that changes which players one program knows.
LEMMA PeersOfOne ==
    ASSUME PeersOK, NEW p \in Slots, NEW known \in SUBSET Slots,
           phase[p] = "in" => p \in known,
           isConnected' = [isConnected EXCEPT ![p] = known],
           phase' = phase, connections' \in SUBSET connections
    PROVE  PeersOK'
  BY DEF PeersOK

LEMMA FirstTurnPackets ==
    ASSUME TurnsOK, NEW p \in Slots, NEW q \in Slots
    PROVE  FirstTurns(p, q) \in Seq(UpPackets(p))
<1>1. Own(p) \in Seq(Turns)
  BY DEF TurnsOK, Own
<1>2. ToPackets(p, q, Own(p)) \in Seq(UpPackets(p))
  BY <1>1, PacketsOfTurns
<1>3. <<>> \in Seq(UpPackets(p))
  OBVIOUS
<1> QED
  BY <1>2, <1>3 DEF FirstTurns

\* What a client takes from its socket.
LEMMA HeadOfDown ==
    ASSUME DownOK(down), NEW p \in Slots, down[p] # <<>>
    PROVE  /\ Head(down[p]) \in Packets
           /\ Head(down[p]).type = "PT_TURN" => Head(down[p]).src # p
<1>1. Head(down[p]) \in DownPackets(p)
  BY SeqClosure DEF DownOK
<1> QED
  BY <1>1 DEF DownPackets

\* The packets of a loop over players.
LEMMA AscendingSequences ==
    ASSUME NEW players \in SUBSET Slots, NEW s \in Ascending(players)
    PROVE  s \in Seq(Slots)
<1>0. IsFiniteSet(Slots)
  BY FS_Interval, ParametersAssumption DEF Slots
<1>1. IsFiniteSet(players)
  BY <1>0, FS_Subset
<1>2. Cardinality(players) \in Nat
  BY <1>1, FS_CardinalityType
<1>3. s \in [1 .. Cardinality(players) -> players]
  BY DEF Ascending
<1> QED
  BY <1>2, <1>3

-----------------------------------------------------------------------------
(* The steps of the server.                                                *)

LEMMA RelayStep ==
    ASSUME IInv, NEW p \in Slots, Relay(p)
    PROVE  IInv'
<1> DEFINE packet == Head(up[p])
<1>1. packet \in Packets /\ packet \in UpPackets(p)
  BY SeqClosure DEF IInv, UpOK, Relay
<1>2. packet.type = "PT_TURN" => packet.src = p /\ packet.src \in Slots
  BY <1>1 DEF UpPackets
<1>3. \A q : q # packet.src => packet \in DownPackets(q)
  BY <1>1 DEF DownPackets
<1>4. UpOK(up')
  BY UpTail DEF IInv, Relay
<1>5. DownOK(down')
  <2>1. CASE packet.dst = PLR_BROADCAST
    <3>1. down' = Broadcast(down, packet, packet.src)
      BY <2>1 DEF Relay
    <3> QED
      BY <3>1, <1>1, DownBroadcast DEF IInv
  <2>2. CASE packet.dst # PLR_BROADCAST /\ packet.dst \in connections
                /\ packet.dst # packet.src
    <3>1. down' = [down EXCEPT ![packet.dst] = Append(@, packet)]
      BY <2>2 DEF Relay
    <3>2. packet \in DownPackets(packet.dst)
      BY <1>3, <2>2
    <3>3. packet.dst \in Slots
      BY <2>2 DEF IInv, PeersOK
    <3> HIDE DEF packet
    <3>4. Append(down[packet.dst], packet) \in Seq(DownPackets(packet.dst))
      BY <3>2, <3>3 DEF IInv, DownOK
    <3>5. \A q \in Slots : down'[q] \in Seq(DownPackets(q))
      BY <3>1, <3>4 DEF IInv, DownOK
    <3>6. down' = [q \in Slots |-> down'[q]]
      BY <3>1 DEF IInv, DownOK
    <3> QED
      BY <3>5, <3>6, DownSet
  <2>3. CASE packet.dst # PLR_BROADCAST
                /\ ~ (packet.dst \in connections /\ packet.dst # packet.src)
    <3>1. down' = down
      BY <2>3 DEF Relay
    <3> QED
      BY <3>1 DEF IInv
  <2> QED
    BY <2>1, <2>2, <2>3
<1>6. TurnsOK'
  BY TurnsKept DEF IInv, Relay, turnVars, peerVars
<1>7. PeersOK'
  BY DEF IInv, Relay, peerVars, serverVars, PeersOK
<1> QED
  BY <1>4, <1>5, <1>6, <1>7 DEF IInv, UpOK, DownOK

\* DropConnection only adds disconnects and the end of the stream.
LEMMA DropConnectionChannels ==
    ASSUME UpOK(up), DownOK(down), NEW p \in Slots, NEW waiting,
           DropConnection(p, waiting)
    PROVE  UpOK(up') /\ DownOK(down')
<1>1. UpOK(up')
  BY DEF DropConnection, UpOK
<1>2. \A r : DisconnectPacket(PLR_MASTER, p) \in DownPackets(r) /\ Eof \in DownPackets(r)
  BY OtherPackets, NeutralPackets
<1>3. DisconnectPacket(PLR_MASTER, p) \in Packets /\ Eof \in Packets
  BY OtherPackets
<1>4. \A q \in Slots :
         /\ Append(down[q], DisconnectPacket(PLR_MASTER, p)) \in Seq(DownPackets(q))
         /\ Append(down[q], Eof) \in Seq(DownPackets(q))
         /\ down[q] \in Seq(DownPackets(q))
  BY <1>2, SeqClosure DEF DownOK
<1>5. \A q \in Slots : down'[q] \in Seq(DownPackets(q))
  BY <1>4 DEF DropConnection
<1>6. down' = [q \in Slots |-> down'[q]]
  BY DEF DropConnection
<1> QED
  BY <1>1, <1>5, <1>6, DownSet

LEMMA ServerStep ==
    ASSUME IInv, NEW p \in Slots, Server(p) \/ ServerTimeout(p)
    PROVE  IInv'
<1>1. CASE Relay(p)
  BY <1>1, RelayStep
<1>2. CASE ServerSeesEof(p) \/ CancelledHandler(p) \/ ServerTimeout(p)
  <2>1. UpOK(up') /\ DownOK(down')
    BY <1>2, DropConnectionChannels DEF IInv, ServerSeesEof, CancelledHandler, ServerTimeout
  <2>2. UNCHANGED <<peerVars, turnVars>>
    BY <1>2 DEF ServerSeesEof, CancelledHandler, ServerTimeout
  <2>3. TurnsOK'
    BY <2>2, TurnsKept DEF IInv, turnVars, peerVars
  <2>5. connections' \in SUBSET connections
    BY <1>2 DEF ServerSeesEof, CancelledHandler, ServerTimeout, DropConnection
  <2>4. PeersOK'
    BY <2>2, <2>5 DEF IInv, peerVars, PeersOK
  <2> QED
    BY <2>1, <2>3, <2>4 DEF IInv, UpOK, DownOK
<1> QED
  BY <1>1, <1>2 DEF Server

LEMMA JoinStep ==
    ASSUME IInv, NEW p \in Slots, Join(p)
    PROVE  IInv'
<1>1. TurnsOK'
  BY TurnsKept DEF IInv, Join, PeersOK
<1>2. PeersOK'
  BY DEF IInv, Join, PeersOK
<1>3. UpOK(up')
  BY DEF IInv, Join
<1>4. PICK players \in Ascending(connections) :
        down' = [Broadcast(down, ConnectPacket(p), p) EXCEPT
                    ![p] = Append(ConnectPackets(players), AcceptPacket(p))]
  BY DEF Join
<1>5. p \in Slots /\ players \in Seq(Slots)
  BY AscendingSequences DEF IInv, PeersOK
<1>6. \A q \in Slots : \A r : ConnectPacket(q) \in DownPackets(r)
                              /\ AcceptPacket(q) \in DownPackets(r)
  BY OtherPackets, NeutralPackets
<1>7. DownOK(Broadcast(down, ConnectPacket(p), p))
  BY OtherPackets, DownBroadcast DEF IInv
<1>8. Append(ConnectPackets(players), AcceptPacket(p)) \in Seq(DownPackets(p))
  <2>1. ConnectPackets(players) \in Seq(DownPackets(p))
    BY <1>5, <1>6 DEF ConnectPackets
  <2> QED
    BY <2>1, <1>6
<1>9. DownOK(down')
  BY <1>4, <1>7, <1>8, ChannelSubtypes DEF DownOK
<1> QED
  BY <1>1, <1>2, <1>3, <1>9 DEF IInv, UpOK, DownOK

-----------------------------------------------------------------------------
(* The steps of a client's receive loop.                                   *)

\* A step that takes a packet from the socket, answers with the first turns and
\* marks a player connected.
LEMMA ReceiveStep ==
    ASSUME IInv, NEW p \in Slots, NEW src \in Slots,
           down[p] # <<>>, Received(p),
           isConnected' = [isConnected EXCEPT ![p] = @ \cup {src}],
           connections' = connections, phase' = phase
    PROVE  PeersOK' /\ DownOK(down') /\ UpOK(Sent(p, FirstTurns(p, src)))
<1>1. isConnected[p] \cup {src} \in SUBSET Slots
  BY DEF IInv, PeersOK
<1>2. PeersOK'
  BY <1>1, PeersOfOne DEF IInv, PeersOK
<1>3. DownOK(down')
  BY DownTail DEF IInv, Received
<1>4. UpOK(Sent(p, FirstTurns(p, src)))
  BY FirstTurnPackets, UpSent DEF IInv
<1> QED
  BY <1>2, <1>3, <1>4

LEMMA ReceiveConnectStep ==
    ASSUME IInv, NEW p \in Slots, ReceiveConnect(p)
    PROVE  IInv'
<1>1. Head(down[p]).player \in Slots
  BY HeadOfDown, PacketFields DEF IInv, ReceiveConnect, HasPacket
<1>2. PeersOK' /\ DownOK(down') /\ UpOK(up')
  BY <1>1, ReceiveStep DEF ReceiveConnect, HasPacket, serverVars
<1>3. TurnsOK'
  BY TurnsKept DEF IInv, ReceiveConnect, turnVars
<1> QED
  BY <1>2, <1>3 DEF IInv, UpOK, DownOK

LEMMA ReceiveDeltaStep ==
    ASSUME IInv, NEW p \in Slots, ReceiveDelta(p)
    PROVE  IInv'
<1>1. Head(down[p]).src \in Slots
  BY HeadOfDown, PacketFields DEF IInv, ReceiveDelta, HasPacket
<1>2. PeersOK' /\ DownOK(down') /\ UpOK(up')
  BY <1>1, ReceiveStep DEF ReceiveDelta, HasPacket, serverVars
<1>3. TurnsOK'
  BY TurnsKept DEF IInv, ReceiveDelta, turnVars
<1> QED
  BY <1>2, <1>3 DEF IInv, UpOK, DownOK

LEMMA ReceiveEofStep ==
    ASSUME IInv, NEW p \in Slots, ReceiveEof(p)
    PROVE  IInv'
<1>1. DownOK(down')
  BY DownTail DEF IInv, ReceiveEof, Received, HasPacket
<1>2. UpOK(up')
  BY DEF IInv, ReceiveEof
<1>3. TurnsOK'
  BY TurnsKept DEF IInv, ReceiveEof, turnVars
<1>4. PeersOK'
  BY DEF IInv, ReceiveEof, PeersOK, serverVars
<1> QED
  BY <1>1, <1>2, <1>3, <1>4 DEF IInv, UpOK, DownOK

LEMMA ReceiveAcceptStep ==
    ASSUME IInv, NEW p \in Slots, ReceiveAccept(p)
    PROVE  IInv'
<1>1. DownOK(down')
  BY DownTail DEF IInv, ReceiveAccept, Received, HasPacket
<1>2. UpOK(up')
  BY DEF IInv, ReceiveAccept
<1>3. TurnsOK'
  <2>1. \A r \in Slots : phase[r] = "out" => phase'[r] = "out"
    BY DEF IInv, PeersOK, ReceiveAccept, HasPacket
  <2> QED
    BY <2>1, TurnsKept DEF IInv, ReceiveAccept, turnVars
<1>4. PeersOK'
  BY DEF IInv, ReceiveAccept, PeersOK, serverVars
<1> QED
  BY <1>1, <1>2, <1>3, <1>4 DEF IInv, UpOK, DownOK

\* A turn of another player is queued; when a sequence number is awaited, the
\* own turns are numbered from the received one on.
LEMMA ReceiveTurnStep ==
    ASSUME IInv, NEW p \in Slots, ReceiveTurn(p)
    PROVE  IInv'
<1> DEFINE src == Head(down[p]).src
           turn == Head(down[p]).turn
           queues == [turnQueue[p] EXCEPT ![src] = Append(@, turn)]
           own == Renumbered(Own(p), turn.n)
<1>1. src \in Slots /\ turn \in Turns /\ src # p
  BY HeadOfDown, PacketFields DEF IInv, ReceiveTurn, HasPacket
<1>2. turn.n \in Nat
  BY <1>1 DEF Turns
<1>3. Own(p) \in Seq(Turns) /\ Len(Own(p)) <= K
  <2>1. phase[p] # "out"
    BY DEF ReceiveTurn, HasPacket
  <2> QED
    BY <2>1 DEF IInv, TurnsOK, Own, WindowAt
<1>4. queues \in [Slots -> Seq(Turns)] /\ queues[p] = Own(p)
  BY <1>1 DEF IInv, TurnsOK, Own
<1>5. DownOK(down')
  BY DownTail DEF IInv, Received, ReceiveTurn, HasPacket
<1>6. PeersOK'
  <2>1. isConnected[p] \cup {src} \in SUBSET Slots
    BY <1>1 DEF IInv, PeersOK
  <2>2. isConnected' = [isConnected EXCEPT ![p] = isConnected[p] \cup {src}]
    BY DEF ReceiveTurn
  <2>3. phase' = phase /\ connections' = connections
    BY DEF ReceiveTurn, serverVars
  <2> HIDE DEF src
  <2> QED
    BY <2>1, <2>2, <2>3, PeersOfOne DEF IInv, PeersOK
<1>7. CASE awaiting[p]
  <2>1. MakeReady(p, queues, turn.n)
    BY <1>7 DEF ReceiveTurn
  <2> HIDE DEF src, turn, queues
  <2>2. own \in Seq(Turns) /\ Len(own) = Len(Own(p))
          /\ WindowAt(own, turn.n, turn.n + Len(own))
    BY <1>2, <1>3, WindowRenumbered
  <2>3. up' = Sent(p, ToPackets(p, PLR_BROADCAST, own))
    BY <2>1 DEF MakeReady
  <2>4. UpOK(up')
    BY <2>2, <2>3, PacketsOfTurns, UpSent DEF IInv
  <2>5. TurnsOK'
    <3> DEFINE all == [queues EXCEPT ![p] = own]
    <3>1. all \in [Slots -> Seq(Turns)] /\ all[p] = own
      BY <2>2, <1>4
    <3>2. turnQueue' = [turnQueue EXCEPT ![p] = all]
             /\ current_turn' = [current_turn EXCEPT ![p] = turn.n]
             /\ next_turn' = [next_turn EXCEPT ![p] = turn.n + Len(own)]
      BY <2>1 DEF MakeReady
    <3>3. turn.n + Len(own) \in Nat
      BY <1>2, <2>2
    <3>4. phase' = phase
      BY DEF ReceiveTurn
    <3> HIDE DEF all, own
    <3> QED
      BY <3>1, <3>2, <3>3, <3>4, <1>2, <2>2, TurnsOfOne DEF IInv
  <2> QED
    BY <2>4, <2>5, <1>5, <1>6 DEF IInv, UpOK, DownOK
<1>8. CASE ~ awaiting[p]
  <2>1. turnQueue' = [turnQueue EXCEPT ![p] = queues]
          /\ up' = Sent(p, FirstTurns(p, src))
          /\ UNCHANGED <<current_turn, next_turn, awaiting>>
    BY <1>8 DEF ReceiveTurn
  <2>2. phase' = phase /\ phase[p] # "out"
    BY DEF ReceiveTurn, HasPacket
  <2> HIDE DEF src, turn, queues
  <2>3. UpOK(up')
    BY <1>1, <2>1, FirstTurnPackets, UpSent DEF IInv
  <2>4. TurnsOK'
    <3>1. WindowAt(queues[p], current_turn[p], next_turn[p])
      BY <1>4, <2>2 DEF IInv, TurnsOK
    <3>2. current_turn' = [current_turn EXCEPT ![p] = current_turn[p]]
            /\ next_turn' = [next_turn EXCEPT ![p] = next_turn[p]]
      BY <2>1 DEF IInv, TurnsOK
    <3>3. current_turn[p] \in Nat /\ next_turn[p] \in Nat
      BY DEF IInv, TurnsOK
    <3> QED
      BY <1>4, <2>1, <2>2, <3>1, <3>2, <3>3, TurnsOfOne, ZenonT(40) DEF IInv
  <2> QED
    BY <2>3, <2>4, <1>5, <1>6 DEF IInv, UpOK, DownOK
<1> QED
  BY <1>7, <1>8

LEMMA DisconnectNetStep ==
    ASSUME NEW closed, NEW ups, NEW downs, UpOK(ups), DownOK(downs),
           DisconnectNet(closed, ups, downs)
    PROVE  UpOK(up') /\ DownOK(down') /\ connections' \in SUBSET connections
<1>1. UpOK(up')
  BY UpCleared DEF DisconnectNet
<1>2. DownOK(down')
  BY DownClosed DEF DisconnectNet
<1> QED
  BY <1>1, <1>2 DEF DisconnectNet

LEMMA ReceiveDisconnectStep ==
    ASSUME IInv, NEW p \in Slots, ReceiveDisconnect(p)
    PROVE  IInv'
<1> DEFINE src == Head(down[p]).src
           player == Head(down[p]).player
           known == isConnected[p] \cup ({src} \ {PLR_MASTER})
           closed == IF player \in known \ {p} THEN ClosedBy(p, {player}) ELSE {}
           answers == IF src = PLR_MASTER THEN <<>> ELSE FirstTurns(p, src)
<1>1. down[p] # <<>> /\ phase[p] # "out"
  BY DEF ReceiveDisconnect, HasPacket
<1>2. src \in Slots \cup {PLR_MASTER} /\ player \in Slots
  BY HeadOfDown, PacketFields DEF IInv, ReceiveDisconnect, HasPacket
<1>3. known \in SUBSET Slots /\ (phase[p] = "in" => p \in known)
  BY <1>2 DEF IInv, PeersOK
<1>4. answers \in Seq(UpPackets(p))
  <2>1. CASE src = PLR_MASTER
    BY <2>1
  <2>2. CASE src # PLR_MASTER
    BY <2>2, <1>2, FirstTurnPackets DEF IInv
  <2> QED
    BY <2>1, <2>2
<1>5. DisconnectNet(closed, Sent(p, answers), [down EXCEPT ![p] = Tail(@)])
  BY DEF ReceiveDisconnect
<1>6. phase' = phase /\ current_turn' = current_turn /\ next_turn' = next_turn
  BY DEF ReceiveDisconnect
<1>7. \/ /\ isConnected' = [isConnected EXCEPT ![p] = known]
         /\ turnQueue' = turnQueue
      \/ /\ player # p
         /\ isConnected' = [isConnected EXCEPT ![p] = known \ {player}]
         /\ turnQueue' = [turnQueue EXCEPT ![p][player] = <<>>]
  BY DEF ReceiveDisconnect, Forget
<1> HIDE DEF src, player, known, closed, answers
<1>8. UpOK(Sent(p, answers)) /\ DownOK([down EXCEPT ![p] = Tail(@)])
  BY <1>1, <1>4, UpSent, DownTail DEF IInv
<1>9. UpOK(up') /\ DownOK(down') /\ connections' \in SUBSET connections
  BY <1>5, <1>8, DisconnectNetStep
<1>10. PeersOK'
  <2>1. CASE isConnected' = [isConnected EXCEPT ![p] = known]
    BY <2>1, <1>3, <1>6, <1>9, PeersOfOne DEF IInv
  <2>2. CASE player # p /\ isConnected' = [isConnected EXCEPT ![p] = known \ {player}]
    <3>1. known \ {player} \in SUBSET Slots /\ (phase[p] = "in" => p \in known \ {player})
      BY <2>2, <1>3
    <3> QED
      BY <2>2, <3>1, <1>6, <1>9, PeersOfOne DEF IInv
  <2> QED
    BY <2>1, <2>2, <1>7
<1>11. TurnsOK'
  <2>1. CASE turnQueue' = turnQueue
    BY <2>1, <1>6, TurnsKept DEF IInv
  <2>2. CASE player # p /\ turnQueue' = [turnQueue EXCEPT ![p][player] = <<>>]
    <3> DEFINE queues == [turnQueue[p] EXCEPT ![player] = <<>>]
    <3>1. queues \in [Slots -> Seq(Turns)] /\ queues[p] = Own(p)
      BY <2>2, <1>2 DEF IInv, TurnsOK, Own
    <3>2. turnQueue' = [turnQueue EXCEPT ![p] = queues]
      BY <2>2
    <3>3. current_turn' = [current_turn EXCEPT ![p] = current_turn[p]]
            /\ next_turn' = [next_turn EXCEPT ![p] = next_turn[p]]
      BY <1>6 DEF IInv, TurnsOK
    <3>4. current_turn[p] \in Nat /\ next_turn[p] \in Nat
      BY DEF IInv, TurnsOK
    <3>5. WindowAt(queues[p], current_turn[p], next_turn[p])
      BY <3>1, <1>1 DEF IInv, TurnsOK
    <3> HIDE DEF queues
    <3> QED
      BY <3>1, <3>2, <3>3, <3>4, <3>5, <1>6, TurnsOfOne DEF IInv
  <2> QED
    BY <2>1, <2>2, <1>7
<1> QED
  BY <1>9, <1>10, <1>11 DEF IInv, UpOK, DownOK

-----------------------------------------------------------------------------
(* The steps of the turn exchange.                                         *)

LEMMA SendTurnsStep ==
    ASSUME IInv, NEW p \in Slots, SendTurns(p)
    PROVE  IInv'
<1> DEFINE new == [i \in 1 .. K - Len(Own(p)) |->
                      [n |-> next_turn[p] + i - 1, bit |-> turn_upper_bit[p] /\ i = 1]]
           queues == [turnQueue[p] EXCEPT ![p] = Own(p) \o new]
<1>1. Own(p) \in Seq(Turns) /\ Len(Own(p)) < K /\ phase[p] # "out"
         /\ WindowAt(Own(p), current_turn[p], next_turn[p])
         /\ current_turn[p] \in Nat /\ next_turn[p] \in Nat
  BY DEF IInv, TurnsOK, Own, SendTurns
<1>2. K - Len(Own(p)) \in Nat
  BY <1>1, ParametersAssumption
<1>3. ASSUME NEW i \in 1 .. K - Len(Own(p))
      PROVE  [n |-> next_turn[p] + i - 1, bit |-> turn_upper_bit[p] /\ i = 1] \in Turns
  <2>1. next_turn[p] + i - 1 \in Nat
    BY <1>1, <1>2
  <2>2. (turn_upper_bit[p] /\ i = 1) \in BOOLEAN
    OBVIOUS
  <2> QED
    BY <2>1, <2>2 DEF Turns
<1>4. new \in Seq(Turns) /\ Len(new) = K - Len(Own(p))
  BY <1>2, <1>3
<1>5. \A i \in 1 .. Len(new) : new[i].n = next_turn[p] + i - 1
  BY <1>4
<1>6. /\ turnQueue' = [turnQueue EXCEPT ![p] = queues]
      /\ next_turn' = [next_turn EXCEPT ![p] = @ + Len(new)]
      /\ \/ up' = Sent(p, ToPackets(p, PLR_BROADCAST, new))
         \/ up' = up
  BY DEF SendTurns, Own
<1> HIDE DEF new
<1>7. WindowAt(Own(p) \o new, current_turn[p], next_turn[p] + Len(new))
  BY <1>1, <1>4, <1>5, WindowExtended
<1>8. queues \in [Slots -> Seq(Turns)] /\ queues[p] = Own(p) \o new
  BY <1>1, <1>4 DEF IInv, TurnsOK
<1> HIDE DEF queues
<1>9. TurnsOK'
  <2>1. next_turn' = [next_turn EXCEPT ![p] = next_turn[p] + Len(new)]
          /\ next_turn[p] + Len(new) \in Nat
    BY <1>1, <1>4, <1>6
  <2>2. current_turn' = [current_turn EXCEPT ![p] = current_turn[p]]
    BY DEF IInv, TurnsOK, SendTurns
  <2>3. phase' = phase
    BY DEF SendTurns, peerVars
  <2> QED
    BY <2>1, <2>2, <2>3, <1>1, <1>6, <1>7, <1>8, TurnsOfOne DEF IInv
<1>10. UpOK(up')
  BY <1>4, <1>6, PacketsOfTurns, UpSent DEF IInv
<1>11. PeersOK' /\ DownOK(down')
  BY DEF IInv, PeersOK, SendTurns, peerVars, serverVars
<1> QED
  BY <1>9, <1>10, <1>11 DEF IInv, UpOK, DownOK

\* Nothing of the own window is stale.
LEMMA OwnFresh ==
    ASSUME IInv, NEW p \in Slots, phase[p] # "out"
    PROVE  Fresh(p) \in [Slots -> Seq(Turns)] /\ Fresh(p)[p] = Own(p)
<1>1. \A q \in Slots : turnQueue[p][q] \in Seq(Turns)
  BY DEF IInv, TurnsOK
<1>2. current_turn[p] \in Nat /\ next_turn[p] \in Nat
         /\ WindowAt(Own(p), current_turn[p], next_turn[p])
  BY DEF IInv, TurnsOK
<1>3. \A q \in Slots : DropStale(turnQueue[p][q], current_turn[p]) \in Seq(Turns)
  BY <1>1, <1>2, DropStaleType
<1>4. Fresh(p) \in [Slots -> Seq(Turns)]
  BY <1>1, <1>3 DEF Fresh
<1>5. Own(p) \in Seq(Turns)
  BY <1>1 DEF Own
<1>6. \A i \in 1 .. Len(Own(p)) : ~ IsStale(Own(p)[i], current_turn[p])
  BY <1>2, <1>5, WindowFresh
<1>7. DropStale(Own(p), current_turn[p]) = Own(p)
  BY <1>2, <1>5, <1>6, DropStaleFresh
<1> QED
  BY <1>4, <1>7 DEF Fresh, Own

LEMMA ReceiveTurnsStep ==
    ASSUME IInv, NEW p \in Slots, ReceiveTurns(p)
    PROVE  IInv'
<1> DEFINE queues == [q \in Slots |-> IF q \in Arrived(p)
                                      THEN Tail(Fresh(p)[q]) ELSE Fresh(p)[q]]
<1>1. phase[p] = "in" /\ Len(Own(p)) >= K
  BY DEF ReceiveTurns
<1>2. Fresh(p) \in [Slots -> Seq(Turns)] /\ Fresh(p)[p] = Own(p)
  BY <1>1, OwnFresh
<1>3. Own(p) \in Seq(Turns) /\ current_turn[p] \in Nat /\ next_turn[p] \in Nat
         /\ WindowAt(Own(p), current_turn[p], next_turn[p])
  BY <1>1 DEF IInv, TurnsOK, Own
<1>4. Own(p) # <<>> /\ Head(Own(p)).n = current_turn[p]
  <2>1. Len(Own(p)) >= 1
    BY <1>1, <1>3, ParametersAssumption
  <2>2. Own(p)[1].n = current_turn[p] + 1 - 1
    BY <2>1, <1>3 DEF WindowAt
  <2> QED
    BY <2>1, <2>2, <1>3
<1>5. p \in Arrived(p)
  BY <1>1, <1>2, <1>4 DEF IInv, PeersOK, Arrived
<1>6. \A q \in Arrived(p) : Fresh(p)[q] # <<>>
  BY DEF Arrived
<1>7. queues \in [Slots -> Seq(Turns)] /\ queues[p] = Tail(Own(p))
  BY <1>2, <1>5, <1>6, SeqClosure
<1>8. turnQueue' = [turnQueue EXCEPT ![p] = queues]
         /\ current_turn' = [current_turn EXCEPT ![p] = current_turn[p] + 1]
         /\ phase' = phase /\ next_turn' = next_turn
  BY DEF ReceiveTurns
<1> HIDE DEF queues
<1>9. WindowAt(queues[p], current_turn[p] + 1, next_turn[p])
  BY <1>3, <1>4, <1>7, WindowTail
<1>10. TurnsOK'
  <2>1. next_turn' = [next_turn EXCEPT ![p] = next_turn[p]]
    BY <1>8 DEF IInv, TurnsOK
  <2>2. current_turn[p] + 1 \in Nat
    BY <1>3
  <2> QED
    BY <2>1, <2>2, <1>3, <1>7, <1>8, <1>9, TurnsOfOne DEF IInv
<1>11. PeersOK' /\ UpOK(up') /\ DownOK(down')
  BY DEF IInv, PeersOK, ReceiveTurns, netVars, serverVars
<1> QED
  BY <1>10, <1>11 DEF IInv, UpOK, DownOK

\* The stale turns of one program are dropped.
LEMMA FreshStep ==
    ASSUME IInv, NEW p \in Slots, phase[p] # "out",
           turnQueue' = [turnQueue EXCEPT ![p] = Fresh(p)],
           UNCHANGED <<phase, current_turn, next_turn>>
    PROVE  TurnsOK'
<1>1. Fresh(p) \in [Slots -> Seq(Turns)] /\ Fresh(p)[p] = Own(p)
  BY OwnFresh
<1>2. current_turn[p] \in Nat /\ next_turn[p] \in Nat
         /\ WindowAt(Own(p), current_turn[p], next_turn[p])
  BY DEF IInv, TurnsOK
<1>3. current_turn' = [current_turn EXCEPT ![p] = current_turn[p]]
        /\ next_turn' = [next_turn EXCEPT ![p] = next_turn[p]]
  BY DEF IInv, TurnsOK
<1>4. WindowAt(Fresh(p)[p], current_turn[p], next_turn[p])
  BY <1>1, <1>2
<1> QED
  BY <1>1, <1>2, <1>3, <1>4, TurnsOfOne, ZenonT(40) DEF IInv

LEMMA ExchangeStep ==
    ASSUME IInv, NEW p \in Slots, Exchange(p)
    PROVE  IInv'
<1>1. CASE SendTurns(p)
  BY <1>1, SendTurnsStep
<1>2. CASE ReceiveTurns(p)
  BY <1>2, ReceiveTurnsStep
<1>3. CASE WaitForTurns(p)
  <2>1. TurnsOK'
    BY <1>3, FreshStep DEF WaitForTurns, peerVars
  <2>2. PeersOK' /\ UpOK(up') /\ DownOK(down')
    BY <1>3 DEF IInv, PeersOK, WaitForTurns, peerVars, netVars, serverVars
  <2> QED
    BY <2>1, <2>2 DEF IInv, UpOK, DownOK
<1>4. CASE AskAgain(p)
  <2>1. TurnsOK'
    BY <1>4, TurnsKept DEF IInv, AskAgain, peerVars
  <2>2. PeersOK' /\ UpOK(up') /\ DownOK(down')
    BY <1>4 DEF IInv, PeersOK, AskAgain, peerVars, netVars, serverVars
  <2> QED
    BY <2>1, <2>2 DEF IInv, UpOK, DownOK
<1>5. ASSUME NEW q \in Slots, SendDelta(p, q)
      PROVE  IInv'
  <2>1. DeltaPacket(p, q) \in UpPackets(p)
    BY OtherPackets, NeutralPackets
  <2>2. UpOK(up')
    <3>1. <<DeltaPacket(p, q)>> \in Seq(UpPackets(p))
      BY <2>1, Singleton
    <3> QED
      BY <3>1, <1>5, UpSent DEF IInv, SendDelta
  <2>3. TurnsOK'
    BY <1>5, TurnsKept DEF IInv, SendDelta, peerVars, turnVars
  <2>4. PeersOK' /\ DownOK(down')
    BY <1>5 DEF IInv, PeersOK, SendDelta, peerVars, serverVars
  <2> QED
    BY <2>2, <2>3, <2>4 DEF IInv, UpOK, DownOK
<1> QED
  BY <1>1, <1>2, <1>3, <1>4, <1>5 DEF Exchange

-----------------------------------------------------------------------------
(* Leaving, crashing, dropping.                                            *)

LEMMA DropPlayersStep ==
    ASSUME IInv, NEW p \in Slots, DropPlayers(p)
    PROVE  IInv'
<1>1. phase[p] = "in" /\ Len(Own(p)) >= K
  BY DEF DropPlayers
<1>2. TurnsOK'
  BY <1>1, FreshStep DEF DropPlayers
<1>3. p \notin Missing(p)
  <2>1. Own(p) \in Seq(Turns)
    BY DEF IInv, TurnsOK, Own
  <2>2. Own(p) # <<>>
    BY <2>1, <1>1, ParametersAssumption
  <2> QED
    BY <2>2, <1>1, OwnFresh DEF Missing
<1>4. Missing(p) \in SUBSET Slots
  BY DEF IInv, PeersOK, Missing
<1>5. PICK players \in Ascending(Missing(p)) :
        DisconnectNet(ClosedBy(p, Missing(p)), Sent(p, DisconnectPackets(p, players)), down)
  BY DEF DropPlayers
<1>6. players \in Seq(Slots)
  BY <1>4, AscendingSequences
<1>7. DisconnectPackets(p, players) \in Seq(UpPackets(p))
  <2>1. \A q \in Slots : DisconnectPacket(p, q) \in UpPackets(p)
    BY OtherPackets, NeutralPackets
  <2> QED
    BY <2>1, <1>6 DEF DisconnectPackets
<1>8. UpOK(Sent(p, DisconnectPackets(p, players)))
  BY <1>7, UpSent DEF IInv
<1>9. UpOK(up') /\ DownOK(down') /\ connections' \in SUBSET connections
  BY <1>5, <1>8, DisconnectNetStep DEF IInv
<1>10. PeersOK'
  <2>1. isConnected' = [isConnected EXCEPT ![p] = isConnected[p] \ Missing(p)] /\ phase' = phase
    BY DEF DropPlayers
  <2>2. isConnected[p] \ Missing(p) \in SUBSET Slots
          /\ (phase[p] = "in" => p \in isConnected[p] \ Missing(p))
    BY <1>3 DEF IInv, PeersOK
  <2> QED
    BY <2>1, <2>2, <1>9, PeersOfOne DEF IInv
<1> QED
  BY <1>2, <1>9, <1>10 DEF IInv, UpOK, DownOK

\* The state of a program that is gone.
LEMMA ResetStep ==
    ASSUME IInv, NEW p \in Slots, Reset(p), connections' \in SUBSET connections
    PROVE  TurnsOK' /\ PeersOK'
<1>1. turnQueue' \in [Slots -> [Slots -> Seq(Turns)]]
  <2>1. NoTurns \in [Slots -> Seq(Turns)]
    BY DEF NoTurns
  <2> QED
    BY <2>1 DEF Reset, IInv, TurnsOK
<1>2. UNCHANGED <<current_turn, next_turn>>
  BY DEF Reset
<1>3. ASSUME NEW r \in Slots, phase'[r] # "out"
      PROVE  WindowAt(turnQueue'[r][r], current_turn'[r], next_turn'[r])
  <2>1. r # p
    BY <1>3 DEF Reset, IInv, PeersOK
  <2>2. turnQueue'[r] = turnQueue[r] /\ phase'[r] = phase[r]
    BY <2>1 DEF Reset, IInv, PeersOK, TurnsOK
  <2> QED
    BY <2>2, <1>2, <1>3 DEF IInv, TurnsOK, Own
<1>4. TurnsOK'
  BY <1>1, <1>2, <1>3 DEF IInv, TurnsOK, Own
<1>5. PeersOK'
  BY DEF IInv, PeersOK, Reset
<1> QED
  BY <1>4, <1>5

LEMMA ServerGoneStep ==
    ASSUME IInv, NEW disconnects \in {<<>>, <<DisconnectPacket(Host, Host)>>},
           ServerGone(disconnects)
    PROVE  UpOK(up') /\ DownOK(down') /\ connections' \in SUBSET connections
<1>1. Host \in Slots
  BY ParametersAssumption DEF Host, Slots
<1>2. ASSUME NEW q \in Slots
      PROVE  down[q] \o disconnects \o <<Eof>> \in Seq(DownPackets(q))
  <2>1. DisconnectPacket(Host, Host) \in DownPackets(q) /\ Eof \in DownPackets(q)
    BY <1>1, OtherPackets, NeutralPackets
  <2>2. disconnects \in Seq(DownPackets(q)) /\ <<Eof>> \in Seq(DownPackets(q))
    BY <2>1, Singleton, SeqClosure
  <2>3. down[q] \in Seq(DownPackets(q))
    BY DEF IInv, DownOK
  <2> QED
    BY <2>2, <2>3
<1>3. \A q \in Slots : down'[q] \in Seq(DownPackets(q))
  <2>1. \A q \in Slots : down[q] \in Seq(DownPackets(q)) /\ <<>> \in Seq(DownPackets(q))
    BY DEF IInv, DownOK
  <2> QED
    BY <1>2, <2>1 DEF ServerGone
<1>4. down' = [q \in Slots |-> down'[q]]
  BY DEF ServerGone
<1>5. DownOK(down')
  BY <1>3, <1>4, DownSet
<1> QED
  BY <1>5 DEF ServerGone, UpOK

\* What a program that is gone had still to receive is lost.
LEMMA DownCleared ==
    ASSUME DownOK(down), NEW p \in Slots
    PROVE  DownOK([down EXCEPT ![p] = <<>>])
  BY DEF DownOK

LEMMA LeaveStep ==
    ASSUME IInv, NEW p \in Slots, Leave(p)
    PROVE  IInv'
<1>1. CASE /\ p # Host
           /\ up' = IF p \in connections
                    THEN [up EXCEPT ![p] = @ \o <<DisconnectPacket(p, p), Eof>>] ELSE up
           /\ down' = [down EXCEPT ![p] = <<>>]
           /\ UNCHANGED serverVars
  <2>1. TurnsOK' /\ PeersOK'
    BY <1>1, ResetStep DEF Leave, serverVars
  <2>2. DownOK(down')
    BY <1>1, DownCleared DEF IInv
  <2>3. UpOK(up')
    <3>1. DisconnectPacket(p, p) \in UpPackets(p) /\ Eof \in UpPackets(p)
      BY OtherPackets, NeutralPackets
    <3>2. <<DisconnectPacket(p, p), Eof>> \in Seq(UpPackets(p))
      BY <3>1
    <3>3. up' = Sent(p, <<DisconnectPacket(p, p), Eof>>)
      BY <1>1 DEF Sent
    <3> QED
      BY <3>2, <3>3, UpSent DEF IInv
  <2> QED
    BY <2>1, <2>2, <2>3 DEF IInv, UpOK, DownOK
<1>2. ASSUME NEW disconnects \in {<<>>, <<DisconnectPacket(Host, Host)>>},
             ServerGone(disconnects)
      PROVE  IInv'
  <2>1. UpOK(up') /\ DownOK(down') /\ connections' \in SUBSET connections
    BY <1>2, ServerGoneStep
  <2>2. TurnsOK' /\ PeersOK'
    BY <2>1, ResetStep DEF Leave
  <2> QED
    BY <2>1, <2>2 DEF IInv, UpOK, DownOK
<1> QED
  BY <1>1, <1>2 DEF Leave

LEMMA CrashStep ==
    ASSUME IInv, NEW p \in Slots, Crash(p)
    PROVE  IInv'
<1>1. ASSUME NEW sent \in 0 .. Len(up[p]),
             up' = IF p \in connections
                   THEN [up EXCEPT ![p] = SubSeq(@, 1, sent) \o <<Eof>>] ELSE up,
             down' = [down EXCEPT ![p] = <<>>],
             UNCHANGED serverVars
      PROVE  IInv'
  <2>1. TurnsOK' /\ PeersOK'
    BY <1>1, ResetStep DEF Crash, serverVars
  <2>2. DownOK(down')
    BY <1>1, DownCleared DEF IInv
  <2>3. UpOK(up')
    <3>1. up[p] \in Seq(UpPackets(p)) /\ sent \in Nat /\ sent <= Len(up[p])
      BY DEF IInv, UpOK
    <3>2. SubSeq(up[p], 1, sent) \in Seq(UpPackets(p))
      BY <3>1, SeqClosure
    <3>3. <<Eof>> \in Seq(UpPackets(p))
      BY OtherPackets, NeutralPackets, Singleton
    <3>4. SubSeq(up[p], 1, sent) \o <<Eof>> \in Seq(UpPackets(p))
      BY <3>2, <3>3, SeqClosure
    <3>5. SubSeq(up[p], 1, sent) \o <<Eof>> \in Seq(Packets)
      BY <3>4, ChannelSubtypes
    <3> QED
      BY <3>4, <3>5, <1>1 DEF IInv, UpOK
  <2> QED
    BY <2>1, <2>2, <2>3 DEF IInv, UpOK, DownOK
<1>2. CASE p = Host /\ ServerGone(<<>>)
  <2>1. UpOK(up') /\ DownOK(down') /\ connections' \in SUBSET connections
    BY <1>2, ServerGoneStep
  <2>2. TurnsOK' /\ PeersOK'
    BY <2>1, ResetStep DEF Crash
  <2> QED
    BY <2>1, <2>2 DEF IInv, UpOK, DownOK
<1> QED
  BY <1>1, <1>2 DEF Crash

-----------------------------------------------------------------------------
(* The theorem.                                                            *)

LEMMA InitEstablishes == Init => IInv
<1> SUFFICES ASSUME Init PROVE IInv
  OBVIOUS
<1>1. Members \in SUBSET Slots
  BY ParametersAssumption DEF Slots
<1>2. PeersOK
  BY <1>1 DEF Init, PeersOK
<1>3. UpOK(up) /\ DownOK(down)
  BY DEF Init, UpOK, DownOK
<1>4. ASSUME NEW q \in Slots
      PROVE  /\ FirstTurnsOf(q) \in Seq(Turns)
             /\ Len(FirstTurnsOf(q)) < K
             /\ \A i \in 1 .. Len(FirstTurnsOf(q)) :
                   FirstTurnsOf(q)[i].n = FirstTurn + i - 1
  <2>1. CASE q \notin Members \/ FirstTurn = 0
    BY <2>1, ParametersAssumption DEF FirstTurnsOf
  <2>2. CASE q \in Members /\ FirstTurn # 0
    <3>1. K \in Nat /\ K - 1 \in Nat /\ FirstTurn \in Nat
      BY ParametersAssumption
    <3> DEFINE Turn(i) == [n |-> FirstTurn + i - 1, bit |-> FALSE]
    <3>2. FirstTurnsOf(q) = [i \in 1 .. K - 1 |-> Turn(i)]
      BY <2>2 DEF FirstTurnsOf
    <3>3. \A i \in 1 .. K - 1 : Turn(i) \in Turns /\ Turn(i).n = FirstTurn + i - 1
      BY <3>1 DEF Turns
    <3> HIDE DEF Turn
    <3>4. FirstTurnsOf(q) \in Seq(Turns) /\ Len(FirstTurnsOf(q)) = K - 1
      BY <3>1, <3>2, <3>3
    <3>5. \A i \in 1 .. K - 1 : FirstTurnsOf(q)[i] = Turn(i)
      BY <3>2
    <3>6. ASSUME NEW i \in 1 .. Len(FirstTurnsOf(q))
          PROVE  FirstTurnsOf(q)[i].n = FirstTurn + i - 1
      <4>1. i \in 1 .. K - 1
        BY <3>4
      <4>2. FirstTurnsOf(q)[i] = Turn(i)
        BY <4>1, <3>5
      <4> QED
        BY <4>1, <4>2, <3>3
    <3>7. Len(FirstTurnsOf(q)) < K
      BY <3>1, <3>4
    <3> QED
      BY <3>4, <3>6, <3>7
  <2> QED
    BY <2>1, <2>2
<1>5. \A p \in Slots : turnQueue[p] \in [Slots -> Seq(Turns)]
  BY <1>4 DEF Init, NoTurns
<1>6. turnQueue \in [Slots -> [Slots -> Seq(Turns)]]
  BY <1>5 DEF Init
<1>7. current_turn \in [Slots -> Nat]
  BY ParametersAssumption DEF Init
<1>8. next_turn \in [Slots -> Nat]
  BY <1>4, ParametersAssumption DEF Init
<1>9. ASSUME NEW p \in Slots
      PROVE  WindowAt(Own(p), current_turn[p], next_turn[p])
  <2>1. CASE p \in Members
    <3>1. Own(p) = FirstTurnsOf(p) /\ current_turn[p] = FirstTurn
             /\ next_turn[p] = FirstTurn + Len(FirstTurnsOf(p))
      BY <2>1 DEF Init, Own
    <3> QED
      BY <3>1, <1>4, ParametersAssumption DEF WindowAt
  <2>2. CASE p \notin Members
    BY <2>2, ParametersAssumption DEF Init, Own, NoTurns, WindowAt
  <2> QED
    BY <2>1, <2>2
<1>10. TurnsOK
  BY <1>6, <1>7, <1>8, <1>9 DEF TurnsOK
<1> QED
  BY <1>2, <1>3, <1>10 DEF IInv

LEMMA StepPreserves == IInv /\ [Next]_vars => IInv'
<1> SUFFICES ASSUME IInv, [Next]_vars PROVE IInv'
  OBVIOUS
<1>1. CASE UNCHANGED vars
  BY <1>1 DEF vars, peerVars, turnVars, netVars, serverVars, IInv, PeersOK, TurnsOK, Own,
              UpOK, DownOK
<1>2. ASSUME NEW p \in Slots, Join(p) PROVE IInv'
  BY <1>2, JoinStep
<1>3. ASSUME NEW p \in Slots, Server(p) \/ ServerTimeout(p) PROVE IInv'
  BY <1>3, ServerStep
<1>4. ASSUME NEW p \in Slots, Deliver(p) PROVE IInv'
  BY <1>4, ReceiveConnectStep, ReceiveAcceptStep, ReceiveTurnStep, ReceiveDisconnectStep,
     ReceiveDeltaStep, ReceiveEofStep DEF Deliver
<1>5. ASSUME NEW p \in Slots, Exchange(p) PROVE IInv'
  BY <1>5, ExchangeStep
<1>6. ASSUME NEW p \in Slots, Leave(p) PROVE IInv'
  BY <1>6, LeaveStep
<1>7. ASSUME NEW p \in Slots, Crash(p) PROVE IInv'
  BY <1>7, CrashStep
<1>8. ASSUME NEW p \in Slots, DropPlayers(p) PROVE IInv'
  BY <1>8, DropPlayersStep
<1> QED
  BY <1>1, <1>2, <1>3, <1>4, <1>5, <1>6, <1>7, <1>8 DEF Next

\* In every game, whatever the number of players, the window and the faults, the
\* own turns in transit of a program are those from current_turn to next_turn - 1:
\* renumbering in MakeReady, stale-turn removal in SNetReceiveTurns, reconnections
\* and drops never leave a gap in the turns that SendFirstTurnIfReady resends.
THEOREM TurnWindow == Spec => []OwnWindow
<1>1. Spec => []IInv
  BY InitEstablishes, StepPreserves, PTL DEF Spec
<1> QED
  BY <1>1, IInvImpliesOwnWindow, PTL

-----------------------------------------------------------------------------
(* The types of the variables that IInv leaves open.                       *)

RestOK ==
    /\ listening \in [Slots -> BOOLEAN]
    /\ awaiting \in [Slots -> BOOLEAN]
    /\ turn_upper_bit \in [Slots -> BOOLEAN]
    /\ resync \in SUBSET Slots
    /\ sendDelta \in [Slots -> SUBSET Slots]
    /\ gbDeltaSender \in [Slots -> Slots \cup {Nobody}]
    /\ cancelled \in [Slots -> Nat]
    /\ started \in [Slots -> SUBSET Slots]
    /\ faults \in Nat

LEMMA IInvImpliesTypeOK == IInv /\ RestOK => TypeOK
  BY DEF IInv, PeersOK, TurnsOK, UpOK, DownOK, RestOK, TypeOK

LEMMA InitRest == Init => RestOK
<1> SUFFICES ASSUME Init PROVE RestOK
  OBVIOUS
<1>1. Members \in SUBSET Slots
  BY ParametersAssumption DEF Slots
<1> QED
  BY <1>1 DEF Init, RestOK

\* HandleTurnUpperBit finds a player wherever there is one: the players that it
\* chooses the lowest of are few.
LEMMA DeltaSourceType ==
    ASSUME IInv, NEW p \in Slots, NEW q
    PROVE  DeltaSource(p, q) \in Slots \cup {Nobody}
<1> DEFINE others == isConnected[p] \ {q}
<1>1. others \in SUBSET (0 .. 3)
  BY ParametersAssumption DEF IInv, PeersOK, Slots
<1>2. others \subseteq Slots
  BY DEF IInv, PeersOK
<1>3. CASE others = {}
  BY <1>3 DEF DeltaSource
<1>4. CASE others # {}
  <2>1. \E r \in others : \A s \in others : r <= s
    <3>1. CASE 0 \in others
      BY <3>1, <1>1
    <3>2. CASE 0 \notin others /\ 1 \in others
      BY <3>2, <1>1
    <3>3. CASE 0 \notin others /\ 1 \notin others /\ 2 \in others
      BY <3>3, <1>1
    <3>4. CASE 0 \notin others /\ 1 \notin others /\ 2 \notin others
      BY <3>4, <1>1, <1>4
    <3> QED
      BY <3>1, <3>2, <3>3, <3>4
  <2>2. DeltaSource(p, q) = CHOOSE r \in others : \A s \in others : r <= s
    BY <1>4 DEF DeltaSource
  <2> HIDE DEF others
  <2> QED
    BY <2>1, <2>2, <1>2
<1> QED
  BY <1>3, <1>4

LEMMA ServerRest ==
    ASSUME IInv, RestOK, NEW p \in Slots, Server(p) \/ ServerTimeout(p) \/ Join(p)
    PROVE  RestOK'
<1>1. CASE Relay(p)
  BY <1>1 DEF Relay, RestOK, peerVars, turnVars, deltaVars, serverVars
<1>2. CASE ServerSeesEof(p)
  BY <1>2 DEF ServerSeesEof, DropConnection, RestOK, peerVars, turnVars, deltaVars
<1>3. CASE CancelledHandler(p)
  <2>1. cancelled[p] - 1 \in Nat
    BY <1>3 DEF CancelledHandler, RestOK
  <2> QED
    BY <1>3, <2>1 DEF CancelledHandler, DropConnection, RestOK, peerVars, turnVars, deltaVars
<1>4. CASE ServerTimeout(p)
  BY <1>4 DEF ServerTimeout, DropConnection, RestOK, peerVars, turnVars, deltaVars
<1>5. CASE Join(p)
  BY <1>5 DEF Join, RestOK, deltaVars
<1> QED
  BY <1>1, <1>2, <1>3, <1>4, <1>5 DEF Server

LEMMA LeaveEventRest ==
    ASSUME RestOK, NEW p \in Slots, NEW players, LeaveEvent(p, players)
    PROVE  /\ sendDelta' \in [Slots -> SUBSET Slots]
           /\ gbDeltaSender' \in [Slots -> Slots \cup {Nobody}]
           /\ resync' \in SUBSET Slots
  BY DEF RestOK, LeaveEvent

LEMMA ReceiveDisconnectRest ==
    ASSUME RestOK, NEW p \in Slots, ReceiveDisconnect(p)
    PROVE  RestOK'
<1> DEFINE player == Head(down[p]).player
           src == Head(down[p]).src
           known == isConnected[p] \cup ({src} \ {PLR_MASTER})
<1>1. UNCHANGED <<awaiting, turn_upper_bit, faults>>
  BY DEF ReceiveDisconnect
<1>2. cancelled' \in [Slots -> Nat]
  BY DEF ReceiveDisconnect, DisconnectNet, RestOK
<1>3. listening' \in [Slots -> BOOLEAN]
  BY DEF ReceiveDisconnect, RestOK
<1>4. \/ UNCHANGED <<turnQueue, started, deltaVars>>
      \/ Forget(p, known, player)
  BY DEF ReceiveDisconnect
<1> HIDE DEF player, known
<1>5. \/ UNCHANGED <<started, deltaVars>>
      \/ /\ started' = [started EXCEPT ![p] = @ \ {player}]
         /\ LeaveEvent(p, {player})
  BY <1>4 DEF Forget
<1> QED
  BY <1>1, <1>2, <1>3, <1>5, LeaveEventRest DEF RestOK, deltaVars

LEMMA DeliverRest ==
    ASSUME IInv, RestOK, NEW p \in Slots, Deliver(p)
    PROVE  RestOK'
<1>1. CASE ReceiveConnect(p)
  BY <1>1 DEF ReceiveConnect, RestOK, turnVars, deltaVars, serverVars
<1>2. CASE ReceiveAccept(p)
  BY <1>2 DEF ReceiveAccept, RestOK, turnVars, serverVars
<1>3. CASE ReceiveTurn(p)
  <2>1. awaiting' \in [Slots -> BOOLEAN]
    BY <1>3 DEF ReceiveTurn, MakeReady, RestOK
  <2> QED
    BY <1>3, <2>1 DEF ReceiveTurn, RestOK, deltaVars, serverVars
<1>4. CASE ReceiveDisconnect(p)
  BY <1>4, ReceiveDisconnectRest
<1>5. CASE ReceiveDelta(p)
  <2>1. Head(down[p]).src \in Slots
    BY <1>5, HeadOfDown, PacketFields DEF IInv, ReceiveDelta, HasPacket
  <2> QED
    BY <1>5, <2>1 DEF ReceiveDelta, RestOK, turnVars, serverVars
<1>6. CASE ReceiveEof(p)
  BY <1>6 DEF ReceiveEof, RestOK, turnVars, deltaVars, serverVars
<1> QED
  BY <1>1, <1>2, <1>3, <1>4, <1>5, <1>6 DEF Deliver

LEMMA ReceiveTurnsRest ==
    ASSUME IInv, RestOK, NEW p \in Slots, ReceiveTurns(p)
    PROVE  RestOK'
<1> DEFINE asking == {q \in Arrived(p) : Head(Fresh(p)[q]).bit}
<1>1. Arrived(p) \subseteq Slots
  BY DEF Arrived, IInv, PeersOK
<1>2. UNCHANGED <<listening, awaiting, turn_upper_bit, resync, cancelled, faults>>
  BY DEF ReceiveTurns, netVars, serverVars
<1>3. started' \in [Slots -> SUBSET Slots]
  BY <1>1 DEF ReceiveTurns, RestOK
<1>4. sendDelta' \in [Slots -> SUBSET Slots]
  <2>1. {q \in asking : DeltaSource(p, q) = p} \subseteq Slots
    BY <1>1
  <2>2. sendDelta' = [sendDelta EXCEPT ![p] = @ \cup {q \in asking : DeltaSource(p, q) = p}]
    BY DEF ReceiveTurns
  <2> HIDE DEF asking
  <2> QED
    BY <2>1, <2>2 DEF RestOK
<1>5. gbDeltaSender' \in [Slots -> Slots \cup {Nobody}]
  BY DeltaSourceType DEF ReceiveTurns, RestOK
<1> QED
  BY <1>2, <1>3, <1>4, <1>5 DEF RestOK

LEMMA ExchangeRest ==
    ASSUME IInv, RestOK, NEW p \in Slots, Exchange(p)
    PROVE  RestOK'
<1>1. CASE SendTurns(p)
  <2>1. awaiting' \in [Slots -> BOOLEAN]
    BY <1>1 DEF SendTurns, RestOK
  <2> QED
    BY <1>1, <2>1 DEF SendTurns, RestOK, peerVars, deltaVars, serverVars
<1>2. CASE ReceiveTurns(p)
  BY <1>2, ReceiveTurnsRest
<1>3. CASE WaitForTurns(p)
  BY <1>3 DEF WaitForTurns, RestOK, peerVars, deltaVars, netVars, serverVars
<1>4. CASE AskAgain(p)
  BY <1>4 DEF AskAgain, RestOK, peerVars, netVars, serverVars
<1>5. CASE \E q \in Slots : SendDelta(p, q)
  BY <1>5 DEF SendDelta, RestOK, peerVars, turnVars, serverVars
<1> QED
  BY <1>1, <1>2, <1>3, <1>4, <1>5 DEF Exchange

LEMMA ResetRest ==
    ASSUME RestOK, NEW p \in Slots, Reset(p), faults' = faults + 1,
           cancelled' \in [Slots -> Nat]
    PROVE  RestOK'
<1>1. listening' \in [Slots -> BOOLEAN] /\ UNCHANGED <<awaiting, turn_upper_bit>>
  BY DEF Reset, RestOK
<1>2. resync' \in SUBSET Slots /\ faults' \in Nat
  BY DEF Reset, RestOK
<1>3. sendDelta' \in [Slots -> SUBSET Slots] /\ started' \in [Slots -> SUBSET Slots]
  BY DEF Reset, RestOK
<1>4. gbDeltaSender' \in [Slots -> Slots \cup {Nobody}]
  BY DEF Reset, RestOK
<1> QED
  BY <1>1, <1>2, <1>3, <1>4 DEF RestOK

LEMMA FaultsRest ==
    ASSUME IInv, RestOK, NEW p \in Slots, Leave(p) \/ Crash(p) \/ DropPlayers(p)
    PROVE  RestOK'
<1>1. CASE Leave(p) \/ Crash(p)
  <2>1. Reset(p) /\ faults' = faults + 1
    BY <1>1 DEF Leave, Crash
  <2>2. cancelled' \in [Slots -> Nat]
    BY <1>1 DEF Leave, Crash, ServerGone, serverVars, RestOK
  <2> QED
    BY <2>1, <2>2, ResetRest
<1>2. CASE DropPlayers(p)
  <2>1. UNCHANGED <<listening, awaiting, turn_upper_bit>>
    BY <1>2 DEF DropPlayers
  <2>2. cancelled' \in [Slots -> Nat]
    BY <1>2 DEF DropPlayers, DisconnectNet, RestOK
  <2>3. started' \in [Slots -> SUBSET Slots]
    BY <1>2 DEF DropPlayers, RestOK
  <2>4. faults' \in Nat
    BY <1>2 DEF DropPlayers, RestOK
  <2>5. LeaveEvent(p, Missing(p))
    BY <1>2 DEF DropPlayers
  <2> QED
    BY <2>1, <2>2, <2>3, <2>4, <2>5, LeaveEventRest DEF RestOK
<1> QED
  BY <1>1, <1>2

LEMMA RestPreserved == IInv /\ RestOK /\ [Next]_vars => RestOK'
<1> SUFFICES ASSUME IInv, RestOK, [Next]_vars PROVE RestOK'
  OBVIOUS
<1>1. CASE UNCHANGED vars
  BY <1>1 DEF vars, peerVars, turnVars, deltaVars, netVars, serverVars, RestOK
<1>2. CASE Next
  <2>1. PICK p \in Slots :
            \/ Server(p) \/ ServerTimeout(p) \/ Join(p)
            \/ Deliver(p)
            \/ Exchange(p)
            \/ Leave(p) \/ Crash(p) \/ DropPlayers(p)
    BY <1>2 DEF Next
  <2> QED
    BY <2>1, ServerRest, DeliverRest, ExchangeRest, FaultsRest
<1> QED
  BY <1>1, <1>2

\* Every variable keeps its type in every game: in particular the delta source of
\* HandleTurnUpperBit is a player or nobody, and no handler of the server is
\* cancelled that did not wait.
THEOREM TypeCorrect == Spec => []TypeOK
<1>1. Init => IInv /\ RestOK
  BY InitEstablishes, InitRest
<1>2. IInv /\ RestOK /\ [Next]_vars => (IInv /\ RestOK)'
  BY StepPreserves, RestPreserved
<1> QED
  BY <1>1, <1>2, IInvImpliesTypeOK, PTL DEF Spec

--------------------------------------------------------------------------------
(***************************************************************************)
(* TurnSync implements Lockstep, for every number of slots, every window   *)
(* and any number of faults, in the runs whose packets are not later than  *)
(* the stale test of SNetReceiveTurns can tell.                            *)
(***************************************************************************)

-----------------------------------------------------------------------------
(* What is on its way from a player was sent by it: the player has a       *)
(* sequence number and the turn is behind its next one.  w and n stand for *)
(* awaiting and next_turn, before or after a step.                         *)

SentBy(w, n, s, turn) == ~ w[s] /\ turn.n < n[s]

SentTurns(w, n, s) == {turn \in Turns : SentBy(w, n, s, turn)}
SentPackets(w, n) ==
    {packet \in Packets : packet.type = "PT_TURN" => SentBy(w, n, packet.src, packet.turn)}

ChannelsOf(S, channels) == \A r \in Slots : channels[r] \in Seq(S)

QueuesOf(w, n, queues) ==
    \A p, s \in Slots : s # p =>
        /\ queues[p][s] \in Seq(SentTurns(w, n, s))
        /\ w[p] => queues[p][s] = <<>>

\* A program whose join the server has accepted hears of that before any turn.
Accepted(channel) ==
    \E k \in 1 .. Len(channel) :
        /\ channel[k].type = "PT_JOIN_ACCEPT"
        /\ \A i \in 1 .. k - 1 : channel[i].type # "PT_TURN"

AcceptedOK == \A r \in Slots : phase[r] = "joining" => Accepted(down[r])

LeadOK == \A p \in Slots : next_turn[p] <= current_turn[p] + K

SentOK ==
    /\ ChannelsOf(SentPackets(awaiting, next_turn), up)
    /\ ChannelsOf(SentPackets(awaiting, next_turn), down)
    /\ QueuesOf(awaiting, next_turn, turnQueue)

HostOK == phase[Host] # "joining" /\ phase[Host] # "free"

LInv == IInv /\ RestOK /\ SentOK /\ LeadOK /\ AcceptedOK /\ HostOK

-----------------------------------------------------------------------------
(* Sequences of sent turns and packets.                                    *)

LEMMA SeqSubset ==
    ASSUME NEW S, NEW T, S \subseteq T, NEW s \in Seq(S)
    PROVE  s \in Seq(T)
  OBVIOUS

LEMMA EmptySeq == \A S : <<>> \in Seq(S)
  OBVIOUS

\* Numbers only grow once they are known, so what was sent stays so.
Grow(w, n, w2, n2) ==
    /\ n \in [Slots -> Nat] /\ n2 \in [Slots -> Nat]
    /\ \A s \in Slots : ~ w[s] => ~ w2[s] /\ n[s] <= n2[s]

LEMMA SentGrows ==
    ASSUME NEW w, NEW n, NEW w2, NEW n2, Grow(w, n, w2, n2)
    PROVE  /\ \A s \in Slots : SentTurns(w, n, s) \subseteq SentTurns(w2, n2, s)
           /\ SentPackets(w, n) \subseteq SentPackets(w2, n2)
<1>1. ASSUME NEW s \in Slots, NEW turn \in Turns, SentBy(w, n, s, turn)
      PROVE  SentBy(w2, n2, s, turn)
  BY <1>1 DEF Grow, SentBy, Turns
<1>2. \A s \in Slots : SentTurns(w, n, s) \subseteq SentTurns(w2, n2, s)
  BY <1>1 DEF SentTurns
<1>3. ASSUME NEW packet \in SentPackets(w, n)
      PROVE  packet \in SentPackets(w2, n2)
  <2>1. packet \in Packets
    BY <1>3 DEF SentPackets
  <2>2. packet.type = "PT_TURN" => packet.src \in Slots /\ packet.turn \in Turns
    BY <2>1, PacketFields
  <2> QED
    BY <1>1, <1>3, <2>1, <2>2 DEF SentPackets
<1> QED
  BY <1>2, <1>3

LEMMA ChannelsGrow ==
    ASSUME NEW w, NEW n, NEW w2, NEW n2, Grow(w, n, w2, n2),
           NEW channels, ChannelsOf(SentPackets(w, n), channels)
    PROVE  ChannelsOf(SentPackets(w2, n2), channels)
  BY SentGrows, SeqSubset DEF ChannelsOf

LEMMA Unchanging ==
    ASSUME NEW w, NEW n \in [Slots -> Nat]
    PROVE  Grow(w, n, w, n)
  BY DEF Grow

\* Packets that are not turns.
LEMMA Neutral ==
    ASSUME NEW w, NEW n, NEW packet \in Packets, packet.type # "PT_TURN"
    PROVE  packet \in SentPackets(w, n)
  BY DEF SentPackets

LEMMA NeutralOnes ==
    ASSUME NEW w, NEW n, NEW p \in Slots
    PROVE  /\ ConnectPacket(p) \in SentPackets(w, n)
           /\ AcceptPacket(p) \in SentPackets(w, n)
           /\ \A q \in Slots \cup {PLR_MASTER} : DisconnectPacket(q, p) \in SentPackets(w, n)
           /\ \A q \in Slots : DeltaPacket(p, q) \in SentPackets(w, n)
           /\ Eof \in SentPackets(w, n)
  BY OtherPackets, Neutral

LEMMA PacketsOfSent ==
    ASSUME NEW w, NEW n, NEW p \in Slots, NEW dst \in Slots \cup {PLR_BROADCAST},
           NEW turns \in Seq(SentTurns(w, n, p))
    PROVE  ToPackets(p, dst, turns) \in Seq(SentPackets(w, n))
<1>1. \A t \in SentTurns(w, n, p) : TurnPacket(p, dst, t) \in SentPackets(w, n)
  BY DEF SentTurns, SentPackets, TurnPacket, Packets
<1> QED
  BY <1>1 DEF ToPackets

\* The own turns of a program with a number are sent ones.
LEMMA OwnSent ==
    ASSUME NEW w, NEW n, NEW p \in Slots, ~ w[p], NEW c \in Nat, n[p] \in Nat,
           NEW queue \in Seq(Turns), WindowAt(queue, c, n[p])
    PROVE  queue \in Seq(SentTurns(w, n, p))
<1>1. ASSUME NEW i \in 1 .. Len(queue)
      PROVE  queue[i] \in SentTurns(w, n, p)
  <2>1. queue[i] \in Turns
    OBVIOUS
  <2>2. Len(queue) \in Nat /\ queue[i].n = c + i - 1 /\ n[p] = c + Len(queue)
    BY DEF WindowAt
  <2>3. queue[i].n < n[p]
    BY <2>2
  <2> QED
    BY <2>1, <2>3 DEF SentTurns, SentBy
<1> QED
  BY <1>1

LEMMA FirstTurnsSent ==
    ASSUME IInv, NEW p \in Slots, NEW q \in Slots, phase[p] # "out"
    PROVE  FirstTurns(p, q) \in Seq(SentPackets(awaiting, next_turn))
<1>1. CASE q \in isConnected[p] \/ awaiting[p]
  BY <1>1, EmptySeq DEF FirstTurns
<1>2. CASE q \notin isConnected[p] /\ ~ awaiting[p]
  <2>1. Own(p) \in Seq(Turns) /\ WindowAt(Own(p), current_turn[p], next_turn[p])
          /\ current_turn[p] \in Nat /\ next_turn[p] \in Nat
    BY DEF IInv, TurnsOK, Own
  <2>2. Own(p) \in Seq(SentTurns(awaiting, next_turn, p))
    BY <1>2, <2>1, OwnSent
  <2>3. FirstTurns(p, q) = ToPackets(p, q, Own(p))
    BY <1>2 DEF FirstTurns
  <2> QED
    BY <2>2, <2>3, PacketsOfSent
<1> QED
  BY <1>1, <1>2

\* Changes of the channels, whatever set their packets are from.
LEMMA SentChannels ==
    ASSUME NEW S, ChannelsOf(S, up), up \in [Slots -> Seq(Packets)],
           NEW p \in Slots, NEW packets \in Seq(S)
    PROVE  ChannelsOf(S, Sent(p, packets))
<1>1. up[p] \o packets \in Seq(S)
  BY DEF ChannelsOf
<1> QED
  BY <1>1 DEF ChannelsOf, Sent

LEMMA TailChannels ==
    ASSUME NEW S, NEW channels \in [Slots -> Seq(Packets)], ChannelsOf(S, channels),
           NEW p \in Slots, channels[p] # <<>>
    PROVE  ChannelsOf(S, [channels EXCEPT ![p] = Tail(@)])
<1>1. Tail(channels[p]) \in Seq(S)
  BY SeqClosure DEF ChannelsOf
<1> QED
  BY <1>1 DEF ChannelsOf

LEMMA BroadcastChannels ==
    ASSUME NEW S, ChannelsOf(S, down), NEW packet \in S, NEW source
    PROVE  ChannelsOf(S, Broadcast(down, packet, source))
<1>1. \A q \in Slots : Append(down[q], packet) \in Seq(S)
  BY SeqClosure DEF ChannelsOf
<1> QED
  BY <1>1 DEF ChannelsOf, Broadcast

LEMMA ClosedChannels ==
    ASSUME NEW S, NEW closed, NEW ups, NEW downs, Eof \in S,
           ChannelsOf(S, ups), ChannelsOf(S, downs), DisconnectNet(closed, ups, downs)
    PROVE  ChannelsOf(S, up') /\ ChannelsOf(S, down')
<1>1. \A q \in Slots : Append(downs[q], Eof) \in Seq(S)
  BY SeqClosure DEF ChannelsOf
<1> QED
  BY <1>1, EmptySeq DEF ChannelsOf, DisconnectNet

\* What the stale turns leave of a queue, whatever set its turns are from.
LEMMA DropStaleIn ==
    ASSUME NEW S, NEW queue \in Seq(S), NEW c
    PROVE  DropStale(queue, c) \in Seq(S) /\ (queue = <<>> => DropStale(queue, c) = <<>>)
<1> DEFINE stale == {i \in 1 .. Len(queue) : \A j \in 1 .. i : IsStale(queue[j], c)}
<1>1. IsFiniteSet(stale)
  BY FS_Interval, FS_Subset
<1>2. Cardinality(stale) \in Nat
  BY <1>1, FS_CardinalityType
<1>3. DropStale(queue, c) = SubSeq(queue, Cardinality(stale) + 1, Len(queue))
  BY DEF DropStale
<1> HIDE DEF stale
<1>4. SubSeq(queue, Cardinality(stale) + 1, Len(queue)) \in Seq(S)
  BY <1>2, SeqClosure
<1>5. queue = <<>> => SubSeq(queue, Cardinality(stale) + 1, Len(queue)) = <<>>
  BY <1>2
<1> QED
  BY <1>3, <1>4, <1>5

\* The first of the turns that are left is not stale, and was in the queue.
LEMMA DropStaleHead ==
    ASSUME NEW S, NEW queue \in Seq(S), NEW c, DropStale(queue, c) # <<>>
    PROVE  \E i \in 1 .. Len(queue) :
               Head(DropStale(queue, c)) = queue[i] /\ ~ IsStale(queue[i], c)
<1> DEFINE stale == {i \in 1 .. Len(queue) : \A j \in 1 .. i : IsStale(queue[j], c)}
           k == Cardinality(stale)
<1>1. IsFiniteSet(1 .. Len(queue)) /\ stale \subseteq 1 .. Len(queue)
  BY FS_Interval
<1>2. IsFiniteSet(stale) /\ k \in Nat
  BY <1>1, FS_Subset, FS_CardinalityType
<1>3. DropStale(queue, c) = SubSeq(queue, k + 1, Len(queue))
  BY DEF DropStale
<1>4. k + 1 \in 1 .. Len(queue)
  <2> HIDE DEF k
  <2> QED
    BY <1>2, <1>3
<1>5. Head(DropStale(queue, c)) = queue[k + 1]
  <2> HIDE DEF k
  <2> QED
    BY <1>2, <1>3, <1>4
<1>6. k + 1 \notin stale
  <2> SUFFICES ASSUME k + 1 \in stale PROVE FALSE
    OBVIOUS
  <2>1. 1 .. k + 1 \subseteq stale
    <3> SUFFICES ASSUME NEW i \in 1 .. k + 1 PROVE i \in stale
      OBVIOUS
    <3>1. \A j \in 1 .. k + 1 : IsStale(queue[j], c)
      OBVIOUS
    <3> HIDE DEF k
    <3> QED
      BY <3>1, <1>2, <1>4
  <2>2. Cardinality(1 .. k + 1) <= k
    BY <2>1, <1>2, FS_Subset
  <2>3. Cardinality(1 .. k + 1) = k + 1
    <3> HIDE DEF k
    <3> QED
      BY <1>2, FS_Interval
  <2> HIDE DEF k
  <2> QED
    BY <2>2, <2>3, <1>2
<1>7. ASSUME IsStale(queue[k + 1], c) PROVE FALSE
  <2>1. PICK j \in 1 .. k + 1 : ~ IsStale(queue[j], c)
    BY <1>4, <1>6
  <2>2. j \in 1 .. k
    <3> HIDE DEF k
    <3> QED
      BY <2>1, <1>7, <1>2
  <2>3. stale \subseteq 1 .. j - 1
    <3> SUFFICES ASSUME NEW i \in stale, i >= j PROVE FALSE
      BY <1>1, <2>2
    <3> QED
      BY <2>1, <2>2, <1>1
  <2>4. IsFiniteSet(1 .. j - 1) /\ Cardinality(1 .. j - 1) = j - 1
    <3>1. j - 1 \in Nat
      BY <2>2, <1>2
    <3> QED
      BY <3>1, FS_Interval
  <2>5. k <= j - 1
    BY <2>3, <2>4, FS_Subset
  <2> HIDE DEF k
  <2> QED
    BY <2>2, <2>5, <1>2
<1> QED
  BY <1>4, <1>5, <1>7

-----------------------------------------------------------------------------
(* Before its accept no turn reaches a program that joins.                 *)

Extends(channel, longer) ==
    \/ longer = channel
    \/ \E packet \in Packets : longer = Append(channel, packet)
    \/ \E packets \in Seq(Packets) : longer = channel \o packets

LEMMA AcceptedLonger ==
    ASSUME NEW c \in Seq(Packets), Accepted(c), NEW d, Len(d) \in Nat, Len(d) >= Len(c),
           \A i \in 1 .. Len(c) : d[i] = c[i]
    PROVE  Accepted(d)
<1>1. PICK k \in 1 .. Len(c) :
        /\ c[k].type = "PT_JOIN_ACCEPT"
        /\ \A i \in 1 .. k - 1 : c[i].type # "PT_TURN"
  BY DEF Accepted
<1>2. Len(c) \in Nat
  OBVIOUS
<1>3. k \in 1 .. Len(d) /\ d[k].type = "PT_JOIN_ACCEPT"
  BY <1>1, <1>2
<1>4. ASSUME NEW i \in 1 .. k - 1 PROVE d[i].type # "PT_TURN"
  <2>1. i \in 1 .. Len(c)
    BY <1>2
  <2> QED BY <1>1, <2>1
<1> QED BY <1>3, <1>4 DEF Accepted

LEMMA AcceptedExtended ==
    ASSUME NEW c \in Seq(Packets), Accepted(c), NEW d, Extends(c, d)
    PROVE  Accepted(d)
<1>1. CASE d = c
  BY <1>1
<1>2. ASSUME NEW packet \in Packets, d = Append(c, packet) PROVE Accepted(d)
  <2>1. /\ Len(d) \in Nat /\ Len(d) >= Len(c)
        /\ \A i \in 1 .. Len(c) : d[i] = c[i]
    BY <1>2
  <2> QED BY <2>1, AcceptedLonger
<1>3. ASSUME NEW packets \in Seq(Packets), d = c \o packets PROVE Accepted(d)
  <2>1. /\ Len(d) \in Nat /\ Len(d) >= Len(c)
        /\ \A i \in 1 .. Len(c) : d[i] = c[i]
    BY <1>3
  <2> QED BY <2>1, AcceptedLonger
<1> QED
  BY <1>1, <1>2, <1>3 DEF Extends

LEMMA AcceptedTail ==
    ASSUME NEW c \in Seq(Packets), Accepted(c), Head(c).type # "PT_JOIN_ACCEPT"
    PROVE  Head(c).type # "PT_TURN" /\ Accepted(Tail(c))
<1>1. PICK k \in 1 .. Len(c) :
        /\ c[k].type = "PT_JOIN_ACCEPT"
        /\ \A i \in 1 .. k - 1 : c[i].type # "PT_TURN"
  BY DEF Accepted
<1>2. Len(c) \in Nat /\ Head(c) = c[1] /\ c # <<>>
  BY <1>1
<1>3. k # 1 /\ k - 1 \in 1 .. Len(c) - 1
  BY <1>1, <1>2
<1>4. Head(c).type # "PT_TURN"
  BY <1>1, <1>2, <1>3
<1>5. Len(Tail(c)) = Len(c) - 1 /\ \A i \in 1 .. Len(c) - 1 : Tail(c)[i] = c[i + 1]
  BY <1>2
<1>6. Tail(c)[k - 1] = c[k]
  BY <1>3, <1>5
<1>7. \A i \in 1 .. (k - 1) - 1 : Tail(c)[i].type # "PT_TURN"
  <2> SUFFICES ASSUME NEW i \in 1 .. (k - 1) - 1 PROVE Tail(c)[i].type # "PT_TURN"
    OBVIOUS
  <2>1. i \in 1 .. Len(c) - 1 /\ i + 1 \in 1 .. k - 1
    BY <1>3
  <2> QED
    BY <2>1, <1>1, <1>5
<1> QED
  BY <1>1, <1>3, <1>4, <1>5, <1>6, <1>7 DEF Accepted

\* A step in which nobody joins and nobody that joins takes a packet.
LEMMA AcceptedKept ==
    ASSUME DownOK(down), AcceptedOK,
           \A r \in Slots : phase'[r] = "joining" =>
               phase[r] = "joining" /\ Extends(down[r], down'[r])
    PROVE  AcceptedOK'
  BY AcceptedExtended DEF AcceptedOK, DownOK

\* A step in which p takes a packet that is not its accept.
LEMMA AcceptedTaken ==
    ASSUME DownOK(down), AcceptedOK, NEW p \in Slots, phase' = phase,
           Head(down[p]).type # "PT_JOIN_ACCEPT",
           \A r \in Slots \ {p} : Extends(down[r], down'[r]),
           Extends(Tail(down[p]), down'[p])
    PROVE  AcceptedOK'
<1> SUFFICES ASSUME NEW r \in Slots, phase[r] = "joining" PROVE Accepted(down'[r])
  BY DEF AcceptedOK
<1>1. down[r] \in Seq(Packets) /\ Accepted(down[r])
  BY DEF DownOK, AcceptedOK
<1>2. CASE r # p
  BY <1>1, <1>2, AcceptedExtended
<1>3. CASE r = p
  <2>1. Accepted(Tail(down[p]))
    BY <1>1, <1>3, AcceptedTail
  <2>2. down[p] # <<>>
    BY <1>1, <1>3 DEF Accepted
  <2>3. Tail(down[p]) \in Seq(Packets)
    BY <2>2, <1>1, <1>3
  <2> QED
    BY <2>1, <2>3, <1>3, AcceptedExtended
<1> QED
  BY <1>2, <1>3

-----------------------------------------------------------------------------
(* The steps of the server: turns and numbers stay as they are.            *)

SentHere == SentPackets(awaiting, next_turn)

LEMMA SentKept ==
    ASSUME UNCHANGED <<awaiting, next_turn>>,
           ChannelsOf(SentHere, up'), ChannelsOf(SentHere, down'),
           QueuesOf(awaiting, next_turn, turnQueue')
    PROVE  SentOK'
  BY DEF SentOK, SentHere

LEMMA EofSent == Eof \in SentHere
<1>1. PICK p \in Slots : TRUE
  BY ParametersAssumption DEF Slots
<1> QED
  BY <1>1, NeutralOnes DEF SentHere

LEMMA RelayLInv ==
    ASSUME LInv, NEW p \in Slots, Relay(p)
    PROVE  SentOK' /\ LeadOK' /\ AcceptedOK' /\ HostOK'
<1> DEFINE packet == Head(up[p])
<1>1. up[p] # <<>> /\ UNCHANGED <<peerVars, turnVars>>
  BY DEF Relay
<1>2. packet \in SentHere /\ packet \in Packets
  BY <1>1, SeqClosure DEF LInv, IInv, UpOK, SentOK, ChannelsOf, SentHere
<1>3. ChannelsOf(SentHere, up')
  BY <1>1, TailChannels DEF LInv, IInv, UpOK, SentOK, SentHere, Relay
<1>4. \/ down' = Broadcast(down, packet, packet.src)
      \/ \E dst : down' = [down EXCEPT ![dst] = Append(@, packet)]
      \/ down' = down
  BY DEF Relay
<1> HIDE DEF packet
<1>5. ChannelsOf(SentHere, down')
  <2>1. CASE down' = Broadcast(down, packet, packet.src)
    BY <2>1, <1>2, BroadcastChannels DEF LInv, SentOK, SentHere
  <2>2. ASSUME NEW dst, down' = [down EXCEPT ![dst] = Append(@, packet)]
        PROVE  ChannelsOf(SentHere, down')
    <3>1. \A r \in Slots : down[r] \in Seq(SentHere) /\ Append(down[r], packet) \in Seq(SentHere)
      BY <1>2, SeqClosure DEF LInv, SentOK, ChannelsOf, SentHere
    <3>2. \A r \in Slots : down'[r] = down[r] \/ down'[r] = Append(down[r], packet)
      BY <2>2 DEF LInv, IInv, DownOK
    <3> QED
      BY <3>1, <3>2 DEF ChannelsOf
  <2>3. CASE down' = down
    BY <2>3 DEF LInv, SentOK, SentHere
  <2> QED
    BY <2>1, <2>2, <2>3, <1>4
<1>6. \A r \in Slots : Extends(down[r], down'[r])
  BY <1>2, <1>4 DEF Extends, Broadcast, LInv, IInv, DownOK
<1>7. AcceptedOK'
  BY <1>1, <1>6, AcceptedKept DEF LInv, IInv, peerVars
<1>8. SentOK'
  BY <1>1, <1>3, <1>5, SentKept DEF LInv, SentOK, turnVars
<1> QED
  BY <1>1, <1>7, <1>8 DEF LInv, LeadOK, HostOK, turnVars, peerVars

LEMMA DropConnectionLInv ==
    ASSUME LInv, NEW p \in Slots, NEW waiting, DropConnection(p, waiting),
           UNCHANGED <<peerVars, turnVars>>
    PROVE  SentOK' /\ LeadOK' /\ AcceptedOK' /\ HostOK'
<1>1. DisconnectPacket(PLR_MASTER, p) \in SentHere /\ DisconnectPacket(PLR_MASTER, p) \in Packets
         /\ Eof \in Packets
  BY NeutralOnes, OtherPackets DEF SentHere
<1>2. \A r \in Slots :
         \/ down'[r] = down[r]
         \/ down'[r] = Append(down[r], DisconnectPacket(PLR_MASTER, p))
         \/ down'[r] = Append(down[r], Eof)
  BY DEF DropConnection
<1>3. \A r \in Slots : up'[r] = up[r] \/ up'[r] = <<>>
  BY DEF DropConnection, LInv, IInv, UpOK
<1>4. ChannelsOf(SentHere, down')
  BY <1>1, <1>2, EofSent, SeqClosure DEF LInv, SentOK, SentHere, ChannelsOf
<1>5. ChannelsOf(SentHere, up')
  BY <1>3, EmptySeq DEF LInv, SentOK, SentHere, ChannelsOf
<1>6. \A r \in Slots : Extends(down[r], down'[r])
  BY <1>1, <1>2 DEF Extends
<1>7. AcceptedOK'
  BY <1>6, AcceptedKept DEF LInv, IInv, peerVars
<1>8. SentOK'
  BY <1>4, <1>5, SentKept DEF LInv, SentOK, turnVars
<1> QED
  BY <1>7, <1>8 DEF LInv, LeadOK, HostOK, turnVars, peerVars

LEMMA ServerLInv ==
    ASSUME LInv, NEW p \in Slots, Server(p) \/ ServerTimeout(p)
    PROVE  SentOK' /\ LeadOK' /\ AcceptedOK' /\ HostOK'
<1>1. CASE Relay(p)
  BY <1>1, RelayLInv
<1>2. CASE ServerSeesEof(p) \/ CancelledHandler(p) \/ ServerTimeout(p)
  <2>1. PICK waiting : DropConnection(p, waiting)
    BY <1>2 DEF ServerSeesEof, CancelledHandler, ServerTimeout
  <2>2. UNCHANGED <<peerVars, turnVars>>
    BY <1>2 DEF ServerSeesEof, CancelledHandler, ServerTimeout
  <2> QED
    BY <2>1, <2>2, DropConnectionLInv
<1> QED
  BY <1>1, <1>2 DEF Server

LEMMA JoinLInv ==
    ASSUME LInv, NEW p \in Slots, Join(p)
    PROVE  SentOK' /\ LeadOK' /\ AcceptedOK' /\ HostOK'
<1>1. PICK players \in Ascending(connections) :
        down' = [Broadcast(down, ConnectPacket(p), p) EXCEPT
                    ![p] = Append(ConnectPackets(players), AcceptPacket(p))]
  BY DEF Join
<1> DEFINE connects == ConnectPackets(players)
<1>2. players \in Seq(Slots)
  BY AscendingSequences DEF LInv, IInv, PeersOK
<1>3. connects \in Seq(SentHere) /\ connects \in Seq(Packets)
         /\ \A i \in 1 .. Len(connects) : connects[i].type # "PT_TURN"
  BY <1>2, NeutralOnes, OtherPackets DEF ConnectPackets, SentHere
<1>4. AcceptPacket(p) \in SentHere /\ ConnectPacket(p) \in SentHere
         /\ AcceptPacket(p).type = "PT_JOIN_ACCEPT" /\ ConnectPacket(p) \in Packets
  BY NeutralOnes, OtherPackets DEF SentHere, AcceptPacket
<1>5. ChannelsOf(SentHere, Broadcast(down, ConnectPacket(p), p))
  BY <1>4, BroadcastChannels DEF LInv, SentOK, SentHere
<1>6. /\ down'[p] = Append(connects, AcceptPacket(p))
      /\ \A r \in Slots \ {p} : down'[r] = Broadcast(down, ConnectPacket(p), p)[r]
  BY <1>1 DEF Broadcast
<1> HIDE DEF connects
<1>7. down'[p] \in Seq(SentHere) /\ Accepted(down'[p])
  <2>1. Append(connects, AcceptPacket(p)) \in Seq(SentHere)
    BY <1>3, <1>4, SeqClosure
  <2> DEFINE c == Append(connects, AcceptPacket(p))
  <2>2. Len(c) = Len(connects) + 1 /\ Len(connects) \in Nat
          /\ c[Len(connects) + 1] = AcceptPacket(p)
          /\ \A i \in 1 .. Len(connects) : c[i] = connects[i]
    BY <1>3
  <2> HIDE DEF c
  <2>3. Accepted(c)
    <3>1. \A i \in 1 .. Len(c) - 1 : c[i].type # "PT_TURN"
      BY <2>2, <1>3
    <3>2. Len(c) \in 1 .. Len(c) /\ c[Len(c)].type = "PT_JOIN_ACCEPT"
      BY <2>2, <1>4
    <3> QED
      BY <3>1, <3>2 DEF Accepted
  <2> QED
    BY <2>1, <2>3, <1>6 DEF c
<1>8. ChannelsOf(SentHere, down')
  BY <1>5, <1>6, <1>7 DEF ChannelsOf
<1>9. phase' = [phase EXCEPT ![p] = "joining"] /\ phase[p] = "free"
         /\ UNCHANGED <<up, turnQueue, current_turn, next_turn, awaiting>>
  BY DEF Join
<1>10. SentOK'
  BY <1>8, <1>9, SentKept DEF LInv, SentOK, SentHere
<1>11. AcceptedOK'
  <2> SUFFICES ASSUME NEW r \in Slots, phase'[r] = "joining" PROVE Accepted(down'[r])
    BY DEF AcceptedOK
  <2>1. CASE r = p
    BY <2>1, <1>7
  <2>2. CASE r # p
    <3>1. phase[r] = "joining" /\ down[r] \in Seq(Packets)
      BY <2>2, <1>9 DEF LInv, IInv, PeersOK, DownOK
    <3>2. Extends(down[r], down'[r])
      BY <2>2, <1>4, <1>6 DEF Broadcast, Extends
    <3> QED
      BY <3>1, <3>2, AcceptedExtended DEF LInv, AcceptedOK
  <2> QED
    BY <2>1, <2>2
<1>12. HostOK'
  BY <1>9 DEF LInv, IInv, PeersOK, HostOK
<1> QED
  BY <1>9, <1>10, <1>11, <1>12 DEF LInv, LeadOK

-----------------------------------------------------------------------------
(* The steps of a client's receive loop.                                   *)

LEMMA QueuesOfOne ==
    ASSUME NEW w, NEW n, QueuesOf(w, n, turnQueue), TurnsOK, NEW p \in Slots,
           NEW queues \in [Slots -> Seq(Turns)],
           \A s \in Slots \ {p} : queues[s] \in Seq(SentTurns(w, n, s))
                                    /\ (w[p] => queues[s] = <<>>),
           NEW new, new = [turnQueue EXCEPT ![p] = queues]
    PROVE  QueuesOf(w, n, new)
<1>1. \A r, s \in Slots : new[r][s] = IF r = p THEN queues[s] ELSE turnQueue[r][s]
  BY DEF TurnsOK
<1> HIDE DEF TurnsOK
<1>2. ASSUME NEW r \in Slots, NEW s \in Slots, s # r
      PROVE  new[r][s] \in Seq(SentTurns(w, n, s)) /\ (w[r] => new[r][s] = <<>>)
  BY <1>1, <1>2 DEF QueuesOf
<1> QED
  BY <1>2 DEF QueuesOf

\* A step that takes a packet from the socket and answers with the first turns.
LEMMA ReceiveSent ==
    ASSUME LInv, NEW p \in Slots, NEW src \in Slots, phase[p] # "out",
           down[p] # <<>>, Received(p)
    PROVE  /\ ChannelsOf(SentHere, Sent(p, FirstTurns(p, src)))
           /\ ChannelsOf(SentHere, down')
           /\ \A r \in Slots \ {p} : Extends(down[r], down'[r])
           /\ Extends(Tail(down[p]), down'[p])
<1>1. FirstTurns(p, src) \in Seq(SentHere)
  BY FirstTurnsSent DEF LInv, SentHere
<1>2. ChannelsOf(SentHere, Sent(p, FirstTurns(p, src)))
  BY <1>1, SentChannels DEF LInv, SentOK, SentHere, IInv, UpOK
<1>3. down' = [down EXCEPT ![p] = Tail(@)] /\ down \in [Slots -> Seq(Packets)]
  BY DEF Received, LInv, IInv, DownOK
<1>4. ChannelsOf(SentHere, down')
  BY <1>3, TailChannels DEF LInv, SentOK, SentHere
<1> QED
  BY <1>2, <1>3, <1>4 DEF Extends

LEMMA LeadKept ==
    ASSUME LInv, UNCHANGED <<current_turn, next_turn>>
    PROVE  LeadOK'
  BY DEF LInv, LeadOK

LEMMA ReceiveConnectLInv ==
    ASSUME LInv, NEW p \in Slots, ReceiveConnect(p)
    PROVE  SentOK' /\ LeadOK' /\ AcceptedOK' /\ HostOK'
<1>1. Head(down[p]).player \in Slots /\ Head(down[p]).type = "PT_CONNECT"
         /\ down[p] # <<>> /\ phase[p] # "out"
  BY HeadOfDown, PacketFields DEF LInv, IInv, ReceiveConnect, HasPacket
<1>2. Received(p) /\ up' = Sent(p, FirstTurns(p, Head(down[p]).player))
         /\ phase' = phase /\ UNCHANGED turnVars
  BY DEF ReceiveConnect
<1>3. SentOK' /\ AcceptedOK'
  BY <1>1, <1>2, ReceiveSent, SentKept, AcceptedTaken DEF LInv, IInv, SentOK, turnVars
<1> QED
  BY <1>2, <1>3, LeadKept DEF LInv, HostOK, turnVars

LEMMA ReceiveDeltaLInv ==
    ASSUME LInv, NEW p \in Slots, ReceiveDelta(p)
    PROVE  SentOK' /\ LeadOK' /\ AcceptedOK' /\ HostOK'
<1>1. Head(down[p]).src \in Slots /\ Head(down[p]).type = "PT_MESSAGE"
         /\ down[p] # <<>> /\ phase[p] # "out"
  BY HeadOfDown, PacketFields DEF LInv, IInv, ReceiveDelta, HasPacket
<1>2. Received(p) /\ up' = Sent(p, FirstTurns(p, Head(down[p]).src))
         /\ phase' = phase /\ UNCHANGED turnVars
  BY DEF ReceiveDelta
<1>3. SentOK' /\ AcceptedOK'
  BY <1>1, <1>2, ReceiveSent, SentKept, AcceptedTaken DEF LInv, IInv, SentOK, turnVars
<1> QED
  BY <1>2, <1>3, LeadKept DEF LInv, HostOK, turnVars

LEMMA ReceiveEofLInv ==
    ASSUME LInv, NEW p \in Slots, ReceiveEof(p)
    PROVE  SentOK' /\ LeadOK' /\ AcceptedOK' /\ HostOK'
<1>1. Head(down[p]).type = "EOF" /\ down[p] # <<>> /\ phase[p] # "out"
  BY DEF ReceiveEof, HasPacket
<1>2. Received(p) /\ up' = up /\ phase' = phase /\ UNCHANGED turnVars
  BY DEF ReceiveEof
<1>3. ChannelsOf(SentHere, up)
  BY DEF LInv, SentOK, SentHere
<1>4. SentOK' /\ AcceptedOK'
  BY <1>1, <1>2, <1>3, ReceiveSent, SentKept, AcceptedTaken DEF LInv, IInv, SentOK, turnVars
<1> QED
  BY <1>2, <1>4, LeadKept DEF LInv, HostOK, turnVars

LEMMA ReceiveAcceptLInv ==
    ASSUME LInv, NEW p \in Slots, ReceiveAccept(p)
    PROVE  SentOK' /\ LeadOK' /\ AcceptedOK' /\ HostOK'
<1>1. down[p] # <<>> /\ phase[p] # "out"
  BY DEF ReceiveAccept, HasPacket
<1>2. Received(p) /\ up' = up /\ UNCHANGED turnVars
         /\ phase' = [phase EXCEPT ![p] = "in"]
  BY DEF ReceiveAccept
<1>3. ChannelsOf(SentHere, up)
  BY DEF LInv, SentOK, SentHere
<1>4. SentOK'
  BY <1>1, <1>2, <1>3, ReceiveSent, SentKept DEF LInv, SentOK, turnVars
<1>5. AcceptedOK'
  <2>1. \A r \in Slots : phase'[r] = "joining" =>
            r # p /\ phase[r] = "joining" /\ Extends(down[r], down'[r])
    BY <1>1, <1>2, ReceiveSent DEF LInv, IInv, PeersOK
  <2> QED
    BY <2>1, AcceptedKept DEF LInv, IInv
<1> QED
  BY <1>2, <1>4, <1>5, LeadKept DEF LInv, IInv, PeersOK, HostOK, turnVars

LEMMA ReceiveTurnLInv ==
    ASSUME LInv, NEW p \in Slots, ReceiveTurn(p)
    PROVE  /\ SentOK' /\ LeadOK' /\ AcceptedOK' /\ HostOK'
           /\ phase[p] = "in"
           /\ awaiting[p] =>
                \E q \in Slots : \E n \in 0 .. current_turn[q] + K :
                    current_turn' = [current_turn EXCEPT ![p] = n]
<1> DEFINE src == Head(down[p]).src
           turn == Head(down[p]).turn
           queues == [turnQueue[p] EXCEPT ![src] = Append(@, turn)]
           own == Renumbered(Own(p), turn.n)
<1>1. Head(down[p]).type = "PT_TURN" /\ down[p] # <<>> /\ phase[p] \in {"joining", "in"}
  BY DEF ReceiveTurn, HasPacket
<1>2. src \in Slots /\ turn \in Turns /\ src # p
  BY <1>1, HeadOfDown, PacketFields DEF LInv, IInv
<1>3. Received(p) /\ phase' = phase
  BY DEF ReceiveTurn
<1>4. Head(down[p]) \in SentHere
  BY <1>1, SeqClosure DEF LInv, SentOK, ChannelsOf, SentHere
<1>5. SentBy(awaiting, next_turn, src, turn)
  BY <1>1, <1>4 DEF SentHere, SentPackets
<1>6. phase[p] = "in"
  <2>1. CASE phase[p] = "joining"
    <3>1. Accepted(down[p]) /\ down[p] \in Seq(Packets)
      BY <2>1 DEF LInv, AcceptedOK, IInv, DownOK
    <3> QED
      BY <3>1, <1>1, AcceptedTail
  <2> QED
    BY <2>1, <1>1
<1>7. AcceptedOK'
  BY <1>1, <1>2, <1>3, <1>6, ReceiveSent, AcceptedTaken DEF LInv, IInv
<1>8. HostOK'
  BY <1>3 DEF LInv, HostOK
<1>9. Own(p) \in Seq(Turns) /\ WindowAt(Own(p), current_turn[p], next_turn[p])
         /\ Len(Own(p)) \in Nat /\ Len(Own(p)) <= K
  BY <1>6 DEF LInv, IInv, TurnsOK, Own, WindowAt
<1>10. turn.n \in Nat
  BY <1>2 DEF Turns
<1>11. queues \in [Slots -> Seq(Turns)] /\ queues[p] = Own(p)
  BY <1>2 DEF LInv, IInv, TurnsOK, Own
<1>12. \A s \in Slots \ {p} : queues[s] \in Seq(SentTurns(awaiting, next_turn, s))
  <2>1. turn \in SentTurns(awaiting, next_turn, src)
    BY <1>2, <1>5 DEF SentTurns
  <2>2. \A s \in Slots \ {p} : turnQueue[p][s] \in Seq(SentTurns(awaiting, next_turn, s))
    BY DEF LInv, SentOK, QueuesOf
  <2>3. \A s \in Slots : queues[s] = IF s = src THEN Append(turnQueue[p][s], turn)
                                                ELSE turnQueue[p][s]
    BY <1>2 DEF LInv, IInv, TurnsOK
  <2> HIDE DEF src, turn, queues
  <2> QED
    BY <2>1, <2>2, <2>3, SeqClosure
<1>13. CASE awaiting[p]
  <2>1. MakeReady(p, queues, turn.n)
    BY <1>13 DEF ReceiveTurn
  <2> HIDE DEF src, turn, queues
  <2>2. own \in Seq(Turns) /\ Len(own) = Len(Own(p))
          /\ WindowAt(own, turn.n, turn.n + Len(own))
    BY <1>9, <1>10, WindowRenumbered
  <2>3. /\ next_turn' = [next_turn EXCEPT ![p] = turn.n + Len(own)]
        /\ awaiting' = [awaiting EXCEPT ![p] = FALSE]
        /\ current_turn' = [current_turn EXCEPT ![p] = turn.n]
        /\ turnQueue' = [turnQueue EXCEPT ![p] = [queues EXCEPT ![p] = own]]
        /\ up' = Sent(p, ToPackets(p, PLR_BROADCAST, own))
    BY <2>1 DEF MakeReady
  <2> HIDE DEF own
  <2>4. turn.n + Len(own) \in Nat
    BY <2>2, <1>9, <1>10
  <2>5. next_turn \in [Slots -> Nat] /\ awaiting \in [Slots -> BOOLEAN]
          /\ current_turn \in [Slots -> Nat]
    BY DEF LInv, IInv, TurnsOK, RestOK
  <2>6. ~ awaiting'[p] /\ next_turn'[p] = turn.n + Len(own)
    BY <2>3, <2>5
  <2>7. Grow(awaiting, next_turn, awaiting', next_turn')
    BY <2>3, <2>4, <2>5, <1>13 DEF Grow
  <2>8. own \in Seq(SentTurns(awaiting', next_turn', p))
    BY <2>2, <2>4, <2>6, <1>10, OwnSent
  <2>9. ChannelsOf(SentPackets(awaiting', next_turn'), up')
    <3>1. ChannelsOf(SentPackets(awaiting', next_turn'), up)
      BY <2>7, ChannelsGrow DEF LInv, SentOK
    <3>2. ToPackets(p, PLR_BROADCAST, own) \in Seq(SentPackets(awaiting', next_turn'))
      BY <2>8, PacketsOfSent
    <3> QED
      BY <3>1, <3>2, <2>3, SentChannels DEF LInv, IInv, UpOK
  <2>10. ChannelsOf(SentPackets(awaiting', next_turn'), down')
    <3>1. ChannelsOf(SentPackets(awaiting, next_turn), down')
      BY <1>1, <1>2, <1>3, <1>6, ReceiveSent DEF SentHere
    <3> QED
      BY <3>1, <2>7, ChannelsGrow
  <2>11. QueuesOf(awaiting', next_turn', turnQueue')
    <3> DEFINE all == [queues EXCEPT ![p] = own]
    <3>1. all \in [Slots -> Seq(Turns)] /\ \A s \in Slots \ {p} : all[s] = queues[s]
      BY <1>11, <2>2
    <3>2. \A s \in Slots \ {p} : all[s] \in Seq(SentTurns(awaiting', next_turn', s))
      BY <3>1, <1>12, <2>7, SentGrows, SeqSubset
    <3>3. QueuesOf(awaiting', next_turn', turnQueue)
      <4>1. \A r, s \in Slots : s # r =>
                turnQueue[r][s] \in Seq(SentTurns(awaiting', next_turn', s))
        BY <2>7, SentGrows, SeqSubset DEF LInv, SentOK, QueuesOf
      <4>2. \A r \in Slots : awaiting'[r] => awaiting[r]
        BY <2>3, <2>5
      <4> QED
        BY <4>1, <4>2 DEF LInv, SentOK, QueuesOf
    <3> HIDE DEF all
    <3>4. turnQueue' = [turnQueue EXCEPT ![p] = all]
      BY <2>3 DEF all
    <3> QED
      BY <3>1, <3>2, <3>3, <3>4, <2>6, QueuesOfOne DEF LInv, IInv
  <2>12. SentOK'
    BY <2>9, <2>10, <2>11 DEF SentOK
  <2>13. LeadOK'
    <3>1. \A r \in Slots : next_turn'[r] <= current_turn'[r] + K
      <4> SUFFICES ASSUME NEW r \in Slots PROVE next_turn'[r] <= current_turn'[r] + K
        OBVIOUS
      <4>1. CASE r = p
        BY <4>1, <2>2, <2>3, <2>5, <1>9, <1>10, ParametersAssumption
      <4>2. CASE r # p
        BY <4>2, <2>3, <2>5 DEF LInv, LeadOK
      <4> QED
        BY <4>1, <4>2
    <3> QED
      BY <3>1 DEF LeadOK
  <2>14. turn.n \in 0 .. current_turn[src] + K
    BY <1>2, <1>5, <1>10, <2>5, ParametersAssumption DEF LInv, LeadOK, SentBy
  <2> QED
    BY <2>3, <2>12, <2>13, <2>14, <1>2, <1>6, <1>7, <1>8
<1>14. CASE ~ awaiting[p]
  <2>1. /\ turnQueue' = [turnQueue EXCEPT ![p] = queues]
        /\ up' = Sent(p, FirstTurns(p, src))
        /\ UNCHANGED <<current_turn, next_turn, awaiting>>
    BY <1>14 DEF ReceiveTurn
  <2> HIDE DEF src, turn, queues
  <2>2. QueuesOf(awaiting, next_turn, turnQueue')
    BY <2>1, <1>11, <1>12, <1>14, QueuesOfOne DEF LInv, SentOK, IInv
  <2>3. ChannelsOf(SentHere, up') /\ ChannelsOf(SentHere, down')
    BY <2>1, <1>1, <1>2, <1>3, <1>6, ReceiveSent
  <2>4. SentOK'
    BY <2>1, <2>2, <2>3, SentKept
  <2> QED
    BY <2>1, <2>4, <1>6, <1>7, <1>8, <1>14, LeadKept
<1> QED
  BY <1>13, <1>14

LEMMA DisconnectNetExtends ==
    ASSUME NEW closed, NEW ups, NEW downs, DisconnectNet(closed, ups, downs), NEW r \in Slots
    PROVE  Extends(downs[r], down'[r])
<1>1. Eof \in Packets
  BY OtherPackets
<1> QED
  BY <1>1 DEF DisconnectNet, Extends

LEMMA ReceiveDisconnectLInv ==
    ASSUME LInv, NEW p \in Slots, ReceiveDisconnect(p)
    PROVE  SentOK' /\ LeadOK' /\ AcceptedOK' /\ HostOK'
<1> DEFINE src == Head(down[p]).src
           player == Head(down[p]).player
           known == isConnected[p] \cup ({src} \ {PLR_MASTER})
           closed == IF player \in known \ {p} THEN ClosedBy(p, {player}) ELSE {}
           answers == IF src = PLR_MASTER THEN <<>> ELSE FirstTurns(p, src)
           rest == [down EXCEPT ![p] = Tail(@)]
<1>1. Head(down[p]).type = "PT_DISCONNECT" /\ down[p] # <<>> /\ phase[p] # "out"
  BY DEF ReceiveDisconnect, HasPacket
<1>2. src \in Slots \cup {PLR_MASTER} /\ player \in Slots
  BY <1>1, HeadOfDown, PacketFields DEF LInv, IInv
<1>3. DisconnectNet(closed, Sent(p, answers), rest)
  BY DEF ReceiveDisconnect
<1>4. phase' = phase /\ UNCHANGED <<current_turn, next_turn, awaiting>>
  BY DEF ReceiveDisconnect
<1>5. turnQueue' = turnQueue \/ turnQueue' = [turnQueue EXCEPT ![p][player] = <<>>]
  BY DEF ReceiveDisconnect, Forget
<1>6. rest = [down EXCEPT ![p] = Tail(@)] /\ down \in [Slots -> Seq(Packets)]
  BY DEF LInv, IInv, DownOK
<1>7. answers \in Seq(SentHere)
  BY <1>1, <1>2, EmptySeq, FirstTurnsSent DEF LInv, SentHere
<1> HIDE DEF src, player, known, closed, answers, rest
<1>8. ChannelsOf(SentHere, Sent(p, answers))
  BY <1>7, SentChannels DEF LInv, SentOK, SentHere, IInv, UpOK
<1>9. ChannelsOf(SentHere, rest)
  BY <1>1, <1>6, TailChannels DEF LInv, SentOK, SentHere
<1>10. ChannelsOf(SentHere, up') /\ ChannelsOf(SentHere, down')
  BY <1>3, <1>8, <1>9, EofSent, ClosedChannels
<1>11. QueuesOf(awaiting, next_turn, turnQueue')
  <2>1. CASE turnQueue' = turnQueue
    BY <2>1 DEF LInv, SentOK
  <2>2. CASE turnQueue' = [turnQueue EXCEPT ![p][player] = <<>>]
    <3>1. \A r, s \in Slots :
             turnQueue'[r][s] = turnQueue[r][s] \/ turnQueue'[r][s] = <<>>
      BY <2>2, <1>2 DEF LInv, IInv, TurnsOK
    <3> QED
      BY <3>1, EmptySeq DEF LInv, SentOK, QueuesOf
  <2> QED
    BY <2>1, <2>2, <1>5
<1>12. SentOK'
  BY <1>4, <1>10, <1>11, SentKept
<1>13. AcceptedOK'
  <2>1. \A r \in Slots : Extends(rest[r], down'[r])
    BY <1>3, DisconnectNetExtends
  <2>2. rest[p] = Tail(down[p]) /\ \A r \in Slots \ {p} : rest[r] = down[r]
    BY <1>6
  <2> QED
    BY <2>1, <2>2, <1>1, <1>4, AcceptedTaken DEF LInv, IInv
<1> QED
  BY <1>4, <1>12, <1>13, LeadKept DEF LInv, HostOK

LEMMA DeliverLInv ==
    ASSUME LInv, NEW p \in Slots, Deliver(p)
    PROVE  SentOK' /\ LeadOK' /\ AcceptedOK' /\ HostOK'
  BY ReceiveConnectLInv, ReceiveAcceptLInv, ReceiveTurnLInv, ReceiveDisconnectLInv,
     ReceiveDeltaLInv, ReceiveEofLInv DEF Deliver

-----------------------------------------------------------------------------
(* The steps of the exchange.                                              *)

LEMMA SendTurnsLInv ==
    ASSUME LInv, NEW p \in Slots, SendTurns(p)
    PROVE  SentOK' /\ LeadOK' /\ AcceptedOK' /\ HostOK'
<1> DEFINE new == [i \in 1 .. K - Len(Own(p)) |->
                      [n |-> next_turn[p] + i - 1, bit |-> turn_upper_bit[p] /\ i = 1]]
           ready == ~ awaiting[p] \/ p = Host
           queues == [turnQueue[p] EXCEPT ![p] = Own(p) \o new]
<1>1. Own(p) \in Seq(Turns) /\ Len(Own(p)) < K /\ Len(Own(p)) \in Nat
         /\ next_turn[p] = current_turn[p] + Len(Own(p))
         /\ current_turn[p] \in Nat /\ next_turn[p] \in Nat
  BY DEF LInv, IInv, TurnsOK, WindowAt, Own, SendTurns
<1>2. awaiting \in [Slots -> BOOLEAN] /\ turn_upper_bit[p] \in BOOLEAN
         /\ next_turn \in [Slots -> Nat]
  BY DEF LInv, RestOK, IInv, TurnsOK
<1>3. K - Len(Own(p)) \in Nat /\ K \in Nat
  BY <1>1, ParametersAssumption
<1>4. new \in Seq(Turns) /\ Len(new) = K - Len(Own(p))
         /\ \A i \in 1 .. Len(new) : new[i].n = next_turn[p] + i - 1
  <2> DEFINE Turn(i) == [n |-> next_turn[p] + i - 1, bit |-> turn_upper_bit[p] /\ i = 1]
  <2>1. \A i \in 1 .. K - Len(Own(p)) : Turn(i) \in Turns /\ Turn(i).n = next_turn[p] + i - 1
    BY <1>1, <1>2, <1>3 DEF Turns
  <2>2. new = [i \in 1 .. K - Len(Own(p)) |-> Turn(i)]
    OBVIOUS
  <2> HIDE DEF Turn, new
  <2>3. new \in Seq(Turns) /\ Len(new) = K - Len(Own(p))
    BY <2>1, <2>2, <1>3
  <2> QED
    BY <2>1, <2>2, <2>3
<1>5. /\ turnQueue' = [turnQueue EXCEPT ![p][p] = @ \o new]
      /\ next_turn' = [next_turn EXCEPT ![p] = @ + Len(new)]
      /\ awaiting' = [awaiting EXCEPT ![p] = ~ ready]
      /\ up' = IF ready THEN Sent(p, ToPackets(p, PLR_BROADCAST, new)) ELSE up
      /\ phase' = phase /\ current_turn' = current_turn /\ down' = down
  BY DEF SendTurns, peerVars
<1>6. turnQueue' = [turnQueue EXCEPT ![p] = queues]
  BY <1>5 DEF LInv, IInv, TurnsOK, Own
<1>7. queues \in [Slots -> Seq(Turns)] /\ \A s \in Slots \ {p} : queues[s] = turnQueue[p][s]
  <2>1. Own(p) \o new \in Seq(Turns)
    BY <1>1, <1>4
  <2> HIDE DEF new
  <2> QED
    BY <2>1 DEF LInv, IInv, TurnsOK
<1> HIDE DEF new, queues
<1>8. next_turn'[p] = next_turn[p] + Len(new) /\ Len(new) \in Nat
        /\ next_turn'[p] = current_turn[p] + K /\ next_turn' \in [Slots -> Nat]
  <2>1. Len(new) \in Nat
    BY <1>3, <1>4
  <2>2. next_turn'[p] = next_turn[p] + Len(new) /\ next_turn' \in [Slots -> Nat]
    BY <2>1, <1>1, <1>2, <1>5
  <2>3. next_turn[p] + Len(new) = current_turn[p] + K
    BY <1>1, <1>3, <1>4
  <2> QED
    BY <2>1, <2>2, <2>3
<1>9. Grow(awaiting, next_turn, awaiting', next_turn')
  <2>1. \A s \in Slots : next_turn[s] <= next_turn'[s]
    BY <1>2, <1>5, <1>8
  <2>2. \A s \in Slots : ~ awaiting[s] => ~ awaiting'[s]
    BY <1>2, <1>5
  <2> QED
    BY <2>1, <2>2, <1>2, <1>8 DEF Grow
<1>10. ChannelsOf(SentPackets(awaiting', next_turn'), down')
  BY <1>5, <1>9, ChannelsGrow DEF LInv, SentOK
<1>11. ChannelsOf(SentPackets(awaiting', next_turn'), up')
  <2>1. ChannelsOf(SentPackets(awaiting', next_turn'), up)
    BY <1>9, ChannelsGrow DEF LInv, SentOK
  <2>2. CASE ready
    <3>1. ~ awaiting'[p]
      BY <2>2, <1>2, <1>5
    <3>2. \A i \in 1 .. Len(new) : new[i] \in SentTurns(awaiting', next_turn', p)
      BY <3>1, <1>1, <1>4, <1>8 DEF SentTurns, SentBy
    <3>3. new \in Seq(SentTurns(awaiting', next_turn', p))
      BY <3>2, <1>4
    <3>4. ToPackets(p, PLR_BROADCAST, new) \in Seq(SentPackets(awaiting', next_turn'))
      BY <3>3, PacketsOfSent
    <3> QED
      BY <2>1, <2>2, <3>4, <1>5, SentChannels DEF LInv, IInv, UpOK
  <2>3. CASE ~ ready
    BY <2>1, <2>3, <1>5
  <2> QED
    BY <2>2, <2>3
<1>12. QueuesOf(awaiting', next_turn', turnQueue')
  <2>1. QueuesOf(awaiting', next_turn', turnQueue)
    <3>1. \A r, s \in Slots : s # r =>
              turnQueue[r][s] \in Seq(SentTurns(awaiting', next_turn', s))
      BY <1>9, SentGrows, SeqSubset DEF LInv, SentOK, QueuesOf
    <3>2. \A r \in Slots : awaiting'[r] => awaiting[r]
      BY <1>2, <1>5
    <3> QED
      BY <3>1, <3>2 DEF LInv, SentOK, QueuesOf
  <2>2. \A s \in Slots \ {p} :
           /\ queues[s] \in Seq(SentTurns(awaiting', next_turn', s))
           /\ awaiting'[p] => queues[s] = <<>>
    BY <2>1, <1>7 DEF QueuesOf
  <2> QED
    BY <2>1, <2>2, <1>6, <1>7, QueuesOfOne DEF LInv, IInv
<1>13. SentOK'
  BY <1>10, <1>11, <1>12 DEF SentOK
<1>14. LeadOK'
  <2>1. ASSUME NEW r \in Slots PROVE next_turn'[r] <= current_turn'[r] + K
    <3>1. CASE r = p
      BY <3>1, <1>1, <1>3, <1>5, <1>8
    <3>2. CASE r # p
      BY <3>2, <1>2, <1>5 DEF LInv, LeadOK
    <3> QED
      BY <3>1, <3>2
  <2> QED
    BY <2>1 DEF LeadOK
<1>15. AcceptedOK'
  BY <1>5 DEF LInv, AcceptedOK
<1> QED
  BY <1>5, <1>13, <1>14, <1>15 DEF LInv, HostOK

\* The queues of p without their stale turns, or without their first ones.
LEMMA FreshQueues ==
    ASSUME LInv, NEW p \in Slots
    PROVE  \A s \in Slots : s # p =>
               /\ Fresh(p)[s] \in Seq(SentTurns(awaiting, next_turn, s))
               /\ awaiting[p] => Fresh(p)[s] = <<>>
<1> SUFFICES ASSUME NEW s \in Slots, s # p
             PROVE  /\ Fresh(p)[s] \in Seq(SentTurns(awaiting, next_turn, s))
                    /\ awaiting[p] => Fresh(p)[s] = <<>>
  OBVIOUS
<1>1. turnQueue[p][s] \in Seq(SentTurns(awaiting, next_turn, s))
         /\ (awaiting[p] => turnQueue[p][s] = <<>>)
  BY DEF LInv, SentOK, QueuesOf
<1>2. Fresh(p)[s] = turnQueue[p][s] \/ Fresh(p)[s] = DropStale(turnQueue[p][s], current_turn[p])
  BY DEF Fresh
<1> QED
  BY <1>1, <1>2, DropStaleIn

LEMMA FreshTyped ==
    ASSUME IInv, NEW p \in Slots
    PROVE  Fresh(p) \in [Slots -> Seq(Turns)]
  BY DropStaleType DEF Fresh, IInv, TurnsOK

LEMMA FreshLInv ==
    ASSUME LInv, NEW p \in Slots, turnQueue' = [turnQueue EXCEPT ![p] = Fresh(p)]
    PROVE  QueuesOf(awaiting, next_turn, turnQueue')
  BY FreshQueues, FreshTyped, QueuesOfOne DEF LInv, IInv, SentOK

LEMMA ReceiveTurnsLInv ==
    ASSUME LInv, NEW p \in Slots, ReceiveTurns(p)
    PROVE  SentOK' /\ LeadOK' /\ AcceptedOK' /\ HostOK'
<1> DEFINE queues == [q \in Slots |-> IF q \in Arrived(p)
                                      THEN Tail(Fresh(p)[q]) ELSE Fresh(p)[q]]
<1>1. UNCHANGED <<phase, next_turn, awaiting, up, down>>
         /\ turnQueue' = [turnQueue EXCEPT ![p] = queues]
         /\ current_turn' = [current_turn EXCEPT ![p] = @ + 1]
  BY DEF ReceiveTurns, netVars
<1>2. \A s \in Slots : s \in Arrived(p) => Fresh(p)[s] # <<>>
  BY DEF Arrived
<1>3. Fresh(p) \in [Slots -> Seq(Turns)]
  BY FreshTyped DEF LInv
<1>4. \A s \in Slots : queues[s] = IF s \in Arrived(p) THEN Tail(Fresh(p)[s]) ELSE Fresh(p)[s]
  OBVIOUS
<1>5. queues \in [Slots -> Seq(Turns)]
  <2>1. \A s \in Slots : queues[s] \in Seq(Turns)
    BY <1>2, <1>3, <1>4, SeqClosure
  <2> QED
    BY <2>1
<1> HIDE DEF queues
<1>6. \A s \in Slots \ {p} :
         /\ queues[s] \in Seq(SentTurns(awaiting, next_turn, s))
         /\ awaiting[p] => queues[s] = <<>>
  BY <1>2, <1>4, FreshQueues, SeqClosure, ZenonT(40)
<1>7. QueuesOf(awaiting, next_turn, turnQueue')
  BY <1>1, <1>5, <1>6, QueuesOfOne DEF LInv, IInv, SentOK
<1>8. SentOK'
  BY <1>1, <1>7, SentKept DEF LInv, SentOK, SentHere
<1>9. LeadOK'
  BY <1>1, ParametersAssumption DEF LInv, IInv, TurnsOK, LeadOK
<1> QED
  BY <1>1, <1>8, <1>9 DEF LInv, AcceptedOK, HostOK

LEMMA ExchangeLInv ==
    ASSUME LInv, NEW p \in Slots, Exchange(p)
    PROVE  SentOK' /\ LeadOK' /\ AcceptedOK' /\ HostOK'
<1>1. CASE SendTurns(p)
  BY <1>1, SendTurnsLInv
<1>2. CASE ReceiveTurns(p)
  BY <1>2, ReceiveTurnsLInv
<1>3. CASE WaitForTurns(p)
  <2>1. UNCHANGED <<phase, current_turn, next_turn, awaiting, up, down>>
          /\ turnQueue' = [turnQueue EXCEPT ![p] = Fresh(p)]
    BY <1>3 DEF WaitForTurns, peerVars, netVars
  <2>2. SentOK'
    BY <2>1, FreshLInv, SentKept DEF LInv, SentOK, SentHere
  <2> QED
    BY <2>1, <2>2, LeadKept DEF LInv, AcceptedOK, HostOK
<1>4. CASE AskAgain(p)
  <2>1. UNCHANGED <<phase, turnQueue, current_turn, next_turn, awaiting, up, down>>
    BY <1>4 DEF AskAgain, peerVars, netVars
  <2> QED
    BY <2>1 DEF LInv, SentOK, LeadOK, AcceptedOK, HostOK
<1>5. ASSUME NEW q \in Slots, SendDelta(p, q)
      PROVE  SentOK' /\ LeadOK' /\ AcceptedOK' /\ HostOK'
  <2>1. UNCHANGED <<phase, turnQueue, current_turn, next_turn, awaiting, down>>
          /\ up' = Sent(p, <<DeltaPacket(p, q)>>)
    BY <1>5 DEF SendDelta, peerVars, turnVars
  <2>2. <<DeltaPacket(p, q)>> \in Seq(SentHere)
    BY NeutralOnes, Singleton DEF SentHere
  <2>3. ChannelsOf(SentHere, up')
    BY <2>1, <2>2, SentChannels DEF LInv, SentOK, SentHere, IInv, UpOK
  <2>4. SentOK'
    BY <2>1, <2>3, SentKept DEF LInv, SentOK, SentHere
  <2> QED
    BY <2>1, <2>4, LeadKept DEF LInv, AcceptedOK, HostOK
<1> QED
  BY <1>1, <1>2, <1>3, <1>4, <1>5 DEF Exchange

-----------------------------------------------------------------------------
(* Leaving, crashing, dropping.                                            *)

LEMMA ResetLInv ==
    ASSUME LInv, NEW p \in Slots, Reset(p)
    PROVE  /\ UNCHANGED <<current_turn, next_turn, awaiting>>
           /\ QueuesOf(awaiting, next_turn, turnQueue')
           /\ LeadOK' /\ HostOK'
           /\ \A r \in Slots : phase'[r] = "joining" => r # p /\ phase[r] = "joining"
<1>1. UNCHANGED <<current_turn, next_turn, awaiting>>
         /\ phase' = [phase EXCEPT ![p] = "out"]
         /\ turnQueue' = [turnQueue EXCEPT ![p] = NoTurns]
  BY DEF Reset
<1>2. \A r, s \in Slots : turnQueue'[r][s] = turnQueue[r][s] \/ turnQueue'[r][s] = <<>>
  BY <1>1 DEF NoTurns, LInv, IInv, TurnsOK
<1>3. QueuesOf(awaiting, next_turn, turnQueue')
  BY <1>2, EmptySeq DEF LInv, SentOK, QueuesOf
<1>4. LeadOK'
  BY <1>1, LeadKept
<1>5. \A r \in Slots : phase'[r] = IF r = p THEN "out" ELSE phase[r]
  BY <1>1 DEF LInv, IInv, PeersOK
<1>6. HostOK'
  <2>1. Host \in Slots
    BY ParametersAssumption DEF Host, Slots
  <2> QED
    BY <2>1, <1>5 DEF LInv, HostOK
<1> QED
  BY <1>1, <1>3, <1>4, <1>5, <1>6

\* A program other than the host's ends: what it sent may be cut.
LEMMA ClientEnds ==
    ASSUME LInv, NEW p \in Slots, Reset(p),
           up' = up \/ (\E sent \in Seq(SentHere) : up' = [up EXCEPT ![p] = sent]),
           down' = [down EXCEPT ![p] = <<>>]
    PROVE  SentOK' /\ AcceptedOK'
<1>1. \A r \in Slots : up'[r] \in Seq(SentHere)
  BY DEF LInv, IInv, UpOK, SentOK, ChannelsOf, SentHere
<1>2. \A r \in Slots : down'[r] = IF r = p THEN <<>> ELSE down[r]
  BY DEF LInv, IInv, DownOK
<1>3. ChannelsOf(SentHere, up') /\ ChannelsOf(SentHere, down')
  BY <1>1, <1>2, EmptySeq DEF LInv, SentOK, SentHere, ChannelsOf
<1>4. SentOK'
  BY <1>3, ResetLInv, SentKept
<1>5. \A r \in Slots : phase'[r] = "joining" =>
          phase[r] = "joining" /\ Extends(down[r], down'[r])
  BY <1>2, ResetLInv DEF Extends
<1>6. AcceptedOK'
  BY <1>5, AcceptedKept DEF LInv, IInv
<1> QED
  BY <1>4, <1>6

\* The host's program ends, and its server.
LEMMA ServerEnds ==
    ASSUME LInv, Host \in Slots, Reset(Host),
           NEW disconnects \in {<<>>, <<DisconnectPacket(Host, Host)>>},
           ServerGone(disconnects)
    PROVE  SentOK' /\ AcceptedOK'
<1>1. Eof \in SentHere /\ Eof \in Packets /\ DisconnectPacket(Host, Host) \in SentHere
         /\ DisconnectPacket(Host, Host) \in Packets
  BY EofSent, NeutralOnes, OtherPackets DEF SentHere
<1>2. <<Eof>> \in Seq(SentHere) /\ <<Eof>> \in Seq(Packets)
  BY <1>1, Singleton
<1>3. disconnects \in Seq(SentHere) /\ disconnects \in Seq(Packets)
  BY <1>1, EmptySeq, Singleton
<1>4. disconnects \o <<Eof>> \in Seq(SentHere) /\ disconnects \o <<Eof>> \in Seq(Packets)
  BY <1>2, <1>3, SeqClosure
<1> DEFINE tail == disconnects \o <<Eof>>
<1>5. \A r \in Slots : down[r] \o disconnects \o <<Eof>> = down[r] \o tail
  BY <1>2, <1>3 DEF LInv, IInv, DownOK
<1>6. \A r \in Slots :
         \/ down'[r] = down[r] \o tail
         \/ r = Host /\ down'[r] = <<>>
         \/ down'[r] = down[r]
  BY <1>5 DEF ServerGone
<1> HIDE DEF tail
<1>7. tail \in Seq(SentHere) /\ tail \in Seq(Packets)
  BY <1>4 DEF tail
<1>8. ChannelsOf(SentHere, down')
  <2>1. \A r \in Slots : down[r] \in Seq(SentHere) /\ down[r] \o tail \in Seq(SentHere)
    BY <1>7, SeqClosure DEF LInv, SentOK, SentHere, ChannelsOf
  <2> QED
    BY <2>1, <1>6, EmptySeq DEF ChannelsOf
<1>9. ChannelsOf(SentHere, up')
  BY EmptySeq DEF ServerGone, ChannelsOf
<1>10. SentOK'
  BY <1>8, <1>9, ResetLInv, SentKept
<1>11. \A r \in Slots : phase'[r] = "joining" =>
          phase[r] = "joining" /\ Extends(down[r], down'[r])
  BY <1>6, <1>7, ResetLInv DEF Extends
<1>12. AcceptedOK'
  BY <1>11, AcceptedKept DEF LInv, IInv
<1> QED
  BY <1>10, <1>12

LEMMA LeaveLInv ==
    ASSUME LInv, NEW p \in Slots, Leave(p)
    PROVE  SentOK' /\ LeadOK' /\ AcceptedOK' /\ HostOK'
<1>1. Reset(p)
  BY DEF Leave
<1>2. CASE p # Host
  <2>1. DisconnectPacket(p, p) \in SentHere /\ Eof \in SentHere
    BY NeutralOnes DEF SentHere
  <2>2. <<DisconnectPacket(p, p), Eof>> \in Seq(SentHere)
    BY <2>1
  <2>3. up[p] \o <<DisconnectPacket(p, p), Eof>> \in Seq(SentHere)
    BY <2>2, SeqClosure DEF LInv, SentOK, SentHere, ChannelsOf
  <2>4. \/ up' = up
        \/ up' = [up EXCEPT ![p] = up[p] \o <<DisconnectPacket(p, p), Eof>>]
    BY <1>2 DEF Leave
  <2>5. down' = [down EXCEPT ![p] = <<>>]
    BY <1>2 DEF Leave
  <2> QED
    BY <2>3, <2>4, <2>5, <1>1, ClientEnds, ResetLInv
<1>3. CASE p = Host
  <2>1. PICK disconnects \in {<<>>, <<DisconnectPacket(Host, Host)>>} : ServerGone(disconnects)
    BY <1>3 DEF Leave
  <2> QED
    BY <2>1, <1>1, <1>3, ServerEnds, ResetLInv
<1> QED
  BY <1>2, <1>3

LEMMA CrashLInv ==
    ASSUME LInv, NEW p \in Slots, Crash(p)
    PROVE  SentOK' /\ LeadOK' /\ AcceptedOK' /\ HostOK'
<1>1. Reset(p)
  BY DEF Crash
<1>2. CASE p # Host
  <2>1. up[p] \in Seq(SentHere) /\ <<Eof>> \in Seq(SentHere)
    BY EofSent, Singleton DEF LInv, SentOK, SentHere, ChannelsOf
  <2>2. \A k \in 0 .. Len(up[p]) : SubSeq(up[p], 1, k) \in Seq(SentHere)
    BY <2>1, SeqClosure
  <2>3. \A k \in 0 .. Len(up[p]) : SubSeq(up[p], 1, k) \o <<Eof>> \in Seq(SentHere)
    BY <2>1, <2>2, SeqClosure
  <2>4. \/ up' = up
        \/ \E k \in 0 .. Len(up[p]) : up' = [up EXCEPT ![p] = SubSeq(up[p], 1, k) \o <<Eof>>]
    BY <1>2 DEF Crash
  <2>5. down' = [down EXCEPT ![p] = <<>>]
    BY <1>2 DEF Crash
  <2> QED
    BY <2>3, <2>4, <2>5, <1>1, ClientEnds, ResetLInv
<1>3. CASE p = Host
  <2>1. ServerGone(<<>>)
    BY <1>3 DEF Crash
  <2> QED
    BY <2>1, <1>1, <1>3, ServerEnds, ResetLInv
<1> QED
  BY <1>2, <1>3

LEMMA DropPlayersLInv ==
    ASSUME LInv, NEW p \in Slots, DropPlayers(p)
    PROVE  SentOK' /\ LeadOK' /\ AcceptedOK' /\ HostOK'
<1>1. UNCHANGED <<phase, current_turn, next_turn, awaiting>>
         /\ turnQueue' = [turnQueue EXCEPT ![p] = Fresh(p)]
  BY DEF DropPlayers
<1>2. PICK players \in Ascending(Missing(p)) :
         DisconnectNet(ClosedBy(p, Missing(p)), Sent(p, DisconnectPackets(p, players)), down)
  BY DEF DropPlayers
<1>3. players \in Seq(Slots)
  <2>1. Missing(p) \in SUBSET Slots
    BY DEF Missing, LInv, IInv, PeersOK
  <2> QED
    BY <2>1, AscendingSequences
<1>4. DisconnectPackets(p, players) \in Seq(SentHere)
  <2>1. \A q \in Slots : DisconnectPacket(p, q) \in SentHere
    BY NeutralOnes DEF SentHere
  <2>2. \A i \in 1 .. Len(players) : DisconnectPacket(p, players[i]) \in SentHere
    BY <2>1, <1>3
  <2>3. Len(players) \in Nat
    BY <1>3
  <2> QED
    BY <2>2, <2>3 DEF DisconnectPackets
<1>5. ChannelsOf(SentHere, Sent(p, DisconnectPackets(p, players)))
  BY <1>4, SentChannels DEF LInv, SentOK, SentHere, IInv, UpOK
<1>6. ChannelsOf(SentHere, down)
  BY DEF LInv, SentOK, SentHere
<1>7. ChannelsOf(SentHere, up') /\ ChannelsOf(SentHere, down')
  BY <1>2, <1>5, <1>6, EofSent, ClosedChannels
<1>8. SentOK'
  BY <1>1, <1>7, FreshLInv, SentKept
<1>9. \A r \in Slots : Extends(down[r], down'[r])
  BY <1>2, DisconnectNetExtends
<1>10. AcceptedOK'
  BY <1>1, <1>9, AcceptedKept DEF LInv, IInv
<1> QED
  BY <1>1, <1>8, <1>10, LeadKept DEF LInv, HostOK

-----------------------------------------------------------------------------
(* The inductive invariant.                                                *)

LEMMA InitLInv == Init => LInv
<1> SUFFICES ASSUME Init PROVE LInv
  OBVIOUS
<1>1. IInv /\ RestOK
  BY InitEstablishes, InitRest
<1>2. up = [p \in Slots |-> <<>>] /\ down = [p \in Slots |-> <<>>]
  BY DEF Init
<1>3. ChannelsOf(SentHere, up) /\ ChannelsOf(SentHere, down)
  BY <1>2, EmptySeq DEF ChannelsOf
<1>4. Host \in Members /\ Host \in Slots /\ Members \subseteq Slots
  BY ParametersAssumption DEF Host, Slots
<1>5. LeadOK
  <2>1. \A p \in Slots : phase[p] # "out"
    BY <1>1 DEF Init
  <2> QED
    BY <2>1, <1>1, ParametersAssumption DEF IInv, TurnsOK, WindowAt, LeadOK
<1>6. HostOK
  BY <1>4 DEF Init, HostOK
<1>7. AcceptedOK
  BY DEF Init, AcceptedOK
<1>8. QueuesOf(awaiting, next_turn, turnQueue)
  <2> SUFFICES ASSUME NEW p \in Slots, NEW s \in Slots, s # p
               PROVE  /\ turnQueue[p][s] \in Seq(SentTurns(awaiting, next_turn, s))
                      /\ awaiting[p] => turnQueue[p][s] = <<>>
    BY DEF QueuesOf
  <2>1. turnQueue[p][s] = IF p \in Members THEN FirstTurnsOf(s) ELSE <<>>
    BY DEF Init, NoTurns
  <2>2. CASE p \notin Members \/ s \notin Members \/ FirstTurn = 0
    BY <2>1, <2>2, EmptySeq DEF FirstTurnsOf
  <2>3. CASE p \in Members /\ s \in Members /\ FirstTurn # 0
    <3>1. turnQueue[p][s] = Own(s)
      BY <2>1, <2>3 DEF Init, Own
    <3>2. ~ awaiting[s] /\ ~ awaiting[p] /\ phase[s] # "out"
      BY <2>3 DEF Init
    <3>3. Own(s) \in Seq(SentTurns(awaiting, next_turn, s))
      BY <3>2, <1>1, OwnSent DEF IInv, TurnsOK, Own
    <3> QED
      BY <3>1, <3>2, <3>3
  <2> QED
    BY <2>2, <2>3
<1> QED
  BY <1>1, <1>3, <1>5, <1>6, <1>7, <1>8 DEF LInv, SentOK, SentHere

LEMMA StepLInv == LInv /\ [Next]_vars => LInv'
<1> SUFFICES ASSUME LInv, [Next]_vars PROVE LInv'
  OBVIOUS
<1>1. IInv' /\ RestOK'
  BY StepPreserves, RestPreserved DEF LInv
<1>2. SentOK' /\ LeadOK' /\ AcceptedOK' /\ HostOK'
  <2>1. CASE UNCHANGED vars
    BY <2>1 DEF vars, peerVars, turnVars, netVars, serverVars, LInv, SentOK, LeadOK,
                AcceptedOK, HostOK
  <2>2. CASE Next
    <3>1. PICK p \in Slots :
              \/ Join(p)
              \/ Server(p) \/ ServerTimeout(p)
              \/ Deliver(p)
              \/ Exchange(p)
              \/ Leave(p) \/ Crash(p) \/ DropPlayers(p)
      BY <2>2 DEF Next
    <3> QED
      BY <3>1, JoinLInv, ServerLInv, DeliverLInv, ExchangeLInv, LeaveLInv, CrashLInv,
         DropPlayersLInv
  <2> QED
    BY <2>1, <2>2
<1> QED
  BY <1>1, <1>2 DEF LInv

-----------------------------------------------------------------------------
(* The refinement.                                                         *)

Playing == {p \in Slots : Plays(p)}

\* A step that leaves the turns and their places alone.
LEMMA MeetStep ==
    ASSUME PeersOK', \A r \in Slots : Plays(r)' <=> Plays(r), current_turn' = current_turn
    PROVE  LS!Next
<1>1. Playing' = Playing
  BY DEF Playing
<1>2. isConnected' \in [Slots -> SUBSET Slots]
  BY DEF PeersOK
<1> QED
  BY <1>1, <1>2 DEF LS!Next, LS!Meet, Playing

\* A step that gives one program its place.
LEMMA EnterStep ==
    ASSUME PeersOK', NEW p \in Slots, ~ Plays(p), Plays(p)',
           \A r \in Slots \ {p} : Plays(r)' <=> Plays(r),
           NEW q \in Slots, NEW n \in 0 .. current_turn[q] + K,
           current_turn' = [current_turn EXCEPT ![p] = n]
    PROVE  LS!Next
<1>1. {r \in Slots : Plays(r)}' = {r \in Slots : Plays(r)} \cup {p}
  OBVIOUS
<1>2. isConnected' \in [Slots -> SUBSET Slots]
  BY DEF PeersOK
<1>3. p \notin {r \in Slots : Plays(r)}
  OBVIOUS
<1>4. LS!Enter(p)
  BY <1>1, <1>2, <1>3 DEF LS!Enter
<1> QED
  BY <1>4 DEF LS!Next

LEMMA QuitStep ==
    ASSUME PeersOK', NEW p \in Slots, Plays(p), ~ Plays(p)',
           \A r \in Slots \ {p} : Plays(r)' <=> Plays(r), current_turn' = current_turn
    PROVE  LS!Next
<1>1. {r \in Slots : Plays(r)}' = {r \in Slots : Plays(r)} \ {p}
  OBVIOUS
<1>2. isConnected' \in [Slots -> SUBSET Slots]
  BY DEF PeersOK
<1>3. LS!Quit(p)
  BY <1>1, <1>2 DEF LS!Quit
<1> QED
  BY <1>3 DEF LS!Next

\* A step that may give one program its place, with the number that it has.
LEMMA MayEnterStep ==
    ASSUME LInv, PeersOK', NEW p \in Slots, Plays(p) => Plays(p)',
           \A r \in Slots \ {p} : Plays(r)' <=> Plays(r), current_turn' = current_turn
    PROVE  LS!Next
<1>1. CASE Plays(p) \/ ~ Plays(p)'
  BY <1>1, MeetStep
<1>2. CASE ~ Plays(p) /\ Plays(p)'
  <2>1. current_turn[p] \in 0 .. current_turn[p] + K
          /\ current_turn' = [current_turn EXCEPT ![p] = current_turn[p]]
    BY ParametersAssumption DEF LInv, IInv, TurnsOK
  <2> QED
    BY <1>2, <2>1, EnterStep
<1> QED
  BY <1>1, <1>2

\* The heart of it: a program that consumes a turn is in step with every player it
\* knows, since it has a turn of that player that is not stale.
LEMMA InStepWithAll ==
    ASSUME LInv, SeqWindow, NEW p \in Slots, Plays(p), AllTurnsArrived(p),
           NEW q \in isConnected[p]
    PROVE  current_turn[p] < current_turn[q] + K
<1>1. q \in Slots /\ current_turn[p] \in Nat /\ current_turn[q] \in Nat
         /\ next_turn[q] \in Nat /\ K \in Nat \ {0}
  BY ParametersAssumption DEF LInv, IInv, PeersOK, TurnsOK
<1>2. CASE q = p
  BY <1>1, <1>2
<1>3. CASE q # p
  <2>1. turnQueue[p][q] \in Seq(SentTurns(awaiting, next_turn, q))
    BY <1>1, <1>3 DEF LInv, SentOK, QueuesOf
  <2>2. Fresh(p)[q] = DropStale(turnQueue[p][q], current_turn[p]) /\ Fresh(p)[q] # <<>>
    BY <1>1 DEF Fresh, AllTurnsArrived
  <2>3. PICK i \in 1 .. Len(turnQueue[p][q]) : ~ IsStale(turnQueue[p][q][i], current_turn[p])
    BY <2>1, <2>2, DropStaleHead
  <2>4. turnQueue[p][q][i] \in SentTurns(awaiting, next_turn, q)
    BY <2>1, <2>3
  <2> DEFINE turn == turnQueue[p][q][i]
  <2>5. turn.n \in Nat /\ turn.n < next_turn[q]
    BY <2>4 DEF SentTurns, SentBy, Turns
  <2>6. turn \in Pending(p)
    <3>1. turn \in ElementsOf(turnQueue[p][q])
      BY <2>3 DEF ElementsOf
    <3> HIDE DEF turn
    <3>2. turn \in PendingOf(p, q)
      BY <3>1 DEF PendingOf
    <3> QED
      BY <3>2, <1>1 DEF Pending
  <2>7. ~ (turn.n < current_turn[p])
    BY <2>3, <2>6 DEF SeqWindow, ToldStale
  <2> QED
    BY <2>5, <2>7, <1>1 DEF LInv, LeadOK
<1> QED
  BY <1>2, <1>3

LEMMA AdvanceStep ==
    ASSUME LInv, SeqWindow, NEW p \in Slots, ReceiveTurns(p)
    PROVE  LS!Next
<1>1. UNCHANGED <<phase, awaiting, isConnected>>
         /\ current_turn' = [current_turn EXCEPT ![p] = @ + 1]
         /\ phase[p] = "in" /\ AllTurnsArrived(p)
  BY DEF ReceiveTurns
<1>2. \A r \in Slots : Plays(r)' <=> Plays(r)
  BY <1>1 DEF Plays
<1>3. {r \in Slots : Plays(r)}' = {r \in Slots : Plays(r)}
  BY <1>2
<1>4. CASE Plays(p)
  <2>1. LS!InStep(p)
    BY <1>1, <1>4, InStepWithAll DEF LS!InStep
  <2>2. LS!Advance(p)
    BY <2>1, <1>1, <1>3, <1>4 DEF LS!Advance
  <2> QED
    BY <2>2 DEF LS!Next
<1>5. CASE ~ Plays(p)
  <2>1. awaiting[p]
    BY <1>1, <1>5 DEF Plays
  <2>2. ASSUME NEW q \in isConnected[p], q # p PROVE FALSE
    <3>1. q \in Slots
      BY DEF LInv, IInv, PeersOK
    <3>2. Fresh(p)[q] = <<>>
      BY <2>1, <2>2, <3>1, FreshQueues
    <3> QED
      BY <3>2, <1>1 DEF AllTurnsArrived
  <2>3. isConnected[p] = {p}
    BY <2>2, <1>1 DEF LInv, IInv, PeersOK
  <2>4. LS!InStep(p)
    BY <2>3, <1>5 DEF LS!InStep
  <2>5. LS!Advance(p)
    BY <2>3, <2>4, <1>1, <1>3 DEF LS!Advance
  <2> QED
    BY <2>5 DEF LS!Next
<1> QED
  BY <1>4, <1>5

LEMMA DeliverRefines ==
    ASSUME LInv, PeersOK', NEW p \in Slots, Deliver(p)
    PROVE  LS!Next
<1>1. CASE ReceiveConnect(p) \/ ReceiveDelta(p) \/ ReceiveEof(p) \/ ReceiveDisconnect(p)
  <2>1. UNCHANGED <<phase, awaiting, current_turn>>
    BY <1>1 DEF ReceiveConnect, ReceiveDelta, ReceiveEof, ReceiveDisconnect, turnVars
  <2> QED
    BY <2>1, MeetStep DEF Plays
<1>2. CASE ReceiveAccept(p)
  <2>1. UNCHANGED <<awaiting, current_turn>> /\ phase' = [phase EXCEPT ![p] = "in"]
    BY <1>2 DEF ReceiveAccept, turnVars
  <2>2. Plays(p) => Plays(p)'
    BY <2>1 DEF Plays, LInv, IInv, PeersOK
  <2>3. \A r \in Slots \ {p} : Plays(r)' <=> Plays(r)
    BY <2>1 DEF Plays
  <2> QED
    BY <2>1, <2>2, <2>3, MayEnterStep
<1>3. CASE ReceiveTurn(p) /\ awaiting[p]
  <2>1. phase[p] = "in" /\ phase' = phase
    BY <1>3, ReceiveTurnLInv DEF ReceiveTurn
  <2>2. awaiting' = [awaiting EXCEPT ![p] = FALSE]
    BY <1>3 DEF ReceiveTurn, MakeReady
  <2>3. \E q \in Slots : \E n \in 0 .. current_turn[q] + K :
            current_turn' = [current_turn EXCEPT ![p] = n]
    BY <1>3, ReceiveTurnLInv
  <2>4. ~ Plays(p) /\ Plays(p)'
    BY <2>1, <2>2, <1>3 DEF Plays, LInv, RestOK
  <2>5. \A r \in Slots \ {p} : Plays(r)' <=> Plays(r)
    BY <2>1, <2>2 DEF Plays
  <2> QED
    BY <2>3, <2>4, <2>5, EnterStep
<1>4. CASE ReceiveTurn(p) /\ ~ awaiting[p]
  <2>1. UNCHANGED <<phase, awaiting, current_turn>>
    BY <1>4 DEF ReceiveTurn
  <2> QED
    BY <2>1, MeetStep DEF Plays
<1> QED
  BY <1>1, <1>2, <1>3, <1>4 DEF Deliver

LEMMA ExchangeRefines ==
    ASSUME LInv, SeqWindow, PeersOK', NEW p \in Slots, Exchange(p)
    PROVE  LS!Next
<1>1. CASE SendTurns(p)
  <2>1. UNCHANGED <<phase, current_turn>>
          /\ \E b \in BOOLEAN : awaiting' = [awaiting EXCEPT ![p] = b]
                                  /\ (~ awaiting[p] => b = FALSE)
    BY <1>1 DEF SendTurns, peerVars
  <2>2. Plays(p) => Plays(p)'
    BY <2>1 DEF Plays, LInv, RestOK
  <2>3. \A r \in Slots \ {p} : Plays(r)' <=> Plays(r)
    BY <2>1 DEF Plays
  <2> QED
    BY <2>1, <2>2, <2>3, MayEnterStep
<1>2. CASE ReceiveTurns(p)
  BY <1>2, AdvanceStep
<1>3. CASE WaitForTurns(p) \/ AskAgain(p) \/ \E q \in Slots : SendDelta(p, q)
  <2>1. UNCHANGED <<phase, awaiting, current_turn>>
    BY <1>3 DEF WaitForTurns, AskAgain, SendDelta, peerVars, turnVars
  <2> QED
    BY <2>1, MeetStep DEF Plays
<1> QED
  BY <1>1, <1>2, <1>3 DEF Exchange

LEMMA LeaveRefines ==
    ASSUME LInv, PeersOK', NEW p \in Slots, Leave(p) \/ Crash(p)
    PROVE  LS!Next
<1>1. UNCHANGED <<awaiting, current_turn>> /\ phase' = [phase EXCEPT ![p] = "out"]
  BY DEF Leave, Crash, Reset
<1>2. \A r \in Slots \ {p} : Plays(r)' <=> Plays(r)
  BY <1>1 DEF Plays
<1>3. ~ Plays(p)'
  BY <1>1 DEF Plays, LInv, IInv, PeersOK
<1> QED
  BY <1>1, <1>2, <1>3, MeetStep, QuitStep

LEMMA StepRefines == LInv /\ SeqWindow /\ LInv' /\ [Next]_vars => [LS!Next]_LS!vars
<1> SUFFICES ASSUME LInv, SeqWindow, LInv', [Next]_vars PROVE [LS!Next]_LS!vars
  OBVIOUS
<1>1. CASE UNCHANGED vars
  <2>1. \A r \in Slots : Plays(r)' <=> Plays(r)
    BY <1>1 DEF vars, peerVars, turnVars, Plays
  <2> QED
    BY <2>1, <1>1 DEF LS!vars, vars, peerVars, turnVars
<1>2. CASE Next
  <2>1. PeersOK'
    BY DEF LInv, IInv
  <2>2. ASSUME NEW p \in Slots, Join(p) PROVE LS!Next
    <3>1. UNCHANGED <<awaiting, current_turn>> /\ phase[p] = "free"
            /\ phase' = [phase EXCEPT ![p] = "joining"]
      BY <2>2 DEF Join
    <3> QED
      BY <3>1, <2>1, MeetStep DEF Plays, LInv, IInv, PeersOK
  <2>3. ASSUME NEW p \in Slots, Server(p) \/ ServerTimeout(p) PROVE LS!Next
    <3>1. UNCHANGED <<phase, awaiting, current_turn>>
      BY <2>3 DEF Server, Relay, ServerSeesEof, CancelledHandler, ServerTimeout, peerVars,
                  turnVars
    <3> QED
      BY <3>1, <2>1, MeetStep DEF Plays
  <2>4. ASSUME NEW p \in Slots, DropPlayers(p) PROVE LS!Next
    <3>1. UNCHANGED <<phase, awaiting, current_turn>>
      BY <2>4 DEF DropPlayers
    <3> QED
      BY <3>1, <2>1, MeetStep DEF Plays
  <2> QED
    BY <1>2, <2>1, <2>2, <2>3, <2>4, DeliverRefines, ExchangeRefines, LeaveRefines DEF Next
<1> QED
  BY <1>1, <1>2

LEMMA InitRefines == Init => LS!Init
<1> SUFFICES ASSUME Init PROVE LS!Init
  OBVIOUS
<1>1. current_turn \in [Slots -> Nat] /\ isConnected \in [Slots -> SUBSET Slots]
  BY InitEstablishes DEF IInv, TurnsOK, PeersOK
<1>2. \A p \in Slots : Plays(p) <=> p \in Members /\ FirstTurn # 0
  BY ParametersAssumption DEF Init, Plays
<1>3. LS!LockstepTypeOK
  BY <1>1 DEF LS!LockstepTypeOK
<1>4. \A p, q \in {r \in Slots : Plays(r)} : current_turn[p] = current_turn[q]
  BY <1>2 DEF Init
<1>5. \A p \in Slots \ {r \in Slots : Plays(r)} : current_turn[p] = 0
  BY <1>2 DEF Init
<1> QED
  BY <1>3, <1>4, <1>5 DEF LS!Init

\* The turn protocol implements lockstep: in every run in which the 8-bit test of
\* SNetReceiveTurns tells stale turns from others, no program consumes a turn that is
\* K or more ahead of a player it is connected to, whatever is lost, late or renumbered.
THEOREM LockstepImplemented == Spec /\ []SeqWindow => ImplementsLockstep
<1>1. Spec => []LInv
  BY InitLInv, StepLInv, PTL DEF Spec
<1>2. LInv /\ SeqWindow /\ LInv' /\ [Next]_vars => [LS!Next]_LS!vars
  BY StepRefines
<1>3. Init => LS!Init
  BY InitRefines
<1> QED
  BY <1>1, <1>2, <1>3, PTL DEF Spec, ImplementsLockstep, LS!Spec
==============================================================================
