------------------------- MODULE PeerMeshTurns_proofs -------------------------
(***************************************************************************)
(* That PeerMesh loses no turns (NoTurnLost), for every number of slots,   *)
(* programs, joins, turns and faults.                                      *)
(*                                                                         *)
(* The argument.  MeshInv, the inductive invariant, is put together from   *)
(* the parts that PeerMesh_proofs defines (InvW to InvT).  A step of a     *)
(* program is one of four kinds, and for each kind every part is kept:     *)
(*   - an act (Act, of PeerMesh_proofs): it takes at most one packet from  *)
(*     a connection, says something to players that it knows and closes    *)
(*     connections; most handlers are acts, and each is shown to be one;   *)
(*   - a connection is opened or accepted (Rewires): what is on its way    *)
(*     stays, or is moved from the queue to the connection;                *)
(*   - a program ends (Exit): what is on its connections is lost, and it   *)
(*     is nobody's peer any more that counts;                              *)
(*   - a player admits a program (Admits): it and all that it knows are    *)
(*     told of each other.                                                 *)
(***************************************************************************)
EXTENDS PeerMesh_proofs

--------------------------------------------------------------------------------
(* The handlers are acts.                                                      *)

\* Most steps of e keep the invariant because they are of this form.
Acts(e) == \E g \in Programs : \E others, out :
    Act(e, g, others, out, {}) /\ Counts(e, g, out) /\ Heard(e, g, others)

LEMMA MakeProper ==
    ASSUME Typed', NEW e \in Programs, NEW i \in Slots, NEW p \in Game, plr_self'[e] \in Slots, p.src = plr_self'[e],
           p.dst = i \/ (p \in Held /\ p.dst = PLR_BROADCAST),
           p \in Farewells => p.player # i, p \in TurnPackets => ~ awaiting'[e]
    PROVE  p \in ProperAfter(e, i)
BY DEF ProperAfter, Proper, Joined, Slots, Held, Packets, EchoTypes, PLR_BROADCAST, PLR_MASTER, Endpoints,
       NoEndpoint, Farewells, TurnPackets

LEMMA SlotTurns ==
    ASSUME NEW self \in Slots, NEW dst \in Slots \cup {PLR_BROADCAST}, NEW n \in 0 .. MaxTurn
    PROVE  /\ Turn(self, dst, n) \in Game /\ Turn(self, dst, n) \in TurnPackets /\ Turn(self, dst, n) \in Held
           /\ Turn(self, dst, n) \notin Farewells
           /\ Turn(self, dst, n).src = self /\ Turn(self, dst, n).dst = dst /\ Turn(self, dst, n).turn = n
<1>1. self \in Slots \cup {PLR_BROADCAST}
  OBVIOUS
<1>2. /\ Turn(self, dst, n) \in Packets /\ Turn(self, dst, n).type = "PT_TURN"
      /\ Turn(self, dst, n).src = self /\ Turn(self, dst, n).dst = dst /\ Turn(self, dst, n).turn = n
  BY <1>1, PacketTypes
<1> DEFINE p == Turn(self, dst, n)
<1> HIDE DEF p
<1>3. p \in Packets /\ p.type = "PT_TURN" => p \in Game /\ p \in TurnPackets /\ p \in Held /\ p \notin Farewells
  BY DEF Game, TurnPackets, Held, Farewells
<1> QED BY <1>2, <1>3 DEF p

LEMMA SlotEchoes ==
    ASSUME NEW self \in Slots, NEW dst \in Slots, NEW type \in EchoTypes
    PROVE  /\ Echo(type, self, dst) \in Game /\ Echo(type, self, dst) \notin Held
           /\ Echo(type, self, dst).src = self /\ Echo(type, self, dst).dst = dst
<1>1. self \in Slots \cup {PLR_BROADCAST} /\ dst \in Slots \cup {PLR_BROADCAST}
  OBVIOUS
<1>2. /\ Echo(type, self, dst) \in Packets /\ Echo(type, self, dst).type = type
      /\ Echo(type, self, dst).src = self /\ Echo(type, self, dst).dst = dst
  BY <1>1, PacketTypes
<1> DEFINE p == Echo(type, self, dst)
<1> HIDE DEF p
<1>3. p \in Packets /\ p.type = type => p \in Game /\ p \notin Held
  BY DEF Game, Held, EchoTypes
<1> QED BY <1>2, <1>3 DEF p

LEMMA SlotFarewells ==
    ASSUME NEW self \in Slots, NEW player \in Slots
    PROVE  /\ Disconnect(self, player) \in Game /\ Disconnect(self, player) \notin TurnPackets
           /\ Disconnect(self, player) \in Held /\ Disconnect(self, player) \in Farewells
           /\ Disconnect(self, player).src = self /\ Disconnect(self, player).dst = PLR_BROADCAST
           /\ Disconnect(self, player).player = player
<1>2. /\ Disconnect(self, player) \in Packets /\ Disconnect(self, player).type = "PT_DISCONNECT"
      /\ Disconnect(self, player).src = self /\ Disconnect(self, player).dst = PLR_BROADCAST
      /\ Disconnect(self, player).player = player
  BY PacketTypes
<1> DEFINE p == Disconnect(self, player)
<1> HIDE DEF p
<1>3. p \in Packets /\ p.type = "PT_DISCONNECT" =>
          p \in Game /\ p \notin TurnPackets /\ p \in Held /\ p \in Farewells
  BY DEF Game, TurnPackets, Held, Farewells
<1> QED BY <1>2, <1>3 DEF p

\* Who has joined plays, and waits for nobody's acceptance.
LEMMA SelfKept ==
    ASSUME InvK, NEW e \in Programs, NEW g, plr_self' = plr_self, firstpeer' = firstpeer,
           awaiting'[e] => awaiting[e], ~ Joined(e) => awaiting'[e],
           g # e => Arrived(e, g) \notin Accepts,
           \A y \in Programs \ {e} : \/ got'[e][y] = got[e][y] \/ got'[e][y] = 0
                                     \/ y = g /\ Arrived(e, g) \in TurnPackets
    PROVE  Self(e, g, {})
BY DEF Self, Joined, Slots

LEMMA StepAlone ==
    ASSUME Typed, NEW e \in Programs, \A x \in Programs \ {e} : peers'[x] = peers[x],
           plr_self' = plr_self, firstpeer' = firstpeer,
           \A x \in Programs \ {e} : /\ isConnected'[x] = isConnected[x] /\ awaiting'[x] = awaiting[x]
                                     /\ sent'[x] = sent[x] /\ got'[x] = got[x] /\ taken'[x] = taken[x]
    PROVE  Alone(e)
BY DEF Alone

LEMMA SendTurnActs ==
    ASSUME Typed, Typed', InvK, InvS, NEW e \in Programs, SendTurn(e)
    PROVE  Acts(e)
<1> DEFINE p == Turn(plr_self[e], PLR_BROADCAST, sent'[e])
           pk == [i \in Slots |-> p]
           base == Step(e)
           r == Broadcast(base, p)
<1>1. /\ e \in Playing /\ sent[e] < MaxTurn /\ sent' = [sent EXCEPT ![e] = @ + 1]
      /\ Finish(e, r) /\ plr_self' = plr_self /\ ~ awaiting[e]
      /\ firstpeer' = firstpeer /\ isConnected' = isConnected /\ awaiting' = awaiting /\ got' = got
      /\ gone' = gone /\ crossed' = crossed /\ taken' = taken
  BY DEF SendTurn
<1>2. Joined(e) /\ plr_self[e] \in Slots /\ e \notin gone /\ sent'[e] \in 0 .. MaxTurn /\ sent'[e] = sent[e] + 1
  BY <1>1, PlayingJoined DEF Typed
<1>3. /\ p \in Game /\ p \in TurnPackets /\ p \in Held /\ p \notin Farewells
      /\ p.src = plr_self[e] /\ p.dst = PLR_BROADCAST /\ p.turn = sent'[e]
  <2> DEFINE self == plr_self[e]
             n == sent'[e]
             q == Turn(self, PLR_BROADCAST, n)
  <2>1. self \in Slots /\ n \in 0 .. MaxTurn /\ PLR_BROADCAST \in Slots \cup {PLR_BROADCAST}
    BY <1>2
  <2> HIDE DEF self, n
  <2>2. /\ q \in Game /\ q \in TurnPackets /\ q \in Held /\ q \notin Farewells
        /\ q.src = self /\ q.dst = PLR_BROADCAST /\ q.turn = n
    BY <2>1, SlotTurns
  <2> QED BY <2>2 DEF self, n
<1> HIDE DEF p
<1>4. base \in Steps /\ Sole(base.peers) /\ Silent(base) /\ base.peers = peers[e]
  BY TableSole
<1> HIDE DEF base
<1>5. pk \in [Slots -> Game] /\ \A i \in Slots : pk[i] = p
  BY <1>3
<1>6. SentTo(base, Slots, pk, N, r)
  BY <1>3, <1>4, BroadcastSends
<1> HIDE DEF pk
<1>7. Spoken(base, Slots, pk, {}, r)
  <2> HIDE DEF r
  <2> QED BY <1>4, <1>5, <1>6, SentSpoken
<1> HIDE DEF r
<1>8. Move(e, e, {}, r.to) /\ PeersStep(e, r.peers)
  <2>1. r \in Steps
    BY <1>7 DEF Spoken
  <2> QED BY <1>1, <1>2, <2>1, FinishMove
<1>9. Outcome(e, base, Slots, pk, {}, {}, r)
  BY <1>7, <1>8 DEF Outcome, PeersStep
<1>10. \A i \in Slots : pk[i] \in ProperAfter(e, i)
  BY <1>1, <1>2, <1>3, <1>5, MakeProper
<1>11. Grounds(e, e, base, {})
  <2>1. Grounds(e, e, Step(e), {})
    BY <1>1, PlainGrounds
  <2> QED BY <2>1 DEF base
<1>12. Alone(e)
  BY <1>1, <1>8, StepAlone DEF PeersStep, Typed
<1>13. Self(e, e, {})
  BY <1>1, <1>2, SelfKept
<1>14. Closing(e, e, {})
  BY DEF Closing
<1>15. Act(e, e, {}, r.to, {}) /\ Adds(e, base.peers, Slots, pk, {}, r.to)
  <2>1. Speech(e, e, {}, base, Slots, pk, {}, {}, r)
    BY <1>5, <1>8, <1>9, <1>10, <1>11, <1>12, <1>13, <1>14 DEF Speech
  <2> QED BY <2>1, SpeechAct
<1>16. Counts(e, e, r.to)
  <2> SUFFICES ASSUME NEW y \in Programs \ {e}, NEW i \in Slots, KnowsAt(e, y, i)', i \notin taken'[e]
               PROVE  OneTurnMore(e, y, i, r.to)
    BY DEF Counts
  <2>1. peers[e][i].endpoint = <<y>>
    BY <1>4, <1>15 DEF Adds
  <2>2. Queues(e, y, i, r.to) = Append(Among(peers[e][i].sendQueue, TurnPackets), p)
    BY <1>3, <1>4, <1>5, <1>15 DEF Adds
  <2> QED BY <1>1, <1>2, <1>3, <2>1, <2>2 DEF OneTurnMore, KnowsAt
<1>17. Heard(e, e, {})
  BY <1>1 DEF Heard
<1> QED BY <1>15, <1>16, <1>17 DEF Acts

\* Nothing is said but echoes and farewells.
LEMMA CountsSame ==
    ASSUME NEW e, NEW g, NEW lost, NEW players, NEW pk, NEW out, Adds(e, peers[e], players, pk, lost, out),
           \A i \in Slots : i \in players => pk[i] \notin TurnPackets,
           sent'[e] = sent[e], awaiting[e] => awaiting'[e], taken'[e] = taken[e]
    PROVE  Counts(e, g, out)
BY DEF Adds, Counts, SameTurns, KnowsAt

LEMMA SendEchoRequestsActs ==
    ASSUME Typed, Typed', InvK, InvS, NEW e \in Programs, SendEchoRequests(e)
    PROVE  Acts(e)
<1> DEFINE self == plr_self[e]
           base == Step(e)
           r == ForEach(Slots \ {self}, base, LAMBDA s, i :
                     SendTo(s, i, Echo("PT_ECHO_REQUEST", self, i)))
           players == Slots \ {self}
           pk == Requested(self)
<1>1. /\ e \in Playing /\ Finish(e, r) /\ plr_self' = plr_self
      /\ firstpeer' = firstpeer /\ isConnected' = isConnected /\ awaiting' = awaiting /\ got' = got
      /\ gone' = gone /\ crossed' = crossed /\ taken' = taken /\ sent' = sent
  BY DEF SendEchoRequests, turnVars
<1>2. Joined(e) /\ self \in Slots /\ e \notin gone /\ self = plr_self[e]
  BY <1>1, PlayingJoined DEF Typed
<1>4. base \in Steps /\ Sole(base.peers) /\ Silent(base) /\ base.peers = peers[e] /\ base = Step(e)
  BY TableSole
<1> HIDE DEF base, self
<1>6. SentTo(base, players, pk, N, r)
  BY <1>2, <1>4, EchoRequestsSend
<1> HIDE DEF r
<1>5. pk \in [Slots -> Game] /\ \A i \in Slots : pk[i] = Echo("PT_ECHO_REQUEST", self, i)
  <2>1. \A i \in Slots : Echo("PT_ECHO_REQUEST", self, i) \in Game
    BY <1>2, SlotEchoes DEF EchoTypes
  <2> QED BY <2>1 DEF Requested
<1> HIDE DEF pk
<1>7. Spoken(base, players, pk, {}, r)
  BY <1>4, <1>5, <1>6, SentSpoken
<1>8. Move(e, e, {}, r.to) /\ PeersStep(e, r.peers)
  <2>1. r \in Steps
    BY <1>7 DEF Spoken
  <2> QED BY <1>1, <1>2, <2>1, FinishMove
<1>9. Outcome(e, base, players, pk, {}, {}, r)
  BY <1>7, <1>8 DEF Outcome, PeersStep
<1>3. ASSUME NEW i \in Slots PROVE pk[i] \in ProperAfter(e, i) /\ pk[i] \notin TurnPackets
  <2>1. pk[i] \in Game /\ pk[i] \notin Held /\ pk[i].src = self /\ pk[i].dst = i
    BY <1>2, <1>5, SlotEchoes DEF EchoTypes
  <2>2. pk[i] \notin TurnPackets /\ pk[i] \notin Farewells
    BY <2>1, Kinds
  <2>3. plr_self'[e] = self
    BY <1>1, <1>2
  <2> DEFINE p == pk[i]
  <2> HIDE DEF p
  <2>4. p \in Game /\ plr_self'[e] \in Slots /\ p.src = plr_self'[e] /\ p.dst = i /\ p \notin Farewells
        /\ p \notin TurnPackets
    BY <1>2, <2>1, <2>2, <2>3 DEF p
  <2>5. p \in ProperAfter(e, i)
    BY <2>4, MakeProper
  <2> QED BY <2>2, <2>5 DEF p
<1>11. Grounds(e, e, base, {})
  <2>1. Grounds(e, e, Step(e), {})
    BY <1>1, PlainGrounds
  <2> QED BY <2>1 DEF base
<1>12. Alone(e)
  BY <1>1, <1>8, StepAlone DEF PeersStep, Typed
<1>13. Self(e, e, {})
  BY <1>1, <1>2, SelfKept
<1>14. Closing(e, e, {})
  BY DEF Closing
<1>15. Act(e, e, {}, r.to, {}) /\ Adds(e, base.peers, players, pk, {}, r.to)
  <2> HIDE DEF players
  <2>1. Speech(e, e, {}, base, players, pk, {}, {}, r)
    BY <1>3, <1>5, <1>8, <1>9, <1>11, <1>12, <1>13, <1>14 DEF Speech
  <2> QED BY <2>1, SpeechAct
<1>16. Counts(e, e, r.to)
  <2> HIDE DEF players
  <2> QED BY <1>1, <1>3, <1>4, <1>15, CountsSame
<1>17. Heard(e, e, {})
  BY <1>1 DEF Heard
<1> QED BY <1>15, <1>16, <1>17 DEF Acts

LEMMA ArrivedCounts ==
    ASSUME Typed, NEW e \in Programs, NEW g \in Programs \ {e}, Gets(e, g)
    PROVE  /\ Arrived(e, g) \in Packets /\ Arrived(e, g) \in Flying(g, e)
           /\ \A set : Arrived(e, g) \in set => Cnt(g, e, set) > 0
<1> DEFINE p == Arrived(e, g)
           a == L1(g, e)
           b == L2(g, e)
           c == L3(g, e)
<1>1. \/ fd[e][g] = <<e, g>> /\ b # <<>> /\ p = Head(b)
      \/ fd[e][g] = <<g, e>> /\ a # <<>> /\ p = Head(a)
  <2>1. fd[e][g] \in {<<e, g>>, <<g, e>>}
    BY FdShape DEF Gets
  <2>2. fd[e][g] = <<e, g>> => b # <<>> /\ p = Head(b)
    BY DEF Gets, Arrived, L2
  <2>3. fd[e][g] = <<g, e>> => a # <<>> /\ p = Head(a)
    BY DEF Gets, Arrived, L1
  <2>4. fd[e][g] = <<e, g>> \/ fd[e][g] = <<g, e>>
    BY <2>1
  <2> QED BY <2>2, <2>3, <2>4, Zenon
<1>2. a \in Seq(Packets) /\ b \in Seq(Packets) /\ c \in Seq(Packets)
  BY LanesTyped
<1>3. p \in Packets
  <2> HIDE DEF a, b, p
  <2> QED BY <1>1, <1>2
<1>4. ASSUME NEW set, p \in set PROVE Cnt(g, e, set) > 0
  <2>1. Count(a, set) \in Nat /\ Count(b, set) \in Nat /\ Count(c, set) \in Nat
    BY <1>2, CountBasics
  <2>2. Cnt(g, e, set) = Count(a, set) + Count(b, set) + Count(c, set)
    BY DEF Cnt
  <2>3. Count(a, set) > 0 \/ Count(b, set) > 0
    <3> HIDE DEF a, b, p
    <3>1. CASE b # <<>> /\ p = Head(b)
      <4>1. Tail(b) \in Seq(Packets) /\ Count(b, set) = Count(Tail(b), set) + (IF Head(b) \in set THEN 1 ELSE 0)
        BY <1>2, <3>1, CountHead
      <4>2. Count(Tail(b), set) \in Nat
        BY <4>1, CountBasics
      <4> QED BY <1>2, <1>4, <3>1, <4>1, <4>2
    <3>2. CASE a # <<>> /\ p = Head(a)
      <4>1. Tail(a) \in Seq(Packets) /\ Count(a, set) = Count(Tail(a), set) + (IF Head(a) \in set THEN 1 ELSE 0)
        BY <1>2, <3>2, CountHead
      <4>2. Count(Tail(a), set) \in Nat
        BY <4>1, CountBasics
      <4> QED BY <1>2, <1>4, <3>2, <4>1, <4>2
    <3> QED BY <1>1, <3>1, <3>2
  <2> HIDE DEF a, b, c
  <2> QED BY <2>1, <2>2, <2>3
<1>5. Cnt(g, e, {p}) > 0
  <2>1. p \in {p}
    OBVIOUS
  <2> HIDE DEF p
  <2> QED BY <1>4, <2>1
<1> QED BY <1>3, <1>4, <1>5 DEF Flying

LEMMA ArrivesGets ==
    ASSUME Typed, NEW e \in Programs, NEW f \in Programs \ {e}, NEW type, Arrives(e, f, type)
    PROVE  /\ Gets(e, f) /\ e \notin gone /\ Arrived(e, f) \in Packets /\ Arrived(e, f).type = type
           /\ Arrived(e, f) \in Flying(f, e)
           /\ type = "PT_TURN" => Arrived(e, f) \in TurnPackets
           /\ type = "PT_DISCONNECT" => Arrived(e, f) \in Farewells
           /\ type \in EchoTypes => Arrived(e, f) \in Game /\ Arrived(e, f) \notin Held
           /\ type = "PT_JOIN_ACCEPT" => Arrived(e, f) \in Accepts
           /\ type = "PT_JOIN_REQUEST" => Arrived(e, f) \in Requests
<1>1. Gets(e, f) /\ e \notin gone /\ Arrived(e, f) \in Packets /\ Arrived(e, f).type = type
  BY SlotOfPacket DEF Gets
<1>2. Arrived(e, f) \in Flying(f, e)
  BY <1>1, ArrivedCounts
<1> QED BY <1>1, <1>2 DEF TurnPackets, Farewells, Game, Held, EchoTypes, Accepts, Requests

LEMMA DropPlayerActs ==
    ASSUME Typed, Typed', InvK, InvS, NEW e \in Programs, NEW player \in Slots, DropPlayer(e, player)
    PROVE  Acts(e)
<1> DEFINE self == plr_self[e]
           base == Step(e)
           r == ForEach(Slots \ {player}, base, LAMBDA s, i : SendTo(s, i, Disconnect(self, player)))
           players == Slots \ {player}
           pk == [i \in Slots |-> Disconnect(self, player)]
           others == Reached(peers[e][player].endpoint)
<1>1. /\ e \in Playing /\ ForgetPlayer(e, player, wire, r) /\ plr_self' = plr_self
      /\ firstpeer' = firstpeer /\ awaiting' = awaiting
      /\ gone' = gone /\ crossed' = crossed /\ taken' = taken /\ sent' = sent
  BY DEF DropPlayer
<1>2. Joined(e) /\ self \in Slots /\ e \notin gone /\ self = plr_self[e]
  BY <1>1, PlayingJoined DEF Typed
<1>4. base \in Steps /\ Sole(base.peers) /\ Silent(base) /\ base.peers = peers[e] /\ base = Step(e)
  BY TableSole
<1> HIDE DEF base, self
<1>6. SentTo(base, players, pk, N, r)
  BY <1>2, <1>4, FarewellsSend
<1> HIDE DEF r
<1>5. pk \in [Slots -> Game] /\ \A i \in Slots : pk[i] = Disconnect(self, player)
  BY <1>2, SlotFarewells
<1> HIDE DEF pk
<1>7. Spoken(base, players, pk, {}, r) /\ r \in Steps
  <2>1. Spoken(base, players, pk, {}, r)
    BY <1>4, <1>5, <1>6, SentSpoken
  <2> QED BY <2>1 DEF Spoken
<1>20. \A y \in others : y \in Programs /\ peers[e][player].endpoint = <<y>>
  BY DEF Reached
<1>21. ASSUME NEW y \in others PROVE r.to[y] = <<>>
  <2>1. r.to[y] = AtOnce(base, players, pk, player) \o <<>>
    BY <1>4, <1>7, <1>20 DEF Spoken
  <2>2. AtOnce(base, players, pk, player) = <<>> /\ <<>> \o <<>> = <<>>
    BY DEF AtOnce
  <2> QED BY <2>1, <2>2
<1>8. Move(e, e, others, r.to) /\ PeersStep(e, [r.peers EXCEPT ![player] = NoPeer])
  <2>1. ForgetPlayer(e, player, IF e = e THEN wire ELSE Rest(e, e), r)
    BY <1>1
  <2> QED BY <1>1, <1>2, <1>7, <1>21, <2>1, ForgetMove
<1>9. Outcome(e, base, players, pk, {}, {player}, r)
  <2>1. r.peers \in [Slots -> PeerType]
    BY <1>7 DEF Steps, PeerTables
  <2> QED BY <1>7, <1>8, <2>1 DEF Outcome, PeersStep
<1>3. ASSUME NEW i \in Slots, i \in players PROVE pk[i] \in ProperAfter(e, i) /\ pk[i] \notin TurnPackets
  <2> DEFINE p == pk[i]
  <2>1. /\ p \in Game /\ p \in Held /\ p.src = self /\ p.dst = PLR_BROADCAST /\ p \notin TurnPackets
        /\ p.player = player
    BY <1>2, <1>5, SlotFarewells
  <2>3. plr_self'[e] = self /\ i # player
    BY <1>1, <1>2, <1>3
  <2> HIDE DEF p
  <2>5. p \in ProperAfter(e, i)
    BY <1>2, <2>1, <2>3, MakeProper
  <2> QED BY <2>1, <2>5 DEF p
<1>10. Forgot(e, player, wire, r)
  BY <1>1, <1>7, ForgetShape DEF Typed
<1>11. Grounds(e, e, base, {player})
  <2>1. isConnected' = [isConnected EXCEPT ![e] = @ \ {player}]
    BY <1>10 DEF Forgot
  <2>2. \A i \in Slots : i \notin {player} /\ i \in isConnected[e] => i \in isConnected'[e]
    BY <2>1 DEF Typed
  <2>3. Grounds(e, e, Step(e), {player})
    BY <1>1, <2>2, PlainGrounds
  <2> QED BY <2>3 DEF base
<1>22. got' = [got EXCEPT ![e] = [f \in Programs |-> IF f \in others THEN 0 ELSE @[f]]]
       /\ isConnected' = [isConnected EXCEPT ![e] = @ \ {player}]
  BY <1>10 DEF Forgot
<1>23. \A y \in Programs : got'[e][y] = IF y \in others THEN 0 ELSE got[e][y]
  <2> HIDE DEF others
  <2> QED BY <1>22 DEF Typed
<1>12. Alone(e)
  <2>1. \A x \in Programs \ {e} : isConnected'[x] = isConnected[x] /\ got'[x] = got[x]
    BY <1>22 DEF Typed
  <2> QED BY <1>1, <1>8, <2>1, StepAlone DEF PeersStep
<1>13. Self(e, e, {})
  BY <1>1, <1>2, <1>23, SelfKept
<1>14. Closing(e, e, others)
  <2> SUFFICES ASSUME NEW y \in others PROVE y \in Programs /\ Met(e, y) /\ ~ Met(e, y)'
    BY DEF Closing
  <2>1. y \in Programs /\ peers[e][player].endpoint = <<y>> /\ <<y>> # NoEndpoint
    BY <1>20, ConnectionTypes
  <2>2. ASSUME NEW i \in Slots, peers'[e][i].endpoint = <<y>> PROVE FALSE
    <3>1. i # player
      BY <1>9, <2>1, <2>2 DEF Outcome, NoPeer
    <3>2. peers'[e][i] = r.peers[i]
      BY <1>9, <3>1 DEF Outcome
    <3>3. peers[e][i].endpoint = <<y>>
      BY <1>4, <1>7, <2>2, <3>2 DEF Spoken
    <3> QED BY <1>4, <2>1, <3>1, <3>3 DEF Sole
  <2> QED BY <2>1, <2>2 DEF Met, KnowsAt, Slots
<1>15. Act(e, e, others, r.to, {}) /\ Adds(e, base.peers, players, pk, {player}, r.to)
  <2> HIDE DEF players, others
  <2>1. Speech(e, e, others, base, players, pk, {}, {player}, r)
    BY <1>3, <1>5, <1>8, <1>9, <1>11, <1>12, <1>13, <1>14 DEF Speech
  <2> QED BY <2>1, SpeechAct
<1>16. Counts(e, e, r.to)
  <2> HIDE DEF players
  <2> QED BY <1>1, <1>3, <1>4, <1>15, CountsSame
<1>17. Heard(e, e, others)
  BY <1>23 DEF Heard
<1> QED BY <1>15, <1>16, <1>17 DEF Acts

\* Who gets a packet of a player has joined.
LEMMA EchoArrives ==
    ASSUME Typed, InvN, NEW e \in Programs, NEW g \in Programs \ {e}, Arrived(e, g) \in Flying(g, e),
           Arrived(e, g) \in Game, Arrived(e, g) \notin Held, IsFromPlayer(e, g)
    PROVE  Joined(e)
<1>1. PICK n \in Slots : Numbered(e, n)
  BY DEF InvN
<1>2. Arrived(e, g).dst = n
  BY <1>1 DEF Numbered
<1>3. Arrived(e, g).dst \in {plr_self[e], PLR_BROADCAST}
  BY DEF IsFromPlayer
<1>4. PLR_BROADCAST \notin Slots
  BY Numbers
<1> QED BY <1>2, <1>3, <1>4 DEF Joined

LEMMA ReceiveEchoActs ==
    ASSUME Typed, Typed', InvK, InvN, InvS, NEW e \in Programs, NEW f \in Programs \ {e},
           NEW type \in EchoTypes, ReceiveEcho(e, f, type)
    PROVE  Acts(e)
<1> DEFINE self == plr_self[e]
           src == Arrived(e, f).src
           base == Step(e)
           p == Echo("PT_ECHO_REPLY", self, src)
           pk == [i \in Slots |-> p]
           players == IF type = "PT_ECHO_REQUEST" THEN {src} ELSE {}
           s == IF type = "PT_ECHO_REQUEST" THEN SendTo(base, src, p) ELSE base
           r == DrainSendQueue(s, src)
<1>1. /\ Arrives(e, f, type) /\ IsFromPlayer(e, f) /\ FinishReceive(e, f, r) /\ plr_self' = plr_self
      /\ firstpeer' = firstpeer /\ isConnected' = isConnected /\ awaiting' = awaiting /\ got' = got
      /\ gone' = gone /\ crossed' = crossed /\ taken' = taken /\ sent' = sent
  BY DEF ReceiveEcho, turnVars
<1>2. /\ Gets(e, f) /\ e \notin gone /\ Arrived(e, f) \in Flying(f, e)
      /\ Arrived(e, f) \in Game /\ Arrived(e, f) \notin Held
  BY <1>1, ArrivesGets
<1>3. Joined(e) /\ self \in Slots /\ src \in Slots /\ peers[e][src].endpoint = <<f>> /\ self = plr_self[e]
  <2>1. Joined(e)
    BY <1>1, <1>2, EchoArrives
  <2> QED BY <1>1, <2>1, FromPlayer DEF Joined
<1>4. base \in Steps /\ Sole(base.peers) /\ Silent(base) /\ base.peers = peers[e] /\ base = Step(e)
  BY TableSole
<1> HIDE DEF base, self, src
<1>5. p \in Game /\ p \notin Held /\ p.src = self /\ p.dst = src
  BY <1>3, SlotEchoes DEF EchoTypes
<1> HIDE DEF p
<1>6. pk \in [Slots -> Game] /\ \A i \in Slots : pk[i] = p
  BY <1>5
<1>7. Spoken(base, players, pk, {}, s)
  <2>1. CASE type = "PT_ECHO_REQUEST"
    <3>1. Spoken(base, {src}, pk, {}, SendTo(base, src, p))
      BY <1>3, <1>4, <1>5, OneSpoken
    <3> QED BY <2>1, <3>1
  <2>2. CASE type # "PT_ECHO_REQUEST"
    <3>1. Spoken(base, {}, pk, {}, base)
      BY <1>4, NoneSpoken
    <3> QED BY <2>2, <3>1
  <2> QED BY <2>1, <2>2
<1> HIDE DEF pk, s
<1>8. Spoken(base, players, pk, {src}, r) /\ r \in Steps
  <2> HIDE DEF players
  <2>1. Spoken(base, players, pk, {src}, r)
    BY <1>3, <1>4, <1>6, <1>7, DrainSpoken
  <2> QED BY <2>1 DEF Spoken
<1> HIDE DEF r
<1>9. Move(e, f, {}, r.to) /\ PeersStep(e, r.peers)
  BY <1>1, <1>2, <1>8, ReceiveMove
<1>10. Outcome(e, base, players, pk, {src}, {}, r)
  BY <1>8, <1>9 DEF Outcome, PeersStep
<1>11. ASSUME NEW i \in Slots, i \in players PROVE pk[i] \in ProperAfter(e, i) /\ pk[i] \notin TurnPackets
  <2>1. i = src /\ pk[i] = p
    BY <1>6, <1>11
  <2>2. p \notin TurnPackets /\ p \notin Farewells
    BY <1>5, Kinds
  <2>3. plr_self'[e] = self
    BY <1>1, <1>3
  <2>4. p \in ProperAfter(e, i)
    BY <1>3, <1>5, <2>1, <2>2, <2>3, MakeProper
  <2> QED BY <2>1, <2>2, <2>4
<1>12. Grounds(e, f, base, {})
  <2>1. Grounds(e, f, Step(e), {})
    BY <1>1, PlainGrounds
  <2> QED BY <2>1 DEF base
<1>13. Alone(e)
  BY <1>1, <1>9, StepAlone DEF PeersStep
<1>14. Self(e, f, {})
  <2>1. Arrived(e, f) \notin Accepts
    BY <1>2, Kinds
  <2> QED BY <1>1, <1>3, <2>1, SelfKept
<1>15. Closing(e, f, {})
  BY DEF Closing
<1>16. Act(e, f, {}, r.to, {}) /\ Adds(e, base.peers, players, pk, {}, r.to)
  <2> HIDE DEF players
  <2>1. Speech(e, f, {}, base, players, pk, {src}, {}, r)
    BY <1>2, <1>3, <1>4, <1>6, <1>9, <1>10, <1>11, <1>12, <1>13, <1>14, <1>15 DEF Speech
  <2> QED BY <2>1, SpeechAct
<1>17. Counts(e, f, r.to)
  <2> HIDE DEF players
  <2> QED BY <1>1, <1>4, <1>11, <1>16, CountsSame
<1>18. Heard(e, f, {})
  <2>1. Arrived(e, f) \notin TurnPackets
    BY <1>2, Kinds
  <2> QED BY <1>1, <2>1 DEF Heard
<1> QED BY <1>16, <1>17, <1>18 DEF Acts

\* Who waits for the first turn holds none back.
LEMMA AwaitingHoldsNone ==
    ASSUME Typed, InvS, NEW e \in Programs, awaiting[e], NEW i \in Slots
    PROVE  Among(peers[e][i].sendQueue, TurnPackets) = <<>>
<1> DEFINE S == HeldFor(e, i)
           q == peers[e][i].sendQueue
<1>1. S \in SUBSET Packets /\ q \in Seq(S) /\ S \cap TurnPackets = {}
  BY Kinds DEF HeldFor, Proper, InvS
<1> HIDE DEF S, q
<1>2. Among(q, TurnPackets) = <<>>
  BY <1>1, AmongNone
<1> QED BY <1>2 DEF q

LEMMA ReceiveTurnActs ==
    ASSUME Typed, Typed', InvK, InvS, InvI, InvA, InvQ, NEW e \in Programs, NEW f \in Programs \ {e},
           ReceiveTurn(e, f)
    PROVE  Acts(e)
<1> DEFINE self == plr_self[e]
           src == Arrived(e, f).src
           base == Step(e)
           p == Turn(self, PLR_BROADCAST, 1)
           pk == [i \in Slots |-> p]
           players == IF awaiting[e] THEN Slots ELSE {}
           s == IF awaiting[e] THEN Broadcast(base, p) ELSE FirstTurn(e, base, src)
           r == DrainSendQueue(s, src)
<1>1. /\ Arrives(e, f, "PT_TURN") /\ IsFromPlayer(e, f) /\ FinishReceive(e, f, r) /\ plr_self' = plr_self
      /\ firstpeer' = firstpeer /\ isConnected' = [isConnected EXCEPT ![e] = @ \cup {src}]
      /\ awaiting' = [awaiting EXCEPT ![e] = FALSE]
      /\ got' = [got EXCEPT ![e][f] = Arrived(e, f).turn]
      /\ sent' = IF awaiting[e] THEN [sent EXCEPT ![e] = 1] ELSE sent
      /\ gone' = gone /\ crossed' = crossed /\ taken' = taken
  BY DEF ReceiveTurn
<1>2. Gets(e, f) /\ e \notin gone /\ Arrived(e, f) \in TurnPackets /\ Arrived(e, f) \in Held /\ Arrived(e, f) \in Game
  BY <1>1, ArrivesGets, Kinds
<1>3. Joined(e) /\ self \in Slots /\ src \in Slots /\ peers[e][src].endpoint = <<f>> /\ self = plr_self[e]
  <2>1. Joined(e)
    BY <1>1, <1>2, HeldArrives
  <2> QED BY <1>1, <2>1, FromPlayer DEF Joined
<1>4. base \in Steps /\ Sole(base.peers) /\ Silent(base) /\ base.peers = peers[e] /\ base = Step(e)
  BY TableSole
<1>30. src \in isConnected[e]
  <2>1. <<f>> # NoEndpoint
    BY ConnectionTypes
  <2> QED BY <1>3, <2>1 DEF InvK, TableOk
<1>31. FirstTurn(e, base, src) = base
  BY <1>30 DEF FirstTurn
<1> HIDE DEF base, self, src
<1>5. /\ p \in Game /\ p \in TurnPackets /\ p \in Held /\ p \notin Farewells
      /\ p.src = self /\ p.dst = PLR_BROADCAST /\ p.turn = 1
  <2>1. 1 \in 0 .. MaxTurn /\ PLR_BROADCAST \in Slots \cup {PLR_BROADCAST}
    BY Numbers
  <2> QED BY <1>3, <2>1, SlotTurns, SMTT(30)
<1> HIDE DEF p
<1>6. pk \in [Slots -> Game] /\ \A i \in Slots : pk[i] = p
  BY <1>5
<1>7. Spoken(base, players, pk, {}, s)
  <2>1. CASE awaiting[e]
    <3> DEFINE t == Broadcast(base, p)
    <3>1. SentTo(base, Slots, pk, N, t)
      BY <1>4, <1>5, BroadcastSends
    <3> HIDE DEF pk, t
    <3>2. Spoken(base, Slots, pk, {}, t)
      BY <1>4, <1>6, <3>1, SentSpoken
    <3> QED BY <2>1, <3>2 DEF t
  <2>2. CASE ~ awaiting[e]
    <3>1. Spoken(base, {}, pk, {}, base)
      BY <1>4, NoneSpoken
    <3> QED BY <1>31, <2>2, <3>1
  <2> QED BY <2>1, <2>2
<1> HIDE DEF pk, s
<1>8. Spoken(base, players, pk, {src}, r) /\ r \in Steps
  <2> HIDE DEF players
  <2>1. Spoken(base, players, pk, {src}, r)
    BY <1>3, <1>4, <1>6, <1>7, DrainSpoken
  <2> QED BY <2>1 DEF Spoken
<1> HIDE DEF r
<1>9. Move(e, f, {}, r.to) /\ PeersStep(e, r.peers)
  BY <1>1, <1>2, <1>8, ReceiveMove
<1>10. Outcome(e, base, players, pk, {src}, {}, r)
  BY <1>8, <1>9 DEF Outcome, PeersStep
<1>32. /\ awaiting'[e] = FALSE /\ sent'[e] = IF awaiting[e] THEN 1 ELSE sent[e]
       /\ plr_self'[e] = self /\ taken'[e] = taken[e]
       /\ \A x \in Programs \ {e} : /\ isConnected'[x] = isConnected[x] /\ awaiting'[x] = awaiting[x]
                                     /\ sent'[x] = sent[x] /\ got'[x] = got[x] /\ taken'[x] = taken[x]
       /\ \A i \in Slots : i \in isConnected[e] => i \in isConnected'[e]
       /\ got'[e][f] = Arrived(e, f).turn /\ \A y \in Programs \ {f} : got'[e][y] = got[e][y]
  BY <1>1, <1>3 DEF Typed
<1>11. ASSUME NEW i \in Slots, i \in players PROVE pk[i] \in ProperAfter(e, i)
  <2>1. pk[i] = p
    BY <1>6
  <2>2. p \in ProperAfter(e, i)
    BY <1>3, <1>5, <1>32, MakeProper
  <2> QED BY <2>1, <2>2
<1>12. Grounds(e, f, base, {})
  <2>1. Grounds(e, f, Step(e), {})
    BY <1>1, <1>32, PlainGrounds
  <2> QED BY <2>1 DEF base
<1>13. Alone(e)
  BY <1>1, <1>9, <1>32, StepAlone DEF PeersStep
<1>14. Self(e, f, {})
  <2>1. Arrived(e, f) \notin Accepts
    BY <1>2, Kinds
  <2> QED BY <1>1, <1>2, <1>3, <1>32, <2>1, SelfKept
<1>15. Closing(e, f, {})
  BY DEF Closing
<1>16. Act(e, f, {}, r.to, {}) /\ Adds(e, base.peers, players, pk, {}, r.to)
  <2> HIDE DEF players
  <2>1. Speech(e, f, {}, base, players, pk, {src}, {}, r)
    BY <1>2, <1>3, <1>4, <1>6, <1>9, <1>10, <1>11, <1>12, <1>13, <1>14, <1>15 DEF Speech
  <2> QED BY <2>1, SpeechAct
<1>17. Counts(e, f, r.to)
  <2>1. CASE awaiting[e]
    <3> SUFFICES ASSUME NEW y \in Programs \ {e}, NEW i \in Slots, KnowsAt(e, y, i)'
                 PROVE  FirstOfTurns(e, f, y, i, r.to)
      BY DEF Counts
    <3>1. Queues(e, y, i, r.to) = Append(Among(peers[e][i].sendQueue, TurnPackets), p)
      BY <1>4, <1>5, <1>6, <1>16, <2>1 DEF Adds
    <3>2. Among(peers[e][i].sendQueue, TurnPackets) = <<>>
      BY <2>1, AwaitingHoldsNone
    <3>3. Append(<<>>, p) = <<p>>
      OBVIOUS
    <3> QED BY <1>5, <1>32, <2>1, <3>1, <3>2, <3>3 DEF FirstOfTurns
  <2>2. CASE ~ awaiting[e]
    <3>1. \A i \in Slots : i \in players => pk[i] \notin TurnPackets
      BY <2>2
    <3> HIDE DEF players
    <3> QED BY <1>4, <1>16, <1>32, <2>2, <3>1, CountsSame
  <2> QED BY <2>1, <2>2
<1>18. Heard(e, f, {})
  BY <1>2, <1>32 DEF Heard
<1> QED BY <1>16, <1>17, <1>18 DEF Acts

\* A step that says nothing.
NoLetters == [f \in Programs |-> <<>>]
QuietWires(e, g, others) == \A c \in Connections : \A x \in Ends(c) : wire'[c][x] =
    IF x = e /\ \E h \in others : fd[e][h] = c THEN <<>>
    ELSE IF x = e /\ g # e /\ c = fd[e][g] THEN Tail(wire[c][x]) ELSE wire[c][x]
Hush(e, g, others) ==
    /\ \A f \in Programs : fd'[e][f] = IF f \in others THEN NoConnection ELSE fd[e][f]
    /\ \A x \in Programs \ {e} : fd'[x] = fd[x]
    /\ backlog' = backlog /\ crossed' = crossed /\ gone' = gone
    /\ \A f \in Programs : send_queue'[e][f] = IF f \in others THEN <<>> ELSE send_queue[e][f]
    /\ \A x \in Programs \ {e} : send_queue'[x] = send_queue[x]
    /\ QuietWires(e, g, others)

LEMMA QuietMove ==
    ASSUME Typed, InvW, NEW e \in Programs, e \notin gone, NEW g \in Programs, g # e => Gets(e, g),
           NEW others \in SUBSET Programs, Hush(e, g, others)
    PROVE  Move(e, g, others, NoLetters)
<1> USE DEF Hush
<1>1. ASSUME NEW f \in Programs \ {e}, NEW h \in others, fd[e][h] \in {<<e, f>>, <<f, e>>} PROVE h = f
  <2>1. h \in Programs
    OBVIOUS
  <2>2. <<e, f>> # NoConnection /\ <<f, e>> # NoConnection
    BY PairTypes
  <2>3. fd[e][h] \in {<<e, h>>, <<h, e>>}
    BY <1>1, <2>1, <2>2, FdShape
  <2>4. \A a, b, c, d : <<a, b>> = <<c, d>> => a = c /\ b = d
    BY ConnectionTypes
  <2> QED BY <1>1, <2>3, <2>4
<1>2. NoLetters \in Letters
  BY StepType DEF NoLetters, Steps, Step
<1>3. \A y \in Programs : NoLetters[y] = <<>>
  BY DEF NoLetters
<1>4. ASSUME NEW y \in Programs \ {e} PROVE SendLanes(e, y, others, <<>>) /\ ReceiveLanes(e, y, g, others)
  <2>1. /\ <<e, y>> \in Connections /\ <<y, e>> \in Connections
        /\ e \in Ends(<<e, y>>) /\ y \in Ends(<<e, y>>) /\ e \in Ends(<<y, e>>) /\ y \in Ends(<<y, e>>)
        /\ <<e, y>> # NoConnection /\ <<y, e>> # NoConnection
    BY PairTypes
  <2>2. L1(e, y) \in Seq(Packets) /\ L2(e, y) \in Seq(Packets) /\ L3(e, y) \in Seq(Packets)
    BY LanesTyped
  <2>3. L1(e, y) \o <<>> = L1(e, y) /\ L2(e, y) \o <<>> = L2(e, y) /\ L3(e, y) \o <<>> = L3(e, y)
    <3> DEFINE a == L1(e, y)
               b == L2(e, y)
               c == L3(e, y)
    <3> HIDE DEF a, b, c
    <3>1. a \o <<>> = a /\ b \o <<>> = b /\ c \o <<>> = c
      BY <2>2 DEF a, b, c
    <3> QED BY <3>1 DEF a, b, c
  <2>4. L1(e, y)' = L1(e, y) /\ L2(e, y)' = L2(e, y)
    BY <2>1 DEF QuietWires, L1, L2
  <2>5. L3(e, y)' = IF y \in others THEN <<>> ELSE L3(e, y)
    BY DEF L3
  <2>6. fd[e][y] # NoConnection => L3(e, y) = <<>>
    BY DEF InvW, LinkW
  <2>7. SendLanes(e, y, others, <<>>)
    BY <2>3, <2>4, <2>5, <2>6 DEF SendLanes
  <2>8. L3(y, e)' = L3(y, e)
    BY DEF L3
  <2>9. g # e => fd[e][g] \in {<<e, g>>, <<g, e>>}
    BY FdShape DEF Gets
  <2>10. L1(y, e)' = Taken(e, y, g, others, <<y, e>>, L1(y, e))
    <3>1. (\E h \in others : fd[e][h] = <<y, e>>) <=> y \in others /\ fd[e][y] = <<y, e>>
      BY <1>1
    <3>2. (g # e /\ <<y, e>> = fd[e][g]) <=> (y = g /\ fd[e][y] = <<y, e>>)
      BY <2>9
    <3> QED BY <2>1, <3>1, <3>2 DEF QuietWires, L1, Taken
  <2>11. L2(y, e)' = Taken(e, y, g, others, <<e, y>>, L2(y, e))
    <3>1. (\E h \in others : fd[e][h] = <<e, y>>) <=> y \in others /\ fd[e][y] = <<e, y>>
      BY <1>1
    <3>2. (g # e /\ <<e, y>> = fd[e][g]) <=> (y = g /\ fd[e][y] = <<e, y>>)
      BY <2>9
    <3> QED BY <2>1, <3>1, <3>2 DEF QuietWires, L2, Taken
  <2> QED BY <2>7, <2>8, <2>10, <2>11 DEF ReceiveLanes
<1>5. ASSUME NEW x \in Programs \ {e}, NEW y \in Programs \ {e, x} PROVE SameLanes(x, y)
  <2>1. /\ <<x, y>> \in Connections /\ <<y, x>> \in Connections /\ y \in Ends(<<x, y>>) /\ y \in Ends(<<y, x>>)
    BY PairTypes
  <2> QED BY <2>1 DEF QuietWires, SameLanes, L1, L2, L3
<1> QED BY <1>2, <1>3, <1>4, <1>5 DEF Move

LEMMA SomePackets == \E pk : pk \in [Slots -> Game]
<1> DEFINE p == Turn(0, PLR_BROADCAST, 0)
<1>1. p \in Game
  <2>1. 0 \in Slots /\ PLR_BROADCAST \in Slots \cup {PLR_BROADCAST} /\ 0 \in 0 .. MaxTurn
    BY Numbers
  <2> QED BY <2>1, SlotTurns
<1> HIDE DEF p
<1>2. [i \in Slots |-> p] \in [Slots -> Game]
  BY <1>1
<1> QED BY <1>2

\* A step of e in which it says nothing, but may lose players.
LEMMA SilentAct ==
    ASSUME Typed, Typed', InvK, InvS, NEW e \in Programs, NEW g \in Programs, NEW lost, NEW others,
           \A i \in Slots : peers'[e][i] = IF i \in lost THEN NoPeer ELSE peers[e][i],
           Grounds(e, g, Step(e), lost), Alone(e), Self(e, g, {}), Closing(e, g, others),
           Move(e, g, others, NoLetters),
           sent'[e] = sent[e], awaiting[e] => awaiting'[e], taken'[e] = taken[e]
    PROVE  Act(e, g, others, NoLetters, {}) /\ Counts(e, g, NoLetters)
<1> DEFINE base == Step(e)
<1>1. base \in Steps /\ Sole(base.peers) /\ Silent(base) /\ base.peers = peers[e] /\ base.to = NoLetters
  BY TableSole DEF Step, NoLetters
<1>2. Grounds(e, g, base, lost)
  OBVIOUS
<1> HIDE DEF base
<1>3. PICK pk : pk \in [Slots -> Game]
  BY SomePackets
<1>4. Spoken(base, {}, pk, {}, base)
  BY <1>1, NoneSpoken
<1>5. Outcome(e, base, {}, pk, {}, lost, base)
  BY <1>1, <1>4 DEF Outcome
<1>6. Speech(e, g, others, base, {}, pk, {}, lost, base)
  BY <1>1, <1>2, <1>3, <1>5 DEF Speech
<1>7. Act(e, g, others, NoLetters, {}) /\ Adds(e, peers[e], {}, pk, lost, NoLetters)
  BY <1>1, <1>6, SpeechAct
<1>8. Counts(e, g, NoLetters)
  BY <1>7, CountsSame
<1> QED BY <1>7, <1>8

LEMMA LosesPlayer ==
    ASSUME Typed, InvK, NEW e \in Programs, NEW player \in Slots, NEW y \in Programs,
           peers[e][player].endpoint = <<y>>,
           \A i \in Slots : peers'[e][i] = NoPeer \/ (i # player /\ peers'[e][i].endpoint = peers[e][i].endpoint)
    PROVE  Met(e, y) /\ ~ Met(e, y)'
<1>1. <<y>> # NoEndpoint
  BY ConnectionTypes
<1>2. Sole(peers[e])
  BY TableSole
<1>3. ASSUME NEW i \in Slots, peers'[e][i].endpoint = <<y>> PROVE FALSE
  <2>3. NoPeer.endpoint = NoEndpoint
    BY DEF NoPeer
  <2>4. peers'[e][i] # NoPeer
    BY <1>1, <1>3, <2>3
  <2>1. i # player /\ peers[e][i].endpoint = <<y>>
    BY <1>3, <2>4
  <2> QED BY <1>1, <1>2, <2>1 DEF Sole
<1> QED BY <1>3 DEF Met, KnowsAt, Slots

LEMMA DisconnectedActs ==
    ASSUME Typed, Typed', InvK, InvS, InvW, NEW e \in Programs, NEW f \in Programs \ {e}, Disconnected(e, f)
    PROVE  Acts(e)
<1> DEFINE c == fd[e][f]
<1>1. /\ e \notin gone /\ c # NoConnection /\ c \notin backlog /\ fd[f][e] # c /\ wire[c][e] = <<>>
      /\ fd' = ClosedFds(e, {f}) /\ send_queue' = ClosedQueues(e, {f})
      /\ plr_self' = plr_self /\ firstpeer' = firstpeer /\ isConnected' = isConnected /\ awaiting' = awaiting
      /\ sent' = sent /\ got' = got /\ backlog' = backlog /\ wire' = wire
      /\ gone' = gone /\ crossed' = crossed /\ taken' = taken
  BY DEF Disconnected, turnVars
<1>2. PICK player \in Slots : peers[e][player].endpoint = <<f>> /\ peers' = [peers EXCEPT ![e][player] = NoPeer]
  BY DEF Disconnected
<1>3. /\ \A x \in Programs \ {e} : peers'[x] = peers[x]
      /\ \A i \in Slots : peers'[e][i] = IF i \in {player} THEN NoPeer ELSE peers[e][i]
  BY <1>2 DEF Typed, PeerTables
<1>4. /\ \A x \in Programs : fd'[e][x] = IF x \in {f} THEN NoConnection ELSE fd[e][x]
      /\ \A x \in Programs \ {e} : fd'[x] = fd[x]
      /\ \A x \in Programs : send_queue'[e][x] = IF x \in {f} THEN <<>> ELSE send_queue[e][x]
      /\ \A x \in Programs \ {e} : send_queue'[x] = send_queue[x]
  <2>1. IsWires(wire)
    BY DEF Typed
  <2>2. Closes(e, {f}, wire)
    BY <2>1, ClosedShape
  <2> QED BY <1>1, <2>2 DEF Closes
<1>5. QuietWires(e, e, {f})
  <2>1. \A d \in Connections : \A x \in Ends(d) :
            x = e /\ (\E h \in {f} : fd[e][h] = d) => wire[d][x] = <<>>
    BY <1>1
  <2> QED BY <1>1, <2>1 DEF QuietWires
<1>6. Move(e, e, {f}, NoLetters)
  <2>1. {f} \in SUBSET Programs
    OBVIOUS
  <2>2. Hush(e, e, {f})
    BY <1>1, <1>4, <1>5 DEF Hush
  <2> QED BY <1>1, <2>1, <2>2, QuietMove
<1>7. Closing(e, e, {f})
  <2>1. \A i \in Slots : peers'[e][i] = NoPeer \/ (i # player /\ peers'[e][i].endpoint = peers[e][i].endpoint)
    BY <1>3
  <2>2. Met(e, f) /\ ~ Met(e, f)'
    BY <1>2, <2>1, LosesPlayer
  <2> QED BY <2>2 DEF Closing
<1>8. Grounds(e, e, Step(e), {player})
  BY <1>1, PlainGrounds
<1>9. Alone(e)
  BY <1>1, <1>3, StepAlone
<1>10. Self(e, e, {})
  <2>1. ~ Joined(e) => awaiting'[e]
    BY <1>1 DEF InvK, TableOk
  <2> QED BY <1>1, <2>1, SelfKept
<1>11. Act(e, e, {f}, NoLetters, {}) /\ Counts(e, e, NoLetters)
  BY <1>1, <1>3, <1>6, <1>7, <1>8, <1>9, <1>10, SilentAct
<1>12. Heard(e, e, {f})
  BY <1>1 DEF Heard
<1> QED BY <1>11, <1>12 DEF Acts

LEMMA IgnoreActs ==
    ASSUME Typed, Typed', InvK, InvS, InvW, NEW e \in Programs, NEW f \in Programs \ {e}, Ignore(e, f)
    PROVE  Acts(e)
<1> DEFINE p == Arrived(e, f)
<1>1. /\ e \notin gone /\ fd[e][f] # NoConnection /\ wire[fd[e][f]][e] # <<>> /\ wire' = Rest(e, f)
      /\ plr_self' = plr_self /\ firstpeer' = firstpeer /\ isConnected' = isConnected /\ awaiting' = awaiting
      /\ peers' = peers /\ sent' = sent /\ got' = got /\ backlog' = backlog /\ fd' = fd
      /\ send_queue' = send_queue /\ gone' = gone /\ crossed' = crossed /\ taken' = taken
  BY DEF Ignore, gameVars, turnVars
<1>2. /\ p.type = "PT_JOIN_ACCEPT" => firstpeer[e] # <<f>>
      /\ p.type = "PT_TURN" => ~ IsFromPlayer(e, f)
  <2> HIDE DEF p
  <2>1. (CASE p.type = "PT_JOIN_REQUEST" -> FreeSlots(e) = {}
          [] p.type = "PT_CONNECT" -> ~IsRecognized(e, f)
          [] p.type = "PT_JOIN_ACCEPT" -> firstpeer[e] # <<f>>
          [] OTHER -> ~IsFromPlayer(e, f))
    BY DEF Ignore, p
  <2> QED BY <2>1
<1>3. Gets(e, f) /\ p \in Packets /\ p \in Flying(f, e)
  <2>1. Gets(e, f)
    BY <1>1 DEF Gets
  <2> QED BY <2>1, ArrivedCounts
<1>4. p \notin Accepts
  <2> SUFFICES ASSUME p \in Accepts PROVE FALSE
    OBVIOUS
  <2>1. SentByPlayer(f, e, p)
    BY <1>3, GameFlying
  <2>2. p.type = "PT_JOIN_ACCEPT"
    BY DEF Accepts
  <2> QED BY <1>2, <2>1, <2>2 DEF SentByPlayer
<1>5. QuietWires(e, f, {})
  <2>1. /\ Rest(e, f)[fd[e][f]][e] = Tail(wire[fd[e][f]][e])
        /\ \A c \in Connections : \A x \in Ends(c) :
               (c # fd[e][f] \/ x # e) => Rest(e, f)[c][x] = wire[c][x]
    BY <1>1, RestShape
  <2> QED BY <1>1, <2>1 DEF QuietWires
<1>6. Move(e, f, {}, NoLetters)
  <2>2. Hush(e, f, {})
    BY <1>1, <1>5 DEF Hush
  <2> QED BY <1>1, <1>3, <2>2, QuietMove
<1>7. Closing(e, f, {})
  BY DEF Closing
<1>8. Grounds(e, f, Step(e), {})
  BY <1>1, PlainGrounds
<1>9. Alone(e)
  BY <1>1, StepAlone
<1>10. Self(e, f, {})
  <2>1. ~ Joined(e) => awaiting'[e]
    BY <1>1 DEF InvK, TableOk
  <2> QED BY <1>1, <1>4, <2>1, SelfKept
<1>13. \A i \in Slots : peers'[e][i] = IF i \in {} THEN NoPeer ELSE peers[e][i]
  BY <1>1
<1>11. Act(e, f, {}, NoLetters, {}) /\ Counts(e, f, NoLetters)
  BY <1>1, <1>6, <1>7, <1>8, <1>9, <1>10, <1>13, SilentAct
<1>12. Heard(e, f, {})
  <2>1. p \in TurnPackets => p.type = "PT_TURN"
    BY DEF TurnPackets
  <2> QED BY <1>1, <1>2, <2>1 DEF Heard
<1> QED BY <1>11, <1>12 DEF Acts

LEMMA FarewellArrives ==
    ASSUME Typed, InvS, InvI, InvA, InvQ, NEW e \in Programs, NEW f \in Programs \ {e}, ReceiveDisconnect(e, f)
    PROVE  /\ Gets(e, f) /\ e \notin gone /\ Arrived(e, f) \in Flying(f, e)
           /\ Arrived(e, f) \in Farewells /\ Arrived(e, f) \in Game /\ Arrived(e, f) \notin TurnPackets
           /\ Arrived(e, f) \notin Accepts
           /\ Joined(e) /\ plr_self[e] \in Slots /\ Arrived(e, f).src \in Slots /\ Arrived(e, f).player \in Slots
           /\ peers[e][Arrived(e, f).src].endpoint = <<f>>
           /\ plr_self' = plr_self /\ firstpeer' = firstpeer /\ awaiting' = awaiting /\ sent' = sent
           /\ gone' = gone /\ crossed' = crossed /\ taken' = taken
<1>1. /\ Arrives(e, f, "PT_DISCONNECT") /\ IsFromPlayer(e, f)
      /\ plr_self' = plr_self /\ firstpeer' = firstpeer /\ awaiting' = awaiting /\ sent' = sent
      /\ gone' = gone /\ crossed' = crossed /\ taken' = taken
  BY DEF ReceiveDisconnect
<1>2. /\ Gets(e, f) /\ e \notin gone /\ Arrived(e, f) \in Flying(f, e) /\ Arrived(e, f) \in Farewells
  BY <1>1, ArrivesGets
<1>3. /\ Arrived(e, f) \in Game /\ Arrived(e, f) \in Held /\ Arrived(e, f) \notin TurnPackets
      /\ Arrived(e, f) \notin Accepts
  BY <1>2, Kinds
<1>4. Joined(e) /\ plr_self[e] \in Slots
  <2>1. Joined(e)
    BY <1>2, <1>3, HeldArrives
  <2> QED BY <2>1 DEF Joined
<1>5. Arrived(e, f).src \in Slots /\ Arrived(e, f).player \in Slots
      /\ peers[e][Arrived(e, f).src].endpoint = <<f>>
  BY <1>1, FromPlayer, SlotOfPacket
<1> QED BY <1>1, <1>2, <1>3, <1>4, <1>5

\* A program that is told of itself closes one connection, and says nothing.
LEMMA HangUpActs ==
    ASSUME Typed, Typed', InvK, InvS, InvI, InvA, InvQ, InvW, NEW e \in Programs, NEW f \in Programs \ {e},
           ReceiveDisconnect(e, f), Arrived(e, f).player = plr_self[e]
    PROVE  Acts(e)
<1>1. /\ Gets(e, f) /\ e \notin gone /\ Arrived(e, f) \in Farewells /\ Arrived(e, f) \notin TurnPackets
      /\ Arrived(e, f) \notin Accepts /\ Joined(e) /\ Arrived(e, f).src \in Slots
      /\ peers[e][Arrived(e, f).src].endpoint = <<f>>
      /\ plr_self' = plr_self /\ firstpeer' = firstpeer /\ awaiting' = awaiting /\ sent' = sent
      /\ gone' = gone /\ crossed' = crossed /\ taken' = taken
  BY FarewellArrives
<1>2. /\ fd' = ClosedFds(e, {f}) /\ wire' = ClosedWires(e, {f}, wire) /\ send_queue' = ClosedQueues(e, {f})
      /\ peers' = peers /\ isConnected' = isConnected /\ got' = got /\ backlog' = backlog
  BY DEF ReceiveDisconnect
<1>3. Closes(e, {f}, wire)
  BY ClosedShape DEF Typed
<1>4. /\ \A x \in Programs : fd'[e][x] = IF x \in {f} THEN NoConnection ELSE fd[e][x]
      /\ \A x \in Programs \ {e} : fd'[x] = fd[x]
      /\ \A x \in Programs : send_queue'[e][x] = IF x \in {f} THEN <<>> ELSE send_queue[e][x]
      /\ \A x \in Programs \ {e} : send_queue'[x] = send_queue[x]
  BY <1>2, <1>3 DEF Closes
<1>5. QuietWires(e, f, {f})
  <2>1. \A c \in Connections : \A x \in Ends(c) : wire'[c][x] =
            IF x = e /\ \E h \in {f} : fd[e][h] = c THEN <<>> ELSE wire[c][x]
    BY <1>2, <1>3 DEF Closes
  <2> QED BY <2>1 DEF QuietWires
<1>6. Move(e, f, {f}, NoLetters)
  <2>1. {f} \in SUBSET Programs
    OBVIOUS
  <2>2. Hush(e, f, {f})
    BY <1>1, <1>2, <1>4, <1>5 DEF Hush
  <2> QED BY <1>1, <2>1, <2>2, QuietMove
<1>7. Closing(e, f, {f})
  <2>1. Met(e, f)
    BY <1>1 DEF Met, KnowsAt
  <2>2. HangUp(e, f, f)
    BY <1>1 DEF HangUp
  <2> QED BY <2>1, <2>2 DEF Closing
<1>8. Grounds(e, f, Step(e), {})
  BY <1>1, <1>2, PlainGrounds
<1>9. Alone(e)
  BY <1>1, <1>2, StepAlone
<1>10. Self(e, f, {})
  BY <1>1, <1>2, SelfKept
<1>11. \A i \in Slots : peers'[e][i] = IF i \in {} THEN NoPeer ELSE peers[e][i]
  BY <1>2
<1>12. Act(e, f, {f}, NoLetters, {}) /\ Counts(e, f, NoLetters)
  BY <1>1, <1>6, <1>7, <1>8, <1>9, <1>10, <1>11, SilentAct
<1>13. Heard(e, f, {f})
  BY <1>1, <1>2 DEF Heard
<1> QED BY <1>12, <1>13 DEF Acts

\* What is held back for the sender of a packet is sent, or kept.
DrainedOf(drained, src, s) == IF drained = {} THEN s ELSE DrainSendQueue(s, src)

LEMMA DrainedSpoken ==
    ASSUME Typed, InvK, NEW e \in Programs, NEW src \in Slots, NEW drained \in {{}, {src}},
           NEW pk \in [Slots -> Game]
    PROVE  /\ Spoken(Step(e), {}, pk, drained, DrainedOf(drained, src, Step(e)))
           /\ DrainedOf(drained, src, Step(e)) \in Steps
<1>1. Step(e) \in Steps /\ Sole(Step(e).peers) /\ Silent(Step(e))
  BY TableSole
<1>2. Spoken(Step(e), {}, pk, {}, Step(e))
  BY <1>1, NoneSpoken
<1>3. Spoken(Step(e), {}, pk, {src}, DrainSendQueue(Step(e), src))
  BY <1>1, <1>2, DrainSpoken
<1>4. Spoken(Step(e), {}, pk, drained, DrainedOf(drained, src, Step(e)))
  BY <1>2, <1>3 DEF DrainedOf
<1> QED BY <1>4 DEF Spoken

LEMMA FarewellIgnored ==
    ASSUME Typed, Typed', InvK, InvS, InvI, InvA, InvQ, NEW e \in Programs, NEW f \in Programs \ {e},
           ReceiveDisconnect(e, f), Arrived(e, f).player # plr_self[e],
           Arrived(e, f).player \notin isConnected[e]
    PROVE  Acts(e)
<1> DEFINE src == Arrived(e, f).src
           base == Step(e)
           r == DrainSendQueue(base, src)
<1>1. /\ Gets(e, f) /\ e \notin gone /\ Arrived(e, f) \in Game /\ Arrived(e, f) \notin TurnPackets
      /\ Arrived(e, f) \notin Accepts /\ Joined(e) /\ src \in Slots /\ peers[e][src].endpoint = <<f>>
      /\ plr_self' = plr_self /\ firstpeer' = firstpeer /\ awaiting' = awaiting /\ sent' = sent
      /\ gone' = gone /\ crossed' = crossed /\ taken' = taken
  BY FarewellArrives
<1>2. FinishReceive(e, f, r) /\ isConnected' = isConnected /\ got' = got
  BY DEF ReceiveDisconnect
<1>3. base \in Steps /\ Sole(base.peers) /\ Silent(base) /\ base.peers = peers[e] /\ base = Step(e)
  BY TableSole
<1>4. PICK pk : pk \in [Slots -> Game]
  BY SomePackets
<1>5. Spoken(base, {}, pk, {src}, r) /\ r \in Steps
  <2>1. {src} # {} /\ {src} \in {{}, {src}}
    OBVIOUS
  <2>2. DrainedOf({src}, src, base) = r
    BY <2>1 DEF DrainedOf
  <2> HIDE DEF src, r
  <2>3. Spoken(base, {}, pk, {src}, DrainedOf({src}, src, base)) /\ DrainedOf({src}, src, base) \in Steps
    BY <1>1, <1>4, <2>1, DrainedSpoken
  <2> QED BY <2>2, <2>3
<1> HIDE DEF base, src, r
<1>6. Move(e, f, {}, r.to) /\ PeersStep(e, r.peers)
  BY <1>1, <1>2, <1>5, ReceiveMove
<1>7. Outcome(e, base, {}, pk, {src}, {}, r)
  BY <1>5, <1>6 DEF Outcome, PeersStep
<1>8. Grounds(e, f, base, {})
  <2>1. Grounds(e, f, Step(e), {})
    BY <1>1, <1>2, PlainGrounds
  <2> QED BY <2>1 DEF base
<1>9. Alone(e)
  BY <1>1, <1>2, <1>6, StepAlone DEF PeersStep
<1>10. Self(e, f, {})
  BY <1>1, <1>2, SelfKept
<1>11. Closing(e, f, {})
  BY DEF Closing
<1>12. Act(e, f, {}, r.to, {}) /\ Adds(e, base.peers, {}, pk, {}, r.to)
  <2>1. Speech(e, f, {}, base, {}, pk, {src}, {}, r)
    BY <1>1, <1>3, <1>4, <1>6, <1>7, <1>8, <1>9, <1>10, <1>11 DEF Speech
  <2> QED BY <2>1, SpeechAct
<1>13. Counts(e, f, r.to)
  <2> DEFINE none == {}
             lost == {}
  <2>1. Adds(e, peers[e], none, pk, lost, r.to) /\ \A i \in Slots : i \in none => pk[i] \notin TurnPackets
    BY <1>3, <1>12
  <2> HIDE DEF none, lost
  <2>2. sent'[e] = sent[e] /\ (awaiting[e] => awaiting'[e]) /\ taken'[e] = taken[e]
    BY <1>1
  <2> QED BY <2>1, <2>2, CountsSame
<1>14. Heard(e, f, {})
  BY <1>1, <1>2 DEF Heard
<1> QED BY <1>12, <1>13, <1>14 DEF Acts

LEMMA FarewellForgets ==
    ASSUME Typed, Typed', InvK, InvS, InvI, InvA, InvQ, NEW e \in Programs, NEW f \in Programs \ {e},
           ReceiveDisconnect(e, f), Arrived(e, f).player # plr_self[e],
           Arrived(e, f).player \in isConnected[e]
    PROVE  Acts(e)
<1> DEFINE src == Arrived(e, f).src
           player == Arrived(e, f).player
           base == Step(e)
           drained == IF src = player THEN {} ELSE {src}
           r == DrainedOf(drained, src, base)
           others == Reached(peers[e][player].endpoint)
<1>1. /\ Gets(e, f) /\ e \notin gone /\ Arrived(e, f) \in Game /\ Arrived(e, f) \notin TurnPackets
      /\ Arrived(e, f) \notin Accepts /\ Joined(e) /\ src \in Slots /\ peers[e][src].endpoint = <<f>>
      /\ player \in Slots
      /\ plr_self' = plr_self /\ firstpeer' = firstpeer /\ awaiting' = awaiting /\ sent' = sent
      /\ gone' = gone /\ crossed' = crossed /\ taken' = taken
  BY FarewellArrives
<1>2. ForgetPlayer(e, player, Rest(e, f), r)
  <2>1. r = IF src = player THEN base ELSE DrainSendQueue(base, src)
    BY DEF DrainedOf
  <2>2. ForgetPlayer(e, player, Rest(e, f), IF src = player THEN base ELSE DrainSendQueue(base, src))
    BY DEF ReceiveDisconnect
  <2> QED BY <2>1, <2>2
<1>3. base \in Steps /\ Sole(base.peers) /\ Silent(base) /\ base.peers = peers[e] /\ base = Step(e)
  BY TableSole
<1>4. PICK pk : pk \in [Slots -> Game]
  BY SomePackets
<1>22. drained \in {{}, {src}} /\ player \notin drained /\ \A i \in drained : i = src
  OBVIOUS
<1> HIDE DEF base, src, player, drained
<1>5. Spoken(base, {}, pk, drained, r) /\ r \in Steps
  <2>1. Spoken(Step(e), {}, pk, drained, DrainedOf(drained, src, Step(e)))
        /\ DrainedOf(drained, src, Step(e)) \in Steps
    <3>1. src \in Slots /\ drained \in {{}, {src}}
      BY <1>1, <1>22
    <3> QED BY <1>4, <3>1, DrainedSpoken
  <2> QED BY <1>3, <2>1
<1> HIDE DEF r
<1>20. \A y \in others : y \in Programs /\ peers[e][player].endpoint = <<y>>
  BY DEF Reached
<1>21. ASSUME NEW y \in others PROVE r.to[y] = <<>>
  <2>3. base.peers[player].endpoint = <<y>> /\ y \in Programs /\ player \in Slots /\ player \notin drained
    BY <1>1, <1>3, <1>20, <1>22
  <2>4. r.to[y] = AtOnce(base, {}, pk, player) \o
                     (IF player \in drained THEN Kept(base, {}, pk, player) ELSE <<>>)
    BY <1>5, <2>3 DEF Spoken
  <2>1. r.to[y] = AtOnce(base, {}, pk, player) \o <<>>
    BY <2>3, <2>4
  <2>2. AtOnce(base, {}, pk, player) = <<>> /\ <<>> \o <<>> = <<>>
    BY DEF AtOnce
  <2> QED BY <2>1, <2>2
<1>6. Move(e, f, others, r.to) /\ PeersStep(e, [r.peers EXCEPT ![player] = NoPeer])
  <2>1. ForgetPlayer(e, player, IF f = e THEN wire ELSE Rest(e, f), r)
    BY <1>2
  <2> QED BY <1>1, <1>5, <1>21, <2>1, ForgetMove
<1>7. Outcome(e, base, {}, pk, drained, {player}, r)
  <2>1. r.peers \in [Slots -> PeerType]
    BY <1>5 DEF Steps, PeerTables
  <2> QED BY <1>5, <1>6, <1>22, <2>1 DEF Outcome, PeersStep
<1>8. Forgot(e, player, Rest(e, f), r)
  <2>1. IsWires(Rest(e, f))
    BY <1>1, RestShape DEF Gets
  <2> QED BY <1>1, <1>2, <1>5, <2>1, ForgetShape
<1>23. got' = [got EXCEPT ![e] = [h \in Programs |-> IF h \in others THEN 0 ELSE @[h]]]
       /\ isConnected' = [isConnected EXCEPT ![e] = @ \ {player}]
  BY <1>8 DEF Forgot
<1>24. \A y \in Programs : got'[e][y] = IF y \in others THEN 0 ELSE got[e][y]
  <2> HIDE DEF others
  <2> QED BY <1>23 DEF Typed
<1>25. \A i \in Slots : i \notin {player} /\ i \in isConnected[e] => i \in isConnected'[e]
  BY <1>23 DEF Typed
<1>9. Grounds(e, f, base, {player})
  <2>1. Grounds(e, f, Step(e), {player})
    BY <1>1, <1>25, PlainGrounds
  <2> QED BY <1>3, <2>1
<1>10. Alone(e)
  <2>1. \A x \in Programs \ {e} : isConnected'[x] = isConnected[x] /\ got'[x] = got[x]
    BY <1>23 DEF Typed
  <2> QED BY <1>1, <1>6, <2>1, StepAlone DEF PeersStep
<1>11. Self(e, f, {})
  BY <1>1, <1>24, SelfKept
<1>12. Closing(e, f, others)
  <2> SUFFICES ASSUME NEW y \in others PROVE y \in Programs /\ Met(e, y) /\ ~ Met(e, y)'
    BY DEF Closing
  <2>1. y \in Programs /\ peers[e][player].endpoint = <<y>>
    BY <1>20
  <2>2. ASSUME NEW i \in Slots PROVE peers'[e][i] = NoPeer \/ (i # player /\ peers'[e][i].endpoint = peers[e][i].endpoint)
    <3>1. peers'[e][i] = IF i \in {player} THEN NoPeer ELSE r.peers[i]
      BY <1>7 DEF Outcome
    <3>2. r.peers[i].endpoint = peers[e][i].endpoint
      BY <1>3, <1>5 DEF Spoken
    <3> QED BY <3>1, <3>2
  <2> QED BY <1>1, <2>1, <2>2, LosesPlayer
<1>13. \A i \in Slots : i \in drained => base.peers[i].endpoint = <<f>> /\ Arrived(e, f) \in Game \cup Accepts
  BY <1>1, <1>3, <1>22
<1>14. Act(e, f, others, r.to, {}) /\ Adds(e, base.peers, {}, pk, {player}, r.to)
  <2> HIDE DEF others
  <2>1. Speech(e, f, others, base, {}, pk, drained, {player}, r)
    BY <1>4, <1>6, <1>7, <1>9, <1>10, <1>11, <1>12, <1>13 DEF Speech
  <2> QED BY <2>1, SpeechAct
<1>15. Counts(e, f, r.to)
  <2> DEFINE none == {}
             lost == {player}
  <2>1. Adds(e, peers[e], none, pk, lost, r.to) /\ \A i \in Slots : i \in none => pk[i] \notin TurnPackets
    BY <1>3, <1>14
  <2> HIDE DEF none, lost
  <2>2. sent'[e] = sent[e] /\ (awaiting[e] => awaiting'[e]) /\ taken'[e] = taken[e]
    BY <1>1
  <2> QED BY <2>1, <2>2, CountsSame
<1>16. Heard(e, f, others)
  BY <1>1, <1>24 DEF Heard
<1> QED BY <1>14, <1>15, <1>16 DEF Acts

LEMMA ReceiveDisconnectActs ==
    ASSUME Typed, Typed', InvK, InvS, InvI, InvA, InvQ, InvW, NEW e \in Programs, NEW f \in Programs \ {e},
           ReceiveDisconnect(e, f)
    PROVE  Acts(e)
<1>1. CASE Arrived(e, f).player = plr_self[e]
  BY <1>1, HangUpActs
<1>2. CASE Arrived(e, f).player # plr_self[e] /\ Arrived(e, f).player \in isConnected[e]
  BY <1>2, FarewellForgets
<1>3. CASE Arrived(e, f).player # plr_self[e] /\ Arrived(e, f).player \notin isConnected[e]
  BY <1>3, FarewellIgnored
<1> QED BY <1>1, <1>2, <1>3

\* A new peer of e: it holds back the first turn for it, if there is one.
Newcomer(e, h, player, base) ==
    /\ base \in Steps /\ Silent(base)
    /\ \A i \in Slots \ {player} : base.peers[i] = peers[e][i]
    /\ base.peers[player].endpoint = <<h>> /\ base.peers[player].queued
    /\ base.peers[player].sendQueue =
           IF player \in isConnected[e] \/ awaiting[e] THEN <<>>
           ELSE <<Turn(plr_self[e], player, sent[e])>>

LEMMA FirstTurnBase ==
    ASSUME Typed, InvK, NEW e \in Programs, NEW h \in Programs, NEW player \in Slots
    PROVE  Newcomer(e, h, player, FirstTurn(e, [Step(e) EXCEPT !.peers[player] = QueuedPeer(<<h>>)], player))
<1> DEFINE peer == QueuedPeer(<<h>>)
           s == [Step(e) EXCEPT !.peers[player] = peer]
           t == Turn(plr_self[e], player, sent[e])
<1>1. peer \in PeerType /\ peer.endpoint = <<h>> /\ peer.queued /\ peer.sendQueue = <<>>
  <2>1. <<h>> \in Endpoints
    BY DEF Endpoints
  <2>2. peer \in PeerType
    BY <2>1, QueuedPeerType
  <2> QED BY <2>2 DEF QueuedPeer
<1>2. Step(e) \in Steps /\ Silent(Step(e)) /\ Step(e).peers = peers[e] /\ peers[e] \in PeerTables
  BY TableSole DEF Typed
<1> HIDE DEF peer
<1>3. s \in Steps /\ s.peers = [peers[e] EXCEPT ![player] = peer] /\ Silent(s)
  <2>1. s \in Steps /\ s.peers = [Step(e).peers EXCEPT ![player] = peer] /\ s.to = Step(e).to
    BY <1>1, <1>2, PutPeer
  <2> QED BY <1>2, <2>1 DEF Silent
<1>4. s.peers[player] = peer /\ \A i \in Slots \ {player} : s.peers[i] = peers[e][i]
  BY <1>2, <1>3 DEF PeerTables
<1> HIDE DEF s
<1>5. CASE player \in isConnected[e] \/ awaiting[e]
  <2>1. FirstTurn(e, s, player) = s
    BY <1>5 DEF FirstTurn
  <2>2. Newcomer(e, h, player, s)
    BY <1>1, <1>3, <1>4, <1>5 DEF Newcomer
  <2> QED BY <2>1, <2>2 DEF s, peer
<1>6. CASE ~ (player \in isConnected[e] \/ awaiting[e])
  <2> DEFINE u == SendTo(s, player, t)
  <2>1. FirstTurn(e, s, player) = u
    BY <1>6 DEF FirstTurn
  <2>2. plr_self[e] \in Slots /\ sent[e] \in 0 .. MaxTurn
    BY <1>6 DEF InvK, TableOk, Joined, Typed
  <2>3. t \in Game /\ t \in Held
    BY <2>2, SlotTurns
  <2>4. t.type \notin EchoTypes
    BY <2>3, Kinds
  <2> HIDE DEF t
  <2>5. Holds(s.peers[player], t)
    BY <1>1, <1>4, <2>4 DEF Holds
  <2>6. /\ u \in Steps /\ u.peers = [s.peers EXCEPT ![player] = HeldBack(s.peers[player], t)]
        /\ \A y \in Programs : u.to[y] = s.to[y]
    BY <1>3, <2>3, <2>5, SendToStep
  <2> HIDE DEF u
  <2>7. s.peers \in [Slots -> PeerType]
    BY <1>3 DEF Steps, PeerTables
  <2>8. u.peers[player] = HeldBack(peer, t) /\ \A i \in Slots \ {player} : u.peers[i] = peers[e][i]
    BY <1>4, <2>6, <2>7
  <2>9. HeldBack(peer, t).endpoint = <<h>> /\ HeldBack(peer, t).queued /\ HeldBack(peer, t).sendQueue = Append(<<>>, t)
    BY <1>1, <2>3, HeldBackType
  <2>10. Append(<<>>, t) = <<t>>
    OBVIOUS
  <2>11. Silent(u)
    BY <1>3, <2>6 DEF Silent
  <2>12. Newcomer(e, h, player, u)
    BY <1>6, <2>6, <2>8, <2>9, <2>10, <2>11 DEF Newcomer, t
  <2> QED BY <2>1, <2>12 DEF s, peer
<1> QED BY <1>5, <1>6

\* What e has heard of h, which it does not know yet.
Hears(e, g, h, player, base) ==
    /\ Newcomer(e, h, player, base) /\ LearntAt(e, g, h, player) /\ ~ Met(e, h)
    /\ isConnected'[e] = isConnected[e] \cup {player}
    /\ plr_self'[e] = plr_self[e] /\ awaiting'[e] = awaiting[e] /\ sent'[e] = sent[e]

LEMMA HearsGrounds ==
    ASSUME Typed, Typed', InvK, InvS, NEW e \in Programs, NEW g \in Programs, NEW h \in Programs, NEW player \in Slots,
           NEW base, Hears(e, g, h, player, base)
    PROVE  Grounds(e, g, base, {})
<1> DEFINE t == Turn(plr_self[e], player, sent[e])
<1>1. /\ base \in Steps /\ \A i \in Slots \ {player} : base.peers[i] = peers[e][i]
      /\ base.peers[player].endpoint = <<h>> /\ base.peers[player].queued
      /\ base.peers[player].sendQueue = IF player \in isConnected[e] \/ awaiting[e] THEN <<>> ELSE <<t>>
      /\ LearntAt(e, g, h, player) /\ ~ Met(e, h)
      /\ plr_self'[e] = plr_self[e] /\ awaiting'[e] = awaiting[e] /\ player \in isConnected'[e]
  BY DEF Hears, Newcomer
<1>2. /\ \A i \in Slots : i \in isConnected[e] => i \in isConnected'[e]
  BY DEF Hears
<1>3. Grounds(e, g, Step(e), {player}) /\ Step(e).peers = peers[e]
  BY <1>1, <1>2, PlainGrounds, TableSole
<1>4. <<h>> # NoEndpoint /\ \A y : <<y>> = <<h>> => y = h
  BY ConnectionTypes
<1>5. Sole(base.peers)
  <2>1. Sole(peers[e])
    BY TableSole
  <2>2. \A i \in Slots : peers[e][i].endpoint # <<h>>
    BY <1>1 DEF Met, KnowsAt
  <2>3. ASSUME NEW i \in Slots, NEW j \in Slots, base.peers[i].endpoint # NoEndpoint,
               base.peers[i].endpoint = base.peers[j].endpoint
        PROVE  i = j
    BY <1>1, <2>1, <2>2, <2>3 DEF Sole
  <2>4. \A i \in Slots : ~ base.peers[i].queued => base.peers[i].sendQueue = <<>>
    BY <1>1, <2>1 DEF Sole
  <2> QED BY <2>3, <2>4 DEF Sole
<1>6. base.peers[player].sendQueue \in Seq(HeldFor(e, player)')
  <2>1. CASE player \in isConnected[e] \/ awaiting[e]
    BY <1>1, <2>1
  <2>2. CASE ~ (player \in isConnected[e] \/ awaiting[e])
    <3>1. plr_self[e] \in Slots /\ sent[e] \in 0 .. MaxTurn /\ Joined(e)
      BY <2>2 DEF InvK, TableOk, Joined, Typed
    <3>6. player \in Slots \cup {PLR_BROADCAST}
      OBVIOUS
    <3>2. t \in Game /\ t \in Held /\ t \notin Farewells /\ t.src = plr_self[e] /\ t.dst = player
      BY <3>1, <3>6, SlotTurns
    <3> HIDE DEF t
    <3>3. t \in ProperAfter(e, player)
      <4>1. plr_self'[e] \in Slots /\ t.src = plr_self'[e] /\ ~ awaiting'[e]
        BY <1>1, <2>2, <3>1, <3>2
      <4> QED BY <3>2, <4>1, MakeProper
    <3>4. t \in HeldFor(e, player)'
      BY <3>2, <3>3, HeldForAfter
    <3>5. <<t>> \in Seq(HeldFor(e, player)')
      <4> DEFINE S == HeldFor(e, player)'
      <4> HIDE DEF S
      <4>1. t \in S
        BY <3>4 DEF S
      <4>2. <<t>> \in Seq(S)
        BY <4>1
      <4> QED BY <4>2 DEF S
    <3> QED BY <1>1, <2>2, <3>5
  <2> QED BY <2>1, <2>2
<1>7. \A i \in Slots : base.peers[i].endpoint = NoEndpoint => base.peers[i] = NoPeer
  BY <1>1, <1>3, <1>4 DEF Grounds
<1>8. ASSUME NEW i \in Slots
      PROVE  /\ base.peers[i].endpoint # NoEndpoint => i \in isConnected'[e]
             /\ base.peers[i].sendQueue \in Seq(HeldFor(e, i)')
             /\ \A x \in Programs : base.peers[i].endpoint = <<x>> =>
                  /\ KnowsAt(e, x, i) \/ LearntAt(e, g, x, i)
                  /\ ~ base.peers[i].queued =>
                         \/ KnowsAt(e, x, i) /\ ~ peers[e][i].queued
                         \/ x = g /\ Arrived(e, g) \in Game \cup Accepts
  <2>1. CASE i = player
    <3>1. \A x \in Programs : base.peers[i].endpoint = <<x>> => x = h
      BY <1>1, <1>4, <2>1
    <3> QED BY <1>1, <1>6, <2>1, <3>1
  <2>2. CASE i # player
    <3>1. base.peers[i] = peers[e][i]
      BY <1>1, <2>2
    <3> QED BY <1>3, <2>2, <3>1 DEF Grounds
  <2> QED BY <2>1, <2>2
<1> QED BY <1>1, <1>5, <1>7, <1>8 DEF Grounds

\* Whom a packet of a program introduces.
LEMMA ConnectArrives ==
    ASSUME Typed, InvS, InvI, NEW e \in Programs, NEW f \in Programs \ {e}, Arrives(e, f, "PT_CONNECT")
    PROVE  /\ Arrived(e, f) \notin Accepts /\ Arrived(e, f) \notin TurnPackets /\ Arrived(e, f).player \in Slots
           /\ \E h \in Programs : /\ Arrived(e, f).endpoint = <<h>> /\ h # e
                                  /\ LearntAt(e, f, h, Arrived(e, f).player) /\ ~ Met(e, h)
<1> DEFINE p == Arrived(e, f)
<1>1. Gets(e, f) /\ e \notin gone /\ p \in Packets /\ p.type = "PT_CONNECT" /\ p \in Flying(f, e)
  BY ArrivesGets
<1>2. p \notin Accepts /\ p \notin TurnPackets
  BY <1>1 DEF Accepts, TurnPackets
<1>3. p.player \in Slots /\ p.endpoint \in Endpoints
  BY SlotOfPacket
<1>4. p.endpoint # NoEndpoint
  BY <1>1 DEF InvS, MaySend
<1>5. PICK h \in Programs : p.endpoint = <<h>>
  BY <1>3, <1>4 DEF Endpoints
<1>6. p \in Connects(h) /\ p \in News(f, h)
  BY <1>1, <1>5 DEF Connects, News
<1>7. LearntAt(e, f, h, p.player)
  BY <1>2, <1>6 DEF LearntAt
<1>8. Told(f, e, h)
  <2>1. Cnt(f, e, News(f, h)) > 0
    BY <1>1, <1>6, ArrivedCounts
  <2> QED BY <2>1 DEF Told
<1>9. h # e /\ ~ Met(e, h)
  BY <1>8 DEF InvI, ToldOnce, Intro
<1> QED BY <1>2, <1>3, <1>5, <1>7, <1>9

LEMMA ReceiveConnectActs ==
    ASSUME Typed, Typed', InvK, InvS, InvI, NEW e \in Programs, NEW f \in Programs \ {e}, ReceiveConnect(e, f)
    PROVE  Acts(e)
<1> DEFINE self == plr_self[e]
           player == Arrived(e, f).player
           endpoint == Arrived(e, f).endpoint
           base == FirstTurn(e, [Step(e) EXCEPT !.peers[player] = QueuedPeer(endpoint)], player)
           p == Echo("PT_ECHO_REQUEST", self, player)
           pk == [i \in Slots |-> p]
           r == IF plr_self[e] = PLR_BROADCAST THEN base ELSE InitiateHandshake(e, plr_self[e], base, player)
<1>1. /\ Arrives(e, f, "PT_CONNECT") /\ FinishReceive(e, f, r)
      /\ isConnected' = [isConnected EXCEPT ![e] = @ \cup {player}]
      /\ taken' = IF player \in isConnected[e] THEN [taken EXCEPT ![e] = @ \cup {player}] ELSE taken
      /\ plr_self' = plr_self /\ firstpeer' = firstpeer /\ awaiting' = awaiting /\ got' = got
      /\ gone' = gone /\ crossed' = crossed /\ sent' = sent
  BY DEF ReceiveConnect, turnVars, QueuedPeer
<1>2. Gets(e, f) /\ e \notin gone
  BY <1>1, ArrivesGets
<1>3. Arrived(e, f) \notin Accepts /\ Arrived(e, f) \notin TurnPackets /\ player \in Slots
  BY <1>1, ConnectArrives
<1>4. PICK h \in Programs : endpoint = <<h>> /\ h # e /\ LearntAt(e, f, h, player) /\ ~ Met(e, h)
  BY <1>1, ConnectArrives
<1>5. Newcomer(e, h, player, base)
  BY <1>3, <1>4, FirstTurnBase
<1> HIDE DEF base, player, endpoint
<1>6. /\ base \in Steps /\ Silent(base) /\ \A i \in Slots \ {player} : base.peers[i] = peers[e][i]
      /\ base.peers[player].endpoint = <<h>>
      /\ base.peers[player].sendQueue = IF player \in isConnected[e] \/ awaiting[e] THEN <<>>
                                        ELSE <<Turn(plr_self[e], player, sent[e])>>
  BY <1>5 DEF Newcomer
<1>7. /\ isConnected'[e] = isConnected[e] \cup {player}
      /\ plr_self'[e] = plr_self[e] /\ awaiting'[e] = awaiting[e] /\ sent'[e] = sent[e] /\ got'[e] = got[e]
      /\ taken'[e] = IF player \in isConnected[e] THEN taken[e] \cup {player} ELSE taken[e]
      /\ \A x \in Programs \ {e} : isConnected'[x] = isConnected[x] /\ taken'[x] = taken[x]
  BY <1>1 DEF Typed
<1>8. Grounds(e, f, base, {})
  <2>1. Hears(e, f, h, player, base)
    BY <1>4, <1>5, <1>7 DEF Hears
  <2> QED BY <1>3, <2>1, HearsGrounds
<1>9. Sole(base.peers)
  BY <1>8 DEF Grounds
<1>10. \E says \in [Slots -> Game], players \in SUBSET Slots :
          /\ Spoken(base, players, says, {}, r)
          /\ \A i \in Slots : i \in players => says[i] \in ProperAfter(e, i) /\ says[i] \notin TurnPackets
  <2>1. CASE r = base
    <3>1. PICK pk1 : pk1 \in [Slots -> Game]
      BY SomePackets
    <3>2. Spoken(base, {}, pk1, {}, base)
      BY <1>6, NoneSpoken
    <3>3. {} \in SUBSET Slots /\ \A i \in Slots : i \in {} => pk1[i] \in ProperAfter(e, i) /\ pk1[i] \notin TurnPackets
      OBVIOUS
    <3> HIDE DEF r
    <3> QED BY <2>1, <3>1, <3>2, <3>3
  <2>2. CASE r # base
    <3>1. self # PLR_BROADCAST /\ r = SendTo(base, player, p)
      BY <2>2 DEF InitiateHandshake
    <3>2. self \in Slots /\ plr_self'[e] = self /\ Joined(e)
      BY <1>7, <3>1 DEF Typed, Joined
    <3> HIDE DEF self
    <3>3. p \in Game /\ p \notin Held /\ p.src = self /\ p.dst = player
      BY <1>3, <3>2, SlotEchoes DEF EchoTypes
    <3> HIDE DEF p
    <3>4. pk \in [Slots -> Game] /\ \A i \in Slots : pk[i] = p
      BY <3>3
    <3>5. Spoken(base, {player}, pk, {}, SendTo(base, player, p))
      BY <1>3, <1>6, <1>9, <3>3, OneSpoken
    <3>6. p \notin TurnPackets /\ p \notin Farewells
      BY <3>3, Kinds
    <3>7. p \in ProperAfter(e, player)
      BY <1>3, <3>2, <3>3, <3>6, MakeProper
    <3>8. \A i \in Slots : i \in {player} => pk[i] \in ProperAfter(e, i) /\ pk[i] \notin TurnPackets
      BY <3>4, <3>6, <3>7
    <3>9. {player} \in SUBSET Slots
      BY <1>3
    <3> HIDE DEF r, pk
    <3> QED BY <3>1, <3>4, <3>5, <3>8, <3>9
  <2> QED BY <2>1, <2>2
<1> HIDE DEF r, pk
<1>11. PICK says \in [Slots -> Game], players \in SUBSET Slots :
          /\ Spoken(base, players, says, {}, r)
          /\ \A i \in Slots : i \in players => says[i] \in ProperAfter(e, i) /\ says[i] \notin TurnPackets
  BY <1>10
<1>12. r \in Steps
  BY <1>11 DEF Spoken
<1>13. Move(e, f, {}, r.to) /\ PeersStep(e, r.peers)
  BY <1>1, <1>2, <1>12, ReceiveMove
<1>14. Outcome(e, base, players, says, {}, {}, r)
  BY <1>11, <1>13 DEF Outcome, PeersStep
<1>15. Alone(e)
  BY <1>1, <1>7, <1>13, StepAlone DEF PeersStep
<1>16. Self(e, f, {})
  <2>1. ~ Joined(e) => awaiting'[e]
    BY <1>7 DEF InvK, TableOk
  <2> QED BY <1>1, <1>3, <2>1, SelfKept
<1>17. Closing(e, f, {})
  BY DEF Closing
<1>18. Act(e, f, {}, r.to, {}) /\ Adds(e, base.peers, players, says, {}, r.to)
  <2>1. Speech(e, f, {}, base, players, says, {}, {}, r)
    BY <1>8, <1>11, <1>13, <1>14, <1>15, <1>16, <1>17 DEF Speech
  <2> QED BY <2>1, SpeechAct
<1>19. Counts(e, f, r.to)
  <2> SUFFICES ASSUME NEW y \in Programs \ {e}, NEW i \in Slots,
                      KnowsAt(e, y, i)', ~ awaiting'[e], i \notin taken'[e]
               PROVE  SameTurns(e, y, i, r.to) \/ FirstOfTurns(e, f, y, i, r.to)
    BY DEF Counts
  <2>1. base.peers[i].endpoint = <<y>> /\ Queues(e, y, i, r.to) = Among(base.peers[i].sendQueue, TurnPackets)
    BY <1>11, <1>18 DEF Adds
  <2>2. CASE i # player
    <3>1. base.peers[i] = peers[e][i] /\ i \notin taken[e]
      BY <1>6, <1>7, <2>2
    <3> QED BY <1>7, <2>1, <3>1 DEF SameTurns, KnowsAt
  <2>3. CASE i = player
    <3> DEFINE t == Turn(plr_self[e], player, sent[e])
    <3>1. player \notin isConnected[e] /\ ~ awaiting[e]
      BY <1>7, <2>3
    <3>2. y = h
      BY <1>6, <2>1, <2>3, ConnectionTypes
    <3>3. plr_self[e] \in Slots /\ sent[e] \in 0 .. MaxTurn /\ player \in Slots \cup {PLR_BROADCAST}
      BY <1>3, <3>1 DEF InvK, TableOk, Joined, Typed
    <3>4. t \in TurnPackets /\ t.turn = sent[e] /\ t \in Packets
      BY <3>3, SlotTurns, Kinds
    <3> HIDE DEF t
    <3>5. base.peers[i].sendQueue = <<t>>
      BY <1>6, <2>3, <3>1 DEF t
    <3>6. Among(<<t>>, TurnPackets) = <<t>>
      <4> DEFINE none == <<>>
      <4>1. none \in Seq(Packets) /\ <<t>> = Append(none, t) /\ Among(none, TurnPackets) = none
        BY AmongEmpty
      <4> HIDE DEF none
      <4>2. Among(Append(none, t), TurnPackets) = Append(Among(none, TurnPackets), t)
        BY <3>4, <4>1, AmongAppend
      <4> QED BY <4>1, <4>2
    <3>7. Queues(e, y, i, r.to) = <<t>>
      BY <2>1, <3>5, <3>6
    <3> QED BY <1>4, <1>7, <2>3, <3>2, <3>4, <3>7 DEF FirstOfTurns
  <2> QED BY <2>2, <2>3
<1>20. Heard(e, f, {})
  BY <1>3, <1>7 DEF Heard
<1> QED BY <1>18, <1>19, <1>20 DEF Acts

\* A program that is accepted has held back nothing.
LEMMA AcceptArrives ==
    ASSUME Typed, InvK, InvS, InvI, NEW e \in Programs, NEW f \in Programs \ {e}, ReceiveAccept(e, f)
    PROVE  /\ Gets(e, f) /\ e \notin gone /\ Arrived(e, f) \in Accepts /\ Arrived(e, f) \notin TurnPackets
           /\ Arrived(e, f).src \in Slots /\ Arrived(e, f).player \in Slots
           /\ ~ Joined(e) /\ awaiting[e] /\ firstpeer[e] = <<f>> /\ ~ Met(e, f)
           /\ LearntAt(e, f, f, Arrived(e, f).src)
           /\ \A i \in Slots : peers[e][i].sendQueue = <<>>
<1> DEFINE p == Arrived(e, f)
<1>1. Arrives(e, f, "PT_JOIN_ACCEPT") /\ firstpeer[e] = <<f>>
  BY DEF ReceiveAccept
<1>2. Gets(e, f) /\ e \notin gone /\ p \in Packets /\ p \in Flying(f, e) /\ p \in Accepts
  BY <1>1, ArrivesGets
<1>3. p \notin TurnPackets /\ p.player \in Slots
  BY <1>1, <1>2, SlotOfPacket, Kinds
<1>4. SentByPlayer(f, e, p)
  BY <1>2, GameFlying
<1>5. p.src \in Slots /\ ~ Joined(e)
  BY <1>2, <1>4 DEF SentByPlayer, Joined
<1>6. awaiting[e]
  BY <1>5 DEF InvK, TableOk
<1>7. ~ Met(e, f)
  <2>1. Cnt(f, e, Accepts) > 0
    BY <1>2, ArrivedCounts
  <2> QED BY <2>1, AcceptFlying
<1>8. LearntAt(e, f, f, p.src)
  BY <1>2 DEF LearntAt, News
<1>9. ASSUME NEW i \in Slots PROVE peers[e][i].sendQueue = <<>>
  <2> DEFINE q == peers[e][i].sendQueue
  <2>1. q \in Seq(HeldFor(e, i)) /\ HeldFor(e, i) = {}
    BY <1>5 DEF InvS, HeldFor, Proper
  <2> HIDE DEF q
  <2>2. q \in Seq({})
    BY <2>1
  <2>3. q = <<>>
    BY <2>2
  <2> QED BY <2>3 DEF q
<1> QED BY <1>1, <1>2, <1>3, <1>5, <1>6, <1>7, <1>8, <1>9

\* The table of a program that has been accepted.
Greeted(e, f, master, base) ==
    /\ base \in Steps /\ Silent(base)
    /\ \A i \in Slots \ {master} : base.peers[i] = peers[e][i]
    /\ base.peers[master].endpoint = <<f>>
    /\ \A i \in Slots : base.peers[i].sendQueue = <<>>

LEMMA AcceptBase ==
    ASSUME Typed, InvK, NEW e \in Programs, NEW f \in Programs, NEW master \in Slots,
           \A i \in Slots : peers[e][i].sendQueue = <<>>
    PROVE  Greeted(e, f, master, [Step(e) EXCEPT !.peers[master].endpoint = <<f>>])
<1> DEFINE old == peers[e][master]
           peer == [old EXCEPT !.endpoint = <<f>>]
           s == [Step(e) EXCEPT !.peers[master] = peer]
<1>1. old \in PeerType /\ old.sendQueue = <<>>
  BY DEF Typed, PeerTables
<1>2. peer \in PeerType /\ peer.endpoint = <<f>> /\ peer.sendQueue = <<>>
  <2>1. <<f>> \in Endpoints
    BY DEF Endpoints
  <2> HIDE DEF old
  <2> QED BY <1>1, <2>1 DEF PeerType
<1>3. Step(e) \in Steps /\ Silent(Step(e)) /\ Step(e).peers = peers[e] /\ peers[e] \in PeerTables
  BY TableSole DEF Typed
<1>4. [Step(e) EXCEPT !.peers[master].endpoint = <<f>>] = s
  <2>1. Step(e).peers[master] = old
    BY <1>3
  <2> QED BY <2>1 DEF Step
<1> HIDE DEF peer
<1>5. s \in Steps /\ s.peers = [peers[e] EXCEPT ![master] = peer] /\ Silent(s)
  <2>1. s \in Steps /\ s.peers = [Step(e).peers EXCEPT ![master] = peer] /\ s.to = Step(e).to
    BY <1>2, <1>3, PutPeer
  <2> QED BY <1>3, <2>1 DEF Silent
<1>6. s.peers[master] = peer /\ \A i \in Slots \ {master} : s.peers[i] = peers[e][i]
  BY <1>3, <1>5 DEF PeerTables
<1> HIDE DEF s
<1>7. Greeted(e, f, master, s)
  BY <1>2, <1>5, <1>6 DEF Greeted
<1> QED BY <1>4, <1>7

LEMMA GreetedGrounds ==
    ASSUME Typed, InvK, InvS, NEW e \in Programs, NEW f \in Programs \ {e}, NEW master \in Slots, NEW base,
           Greeted(e, f, master, base), ~ Joined(e), LearntAt(e, f, f, master), ~ Met(e, f),
           Arrived(e, f) \in Accepts, awaiting'[e] => awaiting[e], master \in isConnected'[e],
           \A i \in Slots : i \in isConnected[e] => i \in isConnected'[e]
    PROVE  Grounds(e, f, base, {})
<1>1. /\ base \in Steps /\ \A i \in Slots \ {master} : base.peers[i] = peers[e][i]
      /\ base.peers[master].endpoint = <<f>> /\ \A i \in Slots : base.peers[i].sendQueue = <<>>
  BY DEF Greeted
<1>2. Grounds(e, f, Step(e), {master}) /\ Step(e).peers = peers[e]
  BY PlainGrounds, TableSole
<1>3. <<f>> # NoEndpoint /\ \A y : <<y>> = <<f>> => y = f
  BY ConnectionTypes
<1>4. Sole(base.peers)
  <2>1. Sole(peers[e])
    BY TableSole
  <2>2. \A i \in Slots : peers[e][i].endpoint # <<f>>
    BY DEF Met, KnowsAt
  <2>3. ASSUME NEW i \in Slots, NEW j \in Slots, base.peers[i].endpoint # NoEndpoint,
               base.peers[i].endpoint = base.peers[j].endpoint
        PROVE  i = j
    BY <1>1, <2>1, <2>2, <2>3 DEF Sole
  <2> QED BY <1>1, <2>3 DEF Sole
<1>5. \A i \in Slots : base.peers[i].endpoint = NoEndpoint => base.peers[i] = NoPeer
  BY <1>1, <1>2, <1>3 DEF Grounds
<1>6. ASSUME NEW i \in Slots
      PROVE  /\ base.peers[i].endpoint # NoEndpoint => i \in isConnected'[e]
             /\ base.peers[i].sendQueue \in Seq(HeldFor(e, i)')
             /\ \A x \in Programs : base.peers[i].endpoint = <<x>> =>
                  /\ KnowsAt(e, x, i) \/ LearntAt(e, f, x, i)
                  /\ ~ base.peers[i].queued =>
                         \/ KnowsAt(e, x, i) /\ ~ peers[e][i].queued
                         \/ x = f /\ Arrived(e, f) \in Game \cup Accepts
  <2>1. CASE i = master
    <3>1. \A x \in Programs : base.peers[i].endpoint = <<x>> => x = f
      BY <1>1, <1>3, <2>1
    <3>2. base.peers[i].sendQueue = <<>> /\ <<>> \in Seq(HeldFor(e, i)')
      BY <1>1
    <3> QED BY <2>1, <3>1, <3>2
  <2>2. CASE i # master
    <3>1. base.peers[i] = peers[e][i]
      BY <1>1, <2>2
    <3> QED BY <1>2, <2>2, <3>1 DEF Grounds
  <2> QED BY <2>1, <2>2
<1> QED BY <1>1, <1>4, <1>5, <1>6 DEF Grounds

LEMMA ReceiveAcceptActs ==
    ASSUME Typed, Typed', InvK, InvS, InvI, NEW e \in Programs, NEW f \in Programs \ {e}, ReceiveAccept(e, f)
    PROVE  Acts(e)
<1> DEFINE self == Arrived(e, f).player
           master == Arrived(e, f).src
           base == [Step(e) EXCEPT !.peers[master].endpoint = <<f>>]
           s == ForEach(Slots, base, LAMBDA t, i : InitiateHandshake(e, self, t, i))
           r == DrainSendQueue(s, master)
           players == Greets(e, self, base)
           pk == Requested(self)
<1>1. /\ FinishReceive(e, f, r) /\ plr_self' = [plr_self EXCEPT ![e] = self]
      /\ isConnected' = [isConnected EXCEPT ![e] = @ \cup {master, self}]
      /\ firstpeer' = [firstpeer EXCEPT ![e] = NoEndpoint]
      /\ awaiting' = awaiting /\ sent' = sent /\ got' = got /\ gone' = gone /\ crossed' = crossed /\ taken' = taken
  BY DEF ReceiveAccept, turnVars
<1>2. /\ Gets(e, f) /\ e \notin gone /\ Arrived(e, f) \in Accepts /\ Arrived(e, f) \notin TurnPackets
      /\ master \in Slots /\ self \in Slots
      /\ ~ Joined(e) /\ awaiting[e] /\ firstpeer[e] = <<f>> /\ ~ Met(e, f)
      /\ LearntAt(e, f, f, master)
      /\ \A i \in Slots : peers[e][i].sendQueue = <<>>
  BY AcceptArrives
<1>13. Arrived(e, f).player = self
  OBVIOUS
<1> HIDE DEF self, master
<1>3. Greeted(e, f, master, base)
  BY <1>2, AcceptBase
<1> HIDE DEF base
<1>4. base \in Steps /\ Silent(base) /\ base.peers[master].endpoint = <<f>>
  BY <1>3 DEF Greeted
<1>5. /\ plr_self'[e] = self /\ firstpeer'[e] = NoEndpoint
      /\ master \in isConnected'[e] /\ \A i \in Slots : i \in isConnected[e] => i \in isConnected'[e]
      /\ \A x \in Programs \ {e} : /\ isConnected'[x] = isConnected[x] /\ plr_self'[x] = plr_self[x]
                                   /\ firstpeer'[x] = firstpeer[x]
  BY <1>1 DEF Typed
<1>6. Grounds(e, f, base, {})
  BY <1>1, <1>2, <1>3, <1>5, GreetedGrounds
<1>7. Sole(base.peers)
  BY <1>6 DEF Grounds
<1>8. SentTo(base, players, pk, N, s)
  BY <1>2, <1>4, HandshakesSend
<1> HIDE DEF s, players
<1>9. pk \in [Slots -> Game] /\ \A i \in Slots : pk[i] \in ProperAfter(e, i)
  <2>1. ASSUME NEW i \in Slots PROVE pk[i] \in Game /\ pk[i] \in ProperAfter(e, i)
    <3> DEFINE p == Echo("PT_ECHO_REQUEST", self, i)
    <3>1. pk[i] = p
      BY DEF Requested
    <3>2. p \in Game /\ p \notin Held /\ p.src = self /\ p.dst = i
      BY <1>2, SlotEchoes DEF EchoTypes
    <3> HIDE DEF p
    <3>3. p \notin TurnPackets /\ p \notin Farewells
      BY <3>2, Kinds
    <3>4. p \in ProperAfter(e, i)
      BY <1>2, <1>5, <3>2, <3>3, MakeProper
    <3> QED BY <3>1, <3>2, <3>4
  <2>2. pk = [i \in Slots |-> pk[i]]
    BY DEF Requested
  <2> HIDE DEF pk
  <2> QED BY <2>1, <2>2
<1> HIDE DEF pk
<1>10. Spoken(base, players, pk, {}, s)
  BY <1>4, <1>7, <1>8, <1>9, SentSpoken
<1>11. Spoken(base, players, pk, {master}, r)
  BY <1>2, <1>4, <1>7, <1>9, <1>10, DrainSpoken
<1>12. r \in Steps
  BY <1>11 DEF Spoken
<1> HIDE DEF r
<1>14. Move(e, f, {}, r.to) /\ PeersStep(e, r.peers)
  BY <1>1, <1>2, <1>12, ReceiveMove
<1>15. Outcome(e, base, players, pk, {master}, {}, r)
  BY <1>11, <1>14 DEF Outcome, PeersStep
<1>16. Alone(e)
  BY <1>1, <1>5, <1>14 DEF Alone, PeersStep
<1>17. Self(e, f, {})
  <2>1. Joins(e, f)
    BY <1>2, <1>5, <1>13 DEF Joins
  <2> QED BY <1>1, <1>2, <2>1 DEF Self
<1>18. Closing(e, f, {})
  BY DEF Closing
<1>19. Act(e, f, {}, r.to, {})
  <2>1. \A i \in Slots : i \in {master} => base.peers[i].endpoint = <<f>> /\ Arrived(e, f) \in Game \cup Accepts
    BY <1>2, <1>4
  <2>2. Speech(e, f, {}, base, players, pk, {master}, {}, r)
    BY <1>6, <1>9, <1>14, <1>15, <1>16, <1>17, <1>18, <2>1 DEF Speech
  <2> QED BY <2>2, SpeechAct
<1>20. Counts(e, f, r.to)
  BY <1>1, <1>2 DEF Counts
<1>21. Heard(e, f, {})
  BY <1>1, <1>2 DEF Heard
<1> QED BY <1>19, <1>20, <1>21 DEF Acts

--------------------------------------------------------------------------------

(* A program asks to join.                                                     *)
LEMMA AskShape ==
    ASSUME Typed, InvK, NEW e \in Programs, NEW f \in Programs \ {e}, AskToJoin(e, f)
    PROVE  /\ Joined(f) /\ Fresh(e) /\ e \notin gone /\ JoinRequest \in Requests
           /\ peers' = peers /\ firstpeer' = [firstpeer EXCEPT ![e] = <<f>>]
           /\ plr_self' = plr_self /\ isConnected' = isConnected /\ awaiting' = awaiting /\ sent' = sent
           /\ got' = got /\ gone' = gone /\ crossed' = crossed /\ taken' = taken
           /\ \E out : /\ Move(e, e, {}, out) /\ out[f] = <<JoinRequest>>
                       /\ \A y \in Programs \ {f} : out[y] = <<>>
<1> DEFINE step == Raw(Step(e), <<f>>, JoinRequest)
<1>1. /\ e \notin Playing /\ e \notin gone /\ firstpeer[e] = NoEndpoint /\ f \in Playing
      /\ Finish(e, step) /\ firstpeer' = [firstpeer EXCEPT ![e] = <<f>>]
      /\ plr_self' = plr_self /\ isConnected' = isConnected /\ awaiting' = awaiting /\ sent' = sent
      /\ got' = got /\ gone' = gone /\ crossed' = crossed /\ taken' = taken
  BY DEF AskToJoin, turnVars
<1>2. Joined(f)
  BY <1>1, PlayingJoined
<1>3. ~ Joined(e)
  BY <1>1, Numbers DEF Playing, Joined
<1>4. JoinRequest \in Packets /\ JoinRequest \in Requests
  BY PacketTypes DEF Requests
<1>5. /\ step \in Steps /\ step.peers = Step(e).peers
      /\ \A y \in Programs : step.to[y] = IF <<f>> = <<y>> THEN Append(Step(e).to[y], JoinRequest) ELSE Step(e).to[y]
  <2>1. \A y \in Programs : <<f>> = <<y>> => JoinRequest \in Sendable(y)
    BY <1>2, <1>4, PacketTypes, ConnectionTypes DEF Sendable
  <2> QED BY <1>4, <2>1, StepType, RawStep
<1>6. step.to[f] = <<JoinRequest>> /\ \A y \in Programs \ {f} : step.to[y] = <<>>
  <2>1. \A y \in Programs : Step(e).to[y] = <<>>
    BY StepType
  <2>2. Append(<<>>, JoinRequest) = <<JoinRequest>>
    OBVIOUS
  <2> QED BY <1>5, <2>1, <2>2, ConnectionTypes
<1> HIDE DEF step
<1>7. Move(e, e, {}, step.to) /\ PeersStep(e, step.peers)
  BY <1>1, <1>5, FinishMove
<1>8. peers' = peers
  <2>1. step.peers = peers[e]
    BY <1>5, StepType
  <2> QED BY <1>7, <2>1 DEF PeersStep, Typed
<1> QED BY <1>1, <1>2, <1>3, <1>4, <1>6, <1>7, <1>8 DEF Fresh

LEMMA AskActs ==
    ASSUME Typed, Typed', InvK, InvU, InvS, NEW e \in Programs, NEW f \in Programs \ {e}, AskToJoin(e, f)
    PROVE  \E out : /\ Act(e, e, {}, out, Requests) /\ Counts(e, e, out) /\ Heard(e, e, {})
                    /\ out[f] = <<JoinRequest>> /\ \A y \in Programs \ {f} : out[y] = <<>>
<1>1. /\ Joined(f) /\ Fresh(e) /\ e \notin gone /\ JoinRequest \in Requests
      /\ peers' = peers /\ firstpeer' = [firstpeer EXCEPT ![e] = <<f>>]
      /\ plr_self' = plr_self /\ isConnected' = isConnected /\ awaiting' = awaiting /\ sent' = sent
      /\ got' = got /\ gone' = gone /\ crossed' = crossed /\ taken' = taken
  BY AskShape
<1>2. PICK out : Move(e, e, {}, out) /\ out[f] = <<JoinRequest>> /\ \A y \in Programs \ {f} : out[y] = <<>>
  BY AskShape
<1>3. \A i \in Slots : peers[e][i] = NoPeer
  BY <1>1 DEF InvU, Unknown, Unborn
<1>4. Alone(e)
  BY <1>1 DEF Alone, Typed
<1>5. Learns(e, e)
  BY <1>1 DEF Learns, KnowsAt, Slots
<1>6. Table(e)
  <2>1. NoPeer.endpoint = NoEndpoint /\ NoPeer.sendQueue = <<>>
    BY DEF NoPeer
  <2>2. \A i \in Slots : peers'[e][i] = NoPeer
    BY <1>1, <1>3
  <2>3. \A i \in Slots : <<>> \in Seq(HeldFor(e, i)')
    OBVIOUS
  <2> QED BY <2>1, <2>2, <2>3 DEF Table
<1>7. Self(e, e, Requests)
  <2>1. Requests # {}
    BY <1>1
  <2>2. ~ Joined(e)' => awaiting'[e]
    BY <1>1 DEF InvK, TableOk, Fresh
  <2> QED BY <1>1, <2>1, <2>2 DEF Self
<1>8. Flow(e, e, out)
  BY <1>2, MoveFlow
<1>9. Says(e, out, Requests)
  <2> SUFFICES ASSUME NEW y \in Programs \ {e} PROVE out[y] \in Seq(GoodFor(e, y)' \cup Requests)
    BY DEF Says
  <2> DEFINE S == GoodFor(e, y)' \cup Requests
  <2>1. JoinRequest \in S
    BY <1>1
  <2> HIDE DEF S
  <2>2. <<JoinRequest>> \in Seq(S) /\ <<>> \in Seq(S)
    BY <2>1
  <2>3. out[y] \in Seq(S)
    BY <1>2, <2>2
  <2> QED BY <2>3 DEF S
<1>10. Talk(e, e, out, Requests)
  BY <1>1, <1>4, <1>5, <1>6, <1>7, <1>8, <1>9 DEF Talk
<1>11. Closing(e, e, {}) /\ Drained(e, e)
  <2>1. \A y \in Programs : \A i \in Slots : KnowsAt(e, y, i)' => KnowsAt(e, y, i)
    BY <1>1 DEF KnowsAt
  <2> QED BY <1>1, <2>1 DEF Closing, Drained
<1>12. Counts(e, e, out)
  <2>1. awaiting'[e]
    BY <1>1 DEF InvK, TableOk, Fresh
  <2> QED BY <2>1 DEF Counts
<1>13. Heard(e, e, {})
  BY <1>1 DEF Heard
<1> QED BY <1>2, <1>10, <1>11, <1>12, <1>13 DEF Act

\* Only f gets one more packet, a request.
AskFlow(e, f) == \A x \in Programs : \A y \in Programs \ {x} : \A set :
    Cnt(x, y, set)' <= Cnt(x, y, set) + (IF x = e /\ y = f /\ JoinRequest \in set THEN 1 ELSE 0)

LEMMA AskCounts ==
    ASSUME Typed, Typed', NEW e \in Programs, NEW f \in Programs \ {e}, NEW out, Flow(e, e, out),
           out[f] = <<JoinRequest>>, \A y \in Programs \ {f} : out[y] = <<>>
    PROVE  AskFlow(e, f)
<1> SUFFICES ASSUME NEW x \in Programs, NEW y \in Programs \ {x}, NEW set
             PROVE  Cnt(x, y, set)' <= Cnt(x, y, set) + (IF x = e /\ y = f /\ JoinRequest \in set THEN 1 ELSE 0)
  BY DEF AskFlow
<1> DEFINE n == Cnt(x, y, set)'
           k == Cnt(x, y, set)
           j == IF x = e THEN Count(out[y], set) ELSE 0
           l == IF x = e /\ y = f /\ JoinRequest \in set THEN 1 ELSE 0
<1>1. n + (IF y = e /\ x = e /\ Arrived(e, e) \in set THEN 1 ELSE 0) <= k + j
  BY DEF Flow
<1>2. ~ (y = e /\ x = e)
  OBVIOUS
<1>3. n \in Nat /\ k \in Nat
  BY LanesTyped, LanesTypedAfter
<1>4. j = l
  <2>1. Count(<<JoinRequest>>, set) = IF JoinRequest \in set THEN 1 ELSE 0
    BY PacketTypes, CountOne
  <2>2. Count(<<>>, set) = 0
    BY CountBasics
  <2> QED BY <2>1, <2>2
<1>5. l \in Nat
  OBVIOUS
<1> HIDE DEF n, k, j, l
<1>6. n <= k + l
  BY <1>1, <1>2, <1>3, <1>4, <1>5
<1> QED BY <1>6 DEF n, k, l

\* Where nothing was counted before, nothing is but the request.
LEMMA AskCountsNone ==
    ASSUME Typed, Typed', NEW e \in Programs, NEW f \in Programs, AskFlow(e, f),
           NEW x \in Programs, NEW y \in Programs \ {x}, NEW set
    PROVE  /\ ~ (x = e /\ y = f /\ JoinRequest \in set) /\ Cnt(x, y, set) = 0 => Cnt(x, y, set)' = 0
           /\ ~ (x = e /\ y = f /\ JoinRequest \in set) /\ Cnt(x, y, set) <= 1 => Cnt(x, y, set)' <= 1
           /\ Cnt(x, y, set) = 0 => Cnt(x, y, set)' <= 1
<1> DEFINE n == Cnt(x, y, set)'
           k == Cnt(x, y, set)
           l == IF x = e /\ y = f /\ JoinRequest \in set THEN 1 ELSE 0
<1>1. n <= k + l
  BY DEF AskFlow
<1>2. n \in Nat /\ k \in Nat /\ l \in {0, 1}
  BY LanesTyped, LanesTypedAfter
<1>3. ~ (x = e /\ y = f /\ JoinRequest \in set) => l = 0
  OBVIOUS
<1> HIDE DEF n, k, l
<1>4. /\ l = 0 /\ k = 0 => n = 0
      /\ l = 0 /\ k <= 1 => n <= 1
      /\ k = 0 => n <= 1
  BY <1>1, <1>2
<1>5. /\ ~ (x = e /\ y = f /\ JoinRequest \in set) /\ k = 0 => n = 0
      /\ ~ (x = e /\ y = f /\ JoinRequest \in set) /\ k <= 1 => n <= 1
      /\ k = 0 => n <= 1
  BY <1>3, <1>4
<1> QED BY <1>5 DEF n, k

LEMMA NoneOfFresh ==
    ASSUME Typed, InvU, NEW e \in Programs, Fresh(e), NEW y \in Programs \ {e}
    PROVE  Cnt(e, y, Requests) = 0
<1>1. Cnt(e, y, Packets) = 0
  BY DEF InvU, Asked
<1>2. ~ (Cnt(e, y, Requests) > 0)
  <2> SUFFICES ASSUME NEW p \in Flying(e, y), p \in Requests PROVE FALSE
    BY FlyingIn
  <2>1. p \in Packets
    BY Kinds
  <2> QED BY <1>1, <2>1, FlyingIn
<1>3. Cnt(e, y, Requests) \in Nat
  BY LanesTyped
<1> QED BY <1>2, <1>3

LEMMA AskInvU ==
    ASSUME Typed, Typed', InvK, InvU, InvS, NEW e \in Programs, NEW f \in Programs \ {e}, AskToJoin(e, f)
    PROVE  InvU'
<1>1. /\ Joined(f) /\ Fresh(e) /\ JoinRequest \in Requests
      /\ peers' = peers /\ firstpeer' = [firstpeer EXCEPT ![e] = <<f>>]
      /\ plr_self' = plr_self /\ got' = got
  BY AskShape
<1>2. PICK out : /\ Act(e, e, {}, out, Requests) /\ Counts(e, e, out) /\ Heard(e, e, {})
                 /\ out[f] = <<JoinRequest>> /\ \A y \in Programs \ {f} : out[y] = <<>>
  BY AskActs
<1>3. Talk(e, e, out, Requests)
  BY <1>2 DEF Act
<1>4. AskFlow(e, f)
  <2>1. Flow(e, e, out)
    BY <1>3 DEF Talk
  <2> QED BY <1>2, <2>1, AskCounts
<1>5. firstpeer'[e] = <<f>> /\ \A x \in Programs \ {e} : firstpeer'[x] = firstpeer[x]
  BY <1>1 DEF Typed
<1>6. /\ \A x : Joined(x)' <=> Joined(x)
      /\ \A x, y, i : KnowsAt(x, y, i)' <=> KnowsAt(x, y, i)
      /\ \A x, y : Met(x, y)' <=> Met(x, y)
  BY <1>1 DEF Joined, KnowsAt, Met, Slots
<1> SUFFICES ASSUME NEW x \in Programs
             PROVE  (Unborn(x)' => Unknown(x)') /\ \A y \in Programs \ {x} : Asked(x, y)'
  BY DEF InvU
<1>7. ASSUME Unborn(x)' PROVE Unknown(x)'
  <2>1. Unknown(x)
    BY <1>3, <1>7, TalkUnborn
  <2>2. x # f
    BY <1>1, <2>1 DEF Unknown
  <2>3. \A i \in Slots : peers'[x][i] = NoPeer
    BY <1>1, <2>1 DEF Unknown
  <2>4. ASSUME NEW y \in Programs \ {x} PROVE Strange(x, y)'
    <3>0. Strange(x, y)
      BY <2>1 DEF Unknown
    <3>1. Cnt(y, x, Packets)' = 0
      BY <1>4, <2>2, <3>0, AskCountsNone DEF Strange
    <3>2. ~ Met(y, x)' /\ got'[y][x] = 0 /\ got'[x][y] = 0
      BY <1>1, <1>6, <3>0 DEF Strange
    <3>3. Cnt(x, y, Packets \ Requests)' = 0
      <4> DEFINE S == Packets \ Requests
      <4>1. Cnt(x, y, S) = 0 /\ JoinRequest \notin S
        BY <1>1, <3>0 DEF Strange
      <4> HIDE DEF S
      <4>2. Cnt(x, y, S)' = 0
        BY <1>4, <4>1, AskCountsNone
      <4> QED BY <4>2 DEF S, Packets, Requests, Slots, PLR_BROADCAST, PLR_MASTER, Endpoints
    <3>4. Cnt(x, y, Requests)' <= 1
      <4>1. CASE x = e
        <5>1. Cnt(x, y, Requests) = 0
          BY <1>1, <4>1, NoneOfFresh
        <5> QED BY <1>4, <5>1, AskCountsNone
      <4>2. CASE x # e
        BY <1>4, <3>0, <4>2, AskCountsNone DEF Strange
      <4> QED BY <4>1, <4>2
    <3> QED BY <3>1, <3>2, <3>3, <3>4 DEF Strange, Requests, Packets, Slots, PLR_BROADCAST, PLR_MASTER, Endpoints
  <2>5. ASSUME NEW m \in Programs, NEW y \in Programs \ {m} PROVE Cnt(m, y, Connects(x))' = 0
    <3> DEFINE S == Connects(x)
    <3>1. Cnt(m, y, S) = 0 /\ JoinRequest \notin S
      BY <1>1, <2>1, Kinds DEF Unknown
    <3> HIDE DEF S
    <3>2. Cnt(m, y, S)' = 0
      BY <1>4, <3>1, AskCountsNone
    <3> QED BY <3>2 DEF S, Connects
  <2>6. ~ Joined(x)'
    BY <1>6, <2>1 DEF Unknown
  <2> QED BY <2>3, <2>4, <2>5, <2>6 DEF Unknown
<1>8. ASSUME NEW y \in Programs \ {x} PROVE Asked(x, y)'
  <2>0. Asked(x, y)
    BY DEF InvU
  <2>1. CASE x = e
    <3>1. ~ Fresh(x)'
      BY <1>5, <2>1, ConnectionTypes DEF Fresh, NoEndpoint
    <3>2. y # f => Cnt(x, y, Requests)' = 0
      <4>1. Cnt(x, y, Requests) = 0
        BY <1>1, <2>1, NoneOfFresh
      <4> QED BY <1>4, <4>1, AskCountsNone
    <3>3. Cnt(x, y, Requests)' > 0 => firstpeer'[x] = <<y>>
      BY <1>5, <2>1, <3>2
    <3> QED BY <3>1, <3>3 DEF Asked, Requests
  <2>2. CASE x # e
    <3>1. firstpeer'[x] = firstpeer[x] /\ (Fresh(x)' <=> Fresh(x))
      BY <1>5, <1>6, <2>2 DEF Fresh, NoEndpoint
    <3>2. Fresh(x)' => Cnt(x, y, Packets)' = 0
      BY <1>4, <2>0, <2>2, <3>1, AskCountsNone DEF Asked
    <3>3. Cnt(x, y, Requests)' > 0 => Cnt(x, y, Requests) > 0
      <4>1. Cnt(x, y, Requests) = 0 => Cnt(x, y, Requests)' = 0
        BY <1>4, <2>2, AskCountsNone
      <4>2. Cnt(x, y, Requests) \in Nat
        BY LanesTyped
      <4> DEFINE n == Cnt(x, y, Requests)'
                 k == Cnt(x, y, Requests)
      <4>3. (k = 0 => n = 0) /\ k \in Nat
        BY <4>1, <4>2 DEF Requests
      <4> HIDE DEF n, k
      <4>4. n > 0 => k > 0
        BY <4>3
      <4> QED BY <4>4 DEF n, k, Requests
    <3> QED BY <2>0, <3>1, <3>2, <3>3 DEF Asked, Requests, Packets, Slots, PLR_BROADCAST, PLR_MASTER, Endpoints
  <2> QED BY <2>1, <2>2
<1> QED BY <1>7, <1>8

--------------------------------------------------------------------------------
(* The steps that are acts keep the invariant.                                 *)

LEMMA ActKeeps ==
    ASSUME Typed, Typed', MeshInv, NEW e \in Programs, NEW g \in Programs, NEW others, NEW out, NEW extra,
           Act(e, g, others, out, extra), Counts(e, g, out), Heard(e, g, others), InvU'
    PROVE  MeshInv'
<1> USE DEF MeshInv
<1>1. Talk(e, g, out, extra) /\ Move(e, g, others, out)
  BY DEF Act
<1>2. InvI'
  BY <1>1, TalkInvI
<1>3. InvK'
  BY <1>1, TalkInvK
<1>4. InvN'
  BY <1>1, TalkInvN
<1>5. InvS'
  BY <1>1, <1>2, <1>3, TalkInvS
<1>6. InvV'
  BY <1>1, TalkInvV
<1>7. InvW'
  BY <1>1, MoveInvW DEF Talk, Alone
<1>8. InvL'
  BY ActInvL
<1>9. InvA'
  BY ActInvA
<1>10. InvQ'
  BY ActInvQ
<1>11. InvC'
  BY ActInvC
<1>12. InvT'
  BY ActInvT
<1> QED BY <1>2, <1>3, <1>4, <1>5, <1>6, <1>7, <1>8, <1>9, <1>10, <1>11, <1>12

LEMMA ActsKeep ==
    ASSUME Typed, Typed', MeshInv, NEW e \in Programs, Acts(e)
    PROVE  MeshInv'
<1>1. PICK g \in Programs : \E others, out : Act(e, g, others, out, {}) /\ Counts(e, g, out) /\ Heard(e, g, others)
  BY DEF Acts
<1>2. PICK others, out : Act(e, g, others, out, {}) /\ Counts(e, g, out) /\ Heard(e, g, others)
  BY <1>1
<1>3. InvU'
  BY <1>2, TalkInvU DEF MeshInv, Act
<1> QED BY <1>2, <1>3, ActKeeps

LEMMA AskToJoinKeeps ==
    ASSUME Typed, Typed', MeshInv, NEW e \in Programs, NEW f \in Programs \ {e}, AskToJoin(e, f)
    PROVE  MeshInv'
<1>1. PICK out : /\ Act(e, e, {}, out, Requests) /\ Counts(e, e, out) /\ Heard(e, e, {})
                 /\ out[f] = <<JoinRequest>> /\ \A y \in Programs \ {f} : out[y] = <<>>
  BY AskActs DEF MeshInv
<1>2. InvU'
  BY AskInvU DEF MeshInv
<1> QED BY <1>1, <1>2, ActKeeps

--------------------------------------------------------------------------------
(* Steps that change what one connection is between e and f.                   *)

Aside(e, f, x, y) == ~ (x = e /\ y = f) /\ ~ (x = f /\ y = e)
Unmoved(x, y) == /\ SameLanes(x, y) /\ fd'[x][y] = fd[x][y]
                 /\ (<<x, y>> \in backlog' <=> <<x, y>> \in backlog)
                 /\ (<<x, y>> \in crossed' <=> <<x, y>> \in crossed)
Rewire(e, f) ==
    /\ e \notin gone /\ gone' = gone /\ peers' = peers
    /\ plr_self' = plr_self /\ firstpeer' = firstpeer /\ isConnected' = isConnected /\ awaiting' = awaiting
    /\ sent' = sent /\ got' = got /\ taken' = taken /\ crossed \subseteq crossed'
    /\ \A x \in Programs : \A y \in Programs \ {x} : Aside(e, f, x, y) => Unmoved(x, y)
    /\ Flow(e, e, NoLetters)
Rewired(e, f) ==
    /\ LinkW(e, f)' /\ LinkW(f, e)'
    /\ Unborn(e) /\ Unknown(e) /\ LinkOut(e, f) => LinkOut(e, f)'
    /\ Unborn(f) /\ Unknown(f) /\ LinkOut(f, e) => LinkOut(f, e)'
    /\ ~ Accepted(e, f) /\ ~ Accepted(f, e)
    /\ <<e, f>> \notin crossed' /\ e \notin gone /\ f \notin gone /\ LinkOk(e, f) =>
           LinkOk(e, f)' /\ Mail(e, f)' = Mail(e, f) /\ Mail(f, e)' = Mail(f, e)

LEMMA RewireTalk ==
    ASSUME Typed, Typed', InvK, InvS, NEW e \in Programs, NEW f \in Programs \ {e}, Rewire(e, f)
    PROVE  Talk(e, e, NoLetters, {})
<1> USE DEF Rewire
<1>1. Alone(e)
  BY DEF Alone
<1>2. Learns(e, e)
  BY DEF Learns, KnowsAt, Slots
<1>3. Table(e)
  <2> SUFFICES ASSUME NEW i \in Slots
               PROVE  /\ peers'[e][i].endpoint = NoEndpoint => peers'[e][i] = NoPeer
                      /\ ~ peers'[e][i].queued => peers'[e][i].sendQueue = <<>>
                      /\ peers'[e][i].endpoint # NoEndpoint => i \in isConnected'[e]
                      /\ peers'[e][i].sendQueue \in Seq(HeldFor(e, i)')
    BY DEF Table
  <2>1. peers[e][i].sendQueue \in Seq(HeldFor(e, i))
    BY DEF InvS
  <2>2. peers[e][i].sendQueue \in Seq(HeldFor(e, i)')
    BY <2>1, HeldForKept
  <2> QED BY <2>2 DEF InvK, TableOk
<1>4. Self(e, e, {})
  BY DEF Self, InvK, TableOk, Joined
<1>5. Says(e, NoLetters, {})
  <2> SUFFICES ASSUME NEW y \in Programs \ {e} PROVE <<>> \in Seq(GoodFor(e, y)' \cup {})
    BY DEF Says, NoLetters
  <2> QED OBVIOUS
<1> QED BY <1>1, <1>2, <1>3, <1>4, <1>5 DEF Talk

\* What stays as it was.
LEMMA RewireSame ==
    ASSUME Typed, Typed', InvK, InvS, InvI, NEW e \in Programs, NEW f \in Programs \ {e}, Rewire(e, f),
           NEW x \in Programs, NEW y \in Programs
    PROVE  /\ Joined(x)' <=> Joined(x)
           /\ \A i \in Slots : KnowsAt(x, y, i)' <=> KnowsAt(x, y, i)
           /\ Met(x, y)' <=> Met(x, y)
           /\ Intro(x, y)' => Intro(x, y)
           /\ x # y => \A set : Cnt(x, y, set)' <= Cnt(x, y, set)
           /\ x # y /\ Aside(e, f, x, y) => \A set : Cnt(x, y, set)' = Cnt(x, y, set)
<1>1. Talk(e, e, NoLetters, {})
  BY RewireTalk
<1>2. Intro(x, y)' => Intro(x, y)
  BY <1>1, TalkTold
<1>3. ASSUME x # y, NEW set PROVE Cnt(x, y, set)' <= Cnt(x, y, set)
  <2> DEFINE n == Cnt(x, y, set)'
             k == Cnt(x, y, set)
             j == IF x = e THEN Count(NoLetters[y], set) ELSE 0
  <2>1. n + (IF y = e /\ x = e /\ Arrived(e, e) \in set THEN 1 ELSE 0) <= k + j
    BY <1>3 DEF Rewire, Flow
  <2>2. j = 0
    BY CountBasics DEF NoLetters
  <2>3. n \in Nat /\ k \in Nat
    BY <1>3, LanesTyped, LanesTypedAfter
  <2> HIDE DEF n, k, j
  <2>4. n <= k
    BY <1>3, <2>1, <2>2, <2>3
  <2> QED BY <2>4 DEF n, k
<1>4. ASSUME x # y, Aside(e, f, x, y), NEW set PROVE Cnt(x, y, set)' = Cnt(x, y, set)
  <2>1. SameLanes(x, y)
    BY <1>4 DEF Rewire, Unmoved
  <2> QED BY <2>1 DEF SameLanes, Cnt
<1> QED BY <1>2, <1>3, <1>4 DEF Rewire, Joined, KnowsAt, Met, Slots

LEMMA LinkOkBoth ==
    ASSUME NEW x, NEW y, LinkOk(x, y)
    PROVE  LinkOk(y, x)
BY DEF LinkOk

LEMMA LinkOkBothAfter ==
    ASSUME NEW x, NEW y, LinkOk(x, y)'
    PROVE  LinkOk(y, x)'
BY DEF LinkOk

LEMMA UnmovedMail ==
    ASSUME Typed, Typed', NEW x \in Programs, NEW y \in Programs \ {x}, SameLanes(x, y), fd'[x][y] = fd[x][y]
    PROVE  Mail(x, y)' = Mail(x, y)
<1>1. /\ fd[x][y] = NoConnection \/ fd[x][y] = <<x, y>> \/ fd[x][y] = <<y, x>>
      /\ fd[x][y] = NoConnection => Mail(x, y) = L3(x, y)
      /\ fd[x][y] = <<x, y>> => Mail(x, y) = L1(x, y) \o L3(x, y)
      /\ fd[x][y] = <<y, x>> => Mail(x, y) = L2(x, y) \o L3(x, y)
  BY MailLanes
<1>2. /\ fd'[x][y] = NoConnection => Mail(x, y)' = L3(x, y)'
      /\ fd'[x][y] = <<x, y>> => Mail(x, y)' = L1(x, y)' \o L3(x, y)'
      /\ fd'[x][y] = <<y, x>> => Mail(x, y)' = L2(x, y)' \o L3(x, y)'
  BY MailLanesAfter
<1>3. L1(x, y)' = L1(x, y) /\ L2(x, y)' = L2(x, y) /\ L3(x, y)' = L3(x, y)
  BY DEF SameLanes
<1> QED BY <1>1, <1>2, <1>3

LEMMA RewireLinks ==
    ASSUME Typed, Typed', MeshInv, NEW e \in Programs, NEW f \in Programs \ {e}, Rewire(e, f), Rewired(e, f)
    PROVE  InvW' /\ InvL' /\ InvA' /\ InvQ'
<1> USE DEF MeshInv
<1>1. Talk(e, e, NoLetters, {})
  BY RewireTalk
<1>2. InvW'
  <2>1. ASSUME NEW x \in Programs, NEW y \in Programs \ {x} PROVE LinkW(x, y)'
    <3>1. CASE Aside(e, f, x, y)
      <4>1. Unmoved(x, y) /\ Unmoved(y, x) /\ LinkW(x, y) /\ gone' = gone
        <5>1. Aside(e, f, y, x)
          BY <3>1 DEF Aside
        <5> QED BY <3>1, <5>1 DEF Rewire, InvW
      <4> QED BY <4>1 DEF Unmoved, SameLanes, LinkW
    <3>2. CASE ~ Aside(e, f, x, y)
      BY <3>2 DEF Aside, Rewired
    <3> QED BY <3>1, <3>2
  <2>2. \A x \in gone', i \in Slots : peers'[x][i] = NoPeer
    BY DEF Rewire, InvW
  <2> QED BY <2>1, <2>2 DEF InvW, Slots, NoPeer, NoEndpoint
<1>3. InvL'
  <2> SUFFICES ASSUME NEW x \in Programs, Unborn(x)', NEW y \in Programs \ {x} PROVE LinkOut(x, y)'
    BY DEF InvL
  <2>1. Unborn(x) /\ Unknown(x)
    BY <1>1, TalkUnborn
  <2>2. LinkOut(x, y)
    BY <2>1 DEF InvL
  <2>3. CASE Aside(e, f, x, y)
    <3>1. Unmoved(x, y) /\ Unmoved(y, x) /\ gone' = gone
      <4>1. Aside(e, f, y, x)
        BY <2>3 DEF Aside
      <4> QED BY <2>3, <4>1 DEF Rewire
    <3> QED BY <2>2, <3>1 DEF Unmoved, LinkOut
  <2>4. CASE ~ Aside(e, f, x, y)
    BY <2>1, <2>2, <2>4 DEF Aside, Rewired
  <2> QED BY <2>3, <2>4
<1>4. ASSUME NEW m \in Programs, NEW x \in Programs \ {m}, x \notin gone, Cnt(m, x, Accepts) > 0
      PROVE  Accepted(m, x) /\ Aside(e, f, m, x) /\ Aside(e, f, x, m)
  <2>1. Accepted(m, x)
    BY <1>4 DEF InvA
  <2> QED BY <2>1 DEF Aside, Rewired
<1>5. InvA'
  <2> SUFFICES ASSUME NEW m \in Programs, NEW x \in Programs \ {m}, x \notin gone', Cnt(m, x, Accepts)' > 0
               PROVE  Accepted(m, x)'
    BY DEF InvA
  <2>1. Cnt(m, x, Accepts) > 0
    <3> DEFINE n == Cnt(m, x, Accepts)'
               k == Cnt(m, x, Accepts)
    <3>1. n <= k /\ n > 0 /\ n \in Nat /\ k \in Nat
      BY RewireSame, LanesTyped, LanesTypedAfter DEF Accepts
    <3> HIDE DEF n, k
    <3>2. k > 0
      BY <3>1
    <3> QED BY <3>2 DEF k
  <2>2. Accepted(m, x) /\ Aside(e, f, m, x) /\ Aside(e, f, x, m)
    BY <1>4, <2>1 DEF Rewire
  <2>3. Unmoved(m, x) /\ Unmoved(x, m) /\ gone' = gone /\ (Met(m, x)' <=> Met(m, x))
    BY <2>2, RewireSame DEF Rewire
  <2>4. Ahead(L2(m, x))' <=> Ahead(L2(m, x))
    BY <2>3 DEF Unmoved, SameLanes, Ahead, Held, Accepts, Packets, Slots, PLR_BROADCAST, PLR_MASTER, Endpoints, NoEndpoint, EchoTypes
  <2> QED BY <2>2, <2>3, <2>4 DEF Accepted, Unmoved, SameLanes
<1>6. InvQ'
  <2> SUFFICES ASSUME NEW x \in Programs, NEW y \in Programs \ {x},
                      (\E i \in Slots : KnowsAt(x, y, i)' /\ ~ peers'[x][i].queued) \/ Cnt(x, y, Held)' > 0
               PROVE  Ready(x, y)'
    BY DEF InvQ, Slots
  <2>1. Cnt(x, y, Held)' > 0 => Cnt(x, y, Held) > 0
    <3> DEFINE n == Cnt(x, y, Held)'
               k == Cnt(x, y, Held)
    <3>1. n <= k /\ n \in Nat /\ k \in Nat
      BY RewireSame, LanesTyped, LanesTypedAfter DEF Held
    <3> HIDE DEF n, k
    <3>2. n > 0 => k > 0
      BY <3>1
    <3> QED BY <3>2 DEF n, k, Held
  <2>2. Ready(x, y)
    <3>1. (\E i \in Slots : KnowsAt(x, y, i) /\ ~ peers[x][i].queued) \/ Cnt(x, y, Held) > 0
      BY <2>1, RewireSame DEF Rewire
    <3> QED BY <3>1 DEF InvQ
  <2>3. y \notin gone /\ Cnt(x, y, Accepts) > 0 => Cnt(x, y, Accepts)' > 0
    BY <1>4, RewireSame DEF Accepts
  <2>4. gone' = gone
    BY DEF Rewire
  <2> QED BY <2>2, <2>3, <2>4, RewireSame DEF Ready
<1> QED BY <1>2, <1>3, <1>5, <1>6

LEMMA RewireBond ==
    ASSUME Typed, Typed', MeshInv, NEW e \in Programs, NEW f \in Programs \ {e}, Rewire(e, f), Rewired(e, f),
           NEW x \in Programs, NEW y \in Programs \ {x}, Bond(x, y)'
    PROVE  Bond(x, y) /\ LinkOk(x, y)' /\ Mail(x, y)' = Mail(x, y)
<1> USE DEF MeshInv
<1>1. gone' = gone /\ crossed \subseteq crossed' /\ e \notin gone
  BY DEF Rewire
<1>2. Bond(x, y)
  <2>1. /\ Met(x, y)' => Met(x, y)
        /\ Met(y, x)' => Met(y, x)
        /\ Intro(x, y)' => Intro(x, y)
        /\ Intro(y, x)' => Intro(y, x)
    BY RewireSame
  <2> QED BY <1>1, <2>1 DEF Bond, Rel
<1>3. LinkOk(x, y)
  BY <1>2 DEF InvC
<1>4. x \notin gone /\ y \notin gone /\ <<x, y>> \notin crossed' /\ <<y, x>> \notin crossed'
  BY <1>1 DEF Bond
<1>5. CASE Aside(e, f, x, y)
  <2>1. Aside(e, f, y, x)
    BY <1>5 DEF Aside
  <2>2. Unmoved(x, y) /\ Unmoved(y, x)
    BY <1>5, <2>1 DEF Rewire
  <2>3. LinkOk(x, y)'
    BY <1>3, <2>2 DEF LinkOk, Unmoved
  <2>4. Mail(x, y)' = Mail(x, y)
    BY <2>2, UnmovedMail DEF Unmoved
  <2> QED BY <1>2, <2>3, <2>4
<1>6. CASE x = e /\ y = f
  BY <1>2, <1>3, <1>4, <1>6 DEF Rewired
<1>7. CASE x = f /\ y = e
  <2>1. LinkOk(e, f)
    BY <1>3, <1>7, LinkOkBoth
  <2>2. LinkOk(e, f)' /\ Mail(f, e)' = Mail(f, e)
    BY <1>4, <1>7, <2>1 DEF Rewired
  <2>3. LinkOk(f, e)'
    BY <2>2, LinkOkBothAfter
  <2> QED BY <1>2, <1>7, <2>2, <2>3
<1> QED BY <1>5, <1>6, <1>7 DEF Aside

LEMMA RewireKeeps ==
    ASSUME Typed, Typed', MeshInv, NEW e \in Programs, NEW f \in Programs \ {e}, Rewire(e, f), Rewired(e, f)
    PROVE  MeshInv'
<1>1. Talk(e, e, NoLetters, {})
  BY RewireTalk DEF MeshInv
<1>2. InvW' /\ InvL' /\ InvA' /\ InvQ'
  BY RewireLinks
<1>3. InvI' /\ InvK'
  BY <1>1, TalkInvI, TalkInvK DEF MeshInv
<1>4. InvN' /\ InvV'
  BY <1>1, TalkInvN, TalkInvV DEF MeshInv
<1>5. InvS'
  BY <1>1, <1>3, TalkInvS DEF MeshInv
<1>6. InvU'
  BY <1>1, TalkInvU DEF MeshInv
<1>7. InvC'
  <2> SUFFICES ASSUME NEW x \in Programs, NEW y \in Programs \ {x}, Bond(x, y)'
               PROVE  LinkOk(x, y)' /\ (Intro(x, y)' => got'[y][x] = 0)
    BY DEF InvC
  <2>1. Bond(x, y) /\ LinkOk(x, y)'
    BY RewireBond
  <2>2. Intro(x, y)' => Intro(x, y)
    BY RewireSame DEF MeshInv
  <2>3. Intro(x, y) => got[y][x] = 0
    BY <2>1 DEF MeshInv, InvC
  <2>4. got' = got
    BY DEF Rewire
  <2> QED BY <2>1, <2>2, <2>3, <2>4
<1>8. InvT'
  <2> SUFFICES ASSUME NEW x \in Programs, NEW y \in Programs \ {x}, NEW i \in Slots,
                      Bond(x, y)', ~ awaiting'[x], KnowsAt(x, y, i)', i \notin taken'[x]
               PROVE  Tally(Stream(x, y, i)', sent'[x], got'[y][x])
    BY DEF InvT, Slots, Tally
  <2>1. Bond(x, y) /\ Mail(x, y)' = Mail(x, y)
    BY RewireBond
  <2>2. /\ awaiting' = awaiting /\ taken' = taken /\ sent' = sent /\ got' = got /\ peers' = peers
        /\ KnowsAt(x, y, i)
    BY RewireSame DEF Rewire, MeshInv
  <2>3. Tally(Stream(x, y, i), sent[x], got[y][x])
    BY <2>1, <2>2 DEF MeshInv, InvT
  <2>4. Stream(x, y, i)' = Stream(x, y, i)
    BY <2>1, <2>2 DEF Stream, TurnPackets, Packets, Slots, PLR_BROADCAST, PLR_MASTER, Endpoints, NoEndpoint, EchoTypes
  <2> QED BY <2>2, <2>3, <2>4
<1> QED BY <1>2, <1>3, <1>4, <1>5, <1>6, <1>7, <1>8 DEF MeshInv

\* What Open does to connections and to what is on them.
Opened(e, f) ==
    /\ e \notin gone /\ fd[e][f] = NoConnection /\ send_queue[e][f] # <<>>
    /\ <<e, f>> \notin backlog /\ fd[f][e] # <<e, f>>
    /\ fd'[e][f] = <<e, f>> /\ \A x, y \in Programs : x # e \/ y # f => fd'[x][y] = fd[x][y]
    /\ backlog' = IF f \in gone THEN backlog ELSE backlog \cup {<<e, f>>}
    /\ crossed' = IF fd[f][e] = <<f, e>> THEN crossed \cup {<<e, f>>, <<f, e>>} ELSE crossed
    /\ \A d \in Connections : \A g \in Ends(d) : wire'[d][g] =
           IF d = <<e, f>> THEN IF g = f /\ f \notin gone THEN send_queue[e][f] ELSE <<>>
           ELSE wire[d][g]
    /\ send_queue'[e][f] = <<>>
    /\ \A y \in Programs \ {f} :
           send_queue'[e][y] = IF fd[e][y] = NoConnection THEN send_queue[e][y] ELSE <<>>
    /\ \A x \in Programs \ {e} : send_queue'[x] = send_queue[x]

LEMMA OpenShape ==
    ASSUME Typed, NEW e \in Programs, NEW f \in Programs \ {e}, Open(e, f)
    PROVE  Opened(e, f) /\ UNCHANGED <<gameVars, turnVars, gone, taken>>
<1> DEFINE c == <<e, f>>
           to == [g \in Programs |-> IF g = f THEN send_queue[e][f] ELSE <<>>]
           fresh == [wire EXCEPT ![c] = [g \in Ends(c) |-> <<>>]]
<1>1. /\ fd' = [fd EXCEPT ![e][f] = c]
      /\ backlog' = IF f \in gone THEN backlog ELSE backlog \cup {c}
      /\ Deliver(e, fd', fresh, send_queue, to)
      /\ crossed' = IF fd[f][e] = <<f, e>> THEN crossed \cup {c, <<f, e>>} ELSE crossed
      /\ UNCHANGED <<gameVars, turnVars, gone, taken>>
      /\ e \notin gone /\ fd[e][f] = NoConnection /\ send_queue[e][f] # <<>>
      /\ c \notin backlog /\ fd[f][e] # c
  BY DEF Open
<1>2. c \in Connections /\ c \in Between(e, f)
  BY ConnectionTypes DEF Between
<1>3. to \in Letters
  BY OneLetter
<1>4. \A d \in Connections : \A g \in Ends(d) : fresh[d][g] = IF d = c THEN <<>> ELSE wire[d][g]
  <2>1. IsWires(wire)
    BY DEF Typed
  <2> QED BY <1>2, <2>1 DEF IsWires
<1>5. IsWires(fresh)
  <2>1. IsWires(wire)
    BY DEF Typed
  <2>2. \A S : <<>> \in Seq(S)
    OBVIOUS
  <2>4. fresh = [d \in Connections |-> [g \in Ends(d) |-> fresh[d][g]]]
    BY <1>2, <2>1 DEF IsWires
  <2>5. \A d \in Connections : \A g \in Ends(d) : fresh[d][g] \in Seq(Sendable(g))
    <3> TAKE d \in Connections
    <3> TAKE g \in Ends(d)
    <3>1. wire[d][g] \in Seq(Sendable(g)) /\ (fresh[d][g] = <<>> \/ fresh[d][g] = wire[d][g])
      BY <1>4, <2>1 DEF IsWires
    <3> HIDE DEF fresh
    <3> QED BY <2>2, <3>1
  <2> HIDE DEF fresh
  <2> QED BY <2>4, <2>5 DEF IsWires
<1>6. to[f] = send_queue[e][f] /\ \A g \in Programs \ {f} : to[g] = <<>>
  OBVIOUS
<1>7. /\ fd'[e][f] = c
      /\ \A x, y \in Programs : x # e \/ y # f => fd'[x][y] = fd[x][y]
  <2> HIDE DEF c
  <2>1. /\ [fd EXCEPT ![e][f] = c][e][f] = c
        /\ \A x, y \in Programs : x # e \/ y # f => [fd EXCEPT ![e][f] = c][x][y] = fd[x][y]
    <3>1. fd \in [Programs -> [Programs -> {NoConnection} \cup Connections]]
      BY DEF Typed, IsFds, FdTables
    <3>2. c \in Connections
      BY <1>2
    <3> QED BY <3>1, <3>2
  <2>2. fd' = [fd EXCEPT ![e][f] = c]
    BY <1>1
  <2> QED BY <2>1, <2>2
<1>8. Ends(c) = {e, f} /\ \A d \in Connections : Ends(d) \subseteq Programs
  BY ConnectionTypes
<1>9. /\ send_queue[e][f] \in Seq(Packets)
      /\ \A y \in Programs : send_queue[e][y] \in Seq(Packets) /\ send_queue[e][y] \o <<>> = send_queue[e][y]
  <2>1. \A y \in Programs : send_queue[e][y] \in Seq(Packets)
    BY AllPlain DEF Plain
  <2>2. \A s \in Seq(Packets) : s \o <<>> = s
    OBVIOUS
  <2> QED BY <2>1, <2>2
<1>10. \A d \in Connections : \A g \in Ends(d) : wire[d][g] \in Seq(Packets) /\ wire[d][g] \o <<>> = wire[d][g]
  <2>1. \A d \in Connections : \A g \in Ends(d) : wire[d][g] \in Seq(Packets)
    BY AllPlain DEF Plain
  <2>2. \A s \in Seq(Packets) : s \o <<>> = s
    OBVIOUS
  <2> QED BY <2>1, <2>2
<1>11. <<>> \o send_queue[e][f] = send_queue[e][f] /\ <<>> \o <<>> = <<>>
  <2>1. \A s \in Seq(Packets) : <<>> \o s = s
    OBVIOUS
  <2> QED BY <1>9, <2>1
<1> HIDE DEF c, to, fresh
<1> DEFINE fds == fd'
<1>12. Deliver(e, fds, fresh, send_queue, to)
  BY <1>1
<1>13. fds = fd'
  OBVIOUS
<1> HIDE DEF fds
<1>14. Delivered(e, fds, fresh, send_queue, to)
  BY <1>3, <1>5, <1>12, DeliverShape DEF Typed
<1>15. c \in backlog' <=> f \notin gone
  BY <1>1
<1>16. ASSUME NEW d \in Connections, NEW g \in Ends(d)
       PROVE  wire'[d][g] = IF d = c THEN IF g = f /\ f \notin gone THEN send_queue[e][f] ELSE <<>>
                            ELSE wire[d][g]
  <2>1. wire'[d][g] = IF g # e /\ e \in Ends(d) /\ fds[e][g] = d /\ (fds[g][e] = d \/ d \in backlog')
                      THEN fresh[d][g] \o to[g] ELSE fresh[d][g]
    BY <1>14 DEF Delivered
  <2>2. g \in Programs
    BY <1>8
  <2>3. CASE d = c
    <3>1. fresh[d][g] = <<>>
      BY <1>4, <2>3
    <3>2. g = e \/ g = f
      BY <1>8, <2>3
    <3>3. e # f
      OBVIOUS
    <3>4. CASE g = f
      <4>1. fds[e][f] = d /\ fds[f][e] # d
        BY <1>1, <1>7, <1>13, <2>3
      <4>2. e \in Ends(d)
        BY <1>8, <2>3
      <4> QED BY <1>6, <1>11, <1>15, <2>1, <2>3, <3>1, <3>3, <3>4, <4>1, <4>2
    <3>5. CASE g = e
      BY <2>1, <2>3, <3>1, <3>3, <3>5
    <3> QED BY <3>2, <3>4, <3>5
  <2>4. CASE d # c
    <3>1. fresh[d][g] = wire[d][g]
      BY <1>4, <2>4
    <3>2. g = f => fds[e][g] # d
      BY <1>7, <1>13, <2>4
    <3>3. g # f => to[g] = <<>>
      BY <1>6, <2>2
    <3> QED BY <1>10, <2>1, <2>4, <3>1, <3>2, <3>3
  <2> QED BY <2>3, <2>4
<1>17. /\ send_queue'[e][f] = <<>>
       /\ \A y \in Programs \ {f} :
              send_queue'[e][y] = IF fd[e][y] = NoConnection THEN send_queue[e][y] ELSE <<>>
       /\ \A x \in Programs \ {e} : send_queue'[x] = send_queue[x]
  <2>1. \A y \in Programs : send_queue'[e][y] = IF fds[e][y] = NoConnection THEN send_queue[e][y] \o to[y] ELSE <<>>
    BY <1>14 DEF Delivered
  <2>2. NoConnection # c
    BY ConnectionTypes, <1>2
  <2>3. send_queue'[e][f] = <<>>
    BY <1>7, <1>13, <2>1, <2>2
  <2>4. \A y \in Programs \ {f} : send_queue'[e][y] = IF fd[e][y] = NoConnection THEN send_queue[e][y] ELSE <<>>
    <3> TAKE y \in Programs \ {f}
    <3>1. fds[e][y] = fd[e][y] /\ to[y] = <<>> /\ send_queue[e][y] \o <<>> = send_queue[e][y]
      BY <1>6, <1>7, <1>9, <1>13
    <3> QED BY <2>1, <3>1
  <2>5. \A x \in Programs \ {e} : send_queue'[x] = send_queue[x]
    BY <1>14 DEF Delivered
  <2> QED BY <2>3, <2>4, <2>5
<1> QED BY <1>1, <1>7, <1>16, <1>17 DEF Opened, c

\* Only what e has held back for f is on another lane.
LEMMA OpenLanes ==
    ASSUME Typed, InvW, NEW e \in Programs, NEW f \in Programs \ {e}, Opened(e, f)
    PROVE  /\ L1(e, f) = <<>> /\ L1(e, f)' = IF f \in gone THEN <<>> ELSE L3(e, f)
           /\ L2(e, f)' = L2(e, f) /\ L3(e, f) # <<>> /\ L3(e, f)' = <<>>
           /\ SameLanes(f, e) /\ L2(f, e) = <<>>
           /\ \A x \in Programs : \A y \in Programs \ {x} : Aside(e, f, x, y) => SameLanes(x, y)
<1> USE DEF Opened
<1>1. LinkW(e, f) /\ \A y \in Programs \ {e} : fd[e][y] # NoConnection => L3(e, y) = <<>>
  BY DEF InvW, LinkW
<1>2. /\ <<e, f>> \in Connections /\ <<f, e>> \in Connections /\ <<e, f>> # <<f, e>>
      /\ e \in Ends(<<e, f>>) /\ f \in Ends(<<e, f>>) /\ e \in Ends(<<f, e>>) /\ f \in Ends(<<f, e>>)
      /\ NoConnection # <<e, f>>
  BY PairTypes
<1>3. e # f
  OBVIOUS
<1>4. L1(e, f) = <<>> /\ L2(f, e) = <<>>
  BY <1>1, <1>2 DEF LinkW
<1>5. L1(e, f)' = IF f \in gone THEN <<>> ELSE L3(e, f)
  BY <1>2 DEF L1, L3
<1>6. L2(e, f)' = L2(e, f)
  BY <1>2 DEF L2
<1>7. L3(e, f) # <<>> /\ L3(e, f)' = <<>>
  BY DEF L3
<1>8. SameLanes(f, e)
  <2>1. L1(f, e)' = L1(f, e) /\ L3(f, e)' = L3(f, e)
    BY <1>2, <1>3 DEF L1, L3
  <2>2. L2(f, e)' = <<>>
    BY <1>2, <1>3 DEF L2
  <2> QED BY <1>4, <2>1, <2>2 DEF SameLanes
<1>9. ASSUME NEW x \in Programs, NEW y \in Programs \ {x}, Aside(e, f, x, y) PROVE SameLanes(x, y)
  <2>1. /\ <<x, y>> \in Connections /\ <<y, x>> \in Connections /\ y \in Ends(<<x, y>>) /\ y \in Ends(<<y, x>>)
    BY PairTypes
  <2>2. <<x, y>> # <<e, f>> /\ <<y, x>> # <<e, f>>
    BY <1>9, ConnectionTypes DEF Aside
  <2>3. L1(x, y)' = L1(x, y) /\ L2(x, y)' = L2(x, y)
    BY <2>1, <2>2 DEF L1, L2
  <2>4. L3(x, y)' = L3(x, y)
    <3>1. CASE x = e
      <4>1. y # f /\ y \in Programs \ {e}
        BY <1>9, <3>1 DEF Aside
      <4> QED BY <1>1, <3>1, <4>1 DEF L3
    <3>2. CASE x # e
      BY <3>2 DEF L3
    <3> QED BY <3>1, <3>2
  <2> QED BY <2>3, <2>4 DEF SameLanes
<1> QED BY <1>4, <1>5, <1>6, <1>7, <1>8, <1>9

LEMMA OpenRewires ==
    ASSUME Typed, Typed', InvW, NEW e \in Programs, NEW f \in Programs \ {e}, Opened(e, f),
           UNCHANGED <<gameVars, turnVars, gone, taken>>
    PROVE  Rewire(e, f)
<1>1. ASSUME NEW x \in Programs, NEW y \in Programs \ {x}, Aside(e, f, x, y) PROVE Unmoved(x, y)
  <2>1. SameLanes(x, y)
    BY <1>1, OpenLanes
  <2>2. <<x, y>> # <<e, f>> /\ <<x, y>> # <<f, e>> /\ (x # e \/ y # f)
    BY <1>1, ConnectionTypes DEF Aside
  <2> QED BY <2>1, <2>2 DEF Unmoved, Opened
<1>2. Flow(e, e, NoLetters)
  <2> SUFFICES ASSUME NEW x \in Programs, NEW y \in Programs \ {x}, NEW set
               PROVE  Cnt(x, y, set)' + (IF y = e /\ x = e /\ Arrived(e, e) \in set THEN 1 ELSE 0)
                          <= Cnt(x, y, set) + (IF x = e THEN Count(NoLetters[y], set) ELSE 0)
    BY DEF Flow
  <2>1. Count(NoLetters[y], set) = 0
    BY CountBasics DEF NoLetters
  <2> DEFINE k == Cnt(x, y, set)
             n == Cnt(x, y, set)'
  <2>2. k \in Nat /\ n \in Nat
    BY LanesTyped, LanesTypedAfter
  <2>3. n <= k
    <3>1. CASE SameLanes(x, y)
      BY <2>2, <3>1 DEF SameLanes, Cnt
    <3>2. CASE x = e /\ y = f
      <4> DEFINE a == Count(L2(e, f), set)
                 b == Count(L3(e, f), set)
      <4>1. a \in Nat /\ b \in Nat
        BY LanesTyped, CountBasics
      <4>2. Count(<<>>, set) = 0
        BY CountBasics
      <4>3. k = 0 + a + b
        BY <3>2, <4>2, OpenLanes DEF Cnt
      <4>4. n = 0 + a + 0 \/ n = b + a + 0
        BY <3>2, <4>2, OpenLanes DEF Cnt
      <4> HIDE DEF k, n, a, b
      <4> QED BY <4>1, <4>3, <4>4
    <3>3. SameLanes(x, y) \/ (x = e /\ y = f)
      BY OpenLanes DEF Aside
    <3> QED BY <3>1, <3>2, <3>3
  <2> HIDE DEF k, n
  <2>4. ~ (y = e /\ x = e)
    OBVIOUS
  <2>5. n + (IF y = e /\ x = e /\ Arrived(e, e) \in set THEN 1 ELSE 0)
            <= k + (IF x = e THEN Count(NoLetters[y], set) ELSE 0)
    BY <2>1, <2>2, <2>3, <2>4
  <2> QED BY <2>5 DEF k, n
<1>3. e \notin gone /\ crossed \subseteq crossed'
  BY DEF Opened
<1> QED BY <1>1, <1>2, <1>3 DEF Rewire, gameVars, turnVars

LEMMA OpenRewired ==
    ASSUME Typed, Typed', InvW, NEW e \in Programs, NEW f \in Programs \ {e}, Opened(e, f),
           gone' = gone, Rewire(e, f)
    PROVE  Rewired(e, f)
<1>1. /\ e \notin gone /\ fd[e][f] = NoConnection /\ <<e, f>> \notin backlog /\ fd[f][e] # <<e, f>>
      /\ fd'[e][f] = <<e, f>> /\ fd'[f][e] = fd[f][e]
      /\ backlog' = IF f \in gone THEN backlog ELSE backlog \cup {<<e, f>>}
      /\ crossed' = IF fd[f][e] = <<f, e>> THEN crossed \cup {<<e, f>>, <<f, e>>} ELSE crossed
  BY DEF Opened
<1>2. /\ L1(e, f) = <<>> /\ L1(e, f)' = IF f \in gone THEN <<>> ELSE L3(e, f)
      /\ L2(e, f)' = L2(e, f) /\ L3(e, f) # <<>> /\ L3(e, f)' = <<>>
      /\ SameLanes(f, e) /\ L2(f, e) = <<>>
  BY OpenLanes
<1>3. LinkW(e, f) /\ LinkW(f, e)
  BY DEF InvW
<1>4. <<e, f>> # <<f, e>> /\ NoConnection # <<e, f>> /\ NoConnection # <<f, e>>
  BY PairTypes
<1>5. LinkW(e, f)' /\ LinkW(f, e)'
  BY <1>1, <1>2, <1>3, <1>4 DEF LinkW, SameLanes
<1>6. LinkOut(e, f) => LinkOut(e, f)'
  BY <1>1, <1>4 DEF LinkOut
<1>7. ~ Unknown(f)
  <2>1. L3(e, f) \in Seq(Packets)
    BY LanesTyped
  <2>2. Count(L3(e, f), Packets) >= 1
    <3> DEFINE a == L3(e, f)
               k == Count(Tail(a), Packets)
    <3>1. a # <<>> /\ a \in Seq(Packets)
      BY <1>2, <2>1
    <3> HIDE DEF a
    <3>2. /\ Head(a) \in Packets /\ Tail(a) \in Seq(Packets)
          /\ Count(a, Packets) = k + IF Head(a) \in Packets THEN 1 ELSE 0
      BY <3>1, CountHead
    <3>3. k \in Nat
      BY <3>2, CountBasics
    <3> HIDE DEF k
    <3>4. Count(a, Packets) >= 1
      BY <3>2, <3>3
    <3> QED BY <3>4 DEF a
  <2>3. Count(L1(e, f), Packets) \in Nat /\ Count(L2(e, f), Packets) \in Nat /\ Count(L3(e, f), Packets) \in Nat
    BY LanesTyped, CountBasics
  <2>4. Cnt(e, f, Packets) # 0
    <3> DEFINE a == Count(L1(e, f), Packets)
               b == Count(L2(e, f), Packets)
               c == Count(L3(e, f), Packets)
    <3>1. a \in Nat /\ b \in Nat /\ c \in Nat /\ c >= 1
      BY <2>2, <2>3
    <3> HIDE DEF a, b, c
    <3>2. a + b + c # 0
      BY <3>1
    <3> QED BY <3>2 DEF a, b, c, Cnt
  <2> QED BY <2>4 DEF Unknown, Strange
<1>8. ~ Accepted(e, f) /\ ~ Accepted(f, e)
  BY <1>1, <1>2, <1>4 DEF Accepted
<1>9. ASSUME <<e, f>> \notin crossed', e \notin gone, f \notin gone, LinkOk(e, f)
      PROVE  LinkOk(e, f)' /\ Mail(e, f)' = Mail(e, f) /\ Mail(f, e)' = Mail(f, e)
  <2>1. fd[f][e] = NoConnection /\ <<f, e>> \notin backlog
    BY <1>1, <1>4, <1>9 DEF LinkOk
  <2>2. LinkOk(e, f)'
    BY <1>1, <1>4, <1>9, <2>1 DEF LinkOk
  <2>3. Mail(f, e)' = Mail(f, e)
    BY <1>1, <1>2, UnmovedMail
  <2>4. Mail(e, f) = L3(e, f)
    BY <1>1, MailLanes
  <2>5. Mail(e, f)' = L3(e, f) \o <<>>
    <3>1. Mail(e, f)' = L1(e, f)' \o L3(e, f)'
      BY <1>1, MailLanesAfter
    <3> QED BY <1>2, <1>9, <3>1
  <2>6. L3(e, f) \o <<>> = L3(e, f)
    <3>1. \A s \in Seq(Packets) : s \o <<>> = s
      OBVIOUS
    <3>2. L3(e, f) \in Seq(Packets)
      BY LanesTyped
    <3> QED BY <3>1, <3>2
  <2> QED BY <2>2, <2>3, <2>4, <2>5, <2>6
<1> QED BY <1>5, <1>6, <1>7, <1>8, <1>9 DEF Rewired

LEMMA OpenKeeps ==
    ASSUME Typed, Typed', MeshInv, NEW e \in Programs, NEW f \in Programs \ {e}, Open(e, f)
    PROVE  MeshInv'
<1>1. Opened(e, f) /\ UNCHANGED <<gameVars, turnVars, gone, taken>>
  BY OpenShape
<1>2. InvW
  BY DEF MeshInv
<1>3. Rewire(e, f)
  BY <1>1, <1>2, OpenRewires
<1>4. Rewired(e, f)
  BY <1>1, <1>2, <1>3, OpenRewired
<1> QED BY <1>3, <1>4, RewireKeeps

\* What Accept does to connections and to what is on them.
Admitted(e, f) ==
    /\ e \notin gone /\ <<f, e>> \in backlog
    /\ fd'[e][f] = <<f, e>> /\ \A x, y \in Programs : x # e \/ y # f => fd'[x][y] = fd[x][y]
    /\ backlog' = backlog \ {<<f, e>>} /\ crossed' = crossed
    /\ \A d \in Connections : \A g \in Ends(d) : wire'[d][g] =
           IF g = e /\ fd[e][f] = d THEN <<>>
           ELSE IF d = <<f, e>> /\ g = f
           THEN wire[d][f] \o (IF fd[f][e] = d /\ fd[e][f] = NoConnection THEN send_queue[e][f] ELSE <<>>)
           ELSE wire[d][g]
    /\ send_queue'[e][f] = <<>>
    /\ \A y \in Programs \ {f} :
           send_queue'[e][y] = IF fd[e][y] = NoConnection THEN send_queue[e][y] ELSE <<>>
    /\ \A x \in Programs \ {e} : send_queue'[x] = send_queue[x]

LEMMA AdmitLetters ==
    ASSUME Typed, NEW e \in Programs, NEW f \in Programs
    PROVE  [g \in Programs |-> IF g = f /\ fd[e][f] = NoConnection THEN send_queue[e][f] ELSE <<>>] \in Letters
<1> DEFINE to == [g \in Programs |-> IF g = f /\ fd[e][f] = NoConnection THEN send_queue[e][f] ELSE <<>>]
<1>1. CASE fd[e][f] = NoConnection
  <2>1. to = [g \in Programs |-> IF g = f THEN send_queue[e][f] ELSE <<>>]
    BY <1>1
  <2> QED BY <2>1, OneLetter
<1>2. CASE fd[e][f] # NoConnection
  <2>1. to = [g \in Programs |-> <<>>]
    BY <1>2
  <2>2. \A S : <<>> \in Seq(S)
    OBVIOUS
  <2> QED BY <2>1, <2>2 DEF Letters
<1> QED BY <1>1, <1>2

LEMMA AcceptShape ==
    ASSUME Typed, NEW e \in Programs, NEW f \in Programs \ {e}, Accept(e, f)
    PROVE  Admitted(e, f) /\ UNCHANGED <<gameVars, turnVars, gone, taken>>
<1> DEFINE c == <<f, e>>
           to == [g \in Programs |-> IF g = f /\ fd[e][f] = NoConnection THEN send_queue[e][f] ELSE <<>>]
           closed == ClosedWires(e, {f}, wire)
<1>1. /\ fd' = [fd EXCEPT ![e][f] = c] /\ backlog' = backlog \ {c}
      /\ Deliver(e, fd', closed, send_queue, to)
      /\ UNCHANGED <<gameVars, turnVars, gone, taken>> /\ crossed' = crossed
      /\ e \notin gone /\ c \in backlog
  BY DEF Accept
<1>2. c \in Connections
  BY ConnectionTypes
<1>3. to \in Letters
  BY AdmitLetters
<1>4. Closes(e, {f}, wire)
  BY ClosedShape DEF Typed
<1>5. \A d \in Connections : \A g \in Ends(d) : closed[d][g] = IF g = e /\ fd[e][f] = d THEN <<>> ELSE wire[d][g]
  <2>1. \A d \in Connections : \A g \in Ends(d) :
            closed[d][g] = IF g = e /\ (\E h \in {f} : fd[e][h] = d) THEN <<>> ELSE wire[d][g]
    BY <1>4 DEF Closes
  <2>2. \A d : (\E h \in {f} : fd[e][h] = d) <=> fd[e][f] = d
    OBVIOUS
  <2> HIDE DEF closed
  <2> QED BY <2>1, <2>2
<1>6. IsWires(closed)
  BY <1>4 DEF Closes
<1>7. /\ to[f] = IF fd[e][f] = NoConnection THEN send_queue[e][f] ELSE <<>>
      /\ \A g \in Programs \ {f} : to[g] = <<>>
  OBVIOUS
<1>8. /\ fd'[e][f] = c
      /\ \A x, y \in Programs : x # e \/ y # f => fd'[x][y] = fd[x][y]
  <2> HIDE DEF c
  <2>1. /\ [fd EXCEPT ![e][f] = c][e][f] = c
        /\ \A x, y \in Programs : x # e \/ y # f => [fd EXCEPT ![e][f] = c][x][y] = fd[x][y]
    <3>1. fd \in [Programs -> [Programs -> {NoConnection} \cup Connections]]
      BY DEF Typed, IsFds, FdTables
    <3> QED BY <1>2, <3>1
  <2>2. fd' = [fd EXCEPT ![e][f] = c]
    BY <1>1
  <2> QED BY <2>1, <2>2
<1>9. Ends(c) = {e, f} /\ \A d \in Connections : Ends(d) \subseteq Programs
  BY ConnectionTypes
<1>10. \A y \in Programs : send_queue[e][y] \in Seq(Packets) /\ send_queue[e][y] \o <<>> = send_queue[e][y]
  <2>1. \A y \in Programs : send_queue[e][y] \in Seq(Packets)
    BY AllPlain DEF Plain
  <2>2. \A s \in Seq(Packets) : s \o <<>> = s
    OBVIOUS
  <2> QED BY <2>1, <2>2
<1>11. \A d \in Connections : \A g \in Ends(d) : wire[d][g] \in Seq(Packets) /\ wire[d][g] \o <<>> = wire[d][g]
  <2>1. \A d \in Connections : \A g \in Ends(d) : wire[d][g] \in Seq(Packets)
    BY AllPlain DEF Plain
  <2>2. \A s \in Seq(Packets) : s \o <<>> = s
    OBVIOUS
  <2> QED BY <2>1, <2>2
<1>12. NoConnection # c /\ e # f
  BY PairTypes
<1>13. c \notin backlog'
  BY <1>1
<1> HIDE DEF c, to, closed
<1> DEFINE fds == fd'
<1>14. Deliver(e, fds, closed, send_queue, to)
  BY <1>1
<1>15. fds = fd'
  OBVIOUS
<1> HIDE DEF fds
<1>16. Delivered(e, fds, closed, send_queue, to)
  BY <1>3, <1>6, <1>14, DeliverShape DEF Typed
<1>17. ASSUME NEW d \in Connections, NEW g \in Ends(d)
       PROVE  wire'[d][g] = IF g = e /\ fd[e][f] = d THEN <<>>
                            ELSE IF d = c /\ g = f
                            THEN wire[d][f] \o (IF fd[f][e] = d /\ fd[e][f] = NoConnection THEN send_queue[e][f] ELSE <<>>)
                            ELSE wire[d][g]
  <2>1. wire'[d][g] = IF g # e /\ e \in Ends(d) /\ fds[e][g] = d /\ (fds[g][e] = d \/ d \in backlog')
                      THEN closed[d][g] \o to[g] ELSE closed[d][g]
    BY <1>16 DEF Delivered
  <2>2. g \in Programs
    BY <1>9
  <2>3. closed[d][g] = IF g = e /\ fd[e][f] = d THEN <<>> ELSE wire[d][g]
    BY <1>5
  <2>4. CASE g = e
    BY <1>12, <2>1, <2>3, <2>4
  <2>5. CASE g = f
    <3>1. fds[e][g] = c /\ fds[g][e] = fd[f][e]
      BY <1>8, <1>12, <1>15, <2>5
    <3>2. closed[d][g] = wire[d][f]
      BY <1>12, <2>3, <2>5
    <3>3. CASE d # c
      BY <1>12, <2>1, <2>5, <3>1, <3>2, <3>3
    <3>4. CASE d = c
      <4>1. wire'[d][g] = IF fd[f][e] = d THEN wire[d][f] \o to[f] ELSE wire[d][f]
        BY <1>9, <1>12, <1>13, <2>1, <2>5, <3>1, <3>2, <3>4
      <4>2. wire[d][f] \o <<>> = wire[d][f]
        BY <1>11, <2>5
      <4> QED BY <1>7, <1>12, <2>5, <3>4, <4>1, <4>2
    <3> QED BY <3>3, <3>4
  <2>6. CASE g # e /\ g # f
    <3>1. to[g] = <<>> /\ closed[d][g] = wire[d][g] /\ wire[d][g] \o <<>> = wire[d][g]
      BY <1>7, <1>11, <2>2, <2>3, <2>6
    <3> QED BY <2>1, <2>6, <3>1
  <2> QED BY <2>4, <2>5, <2>6
<1>18. /\ send_queue'[e][f] = <<>>
       /\ \A y \in Programs \ {f} :
              send_queue'[e][y] = IF fd[e][y] = NoConnection THEN send_queue[e][y] ELSE <<>>
       /\ \A x \in Programs \ {e} : send_queue'[x] = send_queue[x]
  <2>1. \A y \in Programs : send_queue'[e][y] = IF fds[e][y] = NoConnection THEN send_queue[e][y] \o to[y] ELSE <<>>
    BY <1>16 DEF Delivered
  <2>2. send_queue'[e][f] = <<>>
    BY <1>8, <1>12, <1>15, <2>1
  <2>3. \A y \in Programs \ {f} : send_queue'[e][y] = IF fd[e][y] = NoConnection THEN send_queue[e][y] ELSE <<>>
    <3> TAKE y \in Programs \ {f}
    <3>1. fds[e][y] = fd[e][y] /\ to[y] = <<>> /\ send_queue[e][y] \o <<>> = send_queue[e][y]
      BY <1>7, <1>8, <1>10, <1>15
    <3> QED BY <2>1, <3>1
  <2>4. \A x \in Programs \ {e} : send_queue'[x] = send_queue[x]
    BY <1>16 DEF Delivered
  <2> QED BY <2>2, <2>3, <2>4
<1> QED BY <1>1, <1>8, <1>17, <1>18 DEF Admitted, c

\* What e has held back for f follows on the connection that f has opened, if f still has it.
LEMMA AcceptLanes ==
    ASSUME Typed, InvW, NEW e \in Programs, NEW f \in Programs \ {e}, Admitted(e, f)
    PROVE  /\ L2(e, f) = <<>>
           /\ L2(e, f)' = IF fd[f][e] = <<f, e>> /\ fd[e][f] = NoConnection THEN L3(e, f) ELSE <<>>
           /\ L1(e, f)' = L1(e, f) /\ L3(e, f)' = <<>>
           /\ L1(f, e)' = L1(f, e) /\ L3(f, e)' = L3(f, e) /\ fd[e][f] # <<f, e>>
           /\ L2(f, e)' = (IF fd[e][f] = <<e, f>> THEN <<>> ELSE L2(f, e))
           /\ \A x \in Programs : \A y \in Programs \ {x} : Aside(e, f, x, y) => SameLanes(x, y)
<1> USE DEF Admitted
<1>1. LinkW(e, f) /\ LinkW(f, e) /\ \A y \in Programs \ {e} : fd[e][y] # NoConnection => L3(e, y) = <<>>
  BY DEF InvW, LinkW
<1>2. /\ <<e, f>> \in Connections /\ <<f, e>> \in Connections /\ <<e, f>> # <<f, e>>
      /\ e \in Ends(<<e, f>>) /\ f \in Ends(<<e, f>>) /\ e \in Ends(<<f, e>>) /\ f \in Ends(<<f, e>>)
      /\ NoConnection # <<e, f>>
  BY PairTypes
<1>3. e # f
  OBVIOUS
<1>4. L2(e, f) = <<>> /\ fd[e][f] # <<f, e>>
  BY <1>1 DEF LinkW
<1>5. L2(e, f)' = IF fd[f][e] = <<f, e>> /\ fd[e][f] = NoConnection THEN L3(e, f) ELSE <<>>
  <2> DEFINE q == IF fd[f][e] = <<f, e>> /\ fd[e][f] = NoConnection THEN L3(e, f) ELSE <<>>
  <2>1. wire'[<<f, e>>][f] = wire[<<f, e>>][f] \o q
    BY <1>2, <1>3 DEF L3
  <2>2. L2(e, f)' = <<>> \o q
    BY <1>4, <2>1 DEF L2
  <2>3. q \in Seq(Packets)
    BY LanesTyped
  <2> HIDE DEF q
  <2>4. L2(e, f)' = q
    BY <2>2, <2>3
  <2> QED BY <2>4 DEF q
<1>6. L1(e, f)' = L1(e, f)
  BY <1>2, <1>3 DEF L1
<1>7. L3(e, f)' = <<>> /\ L3(f, e)' = L3(f, e)
  BY <1>3 DEF L3
<1>8. L1(f, e)' = L1(f, e)
  BY <1>2, <1>3, <1>4 DEF L1
<1>9. L2(f, e)' = IF fd[e][f] = <<e, f>> THEN <<>> ELSE L2(f, e)
  BY <1>2, <1>3 DEF L2
<1>10. ASSUME NEW x \in Programs, NEW y \in Programs \ {x}, Aside(e, f, x, y) PROVE SameLanes(x, y)
  <2>1. /\ <<x, y>> \in Connections /\ <<y, x>> \in Connections /\ y \in Ends(<<x, y>>) /\ y \in Ends(<<y, x>>)
    BY PairTypes
  <2>2. <<x, y>> # <<e, f>> /\ <<y, x>> # <<e, f>> /\ <<x, y>> # <<f, e>> /\ <<y, x>> # <<f, e>>
    BY <1>10, ConnectionTypes DEF Aside
  <2>3. fd[e][f] # <<x, y>> /\ fd[e][f] # <<y, x>>
    <3>1. NoConnection # <<x, y>> /\ NoConnection # <<y, x>>
      BY PairTypes
    <3>2. fd[e][f] = NoConnection \/ fd[e][f] = <<e, f>> \/ fd[e][f] = <<f, e>>
      BY MailLanes
    <3> QED BY <2>2, <3>1, <3>2
  <2>4. L1(x, y)' = L1(x, y) /\ L2(x, y)' = L2(x, y)
    BY <2>1, <2>2, <2>3 DEF L1, L2
  <2>5. L3(x, y)' = L3(x, y)
    <3>1. CASE x = e
      <4>1. y # f /\ y \in Programs \ {e}
        BY <1>10, <3>1 DEF Aside
      <4> QED BY <1>1, <3>1, <4>1 DEF L3
    <3>2. CASE x # e
      BY <3>2 DEF L3
    <3> QED BY <3>1, <3>2
  <2> QED BY <2>4, <2>5 DEF SameLanes
<1> QED BY <1>4, <1>5, <1>6, <1>7, <1>8, <1>9, <1>10

\* Nothing is counted twice when it moves from a queue to a connection.
LEMMA MovedCount ==
    ASSUME NEW a \in Seq(Packets), NEW b \in Seq(Packets), NEW c \in Seq(Packets),
           NEW a2, NEW b2, NEW c2, NEW set,
           \/ a2 = a /\ b2 = b /\ c2 = c
           \/ a2 = a /\ b2 = <<>> /\ c2 = c
           \/ a2 = a /\ b = <<>> /\ (b2 = c \/ b2 = <<>>) /\ c2 = <<>>
    PROVE  Count(a2, set) + Count(b2, set) + Count(c2, set) <= Count(a, set) + Count(b, set) + Count(c, set)
<1> DEFINE i == Count(a, set)
           j == Count(b, set)
           k == Count(c, set)
<1>1. i \in Nat /\ j \in Nat /\ k \in Nat /\ Count(<<>>, set) = 0
  BY CountBasics
<1>2. \/ Count(a2, set) = i /\ Count(b2, set) = j /\ Count(c2, set) = k
      \/ Count(a2, set) = i /\ Count(b2, set) = 0 /\ Count(c2, set) = k
      \/ Count(a2, set) = i /\ (Count(b2, set) = k \/ Count(b2, set) = 0) /\ Count(c2, set) = 0
  BY <1>1
<1> HIDE DEF i, j, k
<1>3. Count(a2, set) + Count(b2, set) + Count(c2, set) <= i + j + k
  BY <1>1, <1>2
<1> QED BY <1>3 DEF i, j, k

LEMMA AcceptRewires ==
    ASSUME Typed, Typed', InvW, NEW e \in Programs, NEW f \in Programs \ {e}, Admitted(e, f),
           UNCHANGED <<gameVars, turnVars, gone, taken>>
    PROVE  Rewire(e, f)
<1>1. ASSUME NEW x \in Programs, NEW y \in Programs \ {x}, Aside(e, f, x, y) PROVE Unmoved(x, y)
  <2>1. SameLanes(x, y)
    BY <1>1, AcceptLanes
  <2>2. <<x, y>> # <<f, e>> /\ (x # e \/ y # f)
    BY <1>1, ConnectionTypes DEF Aside
  <2> QED BY <2>1, <2>2 DEF Unmoved, Admitted
<1>2. ASSUME NEW x \in Programs, NEW y \in Programs \ {x}, NEW set PROVE Cnt(x, y, set)' <= Cnt(x, y, set)
  <2>0. L1(x, y) \in Seq(Packets) /\ L2(x, y) \in Seq(Packets) /\ L3(x, y) \in Seq(Packets)
    BY LanesTyped
  <2>1. \/ L1(x, y)' = L1(x, y) /\ L2(x, y)' = L2(x, y) /\ L3(x, y)' = L3(x, y)
        \/ L1(x, y)' = L1(x, y) /\ L2(x, y)' = <<>> /\ L3(x, y)' = L3(x, y)
        \/ L1(x, y)' = L1(x, y) /\ L2(x, y) = <<>> /\ (L2(x, y)' = L3(x, y) \/ L2(x, y)' = <<>>)
           /\ L3(x, y)' = <<>>
    <3>1. CASE Aside(e, f, x, y)
      BY <3>1, AcceptLanes DEF SameLanes
    <3>2. CASE x = e /\ y = f
      BY <3>2, AcceptLanes
    <3>3. CASE x = f /\ y = e
      BY <3>3, AcceptLanes
    <3> QED BY <3>1, <3>2, <3>3 DEF Aside
  <2> QED BY <2>0, <2>1, MovedCount DEF Cnt
<1>3. Flow(e, e, NoLetters)
  <2> SUFFICES ASSUME NEW x \in Programs, NEW y \in Programs \ {x}, NEW set
               PROVE  Cnt(x, y, set)' + (IF y = e /\ x = e /\ Arrived(e, e) \in set THEN 1 ELSE 0)
                          <= Cnt(x, y, set) + (IF x = e THEN Count(NoLetters[y], set) ELSE 0)
    BY DEF Flow
  <2>1. Count(NoLetters[y], set) = 0
    BY CountBasics DEF NoLetters
  <2> DEFINE k == Cnt(x, y, set)
             n == Cnt(x, y, set)'
  <2>2. k \in Nat /\ n \in Nat
    BY LanesTyped, LanesTypedAfter
  <2>3. n <= k
    BY <1>2
  <2> HIDE DEF k, n
  <2>4. ~ (y = e /\ x = e)
    OBVIOUS
  <2>5. n + (IF y = e /\ x = e /\ Arrived(e, e) \in set THEN 1 ELSE 0)
            <= k + (IF x = e THEN Count(NoLetters[y], set) ELSE 0)
    BY <2>1, <2>2, <2>3, <2>4
  <2> QED BY <2>5 DEF k, n
<1>4. e \notin gone /\ crossed \subseteq crossed'
  BY DEF Admitted
<1> QED BY <1>1, <1>3, <1>4 DEF Rewire, gameVars, turnVars

LEMMA AcceptRewired ==
    ASSUME Typed, Typed', InvW, NEW e \in Programs, NEW f \in Programs \ {e}, Admitted(e, f), gone' = gone
    PROVE  Rewired(e, f)
<1>1. /\ e \notin gone /\ <<f, e>> \in backlog
      /\ fd'[e][f] = <<f, e>> /\ fd'[f][e] = fd[f][e]
      /\ backlog' = backlog \ {<<f, e>>} /\ crossed' = crossed
  BY DEF Admitted
<1>2. /\ L2(e, f) = <<>>
      /\ L2(e, f)' = IF fd[f][e] = <<f, e>> /\ fd[e][f] = NoConnection THEN L3(e, f) ELSE <<>>
      /\ L1(e, f)' = L1(e, f) /\ L3(e, f)' = <<>>
      /\ L1(f, e)' = L1(f, e) /\ L3(f, e)' = L3(f, e) /\ fd[e][f] # <<f, e>>
      /\ L2(f, e)' = IF fd[e][f] = <<e, f>> THEN <<>> ELSE L2(f, e)
  BY AcceptLanes
<1>3. LinkW(e, f) /\ LinkW(f, e)
  BY DEF InvW
<1>4. <<e, f>> # <<f, e>> /\ NoConnection # <<e, f>> /\ NoConnection # <<f, e>>
  BY PairTypes
<1>5. LinkW(e, f)' /\ LinkW(f, e)'
  BY <1>1, <1>2, <1>3, <1>4 DEF LinkW
<1>6. ~ LinkOut(e, f) /\ (LinkOut(f, e) => LinkOut(f, e)')
  BY <1>1, <1>4 DEF LinkOut
<1>7. ~ Accepted(e, f) /\ ~ Accepted(f, e)
  BY <1>1 DEF Accepted
<1>8. ASSUME LinkOk(e, f) PROVE LinkOk(e, f)' /\ Mail(e, f)' = Mail(e, f) /\ Mail(f, e)' = Mail(f, e)
  <2>1. fd[f][e] = <<f, e>> /\ fd[e][f] = NoConnection /\ <<e, f>> \notin backlog
    BY <1>1, <1>4, <1>8 DEF LinkOk
  <2>2. LinkOk(e, f)'
    BY <1>1, <1>4, <2>1 DEF LinkOk
  <2>3. Mail(f, e)' = Mail(f, e)
    <3>1. SameLanes(f, e)
      BY <1>2, <1>4, <2>1 DEF SameLanes
    <3> QED BY <1>1, <3>1, UnmovedMail
  <2>4. Mail(e, f) = L3(e, f)
    BY <2>1, MailLanes
  <2>5. Mail(e, f)' = L3(e, f) \o <<>>
    <3>1. Mail(e, f)' = L2(e, f)' \o L3(e, f)'
      BY <1>1, MailLanesAfter
    <3> QED BY <1>2, <2>1, <3>1
  <2>6. L3(e, f) \o <<>> = L3(e, f)
    <3>1. \A s \in Seq(Packets) : s \o <<>> = s
      OBVIOUS
    <3>2. L3(e, f) \in Seq(Packets)
      BY LanesTyped
    <3> QED BY <3>1, <3>2
  <2> QED BY <2>2, <2>3, <2>4, <2>5, <2>6
<1> QED BY <1>5, <1>6, <1>7, <1>8 DEF Rewired

LEMMA AcceptKeeps ==
    ASSUME Typed, Typed', MeshInv, NEW e \in Programs, NEW f \in Programs \ {e}, Accept(e, f)
    PROVE  MeshInv'
<1>1. Admitted(e, f) /\ UNCHANGED <<gameVars, turnVars, gone, taken>>
  BY AcceptShape
<1>2. InvW
  BY DEF MeshInv
<1>3. Rewire(e, f)
  BY <1>1, <1>2, AcceptRewires
<1>4. Rewired(e, f)
  BY <1>1, <1>2, AcceptRewired
<1> QED BY <1>3, <1>4, RewireKeeps

--------------------------------------------------------------------------------
(* A program ends.                                                             *)

Goodbye(e) == Disconnect(plr_self[e], plr_self[e])
SaysGoodbye(e, y) == Joined(e) /\ \E i \in Slots : KnowsAt(e, y, i) /\ ~ peers[e][i].queued
\* What has been sent on a connection may be lost from the end, or a farewell comes behind it.
Shortened(old, new) == \E rest \in Seq(Packets) : old = new \o rest
ExitLane(e, y, c, old, new) ==
    Shortened(old, new) \/ (new = Append(old, Goodbye(e)) /\ SaysGoodbye(e, y) /\ Reaches(e, y, c))
ExitLanes(e, y) ==
    /\ L1(y, e)' = <<>> /\ L2(y, e)' = <<>> /\ L3(y, e)' = L3(y, e) /\ L3(e, y)' = <<>>
    /\ ExitLane(e, y, <<e, y>>, L1(e, y), L1(e, y)') /\ ExitLane(e, y, <<y, e>>, L2(e, y), L2(e, y)')
Exit(e) ==
    /\ e \notin gone /\ gone' = gone \cup {e}
    /\ \A y \in Programs : fd'[e][y] = NoConnection
    /\ \A x \in Programs \ {e} : fd'[x] = fd[x] /\ peers'[x] = peers[x]
    /\ backlog' = {c \in backlog : c[2] # e} /\ crossed' = crossed
    /\ \A i \in Slots : peers'[e][i] = NoPeer
    /\ plr_self' = plr_self /\ firstpeer' = firstpeer /\ isConnected' = isConnected /\ awaiting' = awaiting
    /\ sent' = sent /\ got' = got /\ taken' = taken
    /\ \A y \in Programs \ {e} : ExitLanes(e, y)
    /\ \A x \in Programs \ {e} : \A y \in Programs \ {e, x} : SameLanes(x, y)

LEMMA WholeLane ==
    ASSUME NEW a \in Seq(Packets)
    PROVE  Shortened(a, a) /\ SubSeq(a, 1, Len(a)) = a
<1>1. a = a \o <<>> /\ <<>> \in Seq(Packets) /\ Len(a) \in 0 .. Len(a)
  OBVIOUS
<1> DEFINE b == SubSeq(a, 1, Len(a))
           r == SubSeq(a, Len(a) + 1, Len(a))
<1>2. b \in Seq(Packets) /\ Len(b) = Len(a) /\ r \in Seq(Packets) /\ a = b \o r
  BY <1>1, Cut
<1> HIDE DEF b, r
<1> DEFINE none == <<>>
<1>3. none \in Seq(Packets) /\ a \o none = b \o r
  BY <1>1, <1>2
<1> HIDE DEF none
<1>4. a = b
  BY <1>2, <1>3, PrefixUnique
<1> QED BY <1>1, <1>4 DEF Shortened, b

LEMMA EndedExit ==
    ASSUME Typed, NEW e \in Programs, e \notin gone, NEW lost, NEW wires, Ended(e, lost, wires),
           UNCHANGED <<plr_self, firstpeer, isConnected, awaiting, turnVars, crossed, taken>>,
           \A c \in Connections : \A y \in Ends(c) \ {e} :
               /\ fd[e][y] # c => wires[c][y] = wire[c][y]
               /\ fd[e][y] = c => ExitLane(e, y, c, wire[c][y], SubSeq(wires[c][y], 1, Len(wires[c][y]) - lost[y]))
    PROVE  Exit(e)
<1>1. /\ gone' = gone \cup {e}
      /\ fd' = [fd EXCEPT ![e] = [f \in Programs |-> NoConnection]]
      /\ send_queue' = [send_queue EXCEPT ![e] = [f \in Programs |-> <<>>]]
      /\ backlog' = {c \in backlog : c[2] # e}
      /\ peers' = [peers EXCEPT ![e] = [i \in Slots |-> NoPeer]]
      /\ wire' = [c \in Connections |-> [f \in Ends(c) |->
             IF f = e THEN <<>>
             ELSE IF fd[e][f] = c THEN SubSeq(wires[c][f], 1, Len(wires[c][f]) - lost[f])
             ELSE wires[c][f]]]
  BY DEF Ended
<1>2. ASSUME NEW c \in Connections, NEW y \in Ends(c)
      PROVE  /\ y = e => wire'[c][y] = <<>>
             /\ y # e /\ fd[e][y] # c => wire'[c][y] = wire[c][y]
             /\ y # e /\ fd[e][y] = c => ExitLane(e, y, c, wire[c][y], wire'[c][y])
  <2>1. wire'[c][y] = IF y = e THEN <<>>
                      ELSE IF fd[e][y] = c THEN SubSeq(wires[c][y], 1, Len(wires[c][y]) - lost[y])
                      ELSE wires[c][y]
    BY <1>1
  <2>2. y # e => /\ fd[e][y] # c => wires[c][y] = wire[c][y]
                 /\ fd[e][y] = c => ExitLane(e, y, c, wire[c][y], SubSeq(wires[c][y], 1, Len(wires[c][y]) - lost[y]))
    OBVIOUS
  <2> QED BY <2>1, <2>2
<1>3. ASSUME NEW y \in Programs \ {e} PROVE ExitLanes(e, y)
  <2>1. /\ <<e, y>> \in Connections /\ <<y, e>> \in Connections
        /\ e \in Ends(<<e, y>>) /\ y \in Ends(<<e, y>>) /\ e \in Ends(<<y, e>>) /\ y \in Ends(<<y, e>>)
    BY PairTypes
  <2>2. L1(y, e)' = <<>> /\ L2(y, e)' = <<>>
    BY <1>2, <2>1 DEF L1, L2
  <2>3. L3(y, e)' = L3(y, e) /\ L3(e, y)' = <<>>
    BY <1>1 DEF L3, Typed
  <2>4. L1(e, y) \in Seq(Packets) /\ L2(e, y) \in Seq(Packets)
    BY LanesTyped
  <2>5. ExitLane(e, y, <<e, y>>, L1(e, y), L1(e, y)')
    <3>1. CASE fd[e][y] = <<e, y>>
      BY <1>2, <2>1, <3>1 DEF L1
    <3>2. CASE fd[e][y] # <<e, y>>
      <4>1. L1(e, y)' = L1(e, y)
        BY <1>2, <2>1, <3>2 DEF L1
      <4> QED BY <2>4, <4>1, WholeLane DEF ExitLane
    <3> QED BY <3>1, <3>2
  <2>6. ExitLane(e, y, <<y, e>>, L2(e, y), L2(e, y)')
    <3>1. CASE fd[e][y] = <<y, e>>
      BY <1>2, <2>1, <3>1 DEF L2
    <3>2. CASE fd[e][y] # <<y, e>>
      <4>1. L2(e, y)' = L2(e, y)
        BY <1>2, <2>1, <3>2 DEF L2
      <4> QED BY <2>4, <4>1, WholeLane DEF ExitLane
    <3> QED BY <3>1, <3>2
  <2> QED BY <2>2, <2>3, <2>5, <2>6 DEF ExitLanes
<1>4. ASSUME NEW x \in Programs \ {e}, NEW y \in Programs \ {e, x} PROVE SameLanes(x, y)
  <2>1. /\ <<x, y>> \in Connections /\ <<y, x>> \in Connections /\ y \in Ends(<<x, y>>) /\ y \in Ends(<<y, x>>)
        /\ NoConnection # <<x, y>> /\ NoConnection # <<y, x>>
    BY PairTypes
  <2>2. fd[e][y] # <<x, y>> /\ fd[e][y] # <<y, x>>
    <3>1. fd[e][y] = NoConnection \/ fd[e][y] = <<e, y>> \/ fd[e][y] = <<y, e>>
      BY MailLanes
    <3>2. \A a, b, c, d : <<a, b>> = <<c, d>> => a = c /\ b = d
      BY ConnectionTypes
    <3> QED BY <2>1, <3>1, <3>2
  <2>3. L1(x, y)' = L1(x, y) /\ L2(x, y)' = L2(x, y)
    BY <1>2, <2>1, <2>2 DEF L1, L2
  <2>4. L3(x, y)' = L3(x, y)
    BY <1>1 DEF L3
  <2> QED BY <2>3, <2>4 DEF SameLanes
<1>5. /\ \A y \in Programs : fd'[e][y] = NoConnection
      /\ \A x \in Programs \ {e} : fd'[x] = fd[x] /\ peers'[x] = peers[x]
      /\ \A i \in Slots : peers'[e][i] = NoPeer
  BY <1>1 DEF Typed, IsFds, FdTables
<1> QED BY <1>1, <1>3, <1>4, <1>5 DEF Exit, turnVars

LEMMA CrashExits ==
    ASSUME Typed, NEW e \in Programs, Crash(e)
    PROVE  Exit(e)
<1>1. PICK lost \in [Programs -> 0 .. 2] :
          /\ \A f \in Programs : lost[f] <= IF fd[e][f] # NoConnection THEN Len(wire[fd[e][f]][f]) ELSE 0
          /\ Ended(e, lost, wire)
  BY DEF Crash
<1>2. UNCHANGED <<plr_self, firstpeer, isConnected, awaiting, turnVars, crossed, taken>> /\ e \notin gone
  BY DEF Crash
<1>3. ASSUME NEW c \in Connections, NEW y \in Ends(c) \ {e}, fd[e][y] = c
      PROVE  ExitLane(e, y, c, wire[c][y], SubSeq(wire[c][y], 1, Len(wire[c][y]) - lost[y]))
  <2> DEFINE a == wire[c][y]
             n == Len(a) - lost[y]
  <2>1. y \in Programs /\ c # NoConnection
    BY ConnectionTypes
  <2>2. a \in Seq(Packets)
    BY AllPlain DEF Plain
  <2>3. lost[y] \in Nat /\ lost[y] <= Len(a)
    BY <1>1, <1>3, <2>1
  <2> HIDE DEF a
  <2>4. n \in 0 .. Len(a)
    BY <2>2, <2>3
  <2> HIDE DEF n
  <2>5. /\ SubSeq(a, n + 1, Len(a)) \in Seq(Packets)
        /\ a = SubSeq(a, 1, n) \o SubSeq(a, n + 1, Len(a))
    BY <2>2, <2>4, Cut
  <2>6. Shortened(a, SubSeq(a, 1, n))
    BY <2>5 DEF Shortened
  <2> QED BY <2>6 DEF ExitLane, a, n
<1> QED BY <1>1, <1>2, <1>3, EndedExit

LEMMA LeaveGameExits ==
    ASSUME Typed, InvK, NEW e \in Programs, LeaveGame(e)
    PROVE  Exit(e)
<1> DEFINE p == Disconnect(plr_self[e], plr_self[e])
           base == Step(e)
           pk == [i \in Slots |-> p]
           r == Broadcast(base, p)
           wires == [c \in Connections |-> [f \in Ends(c) |->
                     IF f # e /\ e \in Ends(c) /\ fd[e][f] = c /\ (fd[f][e] = c \/ c \in backlog)
                     THEN wire[c][f] \o r.to[f] ELSE wire[c][f]]]
           lost == [f \in Programs |-> 0]
<1>1. /\ e \in Playing /\ Ended(e, lost, wires)
      /\ UNCHANGED <<plr_self, firstpeer, isConnected, awaiting, turnVars, crossed, taken>>
  BY DEF LeaveGame
<1>2. e \notin gone /\ Joined(e) /\ plr_self[e] \in Slots
  BY <1>1, PlayingJoined
<1>3. p \in Game /\ p \in Held /\ p = Goodbye(e)
  BY <1>2, SlotFarewells DEF Goodbye
<1> HIDE DEF p
<1>4. base \in Steps /\ Sole(base.peers) /\ Silent(base) /\ base.peers = peers[e]
  BY TableSole
<1> HIDE DEF base
<1>5. pk \in [Slots -> Game] /\ \A i \in Slots : pk[i] = p
  BY <1>3
<1>6. SentTo(base, Slots, pk, N, r)
  BY <1>3, <1>4, BroadcastSends
<1> HIDE DEF pk
<1>7. Spoken(base, Slots, pk, {}, r)
  <2> HIDE DEF r
  <2>1. Spoken(base, Slots, pk, {}, r)
    BY <1>4, <1>5, <1>6, SentSpoken
  <2> QED BY <2>1
<1> HIDE DEF r
<1>8. ASSUME NEW y \in Programs PROVE r.to[y] = <<>> \/ (r.to[y] = <<p>> /\ SaysGoodbye(e, y))
  <2>1. CASE \A i \in Slots : base.peers[i].endpoint # <<y>>
    BY <1>7, <2>1 DEF Spoken
  <2>2. ASSUME NEW i \in Slots, base.peers[i].endpoint = <<y>>
        PROVE  r.to[y] = <<>> \/ (r.to[y] = <<p>> /\ SaysGoodbye(e, y))
    <3> DEFINE now == AtOnce(base, Slots, pk, i)
    <3>1. r.to[y] = now \o (IF i \in {} THEN Kept(base, Slots, pk, i) ELSE <<>>)
      BY <1>7, <2>2 DEF Spoken
    <3>2. i \notin {}
      OBVIOUS
    <3>3. r.to[y] = now \o <<>>
      BY <3>1, <3>2
    <3>4. p.type \notin EchoTypes
      BY <1>3 DEF Held, EchoTypes
    <3>5. now = IF ~ base.peers[i].queued THEN <<p>> ELSE <<>>
      BY <1>5, <3>4 DEF AtOnce, Holds
    <3>6. KnowsAt(e, y, i) /\ base.peers[i].queued = peers[e][i].queued
      BY <1>4, <2>2 DEF KnowsAt
    <3> HIDE DEF now
    <3>7. CASE base.peers[i].queued
      BY <3>3, <3>5, <3>7
    <3>8. CASE ~ base.peers[i].queued
      <4>1. SaysGoodbye(e, y)
        BY <1>2, <3>6, <3>8 DEF SaysGoodbye
      <4>2. <<p>> \o <<>> = <<p>>
        <5>1. <<p>> \in Seq({p})
          OBVIOUS
        <5>2. \A s \in Seq({p}) : s \o <<>> = s
          OBVIOUS
        <5> QED BY <5>1, <5>2
      <4> QED BY <3>3, <3>5, <3>8, <4>1, <4>2
    <3> QED BY <3>7, <3>8
  <2> QED BY <2>1, <2>2
<1>9. ASSUME NEW c \in Connections, NEW y \in Ends(c) \ {e}
      PROVE  wires[c][y] = IF e \in Ends(c) /\ fd[e][y] = c /\ (fd[y][e] = c \/ c \in backlog)
                           THEN wire[c][y] \o r.to[y] ELSE wire[c][y]
  OBVIOUS
<1> HIDE DEF wires
<1>10. ASSUME NEW c \in Connections, NEW y \in Ends(c) \ {e}, fd[e][y] = c
       PROVE  ExitLane(e, y, c, wire[c][y], SubSeq(wires[c][y], 1, Len(wires[c][y]) - lost[y]))
  <2> DEFINE a == wire[c][y]
             w == wires[c][y]
  <2>1. y \in Programs /\ lost[y] = 0
    BY ConnectionTypes
  <2>2. a \in Seq(Packets) /\ p \in Packets
    BY <1>3, AllPlain DEF Plain, Game
  <2>3. w = a \/ (w = Append(a, p) /\ SaysGoodbye(e, y) /\ Reaches(e, y, c))
    <3>1. w = IF e \in Ends(c) /\ fd[e][y] = c /\ (fd[y][e] = c \/ c \in backlog)
              THEN a \o r.to[y] ELSE a
      BY <1>9
    <3> HIDE DEF a, w
    <3>2. a \o <<>> = a /\ a \o <<p>> = Append(a, p)
      BY <2>2
    <3>3. r.to[y] = <<>> \/ (r.to[y] = <<p>> /\ SaysGoodbye(e, y))
      BY <1>8, <2>1
    <3> QED BY <1>10, <3>1, <3>2, <3>3 DEF Reaches
  <2> HIDE DEF a, w
  <2>4. w \in Seq(Packets)
    BY <2>2, <2>3
  <2>5. Len(w) - lost[y] = Len(w)
    <3>1. Len(w) \in Nat
      BY <2>4
    <3> QED BY <2>1, <3>1
  <2>6. SubSeq(w, 1, Len(w)) = w
    BY <2>4, WholeLane
  <2>7. ExitLane(e, y, c, a, w)
    <3>1. Shortened(a, a)
      BY <2>2, WholeLane
    <3> QED BY <1>3, <2>3, <3>1 DEF ExitLane
  <2> QED BY <2>5, <2>6, <2>7 DEF a, w
<1>11. \A c \in Connections : \A y \in Ends(c) \ {e} : fd[e][y] # c => wires[c][y] = wire[c][y]
  BY <1>9
<1> HIDE DEF lost
<1> QED BY <1>1, <1>2, <1>10, <1>11, EndedExit

LEMMA GoodbyeFacts ==
    ASSUME NEW e, Joined(e)
    PROVE  /\ Goodbye(e) \in Packets /\ Goodbye(e) \in Held /\ Goodbye(e) \in Farewells /\ Goodbye(e) \in Game
           /\ Goodbye(e).src = plr_self[e] /\ Goodbye(e).dst = PLR_BROADCAST
           /\ Goodbye(e) \notin Accepts /\ Goodbye(e) \notin Requests /\ Goodbye(e) \notin TurnPackets
           /\ Goodbye(e).type # "PT_CONNECT" /\ \A h : Goodbye(e) \notin Connects(h)
<1> DEFINE p == Goodbye(e)
<1>1. p \in Game /\ p \in Held /\ p \in Farewells /\ p.src = plr_self[e] /\ p.dst = PLR_BROADCAST
      /\ p \notin TurnPackets
  BY SlotFarewells DEF Joined, Goodbye
<1> HIDE DEF p
<1>2. p \in Packets /\ p \notin Accepts /\ p \notin Requests /\ p.type # "PT_CONNECT" /\ \A h : p \notin Connects(h)
  BY <1>1 DEF Game, Farewells, Accepts, Requests, Connects
<1> QED BY <1>1, <1>2 DEF p

LEMMA ExitLaneCount ==
    ASSUME NEW e \in Programs, NEW y, NEW c, NEW old \in Seq(Packets), NEW new \in Seq(Packets),
           ExitLane(e, y, c, old, new), NEW set, Goodbye(e) \notin set \/ ~ SaysGoodbye(e, y)
    PROVE  Count(new, set) <= Count(old, set)
<1>1. Count(new, set) \in Nat /\ Count(old, set) \in Nat
  BY CountBasics
<1>2. CASE Shortened(old, new)
  <2>1. PICK rest \in Seq(Packets) : old = new \o rest
    BY <1>2 DEF Shortened
  <2>2. Count(new \o rest, set) = Count(new, set) + Count(rest, set)
    BY CountConcat
  <2>3. Count(rest, set) \in Nat
    BY CountBasics
  <2> QED BY <1>1, <2>1, <2>2, <2>3
<1>3. CASE new = Append(old, Goodbye(e)) /\ SaysGoodbye(e, y)
  <2>1. Goodbye(e) \in Packets /\ Goodbye(e) \notin set
    BY <1>3, GoodbyeFacts DEF SaysGoodbye
  <2>2. Count(Append(old, Goodbye(e)), set) = Count(old, set) + IF Goodbye(e) \in set THEN 1 ELSE 0
    BY <2>1, CountAppend
  <2> QED BY <1>1, <1>3, <2>1, <2>2
<1> QED BY <1>2, <1>3 DEF ExitLane

LEMMA ExitCounts ==
    ASSUME Typed, Typed', NEW e \in Programs, Exit(e), NEW x \in Programs, NEW y \in Programs \ {x}
    PROVE  /\ \A set : x # e \/ Goodbye(e) \notin set \/ ~ SaysGoodbye(e, y) => Cnt(x, y, set)' <= Cnt(x, y, set)
           /\ x # e /\ y # e => \A set : Cnt(x, y, set)' = Cnt(x, y, set)
           /\ \A p \in Flying(x, y)' : p \in Flying(x, y) \/ (x = e /\ p = Goodbye(e) /\ SaysGoodbye(e, y))
<1>1. /\ L1(x, y) \in Seq(Packets) /\ L2(x, y) \in Seq(Packets) /\ L3(x, y) \in Seq(Packets)
      /\ L1(x, y)' \in Seq(Packets) /\ L2(x, y)' \in Seq(Packets) /\ L3(x, y)' \in Seq(Packets)
  BY LanesTyped, LanesTypedAfter
<1>2. ASSUME x # e, y # e, NEW set PROVE Cnt(x, y, set)' = Cnt(x, y, set)
  <2>1. SameLanes(x, y)
    BY <1>2 DEF Exit
  <2> QED BY <2>1 DEF SameLanes, Cnt
<1>3. ASSUME NEW set, x # e \/ Goodbye(e) \notin set \/ ~ SaysGoodbye(e, y)
      PROVE  Cnt(x, y, set)' <= Cnt(x, y, set)
  <2> DEFINE a == Count(L1(x, y), set)
             b == Count(L2(x, y), set)
             c == Count(L3(x, y), set)
             a2 == Count(L1(x, y)', set)
             b2 == Count(L2(x, y)', set)
             c2 == Count(L3(x, y)', set)
  <2>1. a \in Nat /\ b \in Nat /\ c \in Nat /\ a2 \in Nat /\ b2 \in Nat /\ c2 \in Nat /\ Count(<<>>, set) = 0
    BY <1>1, CountBasics
  <2>2. a2 <= a /\ b2 <= b /\ c2 <= c
    <3>1. CASE x # e /\ y # e
      <4>1. SameLanes(x, y)
        BY <3>1 DEF Exit
      <4> QED BY <2>1, <4>1 DEF SameLanes
    <3>2. CASE y = e
      <4>1. L1(x, y)' = <<>> /\ L2(x, y)' = <<>> /\ L3(x, y)' = L3(x, y)
        BY <3>2 DEF Exit, ExitLanes
      <4>2. a2 = 0 /\ b2 = 0 /\ c2 = c
        BY <2>1, <4>1
      <4> HIDE DEF a, b, c, a2, b2, c2
      <4> QED BY <2>1, <4>2
    <3>3. CASE x = e
      <4>1. /\ L3(x, y)' = <<>> /\ ExitLane(e, y, <<e, y>>, L1(x, y), L1(x, y)')
            /\ ExitLane(e, y, <<y, e>>, L2(x, y), L2(x, y)')
        BY <3>3 DEF Exit, ExitLanes
      <4>2. Goodbye(e) \notin set \/ ~ SaysGoodbye(e, y)
        BY <1>3, <3>3
      <4>3. a2 <= a
        BY <1>1, <4>1, <4>2, ExitLaneCount
      <4>4. b2 <= b
        BY <1>1, <4>1, <4>2, ExitLaneCount
      <4>5. c2 = 0
        BY <2>1, <4>1
      <4> HIDE DEF a, b, c, a2, b2, c2
      <4> QED BY <2>1, <4>3, <4>4, <4>5
    <3> QED BY <3>1, <3>2, <3>3
  <2>3. Cnt(x, y, set) = a + b + c /\ Cnt(x, y, set)' = a2 + b2 + c2
    BY DEF Cnt
  <2> HIDE DEF a, b, c, a2, b2, c2
  <2> QED BY <2>1, <2>2, <2>3
<1>4. ASSUME NEW p \in Flying(x, y)' PROVE p \in Flying(x, y) \/ (x = e /\ p = Goodbye(e) /\ SaysGoodbye(e, y))
  <2> SUFFICES ASSUME ~ (x = e /\ p = Goodbye(e) /\ SaysGoodbye(e, y)) PROVE p \in Flying(x, y)
    OBVIOUS
  <2>1. p \in Packets /\ Cnt(x, y, {p})' > 0
    BY DEF Flying, Packets, Slots, PLR_BROADCAST, PLR_MASTER, Endpoints, NoEndpoint, EchoTypes
  <2>2. Cnt(x, y, {p})' <= Cnt(x, y, {p})
    <3>1. x # e \/ Goodbye(e) \notin {p} \/ ~ SaysGoodbye(e, y)
      OBVIOUS
    <3> DEFINE set == {p}
    <3>2. x # e \/ Goodbye(e) \notin set \/ ~ SaysGoodbye(e, y)
      BY <3>1
    <3> HIDE DEF set
    <3>3. Cnt(x, y, set)' <= Cnt(x, y, set)
      BY <1>3, <3>2
    <3> QED BY <3>3 DEF set
  <2>3. Cnt(x, y, {p}) \in Nat /\ Cnt(x, y, {p})' \in Nat
    BY LanesTyped, LanesTypedAfter
  <2> DEFINE k == Cnt(x, y, {p})
             n == Cnt(x, y, {p})'
  <2> HIDE DEF k, n
  <2>4. k > 0
    BY <2>1, <2>2, <2>3 DEF k, n
  <2> QED BY <2>1, <2>4 DEF k, Flying
<1> QED BY <1>2, <1>3, <1>4

LEMMA ExitSame ==
    ASSUME Typed, Typed', NEW e \in Programs, Exit(e), NEW x \in Programs, NEW y \in Programs
    PROVE  /\ Joined(x)' <=> Joined(x)
           /\ \A i \in Slots : KnowsAt(x, y, i)' <=> KnowsAt(x, y, i) /\ x # e
           /\ Met(x, y)' <=> Met(x, y) /\ x # e
           /\ \A m \in Programs : Told(m, x, y)' => Told(m, x, y)
           /\ Intro(x, y)' => Intro(x, y)
           /\ x # e /\ y # e => (Rel(x, y)' => Rel(x, y))
           /\ x # y => Cnt(x, y, Requests)' <= Cnt(x, y, Requests) /\ Cnt(x, y, Accepts)' <= Cnt(x, y, Accepts)
                       /\ \A h \in Programs : Cnt(x, y, Connects(h))' <= Cnt(x, y, Connects(h))
<1>1. Joined(x)' <=> Joined(x)
  BY DEF Joined, Exit, Slots
<1>2. \A i \in Slots : KnowsAt(x, y, i)' <=> KnowsAt(x, y, i) /\ x # e
  <2>1. NoPeer.endpoint = NoEndpoint /\ <<y>> # NoEndpoint
    BY ConnectionTypes DEF NoPeer
  <2> QED BY <2>1 DEF KnowsAt, Exit
<1>3. Met(x, y)' <=> Met(x, y) /\ x # e
  BY <1>2 DEF Met, Slots
<1>4. ASSUME NEW v \in Programs, NEW w \in Programs \ {v}, NEW set \in {Requests, Accepts} \cup {Connects(h) : h \in Programs}
             \cup {News(m, h) : m \in Programs, h \in Programs}
      PROVE  Cnt(v, w, set)' <= Cnt(v, w, set)
  <2>1. Goodbye(e) \notin set \/ ~ SaysGoodbye(e, w)
    BY GoodbyeFacts DEF SaysGoodbye, News
  <2> QED BY <2>1, ExitCounts
<1>5. ASSUME NEW m \in Programs, Told(m, x, y)' PROVE Told(m, x, y)
  <2> DEFINE set == News(m, y)
             k == Cnt(m, x, set)
             n == Cnt(m, x, set)'
  <2>1. m # x /\ n > 0
    BY <1>5 DEF Told, News, Connects, Accepts, Packets, Slots, PLR_BROADCAST, PLR_MASTER, Endpoints, NoEndpoint, EchoTypes
  <2>2. n <= k
    BY <1>4, <2>1
  <2>3. n \in Nat /\ k \in Nat
    BY <2>1, LanesTyped, LanesTypedAfter
  <2> HIDE DEF n, k
  <2>4. k > 0
    BY <2>1, <2>2, <2>3
  <2> QED BY <2>1, <2>4 DEF k, Told
<1>6. Intro(x, y)' => Intro(x, y)
  BY <1>5 DEF Intro
<1>7. x # e /\ y # e => (Rel(x, y)' => Rel(x, y))
  BY <1>3, <1>6 DEF Rel
<1>8. x # y => Cnt(x, y, Requests)' <= Cnt(x, y, Requests) /\ Cnt(x, y, Accepts)' <= Cnt(x, y, Accepts)
               /\ \A h \in Programs : Cnt(x, y, Connects(h))' <= Cnt(x, y, Connects(h))
  <2> SUFFICES ASSUME x # y PROVE Cnt(x, y, Requests)' <= Cnt(x, y, Requests) /\ Cnt(x, y, Accepts)' <= Cnt(x, y, Accepts)
               /\ \A h \in Programs : Cnt(x, y, Connects(h))' <= Cnt(x, y, Connects(h))
    OBVIOUS
  <2> DEFINE r == Requests
             a == Accepts
  <2> HIDE DEF r, a
  <2>1. Cnt(x, y, r)' <= Cnt(x, y, r)
    <3>1. r \in {Requests, Accepts} \cup {Connects(h) : h \in Programs} \cup {News(m, h) : m \in Programs, h \in Programs}
      BY DEF r
    <3> QED BY <1>4, <3>1
  <2>2. Cnt(x, y, a)' <= Cnt(x, y, a)
    <3>1. a \in {Requests, Accepts} \cup {Connects(h) : h \in Programs} \cup {News(m, h) : m \in Programs, h \in Programs}
      BY DEF a
    <3> QED BY <1>4, <3>1
  <2>3. ASSUME NEW h \in Programs PROVE Cnt(x, y, Connects(h))' <= Cnt(x, y, Connects(h))
    <3> DEFINE s == Connects(h)
    <3>1. s \in {Requests, Accepts} \cup {Connects(g) : g \in Programs} \cup {News(m, g) : m \in Programs, g \in Programs}
      OBVIOUS
    <3> HIDE DEF s
    <3>2. Cnt(x, y, s)' <= Cnt(x, y, s)
      BY <1>4, <3>1
    <3>3. s = Connects(h) /\ s' = Connects(h)'
      BY DEF s
    <3> QED BY <3>2, <3>3
  <2> QED BY <2>1, <2>2, <2>3 DEF r, a
<1> QED BY <1>1, <1>2, <1>3, <1>5, <1>6, <1>7, <1>8

LEMMA ExitInvW ==
    ASSUME Typed, Typed', InvW, NEW e \in Programs, Exit(e)
    PROVE  InvW'
<1>1. ASSUME NEW x \in Programs, NEW y \in Programs \ {x} PROVE LinkW(x, y)'
  <2>1. LinkW(x, y) /\ LinkW(y, x)
    BY DEF InvW
  <2>2. \A c \in {<<x, y>>, <<y, x>>} : c \in backlog' <=> c \in backlog /\ c[2] # e
    BY DEF Exit
  <2>3. /\ <<x, y>> \in backlog' <=> <<x, y>> \in backlog /\ y # e
        /\ <<y, x>> \in backlog' <=> <<y, x>> \in backlog /\ x # e
    BY <2>2
  <2>4. crossed' = crossed /\ gone' = gone \cup {e}
    BY DEF Exit
  <2>5. NoConnection # <<x, y>> /\ NoConnection # <<y, x>> /\ <<x, y>> # <<y, x>>
    BY PairTypes
  <2>6. CASE x # e /\ y # e
    <3>1. SameLanes(x, y) /\ SameLanes(y, x) /\ fd'[x] = fd[x] /\ fd'[y] = fd[y]
      BY <2>6 DEF Exit
    <3> QED BY <2>1, <2>3, <2>4, <2>6, <3>1 DEF SameLanes, LinkW
  <2>7. CASE x = e
    <3>1. fd'[e][y] = NoConnection /\ fd'[y] = fd[y] /\ ExitLanes(e, y)
      BY <2>7 DEF Exit
    <3>2. L2(y, x)' = <<>> /\ L3(x, y)' = <<>> /\ ExitLane(e, y, <<e, y>>, L1(e, y), L1(e, y)')
      BY <2>7, <3>1 DEF ExitLanes
    <3>3. ASSUME L1(x, y)' # <<>> PROVE fd[y][x] = <<x, y>> \/ <<x, y>> \in backlog
      <4>1. CASE Shortened(L1(e, y), L1(e, y)')
        <5>1. PICK rest \in Seq(Packets) : L1(e, y) = L1(e, y)' \o rest
          BY <4>1 DEF Shortened
        <5> DEFINE new == L1(e, y)'
        <5>2. new \in Seq(Packets) /\ new # <<>>
          BY <2>7, <3>3, LanesTypedAfter
        <5> HIDE DEF new
        <5>3. new \o rest # <<>>
          BY <5>2
        <5>4. L1(x, y) # <<>>
          BY <2>7, <5>1, <5>3 DEF new
        <5> QED BY <2>1, <5>4 DEF LinkW
      <4>2. CASE Reaches(e, y, <<e, y>>)
        BY <2>7, <4>2 DEF Reaches
      <4> QED BY <3>2, <4>1, <4>2 DEF ExitLane
    <3> QED BY <2>1, <2>3, <2>4, <2>7, <3>1, <3>2, <3>3 DEF LinkW
  <2>8. CASE y = e
    <3>1. fd'[e][x] = NoConnection /\ fd'[x] = fd[x] /\ ExitLanes(e, x)
      BY <2>8 DEF Exit
    <3>2. L1(x, y)' = <<>> /\ L3(x, y)' = L3(x, y) /\ ExitLane(e, x, <<x, e>>, L2(e, x), L2(e, x)')
      BY <2>8, <3>1 DEF ExitLanes
    <3>3. ASSUME L2(y, x)' # <<>> PROVE fd[x][y] = <<x, y>> /\ <<x, y>> \notin backlog
      <4>1. CASE Shortened(L2(e, x), L2(e, x)')
        <5>1. PICK rest \in Seq(Packets) : L2(e, x) = L2(e, x)' \o rest
          BY <4>1 DEF Shortened
        <5> DEFINE new == L2(e, x)'
        <5>2. new \in Seq(Packets) /\ new # <<>>
          BY <2>8, <3>3, LanesTypedAfter
        <5> HIDE DEF new
        <5>3. new \o rest # <<>>
          BY <5>2
        <5>4. L2(y, x) # <<>>
          BY <2>8, <5>1, <5>3 DEF new
        <5> QED BY <2>1, <5>4 DEF LinkW
      <4>2. CASE Reaches(e, x, <<x, e>>)
        <5>1. fd[y][x] = <<x, y>> /\ (fd[x][y] = <<x, y>> \/ <<x, y>> \in backlog)
          BY <2>8, <4>2 DEF Reaches
        <5> QED BY <2>1, <5>1 DEF LinkW
      <4> QED BY <3>2, <4>1, <4>2 DEF ExitLane
    <3> QED BY <2>1, <2>3, <2>4, <2>8, <3>1, <3>2, <3>3 DEF LinkW
  <2> QED BY <2>6, <2>7, <2>8
<1>2. \A x \in gone', i \in Slots : peers'[x][i] = NoPeer
  BY DEF Exit, InvW, Typed
<1> QED BY <1>1, <1>2 DEF InvW, Slots, NoPeer, NoEndpoint

LEMMA ExitInvK ==
    ASSUME Typed, Typed', InvK, NEW e \in Programs, Exit(e)
    PROVE  InvK'
<1> SUFFICES ASSUME NEW x \in Programs PROVE TableOk(x)'
  BY DEF InvK
<1>1. TableOk(x)
  BY DEF InvK
<1>2. /\ plr_self' = plr_self /\ firstpeer' = firstpeer /\ isConnected' = isConnected /\ awaiting' = awaiting
      /\ (Joined(x)' <=> Joined(x))
  BY ExitSame DEF Exit
<1>3. CASE x # e
  <2>1. peers'[x] = peers[x]
    BY <1>3 DEF Exit
  <2> QED BY <1>1, <1>2, <2>1 DEF TableOk, Slots, NoPeer, NoEndpoint
<1>4. CASE x = e
  <2>1. \A i \in Slots : peers'[x][i] = NoPeer
    BY <1>4 DEF Exit
  <2>2. NoPeer.endpoint = NoEndpoint /\ NoPeer.sendQueue = <<>> /\ <<x>> # NoEndpoint
    BY ConnectionTypes DEF NoPeer
  <2> QED BY <1>1, <1>2, <2>1, <2>2 DEF TableOk, Slots, NoPeer, NoEndpoint
<1> QED BY <1>3, <1>4

LEMMA ExitUnborn ==
    ASSUME Typed, Typed', InvU, NEW e \in Programs, Exit(e), NEW x \in Programs
    PROVE  /\ Fresh(x)' <=> Fresh(x)
           /\ Unborn(x)' => Unborn(x) /\ Unknown(x) /\ ~ Joined(x) /\ \A y : ~ SaysGoodbye(x, y)
<1>1. Fresh(x)' <=> Fresh(x)
  BY ExitSame DEF Fresh, Exit, NoEndpoint
<1>2. Asking(x)' => Asking(x)
  <2> SUFFICES ASSUME NEW m \in Programs \ {x}, Cnt(x, m, Requests)' > 0 PROVE Cnt(x, m, Requests) > 0
    BY DEF Asking, Requests
  <2> DEFINE n == Cnt(x, m, Requests)'
             k == Cnt(x, m, Requests)
  <2>1. n <= k /\ n > 0
    BY ExitSame
  <2>2. n \in Nat /\ k \in Nat
    BY LanesTyped, LanesTypedAfter DEF Requests
  <2> HIDE DEF n, k
  <2>3. k > 0
    BY <2>1, <2>2
  <2> QED BY <2>3 DEF k
<1>3. Unborn(x)' => Unborn(x)
  BY <1>1, <1>2 DEF Unborn
<1>4. Unborn(x) => Unknown(x)
  BY DEF InvU
<1> QED BY <1>1, <1>3, <1>4 DEF Unknown, SaysGoodbye

LEMMA ExitInvL ==
    ASSUME Typed, Typed', InvU, InvL, NEW e \in Programs, Exit(e)
    PROVE  InvL'
<1> SUFFICES ASSUME NEW x \in Programs, Unborn(x)', NEW y \in Programs \ {x} PROVE LinkOut(x, y)'
  BY DEF InvL
<1>1. LinkOut(x, y)
  BY ExitUnborn DEF InvL
<1>2. \A c \in {<<x, y>>, <<y, x>>} : c \in backlog' <=> c \in backlog /\ c[2] # e
  BY DEF Exit
<1>3. /\ <<x, y>> \in backlog' <=> <<x, y>> \in backlog /\ y # e
      /\ <<y, x>> \in backlog' <=> <<y, x>> \in backlog /\ x # e
  BY <1>2
<1>4. crossed' = crossed /\ gone' = gone \cup {e}
  BY DEF Exit
<1>5. /\ fd'[x][y] = IF x = e THEN NoConnection ELSE fd[x][y]
      /\ fd'[y][x] = IF y = e THEN NoConnection ELSE fd[y][x]
  BY DEF Exit
<1>6. NoConnection # <<x, y>> /\ NoConnection # <<y, x>> /\ <<x, y>> # <<y, x>>
  BY PairTypes
<1> QED BY <1>1, <1>3, <1>4, <1>5, <1>6 DEF LinkOut

LEMMA ExitInvI ==
    ASSUME Typed, Typed', InvI, NEW e \in Programs, Exit(e)
    PROVE  InvI'
<1> SUFFICES ASSUME NEW f \in Programs, NEW h \in Programs PROVE ToldOnce(f, h)'
  BY DEF InvI
<1>0. ToldOnce(f, h)
  BY DEF InvI
<1>1. Intro(f, h)' => f # h /\ ~ Met(f, h)'
  BY <1>0, ExitSame DEF ToldOnce
<1>2. ASSUME NEW m \in Programs \ {f} PROVE Cnt(m, f, News(m, h))' <= 1
  <2> DEFINE S == News(m, h)
             n == Cnt(m, f, S)'
             k == Cnt(m, f, S)
  <2>1. n <= k
    <3>1. Goodbye(e) \notin S \/ ~ SaysGoodbye(e, f)
      BY GoodbyeFacts DEF SaysGoodbye, News
    <3> HIDE DEF S
    <3> QED BY <3>1, ExitCounts
  <2>2. n \in Nat /\ k \in Nat
    BY LanesTyped, LanesTypedAfter
  <2>3. k <= 1
    BY <1>0 DEF ToldOnce
  <2> HIDE DEF k
  <2>4. n <= 1
    <3> HIDE DEF n
    <3> QED BY <2>1, <2>2, <2>3
  <2> QED BY <2>4 DEF News, Connects, Accepts
<1>3. \A m, n \in Programs : Told(m, f, h)' /\ Told(n, f, h)' => m = n
  BY <1>0, ExitSame DEF ToldOnce
<1> QED BY <1>1, <1>2, <1>3 DEF ToldOnce

LEMMA ExitCountsNone ==
    ASSUME Typed, Typed', NEW e \in Programs, Exit(e), NEW x \in Programs, NEW y \in Programs \ {x}, NEW set,
           x # e \/ Goodbye(e) \notin set \/ ~ SaysGoodbye(e, y)
    PROVE  /\ Cnt(x, y, set) = 0 => Cnt(x, y, set)' = 0
           /\ Cnt(x, y, set) <= 1 => Cnt(x, y, set)' <= 1
           /\ Cnt(x, y, set)' > 0 => Cnt(x, y, set) > 0
<1> DEFINE k == Cnt(x, y, set)
           n == Cnt(x, y, set)'
<1>1. n <= k
  BY ExitCounts
<1>2. n \in Nat /\ k \in Nat
  BY LanesTyped, LanesTypedAfter
<1> HIDE DEF n, k
<1>3. (k = 0 => n = 0) /\ (k <= 1 => n <= 1) /\ (n > 0 => k > 0)
  BY <1>1, <1>2
<1> QED BY <1>3 DEF n, k

LEMMA ExitInvU ==
    ASSUME Typed, Typed', InvU, NEW e \in Programs, Exit(e)
    PROVE  InvU'
<1>0. \A x, y : SaysGoodbye(x, y) => Joined(x) /\ Met(x, y)
  BY DEF SaysGoodbye, Met
<1>1. ASSUME NEW x \in Programs, Unborn(x)' PROVE Unknown(x)'
  <2>1. Unborn(x) /\ Unknown(x) /\ ~ Joined(x) /\ \A y : ~ SaysGoodbye(x, y)
    BY <1>1, ExitUnborn
  <2>2. ~ Joined(x)' /\ \A i \in Slots : peers'[x][i] = NoPeer
    <3>1. x # e => peers'[x] = peers[x]
      BY DEF Exit
    <3>2. \A i \in Slots : peers'[x][i] = NoPeer
      BY <2>1, <3>1 DEF Exit, Unknown
    <3> QED BY <2>1, <3>2, ExitSame
  <2>3. ASSUME NEW y \in Programs \ {x} PROVE Strange(x, y)'
    <3>1. Strange(x, y)
      BY <2>1 DEF Unknown
    <3>2. ~ SaysGoodbye(y, x) /\ ~ SaysGoodbye(x, y)
      BY <1>0, <2>1, <3>1 DEF Strange
    <3>3. Cnt(y, x, Packets)' = 0
      BY <3>1, <3>2, ExitCountsNone DEF Strange
    <3>4. ~ Met(y, x)' /\ got'[y][x] = 0 /\ got'[x][y] = 0
      BY <3>1, ExitSame DEF Strange, Exit
    <3>5. Cnt(x, y, Packets \ Requests)' = 0
      BY <3>1, <3>2, ExitCountsNone DEF Strange
    <3>6. Cnt(x, y, Requests)' <= 1
      BY <3>1, <3>2, ExitCountsNone DEF Strange
    <3> QED BY <3>3, <3>4, <3>5, <3>6 DEF Strange, Requests, Packets, Slots, PLR_BROADCAST, PLR_MASTER, Endpoints, NoEndpoint, EchoTypes
  <2>4. ASSUME NEW m \in Programs, NEW y \in Programs \ {m} PROVE Cnt(m, y, Connects(x))' = 0
    <3> DEFINE set == Connects(x)
    <3>1. Goodbye(e) \notin set \/ ~ SaysGoodbye(e, y)
      BY <1>0, GoodbyeFacts
    <3>2. Cnt(m, y, set) = 0
      BY <2>1 DEF Unknown
    <3> HIDE DEF set
    <3>3. Cnt(m, y, set)' = 0
      BY <3>1, <3>2, ExitCountsNone
    <3>4. set' = set
      BY DEF set, Connects, Packets, Slots, PLR_BROADCAST, PLR_MASTER, Endpoints, NoEndpoint, EchoTypes
    <3> QED BY <3>3, <3>4 DEF set
  <2> QED BY <2>2, <2>3, <2>4 DEF Unknown, Slots, NoPeer, NoEndpoint
<1>2. ASSUME NEW x \in Programs, NEW y \in Programs \ {x} PROVE Asked(x, y)'
  <2>1. Asked(x, y)
    BY DEF InvU
  <2>2. ASSUME Fresh(x)' PROVE Cnt(x, y, Packets)' = 0
    <3>1. Fresh(x) /\ ~ Joined(x)
      BY <2>2, ExitUnborn DEF Fresh
    <3>2. ~ SaysGoodbye(x, y)
      BY <1>0, <3>1
    <3> QED BY <2>1, <3>1, <3>2, ExitCountsNone DEF Asked
  <2>3. ASSUME Cnt(x, y, Requests)' > 0 PROVE firstpeer'[x] = <<y>>
    <3>1. Goodbye(e) \notin Requests \/ ~ SaysGoodbye(e, y)
      BY <1>0, GoodbyeFacts
    <3>2. Cnt(x, y, Requests) > 0
      BY <2>3, <3>1, ExitCountsNone
    <3> QED BY <2>1, <3>2 DEF Asked, Exit
  <2> QED BY <2>2, <2>3 DEF Asked, Requests, Packets, Slots, PLR_BROADCAST, PLR_MASTER, Endpoints, NoEndpoint, EchoTypes
<1> QED BY <1>1, <1>2 DEF InvU

LEMMA ExitInvN ==
    ASSUME Typed, Typed', InvN, NEW e \in Programs, Exit(e)
    PROVE  InvN'
<1> SUFFICES ASSUME NEW f \in Programs PROVE \E n \in Slots : Numbered(f, n)'
  BY DEF InvN, Slots
<1>1. PICK n \in Slots : Numbered(f, n)
  BY DEF InvN
<1>2. Joined(f)' => plr_self'[f] = n
  BY <1>1, ExitSame DEF Numbered, Exit
<1>3. \A x \in Programs, i \in Slots : KnowsAt(x, f, i)' => i = n
  BY <1>1, ExitSame DEF Numbered
<1>4. ASSUME NEW m \in Programs, NEW x \in Programs \ {m}, NEW p \in Flying(m, x)', p \in Connects(f)
      PROVE  p.player = n
  <2>1. p \in Flying(m, x) \/ (p = Goodbye(e) /\ Joined(e))
    BY ExitCounts DEF SaysGoodbye
  <2> QED BY <1>1, <1>4, <2>1, GoodbyeFacts DEF Numbered
<1>5. ASSUME NEW m \in Programs \ {f}, NEW p \in Flying(m, f)'
      PROVE  /\ p \in Accepts => p.player = n
             /\ p \in Game => p.dst = n \/ (p \in Held /\ p.dst = PLR_BROADCAST)
  <2>1. p \in Flying(m, f) \/ (p = Goodbye(e) /\ Joined(e))
    BY ExitCounts DEF SaysGoodbye
  <2> QED BY <1>1, <2>1, GoodbyeFacts DEF Numbered
<1>6. Numbered(f, n)'
  <2>1. \A p \in Packets : p \in Connects(f)' => p \in Connects(f)
    BY DEF Connects
  <2> QED BY <1>2, <1>3, <1>4, <1>5, <2>1 DEF Numbered, Connects, Accepts, Game, Held, PLR_BROADCAST, Slots
<1> QED BY <1>6

LEMMA ExitInvS ==
    ASSUME Typed, Typed', InvS, NEW e \in Programs, Exit(e)
    PROVE  InvS'
<1>1. ASSUME NEW x \in Programs, NEW y \in Programs \ {x}, NEW p \in Flying(x, y)'
      PROVE  MaySend(x, y, p)'
  <2>1. p \in Flying(x, y) \/ (x = e /\ p = Goodbye(e) /\ SaysGoodbye(e, y))
    BY ExitCounts
  <2>2. CASE p \in Flying(x, y)
    <3>1. MaySend(x, y, p)
      BY <2>2 DEF InvS
    <3>2. ASSUME p \in Game \cup Accepts PROVE SentByPlayer(x, y, p)'
      <4>1. SentByPlayer(x, y, p)
        BY <3>1, <3>2 DEF MaySend
      <4>2. Joined(x)' /\ plr_self'[x] = plr_self[x] /\ firstpeer' = firstpeer /\ (Joined(y)' <=> Joined(y))
        BY <4>1, ExitSame DEF SentByPlayer, Exit
      <4>3. x \notin gone' => x \notin gone /\ ~ Intro(x, y)'
        BY <4>1, ExitSame DEF SentByPlayer, Exit
      <4>4. \A i \in Slots : KnowsAt(x, y, i)' => KnowsAt(x, y, i)
        BY ExitSame
      <4> QED BY <4>1, <4>2, <4>3, <4>4 DEF SentByPlayer, Farewells, Accepts, Slots
    <3> QED BY <3>1, <3>2 DEF MaySend, Game, Accepts, NoEndpoint
  <2>3. CASE x = e /\ p = Goodbye(e) /\ SaysGoodbye(e, y)
    <3>1. Joined(e)
      BY <2>3 DEF SaysGoodbye
    <3>2. p \in Game /\ p \notin Accepts /\ p.type # "PT_CONNECT" /\ p.src = plr_self[e]
      BY <2>3, <3>1, GoodbyeFacts
    <3>3. Joined(e)' /\ plr_self' = plr_self /\ e \in gone'
      BY <3>1, ExitSame DEF Exit
    <3>4. \A i \in Slots : ~ KnowsAt(e, y, i)'
      BY ExitSame
    <3>5. SentByPlayer(e, y, p)'
      BY <3>2, <3>3, <3>4 DEF SentByPlayer, Farewells, Accepts, Slots
    <3> QED BY <2>3, <3>2, <3>5 DEF MaySend
  <2> QED BY <2>1, <2>2, <2>3
<1>2. ASSUME NEW x \in Programs, NEW i \in Slots PROVE peers'[x][i].sendQueue \in Seq(HeldFor(x, i)')
  <2>1. CASE x = e
    <3>1. peers'[x][i] = NoPeer
      BY <2>1 DEF Exit
    <3>2. peers'[x][i].sendQueue = <<>>
      BY <3>1 DEF NoPeer
    <3> QED BY <3>2
  <2>2. CASE x # e
    <3>1. HeldFor(x, i)' = HeldFor(x, i) /\ peers'[x] = peers[x]
      BY <2>2 DEF Exit, HeldFor, Proper, Joined, Held, Farewells, TurnPackets, PLR_BROADCAST, Slots
    <3> QED BY <3>1 DEF InvS
  <2> QED BY <2>1, <2>2
<1> QED BY <1>1, <1>2 DEF InvS, Slots

LEMMA ExitInvV ==
    ASSUME Typed, Typed', InvV, NEW e \in Programs, Exit(e)
    PROVE  InvV'
<1> SUFFICES ASSUME NEW x \in Programs, awaiting'[x], NEW y \in Programs \ {x}
             PROVE  Cnt(x, y, TurnPackets)' = 0 /\ got'[y][x] = 0
  BY DEF InvV, TurnPackets
<1>1. Cnt(x, y, TurnPackets) = 0 /\ got[y][x] = 0
  BY DEF InvV, Exit
<1>2. Goodbye(e) \notin TurnPackets \/ ~ SaysGoodbye(e, y)
  BY GoodbyeFacts DEF SaysGoodbye
<1>3. Cnt(x, y, TurnPackets)' = 0
  BY <1>1, <1>2, ExitCountsNone
<1> QED BY <1>1, <1>3 DEF Exit

LEMMA AheadPrefix ==
    ASSUME NEW a \in Seq(Packets), NEW b \in Seq(Packets), Ahead(a \o b)
    PROVE  Ahead(a)
<1> DEFINE S == Held \cup Accepts
           s == Among(a, S)
           t == Among(b, S)
<1>1. s \in Seq(Packets) /\ t \in Seq(Packets)
  BY AmongType
<1>2. Among(a \o b, S) = s \o t
  BY AmongConcat
<1>3. s \o t # <<>> => Head(s \o t) \in Accepts
  BY <1>2 DEF Ahead
<1>4. s # <<>> => s \o t # <<>> /\ Head(s \o t) = Head(s)
  <2> HIDE DEF s, t
  <2> QED BY <1>1
<1> QED BY <1>3, <1>4 DEF Ahead

\* Where something of the game is, the acceptance is.
LEMMA AheadFirst ==
    ASSUME NEW a \in Seq(Packets), Ahead(a), Count(a, Held) > 0
    PROVE  Count(a, Accepts) > 0
<1> DEFINE S == Held \cup Accepts
           s == Among(a, S)
<1>1. s \in Seq(Packets)
  BY AmongType
<1>2. s # <<>>
  <2>1. Held \cap Packets \subseteq S
    OBVIOUS
  <2>2. Count(a, Held) <= Count(a, S)
    BY <2>1, CountWithin
  <2>3. Count(a, S) = Len(s)
    BY DEF Count
  <2>4. Count(a, Held) \in Nat
    BY CountBasics
  <2> HIDE DEF S, s
  <2>5. Len(s) # 0
    BY <1>1, <2>2, <2>3, <2>4
  <2>6. s = <<>> => Len(s) = 0
    OBVIOUS
  <2> QED BY <2>5, <2>6
<1>3. Head(s) \in Accepts
  BY <1>2 DEF Ahead
<1>4. Count(s, Accepts) = Count(a, Accepts)
  <2>1. Packets \cap Accepts \subseteq S
    OBVIOUS
  <2>2. Among(s, Accepts) = Among(a, Accepts)
    BY <2>1, AmongTwice
  <2> QED BY <2>2 DEF Count
<1> HIDE DEF s
<1>5. Count(s, Accepts) = Count(Tail(s), Accepts) + IF Head(s) \in Accepts THEN 1 ELSE 0
  BY <1>1, <1>2, CountHead
<1>6. Tail(s) \in Seq(Packets)
  BY <1>1, <1>2
<1>7. Count(Tail(s), Accepts) \in Nat
  BY <1>6, CountBasics
<1> QED BY <1>3, <1>4, <1>5, <1>7

\* The acceptance that a program has sent stays on its connection, or is lost with all that
\* followed it.
LEMMA ExitAccepted ==
    ASSUME Typed, Typed', InvA, NEW e \in Programs, Exit(e), NEW f \in Programs \ {e}, f \notin gone,
           Cnt(e, f, Accepts) > 0
    PROVE  /\ Accepted(e, f) /\ L1(e, f)' = <<>> /\ L3(e, f)' = <<>> /\ Ahead(L2(e, f)')
<1>1. Accepted(e, f)
  BY DEF InvA
<1>2. ExitLanes(e, f)
  BY DEF Exit
<1>3. L1(e, f) \in Seq(Packets) /\ L2(e, f) \in Seq(Packets)
      /\ L1(e, f)' \in Seq(Packets) /\ L2(e, f)' \in Seq(Packets)
  BY LanesTyped, LanesTypedAfter
<1>4. L1(e, f)' = <<>>
  <2> DEFINE a == L1(e, f)
             b == L1(e, f)'
  <2>1. a = <<>> /\ ~ Reaches(e, f, <<e, f>>)
    <3>1. <<e, f>> # <<f, e>> /\ NoConnection # <<e, f>>
      BY PairTypes
    <3> QED BY <1>1, <3>1 DEF Accepted, Reaches
  <2>2. Shortened(a, b)
    BY <1>2, <2>1 DEF ExitLanes, ExitLane
  <2>3. PICK rest \in Seq(Packets) : a = b \o rest
    BY <2>2 DEF Shortened
  <2>4. b \in Seq(Packets)
    BY <1>3
  <2> HIDE DEF a, b
  <2>5. b = <<>>
    BY <2>1, <2>3, <2>4
  <2> QED BY <2>5 DEF b
<1>5. L3(e, f)' = <<>>
  BY <1>2 DEF ExitLanes
<1>6. Ahead(L2(e, f)')
  <2> DEFINE a == L2(e, f)
             b == L2(e, f)'
  <2>1. a \in Seq(Packets) /\ b \in Seq(Packets) /\ Ahead(a)
    BY <1>1, <1>3 DEF Accepted
  <2>2. CASE Shortened(a, b)
    <3>1. PICK rest \in Seq(Packets) : a = b \o rest
      BY <2>2 DEF Shortened
    <3> HIDE DEF a, b
    <3>2. Ahead(b)
      BY <2>1, <3>1, AheadPrefix
    <3> QED BY <3>2 DEF b
  <2>3. CASE b = Append(a, Goodbye(e)) /\ SaysGoodbye(e, f)
    <3> DEFINE p == Goodbye(e)
    <3>1. p \in Packets
      BY <2>3, GoodbyeFacts DEF SaysGoodbye
    <3>2. Count(a, Accepts) > 0
      <4>1. L1(e, f) = <<>> /\ L3(e, f) = <<>>
        BY <1>1 DEF Accepted
      <4>2. Cnt(e, f, Accepts) = 0 + Count(a, Accepts) + 0
        BY <4>1, CountBasics DEF Cnt
      <4>3. Count(a, Accepts) \in Nat
        BY <1>3, CountBasics
      <4> QED BY <4>2, <4>3
    <3>3. b = Append(a, p)
      BY <2>3
    <3> HIDE DEF a, b, p
    <3>4. <<p>> \in Seq(Packets) /\ b = a \o <<p>>
      BY <2>1, <3>1, <3>3
    <3>5. Ahead(a \o <<p>>)
      BY <2>1, <3>2, <3>4, AheadConcat
    <3>6. Ahead(b)
      BY <3>4, <3>5
    <3> QED BY <3>6 DEF b
  <2> QED BY <1>2, <2>2, <2>3 DEF ExitLanes, ExitLane
<1> QED BY <1>1, <1>4, <1>5, <1>6

LEMMA ExitInvA ==
    ASSUME Typed, Typed', InvA, NEW e \in Programs, Exit(e)
    PROVE  InvA'
<1> SUFFICES ASSUME NEW m \in Programs, NEW f \in Programs \ {m}, f \notin gone', Cnt(m, f, Accepts)' > 0
             PROVE  Accepted(m, f)'
  BY DEF InvA, Accepts
<1>1. f \notin gone /\ f # e /\ gone' = gone \cup {e}
  BY DEF Exit
<1>2. Cnt(m, f, Accepts) > 0
  <2>1. Goodbye(e) \notin Accepts \/ ~ SaysGoodbye(e, f)
    BY GoodbyeFacts DEF SaysGoodbye
  <2> QED BY <2>1, ExitCountsNone
<1>3. Accepted(m, f)
  BY <1>1, <1>2 DEF InvA
<1>4. fd'[f] = fd[f] /\ (Met(m, f)' <=> Met(m, f) /\ m # e)
  BY <1>1, ExitSame DEF Exit
<1>5. <<f, m>> \notin backlog' /\ <<m, f>> \notin backlog'
  BY <1>3 DEF Accepted, Exit
<1>6. CASE m # e
  <2>1. SameLanes(m, f) /\ fd'[m] = fd[m]
    BY <1>1, <1>6 DEF Exit
  <2> QED BY <1>1, <1>3, <1>4, <1>5, <1>6, <2>1 DEF Accepted, SameLanes, Ahead, Held, Accepts
<1>7. CASE m = e
  <2>1. fd'[e][f] = NoConnection
    BY DEF Exit
  <2>2. L1(e, f)' = <<>> /\ L3(e, f)' = <<>> /\ Ahead(L2(e, f)')
    BY <1>1, <1>2, <1>7, ExitAccepted
  <2>3. Ahead(L2(m, f))'
    BY <1>7, <2>2 DEF Ahead, Held, Accepts
  <2> QED BY <1>1, <1>3, <1>4, <1>5, <1>7, <2>1, <2>2, <2>3 DEF Accepted
<1> QED BY <1>6, <1>7

LEMMA ExitInvQ ==
    ASSUME Typed, Typed', InvA, InvQ, NEW e \in Programs, Exit(e)
    PROVE  InvQ'
<1> SUFFICES ASSUME NEW x \in Programs, NEW y \in Programs \ {x}, y \notin gone',
                    (\E i \in Slots : KnowsAt(x, y, i)' /\ ~ peers'[x][i].queued) \/ Cnt(x, y, Held)' > 0
             PROVE  Ready(x, y)'
  BY DEF InvQ, Ready, Held, Slots
<1>1. y \notin gone /\ y # e
  BY DEF Exit
<1>2. (Joined(y)' <=> Joined(y)) /\ (Intro(y, x)' => Intro(y, x))
  BY ExitSame
<1>3. CASE x # e
  <2>1. Cnt(x, y, Held)' = Cnt(x, y, Held) /\ Cnt(x, y, Accepts)' = Cnt(x, y, Accepts) /\ peers'[x] = peers[x]
    BY <1>1, <1>3, ExitCounts DEF Exit
  <2>2. (\E i \in Slots : KnowsAt(x, y, i) /\ ~ peers[x][i].queued) \/ Cnt(x, y, Held) > 0
    BY <2>1 DEF KnowsAt
  <2>3. Ready(x, y)
    BY <2>2 DEF InvQ
  <2> QED BY <1>1, <1>2, <2>1, <2>3 DEF Ready, Accepts
<1>4. CASE x = e
  <2>1. Cnt(e, y, Held)' > 0
    BY <1>4, ExitSame
  <2>2. Ready(e, y)
    <3>1. Cnt(e, y, Held) > 0 \/ SaysGoodbye(e, y)
      BY <1>1, <2>1, ExitCountsNone
    <3> QED BY <1>1, <3>1 DEF InvQ, SaysGoodbye
  <2>3. CASE Joined(y) /\ ~ Intro(y, e)
    BY <1>2, <1>4, <2>3 DEF Ready
  <2>4. CASE Cnt(e, y, Accepts) > 0
    <3> DEFINE b == L2(e, y)'
    <3>1. L1(e, y)' = <<>> /\ L3(e, y)' = <<>> /\ Ahead(b)
      BY <1>1, <2>4, ExitAccepted
    <3>2. b \in Seq(Packets)
      BY <1>1, LanesTypedAfter
    <3>3. Cnt(e, y, Held)' = 0 + Count(b, Held) + 0 /\ Cnt(e, y, Accepts)' = 0 + Count(b, Accepts) + 0
      BY <3>1, CountBasics DEF Cnt, Held, Accepts
    <3> HIDE DEF b
    <3>4. Count(b, Held) \in Nat /\ Count(b, Accepts) \in Nat
      BY <3>2, CountBasics
    <3>5. Count(b, Held) > 0
      BY <2>1, <3>3, <3>4
    <3>6. Count(b, Accepts) > 0
      BY <3>1, <3>2, <3>5, AheadFirst
    <3>7. Cnt(e, y, Accepts)' > 0
      BY <3>3, <3>4, <3>6
    <3> QED BY <1>4, <3>7 DEF Ready, Accepts
  <2> QED BY <1>1, <2>2, <2>3, <2>4 DEF Ready
<1> QED BY <1>3, <1>4

LEMMA ExitBond ==
    ASSUME Typed, Typed', InvC, NEW e \in Programs, Exit(e),
           NEW x \in Programs, NEW y \in Programs \ {x}, Bond(x, y)'
    PROVE  /\ x # e /\ y # e /\ Bond(x, y) /\ LinkOk(x, y)' /\ Mail(x, y)' = Mail(x, y)
<1>1. gone' = gone \cup {e} /\ crossed' = crossed
  BY DEF Exit
<1>2. x # e /\ y # e /\ x \notin gone /\ y \notin gone
  BY <1>1 DEF Bond
<1>3. Bond(x, y)
  BY <1>1, <1>2, ExitSame DEF Bond
<1>4. LinkOk(x, y)
  BY <1>3 DEF InvC
<1>5. SameLanes(x, y) /\ fd'[x] = fd[x] /\ fd'[y] = fd[y]
  BY <1>2 DEF Exit
<1>6. \A c \in {<<x, y>>, <<y, x>>} : c \in backlog' <=> c \in backlog
  BY <1>2 DEF Exit
<1>7. LinkOk(x, y)'
  <2>1. (<<x, y>> \in backlog' <=> <<x, y>> \in backlog) /\ (<<y, x>> \in backlog' <=> <<y, x>> \in backlog)
    BY <1>6
  <2> QED BY <1>4, <1>5, <2>1 DEF LinkOk
<1>8. Mail(x, y)' = Mail(x, y)
  BY <1>5, UnmovedMail
<1> QED BY <1>2, <1>3, <1>7, <1>8

LEMMA ExitKeeps ==
    ASSUME Typed, Typed', MeshInv, NEW e \in Programs, Exit(e)
    PROVE  MeshInv'
<1>1. InvW' /\ InvK' /\ InvL' /\ InvU'
  BY ExitInvW, ExitInvK, ExitInvL, ExitInvU DEF MeshInv
<1>2. InvI' /\ InvN' /\ InvS' /\ InvV'
  BY ExitInvI, ExitInvN, ExitInvS, ExitInvV DEF MeshInv
<1>3. InvA' /\ InvQ'
  BY ExitInvA, ExitInvQ DEF MeshInv
<1>4. InvC'
  <2> SUFFICES ASSUME NEW x \in Programs, NEW y \in Programs \ {x}, Bond(x, y)'
               PROVE  LinkOk(x, y)' /\ (Intro(x, y)' => got'[y][x] = 0)
    BY DEF InvC
  <2>1. Bond(x, y) /\ LinkOk(x, y)'
    BY ExitBond DEF MeshInv
  <2>2. Intro(x, y)' => Intro(x, y)
    BY ExitSame
  <2>3. Intro(x, y) => got[y][x] = 0
    BY <2>1 DEF MeshInv, InvC
  <2>4. got' = got
    BY DEF Exit
  <2> QED BY <2>1, <2>2, <2>3, <2>4
<1>5. InvT'
  <2> SUFFICES ASSUME NEW x \in Programs, NEW y \in Programs \ {x}, NEW i \in Slots,
                      Bond(x, y)', ~ awaiting'[x], KnowsAt(x, y, i)', i \notin taken'[x]
               PROVE  Tally(Stream(x, y, i)', sent'[x], got'[y][x])
    BY DEF InvT, Slots, Tally
  <2>1. x # e /\ Bond(x, y) /\ Mail(x, y)' = Mail(x, y)
    BY ExitBond DEF MeshInv
  <2>2. /\ awaiting' = awaiting /\ taken' = taken /\ sent' = sent /\ got' = got /\ peers'[x] = peers[x]
        /\ KnowsAt(x, y, i)
    BY <2>1, ExitSame DEF Exit
  <2>3. Tally(Stream(x, y, i), sent[x], got[y][x])
    BY <2>1, <2>2 DEF MeshInv, InvT
  <2>4. Stream(x, y, i)' = Stream(x, y, i)
    BY <2>1, <2>2 DEF Stream, TurnPackets, Packets, Slots, PLR_BROADCAST, PLR_MASTER, Endpoints, NoEndpoint, EchoTypes
  <2> QED BY <2>2, <2>3, <2>4
<1> QED BY <1>1, <1>2, <1>3, <1>4, <1>5 DEF MeshInv

--------------------------------------------------------------------------------
(* A player takes a program into the game.                                     *)

\* What it tells the new player: of each player that it knows, that it has a slot, and its
\* first turn.  And what it tells the others.
Introductions(e) == {p \in Packets : \E h \in Programs : p \in Connects(h) /\ KnowsAt(e, h, p.player)}
Announced(e, list) == list \in Seq(Introductions(e)) /\ \A h \in Programs : Count(list, Connects(h)) <= 1
FirstWord(e, player) ==
    IF player \in isConnected[e] \/ awaiting[e] THEN <<>> ELSE <<Turn(plr_self[e], player, sent[e])>>
Greeting(e, player) == <<JoinAccept(plr_self[e], player)>> \o FirstWord(e, player)
Welcome(e, f, player, out) ==
    /\ \E list : Announced(e, list) /\ out[f] = list \o Greeting(e, player)
    /\ \A y \in Programs \ {e, f} : out[y] = <<>> \/ (out[y] = <<ConnectPacket(player, f)>> /\ Met(e, y))

LEMMA AnnouncedOnce ==
    ASSUME Typed, InvK, NEW e \in Programs, NEW base, NEW others \in SUBSET Slots, NEW list,
           Announces(list, base, others, N), \A i \in others : base.peers[i] = peers[e][i]
    PROVE  Announced(e, list)
<1>1. list \in Seq(Packets)
  BY DEF Announces
<1>2. ASSUME NEW k \in 1 .. Len(list)
      PROVE  \E i \in Slots, x \in Programs : KnowsAt(e, x, i) /\ list[k] = ConnectPacket(i, x)
  <2>1. PICK i \in others, x \in Programs : base.peers[i].endpoint = <<x>> /\ list[k] = ConnectPacket(i, x)
    BY DEF Announces
  <2>2. KnowsAt(e, x, i)
    BY <2>1 DEF KnowsAt
  <2> QED BY <2>1, <2>2
<1>3. ASSUME NEW i \in Slots, NEW x \in Programs, KnowsAt(e, x, i)
      PROVE  /\ ConnectPacket(i, x) \in Introductions(e) /\ ConnectPacket(i, x).player = i
             /\ \A h \in Programs : ConnectPacket(i, x) \in Connects(h) => h = x
  <2>1. /\ ConnectPacket(i, x) \in Packets /\ ConnectPacket(i, x).type = "PT_CONNECT"
        /\ ConnectPacket(i, x).player = i /\ ConnectPacket(i, x).endpoint = <<x>>
    BY PacketTypes
  <2> DEFINE p == ConnectPacket(i, x)
  <2>2. p \in Packets /\ p \in Connects(x) /\ KnowsAt(e, x, p.player)
    BY <1>3, <2>1 DEF Connects
  <2>3. \A h \in Programs : p \in Connects(h) => h = x
    BY <2>1, ConnectionTypes DEF Connects
  <2> HIDE DEF p
  <2>4. p \in Introductions(e)
    BY <2>2 DEF Introductions
  <2> QED BY <2>1, <2>3, <2>4 DEF p
<1>4. list \in Seq(Introductions(e))
  <2>1. \A k \in 1 .. Len(list) : list[k] \in Introductions(e)
    BY <1>2, <1>3
  <2> DEFINE S == Introductions(e)
  <2> HIDE DEF S
  <2>2. \A k \in 1 .. Len(list) : list[k] \in S
    BY <2>1 DEF S
  <2>3. list \in Seq(S)
    BY <1>1, <2>2
  <2> QED BY <2>3 DEF S
<1>5. ASSUME NEW h \in Programs PROVE Count(list, Connects(h)) <= 1
  <2>1. ASSUME NEW k \in 1 .. Len(list), NEW l \in 1 .. Len(list), list[k] \in Connects(h), list[l] \in Connects(h)
        PROVE  k = l
    <3>1. PICK i \in Slots, x \in Programs : KnowsAt(e, x, i) /\ list[k] = ConnectPacket(i, x)
      BY <1>2
    <3>2. PICK j \in Slots, y \in Programs : KnowsAt(e, y, j) /\ list[l] = ConnectPacket(j, y)
      BY <1>2
    <3>3. x = h /\ list[k].player = i
      BY <1>3, <2>1, <3>1
    <3>4. y = h /\ list[l].player = j
      BY <1>3, <2>1, <3>2
    <3>5. TableOk(e) /\ <<h>> # NoEndpoint
      BY ConnectionTypes DEF InvK
    <3>6. i = j
      <4>1. \A a, b \in Slots : /\ peers[e][a].endpoint # NoEndpoint
                               /\ peers[e][a].endpoint = peers[e][b].endpoint => a = b
        BY <3>5 DEF TableOk
      <4>2. peers[e][i].endpoint = <<h>> /\ peers[e][j].endpoint = <<h>>
        BY <3>1, <3>2, <3>3, <3>4 DEF KnowsAt
      <4> QED BY <3>5, <4>1, <4>2
    <3>7. ~ (k < l) /\ ~ (l < k)
      <4>1. i \in Nat
        BY Numbers
      <4>2. /\ k < l => list[k].player < list[l].player
            /\ l < k => list[l].player < list[k].player
        BY DEF Announces
      <4> QED BY <3>3, <3>4, <3>6, <4>1, <4>2
    <3>8. Len(list) \in Nat
      BY <1>1
    <3> QED BY <3>7, <3>8
  <2> QED BY <1>1, <2>1, CountOnce
<1> QED BY <1>4, <1>5 DEF Announced

LEMMA IntroduceWelcomes ==
    ASSUME Typed, InvK, NEW e \in Programs, NEW f \in Programs \ {e}, NEW player \in Slots, Joined(e), ~ Met(e, f),
           peers[e][player].endpoint = NoEndpoint, NEW base, Newcomer(e, f, player, base)
    PROVE  /\ Introduce(e, f, player, base) \in Steps
           /\ \A i \in Slots \ {player} : Introduce(e, f, player, base).peers[i] = peers[e][i]
           /\ Introduce(e, f, player, base).peers[player].endpoint = <<f>>
           /\ ~ Introduce(e, f, player, base).peers[player].queued
           /\ Introduce(e, f, player, base).peers[player].sendQueue = <<>>
           /\ Welcome(e, f, player, Introduce(e, f, player, base).to)
<1> DEFINE others == Others(e, player)
           told == ForEach(others, base, LAMBDA r, i :
                    Raw(Raw(r, r.peers[i].endpoint, ConnectPacket(player, f)),
                        <<f>>, ConnectPacket(i, r.peers[i].endpoint[1])))
           p == JoinAccept(plr_self[e], player)
           last == Raw(told, <<f>>, p)
           r == DrainSendQueue(last, player)
           word == FirstWord(e, player)
           all == Introduce(e, f, player, base)
<1>1. /\ base \in Steps /\ \A y \in Programs : base.to[y] = <<>>
      /\ \A i \in Slots \ {player} : base.peers[i] = peers[e][i]
      /\ base.peers[player].endpoint = <<f>> /\ base.peers[player].sendQueue = word
  BY DEF Newcomer, Silent, FirstWord
<1>2. /\ others \in SUBSET Slots
      /\ \A i \in others : /\ base.peers[i] = peers[e][i]
                           /\ \E x \in Programs : x # f /\ base.peers[i].endpoint = <<x>>
  <2>1. \A i \in Slots : peers[e][i].endpoint \in Endpoints
    BY DEF Typed, PeerTables, PeerType
  <2>2. \A i \in Slots : peers[e][i].endpoint # <<f>>
    BY DEF Met, KnowsAt
  <2>3. ASSUME NEW i \in others
        PROVE  base.peers[i] = peers[e][i] /\ \E x \in Programs : x # f /\ base.peers[i].endpoint = <<x>>
    <3>1. i \in Slots \ {player} /\ peers[e][i].endpoint # NoEndpoint
      BY DEF Others
    <3>2. base.peers[i] = peers[e][i]
      BY <1>1, <3>1
    <3>3. PICK x \in Programs : peers[e][i].endpoint = <<x>>
      BY <2>1, <3>1 DEF Endpoints
    <3> QED BY <2>2, <3>1, <3>2, <3>3
  <2> QED BY <2>3 DEF Others
<1>3. p \in Packets /\ \A g : p \in Sendable(g)
  BY PacketTypes DEF Joined, Sendable
<1>4. all = r
  BY DEF Introduce
<1>5. \A y \in Programs \ {f} : (\E i \in others : base.peers[i].endpoint = <<y>>) \/ (\A i \in others : base.peers[i].endpoint # <<y>>)
  OBVIOUS
<1> HIDE DEF p, others, word
<1>6. ToldBy(base, f, player, others, N, told)
  <2>1. Reachable(base, others)
    BY <1>2 DEF Reachable
  <2> QED BY <1>1, <1>2, <2>1, IntroduceTold
<1> HIDE DEF told
<1>7. told \in Steps /\ told.peers = base.peers /\ ToldFacts(base, f, player, others, N, told)
  <2>1. Elsewhere(base, f, others)
    BY <1>2 DEF Elsewhere
  <2> QED BY <1>6, <2>1 DEF ToldBy
<1>8. /\ last \in Steps /\ last.peers = base.peers
      /\ \A y \in Programs : last.to[y] = IF <<f>> = <<y>> THEN Append(told.to[y], p) ELSE told.to[y]
  BY <1>3, <1>7, RawStep
<1> HIDE DEF last
<1>9. /\ r \in Steps
      /\ r.peers = [last.peers EXCEPT ![player] = [last.peers[player] EXCEPT !.queued = FALSE, !.sendQueue = <<>>]]
      /\ \A y \in Programs : r.to[y] = IF last.peers[player].endpoint = <<y>>
                                       THEN last.to[y] \o last.peers[player].sendQueue ELSE last.to[y]
  BY <1>8, DrainStep
<1> HIDE DEF r
<1>10. /\ \A i \in Slots \ {player} : r.peers[i] = peers[e][i]
       /\ r.peers[player].endpoint = <<f>> /\ ~ r.peers[player].queued /\ r.peers[player].sendQueue = <<>>
  <2>1. last.peers \in [Slots -> PeerType] /\ base.peers[player] \in PeerType
    BY <1>1, <1>8 DEF Steps, PeerTables
  <2> QED BY <1>1, <1>8, <1>9, <2>1 DEF PeerType
<1>11. \A y \in Programs : <<f>> = <<y>> <=> y = f
  BY ConnectionTypes
<1>12. ASSUME NEW y \in Programs \ {e, f}
       PROVE  r.to[y] = <<>> \/ (r.to[y] = <<ConnectPacket(player, f)>> /\ Met(e, y))
  <2>1. r.to[y] = told.to[y]
    BY <1>1, <1>8, <1>9, <1>11
  <2>2. CASE \A i \in others : base.peers[i].endpoint # <<y>>
    <3>1. told.to[y] = base.to[y]
      BY <1>7, <2>2 DEF ToldFacts
    <3> QED BY <1>1, <2>1, <3>1
  <2>3. ASSUME NEW j \in others, base.peers[j].endpoint = <<y>>
        PROVE  r.to[y] = <<ConnectPacket(player, f)>> /\ Met(e, y)
    <3>1. j \in Slots /\ j < N /\ KnowsAt(e, y, j)
      BY <1>2, <2>3, Numbers DEF KnowsAt
    <3>2. \A i \in others : base.peers[i].endpoint = <<y>> => i = j
      <4>1. TableOk(e) /\ <<y>> # NoEndpoint
        BY ConnectionTypes DEF InvK
      <4> QED BY <1>2, <3>1, <4>1 DEF TableOk, KnowsAt
    <3>3. told.to[y] = Append(base.to[y], ConnectPacket(player, f))
      BY <1>7, <2>3, <3>1, <3>2 DEF ToldFacts
    <3>4. told.to[y] = Append(<<>>, ConnectPacket(player, f))
      BY <1>1, <3>3
    <3>5. Append(<<>>, ConnectPacket(player, f)) = <<ConnectPacket(player, f)>>
      OBVIOUS
    <3> QED BY <2>1, <3>1, <3>4, <3>5 DEF Met
  <2> QED BY <2>2, <2>3
<1>13. \E list : Announced(e, list) /\ r.to[f] = list \o (<<p>> \o word)
  <2>1. PICK list : Announces(list, base, others, N) /\ told.to[f] = base.to[f] \o list
    BY <1>7 DEF ToldFacts
  <2>2. Announced(e, list)
    BY <1>2, <2>1, AnnouncedOnce
  <2>3. list \in Seq(Packets) /\ word \in Seq(Packets)
    <3>1. word \in Seq(Held)
      BY <1>1 DEF Steps, PeerTables, PeerType
    <3> QED BY <2>1, <3>1, KindsOfPackets, SeqMonotonicHere DEF Announces
  <2>4. told.to[f] = list
    <3>1. told.to[f] = <<>> \o list
      BY <1>1, <2>1
    <3>2. \A s \in Seq(Packets) : <<>> \o s = s
      OBVIOUS
    <3> QED BY <2>3, <3>1, <3>2
  <2>5. r.to[f] = Append(list, p) \o word
    BY <1>1, <1>8, <1>9, <2>4
  <2>6. Append(list, p) \o word = list \o (<<p>> \o word)
    BY <1>3, <2>3
  <2> QED BY <2>2, <2>5, <2>6
<1>14. Welcome(e, f, player, r.to)
  BY <1>12, <1>13 DEF Welcome, Greeting, p, word
<1> QED BY <1>4, <1>9, <1>10, <1>14

\* Who asks is not known to anybody yet.
LEMMA JoinAsks ==
    ASSUME Typed, InvW, InvU, InvL, NEW e \in Programs, NEW f \in Programs \ {e}, Arrives(e, f, "PT_JOIN_REQUEST")
    PROVE  /\ Joined(e) /\ e \notin gone /\ Gets(e, f) /\ Arrived(e, f) \in Requests
           /\ Unknown(f) /\ ~ Joined(f) /\ ~ Met(e, f) /\ firstpeer[f] = <<e>>
           /\ \A y \in Programs \ {f} : LinkOut(f, y)
           /\ fd[e][f] = <<f, e>> /\ <<f, e>> \notin backlog /\ <<e, f>> \notin backlog
           /\ f \notin gone => fd[f][e] = <<f, e>>
<1>1. Gets(e, f) /\ e \notin gone /\ Arrived(e, f) \in Flying(f, e) /\ Arrived(e, f) \in Requests
  BY ArrivesGets
<1>2. Joined(e)
  <2>1. Arrived(e, f) \in Sendable(e) /\ Arrived(e, f).type = "PT_JOIN_REQUEST"
    BY SlotOfPacket
  <2> QED BY <2>1, SendableFacts
<1>3. Cnt(f, e, Requests) > 0
  BY <1>1, FlyingIn
<1>4. Unborn(f)
  BY <1>3 DEF Unborn, Asking
<1>5. Unknown(f) /\ Asked(f, e)
  BY <1>4 DEF InvU
<1>6. ~ Joined(f) /\ ~ Met(e, f) /\ firstpeer[f] = <<e>>
  BY <1>3, <1>5 DEF Unknown, Strange, Asked
<1>7. \A y \in Programs \ {f} : LinkOut(f, y)
  BY <1>4 DEF InvL
<1>8. LinkOut(f, e) /\ LinkW(f, e)
  BY <1>7 DEF InvW
<1>9. fd[e][f] = <<f, e>>
  <2>1. fd[e][f] = NoConnection \/ fd[e][f] = <<e, f>> \/ fd[e][f] = <<f, e>>
    BY MailLanes
  <2> QED BY <1>1, <1>8, <2>1 DEF Gets, LinkOut
<1>10. <<f, e>> \notin backlog /\ <<e, f>> \notin backlog
  BY <1>8, <1>9 DEF LinkW, LinkOut
<1>11. f \notin gone => fd[f][e] = <<f, e>>
  BY <1>8, <1>9 DEF LinkOut
<1> QED BY <1>1, <1>2, <1>5, <1>6, <1>7, <1>9, <1>10, <1>11

\* e takes f into the game.
Admits(e, f, player, out) ==
    /\ Joined(e) /\ e \notin gone /\ Gets(e, f) /\ Arrived(e, f) \in Requests
    /\ Unknown(f) /\ ~ Joined(f) /\ ~ Met(e, f) /\ firstpeer[f] = <<e>>
    /\ \A y \in Programs \ {f} : LinkOut(f, y)
    /\ fd[e][f] = <<f, e>> /\ <<f, e>> \notin backlog /\ <<e, f>> \notin backlog
    /\ f \notin gone => fd[f][e] = <<f, e>>
    /\ player \in Slots /\ peers[e][player].endpoint = NoEndpoint
    /\ \A x \in Programs \ {e} : peers'[x] = peers[x]
    /\ \A i \in Slots \ {player} : peers'[e][i] = peers[e][i]
    /\ peers'[e][player].endpoint = <<f>> /\ ~ peers'[e][player].queued /\ peers'[e][player].sendQueue = <<>>
    /\ Move(e, f, {}, out) /\ Welcome(e, f, player, out)
    /\ isConnected' = [isConnected EXCEPT ![e] = @ \cup {player}]
    /\ \A x \in Programs : taken[x] \subseteq taken'[x]
    /\ player \in isConnected[e] => player \in taken'[e]
    /\ plr_self' = plr_self /\ firstpeer' = firstpeer /\ awaiting' = awaiting
    /\ sent' = sent /\ got' = got /\ gone' = gone /\ crossed' = crossed

LEMMA HandleJoinRequestAdmits ==
    ASSUME Typed, InvW, InvK, InvU, InvL, NEW e \in Programs, NEW f \in Programs \ {e}, HandleJoinRequest(e, f)
    PROVE  \E player, out : Admits(e, f, player, out)
<1> DEFINE player == CHOOSE i \in FreeSlots(e) : \A j \in FreeSlots(e) : i <= j
           base == FirstTurn(e, [Step(e) EXCEPT !.peers[player] = QueuedPeer(<<f>>)], player)
           r == Introduce(e, f, player, base)
<1>1. /\ Arrives(e, f, "PT_JOIN_REQUEST") /\ FreeSlots(e) # {} /\ FinishReceive(e, f, r)
      /\ isConnected' = [isConnected EXCEPT ![e] = @ \cup {player}]
      /\ taken' = IF player \in isConnected[e]
                  THEN [taken EXCEPT ![e] = @ \cup {player}] ELSE taken
      /\ plr_self' = plr_self /\ firstpeer' = firstpeer /\ awaiting' = awaiting
      /\ sent' = sent /\ got' = got /\ gone' = gone /\ crossed' = crossed
  BY DEF HandleJoinRequest, QueuedPeer, turnVars
<1>2. player \in FreeSlots(e)
  <2>1. FreeSlots(e) \in SUBSET Slots
    BY DEF FreeSlots
  <2>2. \E i \in FreeSlots(e) : \A j \in FreeSlots(e) : i <= j
    BY <1>1, <2>1, LeastSlot
  <2> QED BY <2>1, <2>2
<1> HIDE DEF player
<1>3. player \in Slots /\ peers[e][player].endpoint = NoEndpoint
  BY <1>2 DEF FreeSlots
<1>4. /\ Joined(e) /\ e \notin gone /\ Gets(e, f) /\ Arrived(e, f) \in Requests
      /\ Unknown(f) /\ ~ Joined(f) /\ ~ Met(e, f) /\ firstpeer[f] = <<e>>
      /\ \A y \in Programs \ {f} : LinkOut(f, y)
      /\ fd[e][f] = <<f, e>> /\ <<f, e>> \notin backlog /\ <<e, f>> \notin backlog
      /\ f \notin gone => fd[f][e] = <<f, e>>
  BY <1>1, JoinAsks
<1>5. Newcomer(e, f, player, base)
  BY <1>3, FirstTurnBase
<1> HIDE DEF base
<1>6. /\ r \in Steps /\ \A i \in Slots \ {player} : r.peers[i] = peers[e][i]
      /\ r.peers[player].endpoint = <<f>> /\ ~ r.peers[player].queued /\ r.peers[player].sendQueue = <<>>
      /\ Welcome(e, f, player, r.to)
  BY <1>3, <1>4, <1>5, IntroduceWelcomes
<1> HIDE DEF r
<1>7. Move(e, f, {}, r.to) /\ PeersStep(e, r.peers)
  BY <1>1, <1>4, <1>6, ReceiveMove
<1>8. /\ \A x \in Programs : taken[x] \subseteq taken'[x]
      /\ player \in isConnected[e] => player \in taken'[e]
  BY <1>1 DEF Typed
<1>9. Admits(e, f, player, r.to)
  BY <1>1, <1>3, <1>4, <1>6, <1>7, <1>8 DEF Admits, PeersStep
<1> QED BY <1>9

\* What e tells the new player.
Words(e, player) ==
    Introductions(e) \cup {JoinAccept(plr_self[e], player)}
        \cup (IF player \in isConnected[e] \/ awaiting[e] THEN {} ELSE {Turn(plr_self[e], player, sent[e])})

LEMMA WordFacts ==
    ASSUME Typed, InvK, NEW e \in Programs, Joined(e), NEW player \in Slots
    PROVE  /\ JoinAccept(plr_self[e], player) \in Packets /\ JoinAccept(plr_self[e], player) \in Accepts
           /\ JoinAccept(plr_self[e], player).src = plr_self[e] /\ JoinAccept(plr_self[e], player).player = player
           /\ Turn(plr_self[e], player, sent[e]) \in Game /\ Turn(plr_self[e], player, sent[e]) \in TurnPackets
           /\ Turn(plr_self[e], player, sent[e]) \in Held /\ Turn(plr_self[e], player, sent[e]) \notin Farewells
           /\ Turn(plr_self[e], player, sent[e]).src = plr_self[e] /\ Turn(plr_self[e], player, sent[e]).dst = player
           /\ Turn(plr_self[e], player, sent[e]).turn = sent[e]
           /\ FirstWord(e, player) \in Seq(TurnPackets) /\ FirstWord(e, player) \in Seq(Packets)
           /\ \A p \in Introductions(e) : /\ p \in Packets /\ p.type = "PT_CONNECT" /\ p.endpoint # NoEndpoint
                                          /\ p \notin Accepts /\ p \notin Game /\ p \notin Requests
                                          /\ p \notin Connects(e)
           /\ Words(e, player) \subseteq Packets /\ Introductions(e) \subseteq Packets
<1> DEFINE acc == JoinAccept(plr_self[e], player)
           t == Turn(plr_self[e], player, sent[e])
<1>0. plr_self[e] \in Slots /\ sent[e] \in 0 .. MaxTurn /\ player \in Slots \cup {PLR_BROADCAST}
  BY DEF Joined, Typed
<1>1. acc \in Packets /\ acc \in Accepts /\ acc.src = plr_self[e] /\ acc.player = player
  BY <1>0, PacketTypes DEF Accepts
<1>2. t \in Game /\ t \in TurnPackets /\ t \in Held /\ t \notin Farewells /\ t.src = plr_self[e] /\ t.dst = player
      /\ t.turn = sent[e]
  BY <1>0, SlotTurns
<1>3. ASSUME NEW p \in Introductions(e)
      PROVE  /\ p \in Packets /\ p.type = "PT_CONNECT" /\ p.endpoint # NoEndpoint
             /\ p \notin Accepts /\ p \notin Game /\ p \notin Requests /\ p \notin Connects(e)
  <2>1. PICK h \in Programs : p \in Connects(h) /\ KnowsAt(e, h, p.player)
    BY DEF Introductions
  <2>2. p \in Packets /\ p.type = "PT_CONNECT" /\ p.endpoint = <<h>>
    BY <2>1 DEF Connects
  <2>3. p.player \in Slots
    BY <2>2, KindsOfPackets
  <2>4. h # e
    BY <2>1, <2>3 DEF InvK, TableOk, KnowsAt
  <2> QED BY <2>1, <2>2, <2>4, ConnectionTypes, Kinds DEF Connects
<1>4. t \in Packets /\ TurnPackets \subseteq Packets
  BY <1>2, Kinds
<1>5. Introductions(e) \subseteq Packets
  BY <1>3
<1> HIDE DEF acc, t
<1>6. Words(e, player) \subseteq Packets
  BY <1>1, <1>4, <1>5 DEF Words, acc, t
<1>7. FirstWord(e, player) \in Seq(TurnPackets) /\ FirstWord(e, player) \in Seq(Packets)
  <2>1. <<t>> \in Seq(TurnPackets) /\ <<>> \in Seq(TurnPackets)
    BY <1>2
  <2>2. FirstWord(e, player) \in Seq(TurnPackets)
    BY <2>1 DEF FirstWord, t
  <2> QED BY <1>4, <2>2, SeqMonotonicHere
<1> QED BY <1>1, <1>2, <1>3, <1>5, <1>6, <1>7 DEF acc, t

\* Of each player the new one is told once, then that it is accepted, before any turn.
LEMMA WelcomeFacts ==
    ASSUME Typed, InvK, NEW e \in Programs, Joined(e), NEW f \in Programs, NEW player \in Slots, NEW out,
           Welcome(e, f, player, out)
    PROVE  /\ out[f] \in Seq(Words(e, player)) /\ out[f] \in Seq(Packets)
           /\ \A k \in Programs : Count(out[f], News(e, k)) <= 1
           /\ Count(out[f], Accepts) > 0 /\ Ahead(out[f])
           /\ Among(out[f], TurnPackets) = FirstWord(e, player)
<1> DEFINE acc == JoinAccept(plr_self[e], player)
           t == Turn(plr_self[e], player, sent[e])
           word == FirstWord(e, player)
           one == <<acc>>
           I == Introductions(e)
<1>1. PICK list : Announced(e, list) /\ out[f] = list \o (one \o word)
  BY DEF Welcome, Greeting
<1>2. /\ acc \in Packets /\ acc \in Accepts
      /\ word \in Seq(TurnPackets) /\ word \in Seq(Packets)
      /\ \A p \in I : /\ p \in Packets /\ p \notin Accepts /\ p \notin Game /\ p \notin Connects(e)
      /\ I \subseteq Packets
  BY WordFacts
<1>3. list \in Seq(I) /\ \A k \in Programs : Count(list, Connects(k)) <= 1
  BY <1>1 DEF Announced
<1>4. list \in Seq(Packets) /\ one \in Seq(Packets) /\ one \o word \in Seq(Packets) /\ Len(one) = 1 /\ Head(one) = acc
  <2>1. list \in Seq(Packets)
    BY <1>2, <1>3, SeqMonotonicHere
  <2> QED BY <1>2, <2>1
<1>5. out[f] \in Seq(Packets)
  BY <1>1, <1>4
<1>6. out[f] \in Seq(Words(e, player))
  <2> DEFINE W == Words(e, player)
  <2>1. I \subseteq W /\ acc \in W /\ (word = <<>> \/ (word = <<t>> /\ t \in W))
    BY DEF Words, FirstWord
  <2>2. list \in Seq(W)
    BY <1>3, <2>1, SeqMonotonicHere
  <2> HIDE DEF W, acc, t, word, one
  <2>3. one \in Seq(W)
    BY <2>1 DEF one
  <2>30. word \in Seq(W)
    <3>1. <<>> \in Seq(W) /\ \A x \in W : <<x>> \in Seq(W)
      OBVIOUS
    <3> QED BY <2>1, <3>1
  <2> HIDE DEF word, one
  <2>4. list \o (one \o word) \in Seq(W)
    BY <2>2, <2>3, <2>30
  <2> QED BY <1>1, <2>4 DEF W
<1> HIDE DEF acc, t, word, one, I
<1>40. ASSUME NEW S PROVE Among(out[f], S) = Among(list, S) \o (Among(one, S) \o Among(word, S))
  <2> DEFINE rest == one \o word
  <2>1. rest \in Seq(Packets) /\ out[f] = list \o rest
    BY <1>1, <1>4
  <2>2. Among(rest, S) = Among(one, S) \o Among(word, S)
    BY <1>2, <1>4, AmongConcat
  <2> HIDE DEF rest
  <2>3. Among(list \o rest, S) = Among(list, S) \o Among(rest, S)
    BY <1>4, <2>1, AmongConcat
  <2> QED BY <2>1, <2>2, <2>3
<1>7. ASSUME NEW set PROVE Count(out[f], set) = Count(list, set) + ((IF acc \in set THEN 1 ELSE 0) + Count(word, set))
  <2>1. Count(list \o (one \o word), set) = Count(list, set) + Count(one \o word, set)
    BY <1>4, CountConcat
  <2>2. Count(one \o word, set) = Count(one, set) + Count(word, set)
    BY <1>2, <1>4, CountConcat
  <2>3. Count(one, set) = IF acc \in set THEN 1 ELSE 0
    BY <1>2, CountOne DEF one
  <2> QED BY <1>1, <2>1, <2>2, <2>3
<1>8. ASSUME NEW k \in Programs PROVE Count(out[f], News(e, k)) <= 1
  <2> DEFINE S == News(e, k)
  <2>1. Count(word, S) = 0
    <3>1. TurnPackets \cap S = {}
      BY Kinds DEF News
    <3>2. TurnPackets \in SUBSET Packets
      BY Kinds
    <3> QED BY <1>2, <3>1, <3>2, CountNone
  <2>2. CASE k = e
    <3>1. I \cap S = {}
      BY <1>2, <2>2 DEF News
    <3>2. Count(list, S) = 0
      BY <1>2, <1>3, <3>1, CountNone
    <3> HIDE DEF S
    <3>3. Count(out[f], S) = 0 + ((IF acc \in S THEN 1 ELSE 0) + 0)
      BY <1>7, <2>1, <3>2
    <3> QED BY <3>3 DEF S
  <2>3. CASE k # e
    <3>1. acc \notin S /\ S = Connects(k)
      BY <1>2, <2>3, Kinds DEF News
    <3>2. Count(list, S) \in Nat /\ Count(list, S) <= 1
      BY <1>3, <1>4, <3>1, CountBasics
    <3> HIDE DEF S
    <3>3. Count(out[f], S) = Count(list, S) + (0 + 0)
      BY <1>7, <2>1, <3>1
    <3>4. Count(out[f], S) <= 1
      BY <3>2, <3>3
    <3> QED BY <3>4 DEF S
  <2> QED BY <2>2, <2>3
<1>9. Count(out[f], Accepts) > 0
  <2>1. Count(list, Accepts) \in Nat /\ Count(word, Accepts) \in Nat
    BY <1>2, <1>4, CountBasics
  <2>2. Count(out[f], Accepts) = Count(list, Accepts) + (1 + Count(word, Accepts))
    BY <1>2, <1>7
  <2> QED BY <2>1, <2>2
<1>10. Ahead(out[f])
  <2> DEFINE S == Held \cup Accepts
             a == Among(list, S)
             b == Among(one, S)
             c == Among(word, S)
  <2>1. a = <<>>
    <3>1. I \cap S = {}
      BY <1>2, Kinds
    <3> QED BY <1>3, <3>1, AmongNone
  <2>2. b = one
    <3>1. one \in Seq(S)
      BY <1>2 DEF one
    <3> QED BY <3>1, AmongAll
  <2>3. c \in Seq(Packets)
    BY <1>2, AmongType
  <2>4. Among(out[f], S) = a \o (b \o c)
    <3> QED BY <1>40
  <2> HIDE DEF S, a, b, c
  <2>5. Head(Among(out[f], S)) = acc
    <3>1. one \o c \in Seq(Packets)
      BY <1>4, <2>3
    <3>2. \A s \in Seq(Packets) : <<>> \o s = s
      OBVIOUS
    <3>3. Among(out[f], S) = one \o c
      BY <2>1, <2>2, <2>4, <3>1, <3>2
    <3>4. one # <<>>
      BY DEF one
    <3>5. Head(one \o c) = Head(one)
      BY <1>4, <2>3, <3>4
    <3> QED BY <1>4, <3>3, <3>5
  <2> QED BY <1>2, <2>5 DEF Ahead, S
<1>11. Among(out[f], TurnPackets) = word
  <2> DEFINE a == Among(list, TurnPackets)
             b == Among(one, TurnPackets)
  <2>1. a = <<>>
    <3>1. I \cap TurnPackets = {}
      BY <1>2, Kinds
    <3> QED BY <1>3, <3>1, AmongNone
  <2>2. b = <<>>
    <3>1. one \in Seq(Accepts) /\ Accepts \cap TurnPackets = {}
      <4>1. one \in Seq(Accepts)
        BY <1>2 DEF one
      <4> QED BY <4>1, Kinds
    <3> QED BY <3>1, AmongNone
  <2>3. Among(word, TurnPackets) = word
    BY <1>2, AmongAll
  <2>4. Among(out[f], TurnPackets) = a \o (b \o word)
    <3>1. Among(out[f], TurnPackets) = a \o (b \o Among(word, TurnPackets))
      BY <1>40
    <3> QED BY <2>3, <3>1
  <2> HIDE DEF a, b
  <2>5. \A s \in Seq(Packets) : <<>> \o s = s
    OBVIOUS
  <2> QED BY <1>2, <2>1, <2>2, <2>4, <2>5
<1> QED BY <1>5, <1>6, <1>8, <1>9, <1>10, <1>11 DEF word

\* What the others are told of f.
LEMMA ConnectFacts ==
    ASSUME NEW f \in Programs, NEW player \in Slots
    PROVE  /\ ConnectPacket(player, f) \in Packets /\ ConnectPacket(player, f) \in Connects(f)
           /\ ConnectPacket(player, f).player = player /\ ConnectPacket(player, f).endpoint # NoEndpoint
           /\ ConnectPacket(player, f).type = "PT_CONNECT"
           /\ ConnectPacket(player, f) \notin Accepts \cup Game \cup Requests
           /\ \A h \in Programs : ConnectPacket(player, f) \in Connects(h) => h = f
<1> DEFINE p == ConnectPacket(player, f)
<1>1. p \in Packets /\ p.type = "PT_CONNECT" /\ p.player = player /\ p.endpoint = <<f>>
  BY PacketTypes
<1> HIDE DEF p
<1>2. <<f>> # NoEndpoint /\ \A h \in Programs : <<f>> = <<h>> => h = f
  BY ConnectionTypes
<1>3. p \in Connects(f) /\ \A h \in Programs : p \in Connects(h) => h = f
  BY <1>1, <1>2 DEF Connects
<1>4. p \notin Accepts \cup Game \cup Requests
  BY <1>1, Kinds
<1> QED BY <1>1, <1>2, <1>3, <1>4 DEF p

\* Where the step adds nothing.
Spared(e, f, player, x, y, set) == x # e \/ (y # f /\ (ConnectPacket(player, f) \notin set \/ ~ Met(e, y)))

LEMMA AdmitCounts ==
    ASSUME Typed, Typed', InvK, NEW e \in Programs, NEW f \in Programs \ {e}, NEW player, NEW out, Admits(e, f, player, out),
           NEW x \in Programs, NEW y \in Programs \ {x}, NEW set
    PROVE  /\ Cnt(x, y, set) \in Nat /\ Cnt(x, y, set)' \in Nat
           /\ Spared(e, f, player, x, y, set) => Cnt(x, y, set)' <= Cnt(x, y, set)
           /\ x = e /\ y = f => Cnt(x, y, set)' <= Count(out[f], set)
           /\ x = e /\ y # f => Cnt(x, y, set)' <= Cnt(x, y, set) + 1
           /\ x = f /\ y = e /\ Arrived(e, f) \in set => Cnt(x, y, set)' + 1 <= Cnt(x, y, set)
<1> DEFINE n == Cnt(x, y, set)
           k == Cnt(x, y, set)'
           c == Count(out[y], set)
<1>1. n \in Nat /\ k \in Nat
  BY LanesTyped, LanesTypedAfter
<1>2. Flow(e, f, out)
  BY MoveFlow DEF Admits
<1>3. k + (IF y = e /\ x = f /\ Arrived(e, f) \in set THEN 1 ELSE 0) <= n + (IF x = e THEN c ELSE 0)
  BY <1>2 DEF Flow
<1>4. player \in Slots /\ Welcome(e, f, player, out) /\ Unknown(f)
  BY DEF Admits
<1>5. out[y] \in Seq(Packets)
  BY DEF Admits, Move, Letters
<1>6. c \in Nat
  BY <1>5, CountBasics
<1>7. ASSUME x = e, y # f PROVE c <= 1 /\ (ConnectPacket(player, f) \notin set \/ ~ Met(e, y) => c = 0)
  <2>1. out[y] = <<>> \/ (out[y] = <<ConnectPacket(player, f)>> /\ Met(e, y))
    BY <1>4, <1>7 DEF Welcome
  <2>2. CASE out[y] = <<>>
    <3>1. c = 0
      BY <2>2, CountBasics
    <3> QED BY <3>1
  <2>3. CASE out[y] = <<ConnectPacket(player, f)>> /\ Met(e, y)
    <3>1. ConnectPacket(player, f) \in Packets
      BY <1>4, ConnectFacts
    <3>2. c = IF ConnectPacket(player, f) \in set THEN 1 ELSE 0
      BY <2>3, <3>1, CountOne
    <3> QED BY <2>3, <3>2
  <2> QED BY <2>1, <2>2, <2>3
<1>8. x = e /\ y = f => n = 0
  <2>1. Cnt(e, f, Packets) = 0
    BY <1>4 DEF Unknown, Strange
  <2>2. x = e /\ y = f => (n > 0 => Cnt(e, f, Packets) > 0)
    BY FlyingIn DEF Flying
  <2> QED BY <1>1, <2>1, <2>2
<1> HIDE DEF n, k, c
<1>9. Spared(e, f, player, x, y, set) => k <= n
  BY <1>1, <1>3, <1>6, <1>7 DEF Spared
<1>10. x = e /\ y = f => k <= c
  BY <1>1, <1>3, <1>6, <1>8
<1>11. x = e /\ y # f => k <= n + 1
  BY <1>1, <1>3, <1>6, <1>7
<1>12. x = f /\ y = e /\ Arrived(e, f) \in set => k + 1 <= n
  BY <1>1, <1>3
<1> QED BY <1>1, <1>9, <1>10, <1>11, <1>12 DEF n, k, c

LEMMA AdmitNone ==
    ASSUME Typed, Typed', InvK, NEW e \in Programs, NEW f \in Programs \ {e}, NEW player, NEW out, Admits(e, f, player, out),
           NEW x \in Programs, NEW y \in Programs \ {x}, NEW set, Spared(e, f, player, x, y, set)
    PROVE  /\ Cnt(x, y, set) = 0 => Cnt(x, y, set)' = 0
           /\ Cnt(x, y, set) <= 1 => Cnt(x, y, set)' <= 1
           /\ Cnt(x, y, set)' > 0 => Cnt(x, y, set) > 0
<1> DEFINE n == Cnt(x, y, set)
           k == Cnt(x, y, set)'
<1>1. n \in Nat /\ k \in Nat /\ k <= n
  BY AdmitCounts
<1> HIDE DEF n, k
<1>2. (n = 0 => k = 0) /\ (n <= 1 => k <= 1) /\ (k > 0 => n > 0)
  BY <1>1
<1> QED BY <1>2 DEF n, k

\* What is new on its way.
LEMMA AdmitFlying ==
    ASSUME Typed, Typed', InvK, NEW e \in Programs, NEW f \in Programs \ {e}, NEW player, NEW out, Admits(e, f, player, out),
           NEW x \in Programs, NEW y \in Programs \ {x}, NEW p \in Flying(x, y)'
    PROVE  \/ p \in Flying(x, y) /\ ~ (x = e /\ y = f)
           \/ x = e /\ y = f /\ p \in Words(e, player)
           \/ x = e /\ y # f /\ p = ConnectPacket(player, f) /\ Met(e, y)
<1>1. p \in Packets /\ Cnt(x, y, {p})' > 0
  BY DEF Flying
<1>2. CASE x = e /\ y = f
  <2> DEFINE S == Words(e, player)
  <2>1. player \in Slots /\ Joined(e) /\ Welcome(e, f, player, out)
    BY DEF Admits
  <2>2. out[f] \in Seq(S) /\ S \in SUBSET Packets
    <3>1. S \subseteq Packets
      BY <2>1, WordFacts
    <3>2. out[f] \in Seq(S)
      BY <2>1, WelcomeFacts
    <3> QED BY <3>1, <3>2
  <2>3. Cnt(x, y, {p})' <= Count(out[f], {p}) /\ Cnt(x, y, {p})' \in Nat
    BY <1>2, AdmitCounts
  <2>4. p \notin S => Count(out[f], {p}) = 0
    <3> HIDE DEF S
    <3>1. p \notin S => S \cap {p} = {}
      OBVIOUS
    <3> QED BY <2>2, <3>1, CountNone
  <2>5. p \in S
    <3> DEFINE k == Cnt(x, y, {p})'
               c == Count(out[f], {p})
    <3>1. k > 0 /\ k \in Nat /\ k <= c /\ (p \notin S => c = 0)
      BY <1>1, <2>3, <2>4
    <3> HIDE DEF k, c, S
    <3> QED BY <3>1
  <2> QED BY <1>2, <2>5
<1>3. CASE ~ (x = e /\ y = f)
  <2>1. CASE Spared(e, f, player, x, y, {p})
    <3>1. Cnt(x, y, {p}) > 0
      BY <1>1, <2>1, AdmitNone
    <3> QED BY <1>1, <1>3, <3>1 DEF Flying
  <2>2. CASE ~ Spared(e, f, player, x, y, {p})
    BY <1>3, <2>2 DEF Spared
  <2> QED BY <2>1, <2>2
<1> QED BY <1>2, <1>3

LEMMA EmptyLanes ==
    ASSUME Typed, NEW x \in Programs, NEW y \in Programs \ {x}, Cnt(x, y, Packets) = 0
    PROVE  L1(x, y) = <<>> /\ L2(x, y) = <<>> /\ L3(x, y) = <<>>
<1>1. L1(x, y) \in Seq(Packets) /\ L2(x, y) \in Seq(Packets) /\ L3(x, y) \in Seq(Packets)
  BY LanesTyped
<1>2. ASSUME NEW a \in Seq(Packets) PROVE Count(a, Packets) = Len(a) /\ Len(a) \in Nat
  BY AmongAll DEF Count
<1>3. Count(L1(x, y), Packets) + Count(L2(x, y), Packets) + Count(L3(x, y), Packets) = 0
  BY DEF Cnt
<1>4. ASSUME NEW a \in Seq(Packets), Len(a) = 0 PROVE a = <<>>
  BY <1>4
<1>5. Len(L1(x, y)) = 0 /\ Len(L2(x, y)) = 0 /\ Len(L3(x, y)) = 0
  BY <1>1, <1>2, <1>3
<1> QED BY <1>1, <1>4, <1>5

\* The lanes between e and f.
LEMMA AdmitLanes ==
    ASSUME Typed, Typed', InvW, InvK, NEW e \in Programs, NEW f \in Programs \ {e}, NEW player, NEW out, Admits(e, f, player, out)
    PROVE  /\ L1(e, f)' = <<>> /\ L3(e, f)' = <<>> /\ L2(e, f)' = IF f \in gone THEN <<>> ELSE out[f]
           /\ (\A x, y \in Programs : fd'[x][y] = fd[x][y]) /\ backlog' = backlog
<1>1. Cnt(e, f, Packets) = 0 /\ Move(e, f, {}, out) /\ fd[e][f] = <<f, e>> /\ <<f, e>> \notin backlog
      /\ (f \notin gone => fd[f][e] = <<f, e>>)
  BY DEF Admits, Unknown, Strange
<1>2. L1(e, f) = <<>> /\ L2(e, f) = <<>> /\ L3(e, f) = <<>>
  BY <1>1, EmptyLanes
<1>3. <<e, f>> # <<f, e>> /\ NoConnection # <<f, e>>
  BY PairTypes
<1>4. SendLanes(e, f, {}, out[f])
  BY <1>1 DEF Move
<1>5. out[f] \in Seq(Packets)
  BY <1>1 DEF Move, Letters
<1>6. f \in gone => fd[f][e] # <<f, e>>
  <2>1. LinkW(f, e)
    BY DEF InvW
  <2> QED BY <1>3, <2>1 DEF LinkW
<1>7. L1(e, f)' = <<>> /\ L3(e, f)' = <<>>
  BY <1>1, <1>2, <1>3, <1>4 DEF SendLanes, Reaches
<1>8. L2(e, f)' = IF f \in gone THEN <<>> ELSE <<>> \o out[f]
  BY <1>1, <1>2, <1>4, <1>6 DEF SendLanes, Reaches
<1>9. \A s \in Seq(Packets) : <<>> \o s = s
  OBVIOUS
<1>10. (\A x, y \in Programs : fd'[x][y] = fd[x][y]) /\ backlog' = backlog
  BY <1>1 DEF Move
<1> QED BY <1>5, <1>7, <1>8, <1>9, <1>10

LEMMA WordsKinds ==
    ASSUME Typed, InvK, NEW e \in Programs, Joined(e), NEW player \in Slots, NEW p \in Words(e, player)
    PROVE  /\ p \in Packets /\ p \notin Requests
           /\ \/ p \in Introductions(e)
              \/ p = JoinAccept(plr_self[e], player) /\ p \in Accepts
              \/ p = Turn(plr_self[e], player, sent[e]) /\ p \in TurnPackets /\ ~ awaiting[e]
           /\ p \in Accepts => p = JoinAccept(plr_self[e], player)
           /\ p \in Game => p = Turn(plr_self[e], player, sent[e]) /\ ~ awaiting[e]
           /\ \A h \in Programs : p \in Connects(h) =>
                  p \in Introductions(e) /\ KnowsAt(e, h, p.player) /\ p.player \in Slots
<1>1. \/ p \in Introductions(e)
      \/ p = JoinAccept(plr_self[e], player)
      \/ p = Turn(plr_self[e], player, sent[e]) /\ ~ awaiting[e]
  BY DEF Words
<1>2. /\ JoinAccept(plr_self[e], player) \in Accepts /\ Turn(plr_self[e], player, sent[e]) \in TurnPackets
      /\ Turn(plr_self[e], player, sent[e]) \in Game
      /\ p \in Introductions(e) => p \in Packets /\ p \notin Accepts /\ p \notin Game /\ p \notin Requests
      /\ p \in Packets
  <2>1. p \in Introductions(e) => p \in Packets /\ p \notin Accepts /\ p \notin Game /\ p \notin Requests
    BY WordFacts
  <2>2. /\ JoinAccept(plr_self[e], player) \in Accepts /\ Turn(plr_self[e], player, sent[e]) \in TurnPackets
        /\ Turn(plr_self[e], player, sent[e]) \in Game /\ Words(e, player) \subseteq Packets
    BY WordFacts
  <2> QED BY <2>1, <2>2
<1>3. ASSUME NEW h \in Programs, p \in Connects(h)
      PROVE  p \in Introductions(e) /\ KnowsAt(e, h, p.player) /\ p.player \in Slots
  <2>1. p \in Introductions(e)
    BY <1>1, <1>2, <1>3, Kinds
  <2>2. PICK x \in Programs : p \in Connects(x) /\ KnowsAt(e, x, p.player)
    BY <2>1 DEF Introductions
  <2>3. x = h
    BY <1>3, <2>2, ConnectionTypes DEF Connects
  <2>4. p.player \in Slots
    BY <1>2, <1>3, KindsOfPackets DEF Connects
  <2> QED BY <2>1, <2>2, <2>3, <2>4
<1>4. p \notin Requests /\ (p \in Game => p \notin Accepts)
  BY <1>1, <1>2, Kinds
<1> QED BY <1>1, <1>2, <1>3, <1>4

\* What stays as it was.
LEMMA AdmitSame ==
    ASSUME Typed, Typed', NEW e \in Programs, NEW f \in Programs \ {e}, NEW player, NEW out, Admits(e, f, player, out),
           NEW x \in Programs, NEW y \in Programs
    PROVE  /\ Joined(x)' <=> Joined(x)
           /\ \A i \in Slots : KnowsAt(x, y, i)' <=> KnowsAt(x, y, i) \/ (x = e /\ y = f /\ i = player)
           /\ Met(x, y)' <=> Met(x, y) \/ (x = e /\ y = f)
           /\ Fresh(x)' <=> Fresh(x)
           /\ \A i \in Slots : ~ (x = e /\ i = player) => peers'[x][i] = peers[x][i]
<1>1. /\ \A z \in Programs \ {e} : peers'[z] = peers[z]
      /\ \A i \in Slots \ {player} : peers'[e][i] = peers[e][i]
      /\ peers[e][player].endpoint = NoEndpoint /\ peers'[e][player].endpoint = <<f>> /\ player \in Slots
      /\ plr_self' = plr_self /\ firstpeer' = firstpeer
  BY DEF Admits
<1>2. <<y>> # NoEndpoint /\ (<<f>> = <<y>> <=> y = f)
  BY ConnectionTypes
<1>3. \A i \in Slots : ~ (x = e /\ i = player) => peers'[x][i] = peers[x][i]
  BY <1>1
<1>4. \A i \in Slots : KnowsAt(x, y, i)' <=> KnowsAt(x, y, i) \/ (x = e /\ y = f /\ i = player)
  BY <1>1, <1>2, <1>3 DEF KnowsAt
<1>5. Met(x, y)' <=> Met(x, y) \/ (x = e /\ y = f)
  BY <1>1, <1>4 DEF Met, Slots
<1>6. (Joined(x)' <=> Joined(x)) /\ (Fresh(x)' <=> Fresh(x))
  BY <1>1 DEF Joined, Fresh, Slots, NoEndpoint
<1> QED BY <1>3, <1>4, <1>5, <1>6

LEMMA AdmitInvW ==
    ASSUME Typed, Typed', InvW, NEW e \in Programs, NEW f \in Programs \ {e}, NEW player, NEW out, Admits(e, f, player, out)
    PROVE  InvW'
<1>1. Move(e, f, {}, out) /\ \A x \in Programs \ {e} : peers'[x] = peers[x]
  BY DEF Admits
<1> QED BY <1>1, MoveInvW

LEMMA AdmitInvK ==
    ASSUME Typed, Typed', InvK, NEW e \in Programs, NEW f \in Programs \ {e}, NEW player, NEW out, Admits(e, f, player, out)
    PROVE  InvK'
<1> SUFFICES ASSUME NEW x \in Programs PROVE TableOk(x)'
  BY DEF InvK
<1>1. TableOk(x)
  BY DEF InvK
<1>2. /\ plr_self' = plr_self /\ firstpeer' = firstpeer /\ awaiting' = awaiting
      /\ isConnected' = [isConnected EXCEPT ![e] = @ \cup {player}]
      /\ (Joined(x)' <=> Joined(x)) /\ player \in Slots /\ ~ Met(e, f)
      /\ \A z \in Programs \ {e} : peers'[z] = peers[z]
      /\ \A i \in Slots \ {player} : peers'[e][i] = peers[e][i]
      /\ peers'[e][player].endpoint = <<f>> /\ peers'[e][player].sendQueue = <<>>
  BY AdmitSame DEF Admits
<1>3. CASE x # e
  <2>1. peers'[x] = peers[x] /\ isConnected'[x] = isConnected[x]
    BY <1>2, <1>3 DEF Typed
  <2> QED BY <1>1, <1>2, <2>1 DEF TableOk, Slots, NoPeer, NoEndpoint
<1>4. CASE x = e
  <2>1. \A i \in Slots : peers[e][i].endpoint # <<f>>
    BY <1>2 DEF Met, KnowsAt
  <2>2. <<f>> # NoEndpoint /\ <<f>> # <<e>>
    BY ConnectionTypes
  <2>3. isConnected'[e] = isConnected[e] \cup {player}
    BY <1>2 DEF Typed
  <2>4. ASSUME NEW i \in Slots
        PROVE  /\ peers'[e][i].endpoint # <<e>>
               /\ peers'[e][i].endpoint = NoEndpoint => peers'[e][i] = NoPeer
               /\ ~ peers'[e][i].queued => peers'[e][i].sendQueue = <<>>
               /\ peers'[e][i].endpoint # NoEndpoint => i \in isConnected'[e]
    <3>1. CASE i = player
      BY <1>2, <2>2, <2>3, <3>1
    <3>2. CASE i # player
      <4>1. peers'[e][i] = peers[e][i]
        BY <1>2, <3>2
      <4> QED BY <1>1, <1>4, <2>3, <4>1 DEF TableOk
    <3> QED BY <3>1, <3>2
  <2>5. \A i, j \in Slots : peers'[e][i].endpoint # NoEndpoint
           /\ peers'[e][i].endpoint = peers'[e][j].endpoint => i = j
    BY <1>1, <1>2, <1>4, <2>1 DEF TableOk
  <2> QED BY <1>1, <1>2, <1>4, <2>4, <2>5 DEF TableOk, Slots, NoPeer, NoEndpoint
<1> QED BY <1>3, <1>4

\* Who has been taken into the game is born.
LEMMA AdmitUnborn ==
    ASSUME Typed, Typed', InvK, InvU, NEW e \in Programs, NEW f \in Programs \ {e}, NEW player, NEW out,
           Admits(e, f, player, out), NEW x \in Programs, Unborn(x)'
    PROVE  x # e /\ x # f /\ Unborn(x) /\ Unknown(x)
<1>1. Joined(e) /\ Arrived(e, f) \in Requests /\ firstpeer[f] = <<e>> /\ Unknown(f)
  BY DEF Admits
<1>2. Joined(x)' <=> Joined(x)
  BY AdmitSame
<1>3. Fresh(x)' <=> Fresh(x)
  BY AdmitSame
<1>4. ASSUME x = e PROVE FALSE
  <2>1. ~ Fresh(e)' /\ Asking(e)'
    BY <1>1, <1>3, <1>4 DEF Unborn, Fresh
  <2>2. PICK m \in Programs \ {e} : Cnt(e, m, Requests)' > 0
    BY <2>1 DEF Asking, Requests
  <2>3. PICK p \in Flying(e, m)' : p \in Requests
    BY <2>2, FlyingAfter
  <2>4. \/ p \in Flying(e, m) \/ p \in Words(e, player) \/ p = ConnectPacket(player, f)
    BY AdmitFlying
  <2>5. p \notin Words(e, player) /\ p # ConnectPacket(player, f)
    <3>1. player \in Slots
      BY DEF Admits
    <3> QED BY <1>1, <2>3, <3>1, WordsKinds, ConnectFacts
  <2>6. Cnt(e, m, Requests) > 0
    BY <2>3, <2>4, <2>5, FlyingIn
  <2>7. Unknown(e)
    BY <2>6 DEF InvU, Unborn, Asking
  <2> QED BY <1>1, <2>7 DEF Unknown
<1>5. Asking(x)' => \E m \in Programs \ {x} : Cnt(x, m, Requests)' > 0
  BY DEF Asking, Requests
<1>6. ASSUME NEW m \in Programs \ {x}, Cnt(x, m, Requests)' > 0 PROVE Cnt(x, m, Requests) > 0
  <2>1. Spared(e, f, player, x, m, Requests)
    BY <1>4 DEF Spared
  <2> QED BY <1>6, <2>1, AdmitNone
<1>7. Unborn(x)
  BY <1>3, <1>5, <1>6 DEF Unborn, Asking
<1>8. ASSUME x = f PROVE FALSE
  <2>1. ~ Fresh(f)'
    BY <1>1, <1>3, <1>8, ConnectionTypes DEF Fresh
  <2>2. PICK m \in Programs \ {f} : Cnt(f, m, Requests)' > 0
    BY <1>5, <1>8, <2>1 DEF Unborn
  <2>3. Cnt(f, m, Requests) > 0
    BY <1>6, <1>8, <2>2
  <2>4. firstpeer[f] = <<m>>
    BY <2>3 DEF InvU, Asked
  <2>5. m = e
    BY <1>1, <2>4, ConnectionTypes
  <2>6. Cnt(f, e, Requests)' + 1 <= Cnt(f, e, Requests) /\ Cnt(f, e, Requests) \in Nat /\ Cnt(f, e, Requests)' \in Nat
    BY <1>1, AdmitCounts
  <2>7. Cnt(f, e, Requests) <= 1
    BY <1>1 DEF Unknown, Strange
  <2> DEFINE k == Cnt(f, e, Requests)'
  <2>8. k > 0 /\ k + 1 <= Cnt(f, e, Requests) /\ k \in Nat
    BY <2>2, <2>5, <2>6
  <2> HIDE DEF k
  <2> QED BY <2>6, <2>7, <2>8
<1> QED BY <1>4, <1>7, <1>8 DEF InvU

LEMMA AdmitInvL ==
    ASSUME Typed, Typed', InvK, InvU, InvL, NEW e \in Programs, NEW f \in Programs \ {e}, NEW player, NEW out,
           Admits(e, f, player, out)
    PROVE  InvL'
<1> SUFFICES ASSUME NEW x \in Programs, Unborn(x)', NEW y \in Programs \ {x} PROVE LinkOut(x, y)'
  BY DEF InvL
<1>1. LinkOut(x, y)
  BY AdmitUnborn DEF InvL
<1>2. Move(e, f, {}, out)
  BY DEF Admits
<1>3. fd'[x][y] = fd[x][y] /\ fd'[y][x] = fd[y][x] /\ backlog' = backlog /\ crossed' = crossed /\ gone' = gone
  BY <1>2 DEF Move
<1> QED BY <1>1, <1>3 DEF LinkOut

LEMMA AdmitInvU ==
    ASSUME Typed, Typed', InvK, InvU, NEW e \in Programs, NEW f \in Programs \ {e}, NEW player, NEW out,
           Admits(e, f, player, out)
    PROVE  InvU'
<1>0. Joined(e) /\ player \in Slots
  BY DEF Admits
<1>1. ASSUME NEW x \in Programs, Unborn(x)' PROVE Unknown(x)'
  <2>1. x # e /\ x # f /\ Unborn(x) /\ Unknown(x)
    BY <1>1, AdmitUnborn
  <2>2. ~ Joined(x)' /\ peers'[x] = peers[x]
    <3>1. Joined(x)' <=> Joined(x)
      BY AdmitSame
    <3> QED BY <2>1, <3>1 DEF Unknown, Admits
  <2>3. \A i \in Slots : peers'[x][i] = NoPeer
    BY <2>1, <2>2 DEF Unknown
  <2>4. ASSUME NEW y \in Programs \ {x} PROVE Strange(x, y)'
    <3>1. Strange(x, y)
      BY <2>1 DEF Unknown
    <3>2. Cnt(y, x, Packets)' = 0
      <4>1. Spared(e, f, player, y, x, Packets)
        BY <2>1, <3>1 DEF Strange, Spared
      <4> QED BY <3>1, <4>1, AdmitNone DEF Strange
    <3>3. ~ Met(y, x)'
      <4>1. Met(y, x)' <=> Met(y, x) \/ (y = e /\ x = f)
        BY AdmitSame
      <4> QED BY <2>1, <3>1, <4>1 DEF Strange
    <3>4. Cnt(x, y, Packets \ Requests)' = 0
      <4>1. Spared(e, f, player, x, y, Packets \ Requests)
        BY <2>1 DEF Spared
      <4> QED BY <3>1, <4>1, AdmitNone DEF Strange
    <3>5. Cnt(x, y, Requests)' <= 1
      <4>1. Spared(e, f, player, x, y, Requests)
        BY <2>1 DEF Spared
      <4> QED BY <3>1, <4>1, AdmitNone DEF Strange
    <3>6. got' = got
      BY DEF Admits
    <3> QED BY <3>1, <3>2, <3>3, <3>4, <3>5, <3>6 DEF Strange, Packets, Requests
  <2>5. ASSUME NEW m \in Programs, NEW z \in Programs \ {m} PROVE Cnt(m, z, Connects(x))' = 0
    <3>1. Cnt(m, z, Connects(x)) = 0
      BY <2>1 DEF Unknown
    <3>2. CASE ~ (m = e /\ z = f)
      <4>1. ConnectPacket(player, f) \notin Connects(x)
        BY <1>0, <2>1, ConnectFacts
      <4>2. Spared(e, f, player, m, z, Connects(x))
        BY <3>2, <4>1 DEF Spared
      <4> QED BY <3>1, <4>2, AdmitNone
    <3>3. CASE m = e /\ z = f
      <4>1. Cnt(m, z, Connects(x))' \in Nat
        BY AdmitCounts
      <4>2. ASSUME Cnt(m, z, Connects(x))' > 0 PROVE FALSE
        <5>1. PICK p \in Flying(m, z)' : p \in Connects(x)
          BY <4>2, FlyingAfter
        <5>2. p \in Words(e, player)
          BY <3>3, <5>1, AdmitFlying
        <5>3. KnowsAt(e, x, p.player) /\ p.player \in Slots
          BY <1>0, <5>1, <5>2, WordsKinds
        <5>4. ~ Met(e, x)
          BY <2>1 DEF Unknown, Strange
        <5> QED BY <5>3, <5>4 DEF Met
      <4> QED BY <4>1, <4>2
    <3> QED BY <3>2, <3>3
  <2> QED BY <2>2, <2>3, <2>4, <2>5 DEF Unknown, Slots, NoPeer, NoEndpoint, Connects, Packets
<1>2. ASSUME NEW x \in Programs, NEW y \in Programs \ {x} PROVE Asked(x, y)'
  <2>1. Asked(x, y) /\ firstpeer' = firstpeer
    BY DEF InvU, Admits
  <2>2. Fresh(x)' => Cnt(x, y, Packets)' = 0
    <3>1. Fresh(x)' => Fresh(x)
      BY AdmitSame
    <3>2. Fresh(x) => x # e
      BY <1>0 DEF Fresh
    <3>3. x # e => Spared(e, f, player, x, y, Packets)
      BY DEF Spared
    <3>4. Spared(e, f, player, x, y, Packets) /\ Cnt(x, y, Packets) = 0 => Cnt(x, y, Packets)' = 0
      BY AdmitNone
    <3> QED BY <2>1, <3>1, <3>2, <3>3, <3>4 DEF Asked
  <2>3. ASSUME Cnt(x, y, Requests)' > 0 PROVE Cnt(x, y, Requests) > 0
    <3>1. PICK p \in Flying(x, y)' : p \in Requests
      BY <2>3, FlyingAfter
    <3>2. p \in Flying(x, y) \/ p \in Words(e, player) \/ p = ConnectPacket(player, f)
      BY AdmitFlying
    <3>3. p \in Flying(x, y)
      BY <1>0, <3>1, <3>2, WordsKinds, ConnectFacts
    <3> QED BY <3>1, <3>3, FlyingIn
  <2> QED BY <2>1, <2>2, <2>3 DEF Asked, Packets, Requests
<1> QED BY <1>1, <1>2 DEF InvU

\* Before the step nobody knows f or has heard of it, and f has heard of nobody.
LEMMA StrangerFacts ==
    ASSUME Typed, NEW f \in Programs, Unknown(f), NEW h \in Programs
    PROVE  /\ ~ Intro(h, f) /\ ~ Intro(f, h) /\ ~ Met(f, h) /\ (h # f => ~ Met(h, f))
           /\ h # f => Flying(h, f) = {} /\ \A p \in Flying(f, h) : p \in Requests
           /\ \A m \in Programs : ~ Told(m, h, f) /\ ~ Told(m, f, h)
<1>1. \A x \in Programs \ {f} : Strange(f, x)
  BY DEF Unknown
<1>2. ASSUME NEW x \in Programs \ {f}, NEW y \in Flying(x, f) PROVE FALSE
  <2>1. Cnt(x, f, Packets) = 0
    BY <1>1 DEF Strange
  <2>2. y \in Packets
    BY DEF Flying
  <2>3. Cnt(x, f, Packets) > 0
    BY <2>2, FlyingIn
  <2> QED BY <2>1, <2>3
<1>3. ASSUME NEW x \in Programs \ {f}, NEW p \in Flying(f, x) PROVE p \in Requests
  <2>1. Cnt(f, x, Packets \ Requests) = 0
    BY <1>1 DEF Strange
  <2>2. p \in Packets
    BY DEF Flying
  <2>3. p \in Packets \ Requests => Cnt(f, x, Packets \ Requests) > 0
    BY FlyingIn
  <2> QED BY <2>1, <2>2, <2>3
<1>4. ASSUME NEW m \in Programs, Told(m, f, h) PROVE FALSE
  <2>1. m \in Programs \ {f} /\ Cnt(m, f, News(m, h)) > 0
    BY <1>4 DEF Told
  <2>2. \E p \in Flying(m, f) : p \in News(m, h)
    BY <2>1, FlyingIn
  <2> QED BY <1>2, <2>1, <2>2
<1>5. ASSUME NEW m \in Programs, Told(m, h, f) PROVE FALSE
  <2>1. h \in Programs \ {m} /\ Cnt(m, h, News(m, f)) > 0
    BY <1>5 DEF Told
  <2>2. PICK p \in Flying(m, h) : p \in News(m, f)
    BY <2>1, FlyingIn
  <2>3. CASE p \in Connects(f)
    <3>1. Cnt(m, h, Connects(f)) > 0
      BY <2>1, <2>2, <2>3, FlyingIn
    <3>2. Cnt(m, h, Connects(f)) = 0
      BY <2>1 DEF Unknown
    <3> QED BY <3>1, <3>2
  <2>4. CASE p \in Accepts
    <3>1. m = f
      BY <2>2, <2>4, NewsKinds
    <3>2. p \in Requests
      BY <1>3, <2>1, <2>2, <3>1
    <3> QED BY <2>4, <3>2, Kinds
  <2> QED BY <2>2, <2>3, <2>4, NewsKinds
<1>6. ~ Met(f, h)
  <2>1. \A i \in Slots : peers[f][i].endpoint = NoEndpoint
    BY DEF Unknown, NoPeer
  <2>2. <<h>> # NoEndpoint
    BY ConnectionTypes
  <2> QED BY <2>1, <2>2 DEF Met, KnowsAt
<1>7. h # f => ~ Met(h, f)
  BY <1>1 DEF Strange
<1>8. h # f => Flying(h, f) = {}
  BY <1>2
<1>9. h # f => \A p \in Flying(f, h) : p \in Requests
  BY <1>3
<1>10. (\A m \in Programs : ~ Told(m, h, f) /\ ~ Told(m, f, h)) /\ ~ Intro(h, f) /\ ~ Intro(f, h)
  BY <1>4, <1>5 DEF Intro
<1> QED BY <1>6, <1>7, <1>8, <1>9, <1>10

\* Who is told of whom.
LEMMA AdmitTold ==
    ASSUME Typed, Typed', InvK, NEW e \in Programs, NEW f \in Programs \ {e}, NEW player, NEW out,
           Admits(e, f, player, out), NEW m \in Programs, NEW h \in Programs, NEW k \in Programs, Told(m, h, k)'
    PROVE  \/ Told(m, h, k)
           \/ m = e /\ h = f /\ k # f /\ (k = e \/ Met(e, k))
           \/ m = e /\ k = f /\ h # f /\ h # e /\ Met(e, h)
<1>1. h \in Programs \ {m} /\ Cnt(m, h, News(m, k))' > 0
  BY DEF Told, News, Connects, Accepts, Packets
<1>2. PICK p \in Flying(m, h)' : p \in News(m, k)
  BY <1>1, FlyingAfter
<1>3. Joined(e) /\ player \in Slots /\ ~ Met(e, f)
  BY DEF Admits
<1>4. p \in Accepts \/ p \in Connects(k)
  BY <1>2, NewsKinds
<1>5. CASE p \in Flying(m, h)
  <2>1. Cnt(m, h, News(m, k)) > 0
    BY <1>1, <1>2, <1>5, FlyingIn
  <2> QED BY <1>1, <2>1 DEF Told
<1>6. CASE m = e /\ h = f /\ p \in Words(e, player)
  <2>1. p \in Accepts => k = e
    BY <1>2, <1>6, NewsKinds
  <2>2. p \in Connects(k) => KnowsAt(e, k, p.player) /\ p.player \in Slots
    BY <1>3, <1>6, WordsKinds
  <2>3. p \in Connects(k) => Met(e, k)
    BY <2>2 DEF Met
  <2> QED BY <1>3, <1>4, <1>6, <2>1, <2>3
<1>7. CASE m = e /\ h # f /\ p = ConnectPacket(player, f) /\ Met(e, h)
  <2>1. k = f
    BY <1>3, <1>4, <1>7, ConnectFacts
  <2> QED BY <1>1, <1>7, <2>1
<1>8. \/ p \in Flying(m, h)
      \/ m = e /\ h = f /\ p \in Words(e, player)
      \/ m = e /\ h # f /\ p = ConnectPacket(player, f) /\ Met(e, h)
  BY <1>1, <1>2, AdmitFlying
<1> QED BY <1>5, <1>6, <1>7, <1>8

LEMMA AdmitIntro ==
    ASSUME Typed, Typed', InvK, NEW e \in Programs, NEW f \in Programs \ {e}, NEW player, NEW out,
           Admits(e, f, player, out), NEW h \in Programs, NEW k \in Programs, Intro(h, k)'
    PROVE  \/ Intro(h, k)
           \/ h = f /\ k # f /\ (k = e \/ Met(e, k))
           \/ k = f /\ h # f /\ h # e /\ Met(e, h)
<1>1. PICK m \in Programs : Told(m, h, k)'
  BY DEF Intro
<1>2. \/ Told(m, h, k)
      \/ m = e /\ h = f /\ k # f /\ (k = e \/ Met(e, k))
      \/ m = e /\ k = f /\ h # f /\ h # e /\ Met(e, h)
  BY <1>1, AdmitTold
<1> QED BY <1>2 DEF Intro

LEMMA AdmitInvI ==
    ASSUME Typed, Typed', InvK, InvI, NEW e \in Programs, NEW f \in Programs \ {e}, NEW player, NEW out,
           Admits(e, f, player, out)
    PROVE  InvI'
<1>0. Joined(e) /\ player \in Slots /\ Unknown(f) /\ Welcome(e, f, player, out)
  BY DEF Admits
<1> SUFFICES ASSUME NEW h \in Programs, NEW k \in Programs PROVE ToldOnce(h, k)'
  BY DEF InvI
<1>1. ToldOnce(h, k)
  BY DEF InvI
<1>2. ASSUME Intro(h, k)' PROVE h # k /\ ~ Met(h, k)'
  <2>1. Met(h, k)' <=> Met(h, k) \/ (h = e /\ k = f)
    BY AdmitSame
  <2>2. CASE Intro(h, k)
    <3>1. k # f
      BY <1>0, <2>2, StrangerFacts
    <3> QED BY <1>1, <2>1, <2>2, <3>1 DEF ToldOnce
  <2>3. CASE h = f /\ k # f /\ (k = e \/ Met(e, k))
    <3>1. ~ Met(f, k)
      BY <1>0, StrangerFacts
    <3> QED BY <2>1, <2>3, <3>1
  <2>4. CASE k = f /\ h # f /\ h # e /\ Met(e, h)
    <3>1. ~ Met(h, f)
      BY <1>0, <2>4, StrangerFacts
    <3> QED BY <2>1, <2>4, <3>1
  <2> QED BY <1>2, <2>2, <2>3, <2>4, AdmitIntro
<1>3. ASSUME NEW m \in Programs \ {h} PROVE Cnt(m, h, News(m, k))' <= 1
  <2>1. CASE Spared(e, f, player, m, h, News(m, k))
    <3>1. Cnt(m, h, News(m, k)) <= 1
      BY <1>1 DEF ToldOnce
    <3> QED BY <2>1, <3>1, AdmitNone
  <2>2. CASE m = e /\ h = f
    <3>1. Cnt(e, f, News(e, k))' <= Count(out[f], News(e, k)) /\ Cnt(e, f, News(e, k))' \in Nat
      BY AdmitCounts
    <3>2. Count(out[f], News(e, k)) <= 1 /\ out[f] \in Seq(Packets)
      BY <1>0, WelcomeFacts
    <3>3. Count(out[f], News(e, k)) \in Nat
      BY <3>2, CountBasics
    <3> DEFINE a == Cnt(e, f, News(e, k))'
               b == Count(out[f], News(e, k))
    <3>4. a <= b /\ b <= 1 /\ a \in Nat /\ b \in Nat
      BY <3>1, <3>2, <3>3
    <3> HIDE DEF a, b
    <3>5. a <= 1
      BY <3>4
    <3> QED BY <2>2, <3>5 DEF a
  <2>3. CASE m = e /\ h # f /\ ConnectPacket(player, f) \in News(m, k)
    <3>1. k = f
      BY <1>0, <2>3, NewsKinds, ConnectFacts
    <3>2. ~ Told(e, h, f)
      BY <1>0, StrangerFacts
    <3>3. ~ (Cnt(e, h, News(e, k)) > 0)
      BY <2>3, <3>1, <3>2 DEF Told
    <3>4. Cnt(e, h, News(e, k))' <= Cnt(e, h, News(e, k)) + 1 /\ Cnt(e, h, News(e, k)) \in Nat
          /\ Cnt(e, h, News(e, k))' \in Nat
      BY <2>3, AdmitCounts
    <3> DEFINE a == Cnt(e, h, News(e, k))'
               b == Cnt(e, h, News(e, k))
    <3>5. a <= b + 1 /\ ~ (b > 0) /\ b \in Nat /\ a \in Nat
      BY <3>3, <3>4
    <3> HIDE DEF a, b
    <3>6. a <= 1
      BY <3>5
    <3> QED BY <2>3, <3>6 DEF a
  <2> QED BY <2>1, <2>2, <2>3 DEF Spared
<1>4. ASSUME NEW m \in Programs, NEW n \in Programs, Told(m, h, k)', Told(n, h, k)' PROVE m = n
  <2>1. \/ Told(m, h, k)
        \/ m = e /\ h = f /\ k # f /\ (k = e \/ Met(e, k))
        \/ m = e /\ k = f /\ h # f /\ h # e /\ Met(e, h)
    BY <1>4, AdmitTold
  <2>2. \/ Told(n, h, k)
        \/ n = e /\ h = f /\ k # f /\ (k = e \/ Met(e, k))
        \/ n = e /\ k = f /\ h # f /\ h # e /\ Met(e, h)
    BY <1>4, AdmitTold
  <2>3. (h = f => ~ Told(m, h, k) /\ ~ Told(n, h, k)) /\ (k = f => ~ Told(m, h, k) /\ ~ Told(n, h, k))
    BY <1>0, StrangerFacts
  <2> QED BY <1>1, <2>1, <2>2, <2>3 DEF ToldOnce
<1> QED BY <1>2, <1>3, <1>4 DEF ToldOnce, News, Connects, Accepts, Packets

LEMMA AdmitInvN ==
    ASSUME Typed, Typed', InvK, InvN, NEW e \in Programs, NEW f \in Programs \ {e}, NEW player, NEW out,
           Admits(e, f, player, out)
    PROVE  InvN'
<1>0. /\ Joined(e) /\ player \in Slots /\ Unknown(f) /\ ~ Joined(f) /\ ~ Met(e, f)
      /\ plr_self' = plr_self
  BY DEF Admits
<1>1. ASSUME NEW h \in Programs PROVE \E n \in Slots : Numbered(h, n)'
  <2>1. CASE h # f
    <3>1. PICK n \in Slots : Numbered(h, n)
      BY DEF InvN
    <3>2. Joined(h)' => plr_self'[h] = n
      BY <1>0, <3>1, AdmitSame DEF Numbered
    <3>3. ASSUME NEW x \in Programs, NEW i \in Slots, KnowsAt(x, h, i)' PROVE i = n
      <4>1. KnowsAt(x, h, i)
        BY <2>1, <3>3, AdmitSame
      <4> QED BY <3>1, <4>1 DEF Numbered
    <3>4. ASSUME NEW m \in Programs, NEW x \in Programs \ {m}, NEW p \in Flying(m, x)', p \in Connects(h)
          PROVE  p.player = n
      <4>1. \/ p \in Flying(m, x) \/ p \in Words(e, player) \/ p = ConnectPacket(player, f)
        BY AdmitFlying
      <4>2. p # ConnectPacket(player, f)
        BY <1>0, <2>1, <3>4, ConnectFacts
      <4>3. p \in Words(e, player) => KnowsAt(e, h, p.player) /\ p.player \in Slots
        BY <1>0, <3>4, WordsKinds
      <4> QED BY <3>1, <3>4, <4>1, <4>2, <4>3 DEF Numbered
    <3>5. ASSUME NEW m \in Programs \ {h}, NEW p \in Flying(m, h)'
          PROVE  /\ p \in Accepts => p.player = n
                 /\ p \in Game => p.dst = n \/ (p \in Held /\ p.dst = PLR_BROADCAST)
      <4>1. \/ p \in Flying(m, h) \/ p = ConnectPacket(player, f)
        BY <2>1, AdmitFlying
      <4>2. p = ConnectPacket(player, f) => p \notin Accepts /\ p \notin Game
        BY <1>0, ConnectFacts
      <4> QED BY <3>1, <4>1, <4>2 DEF Numbered
    <3>6. Numbered(h, n)'
      BY <3>2, <3>3, <3>4, <3>5
         DEF Numbered, Slots, Connects, Accepts, Game, Held, PLR_BROADCAST, Packets
    <3> QED BY <3>6
  <2>2. CASE h = f
    <3>1. ~ Joined(f)'
      BY <1>0, AdmitSame
    <3>2. ASSUME NEW x \in Programs, NEW i \in Slots, KnowsAt(x, f, i)' PROVE i = player
      <4>1. KnowsAt(x, f, i) => Met(x, f)
        BY DEF Met
      <4>2. ~ Met(x, f)
        BY <1>0, StrangerFacts
      <4> QED BY <3>2, <4>1, <4>2, AdmitSame
    <3>3. ASSUME NEW m \in Programs, NEW x \in Programs \ {m}, NEW p \in Flying(m, x)', p \in Connects(f)
          PROVE  p.player = player
      <4>1. \/ p \in Flying(m, x) \/ p \in Words(e, player) \/ p = ConnectPacket(player, f)
        BY AdmitFlying
      <4>2. p \notin Flying(m, x)
        <5>1. p \in Flying(m, x) => Cnt(m, x, Connects(f)) > 0
          BY <3>3, FlyingIn
        <5>2. Cnt(m, x, Connects(f)) = 0
          BY <1>0 DEF Unknown
        <5> QED BY <5>1, <5>2
      <4>3. p \in Words(e, player) => KnowsAt(e, f, p.player) /\ p.player \in Slots
        BY <1>0, <3>3, WordsKinds
      <4>4. p \notin Words(e, player)
        BY <1>0, <4>3 DEF Met
      <4> QED BY <1>0, <4>1, <4>2, <4>4, ConnectFacts
    <3>4. ASSUME NEW m \in Programs \ {f}, NEW p \in Flying(m, f)'
          PROVE  /\ p \in Accepts => p.player = player
                 /\ p \in Game => p.dst = player
      <4>1. Flying(m, f) = {}
        BY <1>0, StrangerFacts
      <4>2. p \in Words(e, player)
        BY <4>1, AdmitFlying
      <4>3. /\ p \in Accepts => p = JoinAccept(plr_self[e], player)
            /\ p \in Game => p = Turn(plr_self[e], player, sent[e])
        BY <1>0, <4>2, WordsKinds
      <4>4. JoinAccept(plr_self[e], player).player = player /\ Turn(plr_self[e], player, sent[e]).dst = player
        BY <1>0, WordFacts
      <4> QED BY <4>3, <4>4
    <3>5. Numbered(f, player)'
      BY <3>1, <3>2, <3>3, <3>4
         DEF Numbered, Slots, Connects, Accepts, Game, Held, PLR_BROADCAST, Packets
    <3> QED BY <1>0, <2>2, <3>5
  <2> QED BY <2>1, <2>2
<1> QED BY <1>1 DEF InvN, Slots

LEMMA AdmitSent ==
    ASSUME Typed, Typed', InvK, InvS, NEW e \in Programs, NEW f \in Programs \ {e}, NEW player, NEW out,
           Admits(e, f, player, out), NEW x \in Programs, NEW y \in Programs \ {x}, NEW p \in Flying(x, y)',
           p \in Game \cup Accepts
    PROVE  SentByPlayer(x, y, p)'
<1>0. /\ Joined(e) /\ player \in Slots /\ Unknown(f) /\ ~ Joined(f) /\ firstpeer[f] = <<e>>
      /\ plr_self' = plr_self /\ firstpeer' = firstpeer /\ gone' = gone
  BY DEF Admits
<1>1. (Joined(x)' <=> Joined(x)) /\ (Joined(y)' <=> Joined(y))
  BY AdmitSame
<1>2. \A i \in Slots : KnowsAt(x, y, i)' <=> KnowsAt(x, y, i) \/ (x = e /\ y = f /\ i = player)
  BY AdmitSame
<1>3. \/ Intro(x, y)' => Intro(x, y)
      \/ x = f
      \/ y = f /\ x # e
  BY AdmitIntro
<1>4. CASE p \in Flying(x, y) /\ ~ (x = e /\ y = f)
  <2>1. SentByPlayer(x, y, p)
    BY <1>4 DEF InvS, MaySend
  <2>2. x # f /\ y # f
    <3>1. Flying(x, y) # {}
      BY <1>4
    <3>2. y # f
      BY <1>0, <3>1, StrangerFacts
    <3>3. x = f => p \in Requests
      BY <1>0, <1>4, StrangerFacts
    <3> QED BY <3>2, <3>3, Kinds
  <2>3. x \notin gone' => ~ Intro(x, y)'
    BY <1>0, <1>3, <2>1, <2>2 DEF SentByPlayer
  <2>4. p \in Farewells => \A i \in Slots : KnowsAt(x, y, i)' => i # p.player
    BY <1>2, <1>4, <2>1 DEF SentByPlayer
  <2> QED BY <1>0, <1>1, <2>1, <2>3, <2>4 DEF SentByPlayer, Slots, Farewells, Accepts, Packets
<1>5. CASE x = e /\ y = f /\ p \in Words(e, player)
  <2>1. /\ p \in Accepts => p = JoinAccept(plr_self[e], player)
        /\ p \in Game => p = Turn(plr_self[e], player, sent[e])
    BY <1>0, <1>5, WordsKinds
  <2>2. p.src = plr_self[e] /\ p \notin Farewells
    <3>1. /\ JoinAccept(plr_self[e], player).src = plr_self[e] /\ Turn(plr_self[e], player, sent[e]).src = plr_self[e]
          /\ Turn(plr_self[e], player, sent[e]) \notin Farewells /\ JoinAccept(plr_self[e], player) \in Accepts
      BY <1>0, WordFacts
    <3> QED BY <2>1, <3>1, Kinds
  <2>3. ~ Intro(e, f)'
    <3>1. ~ Intro(e, f)
      BY <1>0, StrangerFacts
    <3> QED BY <1>3, <1>5, <3>1
  <2> QED BY <1>0, <1>1, <1>5, <2>2, <2>3 DEF SentByPlayer, Slots, Farewells, Accepts, Packets
<1>6. p # ConnectPacket(player, f)
  BY <1>0, ConnectFacts
<1> QED BY <1>4, <1>5, <1>6, AdmitFlying

LEMMA AdmitInvS ==
    ASSUME Typed, Typed', InvK, InvS, NEW e \in Programs, NEW f \in Programs \ {e}, NEW player, NEW out,
           Admits(e, f, player, out)
    PROVE  InvS'
<1>0. /\ Joined(e) /\ player \in Slots /\ plr_self' = plr_self /\ awaiting' = awaiting
      /\ peers'[e][player].sendQueue = <<>>
  BY DEF Admits
<1>1. ASSUME NEW x \in Programs, NEW y \in Programs \ {x}, NEW p \in Flying(x, y)' PROVE MaySend(x, y, p)'
  <2>1. p \in Game \cup Accepts => SentByPlayer(x, y, p)'
    BY AdmitSent
  <2>2. ASSUME p.type = "PT_CONNECT" PROVE p.endpoint # NoEndpoint
    <3>1. \/ p \in Flying(x, y) \/ p \in Words(e, player) \/ p = ConnectPacket(player, f)
      BY AdmitFlying
    <3>2. p \in Flying(x, y) => p.endpoint # NoEndpoint
      BY <2>2 DEF InvS, MaySend
    <3>3. p \in Words(e, player) => p \in Introductions(e)
      <4>1. p \notin Accepts /\ p \notin Game
        BY <2>2, Kinds
      <4> QED BY <1>0, <4>1, WordsKinds, Kinds
    <3>4. p \in Introductions(e) => p.endpoint # NoEndpoint
      BY <1>0, WordFacts
    <3> QED BY <1>0, <3>1, <3>2, <3>3, <3>4, ConnectFacts
  <2>3. p.type = "PT_CONNECT" => p.endpoint # NoEndpoint
    BY <2>2
  <2> QED BY <2>1, <2>3 DEF MaySend, Game, Accepts, NoEndpoint
<1>2. ASSUME NEW x \in Programs, NEW i \in Slots PROVE peers'[x][i].sendQueue \in Seq(HeldFor(x, i)')
  <2>1. CASE x = e /\ i = player
    <3>1. \A S : <<>> \in Seq(S)
      OBVIOUS
    <3>2. peers'[x][i].sendQueue = <<>>
      BY <1>0, <2>1
    <3> QED BY <3>1, <3>2
  <2>2. CASE ~ (x = e /\ i = player)
    <3>1. peers'[x][i] = peers[x][i]
      BY <2>2, AdmitSame
    <3>2. peers[x][i].sendQueue \in Seq(HeldFor(x, i))
      BY DEF InvS
    <3>3. \A a \in Seq(HeldFor(x, i)) : a \in Seq(HeldFor(x, i)')
      BY <1>0, HeldForKept
    <3> QED BY <3>1, <3>2, <3>3
  <2> QED BY <2>1, <2>2
<1> QED BY <1>1, <1>2 DEF InvS, Slots

LEMMA AdmitInvV ==
    ASSUME Typed, Typed', InvK, InvV, NEW e \in Programs, NEW f \in Programs \ {e}, NEW player, NEW out,
           Admits(e, f, player, out)
    PROVE  InvV'
<1>0. Joined(e) /\ player \in Slots /\ awaiting' = awaiting /\ got' = got
  BY DEF Admits
<1> SUFFICES ASSUME NEW x \in Programs, awaiting[x], NEW y \in Programs \ {x}
             PROVE  Cnt(x, y, TurnPackets)' = 0 /\ got[y][x] = 0
  BY <1>0 DEF InvV, TurnPackets, Packets
<1>1. Cnt(x, y, TurnPackets) = 0 /\ got[y][x] = 0
  BY DEF InvV
<1>2. ASSUME Cnt(x, y, TurnPackets)' > 0 PROVE FALSE
  <2>1. PICK p \in Flying(x, y)' : p \in TurnPackets
    BY <1>2, FlyingAfter
  <2>2. p \notin Flying(x, y)
    <3>1. p \in Flying(x, y) => Cnt(x, y, TurnPackets) > 0
      BY <2>1, FlyingIn
    <3> QED BY <1>1, <3>1
  <2>3. p \in Game
    BY <2>1, Kinds
  <2>4. p # ConnectPacket(player, f)
    BY <1>0, <2>3, ConnectFacts
  <2>5. x = e /\ p \in Words(e, player)
    BY <2>2, <2>4, AdmitFlying
  <2> QED BY <1>0, <2>3, <2>5, WordsKinds
<1>3. Cnt(x, y, TurnPackets)' \in Nat
  BY AdmitCounts
<1> QED BY <1>1, <1>2, <1>3

\* An acceptance that is on its way stays where it is.
LEMMA AdmitAccepts ==
    ASSUME Typed, Typed', InvK, InvI, InvS, InvA, NEW e \in Programs, NEW f \in Programs \ {e}, NEW player, NEW out,
           Admits(e, f, player, out), NEW m \in Programs, NEW y \in Programs \ {m}, y \notin gone,
           Cnt(m, y, Accepts) > 0
    PROVE  /\ m # f /\ y # e /\ y # f
           /\ Accepted(m, y)' /\ Cnt(m, y, Accepts)' > 0
<1>0. /\ Joined(e) /\ ~ Joined(f) /\ Unknown(f) /\ e \notin gone /\ Move(e, f, {}, out) /\ gone' = gone
      /\ Welcome(e, f, player, out)
  BY DEF Admits
<1>1. Accepted(m, y)
  BY DEF InvA
<1>2. Joined(m) /\ ~ Joined(y)
  BY AcceptFlying
<1>3. m # f /\ y # e
  BY <1>0, <1>2
<1>4. y # f
  <2>1. \E p \in Flying(m, y) : p \in Accepts
    BY FlyingIn
  <2> QED BY <1>0, <2>1, StrangerFacts
<1>5. /\ fd'[y][m] = fd[y][m] /\ fd'[m][y] = fd[m][y] /\ backlog' = backlog
  BY <1>0 DEF Move
<1>6. Met(m, y)' <=> Met(m, y)
  BY <1>4, AdmitSame
<1>7. L1(m, y) \in Seq(Packets) /\ L2(m, y) \in Seq(Packets) /\ L3(m, y) \in Seq(Packets)
  BY LanesTyped
<1>8. Count(L2(m, y), Accepts) > 0
  <2>1. Count(<<>>, Accepts) = 0 /\ Count(L2(m, y), Accepts) \in Nat
    BY <1>7, CountBasics
  <2>2. L1(m, y) = <<>> /\ L3(m, y) = <<>>
    BY <1>1 DEF Accepted
  <2>3. 0 + Count(L2(m, y), Accepts) + 0 > 0
    BY <2>1, <2>2 DEF Cnt
  <2> QED BY <2>1, <2>3
<1>9. L1(m, y)' = <<>> /\ L3(m, y)' = <<>> /\ \E rest \in Seq(Packets) : L2(m, y)' = L2(m, y) \o rest
  <2>0. \A s \in Seq(Packets) : s \o <<>> = s
    OBVIOUS
  <2>1. <<>> \in Seq(Packets)
    OBVIOUS
  <2>2. CASE m # e
    <3>1. SameLanes(m, y)
      BY <1>0, <1>3, <2>2 DEF Move
    <3>2. L2(m, y)' = L2(m, y) \o <<>>
      BY <1>7, <2>0, <3>1 DEF SameLanes
    <3> QED BY <1>1, <2>1, <3>1, <3>2 DEF Accepted, SameLanes
  <2>3. CASE m = e
    <3>1. SendLanes(e, y, {}, out[y])
      BY <1>0, <1>3 DEF Move
    <3>2. out[y] \in Seq(Packets)
      BY <1>0 DEF Move, Letters
    <3>3. fd[e][y] = NoConnection \/ fd[e][y] = <<y, e>>
      BY <1>1, <2>3 DEF Accepted
    <3>4. <<e, y>> # <<y, e>> /\ NoConnection # <<e, y>> /\ NoConnection # <<y, e>>
      BY <1>3, PairTypes
    <3>5. fd[e][y] = NoConnection => out[y] = <<>>
      <4>1. fd[e][y] = NoConnection => ~ Met(e, y)
        BY <1>0, <1>1, <2>3, <3>4 DEF Accepted
      <4> QED BY <1>0, <1>3, <1>4, <4>1 DEF Welcome
    <3>6. L1(e, y)' = L1(e, y)
      BY <3>1, <3>3, <3>4 DEF SendLanes, Reaches
    <3>7. L3(e, y)' = <<>>
      <4>1. L3(e, y)' = IF fd[e][y] = NoConnection THEN L3(e, y) \o out[y] ELSE <<>>
        BY <3>1 DEF SendLanes
      <4>2. L3(e, y) = <<>>
        BY <1>1, <2>3 DEF Accepted
      <4>3. L3(e, y) \o <<>> = <<>>
        BY <4>2, <2>0, <2>1
      <4> QED BY <3>5, <4>1, <4>3
    <3>8. L2(e, y)' = L2(e, y) \/ L2(e, y)' = L2(e, y) \o out[y]
      BY <3>1 DEF SendLanes
    <3>9. L2(e, y) \o <<>> = L2(e, y)
      BY <1>7, <2>0, <2>3
    <3>10. \E rest \in Seq(Packets) : L2(e, y)' = L2(e, y) \o rest
      BY <2>1, <3>2, <3>8, <3>9
    <3> QED BY <1>1, <2>3, <3>6, <3>7, <3>10 DEF Accepted
  <2> QED BY <2>2, <2>3
<1>10. PICK rest \in Seq(Packets) : L2(m, y)' = L2(m, y) \o rest
  BY <1>9
<1>11. Ahead(L2(m, y)')
  <2>1. Ahead(L2(m, y) \o rest)
    BY <1>1, <1>7, <1>8, AheadConcat DEF Accepted
  <2> QED BY <1>10, <2>1
<1>12. Cnt(m, y, Accepts)' > 0
  <2>1. Count(L2(m, y) \o rest, Accepts) = Count(L2(m, y), Accepts) + Count(rest, Accepts)
    BY <1>7, CountConcat
  <2>2. Count(L2(m, y), Accepts) \in Nat /\ Count(rest, Accepts) \in Nat /\ Count(<<>>, Accepts) = 0
    BY <1>7, CountBasics
  <2> DEFINE a == Count(L2(m, y), Accepts)
             b == Count(rest, Accepts)
  <2>3. Cnt(m, y, Accepts)' = 0 + (a + b) + 0
    BY <1>9, <1>10, <2>1, <2>2 DEF Cnt, Count, Accepts, Packets
  <2>4. a \in Nat /\ b \in Nat /\ a > 0
    BY <1>8, <2>2
  <2> HIDE DEF a, b
  <2> QED BY <2>3, <2>4
<1>13. Accepted(m, y)'
  <2>1. L1(m, y)' = <<>> /\ L3(m, y)' = <<>>
    BY <1>9
  <2> QED BY <1>0, <1>1, <1>5, <1>6, <1>11, <2>1 DEF Accepted, Ahead, Accepts, Held, NoConnection
<1> QED BY <1>3, <1>4, <1>12, <1>13

\* The acceptance that the step sends.
LEMMA AdmitAcceptance ==
    ASSUME Typed, Typed', InvW, InvK, NEW e \in Programs, NEW f \in Programs \ {e}, NEW player, NEW out,
           Admits(e, f, player, out), f \notin gone
    PROVE  Accepted(e, f)' /\ Cnt(e, f, Accepts)' > 0
<1>1. /\ L1(e, f)' = <<>> /\ L3(e, f)' = <<>> /\ L2(e, f)' = out[f]
      /\ fd'[e][f] = fd[e][f] /\ fd'[f][e] = fd[f][e] /\ backlog' = backlog
  BY AdmitLanes
<1>2. /\ fd[e][f] = <<f, e>> /\ fd[f][e] = <<f, e>> /\ <<f, e>> \notin backlog /\ <<e, f>> \notin backlog
      /\ Joined(e) /\ player \in Slots /\ Welcome(e, f, player, out)
  BY DEF Admits
<1>3. out[f] \in Seq(Packets) /\ Count(out[f], Accepts) > 0 /\ Ahead(out[f])
  BY <1>2, WelcomeFacts
<1>4. Ahead(L2(e, f)')
  BY <1>1, <1>3
<1>5. Accepted(e, f)'
  BY <1>1, <1>2, <1>4 DEF Accepted, Ahead, Accepts, Held, NoConnection
<1>6. Count(<<>>, Accepts) = 0 /\ Count(out[f], Accepts) \in Nat
  BY <1>3, CountBasics
<1> DEFINE a == Count(out[f], Accepts)
<1>7. Cnt(e, f, Accepts)' = 0 + a + 0
  BY <1>1, <1>6 DEF Cnt, Count, Accepts, Packets
<1>8. a \in Nat /\ a > 0
  BY <1>3, <1>6
<1> HIDE DEF a
<1>9. Cnt(e, f, Accepts)' > 0
  BY <1>7, <1>8
<1> QED BY <1>5, <1>9

LEMMA AdmitInvA ==
    ASSUME Typed, Typed', InvW, InvK, InvI, InvS, InvA, NEW e \in Programs, NEW f \in Programs \ {e}, NEW player,
           NEW out, Admits(e, f, player, out)
    PROVE  InvA'
<1>0. gone' = gone /\ Joined(e) /\ player \in Slots
  BY DEF Admits
<1> SUFFICES ASSUME NEW m \in Programs, NEW y \in Programs \ {m}, y \notin gone, Cnt(m, y, Accepts)' > 0
             PROVE  Accepted(m, y)'
  BY <1>0 DEF InvA, Accepts, Packets
<1>1. CASE m = e /\ y = f
  BY <1>1, AdmitAcceptance
<1>2. CASE ~ (m = e /\ y = f)
  <2>1. PICK p \in Flying(m, y)' : p \in Accepts
    BY FlyingAfter
  <2>2. p # ConnectPacket(player, f)
    BY <1>0, <2>1, ConnectFacts
  <2>3. p \in Flying(m, y)
    BY <1>2, <2>2, AdmitFlying
  <2>4. Cnt(m, y, Accepts) > 0
    BY <2>1, <2>3, FlyingIn
  <2> QED BY <2>4, AdmitAccepts
<1> QED BY <1>1, <1>2

LEMMA AdmitInvQ ==
    ASSUME Typed, Typed', InvW, InvK, InvI, InvS, InvA, InvQ, NEW e \in Programs, NEW f \in Programs \ {e}, NEW player,
           NEW out, Admits(e, f, player, out)
    PROVE  InvQ'
<1>0. gone' = gone /\ Joined(e) /\ player \in Slots /\ Unknown(f) /\ peers'[e][player].endpoint = <<f>>
  BY DEF Admits
<1> SUFFICES ASSUME NEW x \in Programs, NEW y \in Programs \ {x}, y \notin gone,
                    (\E i \in Slots : KnowsAt(x, y, i)' /\ ~ peers'[x][i].queued) \/ Cnt(x, y, Held)' > 0
             PROVE  (Joined(y)' /\ ~ Intro(y, x)') \/ Cnt(x, y, Accepts)' > 0
  BY <1>0 DEF InvQ, Ready, Accepts, Held, Packets, Slots
<1>1. CASE x = e /\ y = f
  BY <1>1, AdmitAcceptance
<1>2. CASE ~ (x = e /\ y = f)
  <2>1. ASSUME Cnt(x, y, Held)' > 0 PROVE \E p \in Flying(x, y) : p \in Held
    <3>1. PICK p \in Flying(x, y)' : p \in Held
      BY <2>1, FlyingAfter
    <3>2. p # ConnectPacket(player, f)
      BY <1>0, <3>1, ConnectFacts, Kinds
    <3> QED BY <1>2, <3>1, <3>2, AdmitFlying
  <2>2. \A i \in Slots : KnowsAt(x, y, i)' <=> KnowsAt(x, y, i)
    BY <1>2, AdmitSame
  <2>3. x # f /\ y # f
    <3>1. ~ Met(f, y) /\ (x # f => ~ Met(x, f))
      BY <1>0, StrangerFacts
    <3>2. (\E i \in Slots : KnowsAt(x, y, i)) => Met(x, y)
      BY DEF Met
    <3>3. (x # f => Flying(x, f) = {}) /\ (x = f => \A p \in Flying(f, y) : p \in Requests)
      <4>1. x # f => Flying(x, f) = {}
        BY <1>0, StrangerFacts
      <4>2. x = f => \A p \in Flying(f, y) : p \in Requests
        BY <1>0, StrangerFacts
      <4> QED BY <4>1, <4>2
    <3>4. \A p \in Held : p \notin Requests
      BY Kinds
    <3> QED BY <2>1, <2>2, <3>1, <3>2, <3>3, <3>4
  <2>4. Cnt(x, y, Held)' > 0 => Cnt(x, y, Held) > 0
    BY <2>1, FlyingIn
  <2>5. ASSUME NEW i \in Slots, KnowsAt(x, y, i)', ~ peers'[x][i].queued
        PROVE  KnowsAt(x, y, i) /\ ~ peers[x][i].queued
    <3>1. ~ (x = e /\ i = player)
      <4>1. <<f>> # <<y>>
        BY <2>3, ConnectionTypes
      <4> QED BY <1>0, <2>5, <4>1 DEF KnowsAt
    <3>2. peers'[x][i] = peers[x][i]
      BY <3>1, AdmitSame
    <3> QED BY <2>2, <2>5, <3>2
  <2>6. Ready(x, y)
    BY <2>4, <2>5 DEF InvQ
  <2>7. CASE Joined(y) /\ ~ Intro(y, x)
    <3>1. Joined(y)'
      BY <2>7, AdmitSame
    <3>2. ~ Intro(y, x)'
      BY <2>3, <2>7, AdmitIntro
    <3> QED BY <3>1, <3>2
  <2>8. CASE Cnt(x, y, Accepts) > 0
    BY <2>8, AdmitAccepts
  <2> QED BY <2>6, <2>7, <2>8 DEF Ready
<1> QED BY <1>1, <1>2

LEMMA AdmitBond ==
    ASSUME Typed, Typed', InvW, InvK, InvC, NEW e \in Programs, NEW f \in Programs \ {e}, NEW player, NEW out,
           Admits(e, f, player, out), NEW x \in Programs, NEW y \in Programs \ {x}, Bond(x, y)'
    PROVE  /\ x # f /\ y # f => Bond(x, y) /\ LinkOk(x, y)
           /\ LinkOk(x, y)' /\ (Intro(x, y)' => got'[y][x] = 0)
<1>0. gone' = gone /\ got' = got /\ crossed' = crossed /\ Unknown(f) /\ \A z \in Programs \ {f} : LinkOut(f, z)
  BY DEF Admits
<1>1. /\ fd'[x][y] = fd[x][y] /\ fd'[y][x] = fd[y][x] /\ backlog' = backlog
  BY AdmitLanes
<1>2. LinkOk(x, y) => LinkOk(x, y)'
  BY <1>1 DEF LinkOk, NoConnection
<1>3. CASE x # f /\ y # f
  <2>1. (Intro(x, y)' => Intro(x, y)) /\ (Intro(y, x)' => Intro(y, x))
    BY <1>3, AdmitIntro
  <2>2. (Met(x, y)' => Met(x, y)) /\ (Met(y, x)' => Met(y, x))
    BY <1>3, AdmitSame
  <2>3. Bond(x, y)
    BY <1>0, <2>1, <2>2 DEF Bond, Rel
  <2> QED BY <1>0, <1>2, <2>1, <2>3 DEF InvC
<1>4. ASSUME NEW z \in Programs \ {f}, z \notin gone, f \notin gone PROVE LinkOk(f, z) /\ got[z][f] = 0 /\ got[f][z] = 0
  <2>1. LinkOut(f, z) /\ LinkW(f, z) /\ LinkW(z, f) /\ Strange(f, z)
    BY <1>0 DEF InvW, Unknown
  <2>2. (fd[f][z] = NoConnection \/ fd[f][z] = <<f, z>> \/ fd[f][z] = <<z, f>>)
        /\ (fd[z][f] = NoConnection \/ fd[z][f] = <<z, f>> \/ fd[z][f] = <<f, z>>)
    BY MailLanes
  <2>3. <<f, z>> # <<z, f>> /\ NoConnection # <<f, z>> /\ NoConnection # <<z, f>>
    BY PairTypes
  <2>4. fd[f][z] # <<z, f>> /\ fd[z][f] # <<z, f>> /\ <<z, f>> \notin backlog
    BY <2>1 DEF LinkOut
  <2>5. (fd[z][f] = <<f, z>> \/ <<f, z>> \in backlog) <=> fd[f][z] = <<f, z>>
    BY <1>4, <2>1 DEF LinkOut
  <2>6. ~ (fd[z][f] = <<f, z>> /\ <<f, z>> \in backlog)
    BY <2>1 DEF LinkW
  <2>7. LinkOk(f, z)
    BY <2>2, <2>3, <2>4, <2>5, <2>6 DEF LinkOk
  <2> QED BY <2>1, <2>7 DEF Strange
<1>5. CASE x = f
  <2>1. LinkOk(f, y) /\ got[y][f] = 0
    BY <1>0, <1>4, <1>5 DEF Bond
  <2> QED BY <1>0, <1>2, <1>5, <2>1
<1>6. CASE y = f
  <2>1. LinkOk(f, x) /\ got[f][x] = 0
    BY <1>0, <1>4, <1>6 DEF Bond
  <2>2. LinkOk(x, f)
    BY <2>1, LinkOkBoth
  <2> QED BY <1>0, <1>2, <1>6, <2>1, <2>2
<1> QED BY <1>3, <1>5, <1>6

LEMMA AdmitInvC ==
    ASSUME Typed, Typed', InvW, InvK, InvC, NEW e \in Programs, NEW f \in Programs \ {e}, NEW player, NEW out,
           Admits(e, f, player, out)
    PROVE  InvC'
<1> SUFFICES ASSUME NEW x \in Programs, NEW y \in Programs \ {x}, Bond(x, y)'
             PROVE  LinkOk(x, y)' /\ (Intro(x, y)' => got'[y][x] = 0)
  BY DEF InvC
<1> QED BY AdmitBond

\* Others get no turn more.
LEMMA AdmitMail ==
    ASSUME Typed, Typed', InvW, NEW e \in Programs, NEW f \in Programs \ {e}, NEW player, NEW out,
           Admits(e, f, player, out), NEW x \in Programs, NEW y \in Programs \ {x}, x # f, y # f, LinkOk(x, y)
    PROVE  /\ Mail(x, y)' \in Seq(Packets)
           /\ Among(Mail(x, y)', TurnPackets) = Among(Mail(x, y), TurnPackets)
<1>0. Move(e, f, {}, out) /\ Welcome(e, f, player, out) /\ player \in Slots
  BY DEF Admits
<1> DEFINE m == Mail(x, y)
<1>1. m \in Seq(Packets)
  BY MailLanes
<1>2. CASE x = e
  <2>1. Mail(x, y)' = m \o out[y]
    BY <1>0, <1>2, MailSends
  <2>2. out[y] \in Seq(Packets)
    BY <1>0, LettersOf DEF Move
  <2>3. Among(out[y], TurnPackets) = <<>>
    <3>1. Among(<<>>, TurnPackets) = <<>>
      <4> DEFINE S == {}
      <4>1. S \in SUBSET Packets /\ S \cap TurnPackets = {} /\ <<>> \in Seq(S)
        OBVIOUS
      <4> HIDE DEF S
      <4> QED BY <4>1, AmongNone
    <3>2. CASE out[y] = <<ConnectPacket(player, f)>>
      <4> DEFINE p == ConnectPacket(player, f)
                 S == {p}
      <4>1. p \in Packets /\ p \notin TurnPackets
        BY <1>0, ConnectFacts, Kinds
      <4> HIDE DEF p
      <4>2. S \in SUBSET Packets /\ S \cap TurnPackets = {} /\ <<p>> \in Seq(S)
        BY <4>1
      <4>3. Among(<<p>>, TurnPackets) = <<>>
        BY <4>2, AmongNone
      <4> QED BY <3>2, <4>3 DEF p
    <3> QED BY <1>0, <1>2, <3>1, <3>2 DEF Welcome
  <2> DEFINE o == out[y]
             a == Among(m, TurnPackets)
  <2>4. a \in Seq(Packets)
    BY <1>1, AmongType
  <2>50. m \in Seq(Packets) /\ o \in Seq(Packets) /\ Among(o, TurnPackets) = <<>>
    BY <1>1, <2>2, <2>3
  <2> HIDE DEF m, o
  <2>5. Among(m \o o, TurnPackets) = a \o <<>>
    <3>1. \A s, u \in Seq(Packets) : Among(s \o u, TurnPackets) = Among(s, TurnPackets) \o Among(u, TurnPackets)
      BY AmongConcat
    <3>2. Among(m \o o, TurnPackets) = Among(m, TurnPackets) \o Among(o, TurnPackets)
      BY <2>50, <3>1
    <3> QED BY <2>50, <3>2
  <2>6. m \o o \in Seq(Packets)
    BY <2>50
  <2> HIDE DEF a
  <2>7. a \o <<>> = a
    BY <2>4
  <2> QED BY <2>1, <2>5, <2>6, <2>7 DEF m, o, a
<1>3. CASE y = e
  <2>1. LinkOk(x, e) /\ x # f /\ x \in Programs \ {e} /\ x \notin {}
    BY <1>3
  <2>2. Mail(x, e)' = Mail(x, e)
    <3> DEFINE none == {}
    <3>1. Move(e, f, none, out) /\ x \notin none
      BY <1>0
    <3> HIDE DEF none
    <3> QED BY <2>1, <3>1, MailReceives
  <2>3. Mail(x, y)' = m
    BY <1>3, <2>2
  <2> QED BY <1>1, <2>3
<1>4. CASE x # e /\ y # e
  <2>1. SameLanes(x, y) /\ fd'[x][y] = fd[x][y]
    BY <1>0, <1>4 DEF Move
  <2>2. Mail(x, y)' = m
    BY <2>1, UnmovedMail
  <2> QED BY <1>1, <2>2
<1> QED BY <1>2, <1>3, <1>4

LEMMA AdmitInvT ==
    ASSUME Typed, Typed', InvW, InvK, InvC, InvT, NEW e \in Programs, NEW f \in Programs \ {e}, NEW player, NEW out,
           Admits(e, f, player, out)
    PROVE  InvT'
<1>0. /\ awaiting' = awaiting /\ sent' = sent /\ got' = got /\ gone' = gone
      /\ \A x \in Programs : taken[x] \subseteq taken'[x]
      /\ player \in isConnected[e] => player \in taken'[e]
      /\ Unknown(f) /\ Joined(e) /\ player \in Slots /\ Welcome(e, f, player, out)
      /\ fd[e][f] = <<f, e>> /\ peers'[e][player].sendQueue = <<>>
  BY DEF Admits
<1> SUFFICES ASSUME NEW x \in Programs, NEW y \in Programs \ {x}, NEW i \in Slots,
                    Bond(x, y)', ~ awaiting[x], KnowsAt(x, y, i)', i \notin taken'[x]
             PROVE  Tally(Stream(x, y, i)', sent[x], got[y][x])
  BY <1>0 DEF InvT, Slots, Tally
<1>1. KnowsAt(x, y, i) \/ (x = e /\ y = f /\ i = player)
  BY AdmitSame
<1>2. CASE x # f /\ y # f
  <2>1. Bond(x, y) /\ LinkOk(x, y) /\ KnowsAt(x, y, i) /\ i \notin taken[x]
    BY <1>0, <1>1, <1>2, AdmitBond
  <2>2. Tally(Stream(x, y, i), sent[x], got[y][x])
    BY <2>1 DEF InvT
  <2>3. peers'[x][i] = peers[x][i]
    <3>1. ~ (x = e /\ i = player)
      <4>1. <<f>> # <<y>>
        BY <1>2, ConnectionTypes
      <4>2. peers'[e][player].endpoint = <<f>>
        BY DEF Admits
      <4> QED BY <4>1, <4>2 DEF KnowsAt
    <3> QED BY <3>1, AdmitSame
  <2> DEFINE q == peers[x][i].sendQueue
             m == Mail(x, y)
             n == Mail(x, y)'
  <2>4. /\ q \in Seq(Packets) /\ m \in Seq(Packets) /\ n \in Seq(Packets)
        /\ Among(n, TurnPackets) = Among(m, TurnPackets)
    <3>1. q \in Seq(Packets)
      BY StreamParts
    <3>2. n \in Seq(Packets) /\ Among(n, TurnPackets) = Among(m, TurnPackets)
      BY <1>2, <2>1, AdmitMail
    <3> QED BY <3>1, <3>2, MailLanes
  <2>5. Stream(x, y, i) = Among(m \o q, TurnPackets)
    BY DEF Stream
  <2>6. Stream(x, y, i)' = Among(n \o q, TurnPackets)
    BY <2>3 DEF Stream, TurnPackets, Packets
  <2> HIDE DEF q, m, n
  <2>7. Among(m \o q, TurnPackets) = Among(m, TurnPackets) \o Among(q, TurnPackets)
    BY <2>4, AmongConcat
  <2>8. Among(n \o q, TurnPackets) = Among(n, TurnPackets) \o Among(q, TurnPackets)
    <3>1. \A s \in Seq(Packets) : Among(s \o q, TurnPackets) = Among(s, TurnPackets) \o Among(q, TurnPackets)
      BY <2>4, AmongConcat
    <3> QED BY <2>4, <3>1
  <2> QED BY <2>2, <2>4, <2>5, <2>6, <2>7, <2>8
<1>3. CASE x = f \/ y = f
  <2>1. x = e /\ y = f /\ i = player
    <3>1. KnowsAt(x, y, i) => Met(x, y)
      BY DEF Met
    <3>2. ~ Met(x, y)
      <4>1. ~ Met(f, y) /\ (x # f => ~ Met(x, f))
        BY <1>0, StrangerFacts
      <4> QED BY <1>3, <4>1
    <3> QED BY <1>1, <3>1, <3>2
  <2>2. f \notin gone
    BY <1>0, <2>1 DEF Bond
  <2>3. got[f][e] = 0
    BY <1>0 DEF Unknown, Strange
  <2> DEFINE t == Turn(plr_self[e], player, sent[e])
  <2>4. FirstWord(e, player) = <<t>>
    BY <1>0, <2>1 DEF FirstWord
  <2>5. t \in TurnPackets /\ t.turn = sent[e] /\ sent[e] \in Nat
    <3>1. sent[e] \in Nat
      BY DEF Typed
    <3> QED BY <1>0, <3>1, WordFacts
  <2>6. out[f] \in Seq(Packets) /\ Among(out[f], TurnPackets) = <<t>>
    BY <1>0, <2>4, WelcomeFacts
  <2>7. Mail(e, f)' = out[f] \o <<>>
    <3>1. L3(e, f)' = <<>> /\ L2(e, f)' = out[f] /\ fd'[e][f] = <<f, e>>
      BY <1>0, <2>2, AdmitLanes
    <3> QED BY <3>1, MailLanesAfter
  <2>8. Stream(e, f, player)' = Among((out[f] \o <<>>) \o <<>>, TurnPackets)
    BY <1>0, <2>7 DEF Stream, TurnPackets, Packets
  <2>9. \A s \in Seq(Packets) : s \o <<>> = s
    OBVIOUS
  <2> HIDE DEF t
  <2>10. Stream(e, f, player)' = <<t>>
    <3>1. out[f] \o <<>> = out[f]
      BY <2>6, <2>9
    <3> QED BY <2>6, <2>8, <3>1
  <2>11. Tally(<<t>>, sent[e], 0)
    BY <2>5, TallyFirst
  <2> QED BY <2>1, <2>3, <2>10, <2>11
<1> QED BY <1>2, <1>3

LEMMA HandleJoinRequestKeeps ==
    ASSUME Typed, Typed', MeshInv, NEW e \in Programs, NEW f \in Programs \ {e}, HandleJoinRequest(e, f)
    PROVE  MeshInv'
<1>1. PICK player, out : Admits(e, f, player, out)
  BY HandleJoinRequestAdmits DEF MeshInv
<1>2. InvW' /\ InvK' /\ InvL' /\ InvU'
  BY <1>1, AdmitInvW, AdmitInvK, AdmitInvL, AdmitInvU DEF MeshInv
<1>3. InvI' /\ InvN' /\ InvS' /\ InvV'
  BY <1>1, AdmitInvI, AdmitInvN, AdmitInvS, AdmitInvV DEF MeshInv
<1>4. InvA' /\ InvQ'
  BY <1>1, AdmitInvA, AdmitInvQ DEF MeshInv
<1>5. InvC' /\ InvT'
  BY <1>1, AdmitInvC, AdmitInvT DEF MeshInv
<1> QED BY <1>2, <1>3, <1>4, <1>5 DEF MeshInv

--------------------------------------------------------------------------------
(* Every step keeps the invariant.                                             *)

LEMMA StutterKeeps ==
    ASSUME MeshInv, UNCHANGED vars
    PROVE  MeshInv'
<1>1. /\ plr_self' = plr_self /\ firstpeer' = firstpeer /\ peers' = peers /\ isConnected' = isConnected
      /\ awaiting' = awaiting /\ sent' = sent /\ got' = got /\ fd' = fd /\ send_queue' = send_queue
      /\ backlog' = backlog /\ wire' = wire /\ gone' = gone /\ crossed' = crossed /\ taken' = taken
  BY DEF vars, gameVars, turnVars, netVars
<1>2. \A m, x : L1(m, x)' = L1(m, x) /\ L2(m, x)' = L2(m, x) /\ L3(m, x)' = L3(m, x)
  BY <1>1 DEF L1, L2, L3
<1>3. \A m, x, set : Cnt(m, x, set)' = Cnt(m, x, set)
  BY <1>2 DEF Cnt, Count
<1>4. \A m, x : Flying(m, x)' = Flying(m, x)
  BY <1>3 DEF Flying, Packets
<1>5. \A m, x, i : KnowsAt(m, x, i)' = KnowsAt(m, x, i)
  BY <1>1 DEF KnowsAt
<1>6. \A m, x : Met(m, x)' = Met(m, x)
  BY <1>5 DEF Met
<1>7. \A m, f, k : Told(m, f, k)' <=> Told(m, f, k)
  <2> SUFFICES ASSUME NEW m, NEW f, NEW k PROVE Told(m, f, k)' <=> Told(m, f, k)
    OBVIOUS
  <2> DEFINE S == News(m, k)
  <2>1. Cnt(m, f, S)' = Cnt(m, f, S)
    BY <1>3
  <2>2. Told(m, f, k)' <=> m # f /\ Cnt(m, f, S)' > 0
    BY DEF Told, News, Accepts, Connects, Packets
  <2> QED BY <2>1, <2>2 DEF Told
<1>8. \A f, k : Intro(f, k)' <=> Intro(f, k)
  BY <1>7 DEF Intro
<1>9. \A x : (Joined(x)' <=> Joined(x)) /\ (Fresh(x)' <=> Fresh(x)) /\ (Unborn(x)' <=> Unborn(x))
  <2>1. \A x : (Joined(x)' <=> Joined(x)) /\ (Fresh(x)' <=> Fresh(x))
    BY <1>1 DEF Joined, Fresh, Slots, NoEndpoint
  <2>2. \A x : Asking(x)' <=> Asking(x)
    BY <1>3 DEF Asking, Requests, Packets
  <2> QED BY <2>1, <2>2 DEF Unborn
<1>10. InvW'
  BY <1>1, <1>2 DEF MeshInv, InvW, LinkW, Slots, NoConnection, NoPeer
<1>11. InvK'
  BY <1>1, <1>9 DEF MeshInv, InvK, TableOk, Slots, NoEndpoint, NoPeer
<1>12. InvL'
  BY <1>1, <1>9 DEF MeshInv, InvL, LinkOut
<1>13. InvU'
  <2>1. \A x, y : Strange(x, y) => Strange(x, y)'
    BY <1>1, <1>3, <1>6 DEF Strange, Packets, Requests
  <2>2. \A x : Unknown(x) => Unknown(x)'
    BY <1>1, <1>3, <1>9, <2>1 DEF Unknown, Slots, NoPeer, Connects, Packets
  <2>3. \A x, y : Asked(x, y) => Asked(x, y)'
    BY <1>1, <1>3, <1>9 DEF Asked, Packets, Requests
  <2> QED BY <1>9, <2>2, <2>3 DEF MeshInv, InvU
<1>14. InvI'
  <2>1. \A f, e : ToldOnce(f, e) => ToldOnce(f, e)'
    BY <1>3, <1>6, <1>7, <1>8 DEF ToldOnce, News, Accepts, Connects, Packets
  <2> QED BY <2>1 DEF MeshInv, InvI
<1>15. InvN'
  <2>1. \A f, n : Numbered(f, n) => Numbered(f, n)'
    BY <1>1, <1>4, <1>5, <1>9 DEF Numbered, Slots, Connects, Accepts, Game, Held, PLR_BROADCAST, Packets
  <2> QED BY <2>1 DEF MeshInv, InvN, Slots
<1>16. \A e, f, p : SentByPlayer(e, f, p) => SentByPlayer(e, f, p)'
  BY <1>1, <1>5, <1>8, <1>9 DEF SentByPlayer, Slots, Farewells, Accepts, Packets
<1>17. InvS'
  <2>1. ASSUME NEW e \in Programs, NEW i \in Slots PROVE peers'[e][i].sendQueue \in Seq(HeldFor(e, i)')
    <3>1. HeldFor(e, i)' = HeldFor(e, i)
      BY <1>1, <1>9 DEF HeldFor, Proper, Held, Farewells, TurnPackets, Packets, PLR_BROADCAST
    <3> QED BY <1>1, <3>1 DEF MeshInv, InvS
  <2>2. ASSUME NEW e \in Programs, NEW f \in Programs \ {e}, NEW p \in Flying(e, f)' PROVE MaySend(e, f, p)'
    <3>1. MaySend(e, f, p)
      BY <1>4, <2>2 DEF MeshInv, InvS
    <3> QED BY <1>16, <3>1 DEF MaySend, Game, Accepts, NoEndpoint
  <2> QED BY <2>1, <2>2 DEF InvS, Slots
<1>18. InvA'
  <2>1. \A m, f : Accepted(m, f) => Accepted(m, f)'
    BY <1>1, <1>2, <1>6 DEF Accepted, Ahead, Accepts, Held, NoConnection
  <2> QED BY <1>1, <1>3, <2>1 DEF MeshInv, InvA, Accepts, Packets
<1>19. InvQ'
  <2>1. \A m, f : Ready(m, f) => Ready(m, f)'
    BY <1>1, <1>3, <1>8, <1>9 DEF Ready, Accepts, Packets
  <2> QED BY <1>1, <1>3, <1>5, <2>1 DEF MeshInv, InvQ, Slots, Held, Packets
<1>20. InvV'
  BY <1>1, <1>3 DEF MeshInv, InvV, TurnPackets, Packets
<1>21. \A x, y : Bond(x, y)' => Bond(x, y)
  BY <1>1, <1>6, <1>8 DEF Bond, Rel
<1>22. InvC'
  BY <1>1, <1>8, <1>21 DEF MeshInv, InvC, LinkOk, NoConnection
<1>23. InvT'
  <2>1. \A x, y, i : Stream(x, y, i)' = Stream(x, y, i)
    BY <1>1 DEF Stream, Mail, TurnPackets, NoConnection
  <2> QED BY <1>1, <1>5, <1>21, <2>1 DEF MeshInv, InvT, Tally, Slots
<1> QED BY <1>10, <1>11, <1>12, <1>13, <1>14, <1>15, <1>17, <1>18, <1>19, <1>20, <1>22, <1>23 DEF MeshInv

LEMMA ReceiveKeeps ==
    ASSUME Typed, Typed', MeshInv, NEW e \in Programs, NEW f \in Programs \ {e}, Receive(e, f)
    PROVE  MeshInv'
<1>1. CASE HandleJoinRequest(e, f)
  BY <1>1, HandleJoinRequestKeeps
<1>2. ASSUME Acts(e) PROVE MeshInv'
  BY <1>2, ActsKeep
<1>3. CASE ReceiveConnect(e, f)
  BY <1>2, <1>3, ReceiveConnectActs DEF MeshInv
<1>4. CASE ReceiveAccept(e, f)
  BY <1>2, <1>4, ReceiveAcceptActs DEF MeshInv
<1>5. CASE ReceiveTurn(e, f)
  BY <1>2, <1>5, ReceiveTurnActs DEF MeshInv
<1>6. CASE \E type \in EchoTypes : ReceiveEcho(e, f, type)
  BY <1>2, <1>6, ReceiveEchoActs DEF MeshInv
<1>7. CASE ReceiveDisconnect(e, f)
  BY <1>2, <1>7, ReceiveDisconnectActs DEF MeshInv
<1>8. CASE Ignore(e, f)
  BY <1>2, <1>8, IgnoreActs DEF MeshInv
<1> QED BY <1>1, <1>3, <1>4, <1>5, <1>6, <1>7, <1>8 DEF Receive

LEMMA NextKeeps == Typed /\ MeshInv /\ [Next]_vars => MeshInv'
<1> SUFFICES ASSUME Typed, MeshInv, [Next]_vars PROVE MeshInv'
  OBVIOUS
<1>0. Typed'
  BY NextTyped
<1>1. CASE UNCHANGED vars
  BY <1>1, StutterKeeps
<1>2. ASSUME NEW e \in Programs, Acts(e) PROVE MeshInv'
  BY <1>0, <1>2, ActsKeep
<1>3. ASSUME NEW e \in Programs, Exit(e) PROVE MeshInv'
  BY <1>0, <1>3, ExitKeeps
<1>4. ASSUME NEW e \in Programs, SendTurn(e) PROVE MeshInv'
  BY <1>0, <1>2, <1>4, SendTurnActs DEF MeshInv
<1>5. ASSUME NEW e \in Programs, SendEchoRequests(e) PROVE MeshInv'
  BY <1>0, <1>2, <1>5, SendEchoRequestsActs DEF MeshInv
<1>6. ASSUME NEW e \in Programs, LeaveGame(e) PROVE MeshInv'
  BY <1>3, <1>6, LeaveGameExits DEF MeshInv
<1>7. ASSUME NEW e \in Programs, Crash(e) PROVE MeshInv'
  BY <1>3, <1>7, CrashExits
<1>8. ASSUME NEW e \in Programs, NEW player \in Slots, DropPlayer(e, player) PROVE MeshInv'
  BY <1>0, <1>2, <1>8, DropPlayerActs DEF MeshInv
<1>9. ASSUME NEW e \in Programs, NEW f \in Programs \ {e}, AskToJoin(e, f) PROVE MeshInv'
  BY <1>0, <1>9, AskToJoinKeeps
<1>10. ASSUME NEW e \in Programs, NEW f \in Programs \ {e}, Open(e, f) PROVE MeshInv'
  BY <1>0, <1>10, OpenKeeps
<1>11. ASSUME NEW e \in Programs, NEW f \in Programs \ {e}, Accept(e, f) PROVE MeshInv'
  BY <1>0, <1>11, AcceptKeeps
<1>12. ASSUME NEW e \in Programs, NEW f \in Programs \ {e}, Disconnected(e, f) PROVE MeshInv'
  BY <1>0, <1>2, <1>12, DisconnectedActs DEF MeshInv
<1>13. ASSUME NEW e \in Programs, NEW f \in Programs \ {e}, Receive(e, f) PROVE MeshInv'
  BY <1>0, <1>13, ReceiveKeeps
<1>14. CASE Next
  <2>1. PICK e \in Programs :
           \/ SendTurn(e)
           \/ SendEchoRequests(e)
           \/ LeaveGame(e)
           \/ Crash(e)
           \/ \E player \in Slots : DropPlayer(e, player)
           \/ \E f \in Programs \ {e} : AskToJoin(e, f)
           \/ Poll(e)
    BY <1>14, Zenon DEF Next
  <2>2. CASE Poll(e)
    <3>1. PICK f \in Programs \ {e} :
             Open(e, f) \/ Accept(e, f) \/ Disconnected(e, f) \/ Receive(e, f)
      BY <2>2, Zenon DEF Poll
    <3> QED BY <3>1, <1>10, <1>11, <1>12, <1>13
  <2> QED BY <2>1, <2>2, <1>4, <1>5, <1>6, <1>7, <1>8, <1>9
<1> QED BY <1>1, <1>14

--------------------------------------------------------------------------------
(* At first the players know each other, and nothing is on its way.            *)

Settled(in, slot, e, i, p) ==
    \/ p = NoPeer
    \/ e \in in /\ \E f \in in \ {e} : slot[f] = i /\ p.endpoint = <<f>>

Begun(in, slot) ==
    /\ in \subseteq Programs /\ Host \in in /\ slot \in [in -> Slots]
    /\ \A e, f \in in : slot[e] = slot[f] => e = f
    /\ \A e \in Programs : plr_self[e] = IF e \in in THEN slot[e] ELSE PLR_BROADCAST
    /\ \A e \in Programs, i \in Slots : peers[e][i].sendQueue = <<>>
    /\ \A e \in Programs, i \in Slots : Settled(in, slot, e, i, peers[e][i])
    /\ \A e \in in : \A f \in in : slot[f] \in isConnected[e]
    /\ \A e \in Programs : /\ awaiting[e] <=> e \notin in
                           /\ firstpeer[e] = NoEndpoint
                           /\ e \in in => sent[e] = 1
    /\ \A e \in Programs : \A f \in Programs \ {e} :
           /\ got[f][e] = IF e \in in /\ f \in in THEN 1 ELSE 0
           /\ ~ (e \in in /\ f \in in) => fd[e][f] = NoConnection
           /\ e \in in /\ f \in in => fd[e][f] # NoConnection /\ fd[e][f] = fd[f][e]
           /\ L1(e, f) = <<>> /\ L2(e, f) = <<>> /\ L3(e, f) = <<>>
    /\ gone \cap in = {} /\ backlog = {} /\ crossed = {}

LEMMA InitBegun ==
    ASSUME Init
    PROVE  \E in, slot : Begun(in, slot)
<1>1. PICK in \in {{Host} \cup members : members \in Memberships} : \E slot \in [in -> Slots] :
        /\ slot[Host] = 0
        /\ \A e, f \in in : slot[e] = slot[f] => e = f
        /\ plr_self = [e \in Programs |-> IF e \in in THEN slot[e] ELSE PLR_BROADCAST]
        /\ peers = [e \in Programs |-> [i \in Slots |->
               IF e \in in /\ \E f \in in \ {e} : slot[f] = i
               THEN [NoPeer EXCEPT !.endpoint = <<CHOOSE f \in in : slot[f] = i>>]
               ELSE NoPeer]]
        /\ isConnected = [e \in Programs |-> IF e \in in THEN {slot[f] : f \in in} ELSE {}]
        /\ awaiting = [e \in Programs |-> e \notin in]
        /\ sent = [e \in Programs |-> IF e \in in THEN 1 ELSE 0]
        /\ got = [e \in Programs |-> [f \in Programs |->
               IF e \in in /\ f \in in \ {e} THEN 1 ELSE 0]]
        /\ fd = [e \in Programs |-> [f \in Programs |->
               IF e \in in /\ f \in in \ {e}
               THEN IF f = Host \/ (e # Host /\ slot[e] < slot[f])
                    THEN <<e, f>> ELSE <<f, e>>
               ELSE NoConnection]]
        /\ gone = Programs \ (in \cup Joiners)
        /\ firstpeer = [e \in Programs |-> NoEndpoint]
        /\ send_queue = [e \in Programs |-> [f \in Programs |-> <<>>]]
        /\ backlog = {}
        /\ wire = [c \in Connections |-> [e \in Ends(c) |-> <<>>]]
        /\ echoes = 0
        /\ faults = 0
        /\ crossed = {}
        /\ taken = [e \in Programs |-> {}]
  BY DEF Init
<1>2. PICK slot \in [in -> Slots] :
        /\ \A e, f \in in : slot[e] = slot[f] => e = f
        /\ plr_self = [e \in Programs |-> IF e \in in THEN slot[e] ELSE PLR_BROADCAST]
        /\ peers = [e \in Programs |-> [i \in Slots |->
               IF e \in in /\ \E f \in in \ {e} : slot[f] = i
               THEN [NoPeer EXCEPT !.endpoint = <<CHOOSE f \in in : slot[f] = i>>]
               ELSE NoPeer]]
        /\ isConnected = [e \in Programs |-> IF e \in in THEN {slot[f] : f \in in} ELSE {}]
        /\ awaiting = [e \in Programs |-> e \notin in]
        /\ sent = [e \in Programs |-> IF e \in in THEN 1 ELSE 0]
        /\ got = [e \in Programs |-> [f \in Programs |->
               IF e \in in /\ f \in in \ {e} THEN 1 ELSE 0]]
        /\ fd = [e \in Programs |-> [f \in Programs |->
               IF e \in in /\ f \in in \ {e}
               THEN IF f = Host \/ (e # Host /\ slot[e] < slot[f])
                    THEN <<e, f>> ELSE <<f, e>>
               ELSE NoConnection]]
        /\ gone = Programs \ (in \cup Joiners)
        /\ firstpeer = [e \in Programs |-> NoEndpoint]
        /\ send_queue = [e \in Programs |-> [f \in Programs |-> <<>>]]
        /\ backlog = {}
        /\ wire = [c \in Connections |-> [e \in Ends(c) |-> <<>>]]
        /\ crossed = {}
  BY <1>1, Zenon
<1>3. in \subseteq Programs /\ Host \in in
  BY ParametersAssumption
<1>4. ASSUME NEW e \in Programs, NEW i \in Slots
      PROVE  /\ peers[e][i].sendQueue = <<>>
             /\ \/ peers[e][i] = NoPeer
                \/ e \in in /\ \E f \in in \ {e} : slot[f] = i /\ peers[e][i].endpoint = <<f>>
  <2>1. CASE e \in in /\ \E f \in in \ {e} : slot[f] = i
    <3>1. PICK h \in in \ {e} : slot[h] = i
      BY <2>1
    <3> DEFINE g == CHOOSE f \in in : slot[f] = i
    <3>2. g \in in /\ slot[g] = i
      BY <3>1
    <3>3. peers[e][i] = [NoPeer EXCEPT !.endpoint = <<g>>]
      BY <1>2, <2>1
    <3> HIDE DEF g
    <3>4. g = h
      BY <1>2, <3>1, <3>2
    <3>5. peers[e][i].endpoint = <<g>> /\ peers[e][i].sendQueue = <<>>
      BY <3>3 DEF NoPeer
    <3> QED BY <2>1, <3>1, <3>4, <3>5
  <2>2. CASE ~ (e \in in /\ \E f \in in \ {e} : slot[f] = i)
    <3>1. peers[e][i] = NoPeer
      BY <1>2, <2>2
    <3> QED BY <3>1 DEF NoPeer
  <2> QED BY <2>1, <2>2
<1>5. ASSUME NEW e \in Programs, NEW f \in Programs \ {e}
      PROVE  /\ got[f][e] = IF e \in in /\ f \in in THEN 1 ELSE 0
             /\ ~ (e \in in /\ f \in in) => fd[e][f] = NoConnection
             /\ e \in in /\ f \in in => fd[e][f] # NoConnection /\ fd[e][f] = fd[f][e]
             /\ L1(e, f) = <<>> /\ L2(e, f) = <<>> /\ L3(e, f) = <<>>
  <2>1. got[f][e] = IF e \in in /\ f \in in THEN 1 ELSE 0
    BY <1>2
  <2>2. ~ (e \in in /\ f \in in) => fd[e][f] = NoConnection
    BY <1>2
  <2>3. ASSUME e \in in, f \in in PROVE fd[e][f] # NoConnection /\ fd[e][f] = fd[f][e]
    <3>1. fd[e][f] = IF f = Host \/ (e # Host /\ slot[e] < slot[f]) THEN <<e, f>> ELSE <<f, e>>
      BY <1>2, <2>3
    <3>2. fd[f][e] = IF e = Host \/ (f # Host /\ slot[f] < slot[e]) THEN <<f, e>> ELSE <<e, f>>
      BY <1>2, <2>3
    <3>3. slot[e] # slot[f] /\ slot[e] \in Nat /\ slot[f] \in Nat
      BY <1>2, <2>3, Numbers
    <3>4. NoConnection # <<e, f>> /\ NoConnection # <<f, e>>
      BY PairTypes
    <3>5. fd[e][f] = fd[f][e]
      BY <3>1, <3>2, <3>3
    <3> QED BY <3>1, <3>4, <3>5
  <2>4. \A c \in Connections : \A x \in Ends(c) : wire[c][x] = <<>>
    BY <1>2
  <2>5. L1(e, f) = <<>> /\ L2(e, f) = <<>>
    BY <2>4, PairTypes DEF L1, L2
  <2>6. L3(e, f) = <<>>
    BY <1>2 DEF L3
  <2> QED BY <2>1, <2>2, <2>3, <2>5, <2>6
<1>6. \A e \in Programs : /\ awaiting[e] <=> e \notin in
                          /\ firstpeer[e] = NoEndpoint
                          /\ e \in in => sent[e] = 1
                          /\ plr_self[e] = IF e \in in THEN slot[e] ELSE PLR_BROADCAST
  BY <1>2
<1>7. \A e \in in : \A f \in in : slot[f] \in isConnected[e]
  <2>1. \A e \in in : isConnected[e] = {slot[f] : f \in in}
    BY <1>2, <1>3
  <2> QED BY <2>1
<1>8. gone \cap in = {} /\ backlog = {} /\ crossed = {}
  BY <1>2
<1>9. slot \in [in -> Slots] /\ \A e, f \in in : slot[e] = slot[f] => e = f
  BY <1>2
<1>10. /\ \A e \in Programs, i \in Slots : peers[e][i].sendQueue = <<>>
       /\ \A e \in Programs, i \in Slots : Settled(in, slot, e, i, peers[e][i])
  BY <1>4 DEF Settled
<1>11. \A e \in Programs : plr_self[e] = IF e \in in THEN slot[e] ELSE PLR_BROADCAST
  BY <1>6
<1>12. \A e \in Programs : /\ awaiting[e] <=> e \notin in
                           /\ firstpeer[e] = NoEndpoint
                           /\ e \in in => sent[e] = 1
  BY <1>6
<1>13. Begun(in, slot)
  BY <1>3, <1>5, <1>7, <1>8, <1>9, <1>10, <1>11, <1>12 DEF Begun
<1> QED BY <1>13

LEMMA BegunFacts ==
    ASSUME NEW in, NEW slot, Begun(in, slot)
    PROVE  /\ \A e \in Programs : \A f \in Programs \ {e} : \A set : Cnt(e, f, set) = 0
           /\ \A e \in Programs : \A f \in Programs \ {e} : Flying(e, f) = {}
           /\ \A m, f, k \in Programs : ~ Told(m, f, k)
           /\ \A f, k \in Programs : ~ Intro(f, k)
           /\ \A e, f \in Programs, i \in Slots : KnowsAt(e, f, i) => e \in in /\ f \in in /\ e # f /\ slot[f] = i
           /\ \A e, f \in Programs : Met(e, f) => e \in in /\ f \in in /\ e # f
           /\ \A e \in Programs : Joined(e) <=> e \in in
           /\ \A e \in Programs : Unborn(e) => e \notin in
<1>0. \A e \in Programs, i \in Slots : Settled(in, slot, e, i, peers[e][i])
  BY DEF Begun
<1>1. ASSUME NEW e \in Programs, NEW f \in Programs \ {e}, NEW set PROVE Cnt(e, f, set) = 0
  <2>1. L1(e, f) = <<>> /\ L2(e, f) = <<>> /\ L3(e, f) = <<>>
    BY DEF Begun
  <2>2. Count(<<>>, set) = 0
    BY CountBasics
  <2> QED BY <2>1, <2>2 DEF Cnt
<1>2. ASSUME NEW e \in Programs, NEW f \in Programs \ {e} PROVE Flying(e, f) = {}
  BY <1>1 DEF Flying
<1>3. ASSUME NEW m \in Programs, NEW f \in Programs, NEW k \in Programs PROVE ~ Told(m, f, k)
  <2>1. m # f => Cnt(m, f, News(m, k)) = 0
    BY <1>1
  <2> QED BY <2>1 DEF Told
<1>4. \A f, k \in Programs : ~ Intro(f, k)
  BY <1>3 DEF Intro
<1>5. ASSUME NEW e \in Programs, NEW f \in Programs, NEW i \in Slots, KnowsAt(e, f, i)
      PROVE  e \in in /\ f \in in /\ e # f /\ slot[f] = i
  <2>0. \A g : <<g>> = <<f>> => g = f
    OBVIOUS
  <2>1. <<f>> # NoEndpoint
    BY ConnectionTypes
  <2>2. peers[e][i].endpoint = <<f>>
    BY <1>5 DEF KnowsAt
  <2> DEFINE p == peers[e][i]
  <2>3. NoPeer.endpoint = NoEndpoint
    BY DEF NoPeer
  <2>4. p = NoPeer \/ (e \in in /\ \E g \in in \ {e} : slot[g] = i /\ p.endpoint = <<g>>)
    <3>1. Settled(in, slot, e, i, p)
      BY <1>0, Zenon
    <3> HIDE DEF p
    <3> QED BY <3>1 DEF Settled
  <2>5. in \subseteq Programs
    BY DEF Begun
  <2>6. p.endpoint = <<f>>
    BY <2>2
  <2> HIDE DEF p
  <2>7. p # NoPeer
    BY <2>1, <2>3, <2>6
  <2>8. PICK g \in in \ {e} : slot[g] = i /\ p.endpoint = <<g>>
    BY <2>4, <2>7
  <2>9. g = f
    BY <2>0, <2>6, <2>8
  <2> QED BY <2>4, <2>7, <2>8, <2>9
<1>6. \A e, f \in Programs : Met(e, f) => e \in in /\ f \in in /\ e # f
  BY <1>5 DEF Met
<1>7. \A e \in Programs : Joined(e) <=> e \in in
  <2>1. PLR_BROADCAST \notin Slots
    BY Numbers
  <2> QED BY <2>1 DEF Begun, Joined
<1>8. ASSUME NEW e \in Programs, Unborn(e) PROVE e \notin in
  <2>1. ~ Asking(e)
    BY <1>1 DEF Asking
  <2> QED BY <1>7, <1>8, <2>1 DEF Unborn, Fresh
<1> QED BY <1>1, <1>2, <1>3, <1>4, <1>5, <1>6, <1>7, <1>8

LEMMA InitInv == Init => MeshInv
<1> SUFFICES ASSUME Init PROVE MeshInv
  OBVIOUS
<1>0. PICK in, slot : Begun(in, slot)
  BY InitBegun
<1>1. /\ \A e \in Programs : \A f \in Programs \ {e} : \A set : Cnt(e, f, set) = 0
      /\ \A e \in Programs : \A f \in Programs \ {e} : Flying(e, f) = {}
      /\ \A m, f, k \in Programs : ~ Told(m, f, k)
      /\ \A f, k \in Programs : ~ Intro(f, k)
      /\ \A e, f \in Programs, i \in Slots : KnowsAt(e, f, i) => e \in in /\ f \in in /\ e # f /\ slot[f] = i
      /\ \A e, f \in Programs : Met(e, f) => e \in in /\ f \in in /\ e # f
      /\ \A e \in Programs : Joined(e) <=> e \in in
      /\ \A e \in Programs : Unborn(e) => e \notin in
  BY <1>0, BegunFacts
<1>2. NoPeer.endpoint = NoEndpoint /\ NoPeer.sendQueue = <<>> /\ ~ NoPeer.queued
  BY DEF NoPeer
<1>3. InvW
  <2>1. ASSUME NEW e \in Programs, NEW f \in Programs \ {e} PROVE LinkW(e, f)
    <3>1. L1(e, f) = <<>> /\ L2(f, e) = <<>> /\ L3(e, f) = <<>> /\ backlog = {} /\ crossed = {}
      BY <1>0 DEF Begun
    <3>2. e \in gone => fd[e][f] = NoConnection
      BY <1>0 DEF Begun
    <3> QED BY <3>1, <3>2 DEF LinkW
  <2>2. ASSUME NEW e \in gone, NEW i \in Slots PROVE peers[e][i] = NoPeer
    <3>1. e \in Programs /\ e \notin in
      BY <1>0, InitTyped DEF Begun, Typed
    <3> QED BY <1>0, <3>1 DEF Begun, Settled
  <2> QED BY <2>1, <2>2 DEF InvW
<1>4. InvK
  <2> SUFFICES ASSUME NEW e \in Programs PROVE TableOk(e)
    BY DEF InvK
  <2>1. ASSUME NEW i \in Slots
        PROVE  peers[e][i] = NoPeer \/ (e \in in /\ \E f \in Programs : KnowsAt(e, f, i) /\ f # e /\ i \in isConnected[e])
    <3>1. ASSUME peers[e][i] # NoPeer
          PROVE  e \in in /\ \E f \in Programs : KnowsAt(e, f, i) /\ f # e /\ i \in isConnected[e]
      <4>1. e \in in /\ \E f \in in \ {e} : slot[f] = i /\ peers[e][i].endpoint = <<f>>
        BY <1>0, <3>1 DEF Begun, Settled
      <4> QED BY <1>0, <4>1 DEF Begun, KnowsAt
    <3> QED BY <3>1
  <2>2. \A f \in Programs : <<f>> # NoEndpoint /\ (<<f>> = <<e>> => f = e)
    BY ConnectionTypes
  <2>3. ASSUME NEW i \in Slots, NEW j \in Slots, peers[e][i].endpoint # NoEndpoint,
               peers[e][i].endpoint = peers[e][j].endpoint
        PROVE  i = j
    <3>1. PICK f \in Programs : KnowsAt(e, f, i)
      BY <1>2, <2>1, <2>3
    <3>2. KnowsAt(e, f, j)
      BY <2>3, <3>1 DEF KnowsAt
    <3> QED BY <1>1, <3>1, <3>2
  <2>4. ASSUME NEW i \in Slots
        PROVE  /\ peers[e][i].endpoint # <<e>>
               /\ peers[e][i].endpoint = NoEndpoint => peers[e][i] = NoPeer
               /\ ~ peers[e][i].queued => peers[e][i].sendQueue = <<>>
               /\ peers[e][i].endpoint # NoEndpoint => i \in isConnected[e]
    <3>1. peers[e][i].sendQueue = <<>>
      BY <1>0 DEF Begun
    <3>2. <<e>> # NoEndpoint
      BY <2>2
    <3> QED BY <1>2, <2>1, <2>2, <3>1, <3>2 DEF KnowsAt
  <2>5. (~ Joined(e) => awaiting[e]) /\ (Joined(e) => firstpeer[e] = NoEndpoint)
    BY <1>0, <1>1 DEF Begun
  <2> QED BY <2>3, <2>4, <2>5 DEF TableOk
<1>5. InvL
  <2> SUFFICES ASSUME NEW e \in Programs, e \notin in, NEW x \in Programs \ {e} PROVE LinkOut(e, x)
    BY <1>1 DEF InvL
  <2>1. fd[e][x] = NoConnection /\ fd[x][e] = NoConnection /\ backlog = {} /\ crossed = {}
    BY <1>0 DEF Begun
  <2>2. NoConnection # <<e, x>> /\ NoConnection # <<x, e>>
    BY PairTypes
  <2> QED BY <2>1, <2>2 DEF LinkOut
<1>6. InvU
  <2>1. ASSUME NEW e \in Programs, Unborn(e) PROVE Unknown(e)
    <3>1. e \notin in /\ ~ Joined(e)
      BY <1>1, <2>1
    <3>2. \A i \in Slots : peers[e][i] = NoPeer
      BY <1>0, <3>1 DEF Begun, Settled
    <3>3. ASSUME NEW x \in Programs \ {e} PROVE Strange(e, x)
      <4>1. got[x][e] = 0 /\ got[e][x] = 0
        BY <1>0, <3>1 DEF Begun, Settled
      <4>2. ~ Met(x, e)
        BY <1>1, <3>1
      <4>3. Cnt(x, e, Packets) = 0 /\ Cnt(e, x, Packets \ Requests) = 0 /\ Cnt(e, x, Requests) = 0
        BY <1>1
      <4> QED BY <4>1, <4>2, <4>3 DEF Strange
    <3> QED BY <1>1, <3>1, <3>2, <3>3 DEF Unknown
  <2>2. \A e \in Programs : \A x \in Programs \ {e} : Asked(e, x)
    BY <1>1 DEF Asked
  <2> QED BY <2>1, <2>2 DEF InvU
<1>7. InvI
  <2>1. ASSUME NEW f \in Programs, NEW k \in Programs PROVE ToldOnce(f, k)
    <3>1. \A m \in Programs \ {f} : Cnt(m, f, News(m, k)) <= 1
      <4>1. \A m \in Programs \ {f} : Cnt(m, f, News(m, k)) = 0
        BY <1>1
      <4> QED BY <4>1
    <3> QED BY <1>1, <3>1 DEF ToldOnce
  <2> QED BY <2>1 DEF InvI
<1>8. InvN
  <2> SUFFICES ASSUME NEW f \in Programs PROVE \E n \in Slots : Numbered(f, n)
    BY DEF InvN
  <2>1. CASE f \in in
    <3>1. slot[f] \in Slots /\ plr_self[f] = slot[f]
      BY <1>0, <2>1 DEF Begun
    <3>2. Numbered(f, slot[f])
      BY <1>1, <3>1 DEF Numbered
    <3> QED BY <3>1, <3>2
  <2>2. CASE f \notin in
    <3>1. 0 \in Slots
      BY Numbers
    <3>2. Numbered(f, 0)
      BY <1>1, <2>2 DEF Numbered
    <3> QED BY <3>1, <3>2
  <2> QED BY <2>1, <2>2
<1>9. InvS
  <2>1. \A S : <<>> \in Seq(S)
    OBVIOUS
  <2>2. \A e \in Programs, i \in Slots : peers[e][i].sendQueue \in Seq(HeldFor(e, i))
    <3> SUFFICES ASSUME NEW e \in Programs, NEW i \in Slots
                 PROVE  peers[e][i].sendQueue \in Seq(HeldFor(e, i))
      OBVIOUS
    <3>1. peers[e][i].sendQueue = <<>>
      BY <1>0 DEF Begun
    <3>2. <<>> \in Seq(HeldFor(e, i))
      BY <2>1
    <3> QED BY <3>1, <3>2
  <2> QED BY <1>1, <2>2 DEF InvS
<1>10. InvA
  BY <1>1 DEF InvA
<1>11. InvQ
  <2> SUFFICES ASSUME NEW e \in Programs, NEW f \in Programs \ {e}, NEW i \in Slots, KnowsAt(e, f, i) PROVE Ready(e, f)
    BY <1>1 DEF InvQ
  <2> QED BY <1>1 DEF Ready
<1>12. InvV
  BY <1>0, <1>1 DEF InvV, Begun
<1>13. ASSUME NEW e \in Programs, NEW f \in Programs \ {e}, Bond(e, f)
       PROVE  /\ e \in in /\ f \in in /\ backlog = {} /\ fd[e][f] # NoConnection /\ fd[e][f] = fd[f][e]
              /\ sent[e] = 1 /\ got[f][e] = 1
  <2>1. e \in in /\ f \in in
    BY <1>1, <1>13 DEF Bond, Rel
  <2> QED BY <1>0, <2>1 DEF Begun
<1>14. InvC
  BY <1>1, <1>13 DEF InvC, LinkOk
<1>15. InvT
  <2> SUFFICES ASSUME NEW e \in Programs, NEW f \in Programs \ {e}, NEW i \in Slots, Bond(e, f)
               PROVE  Tally(Stream(e, f, i), sent[e], got[f][e])
    BY DEF InvT
  <2>1. Typed
    BY InitTyped
  <2>2. Among(Mail(e, f), TurnPackets) = <<>>
    BY <1>1, <2>1, NoTurns
  <2>3. peers[e][i].sendQueue = <<>>
    BY <1>0 DEF Begun
  <2>4. Among(<<>>, TurnPackets) = <<>>
    <3> DEFINE S == {}
    <3>1. S \in SUBSET Packets /\ S \cap TurnPackets = {} /\ <<>> \in Seq(S)
      OBVIOUS
    <3> HIDE DEF S
    <3> QED BY <3>1, AmongNone
  <2>5. Stream(e, f, i) = <<>> \o <<>>
    BY <2>1, <2>2, <2>3, <2>4, StreamParts
  <2>6. Stream(e, f, i) = <<>> /\ Len(<<>>) = 0
    BY <2>5
  <2>7. Tally(<<>>, 1, 1)
    BY DEF Tally
  <2> QED BY <1>13, <2>6, <2>7
<1> QED BY <1>3, <1>4, <1>5, <1>6, <1>7, <1>8, <1>9, <1>10, <1>11, <1>12, <1>14, <1>15 DEF MeshInv

\* The invariant says it of what is on the connection, in the queue of packets and held back,
\* in that order.
LEMMA NothingLostFollows == Typed /\ MeshInv => NothingLost
<1> SUFFICES ASSUME Typed, MeshInv, NEW e \in Playing, NEW f \in Playing,
                    e # f, Knows(e, f), Knows(f, e), ~ awaiting[e],
                    <<e, f>> \notin crossed, plr_self[f] \notin taken[e]
             PROVE  LET turns == TurnsUnderway(e, f) IN
                    /\ \A i \in 1 .. Len(turns) : turns[i] = sent[e] - Len(turns) + i
                    /\ got[f][e] \in {0, sent[e] - Len(turns)}
                    /\ turns = <<>> => got[f][e] = sent[e]
  BY DEF NothingLost
<1> DEFINE i == plr_self[f]
           s == Stream(e, f, i)
           u == TurnsUnderway(e, f)
<1>1. e \in Programs /\ f \in Programs \ {e} /\ Joined(e) /\ Joined(f) /\ e \notin gone /\ f \notin gone
  BY PlayingJoined DEF Playing
<1>2. KnowsAt(e, f, plr_self[f]) /\ KnowsAt(f, e, plr_self[e]) /\ i \in Slots /\ plr_self[e] \in Slots
  BY <1>1 DEF Knows, KnowsAt, Joined
<1>3. Bond(e, f)
  <2>1. Met(e, f) /\ Met(f, e)
    BY <1>2 DEF Met
  <2>2. LinkW(f, e)
    BY <1>1 DEF MeshInv, InvW
  <2> QED BY <1>1, <2>1, <2>2 DEF Bond, Rel, LinkW
<1>4. Tally(s, sent[e], got[f][e])
  BY <1>1, <1>2, <1>3 DEF MeshInv, InvT
<1>5. s \in Seq(TurnPackets)
  BY <1>1, <1>2, StreamParts
<1>6. u = [k \in 1 .. Len(s) |-> s[k].turn]
  BY DEF TurnsUnderway, Stream, Mail, TurnPackets
<1>7. sent[e] \in Nat
  BY <1>1 DEF Typed
<1> HIDE DEF s, u
<1>8. Len(s) \in Nat /\ Len(u) = Len(s) /\ (u = <<>> => Len(s) = 0)
  BY <1>5, <1>6
<1>9. \A k \in 1 .. Len(u) : u[k] = sent[e] - Len(u) + k
  BY <1>4, <1>6, <1>8 DEF Tally
<1>10. got[f][e] \in {0, sent[e] - Len(u)}
  BY <1>4, <1>8 DEF Tally
<1>11. u = <<>> => got[f][e] = sent[e]
  <2>1. Len(s) = 0 => s = <<>>
    BY <1>5
  <2> QED BY <1>4, <1>7, <1>8, <2>1 DEF Tally
<1> QED BY <1>9, <1>10, <1>11 DEF u

\* Two players that know each other lose no turn, whatever meets first: the turns of one that
\* are on the connection, in its queue of packets or held back in sendQueue follow each other
\* and end with the last one that it has sent, and the other has got the one before, or none
\* yet.  With no turn on its way it has got the last one (SendFirstTurnIfReady, DrainSendQueue).
THEOREM NoTurnLost == Spec => []NothingLost
<1> DEFINE IInv == Typed /\ MeshInv
<1>1. Init => IInv
  BY InitTyped, InitInv
<1>2. IInv /\ [Next]_vars => IInv'
  BY NextTyped, NextKeeps
<1>3. IInv => NothingLost
  BY NothingLostFollows
<1> HIDE DEF IInv
<1> QED BY <1>1, <1>2, <1>3, PTL DEF Spec
================================================================================
