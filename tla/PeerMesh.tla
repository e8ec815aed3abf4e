------------------------------- MODULE PeerMesh -------------------------------
(***************************************************************************)
(* The peer-to-peer provider: base_protocol.h on top of protocol_zt.cpp.   *)
(* There is no server.  A program that joins asks the master, the player   *)
(* with the lowest number, which gives it a slot, tells the others where   *)
(* to reach it, and tells it where to reach the others.  Then each two     *)
(* players connect.  Until a player has heard from another one it holds    *)
(* back what it has for it (sendQueue), because the other may not know     *)
(* yet who it is, or even its own number.                                  *)
(*                                                                         *)
(* Connections are TCP on top of lwIP, which is modelled from how it is    *)
(* used: a connection is open for who opened it before the other accepts   *)
(* it; each end can be closed, and the other then reads what is left.      *)
(* Unread data at the end that closes may destroy what it has sent.        *)
(*                                                                         *)
(* Abstractions.  Turns have numbers of their own for each player; the own *)
(* turns in transit are the last one.  TurnSync models what programs do    *)
(* with them.  The search for games (INFO packets, which may get lost and  *)
(* are repeated) ends at a player that is the master at that moment.       *)
(* Frames are in CommandPath.                                              *)
(***************************************************************************)
EXTENDS Integers, FiniteSets, Subsequences

CONSTANTS
    N,           \* number of slots, MAX_PLRS
    Programs,
    Host,        \* the program that created the game
    Memberships, \* sets of other programs that may play at first
    Joiners,     \* programs that may join
    MaxTurn,     \* bound on the turns of one program; the others send their first one only
    MaxEvents    \* bound on rounds of periodic echo requests, and on programs that leave,
                 \* crash or give up

ASSUME ParametersAssumption ==
    /\ N \in Nat \ {0}
    /\ Host \in Programs /\ Joiners \subseteq Programs \ {Host}
    /\ \A members \in Memberships :
           members \subseteq Programs \ ({Host} \cup Joiners) /\ Cardinality(members) < N
    /\ MaxTurn \in Nat \ {0}
    /\ MaxEvents \in Nat

Slots == 0 .. N - 1
PLR_BROADCAST == N
PLR_MASTER == N + 1
NoEndpoint == <<>>

VARIABLES
    plr_self,       \* of each program, PLR_BROADCAST before it has joined
    firstpeer,      \* whom a program has asked to join, as an endpoint
    peers,          \* where each slot can be reached, and what is held back for it
    isConnected,    \* the slots that a program plays with
    awaiting,       \* awaitingSequenceNumber_
    sent,           \* number of turns that a program has sent
    got,            \* the last turn of each program that a program has got
    fd,             \* peer_list: the connection to each program
    send_queue,     \* peer_list: packets that wait for a connection
    backlog,        \* connections that were opened and are not accepted yet
    wire,           \* packets on each connection, for each of its ends
    gone,           \* programs that have ended
    echoes,         \* number of rounds of periodic echo requests
    faults,         \* number of faults so far
    crossed,        \* ghost: programs that opened connections to each other at once
    taken           \* ghost: slots that were given again while a program played with them

gameVars == <<plr_self, firstpeer, peers, isConnected, awaiting>>
turnVars == <<sent, got>>
netVars == <<fd, send_queue, backlog, wire>>
vars == <<gameVars, turnVars, netVars, gone, echoes, faults, crossed, taken>>

-----------------------------------------------------------------------------
(* Packets and connections.                                                *)

Packet(type, src, dst, player, endpoint, turn) ==
    [type |-> type, src |-> src, dst |-> dst, player |-> player,
     endpoint |-> endpoint, turn |-> turn]

JoinRequest == Packet("PT_JOIN_REQUEST", PLR_BROADCAST, PLR_MASTER, 0, NoEndpoint, 0)
JoinAccept(src, player) ==
    Packet("PT_JOIN_ACCEPT", src, PLR_BROADCAST, player, NoEndpoint, 0)
ConnectPacket(player, e) ==
    Packet("PT_CONNECT", PLR_MASTER, PLR_BROADCAST, player, <<e>>, 0)
Turn(src, dst, n) == Packet("PT_TURN", src, dst, 0, NoEndpoint, n)
Echo(type, src, dst) == Packet(type, src, dst, 0, NoEndpoint, 0)
Disconnect(src, player) ==
    Packet("PT_DISCONNECT", src, PLR_BROADCAST, player, NoEndpoint, 0)

EchoTypes == {"PT_ECHO_REQUEST", "PT_ECHO_REPLY"}
Endpoints == {NoEndpoint} \cup {<<e>> : e \in Programs}
Packets ==
    [type : EchoTypes \cup {"PT_JOIN_REQUEST", "PT_JOIN_ACCEPT", "PT_CONNECT", "PT_TURN",
                            "PT_DISCONNECT"},
     src : Slots \cup {PLR_BROADCAST, PLR_MASTER},
     dst : Slots \cup {PLR_BROADCAST, PLR_MASTER},
     player : Slots, endpoint : Endpoints, turn : 0 .. MaxTurn]

\* A connection is named by the program that opened it and the other one.
Connections == {c \in Programs \X Programs : c[1] # c[2]}
Ends(c) == {c[1], c[2]}
NoConnection == <<>>

NoPeer == [endpoint |-> NoEndpoint, queued |-> FALSE, sendQueue |-> <<>>]

TypeOK ==
    /\ plr_self \in [Programs -> Slots \cup {PLR_BROADCAST}]
    /\ firstpeer \in [Programs -> Endpoints]
    /\ peers \in [Programs -> [Slots ->
           [endpoint : Endpoints, queued : BOOLEAN, sendQueue : Seq(Packets)]]]
    /\ isConnected \in [Programs -> SUBSET Slots]
    /\ awaiting \in [Programs -> BOOLEAN]
    /\ sent \in [Programs -> 0 .. MaxTurn]
    /\ got \in [Programs -> [Programs -> 0 .. MaxTurn]]
    /\ \A e, f \in Programs :
           fd[e][f] \in {NoConnection} \cup (Connections \cap {<<e, f>>, <<f, e>>})
    /\ send_queue \in [Programs -> [Programs -> Seq(Packets)]]
    /\ backlog \subseteq Connections
    /\ \A c \in Connections : wire[c] \in [Ends(c) -> Seq(Packets)]
    /\ gone \subseteq Programs
    /\ echoes \in 0 .. MaxEvents
    /\ faults \in 0 .. MaxEvents
    /\ crossed \subseteq Connections
    /\ taken \in [Programs -> SUBSET Slots]

Playing == {e \in Programs \ gone : plr_self[e] # PLR_BROADCAST}

\* The members play in any slots but that of the host.  They have opened a connection to
\* it, and to members with higher numbers.  Each has sent one turn and got those of the
\* others.
Init ==
    \E in \in {{Host} \cup members : members \in Memberships} :
    \E slot \in [in -> Slots] :
        /\ slot[Host] = 0
        /\ \A e, f \in in : slot[e] = slot[f] => e = f
        /\ plr_self = [e \in Programs |-> IF e \in in THEN slot[e] ELSE PLR_BROADCAST]
        /\ peers = [e \in Programs |-> [i \in Slots |->
               IF e \in in /\ \E f \in in \ {e} : slot[f] = i
               THEN [NoPeer EXCEPT !.endpoint = <<CHOOSE f \in in : slot[f] = i>>]
               ELSE NoPeer]]
        /\ isConnected = [e \in Programs |-> IF e \in in THEN {slot[f] : f \in in} ELSE {}]
        /\ awaiting = [e \in Programs |-> e \notin in]
        /\ sent = [e \in Programs |-> IF e \in in THEN 1 ELSE 0]
        /\ got = [e \in Programs |-> [f \in Programs |->
               IF e \in in /\ f \in in \ {e} THEN 1 ELSE 0]]
        /\ fd = [e \in Programs |-> [f \in Programs |->
               IF e \in in /\ f \in in \ {e}
               THEN IF f = Host \/ (e # Host /\ slot[e] < slot[f])
                    THEN <<e, f>> ELSE <<f, e>>
               ELSE NoConnection]]
        /\ gone = Programs \ (in \cup Joiners)
        /\ firstpeer = [e \in Programs |-> NoEndpoint]
        /\ send_queue = [e \in Programs |-> [f \in Programs |-> <<>>]]
        /\ backlog = {}
        /\ wire = [c \in Connections |-> [e \in Ends(c) |-> <<>>]]
        /\ echoes = 0
        /\ faults = 0
        /\ crossed = {}
        /\ taken = [e \in Programs |-> {}]

-----------------------------------------------------------------------------
(* protocol_zt: sending and closing.                                       *)

\* What e sends to each program goes on its connection, or waits for one.  Nothing
\* arrives where the other end is closed.
Deliver(e, fds, wires, queues, packets) ==
    /\ wire' = [c \in Connections |-> [f \in Ends(c) |->
           IF f # e /\ e \in Ends(c) /\ fds[e][f] = c /\ (fds[f][e] = c \/ c \in backlog')
           THEN wires[c][f] \o packets[f] ELSE wires[c][f]]]
    /\ send_queue' = [queues EXCEPT ![e] = [f \in Programs |->
           IF fds[e][f] = NoConnection THEN queues[e][f] \o packets[f] ELSE <<>>]]

\* disconnect: e closes its end of the connections to some programs, and forgets what
\* waits for them.  What it has sent is still read there.
ClosedFds(e, others) ==
    [fd EXCEPT ![e] = [f \in Programs |-> IF f \in others THEN NoConnection ELSE @[f]]]
ClosedWires(e, others, wires) ==
    [c \in Connections |-> [f \in Ends(c) |->
        IF f = e /\ \E g \in others : fd[e][g] = c THEN <<>> ELSE wires[c][f]]]
ClosedQueues(e, others) ==
    [send_queue EXCEPT ![e] = [f \in Programs |-> IF f \in others THEN <<>> ELSE @[f]]]

-----------------------------------------------------------------------------
(* base_protocol: sending.  A step of program e starts with nothing sent   *)
(* and its peers; "to" collects what it sends to each program.             *)

Step(e) == [peers |-> peers[e], to |-> [f \in Programs |-> <<>>]]

\* proto.send
Raw(step, endpoint, packet) ==
    [step EXCEPT !.to = [f \in Programs |->
        IF endpoint = <<f>> THEN Append(@[f], packet) ELSE @[f]]]

\* Mutant of SendTo: nothing is held back.
SendToAtOnce(step, player, packet) == Raw(step, step.peers[player].endpoint, packet)

\* SendTo: unknown players get nothing; while the handshake lasts, echoes only.
SendTo(step, player, packet) ==
    LET peer == step.peers[player] IN
    IF peer.queued /\ packet.type \notin EchoTypes
    THEN [step EXCEPT !.peers[player].sendQueue = Append(@, packet)]
    ELSE Raw(step, peer.endpoint, packet)

\* Some players in ascending order: Op is applied to a step for each of them.
ForEach(players, step, Op(_, _)) ==
    LET f[i \in 0 .. N] ==
            IF i = 0 THEN step
            ELSE IF i - 1 \in players THEN Op(f[i - 1], i - 1) ELSE f[i - 1]
    IN  f[N]

\* send of a packet to PLR_BROADCAST.
Broadcast(step, packet) ==
    ForEach(Slots, step, LAMBDA s, player : SendTo(s, player, packet))

\* DrainSendQueue
DrainSendQueue(step, player) ==
    LET peer == step.peers[player] IN
    [step EXCEPT
        !.peers[player] = [peer EXCEPT !.queued = FALSE, !.sendQueue = <<>>],
        !.to = [f \in Programs |->
                   IF peer.endpoint = <<f>> THEN @[f] \o peer.sendQueue ELSE @[f]]]

\* Mutant of FirstTurn: it sends the next turn.
FirstTurnNext(e, step, player) ==
    IF player \in isConnected[e] \/ awaiting[e] THEN step
    ELSE SendTo(step, player, Turn(plr_self[e], player, sent[e] + 1))

\* Connect of a player: one that was not connected gets the own turns in transit.
FirstTurn(e, step, player) ==
    IF player \in isConnected[e] \/ awaiting[e] THEN step
    ELSE SendTo(step, player, Turn(plr_self[e], player, sent[e]))

\* Mutant of InitiateHandshake: a connection that is open is not used.
InitiateHandshakeLower(e, self, step, player) ==
    IF self < player
    THEN SendTo(step, player, Echo("PT_ECHO_REQUEST", self, player)) ELSE step

\* InitiateHandshake: is_peer_connected is true for a connection that was opened, or
\* accepted.
InitiateHandshake(e, self, step, player) ==
    IF self < player \/ \E f \in Programs :
           step.peers[player].endpoint = <<f>> /\ fd[e][f] # NoConnection
    THEN SendTo(step, player, Echo("PT_ECHO_REQUEST", self, player)) ELSE step

\* The end of a step of e that received nothing and closed nothing.
Finish(e, step) ==
    /\ peers' = [peers EXCEPT ![e] = step.peers]
    /\ UNCHANGED <<fd, backlog>>
    /\ Deliver(e, fd, wire, send_queue, step.to)

\* The same, with its next packet from f taken off the connection.
Rest(e, f) == [wire EXCEPT ![fd[e][f]][e] = Tail(@)]
FinishReceive(e, f, step) ==
    /\ peers' = [peers EXCEPT ![e] = step.peers]
    /\ UNCHANGED <<fd, backlog>>
    /\ Deliver(e, fd, Rest(e, f), send_queue, step.to)

-----------------------------------------------------------------------------
(* protocol_zt: connections.                                               *)

\* send_queued_peer without a connection.  One that f has just opened may still be on its
\* way; if it had arrived, accept_all would have accepted it just before.
Open(e, f) ==
    LET c == <<e, f>> IN
    /\ e \notin gone /\ fd[e][f] = NoConnection
    /\ send_queue[e][f] # <<>>
    /\ c \notin backlog /\ fd[f][e] # c
    /\ fd' = [fd EXCEPT ![e][f] = c]
    /\ backlog' = IF f \in gone THEN backlog ELSE backlog \cup {c}
    /\ Deliver(e, fd', [wire EXCEPT ![c] = [g \in Ends(c) |-> <<>>]], send_queue,
               [g \in Programs |-> IF g = f THEN send_queue[e][f] ELSE <<>>])
    /\ crossed' = IF fd[f][e] = <<f, e>> THEN crossed \cup {c, <<f, e>>} ELSE crossed
    /\ UNCHANGED <<gameVars, turnVars, gone, echoes, faults, taken>>

\* accept_all: a connection that e has to f, one it has just opened, is closed.
Accept(e, f) ==
    LET c == <<f, e>> IN
    /\ e \notin gone /\ c \in backlog
    /\ backlog' = backlog \ {c}
    /\ fd' = [fd EXCEPT ![e][f] = c]
    /\ Deliver(e, fd', ClosedWires(e, {f}, wire), send_queue,
               [g \in Programs |-> IF g = f /\ fd[e][f] = NoConnection
                                   THEN send_queue[e][f] ELSE <<>>])
    /\ UNCHANGED <<gameVars, turnVars, gone, echoes, faults, crossed, taken>>

\* DisconnectNet of a player
DisconnectNet(player, step) == [step EXCEPT !.peers[player] = NoPeer]
Reached(endpoint) == {f \in Programs : endpoint = <<f>>}

\* recv_peer finds that f has closed its end, and get_disconnected tells recv.
Disconnected(e, f) ==
    LET c == fd[e][f] IN
    /\ e \notin gone
    /\ c # NoConnection /\ c \notin backlog /\ fd[f][e] # c
    /\ wire[c][e] = <<>>
    /\ \E player \in Slots :
           /\ peers[e][player].endpoint = <<f>>
           /\ \A i \in Slots : peers[e][i].endpoint = <<f>> => player <= i
           /\ peers' = [peers EXCEPT ![e][player] = NoPeer]
    /\ fd' = ClosedFds(e, {f})
    /\ send_queue' = ClosedQueues(e, {f})
    /\ UNCHANGED <<plr_self, firstpeer, isConnected, awaiting, turnVars, backlog, wire,
                   gone, echoes, faults, crossed, taken>>

-----------------------------------------------------------------------------
(* Joining.                                                                *)

\* get_master
IsMaster(e) == \A i \in Slots : peers[e][i].endpoint # NoEndpoint => plr_self[e] < i

\* wait_firstpeer and the beginning of wait_join.
AskToJoin(e, f) ==
    /\ e \notin Playing \cup gone /\ firstpeer[e] = NoEndpoint
    /\ f \in Playing /\ IsMaster(f)
    /\ firstpeer' = [firstpeer EXCEPT ![e] = <<f>>]
    /\ Finish(e, Raw(Step(e), <<f>>, JoinRequest))
    /\ UNCHANGED <<plr_self, isConnected, awaiting, turnVars, gone, echoes, faults,
                   crossed, taken>>

\* The packets of e that are next on its connections.
Arrives(e, f, type) ==
    /\ e \notin gone /\ fd[e][f] # NoConnection
    /\ wire[fd[e][f]][e] # <<>>
    /\ Head(wire[fd[e][f]][e]).type = type
Arrived(e, f) == Head(wire[fd[e][f]][e])

FreeSlots(e) == {i \in Slots \ {plr_self[e]} : peers[e][i].endpoint = NoEndpoint}
Others(e, player) ==
    {i \in Slots \ {plr_self[e], player} : peers[e][i].endpoint # NoEndpoint}

\* handle_join_request once the new player has a slot: the others hear of it and it
\* hears of them, then of its own slot; then it gets what was held back for it.
Introduce(e, f, player, step) ==
    LET told == ForEach(Others(e, player), step, LAMBDA s, i :
                    Raw(Raw(s, s.peers[i].endpoint, ConnectPacket(player, f)),
                        <<f>>, ConnectPacket(i, s.peers[i].endpoint[1])))
    IN  DrainSendQueue(Raw(told, <<f>>, JoinAccept(plr_self[e], player)), player)

HandleJoinRequest(e, f) ==
    /\ Arrives(e, f, "PT_JOIN_REQUEST")
    /\ FreeSlots(e) # {}
    /\ LET player == CHOOSE i \in FreeSlots(e) : \A j \in FreeSlots(e) : i <= j
           peer == [endpoint |-> <<f>>, queued |-> TRUE, sendQueue |-> <<>>]
           step == [Step(e) EXCEPT !.peers[player] = peer]
       IN  /\ FinishReceive(e, f, Introduce(e, f, player, FirstTurn(e, step, player)))
           /\ isConnected' = [isConnected EXCEPT ![e] = @ \cup {player}]
           /\ taken' = IF player \in isConnected[e]
                       THEN [taken EXCEPT ![e] = @ \cup {player}] ELSE taken
    /\ UNCHANGED <<plr_self, firstpeer, awaiting, turnVars, gone, echoes, faults, crossed>>

\* is_recognized
IsRecognized(e, f) == firstpeer[e] = <<f>> \/ \E i \in Slots : peers[e][i].endpoint = <<f>>

\* PT_CONNECT: a player is to be reached at an endpoint.
ReceiveConnect(e, f) ==
    /\ Arrives(e, f, "PT_CONNECT")
    /\ IsRecognized(e, f)
    /\ LET player == Arrived(e, f).player
           peer == [endpoint |-> Arrived(e, f).endpoint, queued |-> TRUE, sendQueue |-> <<>>]
           step == FirstTurn(e, [Step(e) EXCEPT !.peers[player] = peer], player)
       IN  /\ FinishReceive(e, f, IF plr_self[e] = PLR_BROADCAST THEN step
                                  ELSE InitiateHandshake(e, plr_self[e], step, player))
           /\ isConnected' = [isConnected EXCEPT ![e] = @ \cup {player}]
           /\ taken' = IF player \in isConnected[e]
                       THEN [taken EXCEPT ![e] = @ \cup {player}] ELSE taken
    /\ UNCHANGED <<plr_self, firstpeer, awaiting, turnVars, gone, echoes, faults, crossed>>

\* PT_JOIN_ACCEPT, and HandleAccept: the program knows its number, and greets all.
ReceiveAccept(e, f) ==
    /\ Arrives(e, f, "PT_JOIN_ACCEPT")
    /\ firstpeer[e] = <<f>>
    /\ LET master == Arrived(e, f).src
           self == Arrived(e, f).player
           step == [Step(e) EXCEPT !.peers[master].endpoint = <<f>>]
       IN  /\ FinishReceive(e, f,
                  DrainSendQueue(
                      ForEach(Slots, step, LAMBDA s, i : InitiateHandshake(e, self, s, i)),
                      master))
           /\ plr_self' = [plr_self EXCEPT ![e] = self]
           /\ isConnected' = [isConnected EXCEPT ![e] = @ \cup {master, self}]
    /\ firstpeer' = [firstpeer EXCEPT ![e] = NoEndpoint]
    /\ UNCHANGED <<awaiting, turnVars, gone, echoes, faults, crossed, taken>>

-----------------------------------------------------------------------------
(* In the game.                                                            *)

\* recv_ingame: a packet of a player comes from its endpoint, and is for this one.
IsFromPlayer(e, f) ==
    LET packet == Arrived(e, f) IN
    /\ packet.src \in Slots
    /\ peers[e][packet.src].endpoint = <<f>>
    /\ packet.dst \in {plr_self[e], PLR_BROADCAST}

\* HandleTurn; the first one makes a program that waits for it send its own turn.
ReceiveTurn(e, f) ==
    /\ Arrives(e, f, "PT_TURN")
    /\ IsFromPlayer(e, f)
    /\ got' = [got EXCEPT ![e][f] = Arrived(e, f).turn]
    /\ isConnected' = [isConnected EXCEPT ![e] = @ \cup {Arrived(e, f).src}]
    /\ awaiting' = [awaiting EXCEPT ![e] = FALSE]
    /\ sent' = IF awaiting[e] THEN [sent EXCEPT ![e] = 1] ELSE sent
    /\ FinishReceive(e, f,
           DrainSendQueue(
               IF awaiting[e] THEN Broadcast(Step(e), Turn(plr_self[e], PLR_BROADCAST, 1))
               ELSE FirstTurn(e, Step(e), Arrived(e, f).src),
               Arrived(e, f).src))
    /\ UNCHANGED <<plr_self, firstpeer, gone, echoes, faults, crossed, taken>>

\* HandleEchoRequest and HandleEchoReply.
ReceiveEcho(e, f, type) ==
    LET src == Arrived(e, f).src IN
    /\ Arrives(e, f, type)
    /\ IsFromPlayer(e, f)
    /\ FinishReceive(e, f,
           DrainSendQueue(
               IF type = "PT_ECHO_REQUEST"
               THEN SendTo(Step(e), src, Echo("PT_ECHO_REPLY", plr_self[e], src))
               ELSE Step(e),
               src))
    /\ UNCHANGED <<plr_self, firstpeer, isConnected, awaiting, turnVars, gone, echoes,
                   faults, crossed, taken>>

\* HandleDisconnect of a player, by DisconnectNet of its connection.
ForgetPlayer(e, player, wires, step) ==
    LET others == Reached(peers[e][player].endpoint)
        closed == DisconnectNet(player, step)
    IN
    /\ peers' = [peers EXCEPT ![e] = closed.peers]
    /\ isConnected' = [isConnected EXCEPT ![e] = @ \ {player}]
    /\ fd' = ClosedFds(e, others)
    /\ got' = [got EXCEPT ![e] = [g \in Programs |-> IF g \in others THEN 0 ELSE @[g]]]
    /\ UNCHANGED backlog
    /\ Deliver(e, fd', ClosedWires(e, others, wires), ClosedQueues(e, others), closed.to)

\* A player has left or was dropped.  A program that is told of itself hangs up.
ReceiveDisconnect(e, f) ==
    LET player == Arrived(e, f).player
        src == Arrived(e, f).src
    IN
    /\ Arrives(e, f, "PT_DISCONNECT")
    /\ IsFromPlayer(e, f)
    /\ IF player = plr_self[e]
       THEN /\ fd' = ClosedFds(e, {f})
            /\ wire' = ClosedWires(e, {f}, wire)
            /\ send_queue' = ClosedQueues(e, {f})
            /\ UNCHANGED <<peers, isConnected, got, backlog>>
       ELSE IF player \in isConnected[e]
       THEN ForgetPlayer(e, player, Rest(e, f),
                IF src = player THEN Step(e) ELSE DrainSendQueue(Step(e), src))
       ELSE /\ FinishReceive(e, f, DrainSendQueue(Step(e), src))
            /\ UNCHANGED <<isConnected, got>>
    /\ UNCHANGED <<plr_self, firstpeer, awaiting, sent, gone, echoes, faults, crossed, taken>>

\* A packet that is dropped: of an endpoint that is not known, for somebody else, or a
\* request to join a game that is full.
Ignore(e, f) ==
    /\ e \notin gone /\ fd[e][f] # NoConnection
    /\ wire[fd[e][f]][e] # <<>>
    /\ CASE Arrived(e, f).type = "PT_JOIN_REQUEST" -> FreeSlots(e) = {}
         [] Arrived(e, f).type = "PT_CONNECT" -> ~IsRecognized(e, f)
         [] Arrived(e, f).type = "PT_JOIN_ACCEPT" -> firstpeer[e] # <<f>>
         [] OTHER -> ~IsFromPlayer(e, f)
    /\ wire' = Rest(e, f)
    /\ UNCHANGED <<gameVars, turnVars, fd, send_queue, backlog, gone, echoes, faults,
                   crossed, taken>>

\* SNetSendTurn
SendTurn(e) ==
    /\ e \in Playing /\ ~awaiting[e]
    /\ sent[e] < MaxTurn /\ \A f \in Programs \ {e} : sent[f] <= 1
    /\ sent' = [sent EXCEPT ![e] = @ + 1]
    /\ Finish(e, Broadcast(Step(e), Turn(plr_self[e], PLR_BROADCAST, sent'[e])))
    /\ UNCHANGED <<plr_self, firstpeer, isConnected, awaiting, got, gone, echoes, faults,
                   crossed, taken>>

\* SNetReceiveMessage, every five seconds and the first time it is called.
SendEchoRequests(e) ==
    /\ e \in Playing
    /\ echoes + faults < MaxEvents
    /\ echoes' = echoes + 1
    /\ Finish(e, ForEach(Slots \ {plr_self[e]}, Step(e), LAMBDA s, i :
                     SendTo(s, i, Echo("PT_ECHO_REQUEST", plr_self[e], i))))
    /\ UNCHANGED <<plr_self, firstpeer, isConnected, awaiting, turnVars, gone, faults,
                   crossed, taken>>

\* SNetDropPlayer of a player whose turns do not come any more: it has ended, or its
\* connection has.
DropPlayer(e, player) ==
    /\ e \in Playing
    /\ player \in isConnected[e] \ {plr_self[e]}
    /\ Reached(peers[e][player].endpoint) \subseteq gone
    /\ ForgetPlayer(e, player, wire,
           ForEach(Slots \ {player}, Step(e), LAMBDA s, i :
               SendTo(s, i, Disconnect(plr_self[e], player))))
    /\ UNCHANGED <<plr_self, firstpeer, awaiting, sent, gone, echoes, faults, crossed, taken>>

-----------------------------------------------------------------------------
(* Faults.                                                                 *)

\* A program has ended: the other ends of its connections read what it has sent, except
\* for the last "lost" packets of each.
Ended(e, lost, wires) ==
    /\ gone' = gone \cup {e}
    /\ faults' = faults + 1
    /\ fd' = [fd EXCEPT ![e] = [f \in Programs |-> NoConnection]]
    /\ send_queue' = [send_queue EXCEPT ![e] = [f \in Programs |-> <<>>]]
    /\ backlog' = {c \in backlog : c[2] # e}
    /\ peers' = [peers EXCEPT ![e] = [i \in Slots |-> NoPeer]]
    /\ wire' = [c \in Connections |-> [f \in Ends(c) |->
           IF f = e THEN <<>>
           ELSE IF fd[e][f] = c
           THEN SubSeq(wires[c][f], 1, Len(wires[c][f]) - lost[f])
           ELSE wires[c][f]]]

\* SNetLeaveGame; what was held back for a player is lost, the farewell included.
LeaveGame(e) ==
    LET step == Broadcast(Step(e), Disconnect(plr_self[e], plr_self[e]))
        wires == [c \in Connections |-> [f \in Ends(c) |->
                     IF f # e /\ e \in Ends(c) /\ fd[e][f] = c /\ (fd[f][e] = c \/ c \in backlog)
                     THEN wire[c][f] \o step.to[f] ELSE wire[c][f]]]
    IN
    /\ e \in Playing /\ echoes + faults < MaxEvents
    /\ Ended(e, [f \in Programs |-> 0], wires)
    /\ UNCHANGED <<plr_self, firstpeer, isConnected, awaiting, turnVars, echoes, crossed, taken>>

\* A program crashes, or does not get an answer to its request in time.
Crash(e) ==
    /\ e \in Playing \/ firstpeer[e] # NoEndpoint
    /\ e \notin gone /\ echoes + faults < MaxEvents
    /\ \E lost \in [Programs -> 0 .. 2] :
           /\ \A f \in Programs : lost[f] <=
                  IF fd[e][f] # NoConnection THEN Len(wire[fd[e][f]][f]) ELSE 0
           /\ Ended(e, lost, wire)
    /\ UNCHANGED <<plr_self, firstpeer, isConnected, awaiting, turnVars, echoes, crossed, taken>>

-----------------------------------------------------------------------------

Receive(e, f) ==
    \/ HandleJoinRequest(e, f)
    \/ ReceiveConnect(e, f)
    \/ ReceiveAccept(e, f)
    \/ ReceiveTurn(e, f)
    \/ \E type \in EchoTypes : ReceiveEcho(e, f, type)
    \/ ReceiveDisconnect(e, f)
    \/ Ignore(e, f)

\* recv does all of this until nothing is left to do.
Poll(e) ==
    \E f \in Programs \ {e} :
        \/ Open(e, f)
        \/ Accept(e, f)
        \/ Disconnected(e, f)
        \/ Receive(e, f)

Next ==
    \/ \E e \in Programs :
           \/ SendTurn(e)
           \/ SendEchoRequests(e)
           \/ LeaveGame(e)
           \/ Crash(e)
           \/ \E player \in Slots : DropPlayer(e, player)
           \/ \E f \in Programs \ {e} : AskToJoin(e, f)
           \/ Poll(e)

Spec == Init /\ [][Next]_vars

-----------------------------------------------------------------------------
(* Properties.                                                             *)

Knows(e, f) == f \in Playing /\ peers[e][plr_self[f]].endpoint = <<f>>

\* The turns of e on their way to f, oldest first.
TurnsUnderway(e, f) ==
    LET all == (IF fd[e][f] = NoConnection THEN <<>> ELSE wire[fd[e][f]][f])
                   \o send_queue[e][f] \o peers[e][plr_self[f]].sendQueue
        turns == Among(all, {packet \in Packets : packet.type = "PT_TURN"})
    IN  [i \in 1 .. Len(turns) |-> turns[i].turn]

\* Two players that know each other lose none of their turns, not even if the
\* first ones are sent before the other can be reached, or before it knows who it is
\* (sendQueue, DrainSendQueue).
NothingLost ==
    \A e, f \in Playing :
        (/\ e # f /\ Knows(e, f) /\ Knows(f, e) /\ ~awaiting[e]
         /\ <<e, f>> \notin crossed /\ plr_self[f] \notin taken[e])
            => LET turns == TurnsUnderway(e, f) IN
               /\ \A i \in 1 .. Len(turns) : turns[i] = sent[e] - Len(turns) + i
               /\ got[f][e] \in {0, sent[e] - Len(turns)}
               /\ turns = <<>> => got[f][e] = sent[e]

\* InitiateHandshake: "only the player with the smaller player number should initiate the
\* handshake".
OneInitiator == \A e, f \in Programs : ~(fd[e][f] = <<e, f>> /\ fd[f][e] = <<f, e>>)

\* Nothing is on its way between two programs.
Quiet == send_queue = [e \in Programs |-> [f \in Programs |-> <<>>]]
            /\ backlog = {}
            /\ \A c \in Connections : \A e \in Ends(c) : wire[c][e] = <<>>

\* Whatever meets first, the handshake comes to an end: once all packets are handled, each
\* two players have different numbers, know each other by them, hold nothing back, and have
\* got each other's turns, unless a program was lost or two opened connections at once
\* (InitiateHandshake).
MeshComplete ==
    Quiet /\ faults = 0 /\ crossed = {} =>
        \A e, f \in Playing : e # f =>
            /\ plr_self[e] # plr_self[f]
            /\ Knows(e, f) /\ ~peers[e][plr_self[f]].queued
            /\ ~awaiting[e] /\ got[f][e] = sent[e]
=============================================================================
