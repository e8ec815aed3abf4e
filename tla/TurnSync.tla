------------------------------- MODULE TurnSync -------------------------------
(***************************************************************************)
(* The turn protocol of a multiplayer game over the client-server (TCP)    *)
(* provider: dvlnet/base.cpp in every peer, dvlnet/tcp_server.cpp in the   *)
(* peer of the host, and the parts of nthread.cpp and multi.cpp that drive *)
(* them.                                                                   *)
(*                                                                         *)
(* A peer may not run ahead of the others: it keeps K turns in transit and *)
(* consumes turn t only when a turn of every connected player has arrived. *)
(* Turns carry 8-bit sequence numbers.  A peer that joins late takes over  *)
(* the sequence number of the first turn it receives.                      *)
(*                                                                         *)
(* Abstractions.  Sequence numbers are natural numbers of which the code   *)
(* sees the residue modulo SeqMod only.  Of a turn's value only its upper  *)
(* bit, the request for the game state, is kept.  A client's socket is a   *)
(* pair of FIFO channels to the server; the server handles one packet at a *)
(* time.  Slots are not reused here: module TcpServer is about that.       *)
(***************************************************************************)
EXTENDS Integers, Sequences, FiniteSets

CONSTANTS
    N,          \* number of player slots in use, at most MAX_PLRS
    K,          \* gdwTurnsInTransit
    InstantLoopback, \* the host and its server exchange packets without delay
    SeqMod,     \* 2^8: seq_t is uint8_t
    Members,    \* bound: the players in the game at first, the host among them
    FirstTurn,  \* bound: the turn that they have reached
    MaxTurn,    \* bound: no peer consumes this turn
    MaxFaults   \* bound on leaves, crashes and timeouts of reachable peers

ASSUME ParametersAssumption ==
    /\ N \in 1 .. 4                \* MAX_PLRS
    /\ K \in Nat \ {0}
    /\ InstantLoopback \in BOOLEAN
    /\ SeqMod \in Nat /\ K <= SeqMod \div 2
    /\ \E n \in 1 .. N : Members = 0 .. n - 1
    /\ FirstTurn \in Nat
    /\ FirstTurn = 0 => Members = {0}
    /\ MaxTurn \in Nat
    /\ MaxFaults \in Nat

Slots == 0 .. N - 1
Host == 0                       \* the creator of the game runs the server
PLR_MASTER == 254
PLR_BROADCAST == 255
Nobody == 4                     \* MAX_PLRS as a value of gbDeltaSender

VARIABLES
    phase,          \* of the program in a slot: "free", "joining", "in", "out"
    listening,      \* the client's receive loop is running
    isConnected,    \* p's playerStateTable_[q].isConnected, as a set of q
    turnQueue,      \* p's playerStateTable_[q].turnQueue
    current_turn,
    next_turn,
    awaiting,       \* awaitingSequenceNumber_
    turn_upper_bit,
    resync,         \* the peers in msg_wait_resync: they await the game state
    sendDelta,      \* sgbSendDeltaTbl, as a set of players
    gbDeltaSender,
    connections,    \* the server's connections, as a set of slots
    up,             \* packets from the client in a slot to the server
    down,           \* packets from the server to the client in a slot
    cancelled,      \* handlers of a closed connection that still run, cancelled
    started,        \* ghost: the players p has consumed a turn of
    faults          \* number of faults so far

turnVars == <<turnQueue, current_turn, next_turn, awaiting, turn_upper_bit, started>>
deltaVars == <<resync, sendDelta, gbDeltaSender>>
peerVars == <<phase, listening, isConnected>>
serverVars == <<connections, cancelled>>
netVars == <<serverVars, up, down>>
vars == <<peerVars, turnVars, deltaVars, netVars, faults>>

-----------------------------------------------------------------------------
(* Turns and packets.                                                      *)

Turns == [n : Nat, bit : BOOLEAN]

TurnPacket(src, dst, turn) ==
    [type |-> "PT_TURN", src |-> src, dst |-> dst, turn |-> turn]
ConnectPacket(player) ==
    [type |-> "PT_CONNECT", src |-> PLR_MASTER, dst |-> PLR_BROADCAST, player |-> player]
AcceptPacket(player) ==
    [type |-> "PT_JOIN_ACCEPT", src |-> PLR_MASTER, dst |-> PLR_BROADCAST, player |-> player]
DisconnectPacket(src, player) ==
    [type |-> "PT_DISCONNECT", src |-> src, dst |-> PLR_BROADCAST, player |-> player]
\* All the messages of DeltaExportData, as one.
DeltaPacket(src, dst) ==
    [type |-> "PT_MESSAGE", src |-> src, dst |-> dst, player |-> src]
\* The other side has closed the socket.
Eof == [type |-> "EOF", src |-> PLR_MASTER, dst |-> PLR_BROADCAST, player |-> PLR_MASTER]

Packets ==
    [type : {"PT_TURN"}, src : Slots, dst : Slots \cup {PLR_BROADCAST}, turn : Turns]
      \cup
    [type : {"PT_CONNECT", "PT_JOIN_ACCEPT"},
     src : {PLR_MASTER}, dst : {PLR_BROADCAST}, player : Slots]
      \cup
    [type : {"PT_DISCONNECT"},
     src : Slots \cup {PLR_MASTER}, dst : {PLR_BROADCAST}, player : Slots]
      \cup
    [type : {"PT_MESSAGE"}, src : Slots, dst : Slots, player : Slots]
      \cup
    {Eof}

\* What the code sees of a sequence number.
Residue(n) == n % SeqMod

\* Mutant of IsStale: off by one, the turn that is earliest is taken for a stale one.
IsStaleEarliest(turn, current) == Residue(turn.n - current) >= (SeqMod \div 2) - 1

\* Its test for a turn that comes too late:
\* uint8_t diff = turn.SequenceNumber - current_turn; diff > 0x7F.
IsStale(turn, current) == Residue(turn.n - current) > (SeqMod \div 2) - 1

\* A queue without the stale turns at its front.
DropStale(queue, current) ==
    LET stale == {i \in 1 .. Len(queue) : \A j \in 1 .. i : IsStale(queue[j], current)}
    IN  SubSeq(queue, Cardinality(stale) + 1, Len(queue))

\* The own turns in transit get the sequence numbers from n on.
Renumbered(queue, n) ==
    [i \in 1 .. Len(queue) |-> [queue[i] EXCEPT !.n = n + i - 1]]

ToPackets(src, dst, turns) ==
    [i \in 1 .. Len(turns) |-> TurnPacket(src, dst, turns[i])]

Own(p) == turnQueue[p][p]

-----------------------------------------------------------------------------

TypeOK ==
    /\ phase \in [Slots -> {"free", "joining", "in", "out"}]
    /\ listening \in [Slots -> BOOLEAN]
    /\ isConnected \in [Slots -> SUBSET Slots]
    /\ turnQueue \in [Slots -> [Slots -> Seq(Turns)]]
    /\ current_turn \in [Slots -> Nat]
    /\ next_turn \in [Slots -> Nat]
    /\ awaiting \in [Slots -> BOOLEAN]
    /\ turn_upper_bit \in [Slots -> BOOLEAN]
    /\ resync \in SUBSET Slots
    /\ sendDelta \in [Slots -> SUBSET Slots]
    /\ gbDeltaSender \in [Slots -> Slots \cup {Nobody}]
    /\ connections \in SUBSET Slots
    /\ up \in [Slots -> Seq(Packets)]
    /\ down \in [Slots -> Seq(Packets)]
    /\ cancelled \in [Slots -> Nat]
    /\ started \in [Slots -> SUBSET Slots]
    /\ faults \in Nat

NoTurns == [q \in Slots |-> <<>>]

\* The turns of a player when it has consumed one and not sent the next.
FirstTurnsOf(q) ==
    IF q \notin Members \/ FirstTurn = 0 THEN <<>>
    ELSE [i \in 1 .. K - 1 |-> [n |-> FirstTurn + i - 1, bit |-> FALSE]]

\* The members have played up to FirstTurn and nothing is on its way.  If that
\* is turn 0, the host has just created its game.
Init ==
    /\ phase = [p \in Slots |-> IF p \in Members THEN "in" ELSE "free"]
    /\ listening = [p \in Slots |-> p \in Members]
    /\ isConnected = [p \in Slots |-> IF p \in Members THEN Members ELSE {}]
    /\ turnQueue = [p \in Slots |-> IF p \in Members
                                    THEN [q \in Slots |-> FirstTurnsOf(q)] ELSE NoTurns]
    /\ current_turn = [p \in Slots |-> IF p \in Members THEN FirstTurn ELSE 0]
    /\ next_turn = [p \in Slots |-> IF p \in Members
                                    THEN FirstTurn + Len(FirstTurnsOf(p)) ELSE 0]
    /\ awaiting = [p \in Slots |-> p \notin Members \/ FirstTurn = 0]
    /\ turn_upper_bit = [p \in Slots |-> FALSE]
    /\ resync = {}
    /\ sendDelta = [p \in Slots |-> {}]
    /\ gbDeltaSender = [p \in Slots |-> p]
    /\ connections = Members
    /\ up = [p \in Slots |-> <<>>]
    /\ down = [p \in Slots |-> <<>>]
    /\ cancelled = [p \in Slots |-> 0]
    /\ started = [p \in Slots |-> IF p \in Members /\ FirstTurn > 0 THEN Members ELSE {}]
    /\ faults = 0

-----------------------------------------------------------------------------
(* The server.                                                             *)

\* The host's program and its server run in one poll loop and exchange packets
\* through the loopback interface.  If that is instant, a packet for the host is
\* handled before the server handles the next one, an answer of the host comes
\* before the answers of other players, and a poll ends when all is handled.
HostHasRead == InstantLoopback /\ listening[Host] => down[Host] = <<>>
HostHasAnswered == InstantLoopback => up[Host] = <<>>
Polled(p) == p = Host => HostHasRead /\ HostHasAnswered

\* Every registered client but "source" gets the packet.
Broadcast(channels, packet, source) ==
    [q \in Slots |-> IF q \in connections /\ q # source
                     THEN Append(channels[q], packet) ELSE channels[q]]

\* The loops over the players run upwards.
Ascending(players) ==
    {s \in [1 .. Cardinality(players) -> players] :
        \A i, j \in 1 .. Cardinality(players) : i < j => s[i] < s[j]}

ConnectPackets(players) == [i \in 1 .. Len(players) |-> ConnectPacket(players[i])]

\* tcp_client::join and tcp_server::HandleReceiveNewPlayer: a new client gets
\* the first free slot; the others hear of it and it hears of them.
Join(j) ==
    /\ phase[Host] = "in"
    /\ phase[j] = "free"
    /\ HostHasRead
    /\ \A q \in Slots : q < j => phase[q] # "free"
    /\ phase' = [phase EXCEPT ![j] = "joining"]
    /\ listening' = [listening EXCEPT ![j] = TRUE]
    /\ turn_upper_bit' = [turn_upper_bit EXCEPT ![j] = TRUE]
    /\ connections' = connections \cup {j}
    /\ \E players \in Ascending(connections) :
          down' = [Broadcast(down, ConnectPacket(j), j) EXCEPT
                      ![j] = Append(ConnectPackets(players), AcceptPacket(j))]
    /\ UNCHANGED <<isConnected, turnQueue, current_turn, next_turn, awaiting, started,
                   deltaVars, cancelled, up, faults>>

\* tcp_server::HandleReceivePacket: relay one packet of client p.
Relay(p) ==
    /\ p \in connections
    /\ up[p] # <<>>
    /\ Head(up[p]).type # "EOF"
    /\ p # Host => HostHasRead
    /\ p # Host /\ Head(up[p]).dst # PLR_BROADCAST => HostHasAnswered
    /\ LET packet == Head(up[p])
       IN  down' = IF packet.dst = PLR_BROADCAST
                   THEN Broadcast(down, packet, packet.src)
                   ELSE IF packet.dst \in connections /\ packet.dst # packet.src
                   THEN [down EXCEPT ![packet.dst] = Append(@, packet)]
                   ELSE down
    /\ up' = [up EXCEPT ![p] = Tail(@)]
    /\ UNCHANGED <<peerVars, turnVars, deltaVars, serverVars, faults>>

\* tcp_server::DropConnection closes client p's socket and tells the others.  Of
\* the two handlers of a connection, for its socket and for its timer, those
\* that are waiting are cancelled and run once more, with an error.
DropConnection(p, waiting) ==
    /\ connections' = connections \ {p}
    /\ cancelled' = [cancelled EXCEPT ![p] = waiting]
    /\ down' = [q \in Slots |->
                   IF q \in connections \ {p}
                   THEN Append(down[q], DisconnectPacket(PLR_MASTER, p))
                   ELSE IF q = p /\ p \in connections THEN Append(down[q], Eof)
                   ELSE down[q]]
    /\ up' = [up EXCEPT ![p] = <<>>]

\* HandleReceive finds that client p has closed its socket.
ServerSeesEof(p) ==
    /\ p \in connections
    /\ up[p] # <<>>
    /\ Head(up[p]).type = "EOF"
    /\ HostHasRead
    /\ DropConnection(p, 1)
    /\ UNCHANGED <<peerVars, turnVars, deltaVars, faults>>

\* HandleTimeout: nothing of client p arrived for timeout_active seconds.
ServerTimeout(p) ==
    /\ p \in connections \ {Host}
    /\ phase[p] # "out"
    /\ up[p] = <<>>
    /\ HostHasRead
    /\ faults < MaxFaults
    /\ faults' = faults + 1
    /\ DropConnection(p, 1)
    /\ UNCHANGED <<peerVars, turnVars, deltaVars>>

\* Mutant of CancelledHandler: it runs though nothing was cancelled.
CancelledHandlerAnyTime(p) ==
    /\ DropConnection(p, cancelled[p] - 1)
    /\ UNCHANGED <<peerVars, turnVars, deltaVars, faults>>

\* HandleReceive and HandleTimeout treat their cancellation as a failure of the
\* connection.
CancelledHandler(p) ==
    /\ cancelled[p] > 0
    /\ DropConnection(p, cancelled[p] - 1)
    /\ UNCHANGED <<peerVars, turnVars, deltaVars, faults>>

-----------------------------------------------------------------------------
(* A client handles the next packet of its socket: base::RecvLocal.        *)

HasPacket(p, type) ==
    /\ phase[p] \in {"joining", "in"}
    /\ listening[p]
    /\ down[p] # <<>>
    /\ Head(down[p]).type = type

\* async_write: what a client sends is lost once the server closed its socket.
Sent(p, packets) ==
    IF p \in connections THEN [up EXCEPT ![p] = @ \o packets] ELSE up

Received(p) == down' = [down EXCEPT ![p] = Tail(@)]

\* Connect(player) marks it connected; a player that was not gets the own
\* turns in transit (SendFirstTurnIfReady) unless they have no number yet.
FirstTurns(p, player) ==
    IF player \in isConnected[p] \/ awaiting[p]
    THEN <<>> ELSE ToPackets(p, player, Own(p))

ReceiveConnect(p) ==
    /\ HasPacket(p, "PT_CONNECT")
    /\ LET player == Head(down[p]).player
       IN  /\ isConnected' = [isConnected EXCEPT ![p] = @ \cup {player}]
           /\ up' = Sent(p, FirstTurns(p, player))
    /\ Received(p)
    /\ UNCHANGED <<phase, listening, turnVars, deltaVars, serverVars, faults>>

\* HandleAccept: the client knows its slot and enters the game.  The event
\* handler has nthread_start set the upper bit of its first turn.
ReceiveAccept(p) ==
    /\ HasPacket(p, "PT_JOIN_ACCEPT")
    /\ phase' = [phase EXCEPT ![p] = "in"]
    /\ isConnected' = [isConnected EXCEPT ![p] = @ \cup {p}]
    /\ resync' = resync \cup {p}
    /\ Received(p)
    /\ UNCHANGED <<listening, turnVars, sendDelta, gbDeltaSender, serverVars, up, faults>>

\* Mutant of MakeReady: the sequence number before the one received is adopted.
MakeReadyOneEarlier(p, queues, n) ==
    LET own == Renumbered(Own(p), n - 1)
    IN  /\ turnQueue' = [turnQueue EXCEPT ![p] = [queues EXCEPT ![p] = own]]
        /\ current_turn' = [current_turn EXCEPT ![p] = n - 1]
        /\ next_turn' = [next_turn EXCEPT ![p] = n - 1 + Len(own)]
        /\ awaiting' = [awaiting EXCEPT ![p] = FALSE]
        /\ up' = Sent(p, ToPackets(p, PLR_BROADCAST, own))

\* Mutant of MakeReady: only the turns are renumbered, not next_turn.
MakeReadyKeepsNext(p, queues, n) ==
    LET own == Renumbered(Own(p), n)
    IN  /\ turnQueue' = [turnQueue EXCEPT ![p] = [queues EXCEPT ![p] = own]]
        /\ current_turn' = [current_turn EXCEPT ![p] = n]
        /\ awaiting' = [awaiting EXCEPT ![p] = FALSE]
        /\ up' = Sent(p, ToPackets(p, PLR_BROADCAST, own))
        /\ UNCHANGED next_turn

\* MakeReady: p takes over sequence number n and sends its own turns under it.
MakeReady(p, queues, n) ==
    LET own == Renumbered(Own(p), n)
    IN  /\ turnQueue' = [turnQueue EXCEPT ![p] = [queues EXCEPT ![p] = own]]
        /\ current_turn' = [current_turn EXCEPT ![p] = n]
        /\ next_turn' = [next_turn EXCEPT ![p] = n + Len(own)]
        /\ awaiting' = [awaiting EXCEPT ![p] = FALSE]
        /\ up' = Sent(p, ToPackets(p, PLR_BROADCAST, own))

\* HandleTurn queues the turn, whose number is adopted if one is awaited.
ReceiveTurn(p) ==
    /\ HasPacket(p, "PT_TURN")
    /\ LET src == Head(down[p]).src
           turn == Head(down[p]).turn
           queues == [turnQueue[p] EXCEPT ![src] = Append(@, turn)]
       IN  /\ isConnected' = [isConnected EXCEPT ![p] = @ \cup {src}]
           /\ IF awaiting[p]
              THEN MakeReady(p, queues, turn.n)
              ELSE /\ turnQueue' = [turnQueue EXCEPT ![p] = queues]
                   /\ up' = Sent(p, FirstTurns(p, src))
                   /\ UNCHANGED <<current_turn, next_turn, awaiting>>
    /\ Received(p)
    /\ UNCHANGED <<phase, listening, turn_upper_bit, started, deltaVars,
                   serverVars, faults>>

\* The LEAVE_GAME event: the delta of the player is not sent, or not awaited.
\* WaitForTurns answers the latter by asking again.
LeaveEvent(p, players) ==
    /\ sendDelta' = [sendDelta EXCEPT ![p] = @ \ players]
    /\ gbDeltaSender' = [gbDeltaSender EXCEPT ![p] = IF @ \in players THEN Nobody ELSE @]
    /\ UNCHANGED resync

\* DisconnectNet: the program of the host, p if any, closes the sockets of the
\* players; both their handlers are cancelled.
ClosedBy(p, players) == IF p = Host THEN players \cap connections ELSE {}

DisconnectNet(closed, ups, downs) ==
    /\ connections' = connections \ closed
    /\ cancelled' = [r \in Slots |-> IF r \in closed THEN 2 ELSE cancelled[r]]
    /\ up' = [r \in Slots |-> IF r \in closed THEN <<>> ELSE ups[r]]
    /\ down' = [r \in Slots |-> IF r \in closed THEN Append(downs[r], Eof) ELSE downs[r]]

\* HandleDisconnect: a player that was connected is forgotten.
Forget(p, known, player) ==
    IF player \in known
    THEN /\ isConnected' = [isConnected EXCEPT ![p] = known \ {player}]
         /\ turnQueue' = [turnQueue EXCEPT ![p][player] = <<>>]
         /\ started' = [started EXCEPT ![p] = @ \ {player}]
         /\ LeaveEvent(p, {player})
    ELSE /\ isConnected' = [isConnected EXCEPT ![p] = known]
         /\ UNCHANGED <<turnQueue, started, deltaVars>>

\* A PT_DISCONNECT; its source, if it is a player, is connected first.  A client
\* that is told of its own disconnection reports an error and stops receiving.
ReceiveDisconnect(p) ==
    /\ HasPacket(p, "PT_DISCONNECT")
    /\ LET src == Head(down[p]).src
           player == Head(down[p]).player
           known == isConnected[p] \cup ({src} \ {PLR_MASTER})
           closed == IF player \in known \ {p} THEN ClosedBy(p, {player}) ELSE {}
           answers == IF src = PLR_MASTER THEN <<>> ELSE FirstTurns(p, src)
       IN  /\ DisconnectNet(closed, Sent(p, answers), [down EXCEPT ![p] = Tail(@)])
           /\ IF player = p
              THEN /\ listening' = [listening EXCEPT ![p] = FALSE]
                   /\ isConnected' = [isConnected EXCEPT ![p] = known]
                   /\ UNCHANGED <<turnQueue, started, deltaVars>>
              ELSE Forget(p, known, player) /\ UNCHANGED listening
    /\ UNCHANGED <<phase, current_turn, next_turn, awaiting, turn_upper_bit, faults>>

\* The game state arrives, from whichever player: OnLevelData and the end of
\* msg_wait_resync.
ReceiveDelta(p) ==
    /\ HasPacket(p, "PT_MESSAGE")
    /\ LET src == Head(down[p]).src
       IN  /\ isConnected' = [isConnected EXCEPT ![p] = @ \cup {src}]
           /\ up' = Sent(p, FirstTurns(p, src))
           /\ gbDeltaSender' = [gbDeltaSender EXCEPT ![p] = src]
    /\ resync' = resync \ {p}
    /\ Received(p)
    /\ UNCHANGED <<phase, listening, turnVars, sendDelta, serverVars, faults>>

\* tcp_client::HandleReceive with an error: no further receive is started.
ReceiveEof(p) ==
    /\ HasPacket(p, "EOF")
    /\ listening' = [listening EXCEPT ![p] = FALSE]
    /\ Received(p)
    /\ UNCHANGED <<phase, isConnected, turnVars, deltaVars,
                   serverVars, up, faults>>

-----------------------------------------------------------------------------
(* A peer exchanges turns.                                                 *)

\* nthread_send_and_recv_turn with base::SNetSendTurn: fill the window of K
\* turns.  The host need not wait for anybody's sequence number.
SendTurns(p) ==
    /\ phase[p] = "in"
    /\ p = Host => HostHasRead
    /\ Len(Own(p)) < K
    /\ LET new == [i \in 1 .. K - Len(Own(p)) |->
                      [n |-> next_turn[p] + i - 1, bit |-> turn_upper_bit[p] /\ i = 1]]
           ready == ~ awaiting[p] \/ p = Host
       IN  /\ turnQueue' = [turnQueue EXCEPT ![p][p] = @ \o new]
           /\ next_turn' = [next_turn EXCEPT ![p] = @ + Len(new)]
           /\ awaiting' = [awaiting EXCEPT ![p] = ~ ready]
           /\ up' = IF ready THEN Sent(p, ToPackets(p, PLR_BROADCAST, new)) ELSE up
    /\ turn_upper_bit' = [turn_upper_bit EXCEPT ![p] = FALSE]
    /\ UNCHANGED <<peerVars, current_turn, started, deltaVars, serverVars, down, faults>>

\* Mutant of Fresh: stale turns stay in the queues.
FreshKeepsStale(p) == turnQueue[p]

\* The queues after the stale turns are dropped from their fronts.
Fresh(p) ==
    [q \in Slots |-> IF q \in isConnected[p]
                     THEN DropStale(turnQueue[p][q], current_turn[p])
                     ELSE turnQueue[p][q]]

\* Mutant of AllTurnsArrived: a player whose turns have not begun is not awaited.
AllStartedTurnsArrived(p) == \A q \in isConnected[p] \cap started[p] : Fresh(p)[q] # <<>>

AllTurnsArrived(p) == \A q \in isConnected[p] : Fresh(p)[q] # <<>>

\* The players whose turn is consumed: it is the current one.
Arrived(p) ==
    {q \in isConnected[p] :
        Fresh(p)[q] # <<>> /\ Residue(Head(Fresh(p)[q]).n) = Residue(current_turn[p])}

\* HandleTurnUpperBit: the lowest connected player other than the one that asks
\* for the game state is to send it.
DeltaSource(p, asking) ==
    LET others == isConnected[p] \ {asking}
    IN  IF others = {} THEN Nobody
        ELSE CHOOSE q \in others : \A r \in others : q <= r

\* nthread_recv_turns with base::SNetReceiveTurns, when it succeeds.
ReceiveTurns(p) ==
    /\ phase[p] = "in"
    /\ Polled(p)
    /\ Len(Own(p)) >= K
    /\ AllTurnsArrived(p)
    /\ current_turn[p] < MaxTurn
    /\ turnQueue' = [turnQueue EXCEPT ![p] =
                        [q \in Slots |-> IF q \in Arrived(p)
                                         THEN Tail(Fresh(p)[q]) ELSE Fresh(p)[q]]]
    /\ current_turn' = [current_turn EXCEPT ![p] = @ + 1]
    /\ started' = [started EXCEPT ![p] = @ \cup Arrived(p)]
    /\ LET asking == {q \in Arrived(p) : Head(Fresh(p)[q]).bit}
       IN  /\ sendDelta' = [sendDelta EXCEPT ![p] =
                               @ \cup {q \in asking : DeltaSource(p, q) = p}]
           /\ gbDeltaSender' = [gbDeltaSender EXCEPT ![p] =
                                   IF p \in asking THEN DeltaSource(p, p) ELSE @]
    /\ UNCHANGED <<phase, listening, isConnected, next_turn, awaiting,
                   turn_upper_bit, resync, netVars, faults>>

\* The same when it fails: only the stale turns are dropped.
WaitForTurns(p) ==
    /\ phase[p] = "in"
    /\ Polled(p)
    /\ Len(Own(p)) >= K
    /\ ~ AllTurnsArrived(p)
    /\ turnQueue' = [turnQueue EXCEPT ![p] = Fresh(p)]
    /\ UNCHANGED <<peerVars, current_turn, next_turn, awaiting, turn_upper_bit, started,
                   deltaVars, netVars, faults>>

\* msg.cpp's WaitForTurns: the player that was to send the game state has left,
\* so the next turn asks again.
AskAgain(p) ==
    /\ p \in resync
    /\ gbDeltaSender[p] = Nobody
    /\ gbDeltaSender' = [gbDeltaSender EXCEPT ![p] = p]
    /\ turn_upper_bit' = [turn_upper_bit EXCEPT ![p] = TRUE]
    /\ UNCHANGED <<peerVars, turnQueue, current_turn, next_turn, awaiting, started,
                   resync, sendDelta, netVars, faults>>

\* multi_handle_delta: the game state goes to the players that asked for it.
\* A peer that awaits the game state itself is not in the game loop yet.
SendDelta(p, q) ==
    /\ phase[p] = "in"
    /\ p \notin resync
    /\ q \in sendDelta[p]
    /\ sendDelta' = [sendDelta EXCEPT ![p] = @ \ {q}]
    /\ up' = Sent(p, <<DeltaPacket(p, q)>>)
    /\ UNCHANGED <<peerVars, turnVars, resync, gbDeltaSender, serverVars, down, faults>>

-----------------------------------------------------------------------------
(* Leaving, crashing, dropping.                                            *)

\* The program in slot p is gone; nothing of its state matters any more.
Reset(p) ==
    /\ phase' = [phase EXCEPT ![p] = "out"]
    /\ listening' = [listening EXCEPT ![p] = FALSE]
    /\ isConnected' = [isConnected EXCEPT ![p] = {}]
    /\ resync' = resync \ {p}
    /\ turnQueue' = [turnQueue EXCEPT ![p] = NoTurns]
    /\ started' = [started EXCEPT ![p] = {}]
    /\ sendDelta' = [sendDelta EXCEPT ![p] = {}]
    /\ gbDeltaSender' = [gbDeltaSender EXCEPT ![p] = p]
    /\ UNCHANGED <<current_turn, next_turn, awaiting, turn_upper_bit>>

\* The host's program ends and the server with it.
ServerGone(disconnects) ==
    /\ connections' = {}
    /\ cancelled' = [q \in Slots |-> 0]
    /\ up' = [q \in Slots |-> <<>>]
    /\ down' = [q \in Slots |->
                   IF q \in connections \ {Host} THEN down[q] \o disconnects \o <<Eof>>
                   ELSE IF q = Host THEN <<>> ELSE down[q]]

\* SNetLeaveGame tells the others, if the socket is still open, and closes it.
\* The host's server relays that only if it is polled once more.
Leave(p) ==
    /\ phase[p] = "in"
    /\ faults < MaxFaults
    /\ faults' = faults + 1
    /\ Reset(p)
    /\ \/ /\ p # Host
          /\ up' = IF p \in connections
                   THEN [up EXCEPT ![p] = @ \o <<DisconnectPacket(p, p), Eof>>] ELSE up
          /\ down' = [down EXCEPT ![p] = <<>>]
          /\ UNCHANGED serverVars
       \/ /\ p = Host
          /\ \E disconnects \in {<<>>, <<DisconnectPacket(Host, Host)>>} :
                ServerGone(disconnects)

\* The program or its network fails: some of what it sent is lost.
Crash(p) ==
    /\ phase[p] \in {"joining", "in"}
    /\ faults < MaxFaults
    /\ faults' = faults + 1
    /\ Reset(p)
    /\ \/ /\ p # Host
          /\ \E sent \in 0 .. Len(up[p]) :
                up' = IF p \in connections
                      THEN [up EXCEPT ![p] = SubSeq(@, 1, sent) \o <<Eof>>] ELSE up
          /\ down' = [down EXCEPT ![p] = <<>>]
          /\ UNCHANGED serverVars
       \/ p = Host /\ ServerGone(<<>>)

\* The players whose turns a waiting peer misses.
Missing(p) == {q \in isConnected[p] : Fresh(p)[q] = <<>>}

DisconnectPackets(p, players) ==
    [i \in 1 .. Len(players) |-> DisconnectPacket(p, players[i])]

\* The program in slot q runs and its connection works.
Reachable(q) == phase[q] \in {"joining", "in"} /\ listening[q] /\ q \in connections

\* Mutant of DropPlayers: the packet is sent, but not handled locally.
DropPlayersSendsOnly(p) ==
    /\ phase[p] = "in"
    /\ p \notin resync
    /\ Polled(p)
    /\ Len(Own(p)) >= K
    /\ Missing(p) # {}
    /\ \E q \in Missing(p) : ~ Reachable(q)
    /\ \E players \in Ascending(Missing(p)) :
          DisconnectNet(ClosedBy(p, Missing(p)), Sent(p, DisconnectPackets(p, players)), down)
    /\ UNCHANGED <<peerVars, turnVars, deltaVars, faults>>

\* BeginTimeout and CheckDropPlayer, ten seconds into a timeout of the game loop:
\* SNetDropPlayer of every player whose turns are missing.  The host's server
\* closes their sockets before it relays the disconnects.
DropPlayers(p) ==
    /\ phase[p] = "in"
    /\ p \notin resync
    /\ Polled(p)
    /\ Len(Own(p)) >= K
    /\ Missing(p) # {}
    /\ LET premature == \E q \in Missing(p) : Reachable(p) /\ Reachable(q)
       IN  /\ premature => faults < MaxFaults
           /\ faults' = IF premature THEN faults + 1 ELSE faults
    /\ isConnected' = [isConnected EXCEPT ![p] = @ \ Missing(p)]
    /\ turnQueue' = [turnQueue EXCEPT ![p] = Fresh(p)]
    /\ started' = [started EXCEPT ![p] = @ \ Missing(p)]
    /\ LeaveEvent(p, Missing(p))
    /\ \E players \in Ascending(Missing(p)) :
          DisconnectNet(ClosedBy(p, Missing(p)), Sent(p, DisconnectPackets(p, players)), down)
    /\ UNCHANGED <<phase, listening, current_turn, next_turn, awaiting, turn_upper_bit>>

-----------------------------------------------------------------------------

Deliver(p) ==
    \/ ReceiveConnect(p)
    \/ ReceiveAccept(p)
    \/ ReceiveTurn(p)
    \/ ReceiveDisconnect(p)
    \/ ReceiveDelta(p)
    \/ ReceiveEof(p)

Server(p) == Relay(p) \/ ServerSeesEof(p) \/ CancelledHandler(p)

Exchange(p) ==
    \/ SendTurns(p)
    \/ ReceiveTurns(p)
    \/ WaitForTurns(p)
    \/ AskAgain(p)
    \/ \E q \in Slots : SendDelta(p, q)

Next ==
    \E p \in Slots :
        \/ Join(p)
        \/ Server(p)
        \/ ServerTimeout(p)
        \/ Deliver(p)
        \/ Exchange(p)
        \/ Leave(p)
        \/ Crash(p)
        \/ DropPlayers(p)

Spec == Init /\ [][Next]_vars

\* Each program polls its socket and its server, and plays.
Fairness ==
    \A p \in Slots :
        /\ WF_vars(Server(p))
        /\ WF_vars(Deliver(p))
        /\ WF_vars(SendTurns(p))
        /\ WF_vars(ReceiveTurns(p))
        /\ WF_vars(AskAgain(p))
        /\ WF_vars(\E q \in Slots : SendDelta(p, q))
        /\ WF_vars(DropPlayers(p))

FairSpec == Spec /\ Fairness

-----------------------------------------------------------------------------
(* Properties.                                                             *)

Plays(p) == phase[p] = "in" /\ ~ awaiting[p]

ElementsOf(seq) == {seq[i] : i \in 1 .. Len(seq)}

\* A program's own turns in transit are those from current_turn to next_turn - 1,
\* in order and at most K of them, through renumbering, stale-turn removal and
\* drops: SNetGetTurnsInTransit and SendFirstTurnIfReady rely on it.
OwnWindow ==
    \A p \in Slots :
        phase[p] # "out" =>
            /\ Len(Own(p)) <= K
            /\ next_turn[p] = current_turn[p] + Len(Own(p))
            /\ \A i \in 1 .. Len(Own(p)) : Own(p)[i].n = current_turn[p] + i - 1

\* The turns of q that p has still to handle, and all such turns.
PendingOf(p, q) ==
    ElementsOf(turnQueue[p][q])
      \cup {packet.turn : packet \in
               {pk \in ElementsOf(down[p]) : pk.type = "PT_TURN" /\ pk.src = q}}
Pending(p) == UNION {PendingOf(p, q) : q \in Slots}

\* The 8-bit stale test of SNetReceiveTurns agrees with the true order of these turns.
ToldStale(p, turns) ==
    \A turn \in turns : IsStale(turn, current_turn[p]) <=> turn.n < current_turn[p]

\* Between players that have started with each other 4 * K numbers are enough for the
\* stale test of SNetReceiveTurns, for every turn that is queued or on its way and also
\* where the numbers wrap: renumbering and what is sent twice bring none that is later
\* or earlier.  This is about the run, where SeqMod is 4 * K; with 3 * K it fails.
StaleTold ==
    \A p, q \in Slots :
        Plays(p) /\ q \in started[p] /\ p \in started[q] => ToldStale(p, PendingOf(p, q))

\* The same for all players.  That is no invariant: who does not know yet that it was
\* dropped may have packets of any age before it.
SeqWindow == \A p \in Slots : Plays(p) => ToldStale(p, Pending(p))

\* p consumes a turn: it is in step, and its turn changes.
Consumes(p) == Plays(p) /\ current_turn'[p] # current_turn[p]

\* Once p has consumed a turn of q it consumes all that follow, each once and
\* with its own number, whatever duplicates and stale turns the exchange of first
\* turns between SNetReceiveTurns and SendFirstTurnIfReady produces.
NoGap ==
    [][\A p \in Slots : Consumes(p) =>
           /\ \A q \in Arrived(p) : Head(Fresh(p)[q]).n = current_turn[p]
           /\ started[p] \subseteq Arrived(p)]_vars

LS == INSTANCE Lockstep WITH
          Players <- Slots,
          playing <- {p \in Slots : Plays(p)},
          turn <- current_turn,
          known <- isConnected

\* The packets, queues and sequence numbers of base.cpp implement lockstep: no
\* program is ever more than K turns ahead of one that it is connected to.
ImplementsLockstep == LS!Spec

\* The turn with p's request for the game state, on its way to s and not stale.
RequestTo(p, s) ==
    LET Asks(turn) == turn.bit /\ turn.n >= current_turn[s]
    IN  \/ \E turn \in ElementsOf(turnQueue[s][p]) : Asks(turn)
        \/ \E packet \in ElementsOf(down[s]) \cup ElementsOf(up[p]) :
              packet.type = "PT_TURN" /\ packet.src = p /\ Asks(packet.turn)

DeltaFrom(s, p) ==
    \/ p \in sendDelta[s]
    \/ \E packet \in ElementsOf(down[p]) \cup ElementsOf(up[s]) :
          packet.type = "PT_MESSAGE" /\ packet.src = s /\ packet.dst = p

\* HandleTurnUpperBit: the player that a joiner expects the game state from does
\* get the request, or has it, or has answered it.  A joiner that adopts a number
\* its delta sender has passed would wait forever: it asks only once.
DeltaRequest ==
    \A p, s \in Slots :
        Plays(p) /\ p \in resync /\ gbDeltaSender[p] = s /\ s # p =>
            RequestTo(p, s) \/ DeltaFrom(s, p)

\* Whoever leaves, crashes, is cut off or is dropped, every program that still
\* runs plays on: CheckDropPlayer removes those whose turns it misses.  Only a
\* program that awaits the game state may wait forever, as msg.cpp's WaitForTurns
\* has no timeout.
GameGoesOn ==
    \A p \in Slots :
        phase[p] = "in" ~> current_turn[p] >= MaxTurn \/ phase[p] = "out" \/ p \in resync
=============================================================================
