------------------------------ MODULE TcpServer ------------------------------
(***************************************************************************)
(* The server of a TCP game: dvlnet/tcp_server.cpp.  It gives player slots *)
(* to connections, relays packets and drops connections.                   *)
(*                                                                         *)
(* The server is single-threaded but asynchronous.  Receives and timers    *)
(* are operations of a connection object; when one completes its handler   *)
(* joins a queue, and tcp_client::poll runs the queue.  Closing a          *)
(* connection completes its outstanding operations with an error, but a    *)
(* handler that is in the queue already still runs as if nothing had       *)
(* happened, and a slot may have a new owner by then.                      *)
(*                                                                         *)
(* Abstractions.  The host's own connection is never closed.  What a       *)
(* program is told is kept as the set of players it will know of when it   *)
(* has handled all that was sent to it; only the host's packets wait in a  *)
(* queue, as handling them acts on the server.  Writes complete at once,   *)
(* and the failure of one to a closed connection, which would drop it once *)
(* more, is left out.  A packet that cannot be read counts as the end of   *)
(* its stream.                                                             *)
(***************************************************************************)
EXTENDS Naturals, Sequences, FiniteSets

CONSTANTS
    N,              \* number of player slots, at most MAX_PLRS
    Clients,        \* the connections the server may accept besides the host's
    HostConnection, \* the connection of the host's own program
    NoConnection,   \* nullptr
    TimeoutConnect, \* timeout_connect and timeout_active, in seconds
    TimeoutActive,
    MaxQueue,       \* bound: packets to the host when a client sends another turn
    MaxDrops        \* bound: the host's packets that drop somebody, on their way at once

ASSUME ServerAssumption ==
    /\ N \in 1 .. 4
    /\ HostConnection \notin Clients
    /\ NoConnection \notin Clients \cup {HostConnection}
    /\ TimeoutConnect \in Nat \ {0}
    /\ TimeoutActive \in Nat \ {0}
    /\ MaxQueue \in Nat
    /\ MaxDrops \in Nat

Slots == 0 .. N - 1
PLR_BROADCAST == 255
Connections == Clients \cup {HostConnection}
HostSlot == 0

VARIABLES
    socket,         \* of a connection: "unused", "open", "closed"
    plr,            \* client_connection::plr
    timeout,        \* client_connection::timeout
    connections,    \* the connection in each slot
    receiving,      \* the connections with an outstanding async_receive
    timing,         \* the connections with an outstanding async_wait
    ready,          \* the handlers that poll will run, in order
    program,        \* of a client: "absent", "connected", "joining", "playing", "gone"
    stream,         \* what the client has sent and the server not received
    hostInbox,      \* the server's packets to the host's program
    hostDrops,      \* the host's packets that say that a player was dropped
    view,           \* the players a program knows of, see above
    reused          \* a record for the properties, that no action reads: the slots
                    \* last given when something of a former owner was left

conVars == <<socket, plr, timeout>>
ioVars == <<receiving, timing, ready>>
clientVars == <<program, stream>>
vars == <<conVars, connections, ioVars, clientVars, hostInbox, hostDrops, view, reused>>

Data == {"JOIN_REQUEST", "TURN", "DISCONNECT", "EOF", "ABORTED"}
Handlers == [con : Connections, kind : {"receive"}, data : Data]
              \cup [con : Connections, kind : {"timer"}, data : {"EXPIRED", "ABORTED"}]
Receive(c, data) == [con |-> c, kind |-> "receive", data |-> data]
Timer(c, data) == [con |-> c, kind |-> "timer", data |-> data]

\* A packet to the host: that it should know of a player, or of it no more, from
\* the server or from the player that leaves.
HostPackets == [type : {"KNOWS", "FORGETS", "LEAVES"}, player : Slots]

TypeOK ==
    /\ socket \in [Connections -> {"unused", "open", "closed"}]
    /\ plr \in [Connections -> Slots \cup {PLR_BROADCAST}]
    /\ timeout \in [Connections -> Nat]
    /\ connections \in [Slots -> Connections \cup {NoConnection}]
    /\ receiving \in SUBSET Connections
    /\ timing \in SUBSET Connections
    /\ ready \in Seq(Handlers)
    /\ program \in [Clients -> {"absent", "connected", "joining", "playing", "gone"}]
    /\ stream \in [Clients -> Seq(Data \ {"ABORTED"})]
    /\ hostInbox \in Seq(HostPackets)
    /\ hostDrops \in Seq(Slots)
    /\ view \in [Connections -> SUBSET Slots]
    /\ reused \in SUBSET Slots

\* The host has created its game and joined it.
Init ==
    /\ socket = [c \in Connections |-> IF c = HostConnection THEN "open" ELSE "unused"]
    /\ plr = [c \in Connections |-> IF c = HostConnection THEN HostSlot ELSE PLR_BROADCAST]
    /\ timeout = [c \in Connections |-> TimeoutActive]
    /\ connections = [s \in Slots |-> IF s = HostSlot THEN HostConnection ELSE NoConnection]
    /\ receiving = {}
    /\ timing = {}
    /\ ready = <<>>
    /\ program = [c \in Clients |-> "absent"]
    /\ stream = [c \in Clients |-> <<>>]
    /\ hostInbox = <<>>
    /\ hostDrops = <<>>
    /\ view = [c \in Connections |-> IF c = HostConnection THEN {HostSlot} ELSE {}]
    /\ reused = {}

-----------------------------------------------------------------------------
(* Parts of the handlers.                                                  *)

Taken == {s \in Slots : connections[s] # NoConnection}

\* NextFree: the lowest free slot.
IsNextFree(s) == s \in Slots \ Taken /\ \A t \in Slots \ Taken : s <= t

\* SendPacket to all registered programs but the one in slot "source": they
\* learn of the player, or forget it.
Broadcast(slots, source, type, player) ==
    LET told == {connections[s] : s \in slots \ {source}}
    IN  /\ view' = [c \in Connections |->
                       IF c \notin told \ {HostConnection} THEN view[c]
                       ELSE IF type = "KNOWS" THEN view[c] \cup {player}
                       ELSE view[c] \ {player}]
        /\ hostInbox' = IF HostConnection \in told
                        THEN Append(hostInbox, [type |-> type, player |-> player])
                        ELSE hostInbox

\* timer.cancel() and socket.close(): the outstanding operations of the
\* connection complete with an error, after "rest", the handlers in the queue.
Close(c, rest) ==
    /\ socket' = [socket EXCEPT ![c] = "closed"]
    /\ receiving' = receiving \ {c}
    /\ timing' = timing \ {c}
    /\ ready' = rest \o (IF c \in timing THEN <<Timer(c, "ABORTED")>> ELSE <<>>)
                     \o (IF c \in receiving THEN <<Receive(c, "ABORTED")>> ELSE <<>>)

\* Mutant of DropConnection: the socket stays open.
DropConnectionKeepsSocket(c, rest) ==
    /\ ready' = rest
    /\ UNCHANGED <<socket, receiving, timing>>
    /\ IF plr[c] = PLR_BROADCAST
       THEN UNCHANGED <<connections, view, hostInbox>>
       ELSE /\ connections' = [connections EXCEPT ![plr[c]] = NoConnection]
            /\ Broadcast(Taken \ {plr[c]}, PLR_BROADCAST, "FORGETS", plr[c])

\* Mutant of DropConnection: nobody is told.
DropConnectionSilently(c, rest) ==
    /\ Close(c, rest)
    /\ connections' = IF plr[c] = PLR_BROADCAST THEN connections
                      ELSE [connections EXCEPT ![plr[c]] = NoConnection]
    /\ UNCHANGED <<view, hostInbox>>

\* Mutant of DropConnection: the slot is not given back.
DropConnectionKeepsSlot(c, rest) ==
    /\ Close(c, rest)
    /\ UNCHANGED connections
    /\ IF plr[c] = PLR_BROADCAST
       THEN UNCHANGED <<view, hostInbox>>
       ELSE Broadcast(Taken \ {plr[c]}, PLR_BROADCAST, "FORGETS", plr[c])

\* DropConnection.
DropConnection(c, rest) ==
    /\ Close(c, rest)
    /\ IF plr[c] = PLR_BROADCAST
       THEN UNCHANGED <<connections, view, hostInbox>>
       ELSE /\ connections' = [connections EXCEPT ![plr[c]] = NoConnection]
            /\ Broadcast(Taken \ {plr[c]}, PLR_BROADCAST, "FORGETS", plr[c])

\* StartReceive: on a closed socket the operation fails at once.
StartReceive(c, rest) ==
    IF socket[c] = "open"
    THEN receiving' = receiving \cup {c} /\ ready' = rest
    ELSE ready' = Append(rest, Receive(c, "ABORTED")) /\ UNCHANGED receiving

-----------------------------------------------------------------------------
(* The handlers.                                                           *)

\* Something of the connection may still act on the server.
Alive(c) ==
    \/ socket[c] = "open"
    \/ c \in receiving \cup timing
    \/ \E i \in 1 .. Len(ready) : ready[i].con = c

\* Something is left of a former owner of the slot: a connection that is not done
\* with, or the host's packet that the server has yet to relay.
FormerOwner(s) ==
    \/ \E c \in Connections : plr[c] = s /\ Alive(c)
    \/ \E i \in 1 .. Len(hostDrops) : hostDrops[i] = s

\* HandleReceiveNewPlayer, for a join request, when no slot is free.
RefusePlayer(c, rest) ==
    /\ Taken = Slots
    /\ DropConnection(c, rest)
    /\ UNCHANGED <<plr, timeout, program, reused>>

\* Mutant of NewPlayer: what NextFree returns is not tested.
NewPlayerUnchecked(c, rest) ==
    \E s \in Slots \cup {PLR_BROADCAST} :
        /\ s = PLR_BROADCAST \/ IsNextFree(s)
        /\ plr' = [plr EXCEPT ![c] = s]
        /\ connections' = [connections EXCEPT ![s] = c]
        /\ view' = [view EXCEPT ![c] = Taken \cup {s}]
        /\ StartReceive(c, rest)
        /\ UNCHANGED <<socket, timeout, timing, program, hostInbox, reused>>

\* HandleReceiveNewPlayer: the connection gets the lowest free slot; everybody
\* hears of the new player, and it of everybody.
NewPlayer(c, rest) ==
    \E s \in Slots :
        /\ IsNextFree(s)
        /\ plr' = [plr EXCEPT ![c] = s]
        /\ connections' = [connections EXCEPT ![s] = c]
        /\ timeout' = [timeout EXCEPT ![c] = TimeoutActive]
        /\ program' = IF program[c] = "joining"
                      THEN [program EXCEPT ![c] = "playing"] ELSE program
        /\ view' = [d \in Connections |->
                       IF d = c THEN Taken \cup {s}
                       ELSE IF \E t \in Taken : d = connections[t] /\ d # HostConnection
                       THEN view[d] \cup {s} ELSE view[d]]
        /\ hostInbox' = IF connections[HostSlot] = HostConnection
                        THEN Append(hostInbox, [type |-> "KNOWS", player |-> s])
                        ELSE hostInbox
        /\ reused' = IF FormerOwner(s) THEN reused \cup {s} ELSE reused \ {s}
        /\ StartReceive(c, rest)
        /\ UNCHANGED <<socket, timing>>

\* HandleReceivePacket: a packet of a registered player is relayed; those that
\* receive it mark its source connected, or not any more if it leaves.
RelayPacket(c, data, rest) ==
    /\ timeout' = [timeout EXCEPT ![c] = TimeoutActive]
    /\ Broadcast(Taken, plr[c], IF data = "TURN" THEN "KNOWS" ELSE "LEAVES", plr[c])
    /\ StartReceive(c, rest)
    /\ UNCHANGED <<socket, plr, connections, timing, program, reused>>

\* HandleReceive.  A program that plays sends no join request.
HandleReceive(c, data, rest) ==
    \/ /\ data \in {"EOF", "ABORTED"}
       /\ DropConnection(c, rest)
       /\ UNCHANGED <<plr, timeout, program, reused>>
    \/ /\ data \notin {"EOF", "ABORTED"}
       /\ plr[c] = PLR_BROADCAST
       /\ RefusePlayer(c, rest) \/ NewPlayer(c, rest)
    \/ /\ data \notin {"EOF", "ABORTED"}
       /\ plr[c] # PLR_BROADCAST
       /\ RelayPacket(c, data, rest)

\* Mutant of HandleTimeout: a cancelled timer is no reason to do anything, an
\* expired one goes on.
HandleTimeoutNever(c, data, rest) ==
    /\ ready' = rest
    /\ timing' = IF data = "EXPIRED" THEN timing \cup {c} ELSE timing
    /\ UNCHANGED <<conVars, connections, receiving, program, hostInbox, view>>

\* HandleTimeout: every second, and when the timer is cancelled.
HandleTimeout(c, data, rest) ==
    IF data = "ABORTED" \/ timeout[c] <= 1
    THEN /\ timeout' = IF data = "ABORTED" THEN timeout ELSE [timeout EXCEPT ![c] = 0]
         /\ DropConnection(c, rest)
         /\ UNCHANGED <<plr, program>>
    ELSE /\ timeout' = [timeout EXCEPT ![c] = @ - 1]
         /\ timing' = timing \cup {c}
         /\ ready' = rest
         /\ UNCHANGED <<socket, plr, connections, receiving, program, hostInbox, view>>

\* poll_one runs the handler at the front of the queue.
Poll ==
    /\ ready # <<>>
    /\ LET handler == Head(ready)
       IN  IF handler.kind = "receive"
           THEN HandleReceive(handler.con, handler.data, Tail(ready))
           ELSE /\ HandleTimeout(handler.con, handler.data, Tail(ready))
                /\ UNCHANGED reused
    /\ UNCHANGED <<stream, hostDrops>>

-----------------------------------------------------------------------------
(* What the system tells the server.                                       *)

\* HandleAccept.
Accept(c) ==
    /\ socket[c] = "unused"
    /\ IF Taken = Slots
       THEN /\ socket' = [socket EXCEPT ![c] = "closed"]
            /\ program' = [program EXCEPT ![c] = "gone"]
            /\ UNCHANGED <<timeout, receiving, timing>>
       ELSE /\ socket' = [socket EXCEPT ![c] = "open"]
            /\ program' = [program EXCEPT ![c] = "connected"]
            /\ timeout' = [timeout EXCEPT ![c] = TimeoutConnect]
            /\ receiving' = receiving \cup {c}
            /\ timing' = timing \cup {c}
    /\ UNCHANGED <<plr, connections, ready, stream, hostInbox, hostDrops, view, reused>>

\* Data has arrived: the receive completes.
ReceiveCompletes(c) ==
    /\ c \in receiving
    /\ stream[c] # <<>>
    /\ receiving' = receiving \ {c}
    /\ ready' = Append(ready, Receive(c, Head(stream[c])))
    /\ stream' = [stream EXCEPT ![c] = Tail(@)]
    /\ UNCHANGED <<conVars, connections, timing, program, hostInbox, hostDrops, view, reused>>

\* A second is over.
TimerExpires(c) ==
    /\ c \in timing
    /\ timing' = timing \ {c}
    /\ ready' = Append(ready, Timer(c, "EXPIRED"))
    /\ UNCHANGED <<conVars, connections, receiving, clientVars, hostInbox, hostDrops, view, reused>>

-----------------------------------------------------------------------------
(* The programs.                                                           *)

\* tcp_client::join.
RequestJoin(c) ==
    /\ program[c] = "connected"
    /\ program' = [program EXCEPT ![c] = "joining"]
    /\ stream' = [stream EXCEPT ![c] = Append(@, "JOIN_REQUEST")]
    /\ UNCHANGED <<conVars, connections, ioVars, hostInbox, hostDrops, view, reused>>

SendTurn(c) ==
    /\ program[c] = "playing"
    /\ stream[c] = <<>>
    /\ Len(hostInbox) < MaxQueue
    /\ stream' = [stream EXCEPT ![c] = Append(@, "TURN")]
    /\ UNCHANGED <<conVars, connections, ioVars, program, hostInbox, hostDrops, view, reused>>

\* The program leaves the game, or is killed, or its network fails so that the
\* server does not hear of it.
Quit(c) ==
    /\ program[c] \in {"connected", "joining", "playing"}
    /\ program' = [program EXCEPT ![c] = "gone"]
    /\ \/ program[c] = "playing" /\ stream' = [stream EXCEPT ![c] = @ \o <<"DISCONNECT", "EOF">>]
       \/ stream' = [stream EXCEPT ![c] = Append(@, "EOF")]
       \/ UNCHANGED stream
    /\ UNCHANGED <<conVars, connections, ioVars, hostInbox, hostDrops, view, reused>>

\* tcp_server::DisconnectNet.
DisconnectNet(s) ==
    IF connections[s] = NoConnection
    THEN UNCHANGED <<socket, ioVars, connections>>
    ELSE /\ Close(connections[s], ready)
         /\ connections' = [connections EXCEPT ![s] = NoConnection]

\* base::RecvLocal in the host's program.  Whoever leaves is marked connected by
\* its own packet before it is disconnected.
HostReceives ==
    /\ hostInbox # <<>>
    /\ LET packet == Head(hostInbox)
       IN  IF packet.type # "KNOWS"
           THEN /\ view' = [view EXCEPT ![HostConnection] = @ \ {packet.player}]
                /\ IF packet.type = "LEAVES" \/ packet.player \in view[HostConnection]
                   THEN DisconnectNet(packet.player)
                   ELSE UNCHANGED <<socket, ioVars, connections>>
           ELSE /\ view' = [view EXCEPT ![HostConnection] = @ \cup {packet.player}]
                /\ UNCHANGED <<socket, ioVars, connections>>
    /\ hostInbox' = Tail(hostInbox)
    /\ UNCHANGED <<plr, timeout, clientVars, hostDrops, reused>>

\* base::SNetDropPlayer in the host's program, for a player whose turns it misses.
HostDropsPlayer(s) ==
    /\ s \in view[HostConnection] \ {HostSlot}
    /\ Len(hostDrops) < MaxDrops
    /\ DisconnectNet(s)
    /\ view' = [view EXCEPT ![HostConnection] = @ \ {s}]
    /\ hostDrops' = Append(hostDrops, s)
    /\ UNCHANGED <<plr, timeout, clientVars, hostInbox, reused>>

\* The server relays the host's disconnect packet.
RelayHostDrop ==
    /\ hostDrops # <<>>
    /\ Broadcast(Taken, HostSlot, "FORGETS", Head(hostDrops))
    /\ hostDrops' = Tail(hostDrops)
    /\ UNCHANGED <<conVars, connections, ioVars, clientVars, reused>>

-----------------------------------------------------------------------------

Next ==
    \/ Poll
    \/ HostReceives
    \/ RelayHostDrop
    \/ \E s \in Slots : HostDropsPlayer(s)
    \/ \E c \in Clients :
          \/ Accept(c)
          \/ ReceiveCompletes(c)
          \/ TimerExpires(c)
          \/ RequestJoin(c)
          \/ SendTurn(c)
          \/ Quit(c)

Spec == Init /\ [][Next]_vars

\* The game loop polls, and time goes on.
Fairness ==
    /\ WF_vars(Poll)
    /\ WF_vars(HostReceives)
    /\ WF_vars(RelayHostDrop)
    /\ \A c \in Clients : WF_vars(ReceiveCompletes(c)) /\ WF_vars(TimerExpires(c))

FairSpec == Spec /\ Fairness

-----------------------------------------------------------------------------
(* Properties.                                                             *)

\* A slot never refers to a connection that holds another slot, nor to a closed
\* one unless its failed receive is about to drop it: SendPacket and DisconnectNet
\* use the entries of connections as they are.
NoDangling ==
    \A s \in Slots : connections[s] # NoConnection =>
        LET c == connections[s]
        IN  /\ plr[c] = s
            /\ \/ socket[c] = "open"
               \/ \E i \in 1 .. Len(ready) : ready[i] = Receive(c, "ABORTED")

\* Whoever plays on an open connection has its slot, whatever other players and
\* the host do meanwhile, unless it was given the slot when something was left of
\* a former owner: DropConnection and DisconnectNet go by the number of the slot.
SlotKept ==
    \A c \in Connections :
        socket[c] = "open" /\ plr[c] \notin reused \cup {PLR_BROADCAST} =>
            connections[plr[c]] = c

\* When nothing is left to be handled all players know the same players, those
\* that the server has a connection for, but for the slots of that exception.
PeersAgree ==
    ready = <<>> /\ hostInbox = <<>> /\ hostDrops = <<>> =>
        \A t \in Taken : view[connections[t]] \ reused = Taken \ reused

\* A program that left, died or lost its network gives its slot back, also if
\* the server can tell by its timer only.
SlotFreed ==
    \A c \in Clients :
        program[c] = "gone" ~> socket[c] = "closed" /\ \A s \in Slots : connections[s] # c
=============================================================================
