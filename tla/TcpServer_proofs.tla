--------------------------- MODULE TcpServer_proofs ---------------------------
(* Proofs about TcpServer, for any number of slots and connections, any        *)
(* timeouts and any order of events: type correctness, that no slot refers to  *)
(* a connection that is gone, that players keep their slots, and that programs *)
(* agree about who plays once all is handled; the last two but for the slots   *)
(* that were given again while something of a former owner was left (reused).  *)
EXTENDS TcpServer, TLAPS

LEMMA SlotTypes ==
    /\ HostSlot \in Slots
    /\ PLR_BROADCAST \notin Slots
    /\ HostConnection \in Connections
    /\ NoConnection \notin Connections
BY ServerAssumption DEF HostSlot, Slots, PLR_BROADCAST, Connections

\* The failed receive of c is in the queue q.
Failed(q, c) == \E i \in 1 .. Len(q) : q[i] = Receive(c, "ABORTED")

LEMMA HandlerTypes ==
    ASSUME NEW c \in Connections
    PROVE  /\ \A data \in Data : Receive(c, data) \in Handlers
           /\ \A data \in {"EXPIRED", "ABORTED"} : Timer(c, data) \in Handlers
BY DEF Handlers, Receive, Timer

\* What is appended to a queue hides nothing.
LEMMA FailedKept ==
    ASSUME NEW q \in Seq(Handlers), NEW more \in Seq(Handlers), NEW c, Failed(q, c)
    PROVE  Failed(q \o more, c)
BY DEF Failed

LEMMA FailedAppended ==
    ASSUME NEW q \in Seq(Handlers), NEW h \in Handlers, NEW c
    PROVE  /\ Append(q, h) \in Seq(Handlers)
           /\ Failed(q, c) => Failed(Append(q, h), c)
           /\ h = Receive(c, "ABORTED") => Failed(Append(q, h), c)
<1>1. Append(q, h) \in Seq(Handlers) /\ Len(Append(q, h)) = Len(q) + 1
  OBVIOUS
<1>2. \A i \in 1 .. Len(q) : Append(q, h)[i] = q[i]
  OBVIOUS
<1>3. Append(q, h)[Len(q) + 1] = h
  OBVIOUS
<1> QED BY <1>1, <1>2, <1>3 DEF Failed

\* Running the first handler hides only that one.
LEMMA FailedTail ==
    ASSUME NEW q \in Seq(Handlers), q # <<>>, NEW c, Failed(q, c)
    PROVE  Head(q) = Receive(c, "ABORTED") \/ Failed(Tail(q), c)
<1>1. PICK i \in 1 .. Len(q) : q[i] = Receive(c, "ABORTED")
  BY DEF Failed
<1>2. CASE i = 1
  BY <1>1, <1>2
<1>3. CASE i # 1
  <2>1. i - 1 \in 1 .. Len(Tail(q)) /\ Tail(q)[i - 1] = q[i]
    BY <1>3
  <2> QED BY <2>1, <1>1 DEF Failed
<1> QED BY <1>2, <1>3

--------------------------------------------------------------------------------
(* The inductive invariant is TypeOK with NoDangling: closing a connection keeps *)
(* its slot only until DropConnection, and a slot is given to a closed           *)
(* connection only together with its failed receive.                             *)

IInv == TypeOK /\ NoDangling

\* The part of TypeOK that closing a connection can disturb.
IoTypes ==
    /\ socket \in [Connections -> {"unused", "open", "closed"}]
    /\ receiving \in SUBSET Connections
    /\ timing \in SUBSET Connections
    /\ ready \in Seq(Handlers)

BeliefTypes ==
    /\ hostInbox \in Seq(HostPackets)
    /\ view \in [Connections -> SUBSET Slots]

SlotsTypes == connections \in [Slots -> Connections \cup {NoConnection}]

RestTypes ==
    /\ plr \in [Connections -> Slots \cup {PLR_BROADCAST}]
    /\ timeout \in [Connections -> Nat]
    /\ program \in [Clients -> {"absent", "connected", "joining", "playing", "gone"}]
    /\ stream \in [Clients -> Seq(Data \ {"ABORTED"})]
    /\ hostDrops \in Seq(Slots)
    /\ reused \in SUBSET Slots

LEMMA TypeParts == TypeOK <=> IoTypes /\ BeliefTypes /\ SlotsTypes /\ RestTypes
BY DEF TypeOK, IoTypes, BeliefTypes, SlotsTypes, RestTypes

LEMMA CloseTypes ==
    ASSUME TypeOK, NEW c \in Connections, NEW rest \in Seq(Handlers), Close(c, rest)
    PROVE  /\ IoTypes'
           /\ \A d : Failed(rest, d) => Failed(ready', d)
           /\ \A d \in Connections \ {c} : socket'[d] = socket[d]
<1>1. Timer(c, "ABORTED") \in Handlers /\ Receive(c, "ABORTED") \in Handlers
  BY HandlerTypes DEF Data
<1> DEFINE timers == IF c \in timing THEN <<Timer(c, "ABORTED")>> ELSE <<>>
           receives == IF c \in receiving THEN <<Receive(c, "ABORTED")>> ELSE <<>>
<1>2. timers \in Seq(Handlers) /\ receives \in Seq(Handlers)
  BY <1>1
<1>3. ready' = (rest \o timers) \o receives
  BY DEF Close
<1>4. rest \o timers \in Seq(Handlers) /\ ready' \in Seq(Handlers)
  BY <1>2, <1>3
<1>5. \A d : Failed(rest, d) => Failed(ready', d)
  <2> SUFFICES ASSUME NEW d, Failed(rest, d) PROVE Failed(ready', d)
    OBVIOUS
  <2>1. Failed(rest \o timers, d)
    BY <1>2, FailedKept
  <2> QED BY <2>1, <1>2, <1>3, <1>4, FailedKept
<1>6. socket' = [socket EXCEPT ![c] = "closed"]
      /\ receiving' = receiving \ {c} /\ timing' = timing \ {c}
  BY DEF Close
<1>7. IoTypes'
  BY <1>4, <1>6 DEF TypeOK, IoTypes
<1> QED BY <1>5, <1>6, <1>7 DEF TypeOK

LEMMA BroadcastTypes ==
    ASSUME TypeOK, NEW slots, NEW source, NEW type \in {"KNOWS", "FORGETS", "LEAVES"},
           NEW player \in Slots, Broadcast(slots, source, type, player)
    PROVE  BeliefTypes'
<1>1. [type |-> type, player |-> player] \in HostPackets
  BY DEF HostPackets
<1>2. hostInbox' \in Seq(HostPackets)
  <2>1. hostInbox' \in {hostInbox, Append(hostInbox, [type |-> type, player |-> player])}
    BY DEF Broadcast
  <2>2. hostInbox \in Seq(HostPackets)
    BY DEF TypeOK
  <2> QED BY <1>1, <2>1, <2>2
<1>3. view' \in [Connections -> SUBSET Slots]
  BY DEF TypeOK, Broadcast
<1> QED BY <1>2, <1>3 DEF BeliefTypes

LEMMA DanglingMeaning ==
    NoDangling <=>
        \A s \in Slots : connections[s] # NoConnection =>
            /\ plr[connections[s]] = s
            /\ \/ socket[connections[s]] = "open"
               \/ Failed(ready, connections[s])
BY DEF NoDangling, Failed

\* A slot that keeps its connection is as before.
LEMMA DroppedSlot ==
    ASSUME IInv, NEW c \in Connections, NEW rest \in Seq(Handlers), Close(c, rest),
           plr' = plr,
           \A d \in Connections \ {c} : Failed(ready, d) => Failed(rest, d),
           SlotsTypes',
           \A s \in Slots : connections'[s] \in {connections[s], NoConnection},
           \A s \in Slots : connections'[s] # c
    PROVE  NoDangling'
<1> SUFFICES ASSUME NEW s \in Slots, connections'[s] # NoConnection
             PROVE  /\ plr'[connections'[s]] = s
                    /\ \/ socket'[connections'[s]] = "open"
                       \/ Failed(ready', connections'[s])
  BY DEF NoDangling, Failed
<1> DEFINE d == connections'[s]
<1>1. d = connections[s] /\ d # c /\ d \in Connections
  BY DEF SlotsTypes
<1>2. plr[d] = s /\ (socket[d] = "open" \/ Failed(ready, d))
  BY <1>1, DanglingMeaning DEF IInv
<1>3. socket'[d] = socket[d] /\ (Failed(rest, d) => Failed(ready', d))
  BY <1>1, CloseTypes DEF IInv
<1> QED BY <1>1, <1>2, <1>3

LEMMA DropConnectionStep ==
    ASSUME IInv, NEW c \in Connections, NEW rest \in Seq(Handlers), DropConnection(c, rest),
           plr' = plr,
           \A d \in Connections \ {c} : Failed(ready, d) => Failed(rest, d)
    PROVE  IoTypes' /\ BeliefTypes' /\ SlotsTypes' /\ NoDangling'
<1>1. Close(c, rest) /\ IoTypes'
  BY CloseTypes DEF DropConnection, IInv
<1>2. plr[c] \in Slots \cup {PLR_BROADCAST} /\ SlotsTypes /\ c # NoConnection
  BY SlotTypes DEF IInv, TypeOK, SlotsTypes
<1>3. \A s \in Slots : connections[s] = c => plr[c] = s
  BY <1>2 DEF IInv, NoDangling
<1>4. CASE plr[c] = PLR_BROADCAST
  <2>1. UNCHANGED <<connections, view, hostInbox>>
    BY <1>4 DEF DropConnection
  <2>2. \A s \in Slots : connections'[s] # c
    BY <2>1, <1>3, <1>4, SlotTypes
  <2>3. BeliefTypes' /\ SlotsTypes'
    BY <2>1, <1>2 DEF IInv, TypeOK, BeliefTypes, SlotsTypes
  <2> QED BY <1>1, <2>1, <2>2, <2>3, DroppedSlot
<1>5. CASE plr[c] # PLR_BROADCAST
  <2>1. /\ connections' = [connections EXCEPT ![plr[c]] = NoConnection]
        /\ Broadcast(Taken \ {plr[c]}, PLR_BROADCAST, "FORGETS", plr[c])
    BY <1>5 DEF DropConnection
  <2>2. plr[c] \in Slots
    BY <1>2, <1>5
  <2>3. BeliefTypes'
    BY <2>1, <2>2, BroadcastTypes DEF IInv
  <2>4. SlotsTypes' /\ (\A s \in Slots : connections'[s] \in {connections[s], NoConnection})
    BY <2>1, <1>2 DEF SlotsTypes
  <2>5. \A s \in Slots : connections'[s] # c
    BY <2>1, <1>2, <1>3 DEF SlotsTypes
  <2> QED BY <1>1, <2>3, <2>4, <2>5, DroppedSlot
<1> QED BY <1>4, <1>5

LEMMA DisconnectNetStep ==
    ASSUME IInv, NEW s \in Slots, DisconnectNet(s), plr' = plr
    PROVE  IoTypes' /\ SlotsTypes' /\ NoDangling'
<1>1. CASE connections[s] = NoConnection
  BY <1>1 DEF DisconnectNet, ioVars, IInv, TypeOK, IoTypes, SlotsTypes, NoDangling
<1>2. CASE connections[s] # NoConnection
  <2> DEFINE c == connections[s]
  <2>1. c \in Connections /\ SlotsTypes /\ ready \in Seq(Handlers) /\ c # NoConnection
    BY <1>2 DEF IInv, TypeOK, SlotsTypes
  <2>2. Close(c, ready) /\ connections' = [connections EXCEPT ![s] = NoConnection]
    BY <1>2 DEF DisconnectNet
  <2>3. IoTypes'
    BY <2>1, <2>2, CloseTypes DEF IInv
  <2>4. SlotsTypes' /\ (\A t \in Slots : connections'[t] \in {connections[t], NoConnection})
    BY <2>1, <2>2 DEF SlotsTypes
  <2>5. \A t \in Slots : connections[t] = c => t = s
    BY <2>1 DEF IInv, NoDangling
  <2>6. \A t \in Slots : connections'[t] # c
    BY <2>1, <2>2, <2>5 DEF SlotsTypes
  <2> HIDE DEF c
  <2> QED BY <2>1, <2>2, <2>3, <2>4, <2>6, DroppedSlot
<1> QED BY <1>1, <1>2

--------------------------------------------------------------------------------
(* One lemma for each handler, then one step for each action.              *)

LEMMA IInvInit == Init => IInv
<1> SUFFICES ASSUME Init PROVE IInv
  OBVIOUS
<1>1. IoTypes
  BY SlotTypes DEF Init, IoTypes
<1>2. BeliefTypes
  BY SlotTypes DEF Init, BeliefTypes
<1>3. SlotsTypes
  BY SlotTypes DEF Init, SlotsTypes
<1>4. RestTypes
  BY SlotTypes, ServerAssumption DEF Init, RestTypes
<1>5. NoDangling
  BY SlotTypes, DanglingMeaning DEF Init
<1> QED BY <1>1, <1>2, <1>3, <1>4, <1>5, TypeParts DEF IInv

\* When the slots, sockets and player numbers stay and no failed receive is run,
\* nothing dangles.
LEMMA SlotsUntouched ==
    ASSUME NoDangling, UNCHANGED <<connections, plr>>,
           \A d : Failed(ready, d) => Failed(ready', d),
           \A s \in Slots : connections[s] # NoConnection =>
               socket'[connections[s]] = socket[connections[s]]
    PROVE  NoDangling'
<1> SUFFICES ASSUME NEW s \in Slots, connections'[s] # NoConnection
             PROVE  /\ plr'[connections'[s]] = s
                    /\ \/ socket'[connections'[s]] = "open"
                       \/ Failed(ready', connections'[s])
  BY DEF NoDangling, Failed
<1> QED BY DanglingMeaning

LEMMA StartReceiveTypes ==
    ASSUME TypeOK, NEW c \in Connections, NEW rest \in Seq(Handlers), StartReceive(c, rest),
           UNCHANGED <<socket, timing>>
    PROVE  /\ IoTypes'
           /\ \A d : Failed(rest, d) => Failed(ready', d)
           /\ socket[c] # "open" => Failed(ready', c)
<1>1. Receive(c, "ABORTED") \in Handlers
  BY HandlerTypes DEF Data
<1>2. CASE socket[c] = "open"
  BY <1>2 DEF StartReceive, TypeOK, IoTypes
<1>3. CASE socket[c] # "open"
  <2>1. ready' = Append(rest, Receive(c, "ABORTED")) /\ receiving' = receiving
    BY <1>3 DEF StartReceive
  <2>2. ready' \in Seq(Handlers) /\ (\A d : Failed(rest, d) => Failed(ready', d))
        /\ Failed(ready', c)
    BY <1>1, <2>1, FailedAppended
  <2> QED BY <2>1, <2>2 DEF TypeOK, IoTypes
<1> QED BY <1>2, <1>3

LEMMA NewPlayerStep ==
    ASSUME IInv, NEW c \in Connections, NEW rest \in Seq(Handlers), NewPlayer(c, rest),
           plr[c] = PLR_BROADCAST, UNCHANGED <<stream, hostDrops>>,
           \A d : Failed(ready, d) => Failed(rest, d)
    PROVE  IInv'
<1>1. PICK s \in Slots :
        /\ IsNextFree(s)
        /\ plr' = [plr EXCEPT ![c] = s]
        /\ connections' = [connections EXCEPT ![s] = c]
        /\ view' = [d \in Connections |->
                       IF d = c THEN Taken \cup {s}
                       ELSE IF \E t \in Taken : d = connections[t] /\ d # HostConnection
                       THEN view[d] \cup {s} ELSE view[d]]
        /\ hostInbox' = IF connections[HostSlot] = HostConnection
                        THEN Append(hostInbox, [type |-> "KNOWS", player |-> s])
                        ELSE hostInbox
        /\ reused' = IF FormerOwner(s) THEN reused \cup {s} ELSE reused \ {s}
  BY DEF NewPlayer
<1>2. /\ timeout' = [timeout EXCEPT ![c] = TimeoutActive]
      /\ program' = IF program[c] = "joining"
                    THEN [program EXCEPT ![c] = "playing"] ELSE program
      /\ StartReceive(c, rest)
      /\ UNCHANGED <<socket, timing>>
  BY DEF NewPlayer
<1>3. TypeOK /\ NoDangling /\ c # NoConnection
  BY SlotTypes DEF IInv
<1>4. /\ IoTypes'
      /\ \A d : Failed(rest, d) => Failed(ready', d)
      /\ socket[c] # "open" => Failed(ready', c)
  BY <1>2, <1>3, StartReceiveTypes
<1>5. SlotsTypes'
  BY <1>1, <1>3 DEF TypeOK, SlotsTypes
<1>6. BeliefTypes'
  <2>1. [type |-> "KNOWS", player |-> s] \in HostPackets
    BY DEF HostPackets
  <2>2. \/ hostInbox' = hostInbox
        \/ hostInbox' = Append(hostInbox, [type |-> "KNOWS", player |-> s])
    BY <1>1, Zenon
  <2>a. hostInbox \in Seq(HostPackets)
    BY <1>3 DEF TypeOK
  <2>3. hostInbox' \in Seq(HostPackets)
    BY <2>1, <2>2, <2>a
  <2>4. Taken \in SUBSET Slots /\ view \in [Connections -> SUBSET Slots]
    BY <1>3 DEF Taken, TypeOK
  <2>5. view' \in [Connections -> SUBSET Slots]
    BY <1>1, <2>4
  <2> QED BY <2>3, <2>5 DEF BeliefTypes
<1>7. RestTypes'
  BY <1>1, <1>2, <1>3, ServerAssumption DEF TypeOK, RestTypes
<1>8. NoDangling'
  <2> SUFFICES ASSUME NEW t \in Slots, connections'[t] # NoConnection
               PROVE  /\ plr'[connections'[t]] = t
                      /\ \/ socket'[connections'[t]] = "open"
                         \/ Failed(ready', connections'[t])
    BY DEF NoDangling, Failed
  <2>1. CASE t = s
    <3>1. connections'[t] = c /\ plr'[c] = s
      BY <1>1, <1>3, <2>1 DEF TypeOK
    <3>2. socket'[c] = "open" \/ Failed(ready', c)
      BY <1>2, <1>4
    <3> QED BY <3>1, <3>2, <1>2, <2>1
  <2>2. CASE t # s
    <3>1. connections'[t] = connections[t] /\ plr[connections[t]] = t
      BY <1>1, <1>3, <2>2, DanglingMeaning DEF TypeOK
    <3>2. connections[t] # c /\ connections[t] \in Connections
      BY <3>1, <1>3, SlotTypes DEF TypeOK
    <3>3. plr'[connections[t]] = t
      BY <1>1, <1>3, <3>1, <3>2 DEF TypeOK
    <3>4. \/ socket[connections[t]] = "open"
          \/ Failed(ready, connections[t])
      BY <1>3, <3>1, DanglingMeaning
    <3>5. socket' = socket
      BY <1>2
    <3>6. Failed(ready, connections[t]) => Failed(ready', connections[t])
      BY <1>4
    <3>7. \/ socket'[connections[t]] = "open"
          \/ Failed(ready', connections[t])
      BY <3>4, <3>5, <3>6
    <3> QED BY <3>1, <3>3, <3>7
  <2> QED BY <2>1, <2>2
<1> QED BY <1>4, <1>5, <1>6, <1>7, <1>8
        DEF IInv, TypeOK, IoTypes, BeliefTypes, SlotsTypes, RestTypes

LEMMA RelayPacketStep ==
    ASSUME IInv, NEW c \in Connections, NEW data, NEW rest \in Seq(Handlers),
           RelayPacket(c, data, rest), plr[c] # PLR_BROADCAST, UNCHANGED <<stream, hostDrops>>,
           \A d : Failed(ready, d) => Failed(rest, d)
    PROVE  IInv'
<1>1. TypeOK /\ NoDangling /\ plr[c] \in Slots
  BY DEF IInv, TypeOK
<1>2. /\ timeout' = [timeout EXCEPT ![c] = TimeoutActive]
      /\ StartReceive(c, rest)
      /\ UNCHANGED <<socket, plr, connections, timing, program, reused>>
  BY DEF RelayPacket
<1>3. BeliefTypes'
  <2>1. Broadcast(Taken, plr[c], IF data = "TURN" THEN "KNOWS" ELSE "LEAVES", plr[c])
    BY DEF RelayPacket
  <2> QED BY <1>1, <2>1, BroadcastTypes
<1>4. IoTypes' /\ \A d : Failed(rest, d) => Failed(ready', d)
  BY <1>1, <1>2, StartReceiveTypes
<1>5. SlotsTypes' /\ RestTypes'
  BY <1>1, <1>2, ServerAssumption DEF TypeOK, SlotsTypes, RestTypes
<1>6. NoDangling'
  BY <1>1, <1>2, <1>4, SlotsUntouched
<1> QED BY <1>3, <1>4, <1>5, <1>6
        DEF IInv, TypeOK, IoTypes, BeliefTypes, SlotsTypes, RestTypes

\* A handler that drops its connection.
LEMMA DroppingStep ==
    ASSUME IInv, NEW c \in Connections, NEW rest \in Seq(Handlers), DropConnection(c, rest),
           UNCHANGED <<plr, program, stream, hostDrops, reused>>,
           timeout' \in [Connections -> Nat],
           \A d \in Connections \ {c} : Failed(ready, d) => Failed(rest, d)
    PROVE  IInv'
<1>1. IoTypes' /\ BeliefTypes' /\ SlotsTypes' /\ NoDangling'
  BY DropConnectionStep
<1>2. RestTypes'
  BY DEF IInv, TypeOK, RestTypes
<1> QED BY <1>1, <1>2
        DEF IInv, TypeOK, IoTypes, BeliefTypes, SlotsTypes, RestTypes

LEMMA HandleTimeoutStep ==
    ASSUME IInv, NEW c \in Connections, NEW data, NEW rest \in Seq(Handlers),
           HandleTimeout(c, data, rest), UNCHANGED <<stream, hostDrops, reused>>,
           \A d : Failed(ready, d) => Failed(rest, d)
    PROVE  IInv'
<1>1. TypeOK /\ NoDangling /\ timeout \in [Connections -> Nat]
  BY DEF IInv, TypeOK
<1>2. CASE data = "ABORTED" \/ timeout[c] <= 1
  <2>1. timeout' \in [Connections -> Nat]
    BY <1>1, <1>2 DEF HandleTimeout
  <2>2. DropConnection(c, rest) /\ UNCHANGED <<plr, program>>
    BY <1>2 DEF HandleTimeout
  <2> QED BY <2>1, <2>2, DroppingStep
<1>3. CASE ~ (data = "ABORTED" \/ timeout[c] <= 1)
  <2>1. /\ timeout' = [timeout EXCEPT ![c] = @ - 1]
        /\ timing' = timing \cup {c}
        /\ ready' = rest
        /\ UNCHANGED <<socket, plr, connections, receiving, program, hostInbox, view>>
    BY <1>3 DEF HandleTimeout
  <2>2. timeout' \in [Connections -> Nat]
    BY <1>1, <1>3, <2>1
  <2>3. TypeOK'
    BY <1>1, <2>1, <2>2 DEF TypeOK
  <2>4. NoDangling'
    BY <1>1, <2>1, SlotsUntouched
  <2> QED BY <2>3, <2>4 DEF IInv
<1> QED BY <1>2, <1>3

LEMMA HandleReceiveStep ==
    ASSUME IInv, NEW c \in Connections, NEW data, NEW rest \in Seq(Handlers),
           HandleReceive(c, data, rest), UNCHANGED <<stream, hostDrops>>,
           \A d : Failed(ready, d) => (d = c /\ data = "ABORTED") \/ Failed(rest, d)
    PROVE  IInv'
<1>1. CASE /\ data \in {"EOF", "ABORTED"}
           /\ DropConnection(c, rest)
           /\ UNCHANGED <<plr, timeout, program, reused>>
  <2>1. timeout' \in [Connections -> Nat]
    BY <1>1 DEF IInv, TypeOK
  <2> QED BY <1>1, <2>1, DroppingStep
<1>2. CASE data \notin {"EOF", "ABORTED"} /\ plr[c] = PLR_BROADCAST /\ RefusePlayer(c, rest)
  <2>1. DropConnection(c, rest) /\ UNCHANGED <<plr, timeout, program, reused>>
    BY <1>2 DEF RefusePlayer
  <2>2. timeout' \in [Connections -> Nat]
    BY <2>1 DEF IInv, TypeOK
  <2> QED BY <2>1, <2>2, DroppingStep
<1>3. CASE data \notin {"EOF", "ABORTED"} /\ plr[c] = PLR_BROADCAST /\ NewPlayer(c, rest)
  BY <1>3, NewPlayerStep
<1>4. CASE data \notin {"EOF", "ABORTED"} /\ plr[c] # PLR_BROADCAST /\ RelayPacket(c, data, rest)
  BY <1>4, RelayPacketStep
<1> QED BY <1>1, <1>2, <1>3, <1>4 DEF HandleReceive

LEMMA PollStep ==
    ASSUME IInv, Poll
    PROVE  IInv'
<1> DEFINE handler == Head(ready)
<1>1. ready \in Seq(Handlers) /\ ready # <<>> /\ UNCHANGED <<stream, hostDrops>>
  BY DEF IInv, TypeOK, Poll
<1>2. handler \in Handlers /\ Tail(ready) \in Seq(Handlers)
  BY <1>1
<1>3. handler.con \in Connections
  BY <1>2 DEF Handlers
<1>4. \A d : Failed(ready, d) => handler = Receive(d, "ABORTED") \/ Failed(Tail(ready), d)
  BY <1>1, FailedTail
<1>5. CASE handler.kind = "receive"
  <2>1. HandleReceive(handler.con, handler.data, Tail(ready))
    BY <1>5 DEF Poll
  <2>2. \A d : handler = Receive(d, "ABORTED") => d = handler.con /\ handler.data = "ABORTED"
    BY DEF Receive
  <2> HIDE DEF handler
  <2> QED BY <1>1, <1>2, <1>3, <1>4, <2>1, <2>2, HandleReceiveStep
<1>6. CASE handler.kind # "receive"
  <2>1. HandleTimeout(handler.con, handler.data, Tail(ready)) /\ UNCHANGED reused
    BY <1>6 DEF Poll
  <2>2. \A d : handler # Receive(d, "ABORTED")
    BY <1>6 DEF Receive
  <2> HIDE DEF handler
  <2> QED BY <1>1, <1>2, <1>3, <1>4, <2>1, <2>2, HandleTimeoutStep
<1> QED BY <1>5, <1>6

LEMMA AcceptStep ==
    ASSUME IInv, NEW c \in Clients, Accept(c)
    PROVE  IInv'
<1>1. TypeOK /\ NoDangling /\ c \in Connections
  BY DEF IInv, Connections
<1>2. UNCHANGED <<plr, connections, ready, stream, hostInbox, hostDrops, view, reused>>
  BY DEF Accept
<1>3. \A d \in Connections : socket'[d] = socket[d] \/ (d = c /\ socket[c] = "unused")
  BY <1>1 DEF Accept, TypeOK
<1>4. TypeOK'
  <2>1. CASE Taken = Slots
    BY <1>1, <1>2, <2>1 DEF Accept, TypeOK
  <2>2. CASE Taken # Slots
    <3>1. /\ socket' = [socket EXCEPT ![c] = "open"]
          /\ program' = [program EXCEPT ![c] = "connected"]
          /\ timeout' = [timeout EXCEPT ![c] = TimeoutConnect]
          /\ receiving' = receiving \cup {c}
          /\ timing' = timing \cup {c}
      BY <2>2 DEF Accept
    <3>2. TimeoutConnect \in Nat
      BY ServerAssumption
    <3> QED BY <1>1, <1>2, <3>1, <3>2 DEF TypeOK
  <2> QED BY <2>1, <2>2
<1>5. NoDangling'
  <2> SUFFICES ASSUME NEW s \in Slots, connections[s] # NoConnection
               PROVE  /\ plr[connections[s]] = s
                      /\ \/ socket'[connections[s]] = "open"
                         \/ Failed(ready, connections[s])
    BY <1>2 DEF NoDangling, Failed
  <2>1. connections[s] \in Connections
    BY <1>1 DEF TypeOK
  <2>2. /\ plr[connections[s]] = s
        /\ socket[connections[s]] = "open" \/ Failed(ready, connections[s])
    BY <1>1, DanglingMeaning
  <2> QED BY <1>3, <2>1, <2>2
<1> QED BY <1>4, <1>5 DEF IInv

\* An operation of a connection that completes adds a handler.
LEMMA CompletionStep ==
    ASSUME IInv, NEW h \in Handlers, ready' = Append(ready, h),
           UNCHANGED <<conVars, connections, program, hostInbox, hostDrops, view, reused>>,
           stream' \in [Clients -> Seq(Data \ {"ABORTED"})],
           receiving' \in SUBSET Connections, timing' \in SUBSET Connections
    PROVE  IInv'
<1>1. TypeOK /\ NoDangling /\ ready \in Seq(Handlers)
  BY DEF IInv, TypeOK
<1>2. ready' \in Seq(Handlers) /\ \A d : Failed(ready, d) => Failed(ready', d)
  BY <1>1, FailedAppended
<1>3. TypeOK'
  BY <1>1, <1>2 DEF TypeOK, conVars
<1>4. NoDangling'
  BY <1>1, <1>2, SlotsUntouched DEF conVars
<1> QED BY <1>3, <1>4 DEF IInv

\* What the programs send changes nothing that the invariant is about.
LEMMA SendingStep ==
    ASSUME IInv, UNCHANGED <<conVars, connections, ioVars, hostInbox, hostDrops, view, reused>>,
           program' \in [Clients -> {"absent", "connected", "joining", "playing", "gone"}],
           stream' \in [Clients -> Seq(Data \ {"ABORTED"})]
    PROVE  IInv'
<1>1. TypeOK /\ NoDangling
  BY DEF IInv
<1>2. TypeOK'
  BY <1>1 DEF TypeOK, conVars, ioVars
<1>3. NoDangling'
  BY <1>1 DEF NoDangling, conVars, ioVars
<1> QED BY <1>2, <1>3 DEF IInv

\* The host's program, when it drops a player and when it hears of one.
LEMMA HostStep ==
    ASSUME IInv, NEW s \in Slots,
           DisconnectNet(s) \/ UNCHANGED <<socket, ioVars, connections>>,
           UNCHANGED <<plr, timeout, clientVars, reused>>,
           hostInbox' \in Seq(HostPackets), hostDrops' \in Seq(Slots),
           view' \in [Connections -> SUBSET Slots]
    PROVE  IInv'
<1>1. TypeOK /\ NoDangling
  BY DEF IInv
<1>2. IoTypes' /\ SlotsTypes' /\ NoDangling'
  <2>1. CASE DisconnectNet(s)
    BY <2>1, DisconnectNetStep
  <2>2. CASE UNCHANGED <<socket, ioVars, connections>>
    <3>1. IoTypes' /\ SlotsTypes'
      BY <1>1, <2>2 DEF TypeOK, ioVars, IoTypes, SlotsTypes
    <3>2. NoDangling'
      BY <1>1, <2>2 DEF NoDangling, ioVars
    <3> QED BY <3>1, <3>2
  <2> QED BY <2>1, <2>2
<1>3. BeliefTypes' /\ RestTypes'
  BY <1>1 DEF TypeOK, BeliefTypes, RestTypes, clientVars
<1> QED BY <1>2, <1>3
        DEF IInv, TypeOK, IoTypes, BeliefTypes, SlotsTypes, RestTypes

LEMMA HostReceivesStep ==
    ASSUME IInv, HostReceives
    PROVE  IInv'
<1> DEFINE packet == Head(hostInbox)
<1>1. /\ hostInbox \in Seq(HostPackets) /\ hostInbox # <<>>
      /\ hostDrops \in Seq(Slots) /\ view \in [Connections -> SUBSET Slots]
  BY DEF IInv, TypeOK, HostReceives
<1>2. packet \in HostPackets /\ Tail(hostInbox) \in Seq(HostPackets)
  BY <1>1
<1>3. packet.player \in Slots
  BY <1>2 DEF HostPackets
<1>4. UNCHANGED <<plr, timeout, clientVars, hostDrops, reused>> /\ hostInbox' = Tail(hostInbox)
  BY DEF HostReceives
<1>5. DisconnectNet(packet.player) \/ UNCHANGED <<socket, ioVars, connections>>
  BY DEF HostReceives
<1>6. view' \in [Connections -> SUBSET Slots]
  <2>1. \/ view' = [view EXCEPT ![HostConnection] = @ \ {packet.player}]
        \/ view' = [view EXCEPT ![HostConnection] = @ \cup {packet.player}]
    BY DEF HostReceives
  <2> QED BY <1>1, <1>3, <2>1
<1> QED BY <1>1, <1>2, <1>3, <1>4, <1>5, <1>6, HostStep

LEMMA HostDropsPlayerStep ==
    ASSUME IInv, NEW s \in Slots, HostDropsPlayer(s)
    PROVE  IInv'
<1>1. /\ hostInbox \in Seq(HostPackets)
      /\ hostDrops \in Seq(Slots) /\ view \in [Connections -> SUBSET Slots]
  BY DEF IInv, TypeOK
<1>2. /\ DisconnectNet(s)
      /\ view' = [view EXCEPT ![HostConnection] = @ \ {s}]
      /\ hostDrops' = Append(hostDrops, s)
      /\ UNCHANGED <<plr, timeout, clientVars, hostInbox, reused>>
  BY DEF HostDropsPlayer
<1>3. hostDrops' \in Seq(Slots)
  BY <1>1, <1>2
<1>4. view' \in [Connections -> SUBSET Slots]
  BY <1>1, <1>2
<1> QED BY <1>1, <1>2, <1>3, <1>4, HostStep

LEMMA RelayHostDropStep ==
    ASSUME IInv, RelayHostDrop
    PROVE  IInv'
<1>1. TypeOK /\ NoDangling /\ hostDrops \in Seq(Slots)
  BY DEF IInv, TypeOK
<1>2. /\ hostDrops # <<>> /\ hostDrops' = Tail(hostDrops)
      /\ Broadcast(Taken, HostSlot, "FORGETS", Head(hostDrops))
      /\ UNCHANGED <<conVars, connections, ioVars, clientVars, reused>>
  BY DEF RelayHostDrop
<1>3. Head(hostDrops) \in Slots /\ hostDrops' \in Seq(Slots)
  BY <1>1, <1>2
<1>4. BeliefTypes'
  BY <1>1, <1>2, <1>3, BroadcastTypes
<1>5. TypeOK'
  BY <1>1, <1>2, <1>3, <1>4 DEF TypeOK, BeliefTypes, conVars, ioVars, clientVars
<1>6. NoDangling'
  BY <1>1, <1>2 DEF NoDangling, conVars, ioVars
<1> QED BY <1>5, <1>6 DEF IInv

LEMMA ClientStep ==
    ASSUME IInv, NEW c \in Clients,
           \/ ReceiveCompletes(c) \/ TimerExpires(c)
           \/ RequestJoin(c) \/ SendTurn(c) \/ Quit(c)
    PROVE  IInv'
<1>1. /\ c \in Connections
      /\ stream \in [Clients -> Seq(Data \ {"ABORTED"})]
      /\ program \in [Clients -> {"absent", "connected", "joining", "playing", "gone"}]
      /\ receiving \in SUBSET Connections /\ timing \in SUBSET Connections
  BY DEF IInv, TypeOK, Connections
<1>2. CASE ReceiveCompletes(c)
  <2>1. /\ stream[c] # <<>>
        /\ receiving' = receiving \ {c}
        /\ ready' = Append(ready, Receive(c, Head(stream[c])))
        /\ stream' = [stream EXCEPT ![c] = Tail(@)]
        /\ UNCHANGED <<conVars, connections, timing, program, hostInbox, hostDrops, view, reused>>
    BY <1>2 DEF ReceiveCompletes
  <2>2. Head(stream[c]) \in Data /\ stream' \in [Clients -> Seq(Data \ {"ABORTED"})]
    BY <1>1, <2>1
  <2>3. Receive(c, Head(stream[c])) \in Handlers
    BY <1>1, <2>2, HandlerTypes
  <2> QED BY <1>1, <2>1, <2>2, <2>3, CompletionStep
<1>3. CASE TimerExpires(c)
  <2>1. /\ timing' = timing \ {c}
        /\ ready' = Append(ready, Timer(c, "EXPIRED"))
        /\ UNCHANGED <<conVars, connections, receiving, clientVars, hostInbox, hostDrops, view, reused>>
    BY <1>3 DEF TimerExpires
  <2>2. Timer(c, "EXPIRED") \in Handlers
    BY <1>1, HandlerTypes
  <2> QED BY <1>1, <2>1, <2>2, CompletionStep DEF clientVars
<1>4. CASE RequestJoin(c) \/ SendTurn(c) \/ Quit(c)
  <2>1. UNCHANGED <<conVars, connections, ioVars, hostInbox, hostDrops, view, reused>>
    BY <1>4 DEF RequestJoin, SendTurn, Quit
  <2>2. program' \in [Clients -> {"absent", "connected", "joining", "playing", "gone"}]
    BY <1>1, <1>4 DEF RequestJoin, SendTurn, Quit
  <2>3. \E sent \in Seq(Data \ {"ABORTED"}) :
            stream' = stream \/ stream' = [stream EXCEPT ![c] = @ \o sent]
    <3>1. /\ <<"JOIN_REQUEST">> \in Seq(Data \ {"ABORTED"})
          /\ <<"TURN">> \in Seq(Data \ {"ABORTED"})
          /\ <<"EOF">> \in Seq(Data \ {"ABORTED"})
          /\ <<"DISCONNECT", "EOF">> \in Seq(Data \ {"ABORTED"})
      BY DEF Data
    <3>2. \A d : Append(stream[c], d) = stream[c] \o <<d>>
      BY <1>1
    <3>3. CASE RequestJoin(c)
      <4>1. stream' = [stream EXCEPT ![c] = @ \o <<"JOIN_REQUEST">>]
        BY <1>1, <3>2, <3>3 DEF RequestJoin
      <4> QED BY <3>1, <4>1
    <3>4. CASE SendTurn(c)
      <4>1. stream' = [stream EXCEPT ![c] = @ \o <<"TURN">>]
        BY <1>1, <3>2, <3>4 DEF SendTurn
      <4> QED BY <3>1, <4>1
    <3>5. CASE Quit(c)
      <4>1. \/ stream' = [stream EXCEPT ![c] = @ \o <<"DISCONNECT", "EOF">>]
            \/ stream' = [stream EXCEPT ![c] = @ \o <<"EOF">>]
            \/ stream' = stream
        BY <1>1, <3>2, <3>5 DEF Quit
      <4> QED BY <3>1, <4>1
    <3> QED BY <1>4, <3>3, <3>4, <3>5
  <2>4. stream' \in [Clients -> Seq(Data \ {"ABORTED"})]
    <3>1. PICK sent \in Seq(Data \ {"ABORTED"}) :
              stream' = stream \/ stream' = [stream EXCEPT ![c] = @ \o sent]
      BY <2>3
    <3>2. stream[c] \o sent \in Seq(Data \ {"ABORTED"})
      BY <1>1
    <3> QED BY <1>1, <3>1, <3>2
  <2> QED BY <2>1, <2>2, <2>4, SendingStep
<1> QED BY <1>2, <1>3, <1>4

LEMMA IInvNext == IInv /\ [Next]_vars => IInv'
<1> SUFFICES ASSUME IInv, [Next]_vars PROVE IInv'
  OBVIOUS
<1>1. CASE Poll
  BY <1>1, PollStep
<1>2. CASE HostReceives
  BY <1>2, HostReceivesStep
<1>3. CASE RelayHostDrop
  BY <1>3, RelayHostDropStep
<1>4. CASE \E s \in Slots : HostDropsPlayer(s)
  BY <1>4, HostDropsPlayerStep
<1>5. CASE \E c \in Clients : Accept(c)
  BY <1>5, AcceptStep
<1>6. CASE \E c \in Clients : \/ ReceiveCompletes(c) \/ TimerExpires(c)
                              \/ RequestJoin(c) \/ SendTurn(c) \/ Quit(c)
  BY <1>6, ClientStep
<1>7. CASE UNCHANGED vars
  BY <1>7 DEF IInv, TypeOK, NoDangling, vars, conVars, ioVars, clientVars
<1> QED BY <1>1, <1>2, <1>3, <1>4, <1>5, <1>6, <1>7 DEF Next

--------------------------------------------------------------------------------
(* The theorems.                                                           *)

LEMMA Invariance == Spec => []IInv
BY IInvInit, IInvNext, PTL DEF Spec

\* Whatever the connections do and in whatever order their handlers run, the
\* server's state stays within its types: a slot holds a connection or none, and
\* what a new player gets is one of the N slots (tcp_server.cpp, NextFree).
THEOREM TypeCorrect == Spec => []TypeOK
<1>1. IInv => TypeOK
  BY DEF IInv
<1> QED BY <1>1, Invariance, PTL

\* SendPacket and DisconnectNet never find a connection in the wrong slot, nor
\* one that is gone for good: the entries of connections are dropped with their
\* connections, also when a slot changes hands while the handlers of its former
\* owner are still queued.
THEOREM NothingDangles == Spec => []NoDangling
<1>1. IInv => NoDangling
  BY DEF IInv
<1> QED BY <1>1, Invariance, PTL

--------------------------------------------------------------------------------
(* SlotKept.  A slot is cleared by whoever has its number.  So the invariant   *)
(* also says of the connections that can still act on the server that the slot *)
(* of their number, if it was not given again too soon, is theirs or free.     *)

In(q, x) == \E i \in 1 .. Len(q) : q[i] = x

\* A handler of c is in the queue.
Has(q, c) == \E i \in 1 .. Len(q) : q[i].con = c

\* Something of c is still to be handled.
Pending(c) == c \in receiving \cup timing \/ Has(ready, c)

Operations == \A c \in Connections : Pending(c) => c \in Clients /\ socket[c] # "unused"

Registered == \A c \in Connections : plr[c] # PLR_BROADCAST => socket[c] # "unused"

NoThreat ==
    \A c \in Connections :
        Alive(c) /\ plr[c] \notin reused \cup {PLR_BROADCAST} =>
            connections[plr[c]] \in {c, NoConnection}

Parts == Operations /\ Registered /\ NoThreat /\ SlotKept

KInv == IInv /\ Parts

LEMMA AliveMeaning == \A c : Alive(c) <=> socket[c] = "open" \/ Pending(c)
BY DEF Alive, Pending, Has

--------------------------------------------------------------------------------
(* The queue of handlers.                                                       *)

LEMMA QueueTail ==
    ASSUME NEW q \in Seq(Handlers), q # <<>>
    PROVE  /\ Head(q) \in Handlers /\ In(q, Head(q)) /\ Has(q, Head(q).con)
           /\ Tail(q) \in Seq(Handlers)
           /\ \A x : In(Tail(q), x) => In(q, x)
           /\ \A x : In(q, x) => x = Head(q) \/ In(Tail(q), x)
           /\ \A d : Has(Tail(q), d) => Has(q, d)
<1>1. Tail(q) \in Seq(Handlers) /\ Head(q) \in Handlers /\ Head(q) = q[1]
  OBVIOUS
<1>2. Len(q) \in Nat \ {0} /\ Len(Tail(q)) = Len(q) - 1
  OBVIOUS
<1>3. \A i \in 1 .. Len(Tail(q)) : Tail(q)[i] = q[i + 1] /\ i + 1 \in 1 .. Len(q)
  BY <1>2
<1>4. In(q, Head(q)) /\ Has(q, Head(q).con)
  BY <1>1, <1>2 DEF In, Has
<1>5. \A x : In(Tail(q), x) => In(q, x)
  BY <1>3 DEF In
<1>6. \A d : Has(Tail(q), d) => Has(q, d)
  BY <1>3 DEF Has
<1>7. ASSUME NEW x, In(q, x) PROVE x = Head(q) \/ In(Tail(q), x)
  <2>1. PICK i \in 1 .. Len(q) : q[i] = x
    BY <1>7 DEF In
  <2>2. CASE i = 1
    BY <1>1, <2>1, <2>2
  <2>3. CASE i # 1
    <3>1. i - 1 \in 1 .. Len(Tail(q)) /\ Tail(q)[i - 1] = q[i]
      BY <1>2, <2>3
    <3> QED BY <2>1, <3>1 DEF In
  <2> QED BY <2>2, <2>3
<1> QED BY <1>1, <1>4, <1>5, <1>6, <1>7

LEMMA InAppended ==
    ASSUME NEW q \in Seq(Handlers), NEW h \in Handlers
    PROVE  /\ Append(q, h) \in Seq(Handlers)
           /\ \A x : In(q, x) => In(Append(q, h), x)
           /\ In(Append(q, h), h)
           /\ \A d : Has(Append(q, h), d) => Has(q, d) \/ d = h.con
<1> DEFINE longer == Append(q, h)
<1>1. longer \in Seq(Handlers) /\ Len(q) \in Nat /\ Len(longer) = Len(q) + 1
  OBVIOUS
<1>2. (\A i \in 1 .. Len(q) : longer[i] = q[i]) /\ longer[Len(q) + 1] = h
  OBVIOUS
<1>3. \A i \in 1 .. Len(longer) : i \in 1 .. Len(q) \/ i = Len(q) + 1
  BY <1>1
<1> HIDE DEF longer
<1>4. (\A x : In(q, x) => In(longer, x)) /\ In(longer, h)
  BY <1>1, <1>2 DEF In
<1>5. \A d : Has(longer, d) => Has(q, d) \/ d = h.con
  BY <1>2, <1>3 DEF Has
<1> QED BY <1>1, <1>4, <1>5 DEF longer

\* Closing a connection adds what was outstanding, and hides nothing.
LEMMA CloseQueue ==
    ASSUME NEW c \in Connections, NEW rest \in Seq(Handlers), Close(c, rest)
    PROVE  /\ \A x : In(rest, x) => In(ready', x)
           /\ c \in receiving => In(ready', Receive(c, "ABORTED"))
           /\ \A d : Has(ready', d) => Has(rest, d) \/ (d = c /\ c \in receiving \cup timing)
<1> DEFINE timer == Timer(c, "ABORTED")
           receive == Receive(c, "ABORTED")
           timers == IF c \in timing THEN Append(rest, timer) ELSE rest
<1>1. timer \in Handlers /\ receive \in Handlers /\ timer.con = c /\ receive.con = c
  BY HandlerTypes DEF Data, Timer, Receive
<1> HIDE DEF timer, receive
<1>2. /\ timers \in Seq(Handlers) /\ \A x : In(rest, x) => In(timers, x)
      /\ \A d : Has(timers, d) => Has(rest, d) \/ (d = c /\ c \in timing)
  <2>1. CASE c \in timing
    BY <1>1, <2>1, InAppended
  <2>2. CASE c \notin timing
    BY <2>2
  <2> QED BY <2>1, <2>2
<1>3. ready' = IF c \in receiving THEN Append(timers, receive) ELSE timers
  <2>1. ready' = rest \o (IF c \in timing THEN <<timer>> ELSE <<>>)
                      \o (IF c \in receiving THEN <<receive>> ELSE <<>>)
    BY DEF Close, timer, receive
  <2>2. timers = rest \o (IF c \in timing THEN <<timer>> ELSE <<>>)
    BY <1>1
  <2> HIDE DEF timers
  <2>3. ready' = timers \o (IF c \in receiving THEN <<receive>> ELSE <<>>)
    BY <2>1, <2>2
  <2> QED BY <2>3, <1>1, <1>2
<1> HIDE DEF timers
<1>4. CASE c \in receiving
  BY <1>1, <1>2, <1>3, <1>4, InAppended DEF receive
<1>5. CASE c \notin receiving
  BY <1>2, <1>3, <1>5
<1> QED BY <1>4, <1>5

--------------------------------------------------------------------------------
(* The steps.                                                                   *)

\* A step that registers nobody.  It may clear a slot, but not that of a player
\* whose connection stays open.
LEMMA Keeps ==
    ASSUME KInv, TypeOK', UNCHANGED <<plr, reused>>,
           \A c \in Connections :
               /\ Pending(c)' => Pending(c)
               /\ socket[c] # "unused" => socket'[c] # "unused"
               /\ socket'[c] = "open" => socket[c] = "open",
           \A s \in Slots : connections'[s] \in {connections[s], NoConnection},
           \A c \in Connections :
               socket'[c] = "open" /\ plr[c] \notin reused \cup {PLR_BROADCAST} =>
                   connections'[plr[c]] = connections[plr[c]]
    PROVE  Parts'
<1>1. TypeOK /\ Operations /\ Registered /\ NoThreat /\ SlotKept
  BY DEF KInv, Parts, IInv
<1>2. \A c \in Connections : Alive(c)' => Alive(c)
  BY AliveMeaning DEF Alive, Pending, Has
<1>3. \A c \in Connections : plr[c] # PLR_BROADCAST => plr[c] \in Slots
  BY <1>1 DEF TypeOK
<1>4. Operations' /\ Registered'
  BY <1>1 DEF Operations, Registered
<1>5. NoThreat'
  BY <1>1, <1>2, <1>3 DEF NoThreat
<1>6. SlotKept'
  BY <1>1, <1>3 DEF SlotKept
<1> QED BY <1>4, <1>5, <1>6 DEF Parts

\* h was at the front of the queue, and rest is what is behind it.
Front(h, rest) ==
    /\ h \in Handlers /\ In(ready, h) /\ Has(ready, h.con)
    /\ rest \in Seq(Handlers)
    /\ \A x : In(rest, x) => In(ready, x)
    /\ \A x : In(ready, x) => x = h \/ In(rest, x)
    /\ \A d : Has(rest, d) => Has(ready, d)

LEMMA DropKeeps ==
    ASSUME KInv, TypeOK', NEW h, NEW rest, Front(h, rest), DropConnection(h.con, rest),
           UNCHANGED <<plr, reused>>
    PROVE  Parts'
<1> DEFINE c == h.con
           x == plr[c]
<1>1. /\ TypeOK /\ NoThreat /\ SlotKept /\ c \in Connections /\ Pending(c) /\ Close(c, rest)
      /\ rest \in Seq(Handlers) /\ \A d : Has(rest, d) => Has(ready, d)
  BY DEF KInv, Parts, IInv, Front, Handlers, Pending, DropConnection
<1>2. \/ x = PLR_BROADCAST /\ connections' = connections
      \/ x # PLR_BROADCAST /\ connections' = [connections EXCEPT ![x] = NoConnection]
  BY DEF DropConnection
<1> HIDE DEF c
<1>3. \A d \in Connections : /\ Pending(d)' => Pending(d)
                             /\ socket[d] # "unused" => socket'[d] # "unused"
                             /\ socket'[d] = "open" => socket[d] = "open" /\ d # c
  <2>1. \A d : Has(ready', d) => Has(rest, d) \/ (d = c /\ c \in receiving \cup timing)
    BY <1>1, CloseQueue
  <2>2. /\ socket' = [socket EXCEPT ![c] = "closed"]
        /\ receiving' = receiving \ {c} /\ timing' = timing \ {c}
    BY <1>1 DEF Close
  <2>3. \A d \in Connections : Pending(d)' => Pending(d)
    BY <1>1, <2>1, <2>2 DEF Pending
  <2> QED BY <1>1, <2>2, <2>3 DEF TypeOK
<1>4. \A s \in Slots : connections'[s] \in {connections[s], NoConnection}
  BY <1>1, <1>2 DEF TypeOK
<1>5. ASSUME NEW d \in Connections, socket'[d] = "open",
             plr[d] \notin reused \cup {PLR_BROADCAST}
      PROVE  connections'[plr[d]] = connections[plr[d]]
  <2>1. socket[d] = "open" /\ d # c /\ connections[plr[d]] = d /\ d # NoConnection
    BY <1>1, <1>3, <1>5, SlotTypes DEF SlotKept
  <2>2. plr[d] # x
    <3> SUFFICES ASSUME plr[d] = x PROVE FALSE
      OBVIOUS
    <3>1. connections[x] \in {c, NoConnection}
      BY <1>1, <1>5, AliveMeaning DEF NoThreat
    <3> QED BY <2>1, <3>1
  <2>3. plr[d] \in Slots
    BY <1>1, <1>5 DEF TypeOK
  <2> QED BY <1>1, <1>2, <2>2, <2>3 DEF TypeOK
<1> QED BY <1>3, <1>4, <1>5, Keeps

LEMMA DisconnectKeeps ==
    ASSUME KInv, TypeOK', NEW s \in Slots,
           DisconnectNet(s) \/ UNCHANGED <<socket, ioVars, connections>>,
           UNCHANGED <<plr, reused>>
    PROVE  Parts'
<1>1. TypeOK /\ SlotKept /\ ready \in Seq(Handlers)
  BY DEF KInv, Parts, IInv, TypeOK
<1>2. CASE UNCHANGED <<socket, ioVars, connections>>
  BY <1>2, Keeps DEF Pending, ioVars
<1>3. CASE DisconnectNet(s) /\ connections[s] # NoConnection
  <2> DEFINE c == connections[s]
  <2>1. /\ c \in Connections /\ Close(c, ready)
        /\ connections' = [connections EXCEPT ![s] = NoConnection]
    BY <1>1, <1>3 DEF DisconnectNet, TypeOK
  <2> HIDE DEF c
  <2>2. \A d \in Connections : /\ Pending(d)' => Pending(d)
                               /\ socket[d] # "unused" => socket'[d] # "unused"
                               /\ socket'[d] = "open" => socket[d] = "open" /\ d # c
    <3>1. \A d : Has(ready', d) => Has(ready, d) \/ (d = c /\ c \in receiving \cup timing)
      BY <1>1, <2>1, CloseQueue
    <3>2. /\ socket' = [socket EXCEPT ![c] = "closed"]
          /\ receiving' = receiving \ {c} /\ timing' = timing \ {c}
      BY <2>1 DEF Close
    <3>3. \A d \in Connections : Pending(d)' => Pending(d)
      BY <3>1, <3>2 DEF Pending
    <3> QED BY <1>1, <2>1, <3>2, <3>3 DEF TypeOK
  <2>3. \A t \in Slots : connections'[t] \in {connections[t], NoConnection}
    BY <1>1, <2>1 DEF TypeOK
  <2>4. ASSUME NEW d \in Connections, socket'[d] = "open",
               plr[d] \notin reused \cup {PLR_BROADCAST}
        PROVE  connections'[plr[d]] = connections[plr[d]]
    <3>1. connections[plr[d]] = d /\ d # c /\ plr[d] \in Slots
      BY <1>1, <2>2, <2>4 DEF SlotKept, TypeOK
    <3> QED BY <1>1, <2>1, <3>1 DEF TypeOK, c
  <2> QED BY <2>2, <2>3, <2>4, Keeps
<1>4. CASE DisconnectNet(s) /\ connections[s] = NoConnection
  <2>1. UNCHANGED <<socket, ioVars, connections>>
    BY <1>4 DEF DisconnectNet
  <2> QED BY <1>2, <2>1
<1> QED BY <1>2, <1>3, <1>4

\* A receive that is started again, or that fails again.
LEMMA StartReceivePending ==
    ASSUME TypeOK, NEW h, NEW rest, Front(h, rest), StartReceive(h.con, rest), timing' = timing
    PROVE  \A d \in Connections : Pending(d)' => Pending(d)
<1>1. /\ h.con \in Connections /\ rest \in Seq(Handlers) /\ Has(ready, h.con)
      /\ \A d : Has(rest, d) => Has(ready, d)
  BY DEF Front, Handlers
<1>2. CASE socket[h.con] = "open"
  BY <1>1, <1>2 DEF StartReceive, Pending
<1>3. CASE socket[h.con] # "open"
  <2> DEFINE failed == Receive(h.con, "ABORTED")
  <2>1. ready' = Append(rest, failed) /\ receiving' = receiving
    BY <1>3 DEF StartReceive
  <2>2. failed \in Handlers /\ failed.con = h.con
    BY <1>1, HandlerTypes DEF Data, Receive
  <2> HIDE DEF failed
  <2>3. \A d : Has(ready', d) => Has(rest, d) \/ d = h.con
    BY <1>1, <2>1, <2>2, InAppended
  <2> QED BY <1>1, <2>1, <2>3 DEF Pending
<1> QED BY <1>2, <1>3

LEMMA NewPlayerKeeps ==
    ASSUME KInv, TypeOK', NEW h, NEW rest, Front(h, rest), plr[h.con] = PLR_BROADCAST,
           NewPlayer(h.con, rest)
    PROVE  Parts'
<1> DEFINE c == h.con
<1>1. /\ TypeOK /\ Operations /\ Registered /\ NoThreat /\ SlotKept /\ c \in Connections
      /\ Pending(c)
  BY DEF KInv, Parts, IInv, Front, Handlers, Pending
<1>2. PICK x \in Slots :
        /\ IsNextFree(x)
        /\ plr' = [plr EXCEPT ![c] = x]
        /\ connections' = [connections EXCEPT ![x] = c]
        /\ reused' = IF FormerOwner(x) THEN reused \cup {x} ELSE reused \ {x}
        /\ StartReceive(c, rest) /\ UNCHANGED <<socket, timing>>
  BY DEF NewPlayer
<1>3. \A d \in Connections : Pending(d)' => Pending(d)
  BY <1>1, <1>2, StartReceivePending
<1> HIDE DEF c
<1>4. /\ plr'[c] = x /\ \A d \in Connections \ {c} : plr'[d] = plr[d]
      /\ connections'[x] = c /\ \A s \in Slots \ {x} : connections'[s] = connections[s]
      /\ \A d \in Connections : plr[d] # PLR_BROADCAST => plr[d] \in Slots
      /\ x # PLR_BROADCAST /\ plr[c] = PLR_BROADCAST
  BY <1>1, <1>2, SlotTypes DEF TypeOK, c
<1>5. \A d \in Connections : Alive(d)' => Alive(d)
  BY <1>2, <1>3 DEF Alive, Pending, Has
<1>6. Operations' /\ Registered'
  BY <1>1, <1>2, <1>3, <1>4 DEF Operations, Registered
\* If the slot counts, nobody else that can still act has its number.
<1>7. ASSUME NEW d \in Connections, Alive(d), plr'[d] = x, x \notin reused'
      PROVE  d = c
  <2>1. ~ FormerOwner(x)
    BY <1>2, <1>7
  <2> QED BY <1>4, <1>7, <2>1 DEF FormerOwner
<1>8. \A s \in Slots \ {x} : s \in reused' <=> s \in reused
  BY <1>2
<1>9. NoThreat'
  <2> SUFFICES ASSUME NEW d \in Connections, Alive(d)', plr'[d] \notin reused' \cup {PLR_BROADCAST}
               PROVE  connections'[plr'[d]] \in {d, NoConnection}
    BY DEF NoThreat
  <2>1. Alive(d)
    BY <1>5
  <2>2. CASE plr'[d] = x
    BY <1>4, <1>7, <2>1, <2>2
  <2>3. CASE plr'[d] # x
    BY <1>1, <1>4, <1>8, <2>1, <2>3 DEF NoThreat
  <2> QED BY <2>2, <2>3
<1>10. SlotKept'
  <2> SUFFICES ASSUME NEW d \in Connections, socket'[d] = "open",
                      plr'[d] \notin reused' \cup {PLR_BROADCAST}
               PROVE  connections'[plr'[d]] = d
    BY DEF SlotKept
  <2>1. Alive(d) /\ socket[d] = "open"
    BY <1>2 DEF Alive
  <2>2. CASE plr'[d] = x
    BY <1>4, <1>7, <2>1, <2>2
  <2>3. CASE plr'[d] # x
    BY <1>1, <1>4, <1>8, <2>1, <2>3 DEF SlotKept
  <2> QED BY <2>2, <2>3
<1> QED BY <1>6, <1>9, <1>10 DEF Parts

\* A relayed packet and a timer that goes on.
LEMMA RearmKeeps ==
    ASSUME KInv, TypeOK', NEW h, NEW rest, Front(h, rest),
           UNCHANGED <<socket, plr, connections, reused>>,
           \/ StartReceive(h.con, rest) /\ timing' = timing
           \/ ready' = rest /\ timing' = timing \cup {h.con} /\ receiving' = receiving
    PROVE  Parts'
<1>1. TypeOK /\ Has(ready, h.con) /\ \A d : Has(rest, d) => Has(ready, d)
  BY DEF KInv, IInv, Front
<1>2. \A d \in Connections : Pending(d)' => Pending(d)
  BY <1>1, StartReceivePending DEF Pending
<1> QED BY <1>2, Keeps

LEMMA PollKeeps ==
    ASSUME KInv, TypeOK', Poll
    PROVE  Parts'
<1> DEFINE h == Head(ready)
           rest == Tail(ready)
<1>1. Front(h, rest)
  <2>1. ready \in Seq(Handlers) /\ ready # <<>>
    BY DEF KInv, IInv, TypeOK, Poll
  <2> QED BY <2>1, QueueTail DEF Front
<1>2. \/ HandleReceive(h.con, h.data, rest)
      \/ HandleTimeout(h.con, h.data, rest) /\ UNCHANGED reused
  BY DEF Poll
<1> HIDE DEF h, rest
<1>3. CASE DropConnection(h.con, rest) /\ UNCHANGED <<plr, reused>>
  BY <1>1, <1>3, DropKeeps
<1>4. CASE NewPlayer(h.con, rest) /\ plr[h.con] = PLR_BROADCAST
  BY <1>1, <1>4, NewPlayerKeeps
<1>5. CASE RelayPacket(h.con, h.data, rest)
  BY <1>1, <1>5, RearmKeeps DEF RelayPacket
<1>6. CASE HandleTimeout(h.con, h.data, rest) /\ UNCHANGED reused
  <2>1. CASE h.data = "ABORTED" \/ timeout[h.con] <= 1
    BY <1>3, <1>6, <2>1 DEF HandleTimeout
  <2>2. CASE ~ (h.data = "ABORTED" \/ timeout[h.con] <= 1)
    <3>1. /\ ready' = rest /\ timing' = timing \cup {h.con} /\ receiving' = receiving
          /\ UNCHANGED <<socket, plr, connections, reused>>
      BY <1>6, <2>2 DEF HandleTimeout
    <3> QED BY <1>1, <3>1, RearmKeeps
  <2> QED BY <2>1, <2>2
<1> QED BY <1>2, <1>3, <1>4, <1>5, <1>6 DEF HandleReceive, RefusePlayer

LEMMA AcceptKeeps ==
    ASSUME KInv, NEW c \in Clients, Accept(c)
    PROVE  Parts'
<1>1. TypeOK /\ Operations /\ Registered /\ NoThreat /\ SlotKept /\ c \in Connections
  BY DEF KInv, Parts, IInv, Connections
<1>2. socket[c] = "unused" /\ UNCHANGED <<plr, connections, ready, reused>>
  BY DEF Accept
<1>3. plr[c] = PLR_BROADCAST
  BY <1>1, <1>2 DEF Registered
<1>4. /\ socket'[c] # "unused" /\ \A d \in Connections \ {c} : socket'[d] = socket[d]
      /\ receiving' \subseteq receiving \cup {c} /\ timing' \subseteq timing \cup {c}
  BY <1>1 DEF Accept, TypeOK
<1>5. \A d \in Connections \ {c} : (Pending(d)' => Pending(d)) /\ (Alive(d)' => Alive(d))
  BY <1>2, <1>4 DEF Pending, Alive
<1>6. Operations' /\ Registered'
  BY <1>1, <1>2, <1>4, <1>5 DEF Operations, Registered
<1>7. NoThreat' /\ SlotKept'
  BY <1>1, <1>2, <1>3, <1>4, <1>5 DEF NoThreat, SlotKept
<1> QED BY <1>6, <1>7 DEF Parts

\* An operation that completes, and what the programs send.
LEMMA ClientKeeps ==
    ASSUME KInv, TypeOK', NEW c \in Clients,
           \/ ReceiveCompletes(c) \/ TimerExpires(c)
           \/ RequestJoin(c) \/ SendTurn(c) \/ Quit(c)
    PROVE  Parts'
<1>1. /\ TypeOK /\ c \in Connections /\ ready \in Seq(Handlers)
      /\ stream[c] \in Seq(Data \ {"ABORTED"})
  BY DEF KInv, IInv, TypeOK, Connections
<1>2. UNCHANGED <<socket, plr, connections, reused>>
  BY DEF ReceiveCompletes, TimerExpires, RequestJoin, SendTurn, Quit, conVars
<1>3. \A d \in Connections : Pending(d)' => Pending(d)
  <2>1. CASE ReceiveCompletes(c)
    <3> DEFINE h == Receive(c, Head(stream[c]))
    <3>1. /\ ready' = Append(ready, h) /\ receiving' = receiving \ {c} /\ timing' = timing
          /\ c \in receiving /\ Head(stream[c]) \in Data
      BY <1>1, <2>1 DEF ReceiveCompletes
    <3>2. h \in Handlers /\ h.con = c
      BY <1>1, <3>1, HandlerTypes DEF Receive
    <3> HIDE DEF h
    <3>3. \A d : Has(ready', d) => Has(ready, d) \/ d = c
      BY <1>1, <3>1, <3>2, InAppended
    <3> QED BY <3>1, <3>3 DEF Pending
  <2>2. CASE TimerExpires(c)
    <3> DEFINE h == Timer(c, "EXPIRED")
    <3>1. /\ ready' = Append(ready, h) /\ timing' = timing \ {c} /\ receiving' = receiving
          /\ c \in timing
      BY <2>2 DEF TimerExpires
    <3>2. h \in Handlers /\ h.con = c
      BY <1>1, HandlerTypes DEF Timer
    <3> HIDE DEF h
    <3>3. \A d : Has(ready', d) => Has(ready, d) \/ d = c
      BY <1>1, <3>1, <3>2, InAppended
    <3> QED BY <3>1, <3>3 DEF Pending
  <2>3. CASE RequestJoin(c) \/ SendTurn(c) \/ Quit(c)
    BY <2>3 DEF RequestJoin, SendTurn, Quit, ioVars, Pending
  <2> QED BY <2>1, <2>2, <2>3
<1> QED BY <1>2, <1>3, Keeps

LEMMA HostKeeps ==
    ASSUME KInv, TypeOK', HostReceives \/ \E s \in Slots : HostDropsPlayer(s)
    PROVE  Parts'
<1>1. CASE HostReceives
  <2>0. hostInbox # <<>> /\ hostInbox \in Seq(HostPackets)
    BY <1>1 DEF HostReceives, KInv, IInv, TypeOK
  <2>1. Head(hostInbox).player \in Slots
    <3>1. Head(hostInbox) \in HostPackets
      BY <2>0
    <3> QED BY <3>1 DEF HostPackets
  <2>2. /\ \/ DisconnectNet(Head(hostInbox).player)
           \/ UNCHANGED <<socket, ioVars, connections>>
        /\ UNCHANGED <<plr, reused>>
    BY <1>1 DEF HostReceives
  <2> QED BY <2>1, <2>2, DisconnectKeeps
<1>2. CASE \E s \in Slots : HostDropsPlayer(s)
  BY <1>2, DisconnectKeeps DEF HostDropsPlayer
<1> QED BY <1>1, <1>2

LEMMA KInvInit == Init => KInv
<1> SUFFICES ASSUME Init PROVE KInv
  OBVIOUS
<1>1. IInv
  BY IInvInit
<1>2. \A c \in Connections : c # HostConnection => plr[c] = PLR_BROADCAST /\ socket[c] = "unused"
  BY DEF Init
<1>3. plr[HostConnection] = HostSlot /\ connections[HostSlot] = HostConnection
      /\ socket[HostConnection] = "open"
  BY SlotTypes DEF Init
<1>4. Operations
  BY DEF Init, Operations, Pending, Has
<1> QED BY <1>1, <1>2, <1>3, <1>4 DEF KInv, Parts, Registered, NoThreat, SlotKept

LEMMA KInvNext == KInv /\ [Next]_vars => KInv'
<1> SUFFICES ASSUME KInv, [Next]_vars PROVE KInv'
  OBVIOUS
<1>0. IInv' /\ TypeOK'
  BY IInvNext DEF KInv, IInv
<1> SUFFICES Parts'
  BY <1>0 DEF KInv
<1>1. CASE Poll
  BY <1>0, <1>1, PollKeeps
<1>2. CASE HostReceives \/ \E s \in Slots : HostDropsPlayer(s)
  BY <1>0, <1>2, HostKeeps
<1>3. CASE RelayHostDrop \/ UNCHANGED vars
  <2>1. UNCHANGED <<socket, plr, connections, receiving, timing, ready, reused>>
    BY <1>3 DEF RelayHostDrop, vars, conVars, ioVars
  <2>2. \A c \in Connections : Pending(c)' => Pending(c)
    BY <2>1 DEF Pending
  <2> QED BY <1>0, <2>1, <2>2, Keeps
<1>4. CASE \E c \in Clients : Accept(c)
  BY <1>4, AcceptKeeps
<1>5. CASE \E c \in Clients : \/ ReceiveCompletes(c) \/ TimerExpires(c)
                              \/ RequestJoin(c) \/ SendTurn(c) \/ Quit(c)
  BY <1>0, <1>5, ClientKeeps
<1> QED BY <1>1, <1>2, <1>3, <1>4, <1>5 DEF Next

\* Whoever plays on an open connection keeps its slot, for any number of programs
\* that come and go, time out or are dropped, in any order of their handlers, if it
\* got the slot when nothing was left of a former owner: a drop that
\* tcp_server::DropConnection repeats for each cancelled handler, and whatever the
\* host disconnects (DisconnectNet), clears the slot of no other player.
THEOREM SlotsKept == Spec => []SlotKept
<1>1. KInv /\ [Next]_vars => KInv'
  BY KInvNext
<1>2. KInv => SlotKept
  BY DEF KInv, Parts
<1> QED BY <1>1, <1>2, KInvInit, PTL DEF Spec

--------------------------------------------------------------------------------
(* PeersAgree: what the programs are told, and when, makes them agree.          *)

\* The host's connection keeps its slot, and no other one gets it.
HostSettled ==
    /\ connections[HostSlot] = HostConnection
    /\ \A c \in Connections : plr[c] = HostSlot => c = HostConnection

\* The server listens to every open connection: it will find out if it is closed.
Listening(c) == c \in receiving \/ \E data \in Data : In(ready, Receive(c, data))
Listens == \A c \in Clients : socket[c] = "open" => Listening(c)

\* The connection that had slot s is closed, and the server has yet to find out.
LosingIn(q, s) ==
    \E c \in Clients :
        plr[c] = s /\ socket[c] = "closed" /\ \E data \in Data : In(q, Receive(c, data))
Losing(s) == LosingIn(ready, s)

\* What a program believes once it has read what it was sent: the last packet counts.
HostPacket(type, s) == [type |-> type, player |-> s]
Leaves(s) == In(hostInbox, HostPacket("LEAVES", s))
HostBelieves(s) ==
    \/ /\ s \in view[HostConnection]
       /\ \A i \in 1 .. Len(hostInbox) : hostInbox[i].player # s
    \/ \E i \in 1 .. Len(hostInbox) :
           /\ hostInbox[i] = HostPacket("KNOWS", s)
           /\ \A j \in i + 1 .. Len(hostInbox) : hostInbox[j].player # s
Believes(c, s) == IF c = HostConnection THEN HostBelieves(s) ELSE s \in view[c]

\* A program that does not know a player does so because that one is leaving, and one
\* that knows somebody without a connection will be told, when the server finds out.
\* Slots that were given again too soon do not count.
Views ==
    \A t \in Taken, s \in Slots \ reused :
        /\ s \in Taken /\ ~ Believes(connections[t], s) => Leaves(s)
        /\ Believes(connections[t], s) /\ s \notin Taken => Losing(s)

\* The host relays that it has dropped somebody before the slot is given again.
Drops == \A i \in 1 .. Len(hostDrops) : hostDrops[i] \notin Taken \ reused

\* The host is told of others only.
OthersOnly == \A i \in 1 .. Len(hostInbox) : hostInbox[i].player # HostSlot

VInv == KInv /\ HostSettled /\ Listens /\ Drops /\ Views /\ OthersOnly

--------------------------------------------------------------------------------
(* What the host believes.                                                      *)

LEMMA HostAppend ==
    ASSUME TypeOK, NEW p \in HostPackets, hostInbox' = Append(hostInbox, p),
           view'[HostConnection] = view[HostConnection], NEW s \in Slots
    PROVE  /\ HostBelieves(s)' <=> IF p.player = s THEN p.type = "KNOWS" ELSE HostBelieves(s)
           /\ Leaves(s)' <=> Leaves(s) \/ p = HostPacket("LEAVES", s)
<1>1. hostInbox \in Seq(HostPackets) /\ Len(hostInbox) \in Nat
  BY DEF TypeOK
<1>2. /\ Len(hostInbox') = Len(hostInbox) + 1
      /\ \A i \in 1 .. Len(hostInbox) : hostInbox'[i] = hostInbox[i]
      /\ hostInbox'[Len(hostInbox) + 1] = p
  BY <1>1
<1>3. Leaves(s)' <=> Leaves(s) \/ p = HostPacket("LEAVES", s)
  BY <1>1, <1>2 DEF Leaves, In, HostPacket
<1>4. CASE p.player = s
  <2>1. ASSUME HostBelieves(s)' PROVE p.type = "KNOWS"
    <3>1. PICK i \in 1 .. Len(hostInbox') :
                  /\ hostInbox'[i] = HostPacket("KNOWS", s)
                  /\ \A j \in i + 1 .. Len(hostInbox') : hostInbox'[j].player # s
      BY <2>1, <1>1, <1>2, <1>4 DEF HostBelieves, HostPacket
    <3>2. i = Len(hostInbox) + 1
      BY <3>1, <1>1, <1>2, <1>4
    <3> QED BY <3>1, <3>2, <1>2 DEF HostPacket
  <2>2. ASSUME p.type = "KNOWS" PROVE HostBelieves(s)'
    <3>1. p = HostPacket("KNOWS", s)
      BY <2>2, <1>4 DEF HostPackets, HostPacket
    <3> QED BY <3>1, <1>1, <1>2 DEF HostBelieves
  <2> QED BY <1>3, <1>4, <2>1, <2>2
<1>5. CASE p.player # s
  <2>1. ASSUME HostBelieves(s) PROVE HostBelieves(s)'
    <3>1. CASE s \in view[HostConnection] /\ \A i \in 1 .. Len(hostInbox) : hostInbox[i].player # s
      BY <3>1, <1>1, <1>2, <1>5 DEF HostBelieves
    <3>2. CASE \E i \in 1 .. Len(hostInbox) :
                   /\ hostInbox[i] = HostPacket("KNOWS", s)
                   /\ \A j \in i + 1 .. Len(hostInbox) : hostInbox[j].player # s
      <4>1. PICK i \in 1 .. Len(hostInbox) :
                   /\ hostInbox[i] = HostPacket("KNOWS", s)
                   /\ \A j \in i + 1 .. Len(hostInbox) : hostInbox[j].player # s
        BY <3>2
      <4>2. i \in 1 .. Len(hostInbox') /\ hostInbox'[i] = HostPacket("KNOWS", s)
        BY <4>1, <1>1, <1>2
      <4>3. \A j \in i + 1 .. Len(hostInbox') : hostInbox'[j].player # s
        BY <4>1, <1>1, <1>2, <1>5
      <4> QED BY <4>2, <4>3 DEF HostBelieves
    <3> QED BY <2>1, <3>1, <3>2 DEF HostBelieves
  <2>2. ASSUME HostBelieves(s)' PROVE HostBelieves(s)
    <3>1. CASE s \in view'[HostConnection]
               /\ \A i \in 1 .. Len(hostInbox') : hostInbox'[i].player # s
      BY <3>1, <1>1, <1>2 DEF HostBelieves
    <3>2. CASE \E i \in 1 .. Len(hostInbox') :
                   /\ hostInbox'[i] = HostPacket("KNOWS", s)
                   /\ \A j \in i + 1 .. Len(hostInbox') : hostInbox'[j].player # s
      <4>1. PICK i \in 1 .. Len(hostInbox') :
                   /\ hostInbox'[i] = HostPacket("KNOWS", s)
                   /\ \A j \in i + 1 .. Len(hostInbox') : hostInbox'[j].player # s
        BY <3>2
      <4>2. i \in 1 .. Len(hostInbox) /\ hostInbox[i] = HostPacket("KNOWS", s)
        BY <4>1, <1>1, <1>2, <1>5 DEF HostPacket
      <4>3. \A j \in i + 1 .. Len(hostInbox) : hostInbox[j].player # s
        BY <4>1, <4>2, <1>1, <1>2
      <4> QED BY <4>2, <4>3 DEF HostBelieves
    <3> QED BY <2>2, <3>1, <3>2 DEF HostBelieves
  <2>3. p # HostPacket("LEAVES", s)
    BY <1>5 DEF HostPacket
  <2> QED BY <1>3, <1>5, <2>1, <2>2, <2>3
<1> QED BY <1>4, <1>5

\* Reading a packet does not change what the host will believe.
LEMMA HostReads ==
    ASSUME TypeOK, hostInbox # <<>>, hostInbox' = Tail(hostInbox),
           view'[HostConnection] = IF Head(hostInbox).type = "KNOWS"
                                   THEN view[HostConnection] \cup {Head(hostInbox).player}
                                   ELSE view[HostConnection] \ {Head(hostInbox).player},
           NEW s \in Slots
    PROVE  /\ HostBelieves(s)' <=> HostBelieves(s)
           /\ Leaves(s) <=> Leaves(s)' \/ Head(hostInbox) = HostPacket("LEAVES", s)
<1> DEFINE p == Head(hostInbox)
<1>1. hostInbox \in Seq(HostPackets) /\ Len(hostInbox) \in Nat \ {0} /\ p = hostInbox[1]
      /\ p \in HostPackets
  BY DEF TypeOK
<1>2. /\ Len(hostInbox') = Len(hostInbox) - 1
      /\ \A i \in 1 .. Len(hostInbox') : hostInbox'[i] = hostInbox[i + 1]
  BY <1>1
<1>3. p = [type |-> p.type, player |-> p.player]
  BY <1>1 DEF HostPackets
<1> HIDE DEF p
<1>4. Leaves(s) <=> Leaves(s)' \/ p = HostPacket("LEAVES", s)
  <2>1. ASSUME Leaves(s) PROVE Leaves(s)' \/ p = HostPacket("LEAVES", s)
    <3>1. PICK i \in 1 .. Len(hostInbox) : hostInbox[i] = HostPacket("LEAVES", s)
      BY <2>1 DEF Leaves, In
    <3>2. CASE i = 1
      BY <3>1, <3>2, <1>1
    <3>3. CASE i # 1
      <4>1. i - 1 \in 1 .. Len(hostInbox') /\ hostInbox'[i - 1] = hostInbox[i]
        BY <3>3, <1>1, <1>2
      <4> QED BY <3>1, <4>1 DEF Leaves, In
    <3> QED BY <3>2, <3>3
  <2>2. ASSUME Leaves(s)' PROVE Leaves(s)
    <3>1. PICK i \in 1 .. Len(hostInbox') : hostInbox'[i] = HostPacket("LEAVES", s)
      BY <2>2 DEF Leaves, In
    <3>2. i + 1 \in 1 .. Len(hostInbox) /\ hostInbox[i + 1] = hostInbox'[i]
      BY <1>1, <1>2
    <3> QED BY <3>1, <3>2 DEF Leaves, In
  <2>3. ASSUME p = HostPacket("LEAVES", s) PROVE Leaves(s)
    BY <2>3, <1>1 DEF Leaves, In
  <2> QED BY <2>1, <2>2, <2>3
<1>5. ASSUME HostBelieves(s) PROVE HostBelieves(s)'
  <2>1. CASE s \in view[HostConnection] /\ \A i \in 1 .. Len(hostInbox) : hostInbox[i].player # s
    <3>1. p.player # s
      BY <2>1, <1>1
    <3>2. s \in view'[HostConnection]
      BY <2>1, <3>1 DEF p
    <3>3. \A i \in 1 .. Len(hostInbox') : hostInbox'[i].player # s
      BY <2>1, <1>1, <1>2
    <3> QED BY <3>2, <3>3 DEF HostBelieves
  <2>2. CASE \E i \in 1 .. Len(hostInbox) :
                 /\ hostInbox[i] = HostPacket("KNOWS", s)
                 /\ \A j \in i + 1 .. Len(hostInbox) : hostInbox[j].player # s
    <3>1. PICK i \in 1 .. Len(hostInbox) :
                 /\ hostInbox[i] = HostPacket("KNOWS", s)
                 /\ \A j \in i + 1 .. Len(hostInbox) : hostInbox[j].player # s
      BY <2>2
    <3>2. CASE i = 1
      <4>1. p.type = "KNOWS" /\ p.player = s
        BY <3>1, <3>2, <1>1 DEF HostPacket
      <4>2. s \in view'[HostConnection]
        BY <4>1 DEF p
      <4>3. \A j \in 1 .. Len(hostInbox') : hostInbox'[j].player # s
        BY <3>1, <3>2, <1>1, <1>2
      <4> QED BY <4>2, <4>3 DEF HostBelieves
    <3>3. CASE i # 1
      <4>1. i - 1 \in 1 .. Len(hostInbox') /\ hostInbox'[i - 1] = HostPacket("KNOWS", s)
        BY <3>1, <3>3, <1>1, <1>2
      <4>2. \A j \in i - 1 + 1 .. Len(hostInbox') : hostInbox'[j].player # s
        BY <3>1, <1>1, <1>2
      <4> QED BY <4>1, <4>2 DEF HostBelieves
    <3> QED BY <3>2, <3>3
  <2> QED BY <1>5, <2>1, <2>2 DEF HostBelieves
<1>6. ASSUME HostBelieves(s)' PROVE HostBelieves(s)
  <2>1. CASE s \in view'[HostConnection]
             /\ \A i \in 1 .. Len(hostInbox') : hostInbox'[i].player # s
    <3>0. \A j \in 2 .. Len(hostInbox) : hostInbox[j].player # s
      <4> SUFFICES ASSUME NEW j \in 2 .. Len(hostInbox) PROVE hostInbox[j].player # s
        OBVIOUS
      <4>1. j - 1 \in 1 .. Len(hostInbox') /\ hostInbox'[j - 1] = hostInbox[j]
        BY <1>1, <1>2
      <4> QED BY <4>1, <2>1
    <3>1. CASE p.player = s
      <4>1. p.type = "KNOWS"
        BY <2>1, <3>1 DEF p
      <4>2. hostInbox[1] = HostPacket("KNOWS", s)
        BY <4>1, <3>1, <1>1, <1>3 DEF HostPacket
      <4>3. 1 \in 1 .. Len(hostInbox) /\ \A j \in 1 + 1 .. Len(hostInbox) : hostInbox[j].player # s
        BY <3>0, <1>1
      <4> QED BY <4>2, <4>3 DEF HostBelieves
    <3>2. CASE p.player # s
      <4>1. s \in view[HostConnection]
        BY <2>1, <3>2 DEF p
      <4>2. \A i \in 1 .. Len(hostInbox) : hostInbox[i].player # s
        BY <3>0, <3>2, <1>1
      <4> QED BY <4>1, <4>2 DEF HostBelieves
    <3> QED BY <3>1, <3>2
  <2>2. CASE \E i \in 1 .. Len(hostInbox') :
                 /\ hostInbox'[i] = HostPacket("KNOWS", s)
                 /\ \A j \in i + 1 .. Len(hostInbox') : hostInbox'[j].player # s
    <3>1. PICK i \in 1 .. Len(hostInbox') :
                 /\ hostInbox'[i] = HostPacket("KNOWS", s)
                 /\ \A j \in i + 1 .. Len(hostInbox') : hostInbox'[j].player # s
      BY <2>2
    <3>2. i + 1 \in 1 .. Len(hostInbox) /\ hostInbox[i + 1] = HostPacket("KNOWS", s)
      BY <3>1, <1>1, <1>2
    <3>3. \A j \in (i + 1) + 1 .. Len(hostInbox) : hostInbox[j].player # s
      <4> SUFFICES ASSUME NEW j \in (i + 1) + 1 .. Len(hostInbox) PROVE hostInbox[j].player # s
        OBVIOUS
      <4>1. j - 1 \in i + 1 .. Len(hostInbox') /\ hostInbox'[j - 1] = hostInbox[j]
        BY <3>1, <1>1, <1>2
      <4> QED BY <4>1, <3>1
    <3> QED BY <3>2, <3>3 DEF HostBelieves
  <2> QED BY <1>6, <2>1, <2>2 DEF HostBelieves
<1> QED BY <1>4, <1>5, <1>6 DEF p

\* What is sent to some players changes what they believe of one player.
LEMMA BroadcastBelief ==
    ASSUME IInv, HostSettled, NEW slots, slots \subseteq Taken, NEW source, NEW type,
           type \in {"KNOWS", "FORGETS", "LEAVES"}, NEW player \in Slots,
           Broadcast(slots, source, type, player)
    PROVE  \A t \in Taken, s \in Slots : \A c : c = connections[t] =>
               /\ Believes(c, s)' <=>
                     IF t \in slots \ {source} /\ s = player THEN type = "KNOWS" ELSE Believes(c, s)
               /\ Leaves(s) => Leaves(s)'
               /\ HostSlot \in slots \ {source} /\ type = "LEAVES" /\ s = player => Leaves(s)'
<1> SUFFICES ASSUME NEW t \in Taken, NEW s \in Slots, NEW c, c = connections[t]
             PROVE  /\ Believes(c, s)' <=>
                          IF t \in slots \ {source} /\ s = player THEN type = "KNOWS"
                          ELSE Believes(c, s)
                    /\ Leaves(s) => Leaves(s)'
                    /\ HostSlot \in slots \ {source} /\ type = "LEAVES" /\ s = player => Leaves(s)'
  OBVIOUS
<1> DEFINE told == {connections[u] : u \in slots \ {source}}
           p == HostPacket(type, player)
<1>1. TypeOK /\ HostSlot \in Slots /\ HostConnection \in Connections
  BY SlotTypes DEF IInv
<1>2. /\ view' = [d \in Connections |->
                     IF d \notin told \ {HostConnection} THEN view[d]
                     ELSE IF type = "KNOWS" THEN view[d] \cup {player}
                     ELSE view[d] \ {player}]
      /\ hostInbox' = IF HostConnection \in told THEN Append(hostInbox, p) ELSE hostInbox
  BY DEF Broadcast, HostPacket
<1>3. p \in HostPackets /\ p.type = type /\ p.player = player
  BY DEF HostPacket, HostPackets
<1>4. \A u \in Taken : u \in Slots /\ connections[u] \in Connections /\ plr[connections[u]] = u
  <2> SUFFICES ASSUME NEW u \in Taken
               PROVE  u \in Slots /\ connections[u] \in Connections /\ plr[connections[u]] = u
    OBVIOUS
  <2>1. u \in Slots /\ connections[u] # NoConnection
    BY DEF Taken
  <2>2. connections[u] \in Connections \cup {NoConnection}
    BY <2>1, <1>1 DEF TypeOK
  <2>3. plr[connections[u]] = u
    BY <2>1 DEF IInv, NoDangling
  <2> QED BY <2>1, <2>2, <2>3
<1>5. \A u \in Taken : connections[u] \in told <=> u \in slots \ {source}
  BY <1>4
<1>7. HostSlot \in Taken /\ connections[HostSlot] = HostConnection
  BY <1>1, SlotTypes DEF Taken, HostSettled
<1>6. \A u \in Taken : connections[u] = HostConnection <=> u = HostSlot
  BY <1>4, <1>7
<1>8. HostConnection \in told <=> HostSlot \in slots \ {source}
  BY <1>5, <1>6, <1>7
<1>9. view'[HostConnection] = view[HostConnection]
  BY <1>1, <1>2
<1> HIDE DEF told, p
<1>10. HostSlot \notin slots \ {source} =>
           /\ HostBelieves(s)' <=> HostBelieves(s)
           /\ Leaves(s)' <=> Leaves(s)
  BY <1>2, <1>8, <1>9 DEF HostBelieves, Leaves
<1>11. HostSlot \in slots \ {source} =>
           /\ HostBelieves(s)' <=> IF s = player THEN type = "KNOWS" ELSE HostBelieves(s)
           /\ Leaves(s)' <=> Leaves(s) \/ p = HostPacket("LEAVES", s)
  BY <1>1, <1>2, <1>3, <1>8, <1>9, HostAppend
<1>12. CASE t = HostSlot
  BY <1>6, <1>10, <1>11, <1>12 DEF Believes, p
<1>13. CASE t # HostSlot
  <2>1. connections[t] # HostConnection /\ connections[t] \in Connections
    BY <1>4, <1>6, <1>13
  <2>2. s \in view'[connections[t]] <=>
            IF t \in slots \ {source} /\ s = player THEN type = "KNOWS" ELSE s \in view[connections[t]]
    BY <2>1, <1>1, <1>2, <1>5 DEF TypeOK
  <2> QED BY <2>1, <2>2, <1>10, <1>11 DEF Believes, p
<1> QED BY <1>12, <1>13
--------------------------------------------------------------------------------
(* Closing.                                                                     *)

\* Who is closed will be found out; nothing else that was to be found out is lost.
LEMMA CloseLosing ==
    ASSUME KInv, Listens, NEW c \in Clients, NEW rest \in Seq(Handlers), Close(c, rest), plr' = plr,
           \A d \in Clients : socket[d] = "open" /\ d # c => d \in receiving
               \/ \E data \in Data : In(rest, Receive(d, data))
    PROVE  /\ \A s : LosingIn(rest, s) => Losing(s)'
           /\ c \in receiving \/ (\E data \in Data : In(rest, Receive(c, data))) =>
                  \A s : s = plr[c] => Losing(s)'
           /\ Listens'
<1>1. TypeOK /\ c \in Connections /\ Clients \subseteq Connections
  BY DEF KInv, IInv, Connections
<1>2. /\ socket' = [socket EXCEPT ![c] = "closed"] /\ receiving' = receiving \ {c}
  BY DEF Close
<1>3. socket'[c] = "closed" /\ \A d \in Clients \ {c} : socket'[d] = socket[d]
  BY <1>1, <1>2 DEF TypeOK
<1>4. /\ \A x : In(rest, x) => In(ready', x)
      /\ c \in receiving => In(ready', Receive(c, "ABORTED"))
  BY <1>1, CloseQueue
<1>5. \A s : LosingIn(rest, s) => Losing(s)'
  BY <1>3, <1>4 DEF LosingIn, Losing
<1>6. c \in receiving \/ (\E data \in Data : In(rest, Receive(c, data))) =>
           \A s : s = plr[c] => Losing(s)'
  BY <1>3, <1>4 DEF LosingIn, Losing, Data
<1>7. Listens'
  <2> SUFFICES ASSUME NEW d \in Clients, socket'[d] = "open" PROVE Listening(d)'
    BY DEF Listens
  <2>1. d # c /\ socket[d] = "open"
    BY <1>3
  <2> QED BY <2>1, <1>2, <1>4 DEF Listening
<1> QED BY <1>5, <1>6, <1>7

\* tcp_server::DisconnectNet.
LEMMA DisconnectLosing ==
    ASSUME KInv, HostSettled, Listens, NEW s \in Slots \ {HostSlot}, DisconnectNet(s), plr' = plr
    PROVE  /\ Taken' = Taken \ {s}
           /\ \A t \in Taken' : connections'[t] = connections[t]
           /\ HostSettled' /\ Listens'
           /\ \A x : Losing(x) => Losing(x)'
           /\ s \in Taken => Losing(s)'
<1>1. TypeOK /\ ready \in Seq(Handlers) /\ connections \in [Slots -> Connections \cup {NoConnection}]
      /\ HostSlot \in Slots
  BY SlotTypes DEF KInv, IInv, TypeOK
<1>2. CASE connections[s] = NoConnection
  <2>1. UNCHANGED <<socket, receiving, timing, ready, connections>>
    BY <1>2 DEF DisconnectNet, ioVars
  <2>2. Taken' = Taken /\ s \notin Taken
    BY <1>2, <2>1 DEF Taken
  <2> QED BY <2>1, <2>2 DEF HostSettled, Listens, Listening, Losing, LosingIn
<1>3. CASE connections[s] # NoConnection
  <2> DEFINE c == connections[s]
  <2>1. /\ Close(c, ready) /\ connections' = [connections EXCEPT ![s] = NoConnection]
        /\ c \in Connections
    BY <1>1, <1>3 DEF DisconnectNet
  <2>2. plr[c] = s /\ (socket[c] = "open" \/ Failed(ready, c))
    BY <1>3 DEF KInv, IInv, NoDangling, Failed
  <2>3. c # HostConnection /\ c \in Clients
    <3>1. plr[HostConnection] = HostSlot
      BY <1>1, SlotTypes DEF KInv, IInv, NoDangling, HostSettled
    <3> QED BY <2>1, <2>2, <3>1 DEF Connections
  <2>4. Taken' = Taken \ {s} /\ \A t \in Taken' : connections'[t] = connections[t]
    BY <2>1, <1>1 DEF Taken
  <2>5. HostSettled'
    BY <2>1, <1>1 DEF HostSettled
  <2>6. c \in receiving \/ \E data \in Data : In(ready, Receive(c, data))
    <3>1. Failed(ready, c) => In(ready, Receive(c, "ABORTED"))
      BY DEF Failed, In
    <3> QED BY <3>1, <2>2, <2>3 DEF Listens, Listening, Data
  <2>7. \A d \in Clients : socket[d] = "open" /\ d # c => d \in receiving
               \/ \E data \in Data : In(ready, Receive(d, data))
    BY DEF Listens, Listening
  <2>8. /\ \A x : LosingIn(ready, x) => Losing(x)'
        /\ Listens' /\ \A x : x = plr[c] => Losing(x)'
    <3> HIDE DEF c
    <3> QED BY <1>1, <2>1, <2>3, <2>6, <2>7, CloseLosing
  <2> QED BY <2>2, <2>4, <2>5, <2>8 DEF Losing
<1> QED BY <1>2, <1>3
--------------------------------------------------------------------------------
(* The handlers, run by poll.                                                   *)

\* What the front of the queue was, and what is left of it.
LEMMA FrontLosing ==
    ASSUME KInv, Listens, NEW h, NEW rest, Front(h, rest)
    PROVE  /\ h.con \in Clients
           /\ h.kind = "receive" => h.data \in Data /\ h = Receive(h.con, h.data)
           /\ \A s : Losing(s) => \/ LosingIn(rest, s)
                                  \/ h.kind = "receive" /\ plr[h.con] = s /\ socket[h.con] = "closed"
           /\ \A d \in Clients : socket[d] = "open" /\ (d # h.con \/ h.kind # "receive") =>
                  d \in receiving \/ \E data \in Data : In(rest, Receive(d, data))
<1>1. h \in Handlers /\ h.con \in Clients /\ \A x : In(ready, x) => x = h \/ In(rest, x)
  <2>1. h \in Handlers /\ h.con \in Connections /\ Has(ready, h.con)
    BY DEF Front, Handlers
  <2> QED BY <2>1 DEF Front, KInv, Parts, Operations, Pending
<1>2. h.kind = "receive" => h.data \in Data /\ h = Receive(h.con, h.data)
  BY <1>1 DEF Handlers, Receive
<1>3. \A d, data : Receive(d, data) = h => h.con = d /\ h.kind = "receive"
  BY DEF Receive
<1>4. \A s : Losing(s) => \/ LosingIn(rest, s)
                          \/ h.kind = "receive" /\ plr[h.con] = s /\ socket[h.con] = "closed"
  <2> SUFFICES ASSUME NEW s, Losing(s)
               PROVE  \/ LosingIn(rest, s)
                      \/ h.kind = "receive" /\ plr[h.con] = s /\ socket[h.con] = "closed"
    OBVIOUS
  <2>1. PICK d \in Clients : /\ plr[d] = s /\ socket[d] = "closed"
                             /\ \E data \in Data : In(ready, Receive(d, data))
    BY DEF Losing, LosingIn
  <2>2. PICK data \in Data : In(ready, Receive(d, data))
    BY <2>1
  <2>3. CASE Receive(d, data) = h
    BY <2>1, <2>3, <1>3
  <2>4. CASE In(rest, Receive(d, data))
    BY <2>1, <2>4 DEF LosingIn
  <2> QED BY <1>1, <2>2, <2>3, <2>4
<1>5. \A d \in Clients : socket[d] = "open" /\ (d # h.con \/ h.kind # "receive") =>
          d \in receiving \/ \E data \in Data : In(rest, Receive(d, data))
  BY <1>1, <1>3 DEF Listens, Listening
<1> QED BY <1>1, <1>2, <1>4, <1>5

LEMMA StartReceiveLosing ==
    ASSUME KInv, Listens, NEW h, NEW rest, Front(h, rest),
           h.kind = "receive", StartReceive(h.con, rest), UNCHANGED socket,
           \A d \in Clients : plr[d] # PLR_BROADCAST => plr'[d] = plr[d]
    PROVE  /\ Listens'
           /\ \A s \in Slots : Losing(s) => Losing(s)'
           /\ socket[h.con] = "closed" => \A s \in Slots : s = plr[h.con] => Losing(s)'
<1>1. /\ h.con \in Clients /\ h.con \in Connections /\ TypeOK /\ rest \in Seq(Handlers)
      /\ \A d \in Clients : socket[d] = "open" /\ d # h.con =>
                  d \in receiving \/ \E data \in Data : In(rest, Receive(d, data))
      /\ \A s : Losing(s) => LosingIn(rest, s) \/ (plr[h.con] = s /\ socket[h.con] = "closed")
  BY FrontLosing DEF KInv, IInv, Connections, Front
<1>a. \A d \in Clients, s \in Slots : plr[d] = s => plr'[d] = s
  BY SlotTypes
<1>b. \A s \in Slots : LosingIn(rest, s) => \E d \in Clients : plr'[d] = s /\ socket[d] = "closed"
                           /\ \E data \in Data : In(rest, Receive(d, data))
  BY <1>a DEF LosingIn
<1>2. CASE socket[h.con] = "open"
  <2>1. receiving' = receiving \cup {h.con} /\ ready' = rest
    BY <1>2 DEF StartReceive
  <2>2. Listens'
    BY <1>1, <2>1 DEF Listens, Listening
  <2>3. \A s \in Slots : Losing(s) => Losing(s)'
    <3>1. \A s \in Slots : Losing(s) => LosingIn(rest, s)
      BY <1>1, <1>2
    <3>2. \A s \in Slots : LosingIn(rest, s) => Losing(s)'
      BY <1>b, <2>1 DEF Losing, LosingIn
    <3> QED BY <3>1, <3>2
  <2> QED BY <1>2, <2>2, <2>3
<1>3. CASE socket[h.con] # "open"
  <2> DEFINE failed == Receive(h.con, "ABORTED")
  <2>1. ready' = Append(rest, failed) /\ receiving' = receiving
    BY <1>3 DEF StartReceive
  <2>2. failed \in Handlers
    BY <1>1, HandlerTypes DEF Data
  <2>3. In(ready', failed) /\ \A x : In(rest, x) => In(ready', x)
    <3> HIDE DEF failed
    <3> QED BY <1>1, <2>1, <2>2, InAppended
  <2>4. Listens'
    BY <1>1, <1>3, <2>1, <2>3 DEF Listens, Listening
  <2>5. \A s \in Slots : LosingIn(rest, s) => Losing(s)'
    BY <1>b, <2>3 DEF Losing, LosingIn
  <2>6. \A s \in Slots : s = plr[h.con] /\ socket[h.con] = "closed" => Losing(s)'
    <3>1. \A s \in Slots : s = plr[h.con] => plr'[h.con] = s
      BY <1>1, <1>a
    <3>2. "ABORTED" \in Data
      BY DEF Data
    <3> QED BY <1>1, <2>3, <3>1, <3>2 DEF Losing, LosingIn
  <2>7. \A s \in Slots : Losing(s) => Losing(s)'
    BY <1>1, <2>5, <2>6
  <2> QED BY <2>4, <2>6, <2>7
<1> QED BY <1>2, <1>3

\* The four parts, for a step after which the players believe what they did before.
LEMMA SameViews ==
    ASSUME VInv, UNCHANGED <<connections, view, hostInbox, hostDrops, reused>>,
           plr' = plr \/ (\A c \in Connections : plr'[c] = plr[c]),
           Listens', \A s \in Slots : Losing(s) => Losing(s)'
    PROVE  HostSettled' /\ Listens' /\ Drops' /\ Views'
<1>1. Taken' = Taken
  BY DEF Taken
<1>2. HostSettled' /\ Drops'
  BY <1>1 DEF VInv, HostSettled, Drops
<1>3. \A c, s : (Believes(c, s)' <=> Believes(c, s)) /\ (Leaves(s)' <=> Leaves(s))
  BY DEF Believes, HostBelieves, Leaves
<1>4. Views'
  BY <1>1, <1>3 DEF VInv, Views
<1> QED BY <1>2, <1>4

LEMMA ViewsNext ==
    ASSUME \A t \in Taken' : \A d, s : d = connections'[t] /\ s \in Slots \ reused' =>
               /\ s \in Taken' /\ ~ Believes(d, s)' => Leaves(s)'
               /\ Believes(d, s)' /\ s \notin Taken' => Losing(s)'
    PROVE  Views'
BY DEF Views

LEMMA DropViews ==
    ASSUME VInv, NEW h, NEW rest, Front(h, rest),
           DropConnection(h.con, rest), UNCHANGED <<plr, hostDrops, reused>>
    PROVE  HostSettled' /\ Listens' /\ Drops' /\ Views'
<1> DEFINE c == h.con
           x == plr[c]
<1>1. /\ KInv /\ IInv /\ TypeOK /\ Listens /\ HostSettled /\ Drops /\ Views
      /\ c \in Clients /\ c \in Connections /\ rest \in Seq(Handlers) /\ Close(c, rest)
  BY FrontLosing DEF VInv, KInv, IInv, Connections, Front, DropConnection
<1>2. /\ \A s : Losing(s) => LosingIn(rest, s) \/ s = x
      /\ \A d \in Clients : socket[d] = "open" /\ d # c =>
             d \in receiving \/ \E data \in Data : In(rest, Receive(d, data))
  BY FrontLosing DEF VInv
<1> HIDE DEF c
<1>3. Listens' /\ \A s : LosingIn(rest, s) => Losing(s)'
  BY <1>1, <1>2, CloseLosing
<1>4. CASE x = PLR_BROADCAST
  <2>1. UNCHANGED <<connections, view, hostInbox>>
    BY <1>4 DEF DropConnection, c
  <2>2. \A s \in Slots : Losing(s) => Losing(s)'
    BY <1>2, <1>3, <1>4, SlotTypes
  <2> QED BY <1>3, <2>1, <2>2, SameViews
<1>5. CASE x # PLR_BROADCAST
  <2>1. /\ connections' = [connections EXCEPT ![x] = NoConnection]
        /\ Broadcast(Taken \ {x}, PLR_BROADCAST, "FORGETS", x)
        /\ x \in Slots
    BY <1>1, <1>5 DEF DropConnection, TypeOK, c
  <2>2. x # HostSlot
    BY <1>1, ServerAssumption DEF HostSettled
  <2> HIDE DEF x
  <2>3. Taken' = Taken \ {x} /\ \A t \in Taken' : connections'[t] = connections[t]
    BY <2>1, <1>1 DEF Taken, TypeOK
  <2>4. HostSettled'
    BY <2>1, <2>2, <1>1 DEF HostSettled, TypeOK
  <2>5. Drops'
    BY <2>3, <1>1 DEF Drops
  <2>6. Views'
    <3> SUFFICES ASSUME NEW t \in Taken', NEW d, d = connections'[t], NEW s \in Slots \ reused'
                 PROVE  /\ s \in Taken' /\ ~ Believes(d, s)' => Leaves(s)'
                        /\ Believes(d, s)' /\ s \notin Taken' => Losing(s)'
      BY ViewsNext
    <3>1. t \in Taken /\ t # x /\ t # PLR_BROADCAST /\ d = connections[t]
      BY <2>3, SlotTypes DEF Taken
    <3>2. /\ Believes(d, s)' <=> IF s = x THEN FALSE ELSE Believes(d, s)
          /\ Leaves(s) => Leaves(s)'
      <4>1. /\ Taken \ {x} \subseteq Taken /\ "FORGETS" \in {"KNOWS", "FORGETS", "LEAVES"}
            /\ "FORGETS" # "KNOWS" /\ t \in (Taken \ {x}) \ {PLR_BROADCAST}
        BY <3>1
      <4>2. IInv /\ HostSettled
        BY <1>1
      <4>3. \A u \in Taken, r \in Slots : \A e : e = connections[u] =>
               /\ Believes(e, r)' <=>
                     IF u \in (Taken \ {x}) \ {PLR_BROADCAST} /\ r = x THEN "FORGETS" = "KNOWS" ELSE Believes(e, r)
               /\ Leaves(r) => Leaves(r)'
        BY ONLY <4>2, <2>1, <4>1, BroadcastBelief
      <4> QED BY <3>1, <4>1, <4>3
    <3>3. /\ s \in Taken /\ ~ Believes(d, s) => Leaves(s)
          /\ Believes(d, s) /\ s \notin Taken => Losing(s)
      BY <1>1, <3>1 DEF Views
    <3> QED BY <1>2, <1>3, <2>3, <3>2, <3>3
  <2> QED BY <1>3, <2>4, <2>5, <2>6
<1> QED BY <1>4, <1>5
\* A new player is told of everybody, and everybody of it, whatever they believe of
\* other slots.
LEMMA NewPlayerViews ==
    ASSUME VInv, NEW h, NEW rest, Front(h, rest), h.kind = "receive",
           plr[h.con] = PLR_BROADCAST, NewPlayer(h.con, rest), UNCHANGED hostDrops
    PROVE  HostSettled' /\ Listens' /\ Drops' /\ Views'
<1> DEFINE c == h.con
<1>1. /\ KInv /\ IInv /\ TypeOK /\ Listens /\ HostSettled /\ Drops /\ Views
      /\ c \in Clients /\ c \in Connections /\ rest \in Seq(Handlers)
  BY FrontLosing DEF VInv, KInv, IInv, Connections, Front
<1>4. PICK x \in Slots :
        /\ IsNextFree(x)
        /\ plr' = [plr EXCEPT ![c] = x]
        /\ connections' = [connections EXCEPT ![x] = c]
        /\ view' = [d \in Connections |->
                       IF d = c THEN Taken \cup {x}
                       ELSE IF \E t \in Taken : d = connections[t] /\ d # HostConnection
                       THEN view[d] \cup {x} ELSE view[d]]
        /\ hostInbox' = IF connections[HostSlot] = HostConnection
                        THEN Append(hostInbox, HostPacket("KNOWS", x)) ELSE hostInbox
        /\ reused' = IF FormerOwner(x) THEN reused \cup {x} ELSE reused \ {x}
        /\ StartReceive(c, rest)
        /\ UNCHANGED socket
  BY DEF NewPlayer, HostPacket
<1>5. /\ x \notin Taken /\ x # HostSlot /\ c # HostConnection /\ c # NoConnection
      /\ HostSlot \in Taken
  BY <1>1, <1>4, SlotTypes, ServerAssumption DEF IsNextFree, HostSettled, Taken
<1>6. /\ plr'[c] = x /\ \A d \in Connections \ {c} : plr'[d] = plr[d]
      /\ connections'[x] = c /\ \A t \in Slots \ {x} : connections'[t] = connections[t]
      /\ Taken' = Taken \cup {x} /\ plr[c] = PLR_BROADCAST
  <2>1. /\ plr'[c] = x /\ \A d \in Connections \ {c} : plr'[d] = plr[d]
        /\ connections'[x] = c /\ \A t \in Slots \ {x} : connections'[t] = connections[t]
    BY <1>1, <1>4 DEF TypeOK
  <2> QED BY <2>1, <1>4, <1>5 DEF Taken
<1>7. \A s \in Slots \ {x} : s \in reused' <=> s \in reused
  BY <1>4
<1>8. /\ Listens'
      /\ \A s \in Slots : Losing(s) => Losing(s)'
  <2>1. \A d \in Clients : plr[d] # PLR_BROADCAST => plr'[d] = plr[d]
    BY <1>6 DEF Connections
  <2> QED BY <2>1, <1>1, <1>4, StartReceiveLosing
<1> HIDE DEF c
<1>10. HostSettled'
  BY <1>1, <1>5, <1>6, SlotTypes DEF HostSettled
<1>11. Drops'
  <2> SUFFICES ASSUME NEW i \in 1 .. Len(hostDrops), hostDrops[i] \in Taken', hostDrops[i] \notin reused'
               PROVE  FALSE
    BY DEF Drops
  <2>1. CASE hostDrops[i] = x
    BY <1>4, <2>1 DEF FormerOwner
  <2>2. CASE hostDrops[i] # x
    <3>1. hostDrops[i] \in Taken /\ hostDrops[i] \in Slots
      BY <1>6, <2>2 DEF Taken
    <3> QED BY <1>1, <1>7, <2>2, <3>1 DEF Drops
  <2> QED BY <2>1, <2>2
<1>12. \A s \in Slots : /\ HostBelieves(s)' <=> s = x \/ HostBelieves(s)
                        /\ Leaves(s) => Leaves(s)'
  <2>1. /\ hostInbox' = Append(hostInbox, HostPacket("KNOWS", x))
        /\ HostPacket("KNOWS", x) \in HostPackets
        /\ HostPacket("KNOWS", x).player = x /\ HostPacket("KNOWS", x).type = "KNOWS"
    BY <1>1, <1>4 DEF HostSettled, HostPacket, HostPackets
  <2>2. view'[HostConnection] = view[HostConnection]
    BY <1>1, <1>4, <1>5, SlotTypes DEF HostSettled
  <2> QED BY <1>1, <2>1, <2>2, HostAppend
<1>13. Views'
  <2> SUFFICES ASSUME NEW t \in Taken', NEW d, d = connections'[t], NEW s \in Slots \ reused'
               PROVE  /\ s \in Taken' /\ ~ Believes(d, s)' => Leaves(s)'
                      /\ Believes(d, s)' /\ s \notin Taken' => Losing(s)'
    BY ViewsNext
  <2>1. CASE t = x
    <3>1. d = c /\ d # HostConnection /\ view'[d] = Taken \cup {x}
      BY <2>1, <1>1, <1>4, <1>5, <1>6
    <3> QED BY <3>1, <1>6 DEF Believes
  <2>2. CASE t # x
    <3>1. t \in Taken /\ t \in Slots /\ d = connections[t] /\ d \in Connections
      BY <2>2, <1>1, <1>6 DEF Taken, TypeOK
    <3>3. d # c
      <4>1. plr[d] = t
        BY <3>1, <1>1 DEF IInv, NoDangling, Taken
      <4> QED BY <3>1, <4>1, <1>6, SlotTypes
    <3>4. Believes(d, s)' <=> s = x \/ Believes(d, s)
      <4>1. CASE d = HostConnection
        BY <4>1, <1>12 DEF Believes
      <4>2. CASE d # HostConnection
        <5>1. view'[d] = view[d] \cup {x}
          BY <4>2, <3>1, <3>3, <1>4
        <5> QED BY <4>2, <5>1 DEF Believes
      <4> QED BY <4>1, <4>2
    <3>5. CASE s = x
      BY <3>4, <3>5, <1>6
    <3>6. CASE s # x
      <4>1. s \in Slots \ reused
        BY <1>7, <3>6
      <4>2. /\ s \in Taken /\ ~ Believes(d, s) => Leaves(s)
            /\ Believes(d, s) /\ s \notin Taken => Losing(s)
        BY <1>1, <3>1, <4>1 DEF Views
      <4> QED BY <3>4, <3>6, <4>1, <4>2, <1>6, <1>8, <1>12
    <3> QED BY <3>5, <3>6
  <2> QED BY <2>1, <2>2
<1> QED BY <1>8, <1>10, <1>11, <1>13

\* What a connection sends that is closed already is put right when that is found out.
LEMMA RelayViews ==
    ASSUME VInv, NEW h, NEW rest, Front(h, rest),
           h.kind = "receive", h.data \notin {"EOF", "ABORTED"}, plr[h.con] # PLR_BROADCAST,
           RelayPacket(h.con, h.data, rest), UNCHANGED hostDrops
    PROVE  HostSettled' /\ Listens' /\ Drops' /\ Views'
<1> DEFINE c == h.con
           x == plr[c]
           type == IF h.data = "TURN" THEN "KNOWS" ELSE "LEAVES"
<1>1. /\ KInv /\ IInv /\ TypeOK /\ Listens /\ HostSettled /\ Drops /\ Views /\ SlotKept
      /\ c \in Clients /\ c \in Connections /\ rest \in Seq(Handlers)
  BY FrontLosing DEF VInv, KInv, Parts, IInv, Connections, Front
<1>2. /\ Broadcast(Taken, x, type, x) /\ StartReceive(c, rest)
      /\ UNCHANGED <<socket, plr, connections, reused>>
  BY DEF RelayPacket
<1>3. /\ x \in Slots /\ x # HostSlot
      /\ type \in {"KNOWS", "FORGETS", "LEAVES"}
  BY <1>1, ServerAssumption DEF TypeOK, HostSettled
<1>4. /\ Listens' /\ \A s \in Slots : Losing(s) => Losing(s)'
      /\ socket[c] = "closed" => \A s \in Slots : s = x => Losing(s)'
  BY <1>1, <1>2, StartReceiveLosing
<1>5. Taken' = Taken /\ HostSettled' /\ HostSlot \in Taken
  BY <1>1, <1>2, SlotTypes DEF Taken, HostSettled
<1>6. socket[c] # "closed" => x \in Taken \cup reused
  <2>1. socket[c] = "open" => connections[x] = c \/ x \in reused
    BY <1>1 DEF SlotKept
  <2>2. socket[c] \in {"open", "closed"}
    BY <1>1 DEF KInv, Parts, Operations, Pending, Front, TypeOK
  <2> QED BY <2>1, <2>2, <1>1, <1>3, SlotTypes DEF Taken
<1>7. Drops'
  BY <1>1, <1>2, <1>5 DEF Drops
<1>8. type = "KNOWS" \/ type = "LEAVES"
  OBVIOUS
<1> HIDE DEF c, type, x
<1>9. Views'
  <2> SUFFICES ASSUME NEW t \in Taken', NEW d, d = connections'[t], NEW s \in Slots \ reused'
               PROVE  /\ s \in Taken' /\ ~ Believes(d, s)' => Leaves(s)'
                      /\ Believes(d, s)' /\ s \notin Taken' => Losing(s)'
    BY ViewsNext
  <2>1. t \in Taken /\ d = connections[t]
    BY <1>2, <1>5
  <2>2. /\ Believes(d, s)' <=> IF t \in Taken \ {x} /\ s = x THEN type = "KNOWS" ELSE Believes(d, s)
        /\ Leaves(s) => Leaves(s)'
        /\ HostSlot \in Taken \ {x} /\ type = "LEAVES" /\ s = x => Leaves(s)'
    <3>1. IInv /\ HostSettled
      BY <1>1
    <3>2. PICK y : y = x
      OBVIOUS
    <3>3. y \in Slots
      BY <1>3, <3>2
    <3>4. CASE type = "KNOWS"
      <4>1. Broadcast(Taken, y, "KNOWS", y)
        BY <1>2, <3>2, <3>4
      <4>2. "KNOWS" \in {"KNOWS", "FORGETS", "LEAVES"} /\ Taken \subseteq Taken
        OBVIOUS
      <4>3. \A u \in Taken, r \in Slots : \A e : e = connections[u] =>
                /\ Believes(e, r)' <=>
                      IF u \in Taken \ {y} /\ r = y THEN "KNOWS" = "KNOWS" ELSE Believes(e, r)
                /\ Leaves(r) => Leaves(r)'
                /\ HostSlot \in Taken \ {y} /\ "KNOWS" = "LEAVES" /\ r = y => Leaves(r)'
        BY ONLY <3>1, <3>3, <4>1, <4>2, BroadcastBelief
      <4> QED BY <2>1, <3>2, <3>4, <4>3
    <3>5. CASE type = "LEAVES"
      <4>1. Broadcast(Taken, y, "LEAVES", y)
        BY <1>2, <3>2, <3>5
      <4>2. "LEAVES" \in {"KNOWS", "FORGETS", "LEAVES"} /\ Taken \subseteq Taken
        OBVIOUS
      <4>3. \A u \in Taken, r \in Slots : \A e : e = connections[u] =>
                /\ Believes(e, r)' <=>
                      IF u \in Taken \ {y} /\ r = y THEN "LEAVES" = "KNOWS" ELSE Believes(e, r)
                /\ Leaves(r) => Leaves(r)'
                /\ HostSlot \in Taken \ {y} /\ "LEAVES" = "LEAVES" /\ r = y => Leaves(r)'
        BY ONLY <3>1, <3>3, <4>1, <4>2, BroadcastBelief
      <4> QED BY <2>1, <3>2, <3>5, <4>3
    <3>6. type = "KNOWS" \/ type = "LEAVES"
      BY <1>8
    <3> QED BY <3>4, <3>5, <3>6
  <2>3. /\ s \in Taken /\ ~ Believes(d, s) => Leaves(s)
        /\ Believes(d, s) /\ s \notin Taken => Losing(s)
    BY <1>1, <1>2, <2>1 DEF Views
  <2>4. type \in {"KNOWS", "LEAVES"}
    BY DEF type
  <2> QED BY <1>2, <1>3, <1>4, <1>5, <1>6, <2>2, <2>3, <2>4
<1> QED BY <1>4, <1>5, <1>7, <1>9

LEMMA RearmViews ==
    ASSUME VInv, NEW h, NEW rest, Front(h, rest),
           h.kind = "timer", ready' = rest,
           UNCHANGED <<socket, plr, connections, receiving, hostInbox, hostDrops, view, reused>>
    PROVE  HostSettled' /\ Listens' /\ Drops' /\ Views'
<1>1. /\ \A s : Losing(s) => LosingIn(rest, s)
      /\ \A d \in Clients : socket[d] = "open" =>
             d \in receiving \/ \E data \in Data : In(rest, Receive(d, data))
  BY FrontLosing DEF VInv
<1>2. \A s \in Slots : Losing(s) => Losing(s)'
  BY <1>1 DEF Losing, LosingIn
<1>3. Listens'
  BY <1>1 DEF Listens, Listening
<1> QED BY <1>2, <1>3, SameViews

LEMMA PollViews ==
    ASSUME VInv, Poll
    PROVE  HostSettled' /\ Listens' /\ Drops' /\ Views'
<1> DEFINE h == Head(ready)
           rest == Tail(ready)
<1>1. KInv /\ Operations /\ ready \in Seq(Handlers) /\ ready # <<>> /\ UNCHANGED <<stream, hostDrops>>
  BY DEF VInv, KInv, Parts, IInv, TypeOK, Poll
<1>2. Front(h, rest) /\ h \in Handlers
  BY <1>1, QueueTail DEF Front
<1>4. /\ h.kind = "receive" => HandleReceive(h.con, h.data, rest)
      /\ h.kind # "receive" => HandleTimeout(h.con, h.data, rest) /\ UNCHANGED reused
  BY DEF Poll
<1>5. h.kind \in {"receive", "timer"}
  BY <1>2 DEF Handlers
<1> HIDE DEF h, rest
<1>6. CASE h.kind = "receive"
  <2>1. CASE DropConnection(h.con, rest) /\ UNCHANGED <<plr, timeout, program, reused>>
    BY <2>1, <1>1, <1>2, DropViews
  <2>2. CASE /\ h.data \notin {"EOF", "ABORTED"} /\ plr[h.con] = PLR_BROADCAST
             /\ NewPlayer(h.con, rest)
    BY <2>2, <1>1, <1>2, <1>6, NewPlayerViews
  <2>3. CASE /\ h.data \notin {"EOF", "ABORTED"} /\ plr[h.con] # PLR_BROADCAST
             /\ RelayPacket(h.con, h.data, rest)
    BY <2>3, <1>1, <1>2, <1>6, RelayViews
  <2> QED BY <1>4, <1>6, <2>1, <2>2, <2>3 DEF HandleReceive, RefusePlayer
<1>7. CASE h.kind = "timer"
  <2>1. CASE DropConnection(h.con, rest) /\ UNCHANGED <<plr, reused>>
    BY <2>1, <1>1, <1>2, DropViews
  <2>2. CASE /\ ready' = rest
             /\ UNCHANGED <<socket, plr, connections, receiving, program, hostInbox, view, reused>>
    BY <2>2, <1>1, <1>2, <1>7, RearmViews
  <2> QED BY <1>4, <1>7, <2>1, <2>2 DEF HandleTimeout
<1> QED BY <1>5, <1>6, <1>7

--------------------------------------------------------------------------------
(* The host.                                                                    *)

LEMMA HostReceivesViews ==
    ASSUME VInv, HostReceives
    PROVE  HostSettled' /\ Listens' /\ Drops' /\ Views'
<1> DEFINE p == Head(hostInbox)
           x == p.player
<1>1. /\ KInv /\ IInv /\ TypeOK /\ Listens /\ HostSettled /\ Drops /\ Views
      /\ hostInbox # <<>> /\ hostInbox' = Tail(hostInbox) /\ UNCHANGED <<plr, hostDrops, reused>>
  BY DEF VInv, KInv, IInv, HostReceives
<1>2. p \in HostPackets /\ x \in Slots
  <2>1. p \in HostPackets
    BY <1>1 DEF TypeOK
  <2> QED BY <2>1 DEF HostPackets
<1>3. view' = [view EXCEPT ![HostConnection] =
                  IF p.type = "KNOWS" THEN @ \cup {x} ELSE @ \ {x}]
  BY DEF HostReceives
<1>4. /\ view'[HostConnection] = IF p.type = "KNOWS" THEN view[HostConnection] \cup {x}
                                 ELSE view[HostConnection] \ {x}
      /\ \A c \in Connections \ {HostConnection} : view'[c] = view[c]
  BY <1>1, <1>3, SlotTypes DEF TypeOK
<1>5. \A s \in Slots : /\ HostBelieves(s)' <=> HostBelieves(s)
                       /\ Leaves(s) <=> Leaves(s)' \/ p = HostPacket("LEAVES", s)
  BY <1>1, <1>4, HostReads
<1>6. \A c \in Connections, s \in Slots : Believes(c, s)' <=> Believes(c, s)
  BY <1>4, <1>5 DEF Believes
<1>7. \A s \in Slots : p = HostPacket("LEAVES", s) => p.type = "LEAVES" /\ s = x
  BY DEF HostPacket
<1>8. \/ p.type # "KNOWS" /\ DisconnectNet(x)
      \/ p.type # "LEAVES" /\ UNCHANGED <<socket, ioVars, connections>>
  BY DEF HostReceives
<1>9. \A t \in Taken : t \in Slots /\ connections[t] \in Connections
  BY <1>1 DEF TypeOK, Taken
<1> HIDE DEF p, x
<1>10. CASE p.type # "KNOWS" /\ DisconnectNet(x) /\ x # HostSlot
  <2>1. /\ Taken' = Taken \ {x}
        /\ \A t \in Taken' : connections'[t] = connections[t]
        /\ HostSettled' /\ Listens'
        /\ \A s : Losing(s) => Losing(s)'
        /\ \A s : s = x /\ x \in Taken => Losing(s)'
    BY <1>1, <1>2, <1>10, DisconnectLosing
  <2>2. Drops'
    BY <1>1, <2>1 DEF Drops
  <2>3. Views'
    <3> SUFFICES ASSUME NEW t \in Taken', NEW d, d = connections'[t], NEW s \in Slots \ reused'
                 PROVE  /\ s \in Taken' /\ ~ Believes(d, s)' => Leaves(s)'
                        /\ Believes(d, s)' /\ s \notin Taken' => Losing(s)'
      BY ViewsNext
    <3>1. t \in Taken /\ d = connections[t] /\ d \in Connections
      BY <2>1, <1>9
    <3>2. /\ s \in Taken /\ ~ Believes(d, s) => Leaves(s)
          /\ Believes(d, s) /\ s \notin Taken => Losing(s)
      BY <1>1, <3>1 DEF Views
    <3> QED BY <1>5, <1>6, <1>7, <2>1, <3>1, <3>2
  <2> QED BY <2>1, <2>2, <2>3
<1>11. CASE p.type # "LEAVES" /\ UNCHANGED <<socket, ioVars, connections>>
  <2>1. Taken' = Taken /\ HostSettled' /\ Drops' /\ UNCHANGED <<socket, receiving, ready, plr, connections>>
    BY <1>1, <1>11 DEF Taken, HostSettled, Drops, ioVars
  <2>2. Listens' /\ \A s : Losing(s) => Losing(s)'
    BY <1>1, <2>1 DEF Listens, Listening, Losing, LosingIn
  <2>3. Views'
    <3> SUFFICES ASSUME NEW t \in Taken', NEW d, d = connections'[t], NEW s \in Slots \ reused'
                 PROVE  /\ s \in Taken' /\ ~ Believes(d, s)' => Leaves(s)'
                        /\ Believes(d, s)' /\ s \notin Taken' => Losing(s)'
      BY ViewsNext
    <3>1. t \in Taken /\ d = connections[t] /\ d \in Connections
      BY <2>1, <1>9
    <3>2. /\ s \in Taken /\ ~ Believes(d, s) => Leaves(s)
          /\ Believes(d, s) /\ s \notin Taken => Losing(s)
      BY <1>1, <3>1 DEF Views
    <3> QED BY <1>5, <1>6, <1>7, <1>11, <2>1, <2>2, <3>1, <3>2
  <2> QED BY <2>1, <2>2, <2>3
<1>12. x # HostSlot
  <2>1. 1 \in 1 .. Len(hostInbox) /\ hostInbox[1] = p
    BY <1>1 DEF TypeOK, p
  <2> QED BY <2>1 DEF VInv, OthersOnly, x
<1> QED BY <1>8, <1>10, <1>11, <1>12
LEMMA HostDropsViews ==
    ASSUME VInv, NEW x \in Slots, HostDropsPlayer(x)
    PROVE  HostSettled' /\ Listens' /\ Drops' /\ Views' /\ OthersOnly'
<1>1. /\ KInv /\ IInv /\ TypeOK /\ Listens /\ HostSettled /\ Drops /\ Views
      /\ x \in view[HostConnection] /\ x # HostSlot
      /\ DisconnectNet(x)
      /\ view' = [view EXCEPT ![HostConnection] = @ \ {x}]
      /\ hostDrops' = Append(hostDrops, x) /\ hostDrops \in Seq(Slots)
      /\ UNCHANGED <<plr, hostInbox, reused>>
  BY DEF VInv, KInv, IInv, TypeOK, HostDropsPlayer
<1>2. /\ Taken' = Taken \ {x}
      /\ \A t \in Taken' : connections'[t] = connections[t]
      /\ HostSettled' /\ Listens'
      /\ \A s : Losing(s) => Losing(s)'
      /\ \A s : s = x /\ x \in Taken => Losing(s)'
  BY <1>1, DisconnectLosing
<1>3. Drops'
  BY <1>1, <1>2 DEF Drops
<1>4. /\ view'[HostConnection] = view[HostConnection] \ {x}
      /\ \A c \in Connections \ {HostConnection} : view'[c] = view[c]
  BY <1>1, SlotTypes DEF TypeOK
<1>5. \A s \in Slots : /\ Leaves(s)' <=> Leaves(s)
                       /\ HostBelieves(s)' => HostBelieves(s)
                       /\ s # x => (HostBelieves(s) => HostBelieves(s)')
  BY <1>1, <1>4 DEF Leaves, HostBelieves
<1>6. \A t \in Taken : t \in Slots /\ connections[t] \in Connections
  BY <1>1 DEF TypeOK, Taken
<1>7. Views'
  <2> SUFFICES ASSUME NEW t \in Taken', NEW d, d = connections'[t], NEW s \in Slots \ reused'
               PROVE  /\ s \in Taken' /\ ~ Believes(d, s)' => Leaves(s)'
                      /\ Believes(d, s)' /\ s \notin Taken' => Losing(s)'
    BY ViewsNext
  <2>1. t \in Taken /\ d = connections[t] /\ d \in Connections
    BY <1>2, <1>6
  <2>2. /\ s \in Taken /\ ~ Believes(d, s) => Leaves(s)
        /\ Believes(d, s) /\ s \notin Taken => Losing(s)
    BY <1>1, <2>1 DEF Views
  <2>3. (Believes(d, s)' => Believes(d, s)) /\ (s # x => (Believes(d, s) => Believes(d, s)'))
    BY <1>4, <1>5, <2>1 DEF Believes
  <2> QED BY <1>2, <1>5, <2>2, <2>3
<1>8. OthersOnly'
  BY <1>1 DEF VInv, OthersOnly
<1> QED BY <1>2, <1>3, <1>7, <1>8

LEMMA RelayHostDropViews ==
    ASSUME VInv, RelayHostDrop
    PROVE  HostSettled' /\ Listens' /\ Drops' /\ Views' /\ OthersOnly'
<1> DEFINE x == Head(hostDrops)
<1>1. /\ KInv /\ IInv /\ TypeOK /\ Listens /\ HostSettled /\ Drops /\ Views
      /\ hostDrops # <<>> /\ hostDrops \in Seq(Slots) /\ hostDrops' = Tail(hostDrops)
      /\ Broadcast(Taken, HostSlot, "FORGETS", x)
      /\ UNCHANGED <<socket, plr, connections, receiving, ready, reused>>
  BY DEF VInv, KInv, IInv, TypeOK, RelayHostDrop, conVars, ioVars
<1>2. x \in Slots /\ 1 \in 1 .. Len(hostDrops) /\ x = hostDrops[1]
  BY <1>1
<1>3. x \notin Taken \ reused
  BY <1>1, <1>2 DEF Drops
<1>4. Taken' = Taken
  BY <1>1 DEF Taken
<1>5. HostSettled' /\ Listens' /\ \A s : Losing(s) => Losing(s)'
  BY <1>1 DEF HostSettled, Listens, Listening, Losing, LosingIn
<1>6. Drops'
  <2>1. \A i \in 1 .. Len(hostDrops') : i + 1 \in 1 .. Len(hostDrops) /\ hostDrops'[i] = hostDrops[i + 1]
    BY <1>1
  <2> QED BY <1>1, <1>4, <2>1 DEF Drops
<1> HIDE DEF x
<1>7. Views'
  <2> SUFFICES ASSUME NEW t \in Taken', NEW d, d = connections'[t], NEW s \in Slots \ reused'
               PROVE  /\ s \in Taken' /\ ~ Believes(d, s)' => Leaves(s)'
                      /\ Believes(d, s)' /\ s \notin Taken' => Losing(s)'
    BY ViewsNext
  <2>1. t \in Taken /\ d = connections[t]
    BY <1>1, <1>4
  <2>2. "FORGETS" \in {"KNOWS", "FORGETS", "LEAVES"} /\ "FORGETS" # "KNOWS" /\ Taken \subseteq Taken
    OBVIOUS
  <2>3. \A u \in Taken, r \in Slots : \A e : e = connections[u] =>
            /\ Believes(e, r)' <=>
                  IF u \in Taken \ {HostSlot} /\ r = x THEN "FORGETS" = "KNOWS" ELSE Believes(e, r)
            /\ Leaves(r) => Leaves(r)'
            /\ HostSlot \in Taken \ {HostSlot} /\ "FORGETS" = "LEAVES" /\ r = x => Leaves(r)'
    <3>1. IInv /\ HostSettled
      BY <1>1
    <3>2. Broadcast(Taken, HostSlot, "FORGETS", x)
      BY <1>1
    <3>3. x \in Slots
      BY <1>2
    <3>4. "FORGETS" \in {"KNOWS", "FORGETS", "LEAVES"} /\ Taken \subseteq Taken
      OBVIOUS
    <3> QED BY ONLY <3>1, <3>2, <3>3, <3>4, BroadcastBelief
  <2>4. /\ s \in Taken /\ ~ Believes(d, s) => Leaves(s)
        /\ Believes(d, s) /\ s \notin Taken => Losing(s)
    BY <1>1, <2>1 DEF Views
  <2>5. s \in Slots \ reused
    BY <1>1
  <2>6. s = x => s \notin Taken
    BY <1>3, <2>5
  <2>7. /\ Believes(d, s)' <=> IF t \in Taken \ {HostSlot} /\ s = x THEN FALSE ELSE Believes(d, s)
        /\ Leaves(s) => Leaves(s)'
    BY <2>1, <2>2, <2>3, <2>5
  <2> QED BY <1>4, <1>5, <2>4, <2>6, <2>7
<1>8. OthersOnly'
  <2>1. HostConnection \notin {connections[s] : s \in Taken \ {HostSlot}}
    BY <1>1, SlotTypes DEF IInv, NoDangling, HostSettled, Taken
  <2>2. hostInbox' = hostInbox
    BY <1>1, <2>1 DEF Broadcast
  <2> QED BY <2>2 DEF VInv, OthersOnly
<1> QED BY <1>5, <1>6, <1>7, <1>8

LEMMA OthersNext ==
    ASSUME VInv, Poll \/ HostReceives
    PROVE  OthersOnly'
<1>1. TypeOK /\ hostInbox \in Seq(HostPackets) /\ OthersOnly /\ HostSettled
  BY DEF VInv, KInv, IInv, TypeOK
<1>2. ASSUME NEW s \in Slots, s # HostSlot, NEW type \in {"KNOWS", "FORGETS", "LEAVES"},
             hostInbox' \in {hostInbox, Append(hostInbox, [type |-> type, player |-> s])}
      PROVE  OthersOnly'
  BY <1>1, <1>2 DEF OthersOnly
<1>3. CASE HostReceives
  <2>1. hostInbox # <<>> /\ hostInbox' = Tail(hostInbox)
    BY <1>3 DEF HostReceives
  <2>2. \A i \in 1 .. Len(hostInbox') : i + 1 \in 1 .. Len(hostInbox) /\ hostInbox'[i] = hostInbox[i + 1]
    BY <1>1, <2>1
  <2> QED BY <1>1, <2>2 DEF OthersOnly
<1>4. CASE Poll
  <2> DEFINE h == Head(ready)
             rest == Tail(ready)
  <2>1. h \in Handlers /\ h.con \in Clients
    <3>1. ready \in Seq(Handlers) /\ ready # <<>> /\ Operations
      BY <1>1, <1>4 DEF Poll, TypeOK, VInv, KInv, Parts
    <3>2. h \in Handlers /\ Has(ready, h.con) /\ h.con \in Connections
      BY <3>1, QueueTail DEF Handlers
    <3> QED BY <3>1, <3>2 DEF Operations, Pending
  <2>2. plr[h.con] # HostSlot /\ plr[h.con] \in Slots \cup {PLR_BROADCAST}
    BY <1>1, <2>1, ServerAssumption DEF HostSettled, Connections, TypeOK
  <2>3. HandleReceive(h.con, h.data, rest) \/ HandleTimeout(h.con, h.data, rest)
    BY <1>4 DEF Poll
  <2> HIDE DEF h, rest
  <2>4. CASE hostInbox' = hostInbox
    BY <1>1, <2>4 DEF OthersOnly
  <2>5. CASE DropConnection(h.con, rest)
    BY <1>2, <2>2, <2>4, <2>5 DEF DropConnection, Broadcast
  <2>6. CASE NewPlayer(h.con, rest)
    <3>1. PICK s \in Slots : IsNextFree(s) /\ hostInbox' =
              IF connections[HostSlot] = HostConnection
              THEN Append(hostInbox, [type |-> "KNOWS", player |-> s]) ELSE hostInbox
      BY <2>6 DEF NewPlayer
    <3>2. s # HostSlot
      BY <3>1, <1>1, SlotTypes DEF IsNextFree, Taken, HostSettled
    <3> QED BY <3>1, <3>2, <1>2
  <2>7. CASE RelayPacket(h.con, h.data, rest) /\ plr[h.con] # PLR_BROADCAST
    <3>1. \E type \in {"KNOWS", "LEAVES"} :
             hostInbox' \in {hostInbox, Append(hostInbox, [type |-> type, player |-> plr[h.con]])}
      BY <2>7 DEF RelayPacket, Broadcast
    <3> QED BY <3>1, <2>2, <2>7, <1>2
  <2> QED BY <2>3, <2>4, <2>5, <2>6, <2>7 DEF HandleReceive, HandleTimeout, RefusePlayer
<1> QED BY <1>3, <1>4

--------------------------------------------------------------------------------
(* The connections and the programs: nobody is told anything.                   *)

LEMMA ClientViews ==
    ASSUME VInv, NEW c \in Clients,
           \/ Accept(c) \/ ReceiveCompletes(c) \/ TimerExpires(c)
           \/ RequestJoin(c) \/ SendTurn(c) \/ Quit(c)
    PROVE  HostSettled' /\ Listens' /\ Drops' /\ Views' /\ OthersOnly'
<1>1. KInv /\ TypeOK /\ Listens /\ OthersOnly /\ ready \in Seq(Handlers) /\ c \in Connections
      /\ stream[c] \in Seq(Data \ {"ABORTED"})
  BY DEF VInv, KInv, IInv, TypeOK, Connections
<1>2. UNCHANGED <<plr, connections, view, hostInbox, hostDrops, reused>>
  BY DEF Accept, ReceiveCompletes, TimerExpires, RequestJoin, SendTurn, Quit, conVars
<1>3. Listens' /\ \A s : Losing(s) => Losing(s)'
  <2>1. CASE Accept(c)
    <3>1. /\ ready' = ready /\ receiving \subseteq receiving'
          /\ socket'[c] = "open" => c \in receiving'
          /\ socket[c] = "unused" /\ \A d \in Clients \ {c} : socket'[d] = socket[d]
      <4>1. /\ socket[c] = "unused" /\ ready' = ready
            /\ \/ /\ socket' = [socket EXCEPT ![c] = "closed"]
                  /\ receiving' = receiving
               \/ /\ socket' = [socket EXCEPT ![c] = "open"]
                  /\ receiving' = receiving \cup {c}
        BY <2>1 DEF Accept
      <4>2. socket \in [Connections -> {"unused", "open", "closed"}] /\ Clients \subseteq Connections
        BY <1>1 DEF TypeOK, Connections
      <4>3. CASE socket' = [socket EXCEPT ![c] = "closed"] /\ receiving' = receiving
        <5>1. socket'[c] = "closed"
          BY ONLY <1>1, <4>2, <4>3
        <5>2. \A d \in Clients \ {c} : socket'[d] = socket[d]
          BY ONLY <4>2, <4>3
        <5> QED BY <4>1, <4>3, <5>1, <5>2
      <4>4. CASE socket' = [socket EXCEPT ![c] = "open"] /\ receiving' = receiving \cup {c}
        <5>1. \A d \in Clients \ {c} : socket'[d] = socket[d]
          BY ONLY <4>2, <4>4
        <5>2. c \in receiving' /\ receiving \subseteq receiving'
          BY ONLY <4>4
        <5> QED BY <4>1, <5>1, <5>2
      <4> QED BY <4>1, <4>3, <4>4
    <3> QED BY <1>1, <1>2, <3>1 DEF Listens, Listening, Losing, LosingIn
  <2>2. CASE ReceiveCompletes(c)
    <3> DEFINE h == Receive(c, Head(stream[c]))
    <3>1. /\ ready' = Append(ready, h) /\ receiving' = receiving \ {c} /\ socket' = socket
          /\ Head(stream[c]) \in Data
      BY <1>1, <2>2 DEF ReceiveCompletes, conVars
    <3>2. h \in Handlers
      BY <1>1, <3>1, HandlerTypes
    <3>3. In(ready', h) /\ \A x : In(ready, x) => In(ready', x)
      <4> HIDE DEF h
      <4> QED BY <1>1, <3>1, <3>2, InAppended
    <3> QED BY <1>1, <1>2, <3>1, <3>3 DEF Listens, Listening, Losing, LosingIn
  <2>3. CASE TimerExpires(c)
    <3>1. ready' = Append(ready, Timer(c, "EXPIRED")) /\ UNCHANGED <<receiving, socket>>
      BY <2>3 DEF TimerExpires, conVars
    <3>2. Timer(c, "EXPIRED") \in Handlers
      BY <1>1, HandlerTypes
    <3>3. \A x : In(ready, x) => In(ready', x)
      BY <1>1, <3>1, <3>2, InAppended
    <3> QED BY <1>1, <1>2, <3>1, <3>3 DEF Listens, Listening, Losing, LosingIn
  <2>4. CASE RequestJoin(c) \/ SendTurn(c) \/ Quit(c)
    <3>1. UNCHANGED <<socket, receiving, ready>>
      BY <2>4 DEF RequestJoin, SendTurn, Quit, conVars, ioVars
    <3> QED BY <1>1, <1>2, <3>1 DEF Listens, Listening, Losing, LosingIn
  <2> QED BY <2>1, <2>2, <2>3, <2>4
<1>4. OthersOnly'
  BY <1>1, <1>2 DEF OthersOnly
<1> QED BY <1>2, <1>3, <1>4, SameViews

--------------------------------------------------------------------------------
(* The theorem.                                                                 *)

LEMMA VInvInit == Init => VInv
<1> SUFFICES ASSUME Init PROVE VInv
  OBVIOUS
<1>1. KInv
  BY KInvInit
<1>2. HostSettled
  BY SlotTypes, ServerAssumption DEF Init, HostSettled
<1>3. Listens
  BY ServerAssumption DEF Init, Listens, Connections
<1>4. Drops /\ OthersOnly
  BY DEF Init, Drops, OthersOnly
<1>5. Taken = {HostSlot}
  BY SlotTypes DEF Init, Taken
<1>6. \A s \in Slots : HostBelieves(s) <=> s = HostSlot
  BY SlotTypes DEF Init, HostBelieves
<1>7. Views
  BY <1>2, <1>5, <1>6 DEF Views, Believes, HostSettled
<1> QED BY <1>1, <1>2, <1>3, <1>4, <1>7 DEF VInv

LEMMA VInvNext == VInv /\ [Next]_vars => VInv'
<1> SUFFICES ASSUME VInv, [Next]_vars PROVE VInv'
  OBVIOUS
<1>0. KInv'
  BY KInvNext DEF VInv
<1> SUFFICES HostSettled' /\ Listens' /\ Drops' /\ Views' /\ OthersOnly'
  BY <1>0 DEF VInv
<1>1. CASE Poll
  BY <1>1, PollViews, OthersNext
<1>2. CASE HostReceives
  BY <1>2, HostReceivesViews, OthersNext
<1>3. CASE RelayHostDrop
  BY <1>3, RelayHostDropViews
<1>4. CASE \E s \in Slots : HostDropsPlayer(s)
  BY <1>4, HostDropsViews
<1>5. ASSUME NEW c \in Clients,
             \/ Accept(c) \/ ReceiveCompletes(c) \/ TimerExpires(c)
             \/ RequestJoin(c) \/ SendTurn(c) \/ Quit(c)
      PROVE  HostSettled' /\ Listens' /\ Drops' /\ Views' /\ OthersOnly'
  BY <1>5, ClientViews
<1>6. CASE UNCHANGED vars
  <2>1. /\ UNCHANGED <<connections, view, hostInbox, hostDrops, plr, reused>>
        /\ Listens' /\ \A s \in Slots : Losing(s) => Losing(s)'
        /\ OthersOnly'
    BY <1>6 DEF vars, VInv, Listens, Listening, Losing, LosingIn, OthersOnly, conVars, ioVars
  <2> QED BY <2>1, SameViews
<1> QED BY <1>1, <1>2, <1>3, <1>4, <1>5, <1>6 DEF Next

\* Once every packet and every handler is dealt with, all players know the same players,
\* those that the server has a connection for, whatever joins, quits, time-outs and drops
\* crossed before: whatever is dropped twice, relayed for a connection that is closed
\* already, or told in an order of its own (tcp_server::HandleReceivePacket,
\* DropConnection, base::RecvLocal).  Only a slot that was given again while something of
\* a former owner was left may be known to some and not to others.
THEOREM PlayersAgree == Spec => []PeersAgree
<1>1. VInv /\ [Next]_vars => VInv'
  BY VInvNext
<1>2. VInv => PeersAgree
  <2> SUFFICES ASSUME VInv, ready = <<>>, hostInbox = <<>>, hostDrops = <<>>,
                      NEW t \in Taken
               PROVE  view[connections[t]] \ reused = Taken \ reused
    BY DEF PeersAgree
  <2>1. TypeOK /\ Views /\ Taken \subseteq Slots /\ connections[t] \in Connections
    BY DEF VInv, KInv, IInv, TypeOK, Taken
  <2>2. \A s \in Slots : ~ Leaves(s) /\ ~ Losing(s)
    BY DEF Leaves, Losing, LosingIn, In
  <2>3. \A s \in Slots : Believes(connections[t], s) <=> s \in view[connections[t]]
    BY DEF Believes, HostBelieves
  <2>4. \A s \in Slots \ reused : s \in view[connections[t]] <=> s \in Taken
    BY <2>1, <2>2, <2>3 DEF Views
  <2>5. view[connections[t]] \subseteq Slots
    BY <2>1 DEF TypeOK
  <2> QED BY <2>1, <2>4, <2>5
<1> QED BY <1>1, <1>2, VInvInit, PTL DEF Spec
===============================================================================
