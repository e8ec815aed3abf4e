------------------------------ MODULE PlayerInfo ------------------------------
(***************************************************************************)
(* How the programs of a game learn each other's characters, and forget    *)
(* them: multi.cpp (NetInit, recv_plrinfo, PlayerLeftMsg,                  *)
(* ProcessGameMessagePackets) and the buffer of msg.cpp that holds the     *)
(* messages which arrive while the game state is being transferred         *)
(* (BufferMessage, PrePacket, OnPlayerJoinLevel).                          *)
(*                                                                         *)
(* A program that joins sends its character in chunks to all the others    *)
(* (CMD_SEND_PLRINFO), each of whom answers with its own                   *)
(* (CMD_ACK_PLRINFO).  A character that was sent becomes active when its   *)
(* player enters a level (CMD_PLAYER_JOINLEVEL), one that was acknowledged *)
(* at once.                                                                *)
(*                                                                         *)
(* Abstractions.  A character is the number of the life it belongs to: how *)
(* often its slot had been taken.  CMD_PLAYER_JOINLEVEL, sent at every     *)
(* change of level, stands for all commands that are buffered.  The        *)
(* transfer of the game state takes any time.  The server relays one       *)
(* packet at a time; the host's packets pass it at once.  Who is connected *)
(* to whom and how a slot is given again are left to TurnSync and          *)
(* TcpServer: here the others are told that a player left before its slot  *)
(* is free.  Characters are well-formed, and CheckPlayerInfoTimeouts is    *)
(* left out.                                                               *)
(***************************************************************************)
EXTENDS Integers, FiniteSets, Subsequences

CONSTANTS
    N,           \* number of player slots in use, at most MAX_PLRS
    Members,     \* bound: the slots of those who play at first
    Chunks,      \* messages that a PlayerNetPack is sent in
    MaxLives,    \* bound on the programs that take a slot, one after the other
    MaxCommands, \* bound on changes of level by programs that play
    MaxFaults    \* bound on leaves, crashes, and joins and commands during a join

ASSUME ParametersAssumption ==
    /\ N \in 1 .. 4                      \* MAX_PLRS
    /\ Members \subseteq 0 .. N - 1 /\ 0 \in Members
    /\ Chunks \in Nat \ {0}
    /\ MaxLives \in Nat \ {0}
    /\ MaxCommands \in Nat
    /\ MaxFaults \in Nat

Slots == 0 .. N - 1
Lives == 1 .. MaxLives
Host == 0                    \* the creator of the game runs the server
SNPLAYER_OTHERS == 255

VARIABLES
    phase,          \* of the program in a slot, see Phases
    life,           \* ghost: the number of programs that took the slot
    connections,    \* the server's connections, as a set of slots
    up,             \* packets of a client that the server has yet to relay
    inbox,          \* what the server sent to p: message_queue, then the socket
    buffer,         \* MegaPktList
    offset,         \* sgwPackPlrOffsetTbl, in chunks
    packed,         \* recv_plrinfo's PackedPlayerBuffer: each chunk's life
    character,      \* what p's Players[q] was unpacked from; Blank is not valid
    plractive,      \* p's active players
    gbActivePlayers,
    playerLeft,     \* sgbPlayerLeftGameTbl, as a set of players
    early,          \* ghost: those whose replay handled a leave before its place
    commands,       \* number of changes of level so far
    faults          \* number of leaves, crashes and disturbed joins so far

programVars == <<buffer, offset, packed, character, plractive, gbActivePlayers>>
netVars == <<connections, up, inbox>>
leaveVars == <<playerLeft, early>>
vars == <<phase, life, netVars, programVars, leaveVars, commands, faults>>

-----------------------------------------------------------------------------
(* Messages.                                                               *)

Phases ==
    {"out",        \* no program has the slot
     "joined",     \* the server has accepted it
     "resync",     \* msg_wait_resync: gbBufferMsgs = 1
     "load",       \* StartGame: the level is loaded
     "replay",     \* run_delta_info: gbBufferMsgs = 2
     "play",
     "cut"}        \* plays, but PrePacket has returned early

InfoCommands == {"CMD_SEND_PLRINFO", "CMD_ACK_PLRINFO"}

Message(cmd, src, dst, chunk) ==
    [type |-> cmd, src |-> src, dst |-> dst, life |-> life[src], chunk |-> chunk]
Event(type, player) == [type |-> type, src |-> player]

\* multi_send_zero_packet: the chunks of p's character.
Info(cmd, p, dst) == [i \in 1 .. Chunks |-> Message(cmd, p, dst, i - 1)]
JoinLevel(p) == <<Message("CMD_PLAYER_JOINLEVEL", p, SNPLAYER_OTHERS, 0)>>

\* A PlayerNetPack: of which life each chunk is.
Packs == [0 .. Chunks - 1 -> 0 .. MaxLives]
PackOf(l) == [c \in 0 .. Chunks - 1 |-> l]
Blank == PackOf(0)

IsDisconnect(packet) == packet.type = "PT_DISCONNECT"

MessagesType ==
    [type : InfoCommands \cup {"CMD_PLAYER_JOINLEVEL"}, src : Slots,
     dst : Slots \cup {SNPLAYER_OTHERS}, life : Lives, chunk : 0 .. Chunks - 1]
EventsType(types) == [type : types, src : Slots]
Packets == MessagesType \cup EventsType({"PT_DISCONNECT"})

\* What the server sends to q, and what of it q can buffer.
MessagesTo(q) == {m \in MessagesType : m.dst \in {q, SNPLAYER_OTHERS}}
To(q) == MessagesTo(q) \cup EventsType({"PT_DISCONNECT"})
Buffered(q) == MessagesTo(q) \cup EventsType({"FAKE_CMD_DROPID"})

TypeOK ==
    /\ phase \in [Slots -> Phases]
    /\ life \in [Slots -> 0 .. MaxLives]
    /\ connections \in SUBSET Slots
    /\ up \in [Slots -> Seq(Packets)]
    /\ inbox \in [Slots -> Seq(Packets)]
    /\ \A p \in Slots : inbox[p] \in Seq(To(p))
    /\ buffer \in [Slots -> Seq(MessagesType \cup EventsType({"FAKE_CMD_DROPID"}))]
    /\ \A p \in Slots : buffer[p] \in Seq(Buffered(p))
    /\ offset \in [Slots -> [Slots -> 0 .. Chunks - 1]]
    /\ packed \in [Slots -> [Slots -> Packs]]
    /\ character \in [Slots -> [Slots -> Packs]]
    /\ plractive \in [Slots -> SUBSET Slots]
    /\ gbActivePlayers \in [Slots -> Nat]
    /\ playerLeft \in [Slots -> SUBSET Slots]
    /\ early \in SUBSET Slots
    /\ commands \in Nat
    /\ faults \in Nat

Nobody == [q \in Slots |-> Blank]
KnownAtFirst == [q \in Slots |-> IF q \in Members THEN PackOf(1) ELSE Blank]

\* The members play and know each other; nothing is on its way.
Init ==
    /\ phase = [p \in Slots |-> IF p \in Members THEN "play" ELSE "out"]
    /\ life = [p \in Slots |-> IF p \in Members THEN 1 ELSE 0]
    /\ connections = Members
    /\ up = [p \in Slots |-> <<>>]
    /\ inbox = [p \in Slots |-> <<>>]
    /\ buffer = [p \in Slots |-> <<>>]
    /\ offset = [p \in Slots |-> [q \in Slots |-> 0]]
    /\ packed = [p \in Slots |-> Nobody]
    /\ character = [p \in Slots |-> IF p \in Members THEN KnownAtFirst ELSE Nobody]
    /\ plractive = [p \in Slots |-> IF p \in Members THEN Members ELSE {}]
    /\ gbActivePlayers = [p \in Slots |-> IF p \in Members THEN Cardinality(Members) ELSE 0]
    /\ playerLeft = [p \in Slots |-> {}]
    /\ early = {}
    /\ commands = 0
    /\ faults = 0

-----------------------------------------------------------------------------
(* The network.                                                            *)

\* tcp_server::SendPacket: what the clients have once packets from src passed.
Delivered(boxes, src, packets) ==
    [q \in Slots |->
        IF q \in connections \ {src}
        THEN boxes[q] \o Among(packets, To(q))
        ELSE boxes[q]]

\* p, whose inboxes are "boxes", sends the messages.  What a client sends is lost
\* once the server closed its socket.
Sends(p, messages, boxes) ==
    /\ up' = IF p \in connections \ {Host} THEN [up EXCEPT ![p] = @ \o messages] ELSE up
    /\ inbox' = IF p = Host THEN Delivered(boxes, Host, messages) ELSE boxes

\* The server relays a packet; when it learns that p leaves, p's slot is free.
Relay(p) ==
    /\ p \in connections
    /\ up[p] # <<>>
    /\ inbox' = Delivered(inbox, p, <<Head(up[p])>>)
    /\ IF IsDisconnect(Head(up[p]))
       THEN /\ connections' = connections \ {p}
            /\ up' = [up EXCEPT ![p] = <<>>]
       ELSE /\ up' = [up EXCEPT ![p] = Tail(@)]
            /\ UNCHANGED connections
    /\ UNCHANGED <<phase, life, programVars, leaveVars, commands, faults>>

Joins(p) == phase[p] \in {"joined", "resync", "load", "replay"}
Plays(p) == phase[p] \in {"play", "cut"}

\* A join is disturbed if others join or send commands meanwhile, or if a command
\* was on its way when it began.
Disturbs(disturbed) ==
    /\ disturbed => faults < MaxFaults
    /\ faults' = IF disturbed THEN faults + 1 ELSE faults

SomebodyJoins == \E p \in Slots : Joins(p)
CommandPending ==
    \E p \in Slots : \E i \in 1 .. Len(up[p]) : up[p][i].type = "CMD_PLAYER_JOINLEVEL"

\* HandleReceiveNewPlayer gives a new program the first free slot; NetInit has
\* cleared what an earlier game left.
Join(j) ==
    /\ phase[j] = "out"
    /\ j \notin connections
    /\ \A q \in Slots : q < j => q \in connections
    /\ life[j] < MaxLives
    /\ Disturbs(SomebodyJoins \/ CommandPending)
    /\ phase' = [phase EXCEPT ![j] = "joined"]
    /\ life' = [life EXCEPT ![j] = @ + 1]
    /\ connections' = connections \cup {j}
    /\ inbox' = [inbox EXCEPT ![j] = <<>>]
    /\ UNCHANGED <<up, programVars, leaveVars, commands>>

\* What remains of a program that has ended.
Ended(p) ==
    /\ phase' = [phase EXCEPT ![p] = "out"]
    /\ buffer' = [buffer EXCEPT ![p] = <<>>]
    /\ offset' = [offset EXCEPT ![p] = [q \in Slots |-> 0]]
    /\ packed' = [packed EXCEPT ![p] = Nobody]
    /\ character' = [character EXCEPT ![p] = Nobody]
    /\ plractive' = [plractive EXCEPT ![p] = {}]
    /\ gbActivePlayers' = [gbActivePlayers EXCEPT ![p] = 0]
    /\ playerLeft' = [playerLeft EXCEPT ![p] = {}]
    /\ early' = early \ {p}
    /\ faults < MaxFaults
    /\ faults' = faults + 1

\* NetClose: the player leaves.  The host stays: its game ends with it.
Leave(p) ==
    /\ p # Host
    /\ phase[p] # "out"
    /\ Ended(p)
    /\ up' = [up EXCEPT ![p] = Append(@, Event("PT_DISCONNECT", p))]
    /\ inbox' = [inbox EXCEPT ![p] = <<>>]
    /\ UNCHANGED <<life, connections, commands>>

\* The program ends or is cut off; what the server has not read yet is lost.
Crash(p) ==
    /\ p # Host
    /\ phase[p] # "out"
    /\ Ended(p)
    /\ connections' = connections \ {p}
    /\ up' = [up EXCEPT ![p] = <<>>]
    /\ inbox' = [Delivered(inbox, p, <<Event("PT_DISCONNECT", p)>>) EXCEPT ![p] = <<>>]
    /\ UNCHANGED <<life, commands>>

-----------------------------------------------------------------------------
(* A program polls its socket.                                             *)

\* Mutant of ClearMsg: they stay.
KeepMsg(messages, q) == messages

\* ClearMsg removes the messages of player q that were not handled yet.
ClearMsg(messages, q) == Among(messages, {m \in Packets : m.src # q})

\* HandleDisconnect and HandleEvents.  Messages wait in message_queue until
\* SNetReceiveMessage takes them, but a disconnect behind them is handled as soon
\* as it arrives.
HandleDisconnect(p) ==
    \E i \in 1 .. Len(inbox[p]) :
        LET q == inbox[p][i].src
            waiting == SubSeq(inbox[p], 1, i - 1)
            behind == SubSeq(inbox[p], i + 1, Len(inbox[p]))
        IN  /\ phase[p] # "out"
            /\ IsDisconnect(inbox[p][i])
            /\ \A k \in 1 .. i - 1 : ~ IsDisconnect(inbox[p][k])
            /\ playerLeft' = [playerLeft EXCEPT ![p] = @ \cup {q}]
            /\ inbox' = [inbox EXCEPT ![p] = ClearMsg(waiting, q) \o behind]
            /\ UNCHANGED <<phase, life, connections, up, programVars, early, commands, faults>>

-----------------------------------------------------------------------------
(* What a program knows of a player.                                       *)

\* IsNetPlayerValid
IsValid(p, q) == character[p][q] # Blank

\* Mutant of PlayerLeftMsg: it does not return early for inactive players.
PlayerLeftInactive(p, players) ==
    LET gone == players \ {p}
    IN  /\ plractive' = [plractive EXCEPT ![p] = @ \ gone]
        /\ gbActivePlayers' = [gbActivePlayers EXCEPT ![p] = @ - Cardinality(gone)]
        /\ character' = [character EXCEPT ![p] =
                            [q \in Slots |-> IF q \in gone THEN Blank ELSE @[q]]]

\* PlayerLeftMsg for a set of players.  Of a player that is not active yet all
\* that was received is kept.
PlayerLeftMsg(p, players) ==
    LET gone == (players \cap plractive[p]) \ {p}
    IN  /\ plractive' = [plractive EXCEPT ![p] = @ \ gone]
        /\ gbActivePlayers' = [gbActivePlayers EXCEPT ![p] = @ - Cardinality(gone)]
        /\ character' = [character EXCEPT ![p] =
                            [q \in Slots |-> IF q \in gone THEN Blank ELSE @[q]]]

\* Mutant of NextChunk: whatever comes is taken for the next chunk.
AnyChunk(p, m) == m.chunk

\* The offset that recv_plrinfo goes on from: a chunk that is not the next one
\* starts the character over.
NextChunk(p, m) == IF offset[p][m.src] = m.chunk THEN m.chunk ELSE 0

\* The end of recv_plrinfo: PlayerLeftMsg, UnPackNetPlayer, and a player that has
\* answered is active.
UnPack(p, q, pack, recv) ==
    LET before == IF q \in plractive[p] THEN 1 ELSE 0
        after == IF recv THEN 1 ELSE 0
    IN  /\ character' = [character EXCEPT ![p][q] = pack]
        /\ plractive' = [plractive EXCEPT ![p] = IF recv THEN @ \cup {q} ELSE @ \ {q}]
        /\ gbActivePlayers' = [gbActivePlayers EXCEPT ![p] = @ - before + after]

\* Mutant of Answer: recv the wrong way round, what was answered is answered.
AnswerAck(p, m) ==
    IF m.type = "CMD_ACK_PLRINFO" /\ m.chunk = 0
    THEN Info("CMD_ACK_PLRINFO", p, m.src) ELSE <<>>

\* SendPlayerInfo(pnum, CMD_ACK_PLRINFO), at the first chunk of what was sent.
Answer(p, m) ==
    IF m.type = "CMD_SEND_PLRINFO" /\ m.chunk = 0
    THEN Info("CMD_ACK_PLRINFO", p, m.src) ELSE <<>>

\* Mutant of NextOffset: no reset.
EndOffset(chunk) == chunk + 1

\* The offset behind a chunk; behind the last one it is reset.
NextOffset(chunk) == IF chunk = Chunks - 1 THEN 0 ELSE chunk + 1

\* recv_plrinfo; p's inboxes are "boxes" without the message.
RecvPlrInfo(p, m, boxes) ==
    LET q == m.src
        pack == [packed[p][q] EXCEPT ![m.chunk] = m.life]
        ignored == q = p \/ NextChunk(p, m) # m.chunk
    IN  /\ offset' = [offset EXCEPT ![p][q] =
                         IF q = p THEN @ ELSE IF ignored THEN 0 ELSE NextOffset(m.chunk)]
        /\ packed' = IF ignored THEN packed ELSE [packed EXCEPT ![p][q] = pack]
        /\ Sends(p, IF ignored THEN <<>> ELSE Answer(p, m), boxes)
        /\ IF ~ ignored /\ m.chunk = Chunks - 1
           THEN UnPack(p, q, pack, m.type = "CMD_ACK_PLRINFO")
           ELSE UNCHANGED <<character, plractive, gbActivePlayers>>

\* OnPlayerJoinLevel: a player that is known is active from now on.
OnPlayerJoinLevel(p, q) ==
    IF IsValid(p, q) /\ q \notin plractive[p]
    THEN /\ plractive' = [plractive EXCEPT ![p] = @ \cup {q}]
         /\ gbActivePlayers' = [gbActivePlayers EXCEPT ![p] = @ + 1]
    ELSE UNCHANGED <<plractive, gbActivePlayers>>

\* ParseCmd refuses commands of a player whose character has arrived in part.
Refused(p, m) == m.type \notin InfoCommands /\ offset[p][m.src] # 0

\* ParseCmd of a message that is not buffered.
ParseCmd(p, m, boxes) ==
    IF m.type \in InfoCommands
    THEN RecvPlrInfo(p, m, boxes)
    ELSE /\ IF Refused(p, m)
            THEN UNCHANGED <<plractive, gbActivePlayers>>
            ELSE OnPlayerJoinLevel(p, m.src)
         /\ inbox' = boxes
         /\ UNCHANGED <<up, offset, packed, character>>

-----------------------------------------------------------------------------
(* A program joins the game.                                               *)

\* The second half of NetInit: the program knows itself, sends its character to
\* the others and waits for the state of the game.
NetInit(p) ==
    /\ phase[p] = "joined"
    /\ phase' = [phase EXCEPT ![p] = "resync"]
    /\ character' = [character EXCEPT ![p][p] = PackOf(life[p])]
    /\ plractive' = [plractive EXCEPT ![p] = {p}]
    /\ gbActivePlayers' = [gbActivePlayers EXCEPT ![p] = 1]
    /\ Sends(p, Info("CMD_SEND_PLRINFO", p, SNPLAYER_OTHERS), inbox)
    /\ UNCHANGED <<life, connections, buffer, offset, packed, leaveVars,
                   commands, faults>>

\* ProcessGameMessagePackets while the state is awaited: BufferMessage.
BufferMessage(p) ==
    /\ phase[p] = "resync"
    /\ playerLeft[p] = {}
    /\ inbox[p] # <<>>
    /\ ~ IsDisconnect(Head(inbox[p]))
    /\ buffer' = [buffer EXCEPT ![p] = Append(@, Head(inbox[p]))]
    /\ inbox' = [inbox EXCEPT ![p] = Tail(@)]
    /\ UNCHANGED <<phase, life, connections, up, offset, packed, character,
                   plractive, gbActivePlayers, leaveVars, commands, faults>>

\* The loop over the players runs upwards.
Ascending(players) == Among([i \in 1 .. N |-> i - 1], players)

\* ClearPlayerLeftState while the state is awaited: msg_send_drop_pkt.
BufferDrops(p) ==
    /\ phase[p] = "resync"
    /\ playerLeft[p] # {}
    /\ LET players == Ascending(playerLeft[p])
       IN  buffer' = [buffer EXCEPT ![p] =
               @ \o [i \in 1 .. Len(players) |-> Event("FAKE_CMD_DROPID", players[i])]]
    /\ playerLeft' = [playerLeft EXCEPT ![p] = {}]
    /\ UNCHANGED <<phase, life, netVars, offset, packed, character, plractive,
                   gbActivePlayers, early, commands, faults>>

\* msg_wait_resync returns: messages are no longer buffered.
ResyncEnds(p) ==
    /\ phase[p] = "resync"
    /\ phase' = [phase EXCEPT ![p] = "load"]
    /\ UNCHANGED <<life, netVars, programVars, leaveVars, commands, faults>>

\* StartGame has loaded the level and tells the others.
EnterGame(p) ==
    /\ phase[p] = "load"
    /\ phase' = [phase EXCEPT ![p] = "replay"]
    /\ Sends(p, JoinLevel(p), inbox)
    /\ UNCHANGED <<life, connections, programVars, leaveVars, commands, faults>>

-----------------------------------------------------------------------------
(* run_delta_info: PrePacket replays the buffer.                           *)

EndReplay(p, next) ==
    /\ phase' = [phase EXCEPT ![p] = next]
    /\ buffer' = [buffer EXCEPT ![p] = <<>>]

\* multi_player_left handles whatever leave is pending.
ReplayDrop(p) ==
    /\ phase[p] = "replay"
    /\ buffer[p] # <<>>
    /\ Head(buffer[p]).type = "FAKE_CMD_DROPID"
    /\ PlayerLeftMsg(p, playerLeft[p] \cup {Head(buffer[p]).src})
    /\ playerLeft' = [playerLeft EXCEPT ![p] = {}]
    /\ early' = IF playerLeft[p] = {} THEN early ELSE early \cup {p}
    /\ buffer' = [buffer EXCEPT ![p] = Tail(@)]
    /\ UNCHANGED <<phase, life, netVars, offset, packed, commands, faults>>

\* A message whose source is not valid, or that ParseCmd refuses, ends the replay.
Readable(p, m) == m.type \in InfoCommands \/ (IsValid(p, m.src) /\ ~ Refused(p, m))

ReplayMessage(p) ==
    /\ phase[p] = "replay"
    /\ buffer[p] # <<>>
    /\ Head(buffer[p]).type # "FAKE_CMD_DROPID"
    /\ Readable(p, Head(buffer[p]))
    /\ ParseCmd(p, Head(buffer[p]), inbox)
    /\ buffer' = [buffer EXCEPT ![p] = Tail(@)]
    /\ UNCHANGED <<phase, life, connections, leaveVars, commands, faults>>

\* "Source of network message is no longer valid" and "Discarding bad network
\* message": PrePacket returns and the rest of the buffer is freed.
DiscardRest(p) ==
    /\ phase[p] = "replay"
    /\ buffer[p] # <<>>
    /\ Head(buffer[p]).type # "FAKE_CMD_DROPID"
    /\ ~ Readable(p, Head(buffer[p]))
    /\ EndReplay(p, "cut")
    /\ UNCHANGED <<life, netVars, offset, packed, character, plractive, gbActivePlayers,
                   leaveVars, commands, faults>>

ReplayEnds(p) ==
    /\ phase[p] = "replay"
    /\ buffer[p] = <<>>
    /\ EndReplay(p, "play")
    /\ UNCHANGED <<life, netVars, offset, packed, character, plractive, gbActivePlayers,
                   leaveVars, commands, faults>>

-----------------------------------------------------------------------------
(* A program plays.                                                        *)

\* ClearPlayerLeftState, before each message.
ClearPlayerLeft(p) ==
    /\ Plays(p)
    /\ playerLeft[p] # {}
    /\ PlayerLeftMsg(p, playerLeft[p])
    /\ playerLeft' = [playerLeft EXCEPT ![p] = {}]
    /\ UNCHANGED <<phase, life, netVars, buffer, offset, packed, early, commands, faults>>

\* ProcessGameMessagePackets: only its character is accepted from a player that is
\* not valid.
HandleMessage(p) ==
    /\ Plays(p)
    /\ playerLeft[p] = {}
    /\ inbox[p] # <<>>
    /\ ~ IsDisconnect(Head(inbox[p]))
    /\ LET m == Head(inbox[p])
           rest == [inbox EXCEPT ![p] = Tail(@)]
       IN  IF IsValid(p, m.src) \/ m.type \in InfoCommands
           THEN ParseCmd(p, m, rest)
           ELSE /\ inbox' = rest
                /\ UNCHANGED <<up, offset, packed, character, plractive, gbActivePlayers>>
    /\ UNCHANGED <<phase, life, connections, buffer, leaveVars, commands, faults>>

\* p's player goes to another level.
ChangeLevel(p) ==
    /\ Plays(p)
    /\ Disturbs(SomebodyJoins)
    /\ commands < MaxCommands
    /\ commands' = commands + 1
    /\ Sends(p, JoinLevel(p), inbox)
    /\ UNCHANGED <<phase, life, connections, programVars, leaveVars>>

-----------------------------------------------------------------------------

Next ==
    \E p \in Slots :
        \/ Join(p)
        \/ NetInit(p)
        \/ BufferMessage(p)
        \/ BufferDrops(p)
        \/ ResyncEnds(p)
        \/ EnterGame(p)
        \/ ReplayDrop(p)
        \/ ReplayMessage(p)
        \/ DiscardRest(p)
        \/ ReplayEnds(p)
        \/ ClearPlayerLeft(p)
        \/ HandleMessage(p)
        \/ ChangeLevel(p)
        \/ HandleDisconnect(p)
        \/ Relay(p)
        \/ Leave(p)
        \/ Crash(p)

Spec == Init /\ [][Next]_vars

-----------------------------------------------------------------------------
(* Properties.                                                             *)

\* gbActivePlayers, which the game's rules and its limits go by, is the number of
\* active players, whatever order characters, answers, changes of level and leaves
\* come in.
ActiveCount ==
    \A p \in Slots :
        /\ gbActivePlayers[p] = Cardinality(plractive[p])
        /\ phase[p] \notin {"out", "joined"} => p \in plractive[p]

\* What recv_plrinfo puts together and what is active is the character of one
\* program, also where a program ends between two chunks and its slot is taken by
\* another one, unless PrePacket has discarded messages between the chunks.
OneCharacter ==
    \A p, q \in Slots :
        /\ IsValid(p, q) => phase[p] = "cut" \/ \E l \in Lives : character[p][q] = PackOf(l)
        /\ q \in plractive[p] => IsValid(p, q)

\* Nothing is on its way, waits to be handled or is being joined.
Quiet ==
    \A p \in Slots :
        /\ ~ Joins(p)
        /\ up[p] = <<>>
        /\ inbox[p] = <<>> \/ p \notin connections
        /\ playerLeft[p] = {}

Playing == {p \in Slots : Plays(p)}

\* What KnownWhenQuiet asks of p and q.
Known(p, q) == q \in plractive[p] /\ character[p][q] = PackOf(life[q])

\* The players of a game know each other: when all was handled, each is active in
\* the game of every other, with its own character.  Nobody asks again for one
\* that was lost.
KnownWhenQuiet ==
    Quiet => \A p, q \in Playing : Known(p, q)

\* Characters are lost in a discarded rest only: whoever replayed its buffer to the
\* end knows, and is known to, all others that did, however leaves, crashes and
\* commands cross the join.
LostByDiscardOnly ==
    Quiet => \A p, q \in Playing :
                 phase[p] = "cut" \/ phase[q] = "cut" \/ Known(p, q)

\* Of a player that left nothing stays: when all was handled, only players that
\* play are active, unless the replay of the buffer ended before its end, or handled
\* a leave before the messages in front of it.
GoneWhenQuiet ==
    Quiet => \A p \in Playing :
                 phase[p] = "cut" \/ p \in early \/ plractive[p] \subseteq Playing
=============================================================================
