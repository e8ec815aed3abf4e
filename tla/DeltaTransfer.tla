---------------------------- MODULE DeltaTransfer ----------------------------
(***************************************************************************)
(* The transfer of the state of the game to a program that joins: msg.cpp  *)
(* (DeltaExportData, OnLevelData, DeltaImportData, WaitForTurns,           *)
(* msg_wait_resync) and the part of multi.cpp that decides who sends it    *)
(* (HandleTurnUpperBit, HandleEvents, CheckPlayerInfoTimeouts).            *)
(*                                                                         *)
(* The joiner asks with the upper bit of a turn.  Each program decides by  *)
(* itself, when it consumes that turn, who is to answer: the connected     *)
(* player with the lowest number.  That player sends every level in        *)
(* chunks, then portals and quests ("junk"), then an end mark.  If the     *)
(* player that sends leaves, the joiner asks again.                        *)
(*                                                                         *)
(* Connections are those of the peer-to-peer provider: a channel from each *)
(* player to the joiner, which carries chunks and reports of leaves, and   *)
(* is ignored as soon as the joiner counts its player as gone.  With TCP   *)
(* the player that sends is always the host, whose leave ends the game.    *)
(*                                                                         *)
(* Abstractions.  The state of a level is the player it was exported by;   *)
(* data that was put together from different exports either fails to       *)
(* unpack or passes for a level ("mixed").  All players have visited all   *)
(* levels.  Turns are left to TurnSync: a request reaches every player at  *)
(* any time.  The joiner's failing sends (gbGameDestroyed) are left out.   *)
(***************************************************************************)
EXTENDS Integers, FiniteSets, SequencesExt, Subsequences

CONSTANTS
    N,           \* number of players, the joiner is the last
    Levels,      \* levels of the game
    LevelChunks, \* messages that a level is sent in
    MaxRequests, \* bound on the requests of the joiner
    MaxFaults    \* bound on players that crash, leave or are dropped though alive

ASSUME ParametersAssumption ==
    /\ N \in 2 .. 4                      \* MAX_PLRS
    /\ IsFiniteSet(Levels) /\ Levels # {} /\ "junk" \notin Levels
    /\ LevelChunks \in Nat \ {0}
    /\ MaxRequests \in Nat \ {0}
    /\ MaxFaults \in Nat

MAX_PLRS == 4
Joiner == N - 1
Peers == 0 .. N - 2
MaxMultiplayerLevels == Cardinality(Levels)
MaxChunks == MaxMultiplayerLevels + 4
RecvBufSize == LevelChunks               \* sgRecvBuf holds the largest level

VARIABLES
    phase,         \* of the joiner, see Phases
    gbDeltaSender, sgbRecvCmd, sgbDeltaChunks,  \* of the joiner
    recvBuf,       \* sgRecvBuf up to sgdwRecvOffset, as a sequence of chunks
    imported,      \* DeltaLevels and sgJunk: whose data each of them is
    connected,     \* the players the joiner counts as connected
    queue,         \* message_queue of the joiner
    net,           \* packets from p to the joiner
    requests,      \* upper bits sent by the joiner
    consumed,      \* how many of these a program has consumed
    chosen,        \* ghost: who was found to be the sender, per request
    knows,         \* the other peers that p counts as connected
    sendDelta,     \* peers with sgbSendDeltaTbl[Joiner]
    alive,         \* programs that run and can be reached
    out,           \* players that somebody counts as gone
    faults         \* number of faults so far

importVars == <<gbDeltaSender, sgbRecvCmd, sgbDeltaChunks, recvBuf, imported>>
requestVars == <<requests, consumed, chosen, knows, sendDelta>>
vars == <<phase, importVars, connected, queue, net, requestVars, alive, out, faults>>

-----------------------------------------------------------------------------
(* Data.                                                                   *)

Phases ==
    {"owner",      \* sgbDeltaChunks = 0: turns of the owner are awaited
     "process",    \* ProcessGameMessagePackets
     "done",       \* msg_wait_resync has succeeded, the game goes on
     "failed",     \* msg_wait_resync reports that there is no level data
     "cancelled"}  \* the player has ended the dialog

Parts == Levels \cup {"junk"}
None == -1
Mixed == -2

Chunk(cmd, p, part, offset) == [cmd |-> cmd, src |-> p, part |-> part, offset |-> offset]
Disconnect(p) == [cmd |-> "PT_DISCONNECT", src |-> p, part |-> "junk", offset |-> 0]

\* The part of the game's state that a command carries in these chunks.
ChunksOf(p, part) ==
    IF part = "junk"
    THEN <<Chunk("CMD_DLEVEL_JUNK", p, "junk", 0)>>
    ELSE [i \in 1 .. LevelChunks |-> Chunk("CMD_DLEVEL", p, part, i - 1)]

\* All that p sends: the levels, the junk and the end mark.
NumLevelChunks == MaxMultiplayerLevels * LevelChunks
Export(p) ==
    [i \in 1 .. NumLevelChunks + 2 |->
        IF i <= NumLevelChunks
        THEN Chunk("CMD_DLEVEL", p, SetToSeq(Levels)[((i - 1) \div LevelChunks) + 1],
                   (i - 1) % LevelChunks)
        ELSE Chunk(IF i = NumLevelChunks + 1 THEN "CMD_DLEVEL_JUNK" ELSE "CMD_DLEVEL_END",
                   p, "junk", 0)]

Commands == {"CMD_DLEVEL", "CMD_DLEVEL_JUNK", "CMD_DLEVEL_END"}
ChunksType ==
    [cmd : Commands, src : Peers, part : Parts, offset : 0 .. LevelChunks - 1]
PacketsType == ChunksType \cup {Disconnect(p) : p \in Peers}

TypeOK ==
    /\ phase \in Phases
    /\ gbDeltaSender \in 0 .. N - 1 \cup {MAX_PLRS}
    /\ sgbRecvCmd \in Commands
    /\ sgbDeltaChunks \in Nat
    /\ recvBuf \in Seq(ChunksType) /\ Len(recvBuf) <= RecvBufSize
    /\ imported \in [Parts -> Peers \cup {None, Mixed}]
    /\ connected \subseteq Peers
    /\ queue \in Seq(ChunksType)
    /\ net \in [Peers -> Seq(PacketsType)]
    /\ requests \in 1 .. MaxRequests
    /\ consumed \in [0 .. N - 1 -> 0 .. requests]
    /\ chosen \in [1 .. MaxRequests -> SUBSET (Peers \cup {MAX_PLRS})]
    /\ knows \in [Peers -> SUBSET Peers]
    /\ sendDelta \subseteq Peers
    /\ alive \subseteq Peers /\ out \subseteq Peers
    /\ faults \in 0 .. MaxFaults

\* NetInit and msg_wait_resync: the first turn of the joiner asks for the state.
Init ==
    /\ phase = "owner"
    /\ gbDeltaSender = Joiner
    /\ sgbRecvCmd = "CMD_DLEVEL_END"
    /\ sgbDeltaChunks = 0
    /\ recvBuf = <<>>
    /\ imported = [part \in Parts |-> None]
    /\ connected = Peers
    /\ queue = <<>>
    /\ net = [p \in Peers |-> <<>>]
    /\ requests = 1
    /\ consumed = [p \in 0 .. N - 1 |-> 0]
    /\ chosen = [r \in 1 .. MaxRequests |-> {}]
    /\ knows = [p \in Peers |-> Peers \ {p}]
    /\ sendDelta = {}
    /\ alive = Peers
    /\ out = {}
    /\ faults = 0

-----------------------------------------------------------------------------
(* Requests.                                                               *)

\* HandleTurnUpperBit: the lowest of the connected players but the joiner.
Responder(players) ==
    IF players = {} THEN MAX_PLRS ELSE CHOOSE p \in players : \A q \in players : p <= q

\* ParseTurn of a request: by a peer, and by the joiner itself.
Consume(p) ==
    /\ consumed[p] < requests
    /\ consumed' = [consumed EXCEPT ![p] = @ + 1]

PeerConsumes(p) ==
    LET responder == Responder(knows[p] \cup {p}) IN
    /\ p \in alive
    /\ Consume(p)
    /\ sendDelta' = IF responder = p THEN sendDelta \cup {p} ELSE sendDelta
    /\ chosen' = [chosen EXCEPT ![consumed'[p]] = @ \cup {responder}]
    /\ UNCHANGED <<phase, importVars, connected, queue, net, requests, knows, alive, out,
                   faults>>

JoinerConsumes ==
    LET responder == Responder(connected) IN
    /\ phase \in {"process", "done"}
    /\ Consume(Joiner)
    /\ gbDeltaSender' = responder
    /\ chosen' = [chosen EXCEPT ![consumed'[Joiner]] = @ \cup {responder}]
    /\ UNCHANGED <<phase, sgbRecvCmd, sgbDeltaChunks, recvBuf, imported, connected, queue,
                   net, requests, knows, sendDelta, alive, out, faults>>

\* multi_handle_delta: a peer sends the whole state.
Answer(p) ==
    /\ p \in alive \cap sendDelta
    /\ sendDelta' = sendDelta \ {p}
    /\ net' = [net EXCEPT ![p] = @ \o Export(p)]
    /\ UNCHANGED <<phase, importVars, connected, queue, requests, consumed, chosen, knows,
                   alive, out, faults>>

-----------------------------------------------------------------------------
(* Faults.                                                                 *)

\* The program of p ends and part of what it sent is lost.
Crash(p) ==
    /\ p \in alive /\ faults < MaxFaults
    /\ \E k \in 0 .. Len(net[p]) : net' = [net EXCEPT ![p] = SubSeq(@, 1, k)]
    /\ alive' = alive \ {p}
    /\ faults' = faults + 1
    /\ UNCHANGED <<phase, importVars, connected, queue, requestVars, out>>

\* SNetLeaveGame: the leave comes after everything that p sent.
Leave(p) ==
    /\ p \in alive /\ faults < MaxFaults
    /\ net' = [net EXCEPT ![p] = Append(@, Disconnect(p))]
    /\ alive' = alive \ {p}
    /\ out' = out \cup {p}
    /\ faults' = faults + 1
    /\ UNCHANGED <<phase, importVars, connected, queue, requestVars>>

\* CheckDropPlayer: q drops p, whose turns are late, and tells everybody.
Drop(q, p) ==
    /\ q \in alive /\ p \in knows[q]
    /\ IF p \in alive THEN faults < MaxFaults ELSE TRUE
    /\ faults' = IF p \in alive THEN faults + 1 ELSE faults
    /\ knows' = [knows EXCEPT ![q] = @ \ {p}]
    /\ net' = [net EXCEPT ![q] = Append(@, Disconnect(p))]
    /\ out' = out \cup {p}
    /\ UNCHANGED <<phase, importVars, connected, queue, requests, consumed, chosen,
                   sendDelta, alive>>

\* A peer hears that p is gone.
PeerLearns(q, p) ==
    /\ q \in alive /\ p \in knows[q] \cap out
    /\ knows' = [knows EXCEPT ![q] = @ \ {p}]
    /\ UNCHANGED <<phase, importVars, connected, queue, net, requests, consumed, chosen,
                   sendDelta, alive, out, faults>>

-----------------------------------------------------------------------------
(* The joiner's provider.                                                  *)

\* ClearMsgs: what is left of the messages in inbox without those of some players.
Without(inbox, gone) == Among(inbox, {chunk \in ChunksType : chunk.src \notin gone})

\* Mutant of Forget: a leave does not tell that the sender of the state is gone.
ForgetOthers(gone, inbox, sender, channels) ==
    /\ connected' = connected \ gone
    /\ queue' = Without(inbox, gone)
    /\ net' = [p \in Peers |-> IF p \in gone THEN <<>> ELSE channels[p]]
    /\ gbDeltaSender' = sender

\* HandleDisconnect of the players in gone, and the leave event: what they sent is
\* cleared from inbox, and their channels are ignored.  sender is who is to send the
\* state up to here.
Forget(gone, inbox, sender, channels) ==
    /\ connected' = connected \ gone
    /\ queue' = Without(inbox, gone)
    /\ net' = [p \in Peers |-> IF p \in gone THEN <<>> ELSE channels[p]]
    /\ gbDeltaSender' = IF sender \in gone THEN MAX_PLRS ELSE sender

\* process_network_packets: RecvLocal of the next packet of p.
Receive(p) ==
    LET packet == Head(net[p])
        rest == [net EXCEPT ![p] = Tail(@)]
    IN
    /\ net[p] # <<>>
    /\ IF p \notin connected
       THEN net' = rest /\ UNCHANGED <<gbDeltaSender, connected, queue>>
       ELSE IF packet.cmd = "PT_DISCONNECT"
            THEN Forget({packet.src} \cap connected, queue, gbDeltaSender, rest)
            ELSE Forget({}, Append(queue, packet), gbDeltaSender, rest)
    /\ UNCHANGED <<phase, sgbRecvCmd, sgbDeltaChunks, recvBuf, imported, requestVars,
                   alive, out, faults>>

\* CheckPlayerInfoTimeouts: characters stay in the buffer of a program that waits, so
\* every player that is connected times out if the transfer takes long enough.
InfoTimeout(p) ==
    /\ phase = "process" /\ p \in connected
    /\ IF p \in alive THEN faults < MaxFaults ELSE TRUE
    /\ faults' = IF p \in alive THEN faults + 1 ELSE faults
    /\ Forget({p}, queue, gbDeltaSender, net)
    /\ out' = out \cup {p}
    /\ UNCHANGED <<phase, sgbRecvCmd, sgbDeltaChunks, recvBuf, imported, requestVars, alive>>

-----------------------------------------------------------------------------
(* OnLevelData of the first message in the queue.                          *)

\* sgbRecvCmd, which a change of the sender resets.
RecvCmd(message) ==
    IF gbDeltaSender = message.src THEN sgbRecvCmd ELSE "CMD_DLEVEL_END"

StartsState(message) == message.cmd = "CMD_DLEVEL" /\ message.offset = 0
\* Mutant of EndsPart: a level is taken for the continuation of the one before it.
EndsCommand(message) == sgbRecvCmd # message.cmd
EndsPart(message) == sgbRecvCmd # message.cmd \/ message.offset = 0

\* Mutant of Copy: the bound of the buffer is not checked.
CopyAnyway(message, buf, dropped) ==
    /\ recvBuf' = Append(buf, message)
    /\ Forget(dropped \cap connected, Tail(queue), message.src, net)
    /\ out' = out \cup dropped

\* Mutant of Copy: the last chunk that fits is refused.
CopyLess(message, buf, dropped) ==
    LET fits == Len(buf) + 1 < RecvBufSize
        gone == IF fits THEN dropped ELSE {message.src}
    IN
    /\ recvBuf' = IF fits THEN Append(buf, message) ELSE buf
    /\ Forget(gone \cap connected, Tail(queue), message.src, net)
    /\ out' = out \cup gone

\* The chunk is copied to the end of buf if there is room; otherwise its sender is dropped.
Copy(message, buf, dropped) ==
    LET fits == Len(buf) < RecvBufSize
        gone == IF fits THEN dropped ELSE {message.src}
    IN
    /\ recvBuf' = IF fits THEN Append(buf, message) ELSE buf
    /\ Forget(gone \cap connected, Tail(queue), message.src, net)
    /\ out' = out \cup gone

\* DeltaImportData: what is in the buffer as data of a level or of the junk.  Data of
\* several exports may fail to unpack.
IsWhole(buf) == \E p \in Peers, part \in Parts : buf = ChunksOf(p, part)
Import(succeeds) ==
    LET owner == IF IsWhole(recvBuf) THEN recvBuf[1].src ELSE Mixed IN
    /\ owner # Mixed => succeeds
    /\ imported' = IF succeeds THEN [imported EXCEPT ![recvBuf[1].part] = owner]
                               ELSE imported

\* Chunks of players that are not sending, and those before the first level.
SkipChunk(message) ==
    /\ RecvCmd(message) = "CMD_DLEVEL_END"
    /\ message.cmd # "CMD_DLEVEL_END" /\ ~StartsState(message)
    /\ queue' = Tail(queue)
    /\ UNCHANGED <<importVars, connected, net, out>>

\* The first chunk of the first level of a sender.
FirstChunk(message) ==
    /\ RecvCmd(message) = "CMD_DLEVEL_END"
    /\ StartsState(message)
    /\ sgbRecvCmd' = message.cmd
    /\ Copy(message, <<>>, {})
    /\ UNCHANGED <<sgbDeltaChunks, imported>>

\* The end mark of a sender of which nothing else is pending.
EndAtOnce(message) ==
    /\ RecvCmd(message) = "CMD_DLEVEL_END"
    /\ message.cmd = "CMD_DLEVEL_END"
    /\ sgbRecvCmd' = "CMD_DLEVEL_END"
    /\ sgbDeltaChunks' = MaxChunks - 1
    /\ Forget({}, Tail(queue), message.src, net)
    /\ UNCHANGED <<recvBuf, imported, out>>

\* A further chunk of the same level.
NextChunk(message) ==
    /\ RecvCmd(message) # "CMD_DLEVEL_END"
    /\ ~EndsPart(message)
    /\ Copy(message, recvBuf, {})
    /\ UNCHANGED <<sgbRecvCmd, sgbDeltaChunks, imported>>

\* The first chunk of another part: the former one is imported.
NextPart(message) ==
    /\ RecvCmd(message) # "CMD_DLEVEL_END"
    /\ EndsPart(message) /\ message.cmd # "CMD_DLEVEL_END"
    /\ sgbRecvCmd' = message.cmd
    /\ \E succeeds \in BOOLEAN :
           /\ Import(succeeds)
           /\ sgbDeltaChunks' = IF succeeds THEN sgbDeltaChunks + 1 ELSE sgbDeltaChunks
           /\ Copy(message, <<>>, IF succeeds THEN {} ELSE {message.src})

\* The end mark: the last part is imported, and the state is complete in any case.
LastPart(message) ==
    /\ RecvCmd(message) # "CMD_DLEVEL_END"
    /\ message.cmd = "CMD_DLEVEL_END"
    /\ sgbRecvCmd' = "CMD_DLEVEL_END"
    /\ sgbDeltaChunks' = MaxChunks - 1
    /\ \E succeeds \in BOOLEAN :
           LET gone == IF succeeds THEN {} ELSE {message.src} IN
           /\ Import(succeeds)
           /\ Forget(gone \cap connected, Tail(queue), message.src, net)
           /\ out' = out \cup gone
    /\ UNCHANGED recvBuf

OnLevelData(message) ==
    \/ SkipChunk(message)
    \/ FirstChunk(message)
    \/ EndAtOnce(message)
    \/ NextChunk(message)
    \/ NextPart(message)
    \/ LastPart(message)

HandleMessage ==
    /\ phase \in {"process", "done"}
    /\ queue # <<>>
    /\ OnLevelData(Head(queue))
    /\ UNCHANGED <<phase, requestVars, alive, faults>>

\* In the game, ProcessGameMessagePackets ignores players whose character is not known.
Distrust ==
    /\ phase = "done"
    /\ queue # <<>>
    /\ queue' = Tail(queue)
    /\ UNCHANGED <<phase, importVars, connected, net, requestVars, alive, out, faults>>

-----------------------------------------------------------------------------
(* WaitForTurns, which msg_wait_resync calls until it returns 100.         *)

\* The owner's turns have come, or two seconds have passed.
OwnerReady ==
    /\ phase = "owner"
    /\ phase' = "process"
    /\ sgbDeltaChunks' = sgbDeltaChunks + 1
    /\ UNCHANGED <<gbDeltaSender, sgbRecvCmd, recvBuf, imported, connected, queue, net,
                   requestVars, alive, out, faults>>

\* Mutant of AskAgain: the count of what the former sender sent is kept.
AskAgainOnly ==
    /\ phase = "process"
    /\ gbDeltaSender = MAX_PLRS
    /\ requests < MaxRequests
    /\ sgbRecvCmd' = "CMD_DLEVEL_END"
    /\ gbDeltaSender' = Joiner
    /\ requests' = requests + 1
    /\ UNCHANGED <<phase, sgbDeltaChunks, recvBuf, imported, connected, queue, net,
                   consumed, chosen, knows, sendDelta, alive, out, faults>>

\* The sender is gone: ask again.  The messages that had arrived before are handled, but
\* nthread_recv_turns polls once more before WaitForTurns comes here, so there may be
\* others in the queue, here as in NearlyDone and Return.
AskAgain ==
    /\ phase = "process"
    /\ gbDeltaSender = MAX_PLRS
    /\ requests < MaxRequests
    /\ phase' = "owner"
    /\ sgbDeltaChunks' = 0
    /\ sgbRecvCmd' = "CMD_DLEVEL_END"
    /\ gbDeltaSender' = Joiner
    /\ requests' = requests + 1
    /\ UNCHANGED <<recvBuf, imported, connected, queue, net, consumed, chosen, knows,
                   sendDelta, alive, out, faults>>

\* The end mark has come; the progress of 99 is shown once.
NearlyDone ==
    /\ phase = "process"
    /\ gbDeltaSender # MAX_PLRS
    /\ sgbDeltaChunks = MaxChunks - 1
    /\ sgbDeltaChunks' = MaxChunks
    /\ UNCHANGED <<phase, gbDeltaSender, sgbRecvCmd, recvBuf, imported, connected, queue,
                   net, requestVars, alive, out, faults>>

\* The progress is 100 or more; msg_wait_resync wants it to be 100.
Return ==
    /\ phase = "process"
    /\ gbDeltaSender # MAX_PLRS
    /\ sgbDeltaChunks >= MaxChunks
    /\ phase' = IF sgbDeltaChunks = MaxChunks THEN "done" ELSE "failed"
    /\ UNCHANGED <<importVars, connected, queue, net, requestVars, alive, out, faults>>

\* The player ends the dialog.
Cancel ==
    /\ phase \in {"owner", "process"}
    /\ phase' = "cancelled"
    /\ UNCHANGED <<importVars, connected, queue, net, requestVars, alive, out, faults>>

-----------------------------------------------------------------------------

JoinerStep ==
    \/ JoinerConsumes
    \/ HandleMessage
    \/ Distrust
    \/ OwnerReady
    \/ AskAgain
    \/ NearlyDone
    \/ Return
    \/ Cancel

Next ==
    \/ JoinerStep
    \/ \E p \in Peers :
           \/ PeerConsumes(p)
           \/ Answer(p)
           \/ Crash(p)
           \/ Leave(p)
           \/ Receive(p)
           \/ InfoTimeout(p)
           \/ \E q \in Peers \ {p} : Drop(q, p) \/ PeerLearns(q, p)

Spec == Init /\ [][Next]_vars

\* Programs go on, what was sent arrives, and somebody notices that a player is gone.
Fairness ==
    /\ WF_vars(JoinerConsumes)
    /\ WF_vars(HandleMessage)
    /\ WF_vars(OwnerReady)
    /\ WF_vars(AskAgain)
    /\ WF_vars(NearlyDone)
    /\ WF_vars(Return)
    /\ \A p \in Peers :
           /\ WF_vars(PeerConsumes(p))
           /\ WF_vars(Answer(p))
           /\ WF_vars(Receive(p))
           /\ WF_vars(p \notin alive /\ InfoTimeout(p))
           /\ \A q \in Peers \ {p} : WF_vars(PeerLearns(q, p))

FairSpec == Spec /\ Fairness

-----------------------------------------------------------------------------
(* Properties.                                                             *)

\* All programs that consumed a request found the same player to answer it.  Turns do
\* not carry who is connected, so a leave that one program handles before that turn and
\* another one after it makes them differ.
Agreed == \A r \in 1 .. MaxRequests : Cardinality(chosen[r]) <= 1

\* A program that enters the game has every level, the portals and the quests as one
\* player exported them, even if a former sender left in the middle (OnLevelData,
\* WaitForTurns).
WholeState ==
    phase = "done" /\ Agreed
        => \E p \in Peers : \A part \in Parts : imported[part] = p

\* OnLevelData asserts that a chunk continues what is in the receive buffer.
OffsetsMatch ==
    Agreed /\ queue # <<>>
        => LET message == Head(queue) IN
           RecvCmd(message) # "CMD_DLEVEL_END" /\ ~EndsPart(message)
               => message.offset = Len(recvBuf)

\* No player is dropped for what it sent of the state: the data unpacks and fits into the
\* receive buffer (OnLevelData, DeltaImportData).
NobodyBlamed == [][HandleMessage /\ Agreed => connected' = connected]_vars

\* The joiner gets the state as long as some player stays in the game (WaitForTurns).
TransferEnds == <>(phase \in {"done", "cancelled"} \/ ~Agreed \/ alive = {})

=============================================================================
