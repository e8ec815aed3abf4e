------------------------------ MODULE CommandPath ------------------------------
(***************************************************************************)
(* The way of a player's commands to another player: the two packet        *)
(* buffers of multi.cpp (NetSendHiPri, NetSendLoPri, CopyPacket,           *)
(* CopyBufferedPackets, multi_handle_delta), which several commands leave  *)
(* in one packet, and the frames of frame_queue.cpp, which a socket cuts   *)
(* into arbitrary parts.                                                   *)
(*                                                                         *)
(* Abstractions.  A command is a number and its length in bytes; its first *)
(* byte tells its length.  The header of a packet (TPktHdr) is one byte.   *)
(* Who relays or encrypts the packet in between, and the end of the        *)
(* connection, are left to TurnSync and TcpServer.  Commands to the        *)
(* player itself and the reports of monsters that fill up a packet are     *)
(* left out.                                                               *)
(***************************************************************************)
EXTENDS Integers, Subsequences

CONSTANTS
    Sizes,        \* lengths of commands
    BufferSize,   \* 0x1000, of TBuffer's bData
    MsgSize,      \* gdwNormalMsgSize without TPktHdr
    MaxCommands,  \* bound on the commands that are given
    MaxStream,    \* bound on the bytes in the socket when a packet is sent
    MaxPackets    \* bound on the packets that wait when bytes are received

\* No command is longer than what a packet has room for: it would stay in its buffer
\* forever, and everything behind it.
ASSUME SizesAssumption ==
    /\ Sizes \subseteq Nat \ {0}
    /\ BufferSize \in Nat \ {0}
    /\ MsgSize \in Nat
    /\ \A size \in Sizes : size <= MsgSize
    /\ MaxCommands \in Nat
    /\ MaxStream \in Nat
    /\ MaxPackets \in Nat

Priorities == {"high", "low"}
Ids == 1 .. MaxCommands
Commands == [priority : Priorities, id : Ids, size : Sizes]
NoCommand == [priority |-> "low", id |-> 0, size |-> 0]

VARIABLES
    buffer,             \* the commands in highPriorityBuffer and lowPriorityBuffer
    dwNextWriteOffset,  \* of each buffer
    shareNextHighPriorityMessage,
    stream,             \* bytes in the socket
    buffer_deque,       \* bytes that the receiver's frame_queue holds
    nextsize,           \* the size of the next frame, 0 if it is not known
    packets,            \* message_queue of the receiver: contents of packets
    handled,            \* commands of each priority that the receiver has handled
    given               \* number of commands that were given

senderVars == <<buffer, dwNextWriteOffset, shareNextHighPriorityMessage, given>>
receiverVars == <<buffer_deque, nextsize, packets, handled>>
vars == <<senderVars, stream, receiverVars>>

-----------------------------------------------------------------------------
(* Bytes.                                                                  *)

\* The framesize_t in front of a frame, low digit first.
Radix == 4
SizeBytes == 2
SizeByte(digit) == [digit |-> digit, command |-> NoCommand, index |-> 0]
HeaderByte == SizeByte(0)
DataByte(command, index) == [digit |-> 0, command |-> command, index |-> index]

BytesType ==
    [digit : 0 .. Radix - 1, command : Commands \cup {NoCommand},
     index : 0 .. MsgSize]

\* The sequences of a sequence one behind the other.
Joined(seqs) ==
    LET join[n \in 0 .. Len(seqs)] == IF n = 0 THEN <<>> ELSE join[n - 1] \o seqs[n]
    IN  join[Len(seqs)]

BytesOf(command) == [i \in 1 .. command.size |-> DataByte(command, i)]
Payload(commands) ==
    <<HeaderByte>> \o Joined([i \in 1 .. Len(commands) |-> BytesOf(commands[i])])

\* MakeFrame
MakeFrame(bytes) ==
    <<SizeByte(Len(bytes) % Radix), SizeByte(Len(bytes) \div Radix)>> \o bytes

\* LoadLE32
LoadSize(bytes) == bytes[1].digit + Radix * bytes[2].digit

ASSUME FrameAssumption == MsgSize + 1 < Radix * Radix

TotalSize(commands) ==
    LET sum[n \in 0 .. Len(commands)] ==
            IF n = 0 THEN 0 ELSE sum[n - 1] + commands[n].size
    IN  sum[Len(commands)]

\* The bytes that commands take in a buffer, each with its length in front.
BufferedSize(commands) == TotalSize(commands) + Len(commands)

\* The next command goes right behind those that wait in a buffer, and the final zero has
\* room.
TypeOK ==
    /\ buffer \in [Priorities -> Seq(Commands)]
    /\ \A priority \in Priorities :
           /\ dwNextWriteOffset[priority] = BufferedSize(buffer[priority])
           /\ dwNextWriteOffset[priority] < BufferSize
    /\ shareNextHighPriorityMessage \in BOOLEAN
    /\ stream \in Seq(BytesType)
    /\ buffer_deque \in Seq(BytesType)
    /\ nextsize \in 0 .. MsgSize + 1
    /\ packets \in Seq(Seq(BytesType))
    /\ handled \in [Priorities -> Seq(Commands)]
    /\ given \in 0 .. MaxCommands

Init ==
    /\ buffer = [priority \in Priorities |-> <<>>]
    /\ dwNextWriteOffset = [priority \in Priorities |-> 0]
    /\ shareNextHighPriorityMessage = TRUE
    /\ stream = <<>>
    /\ buffer_deque = <<>>
    /\ nextsize = 0
    /\ packets = <<>>
    /\ handled = [priority \in Priorities |-> <<>>]
    /\ given = 0

-----------------------------------------------------------------------------
(* The sender.                                                             *)

\* The condition of CopyPacket: a length byte and the final zero also need room.
Fits(priority, size) == dwNextWriteOffset[priority] + size + 2 <= BufferSize

\* CopyPacket: the buffers, with the command if there is room for it.
CopyPacket(command) ==
    IF Fits(command.priority, command.size)
    THEN [buffer EXCEPT ![command.priority] = Append(@, command)]
    ELSE buffer

\* Mutant of Taken: commands that do not fit are skipped.
TakenAnyFit(commands, room) == SelectSeq(commands, LAMBDA command : command.size <= room)

\* CopyBufferedPackets: the commands from the front that fit into the room.
Taken(commands, room) ==
    LET fitting == {n \in 0 .. Len(commands) : TotalSize(SubSeq(commands, 1, n)) <= room}
    IN  SubSeq(commands, 1, CHOOSE n \in fitting : \A k \in fitting : k <= n)

\* Mutant of Remaining: the length bytes of what was taken are not given back.
RemainingOffsetLeak(commands, taken, offset) == offset - TotalSize(taken)

\* CopyBufferedPackets: dwNextWriteOffset once some were taken.
Remaining(commands, taken, offset) == offset - BufferedSize(taken)

Rest(commands, taken) == SubSeq(commands, Len(taken) + 1, Len(commands))

\* NetSendHiPri: what is in the buffers goes into a packet to all others, as much of it
\* as fits.  "buffers" and "offsets" hold the command that was just given.
SendBuffered(buffers, offsets) ==
    LET high == Taken(buffers["high"], MsgSize)
        low == Taken(buffers["low"], MsgSize - TotalSize(high))
        taken == [priority \in Priorities |-> IF priority = "high" THEN high ELSE low]
    IN
    /\ Len(stream) <= MaxStream
    /\ buffer' = [priority \in Priorities |-> Rest(buffers[priority], taken[priority])]
    /\ dwNextWriteOffset' =
           [priority \in Priorities |->
               Remaining(buffers[priority], taken[priority], offsets[priority])]
    /\ stream' = stream \o MakeFrame(Payload(high \o low))

\* The offsets once CopyPacket was called.
OffsetsWith(command) ==
    IF Fits(command.priority, command.size)
    THEN [dwNextWriteOffset EXCEPT ![command.priority] = @ + command.size + 1]
    ELSE dwNextWriteOffset

\* NetSendLoPri and NetSendHiPri with a command.
Send(priority, size) ==
    LET command == [priority |-> priority, id |-> given + 1, size |-> size] IN
    /\ given < MaxCommands
    /\ given' = given + 1
    /\ IF priority = "high" /\ shareNextHighPriorityMessage
       THEN /\ shareNextHighPriorityMessage' = FALSE
            /\ SendBuffered(CopyPacket(command), OffsetsWith(command))
       ELSE /\ buffer' = CopyPacket(command)
            /\ dwNextWriteOffset' = OffsetsWith(command)
            /\ UNCHANGED <<shareNextHighPriorityMessage, stream>>
    /\ UNCHANGED receiverVars

\* Mutant of Share: the next command with high priority opens the packet.
ShareLater ==
    /\ shareNextHighPriorityMessage' = TRUE
    /\ IF shareNextHighPriorityMessage
       THEN SendBuffered(buffer, dwNextWriteOffset)
       ELSE UNCHANGED <<buffer, dwNextWriteOffset, stream>>

\* Mutant of Share: commands with low priority wait for one with high priority.
ShareHighOnly ==
    IF dwNextWriteOffset["high"] # 0
    THEN /\ SendBuffered(buffer, dwNextWriteOffset)
         /\ UNCHANGED shareNextHighPriorityMessage
    ELSE /\ shareNextHighPriorityMessage' = TRUE
         /\ UNCHANGED <<buffer, dwNextWriteOffset, stream>>

\* multi_handle_delta, when it has received turns: what has high priority goes out
\* now; what has not, after two ticks without such commands.
Share ==
    IF shareNextHighPriorityMessage
    THEN /\ SendBuffered(buffer, dwNextWriteOffset)
         /\ UNCHANGED shareNextHighPriorityMessage
    ELSE IF dwNextWriteOffset["high"] # 0
         THEN /\ SendBuffered(buffer, dwNextWriteOffset)
              /\ UNCHANGED shareNextHighPriorityMessage
         ELSE /\ shareNextHighPriorityMessage' = TRUE
              /\ UNCHANGED <<buffer, dwNextWriteOffset, stream>>

TurnsReceived ==
    /\ Share
    /\ UNCHANGED <<given, receiverVars>>

-----------------------------------------------------------------------------
(* The receiver.                                                           *)

\* The first bytes that were received, and what is behind them.
Read(s) == SubSeq(buffer_deque, 1, s)
Unread(s) == SubSeq(buffer_deque, s + 1, Len(buffer_deque))

SizeComplete == Len(buffer_deque) >= SizeBytes

\* PacketReady: the size of the next frame is complete.
ReadSize ==
    /\ nextsize = 0
    /\ SizeComplete
    /\ nextsize' = LoadSize(Read(SizeBytes))
    /\ buffer_deque' = Unread(SizeBytes)
    /\ UNCHANGED <<senderVars, stream, packets, handled>>

FrameComplete == Len(buffer_deque) >= nextsize

\* ReadPacket, and RecvLocal of a message.
ReadPacket ==
    /\ nextsize # 0
    /\ FrameComplete
    /\ packets' = Append(packets, Read(nextsize))
    /\ buffer_deque' = Unread(nextsize)
    /\ nextsize' = 0
    /\ UNCHANGED <<senderVars, stream, handled>>

\* HandleReceive of some bytes, once the last call has taken all frames out: Write.
Write(count) ==
    /\ ~(nextsize = 0 /\ SizeComplete)
    /\ ~(nextsize # 0 /\ FrameComplete)
    /\ Len(packets) <= MaxPackets
    /\ count \in 1 .. Len(stream)
    /\ buffer_deque' = buffer_deque \o SubSeq(stream, 1, count)
    /\ stream' = SubSeq(stream, count + 1, Len(stream))
    /\ UNCHANGED <<senderVars, nextsize, packets, handled>>

\* The commands of some bytes, in order: those whose last byte is among them.
LastBytes == {DataByte(command, command.size) : command \in Commands}
CommandsIn(bytes) ==
    LET ends == Among(bytes, LastBytes)
    IN  [i \in 1 .. Len(ends) |-> ends[i].command]

OfPriority(commands, priority) ==
    Among(commands, {command \in Commands : command.priority = priority})

\* HandleAllPackets
HandlePacket ==
    /\ packets # <<>>
    /\ packets' = Tail(packets)
    /\ handled' = [priority \in Priorities |->
           handled[priority] \o OfPriority(CommandsIn(Head(packets)), priority)]
    /\ UNCHANGED <<senderVars, stream, buffer_deque, nextsize>>

-----------------------------------------------------------------------------

Next ==
    \/ \E priority \in Priorities, size \in Sizes : Send(priority, size)
    \/ TurnsReceived
    \/ \E count \in 1 .. Len(stream) : Write(count)
    \/ ReadSize
    \/ ReadPacket
    \/ HandlePacket

Spec == Init /\ [][Next]_vars

\* Turns are exchanged as long as the game runs, and both programs handle what arrives.
Fairness ==
    /\ WF_vars(TurnsReceived)
    /\ WF_vars(\E count \in 1 .. Len(stream) : Write(count))
    /\ WF_vars(ReadSize)
    /\ WF_vars(ReadPacket)
    /\ WF_vars(HandlePacket)

FairSpec == Spec /\ Fairness

-----------------------------------------------------------------------------
(* Properties.                                                             *)

\* Everything of a priority that was accepted and not handled, oldest first.
Underway(priority) ==
    OfPriority(CommandsIn(Joined(packets) \o buffer_deque \o stream), priority)
        \o buffer[priority]

Queues == INSTANCE CommandQueues WITH
    waiting <- [priority \in Priorities |-> Underway(priority)]

\* However commands are buffered, packed and cut into parts, each of the two
\* priorities is a queue: none is lost, repeated, torn or overtaken by one of its own
\* priority (CopyBufferedPackets, frame_queue).
ImplementsQueues == Queues!Spec

\* An exchange of turns leaves nothing with high priority behind that a packet has room
\* for: a command that was just given waits for one exchange at most.
HighPriorityPrompt ==
    [][UNCHANGED <<given, receiverVars>> =>
           \/ buffer'["high"] = <<>>
           \/ TotalSize(buffer["high"]) > MsgSize]_vars

\* What was accepted is handled, with low priority as well, unless new commands keep
\* coming: an exchange of turns needs no command to send what waits.
EverythingArrives ==
    \A priority \in Priorities : Underway(priority) # <<>> ~> Underway(priority) = <<>>
===============================================================================
