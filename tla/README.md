# DevilutionX multiplayer: TLA+ models and proofs

DevilutionX plays Diablo in lockstep: every program computes the whole game, and
the programs only exchange *turns* (who keeps pace), *commands* (what a player
does) and, when somebody joins, the *state of the game*.  There is no server of
record.  If two programs disagree about who is playing, which turn it is, or what
has happened, nothing repairs it.  This directory models that machinery: the
threads, the turn protocol, the TCP server and the peer-to-peer provider, how players
become known and are forgotten, how the state of the game reaches a joiner, the way of
commands from one player to another, and the items on the floor.  Game rules, rendering, map generation and file formats are computed
by one program in one step and are not modelled.

Paths below are relative to `src/Source/`.

## 1. Inventory of the system

### Parts with state and interaction

| Part | Source | State | Operations |
|---|---|---|---|
| Network thread | `nthread.cpp`, `utils/sdl_mutex.h` | the mutex `MemCrit`, `nthread_should_run`, `sgbThreadIsRunning`, the two countdowns, `turn_upper_bit`, `gdwTurnsInTransit` | start, send turns, receive turns, lend the mutex while loading and take it back, cleanup with join |
| Base provider | `dvlnet/base.cpp` | per player: connected, turn queue; own `current_turn`, `next_turn`, `awaitingSequenceNumber_`, message queue | handle accept, connect, turn, disconnect, message; send and receive turns; drop a player; leave |
| TCP client | `dvlnet/tcp_client.cpp` | socket, receive buffer, the local server of a host | poll, receive, send, leave, `DisconnectNet` |
| TCP server | `dvlnet/tcp_server.cpp` | a connection per slot, and per connection its slot, timer and outstanding operations | accept, join, relay, time out, drop a connection |
| Session control | `multi.cpp` | `sgbPlayerLeftGameTbl`, `sgbSendDeltaTbl`, `sgwPackPlrOffsetTbl`, `gbActivePlayers`, packet buffers, time-outs | start and close a game, one tick of the exchange, leave events, player info, drop late players |
| Message layer | `msg.cpp` | state of the game per level ("deltas"), receive buffer, `MegaPktList`, `gbBufferMsgs`, `gbDeltaSender` | transfer of the state, buffering and replay of messages, one handler per command |
| Frame queue | `dvlnet/frame_queue.cpp` | bytes received, the next frame's size | write, is a packet ready, read |
| Peer-to-peer provider | `dvlnet/base_protocol.h`, `dvlnet/protocol_zt.cpp` | peers, handshakes, send queues | join, accept, handshake, drain |
| Timed messages | `tmsg.cpp` | list of delayed commands | add, process |
| Monster synchronisation | `sync.cpp` | priorities, last updates | choose monsters to report, accept reports |
| Items on the floor | `msg.cpp`, `inv.cpp`, `items.cpp` | items of each level, requests | request, grant, drop, pick up |
| Portals | `portal.cpp` | portals of the players | open, close, validate |

### How they interact

* **One program.**  The main thread runs the game loop (`diablo.cpp`).  Each tick it
  calls `multi_handle_delta` (exchange turns) and `ProcessGameMessagePackets`
  (handle commands).  While a level is loaded the main thread gives `MemCrit` to the
  network thread, which exchanges the turns instead.  Both call into the provider.
* **Provider.**  `base.cpp` turns packets into turn queues, messages and events; the
  leave event of `base::HandleDisconnect` calls back into `multi.cpp` at once, while
  messages wait in a queue until the game takes them.  The two can change order.
* **Network.**  With TCP all packets go through the server in the host's program,
  whose own client is connected to it like any other.  Handlers of the server run
  when the host's client polls.
* **Joining.**  The joiner gets a slot; the others are told and send it their first
  turns; the joiner takes over a sequence number, asks for the state of the game with
  the upper bit of its first turn, and buffers all commands until the state has
  arrived.  In parallel everybody exchanges characters.
* **Leaving.**  A disconnect can come from the leaver, from the server (end of the
  connection, timer) or from any peer that misses the leaver's turns, and from several
  of them.

### What is hard

Interleavings of the two threads; packets that are late, duplicated or overtaken;
8-bit sequence numbers; joins that overlap with leaves and with each other; slots that
are given again while something of the former owner is still on its way; handlers
that still run after their connection was closed; a transfer whose sender leaves;
replaying buffered commands against a newer world; everybody waiting for everybody.
`PROJECT.json` lists each of these hazards at its line with the properties that
cover it, or with the reason why none does.

### What makes each part correct

* Network thread: mutual exclusion on the turn state, no unlock by a thread that is not
  the owner, cleanup always returns, a request for the game state is sent once.
* Turn protocol: every program consumes every turn of every player it plays with,
  once and in order; nobody is more than the window ahead; a joiner gets the state;
  the game goes on when somebody is gone.
* TCP server: a player that plays keeps its slot, one that is gone gives it back, and
  all programs agree on who is connected.
* Session control: players know each other's characters, forget those who left, and
  count the active ones correctly.
* Transfer of the state: a joiner enters the game with the whole state of one player,
  and does not wait forever.
* Packet buffers and frames: each priority is a queue; what was accepted arrives.
* Items on the floor: an item has one holder, and in the end all agree where it is.
* Peer-to-peer provider: each two players connect, and lose no turns while they do.

### Parts that are not modelled

Each is listed in `PROJECT.json` with its reason.  In short: packets, encryption and
packing convert data; the other providers forward calls; monsters, missiles, objects,
quests and levels, and most of players and items, are deterministic rules of one program
over large data; monsters are reported and portals are overwritten by whoever knows
better, which is a question of positions and not of order; rendering, menus, input, sound, options, scripts and platforms have no
protocol; saved games and archives are file formats.

## 2. Modules

| Module | Models | Composed with |
|---|---|---|
| `NetThread` | the two threads and `MemCrit` | its send and receive steps are `SendTurns` and `ReceiveTurns` of `TurnSync` |
| `Lockstep` | abstract: players advance a turn only together | implemented by `TurnSync` |
| `TurnSync` | the turn protocol in all programs, with the server as relay | instantiates `Lockstep` |
| `TcpServer` | slots, connections, handlers and timers of the server | detail behind `TurnSync`'s server |
| `MCTcpServer` | `TcpServer` with symmetric clients, for TLC | |
| `PeerMesh` | the peer-to-peer provider: joining and connecting without a server | in the place of `TcpServer` |
| `PlayerInfo` | characters, active players, message buffer and replay | on top of what `TurnSync` and `TcpServer` promise about connections |
| `DeltaTransfer` | the state of the game in chunks, and who sends it | detail behind `TurnSync`'s request for the state |
| `CommandQueues` | abstract: a queue of commands per priority | implemented by `CommandPath` |
| `CommandPath` | packet buffers, packets, frames | instantiates `CommandQueues`; carries the commands of `PlayerInfo` and `ItemSync` |
| `ItemSync` | items on the floors of levels, requests, grants, drops | on top of commands in one order |
| `MCItemSync` | `ItemSync` with symmetric items, for TLC | |
| `Subsequences` | `Among`, what is in a set of a sequence | helper of `CommandPath`, `DeltaTransfer`, `PeerMesh` and `PlayerInfo` |
| `*_proofs` | theorems about the module they are named for | `Subsequences_proofs` holds lemmas that four of the others use |
| `OneProgram_proofs` | theorems about `CommandPath` and `NetThread`, the two components that are one program by itself | whose definitions have different names for that (`ThreadsInit`, `ThreadsNext`, ...) |
| `PeerMeshTurns_proofs` | that `PeerMesh` loses no turns | on the lemmas of `PeerMesh_proofs` |

### NetThread

State: the mutex with its owner and recursion depth, the flags and counters of
`nthread.cpp` under their own names, and a program counter per thread.  The main
thread's steps are the calls of the game: `nthread_start`, one exchange
(`MainSend`, `MainReceive`), `LendMutex` and `TakeMutexBack` (`nthread_ignore_mutex`),
and `nthread_cleanup` in four steps (`StopThread`, `ClearTransit`, `ReleaseForJoin`,
`Join`), since the network thread can run between them.  The network thread's steps
are the statements of `NthreadHandler`, and of the loop that fills the window
(`NetSend`, `NetFill`, `NetDeliver`): `nthread_cleanup` may clear `gdwTurnsInTransit` in
the middle of it.  The main thread's own sending is one step: it holds the mutex, and
only it clears the window.  Ghosts: `inTransit`, `sinceReceive`,
`bitsAsked`, `bitsSent`, `badUnlock`.  Left out: real time, message sizes beyond
their first computation.

### Lockstep and TurnSync

`Lockstep` says what a player may rely on: nobody advances while a player it knows is
behind.  `TurnSync` has one action per handler of `base.cpp`, `tcp_client.cpp` and the
relay of `tcp_server.cpp`, and one per step of `multi.cpp` that drives them.  A socket
is a pair of FIFO channels, `up` and `down`.  A turn is a number of which the code only
sees the residue modulo `SeqMod`, and its upper bit.  Faults: a program leaves,
crashes, its connection times out though it is reachable, or others drop it because
its turns are late (`DropPlayers`).  The state of the game is one message.  Slots are
not given again.

### TcpServer

One server, its connections as objects with outstanding operations (`receiving`,
`timing`), and the queue `ready` of completed handlers, which `Poll` runs in order.
Closing a connection completes its operations with `ABORTED`; handlers that are
queued already run as if nothing had happened.  Clients ask to join, send, leave,
crash or fall silent.  What a program knows of others is the set it will know when it
has handled what was sent (`view`); only the host's packets wait in a queue because
handling a disconnect calls `DisconnectNet` of the server.

### PlayerInfo

Per program: the phase of its join, the buffer, the offset and partial character of
each other player, the characters, the active players, their number, and pending
leaves.  The actions are joining (`NetInit`, `ResyncEnds`, `EnterGame`), buffering,
replaying (`PrePacket` with its two early returns as `DiscardRest`, which leaves the
program in the phase `cut`), handling messages
in the game (`HandleMessage`, with the filter for players that are not known), leaves,
and the network.  A character is the number of the life of its slot, so that one put
together from two programs' chunks is visible.  `CMD_PLAYER_JOINLEVEL` stands for all
commands that are buffered.  Left out: the time-out of player info (in `DeltaTransfer`),
characters that fail to unpack, who is connected to whom.

`LostByDiscardOnly`, `OneCharacter` and `GoneWhenQuiet` except programs that are `cut`.  They have to: a
character behind the discarded message is lost (`info_lost`), and so is a leave.  The
buffered `CMD_ACK_PLRINFO` of a player that left makes it active, and if the replay ends
early at a command of somebody else, the `FAKE_CMD_DROPID` behind it is freed unread and
the player stays active.  The ghost `early` holds the programs in which a replayed
`FAKE_CMD_DROPID` found further leaves pending and handled them before the messages in front
of them; `GoneWhenQuiet` excepts those too (see Observations).

### DeltaTransfer

The joiner asks with the upper bit of a turn; each program decides for itself, when it
consumes that turn, who is to answer (`HandleTurnUpperBit`), and the one that finds
itself exports every level in chunks (`multi_handle_delta`, `DeltaExportData`).  The
joiner receives (`OnLevelData`), imports level by level, asks again when its sender is
gone (`WaitForTurns`), gives up players whose character takes too long
(`CheckPlayerInfoTimeouts`) and may be cancelled by its user.  The state of a level is the
player that exported it, so that a state put together from two senders is visible.
Channels are those of the peer-to-peer provider; with TCP the sender is always the host.
Faults: a peer crashes, leaves, or is dropped by another peer.

### CommandPath

`NetSendHiPri` and `NetSendLoPri` put a command into its buffer or send it at once;
`CopyBufferedPackets` fills a packet with as many as fit, high priority first
(`shareNextHighPriorityMessage`); `multi_handle_delta` sends what is left.  A packet
becomes a frame, the socket delivers any number of its bytes, and `frame_queue` puts it
together.  `CommandQueues`, the abstract module, has one queue per priority.  Left out:
commands to oneself, and the reports of monsters that fill up a packet.

### ItemSync

Each program keeps the floor of its level and, for every level, what has changed on it
(the delta).  One action per handler: asking for an item, `OnRequestGetItem` by the owner
of the level, `OnGetItem`, `OnItemExtra`, `OnPutItem` (dropped and swapped items), timed
retries, changes of level with `DeltaLoadItems`.  Players enter any level at any time, also one
whose owner they become while it grants something.  Commands go through the TCP server in one
order, and the sender handles its own at once: a program sees its own command earlier than
the others do, which is what makes grants and drops cross.

### PeerMesh

One action per packet type of `base_protocol.h`, with what a step sends collected per
receiver, and one per step of `protocol_zt.cpp`: opening a connection with the first
packet, accepting one, finding one closed.  A peer with `queued` has a send queue that
holds back what is not an echo.  lwIP is modelled from its use: a connection is open for
whoever opened it, accepted later, read to its end when the other side has closed, and
loses what was sent if a program crashes.  A connection is named by its opener, so that two
of them at once are visible.  Ghosts: `crossed` (programs that opened connections to each
other at once) and `taken` (slots given again before their former owner's leave was
handled).

## 3. Checks

All runs finish; sizes are distinct states.

| Run | Instance | Shows |
|---|---|---|
| `net_thread` | the capabilities of `base::SNetGetProviderCaps`, two upper bits | mutual exclusion, balanced unlocks, quiescence after the join, upper bits sent once, the window also while cleanup clears it, the cadence of receiving; cleanup and loading end |
| `turns_third_player` | a third program joins two | the request for the state reaches the player it is expected from (1 M) |
| `turns_faults` | 2 programs, one joins, one fault at most, `SeqMod` 8, turns 13 to 17 | types, own turns in transit, four numbers per turn in transit are enough for the stale test, refinement of `Lockstep`, no turn skipped or repeated, nobody who plays is stuck (0.17 M) |
| `server_slots` | 3 slots, 2 clients, 1 queued result per connection, 1 drop by the host at a time | types, no slot refers to a connection of another slot or one gone for good; but for slots given again while something of a former owner was left, a player keeps its slot and programs agree (10.4 M up to symmetry) |
| `server_liveness` | 2 slots, 2 clients | slots are given back |
| `info_join` | 3 slots, a program joins two, one command, one fault or disturbed join, slots taken again | types, number of active players, everyone known and no one kept unless a replay ended early, characters are not mixed (3.4 M) |
| `info_lost` | 2 slots, a command during a join | **violated**, see Findings |
| `delta_transfer` | 2 peers and a joiner, 2 levels of 2 chunks, 3 requests, one fault | types and bounds of the receive buffer, the state is that of one sender and whole, chunks continue the buffer, nobody is dropped for what it sent, the transfer ends |
| `command_path` | 3 commands of 2 lengths, buffers and packets that fill up | types and offsets of the buffers, refinement of `CommandQueues`, high priority goes first, what is accepted arrives |
| `item_sync` | 2 players, 2 items, 2 levels, 4 deeds | types; unless an item went astray it has one holder, a grant finds it, in the end all agree (1.2 M up to symmetry) |
| `peer_mesh` | 3 slots, a program joins one or two, one round of echoes or one fault | types, no turn is lost between players that know each other, all find each other (0.5 M) |
| `peer_crossed` | a program joins two, one round of echoes | **violated**, see Findings |

Every property of a passing run has a mutant: a change of one definition that a
plausible bug would make and that violates the property under the same run.  The
mutants are operators next to the definition they change ("Mutant of ...").

### Bounds, and why they are enough

* Turns, faults, lives, commands, deeds and queues are bounded in guards; the constants
  that do so are commented as bounds.  Because runs end there, deadlock is not checked
  but in `NetThread`, which has no end; what must go on is stated as liveness, with the
  bound as the goal.
* `SeqMod` = 8 with `FirstTurn` = 13: numbers wrap during the join, and half of the sequence
  space (4) is one more than the earliest turn is early (2 `K` - 1), so that the run sees
  turns at the edge of the stale test.  With 6 numbers `StaleTold` fails.  The code has 256.
* K = 2 is `gdwTurnsInTransit` of this provider.  Two programs exhibit joining,
  renumbering and dropping; three are needed only where the player that answers a
  request may be another than expected.
* `MaxFaults` of `PlayerInfo` counts leaves, crashes, and what disturbs a join (a command
  or another join meanwhile, a command that was on its way): `info_join` has one of them.
  Smaller instances with two (3 slots) and three (2 slots) were checked once, and one
  in which two programs join at the same time (6.7 M).
* `Chunks` = 2: a first, a last, and a gap between them.  A third chunk adds nothing
  that offset 0 or not 0 does not tell apart.
* `DeltaTransfer`: two levels and two chunks each tell a level's end from the state's, a
  change of sender within a level from one between levels.  Three requests: the first, one
  after a fault, one more.
* `CommandPath`: a buffer holds two short commands and not three; a packet holds two short
  commands or a long one; frames cross the size field's two bytes.
* `ItemSync`: two items are needed for a swap, and for a granted item that is not found and
  another taken in its place.  4 deeds are one more than each of the three properties needs
  to fail without the exception of items that went astray.  The properties do not depend on these bounds: 1 item with 5 deeds was checked once (2.1 M), and
  random runs with 10 to 16 deeds, 2 and 3 players, 1 and 2 items (some 10^8 states) found
  no violation.
* `PeerMesh`: three programs are the least with a member that is not the master; a fourth
  makes a second member, or the free slot between two.  Only one program sends further
  turns.  Two events, and two joiners with four slots, were checked once (1.1 M, 1.6 M).
* `TurnSync` without `InstantLoopback` and without faults was checked once up to turn 18.
* Timeouts of 1 and 2 ticks instead of 30 and 60 s keep the order of events.

### Assumptions of runs

* `InstantLoopback` (`TurnSync`): the host's client and its server exchange packets
  without delay; they are one program and one poll.  Without it `DeltaRequest` fails:
  the host's own turn may come after the joiner's has become stale, and the joiner waits
  forever.
* `reused` (`TcpServer`) is no assumption: joins, quits, time-outs and drops cross freely.  It
  is a record, which no action reads, of the slots that were given again when something of a
  former owner was left: a connection that still has the number, whose handlers will drop it
  once more, or a disconnect that the host's program has not handled.  `DropConnection`
  (`tcp_server.cpp:279`) and `DisconnectNet` (`tcp_server.cpp:305`) go by the number and not by
  the connection: the new owner loses its entry, goes on relaying its turns and is known to
  others without one, or is disconnected in place of the former.  `SlotKept` and `PeersAgree`
  except these slots and say that it happens to no others.  `MaxDrops` bounds how many
  disconnects the host's program has yet to handle.
* `Agreed` (`DeltaTransfer`): all programs found the same sender for each request.  The
  properties say nothing of other runs: with peer-to-peer connections two programs that
  have not heard of the same leaves may both send, and the joiner mixes their chunks (the
  assertion at `msg.cpp:1012` fails then).
* `SizesAssumption` (`CommandPath`): no command is longer than the room of a packet.  One
  that is would stay at the front of its buffer.
* `astray` (`ItemSync`) is no assumption: players change levels at any time.  It is the history of
  the items that the code loses hold of (Observations), which the properties except: granted
  by a program that has left the level it was asked about, or whose level a lower player
  enters without that having arrived in full; granted on the level that a lower player
  enters, without that having arrived there; given up; or taken in the place of another.
* `TimedOut`, `RecordExpires` (`ItemSync`): no command takes 5 s to arrive, and nobody asks
  for an item 6 s after it was granted; then retries and records end in time.
* `crossed`, `taken` and no faults (`PeerMesh`): `NothingLost` and `MeshComplete` leave out
  pairs of players that opened connections to each other at once (finding 1), and slots
  that the master gave again before it handled the leave of their former owner: `Connect`
  finds those connected, so that no first turns are sent and nobody hears of the leave.

### Fairness

Each program polls and plays on: weak fairness of its steps.  Nothing obliges a player
to join, leave, crash, lend the mutex or ask for anything.  Timers go on, so
`TimerExpires` and `DropPlayers` are fair.  `TakeMutexBack` is strongly fair: the
network thread sleeps between unlocking and locking, so a waiting main thread gets the
mutex.  `GameGoesOn` excludes a joiner that awaits the state: `WaitForTurns` has no
timeout.

### Findings

1. `peer_crossed`.  The comment in `InitiateHandshake` (`dvlnet/base_protocol.h:246`: "It
   will cause problems if both peers attempt to initiate the handshake simultaneously",
   "only the player with the smaller player number should initiate the handshake") is true
   of that function only.  `SNetReceiveMessage` (`dvlnet/base.cpp:245`) sends an echo
   request to every player at its first call and every five seconds, `SendTo` lets echo
   requests pass during the handshake, and the first packet opens the connection.  If the
   greater number does so while the smaller one's connection is on its way, `accept_all`
   makes each close the connection that the other has just accepted, and the two players
   lose each other.
2. `info_lost`.  The comment in `ProcessGameMessagePackets` ("It's okay to buffer
   untrusted messages because the player will be validated again later",
   `multi.cpp:760`) is true of the message, but `PrePacket` (`msg.cpp:460`) then
   discards all that is buffered behind it, characters included.  A player that changes
   level shortly before it answers a joiner stays unknown to it, until
   `CheckPlayerInfoTimeouts` drops it after 15 seconds.

### Observations

* The comment in `base::SNetDropPlayer` ("Disconnect at the network layer first so we don't
  send players their own disconnect packet", `dvlnet/base.cpp:513`) holds in the host's
  program and with the peer-to-peer provider.  In a TCP client `DisconnectNet` does
  nothing, and the server relays the packet to its subject.
* `base_protocol::is_recognized` compares `player <= MAX_PLRS` and reads one peer beyond
  the array.
* A character of two lives (`PlayerInfo`, in the phase `cut`).  Player q's first chunks wait
  in p's buffer when q crashes, so that p stands in the middle of q's character once it has
  replayed them; handling the leave does not reset `sgwPackPlrOffsetTbl`.  The next owner of
  the slot sends its first chunks, which are buffered too, but behind a message at which the
  replay ends early.  Its next chunk, not buffered any more, is the one that p waits for
  (`multi.cpp:917`), and p unpacks a character put together from both.  TLC finds this in
  larger instances when `OneCharacter` does not except `cut`.
* A player that stays active though it has left (`PlayerInfo`, ghost `early`).  p joins;
  player 3 crashes during the transfer (its `FAKE_CMD_DROPID` is buffered), player 2's
  answer is buffered behind it, and 2 crashes after the transfer.  Replaying the leave of 3,
  `multi_player_left` (`multi.cpp:675`) calls `ClearPlayerLeftState`, which handles all
  pending leaves, that of 2 included; 2 is not active yet and is skipped.  Then 2's answer
  is replayed and makes 2 active; nobody removes it.  Found by TLC with four slots and two
  faults when `GoneWhenQuiet` does not except it.
* `ItemSync`: a request whose owner leaves the level while it is underway is answered by
  nobody, and the item stays marked as asked for (`_iRequest`) on the floor of whoever
  asked.
* `ItemSync`: two owners grant one item, and `ActiveItems[-1]` is read.  Player 1 is alone on
  level 1 and asks for an item; player 0 enters the level, finds the item on its floor, and
  owns the level from then on.  If 1 grants the item to itself before it has heard of 0, two
  programs take it: 0 asks for the item and grants it to itself before 1's grant arrives, and
  both players have it.  Or 0 handles 1's request and grants the item to 1, which has taken
  it: in `OnGetItem` (`msg.cpp:1505-1507`) `FindGetItem` returns -1, and the item that the byte
  before `ActiveItems` names is taken, if there is one.  TLC finds both with 3 deeds when
  `OneHolder` and `GrantFindsItem` do not except `astray`.
* `ItemSync`: a request that is tried again outlives a change of level.  `OnRequestGetItem`
  (`msg.cpp:1431`) asks whether the local player owns the level it is on, not whether that is
  the level of the message.  Player 1 owns level 1, its own request finds the item just taken
  by player 0 and goes to `TimedMsgList`; 1 moves to level 2, 0 comes back to level 1 and drops
  the item where it lay; then the request of player 1 gives up and it sends `CMD_ITEMEXTRA`.
  `OnItemExtra` (`msg.cpp:1587`) takes the item out of the deltas of level 1 and, as the sender
  is on another level, not off the floor of 0: whoever enters level 1 later does not find it.
  Without any change of level, what another player drops while `CMD_ITEMEXTRA` is underway is
  placed before it in one program and behind it in the other, which takes it off again.  TLC
  finds these when `Converged` does not except `astray`.

## 4. Proofs

All theorems are of the form `Spec => []P`, for every value of the constants that
satisfies the module's assumptions; three have a hypothesis, which the table names.

| Theorem | Property | Inductive invariant |
|---|---|---|
| `OneProgram_proofs!ThreadsTypeCorrect` | `ThreadsTypeOK` | below |
| `OneProgram_proofs!MutualExclusion` | `ExclusiveTurns` | below |
| `OneProgram_proofs!UnlocksBalanced` | `UnlocksBalance` | below |
| `OneProgram_proofs!Quiescent` | `QuiescentAfterJoin` | `Holder`, `Flags` and types |
| `OneProgram_proofs!UpperBitSentOnce` | `UpperBitOnce` | itself, with the types |
| `OneProgram_proofs!CadenceKept` | `ReceiveCadence` | itself, with the types |
| `TurnSync_proofs!TurnWindow` | `OwnWindow` | `PeersOK`, `TurnsOK` and types of channels |
| `TurnSync_proofs!TypeCorrect` | `TypeOK` | the same, with the types of the other variables |
| `TurnSync_proofs!LockstepImplemented` | `ImplementsLockstep`, if `[]SeqWindow` | what is underway is below its sender's `next_turn`; see below |
| `TcpServer_proofs!TypeCorrect` | `TypeOK` | `TypeOK` and `NoDangling` |
| `TcpServer_proofs!NothingDangles` | `NoDangling` | the same |
| `TcpServer_proofs!SlotsKept` | `SlotKept` | `KInv`: the above, handlers are those of accepted clients, numbered connections were accepted, no handler left to run threatens the slot of another (`NoThreat`) |
| `TcpServer_proofs!PlayersAgree` | `PeersAgree` | `VInv`: `KInv`, and whoever believes differently from the server has a packet on its way that corrects it; below |
| `PlayerInfo_proofs!CountsActive` | `ActiveCount` | `ActiveCount`, finiteness and domains |
| `PlayerInfo_proofs!TypeCorrect` | `TypeOK` | `TKInv`: the types, what a program that is out has forgotten, active players are valid |
| `PlayerInfo_proofs!CharactersWhole` | `OneCharacter` | `PInv`: what is to come of a character continues what has arrived of it; below |
| `PlayerInfo_proofs!GoneForgotten` | `GoneWhenQuiet` | `GInv`: what is to come of a player that left is closed by its leave; below |
| `PlayerInfo_proofs!LostOnlyByDiscard` | `LostByDiscardOnly` | `MInv`: a character is on its way, arriving, known, or still to be asked for; below |
| `DeltaTransfer_proofs!TypeCorrect` | `TypeOK` | `TInv` |
| `DeltaTransfer_proofs!StateIsWhole` | `WholeState` | `IInv`: `TInv`, and `Inv` as long as all programs found the same player; below |
| `DeltaTransfer_proofs!OffsetsAlwaysMatch` | `OffsetsMatch` | the same |
| `DeltaTransfer_proofs!NobodyIsBlamed` | `NobodyBlamed` | the same |
| `PeerMesh_proofs!TypeCorrect` | `TypeOK` | `Typed`: the types, join requests only underway to players, acceptances only from players, only turns and farewells held back |
| `PeerMeshTurns_proofs!NoTurnLost` | `NothingLost` | `Typed` and `MeshInv`: connections, tables, who has been told of whom, slots, senders, and the turns underway between two players that know each other; below |
| `OneProgram_proofs!TypeCorrect` | `TypeOK` | `IInv`: each buffer holds commands of its priority, the unread bytes are whole frames; below |
| `OneProgram_proofs!PacketsWhole` | | the same |
| `OneProgram_proofs!QueuesImplemented` | `ImplementsQueues` | the same |
| `OneProgram_proofs!PromptHighPriority` | `HighPriorityPrompt` | the same |

* **NetThread.**  Mutual exclusion is not inductive: the owner of the mutex must be
  known in every state.  `Holder` says that it is the main thread exactly in play, in
  resync and in a cleanup that began there, and the network thread exactly in its
  critical section; `Flags` ties `sgbThreadIsRunning` and `Thread` to the program
  counters.  Each step either moves the owner with the mutex or leaves both.  With it,
  what the network thread's sending loop has counted stays right though it asks only once
  how many turns are in transit (`Loop`), so the window is never exceeded.
* **TurnSync.**  The own turns in a queue are the numbers from `current_turn` to
  `next_turn` - 1.  Renumbering, removal of stale turns and consuming move both ends;
  drops and disconnects never touch the own queue.  This needs the types of turns in
  queues and channels, since a packet may come from any channel.
  `TypeCorrect` needs besides that the set of connected players, from which
  `HandleTurnUpperBit` takes the sender of the state, has a least element (N is at most 4).
* **Lockstep.**  The refinement holds in every behaviour in which the 8-bit stale test is
  right for all turns underway (`SeqWindow`), which the theorem has as a hypothesis.  The run
  checks it of players that have started with each other (`StaleTold`); of others it is no
  invariant, for any number of bits: who does not know yet that it was dropped may have
  packets of any age before it.  The invariant says of everything underway that it
  was sent by a program that has a number, and that it is below its sender's `next_turn`,
  which is at most K ahead of its `current_turn`; an accept precedes the turns of the
  players that it tells of; and once stale turns are dropped the head of a queue is the
  current turn or a later one.  Then a program that advances has a turn of everybody it
  counts as connected, and none of them is K or more behind.
* **TcpServer.**  A closed connection in a slot must have its failed receive still
  queued, so the invariant relates slots, sockets, outstanding receives and the queue.
  Handlers that run twice, late, or for a slot with a new owner are all cases of it.
  `SlotsKept` adds what makes a late handler harmless: the slot whose number a connection has
  that is open or has handlers left to run is its own or empty, unless it is `reused`
  (`NoThreat`).  When a slot is given without becoming `reused` nothing of a former owner is
  left, and what appears later under its number is of the new owner.
  `PlayersAgree` is about what a client believes once it has read what it was sent
  (`Believes`: of the packets about a player the last one counts).  If it then does not know
  a player that has a slot, that one is leaving; if it knows somebody without a connection,
  the closed socket is still to be found by the server (`Views`).  For that, every open
  connection must be listened to (`Listens`), the host's connection must keep its slot
  (`HostSettled`), what the host has dropped must have no slot when the drop is relayed
  (`Drops`), and the host must be told of others only (`OthersOnly`).
* **PlayerInfo.**  Four places count `gbActivePlayers` up or down; each is a lemma on
  the cardinality of the set of active players.  A program never removes itself: the
  loop over leavers and `recv_plrinfo` both skip it.  Nothing is assumed about what
  messages contain, hence the count is right for any traffic.
  `CharactersWhole` looks at everything that q has sent of its character and p has not
  handled, in the order in which p will: p's buffer, its inbox, what q has on its way to the
  server (`Coming`).  It is a chain (`Linked`): a chunk is followed by the next one of the
  same life, by a first chunk, or by q's leave.  The chain goes on where p stands (`Fits`): its
  head is a first chunk or a leave, or it is not the chunk that p waits for and starts the
  character over, or it is of the life that p has the chunks before it of.  Handling a message
  takes the head off, sending adds to the end, and a leave or crash replaces an end of the
  chain by the leave (`Replaces`).  Nobody has to know whether p has handled the leave, which
  is why it does no harm that `PlayerLeftMsg` keeps the offset.  A replay that ends early
  throws away messages inside the chain; hence the exception for the phase `cut`.
  `GoneForgotten` follows the leave of a q that is out.  Until the server has relayed it,
  it is the last that q sent (`LeavesLast`).  From then on every p that minds it
  (`Forgets`) has it as the last of what its inbox has of q; or has nothing of q in its
  inbox, and the leave is pending, is the last that the buffer has of q, or was
  handled, and then the buffer has nothing of q and q is not active.  The lemmas on
  `Forget` say what reading, buffering, dropping and `ClearMsg` do to it.  A replay that
  handles a pending leave before the buffered messages of q breaks exactly this order; hence
  the exception for `early`.
  `LostOnlyByDiscard` is the other direction.  For p and q that both are in the game, the
  line of q's messages of its present life which p has not read (`Line`) is ordered
  (`Ordered`): chunks come as whole characters, and a program that has entered a level said so
  behind its character.  Messages of an earlier owner of the slot are in front of those
  (`Settled`), so whatever they make p forget is forgotten before p learns.  Then
  (`Learnt`) the start of q's character is in the line; or it is arriving, and nothing old is
  left to disturb it; or p knows it and q is active or has its change of level in the line;
  or q has not sent it yet.  Or else p's own character, which asks for q's, is on its way
  to q (`Asks`), and reading it turns `Asks` into the first of these.  When nothing
  is on its way only the third is left.  A program that discarded messages may wait
  forever: the exception for `cut`.
* **DeltaTransfer.**  As long as all programs found the same player for the joiner's last
  request, nobody but that player sends chunks.  Of the messages of its export the first n
  are handled, the next are in the joiner's queue, between leaves that concern others, and
  the rest is still to be queued (`Progress`); the bytes received, the state imported and the
  number of the chunk follow from n (`Received`).  What an earlier request left behind does
  no harm: whoever was to answer it is gone (`Past`), the joiner waits for the one that was
  found (`SenderOK`), and only that one has chunks underway (`Sources`).  The same invariant
  shows that the phase `failed` is not reached while programs agree.  A leave removes the
  messages of its player from the middle of the queue (`Without`, by recursion); what that
  keeps is proved by induction on its length (`Induct`, from the well-foundedness of <).
* **CommandPath.**  The bytes that are still to be read are whole frames, except that the
  size of the first one may have been read (`FramedAs`); a packet is one more frame behind
  them, and what is read from the front is by its length a size or a content.  Sizes and
  headers carry no command and a command is told by its last byte, so the commands that
  bytes carry are those of their parts, one behind the other (`CarriedConcat`).  Hence most
  steps only move the borders between what was received, the socket and the buffer, and the
  queues of `CommandQueues` stay as they are (`Forwarded`).  The lemmas on sequences that
  this needs (`Among`, `Joined`, `TotalSize` of a concatenation) are proved from `Runs`,
  which says that a function that goes through a sequence exists, and by induction on the
  sequence (`SeqInduct`).  Those that other components need too are in `Subsequences_proofs`.
* **PeerMesh.**  A program's step goes through its players (`ForEach`) and sends, holds back
  or drains for each.  `SentTo` and `ToldBy` say what has been sent to whom, and what is held
  back, after the first n players, by induction on n; `Finished`, `Received` and `Forgot` what
  that does to the connections.  That the handler of a join request writes its own number into
  the acceptance, and that of an acceptance takes it for a slot, needs that a request reaches
  players only (`Sendable`).
  `NoTurnLost` is about two players, and what goes wrong between them is decided elsewhere: by
  whom each was told of the other, on which connection, and when it learnt its own number.
  `MeshInv` says all of it, in parts.  `InvW`: what is on a connection that one end has left,
  is still in the listener's backlog, or belongs to a program that has ended.  `InvK`: a table
  of players has a program once, and holds nothing back for one that is `queued` no more.
  `InvL` and `InvU`: nobody has heard of a program that has not been taken in (`Unborn`), and
  it has said nothing but one join request.  `InvI`: every program is told of a player at most
  once, and not of one that it knows (`Told` counts acceptances and `PT_CONNECT`s on all ways
  from one program to another, hence the lemmas on `Cnt`).  `InvN`: the number of a player is
  the same in every table and on the way.  `InvS`: who may have sent what is underway or held
  back.  `InvA`: an acceptance is the first thing that matters on the connection that asked
  for it.  `InvQ`: whoever sends its turns at once, and no longer holds them back, sends them
  to somebody that knows the sender, or will when it has read what is in front of them
  (`Ready`).  `InvC`: two players that know or will know each other (`Bond`) have no
  connection, one that waits to be accepted, or the same one.  `InvT`: the turns on it, queued
  and held back are consecutive up to the last one sent, and the first of them follows what
  the other has got.  Most handlers are `Act`s: they take one packet, say something to players
  they know, and close connections; that an act keeps each part is shown once
  (`ActKeeps`), and each handler is shown to be one.  The others are opening and
  accepting a connection (`Rewire`), ending (`Exit`), and taking a program in (`Admits`, the
  only step that tells programs of others).  No order between connections is assumed anywhere:
  that a turn may overtake the news of its sender is what `queued` is there for, and the
  proof shows that it suffices.

**Model-checked only.**  Liveness under fairness (`WaitsEnd`, `GameGoesOn`, `SlotFreed`,
`TransferEnds`, `EverythingArrives` and others) is out of the provers' reach.  So
is `StaleTold`, which needs a bound on how far apart the numbers of two players may be while
one of them joins.  Not proved though within reach:
`DeltaRequest` (`TurnSync`), `GrantFindsItem` (`ItemSync`) and `MeshComplete` (`PeerMesh`).

## 5. Plan

What could come next, in this order:

1. `PeerMesh` with the game above it: what players do when a connection is lost for one
   pair only, as after finding 1.
2. `ItemSync` with players that join
   in the middle (a state from before or after a grant), and with full floors.
3. Monster synchronisation (`sync.cpp`) as reports that overwrite each other.
4. `NetThread` with a provider that can be destroyed by a fatal error (`appfat.cpp`).
5. Proofs of `MeshComplete` from the invariant of `NoTurnLost`, and of `OneHolder` and
   `Converged`.
