------------------------------ MODULE NetThread ------------------------------
(***************************************************************************)
(* The two threads that drive the turn exchange of a multiplayer game      *)
(* (nthread.cpp, with the main-thread flow of multi.cpp and diablo.cpp).   *)
(*                                                                         *)
(* The main thread exchanges turns itself while it plays.  While it loads  *)
(* (StartGame, a level change) it lends the mutex MemCrit to the network   *)
(* thread, which keeps the turns flowing.  nthread_cleanup stops and joins *)
(* the network thread from any of these states.                            *)
(*                                                                         *)
(* Time is abstracted: SDL_Delay is a step that may take arbitrarily long  *)
(* and last_tick is left out.  SNetReceiveTurns succeeds or fails          *)
(* nondeterministically; its effect on the protocol is module TurnSync.    *)
(***************************************************************************)
EXTENDS Integers

CONSTANTS
    TurnsInTransitCap,  \* caps.defaultturnsintransit
    TurnsSecCap,        \* caps.defaultturnssec
    BytesSecCap,        \* caps.bytessec
    MaxPlayersCap,      \* caps.maxplayers, already capped to MAX_PLRS
    MaxUpperBits        \* bound on the calls of nthread_set_turn_upper_bit

ASSUME CapsAssumption ==
    /\ TurnsInTransitCap \in Nat
    /\ TurnsSecCap \in Nat
    /\ BytesSecCap \in Nat
    /\ MaxPlayersCap \in Nat \ {0}
    /\ MaxUpperBits \in Nat

\* The number of turns kept in transit and of ticks between two packets, as
\* nthread_start derives them from the provider's capabilities.
TurnsInTransit == IF TurnsInTransitCap = 0 THEN 1 ELSE TurnsInTransitCap

NetUpdateRate ==
    IF TurnsSecCap <= 20 /\ TurnsSecCap # 0 THEN 20 \div TurnsSecCap ELSE 1

\* gdwNormalMsgSize before the loop that doubles it, and the update rate, until
\* it reaches 0x80: with the capabilities assumed here the loop is not entered.
NormalMsgSize ==
    (((BytesSecCap * NetUpdateRate) \div 20) * 3) \div (4 * MaxPlayersCap)

ASSUME NormalMsgSizeAssumption == NormalMsgSize >= 128

\* SNetReceiveTurns is attempted in every SyncPeriod-th packet.
SyncPeriod == 4

VARIABLES
    MemCrit,             \* the owner of the mutex, "none" when it is free
    MemCritCount,        \* how often the owner holds it: SDL mutexes are recursive
    nthread_should_run,
    sgbThreadIsRunning,  \* main has lent MemCrit to the network thread
    Thread,              \* joinable: nthread_start made it, no join yet
    gdwTurnsInTransit,
    curTurnsInTransit,   \* of the network thread's nthread_send_and_recv_turn, and
    turnTmp,             \* of the turn that it sends the upper bit
    inTransit,           \* turns sent by this peer and not yet consumed
    turn_upper_bit,
    sgbPacketCountdown,
    sgbSyncCountdown,
    sgbTicsOutOfSync,
    mainPc,
    netPc,
    netResult,           \* what nthread_recv_turns returned to NthreadHandler
    badUnlock,           \* ghost: a thread unlocked a mutex it does not own
    sinceReceive,        \* ghost: calls of nthread_recv_turns since a success
    bitsAsked, bitsSent  \* ghost: upper bits requested and sent

mutexVars == <<MemCrit, MemCritCount, badUnlock>>
flagVars == <<nthread_should_run, sgbThreadIsRunning, Thread>>
loopVars == <<curTurnsInTransit, turnTmp>>
turnVars == <<gdwTurnsInTransit, inTransit, turn_upper_bit, bitsAsked, bitsSent, loopVars>>
tickVars == <<sgbPacketCountdown, sgbSyncCountdown, sgbTicsOutOfSync, sinceReceive>>
threadVars == <<mutexVars, flagVars, turnVars, tickVars, mainPc, netPc, netResult>>

Threads == {"main", "net"}

ThreadsTypeOK ==
    /\ MemCrit \in Threads \cup {"none"}
    /\ MemCritCount \in Nat
    /\ nthread_should_run \in BOOLEAN
    /\ sgbThreadIsRunning \in BOOLEAN
    /\ Thread \in BOOLEAN
    /\ gdwTurnsInTransit \in {0, TurnsInTransit}
    /\ curTurnsInTransit \in 0 .. TurnsInTransit + 1
    /\ turnTmp \in {0, 1}
    /\ inTransit \in 0 .. TurnsInTransit      \* the window is never exceeded
    /\ turn_upper_bit \in {0, 1}
    /\ sgbPacketCountdown \in Int
    /\ sgbSyncCountdown \in Int
    /\ sgbTicsOutOfSync \in BOOLEAN
    /\ mainPc \in {"menu", "resync", "loading", "play",
                   "cleanup", "unlock", "join"}
    /\ netPc \in {"none", "start", "lock", "check", "send", "fill", "deliver",
                  "receive", "unlock", "delay", "done"}
    /\ netResult \in BOOLEAN
    /\ badUnlock \in BOOLEAN
    /\ sinceReceive \in Nat
    /\ bitsAsked \in Nat
    /\ bitsSent \in Nat

ThreadsInit ==
    /\ MemCrit = "none"
    /\ MemCritCount = 0
    /\ nthread_should_run = FALSE
    /\ sgbThreadIsRunning = FALSE
    /\ Thread = FALSE
    /\ gdwTurnsInTransit = 0
    /\ curTurnsInTransit = 0
    /\ turnTmp = 0
    /\ inTransit = 0
    /\ turn_upper_bit = 0
    /\ sgbPacketCountdown = 0
    /\ sgbSyncCountdown = 0
    /\ sgbTicsOutOfSync = FALSE
    /\ mainPc = "menu"
    /\ netPc = "none"
    /\ netResult = FALSE
    /\ badUnlock = FALSE
    /\ sinceReceive = 0
    /\ bitsAsked = 0
    /\ bitsSent = 0

-----------------------------------------------------------------------------
(* The mutex of SDL is recursive.                                          *)

Lock(t) ==
    /\ MemCrit \in {"none", t}
    /\ MemCrit' = t
    /\ MemCritCount' = MemCritCount + 1
    /\ UNCHANGED badUnlock

Unlock(t) ==
    \/ /\ MemCrit # t
       /\ badUnlock' = TRUE         \* SDL_UnlockMutex fails, ErrSdl is fatal
       /\ UNCHANGED <<MemCrit, MemCritCount>>
    \/ /\ MemCrit = t
       /\ MemCrit' = IF MemCritCount = 1 THEN "none" ELSE t
       /\ MemCritCount' = MemCritCount - 1
       /\ UNCHANGED badUnlock

-----------------------------------------------------------------------------
(* What either thread does to exchange turns.                              *)

\* nthread_send_and_recv_turn: fill the transit window; the first turn sent
\* takes the pending upper bit with it.  One step for the main thread: it
\* holds MemCrit, and gdwTurnsInTransit is cleared by nobody but itself.
SendTurns ==
    /\ inTransit' = IF inTransit < gdwTurnsInTransit
                    THEN gdwTurnsInTransit ELSE inTransit
    /\ IF inTransit < gdwTurnsInTransit
       THEN /\ turn_upper_bit' = 0
            /\ bitsSent' = bitsSent + turn_upper_bit
       ELSE UNCHANGED <<turn_upper_bit, bitsSent>>
    /\ UNCHANGED <<gdwTurnsInTransit, bitsAsked, loopVars>>

\* Mutant of RecvTurns: a failed receive restarts the whole countdown, as a
\* successful one does, though the game waits at every tick.
RecvTurnsRestartsCountdown(result) ==
    \/ /\ sgbPacketCountdown - 1 > 0
       /\ result
       /\ sgbPacketCountdown' = sgbPacketCountdown - 1
       /\ sinceReceive' = sinceReceive + 1
       /\ UNCHANGED <<sgbSyncCountdown, sgbTicsOutOfSync, inTransit>>
    \/ /\ sgbPacketCountdown - 1 <= 0
       /\ sgbSyncCountdown - 1 # 0
       /\ result
       /\ sgbPacketCountdown' = NetUpdateRate
       /\ sgbSyncCountdown' = sgbSyncCountdown - 1
       /\ sinceReceive' = sinceReceive + 1
       /\ UNCHANGED <<sgbTicsOutOfSync, inTransit>>
    \/ /\ sgbPacketCountdown - 1 <= 0
       /\ sgbSyncCountdown - 1 = 0
       /\ result => inTransit > 0
       /\ inTransit' = IF result THEN inTransit - 1 ELSE inTransit
       /\ sgbTicsOutOfSync' = result
       /\ sgbSyncCountdown' = SyncPeriod
       /\ sgbPacketCountdown' = NetUpdateRate
       /\ sinceReceive' = IF result THEN 0 ELSE sinceReceive

\* nthread_recv_turns: count down packets, then syncs, then try to receive.
\* "result" is what it returns.
RecvTurns(result) ==
    \/ /\ sgbPacketCountdown - 1 > 0
       /\ result
       /\ sgbPacketCountdown' = sgbPacketCountdown - 1
       /\ sinceReceive' = sinceReceive + 1
       /\ UNCHANGED <<sgbSyncCountdown, sgbTicsOutOfSync, inTransit>>
    \/ /\ sgbPacketCountdown - 1 <= 0
       /\ sgbSyncCountdown - 1 # 0
       /\ result
       /\ sgbPacketCountdown' = NetUpdateRate
       /\ sgbSyncCountdown' = sgbSyncCountdown - 1
       /\ sinceReceive' = sinceReceive + 1
       /\ UNCHANGED <<sgbTicsOutOfSync, inTransit>>
    \/ /\ sgbPacketCountdown - 1 <= 0
       /\ sgbSyncCountdown - 1 = 0
       /\ ~ result
       /\ sgbTicsOutOfSync' = FALSE
       /\ sgbSyncCountdown' = 1
       /\ sgbPacketCountdown' = 1
       /\ UNCHANGED <<sinceReceive, inTransit>>
    \/ /\ sgbPacketCountdown - 1 <= 0
       /\ sgbSyncCountdown - 1 = 0
       /\ result
       /\ inTransit > 0              \* its own turn is one of those consumed
       /\ inTransit' = inTransit - 1
       /\ sgbTicsOutOfSync' = TRUE
       /\ sgbSyncCountdown' = SyncPeriod
       /\ sgbPacketCountdown' = NetUpdateRate
       /\ sinceReceive' = 0

-----------------------------------------------------------------------------
(* The main thread.                                                        *)

\* NetInit: nthread_start resets the counters, takes the mutex and starts the
\* thread.  The provider is a new one, with nothing in transit.
nthread_start(setTurnUpperBit) ==
    /\ mainPc = "menu"
    /\ ~ Thread
    /\ bitsAsked + setTurnUpperBit <= MaxUpperBits
    /\ sgbPacketCountdown' = 1
    /\ sgbSyncCountdown' = 1
    /\ sgbTicsOutOfSync' = TRUE
    /\ turn_upper_bit' = setTurnUpperBit
    /\ bitsAsked' = setTurnUpperBit
    /\ bitsSent' = 0
    /\ gdwTurnsInTransit' = TurnsInTransit
    /\ inTransit' = 0
    /\ sgbThreadIsRunning' = FALSE
    /\ Lock("main")
    /\ nthread_should_run' = TRUE
    /\ Thread' = TRUE
    /\ netPc' = "start"
    /\ mainPc' = "resync"
    /\ sinceReceive' = 0
    /\ UNCHANGED <<netResult, loopVars>>

\* The main thread sends turns: NetInit, WaitForTurns and multi_handle_delta.
MainSend ==
    /\ mainPc \in {"resync", "play"}
    /\ SendTurns
    /\ UNCHANGED <<mutexVars, flagVars, tickVars, mainPc, netPc, netResult>>

\* The main thread receives turns: WaitForTurns and multi_handle_delta.
MainReceive ==
    /\ mainPc \in {"resync", "play"}
    /\ \E result \in BOOLEAN : RecvTurns(result)
    /\ UNCHANGED <<mutexVars, flagVars, gdwTurnsInTransit, turn_upper_bit,
                   bitsAsked, bitsSent, loopVars, mainPc, netPc, netResult>>

\* WaitForTurns found that the delta sender has left: ask for a new one.
nthread_set_turn_upper_bit ==
    /\ mainPc = "resync"
    /\ bitsAsked < MaxUpperBits
    /\ turn_upper_bit' = 1
    /\ bitsAsked' = bitsAsked + (1 - turn_upper_bit)
    /\ UNCHANGED <<mutexVars, flagVars, gdwTurnsInTransit, inTransit, bitsSent,
                   loopVars, tickVars, mainPc, netPc, netResult>>

\* nthread_ignore_mutex(true): RunGameLoop before StartGame, HandleMessage
\* before ShowProgress.
LendMutex ==
    /\ mainPc \in {"resync", "play"}
    /\ Thread
    /\ Unlock("main")
    /\ sgbThreadIsRunning' = TRUE
    /\ mainPc' = "loading"
    /\ UNCHANGED <<nthread_should_run, Thread, turnVars, tickVars, netPc, netResult>>

\* Mutant of TakeMutexBack: the main thread plays on without taking the mutex.
TakeMutexBackUnlocked ==
    /\ mainPc = "loading"
    /\ Thread
    /\ sgbThreadIsRunning' = FALSE
    /\ mainPc' = "play"
    /\ UNCHANGED <<mutexVars, nthread_should_run, Thread, turnVars, tickVars,
                   netPc, netResult>>

\* Mutant of TakeMutexBack: sgbThreadIsRunning is not reset.
TakeMutexBackKeepsFlag ==
    /\ mainPc = "loading"
    /\ Thread
    /\ Lock("main")
    /\ mainPc' = "play"
    /\ UNCHANGED <<flagVars, turnVars, tickVars, netPc, netResult>>

\* nthread_ignore_mutex(false): waits for the network thread's turn to end.
TakeMutexBack ==
    /\ mainPc = "loading"
    /\ Thread
    /\ Lock("main")
    /\ sgbThreadIsRunning' = FALSE
    /\ mainPc' = "play"
    /\ UNCHANGED <<nthread_should_run, Thread, turnVars, tickVars, netPc, netResult>>

\* NetClose -> nthread_cleanup, from a failed resync, from the end of the game
\* loop, or from init_cleanup when a fatal error strikes while loading.
StopThread ==
    /\ mainPc \in {"resync", "play", "loading"}
    /\ nthread_should_run' = FALSE
    /\ mainPc' = "cleanup"
    /\ UNCHANGED <<mutexVars, sgbThreadIsRunning, Thread, turnVars, tickVars,
                   netPc, netResult>>

\* Without MemCrit when it is lent: the network thread may be in its sending loop.
ClearTransit ==
    /\ mainPc = "cleanup"
    /\ gdwTurnsInTransit' = 0
    /\ mainPc' = IF Thread THEN "unlock" ELSE "menu"
    /\ UNCHANGED <<mutexVars, flagVars, inTransit, turn_upper_bit, bitsAsked,
                   bitsSent, loopVars, tickVars, netPc, netResult>>

\* Mutant of ReleaseForJoin: the mutex is released whoever holds it.
ReleaseForJoinAlways ==
    /\ mainPc = "unlock"
    /\ Unlock("main")
    /\ mainPc' = "join"
    /\ UNCHANGED <<flagVars, turnVars, tickVars, netPc, netResult>>

\* Mutant of ReleaseForJoin: the mutex is never released.
ReleaseForJoinNever ==
    /\ mainPc = "unlock"
    /\ mainPc' = "join"
    /\ UNCHANGED <<mutexVars, flagVars, turnVars, tickVars, netPc, netResult>>

ReleaseForJoin ==
    /\ mainPc = "unlock"
    /\ IF sgbThreadIsRunning THEN UNCHANGED mutexVars ELSE Unlock("main")
    /\ mainPc' = "join"
    /\ UNCHANGED <<flagVars, turnVars, tickVars, netPc, netResult>>

\* SDL_WaitThread returns once NthreadHandler has.
Join ==
    /\ mainPc = "join"
    /\ netPc = "done"
    /\ Thread' = FALSE
    /\ netPc' = "none"
    /\ mainPc' = "menu"
    /\ UNCHANGED <<mutexVars, nthread_should_run, sgbThreadIsRunning, turnVars,
                   tickVars, netResult>>

-----------------------------------------------------------------------------
(* The network thread: NthreadHandler.                                     *)

NetStart ==
    /\ netPc = "start"
    /\ netPc' = IF nthread_should_run THEN "lock" ELSE "done"
    /\ UNCHANGED <<mutexVars, flagVars, turnVars, tickVars, mainPc, netResult>>

NetLock ==
    /\ netPc = "lock"
    /\ Lock("net")
    /\ netPc' = "check"
    /\ UNCHANGED <<flagVars, turnVars, tickVars, mainPc, netResult>>

NetCheck ==
    /\ netPc = "check"
    /\ IF nthread_should_run
       THEN netPc' = "send" /\ UNCHANGED mutexVars
       ELSE netPc' = "done" /\ Unlock("net")
    /\ UNCHANGED <<flagVars, turnVars, tickVars, mainPc, netResult>>

\* nthread_send_and_recv_turn, in the network thread: SNetGetTurnsInTransit,
\* then a step for the test of the loop and the upper bit that it reads, and
\* one for the turn that it sends.
NetSend ==
    /\ netPc = "send"
    /\ curTurnsInTransit' = inTransit
    /\ netPc' = "fill"
    /\ UNCHANGED <<mutexVars, flagVars, gdwTurnsInTransit, inTransit, turn_upper_bit,
                   bitsAsked, bitsSent, turnTmp, tickVars, mainPc, netResult>>

\* Mutant of NetFill: one turn more than the window has room for.
NetFillTooMany ==
    /\ netPc = "fill"
    /\ curTurnsInTransit' = curTurnsInTransit + 1
    /\ netPc' = IF curTurnsInTransit <= gdwTurnsInTransit THEN "deliver" ELSE "receive"
    /\ turnTmp' = turn_upper_bit
    /\ UNCHANGED <<mutexVars, flagVars, gdwTurnsInTransit, inTransit, turn_upper_bit,
                   bitsAsked, bitsSent, tickVars, mainPc, netResult>>

NetFill ==
    /\ netPc = "fill"
    /\ curTurnsInTransit' = curTurnsInTransit + 1
    /\ netPc' = IF curTurnsInTransit < gdwTurnsInTransit THEN "deliver" ELSE "receive"
    /\ turnTmp' = turn_upper_bit
    /\ UNCHANGED <<mutexVars, flagVars, gdwTurnsInTransit, inTransit, turn_upper_bit,
                   bitsAsked, bitsSent, tickVars, mainPc, netResult>>

\* Mutant of NetDeliver: the upper bit is not cleared once it is sent.
NetDeliverKeepsBit ==
    /\ netPc = "deliver"
    /\ inTransit' = inTransit + 1
    /\ bitsSent' = bitsSent + turnTmp
    /\ netPc' = "fill"
    /\ UNCHANGED <<mutexVars, flagVars, gdwTurnsInTransit, turn_upper_bit, bitsAsked,
                   loopVars, tickVars, mainPc, netResult>>

NetDeliver ==
    /\ netPc = "deliver"
    /\ turn_upper_bit' = 0
    /\ inTransit' = inTransit + 1
    /\ bitsSent' = bitsSent + turnTmp
    /\ netPc' = "fill"
    /\ UNCHANGED <<mutexVars, flagVars, gdwTurnsInTransit, bitsAsked, loopVars,
                   tickVars, mainPc, netResult>>

NetReceive ==
    /\ netPc = "receive"
    /\ \E result \in BOOLEAN : RecvTurns(result) /\ netResult' = result
    /\ netPc' = "unlock"
    /\ UNCHANGED <<mutexVars, flagVars, gdwTurnsInTransit, turn_upper_bit,
                   bitsAsked, bitsSent, loopVars, mainPc>>

NetUnlock ==
    /\ netPc = "unlock"
    /\ Unlock("net")
    /\ netPc' = "delay"
    /\ UNCHANGED <<flagVars, turnVars, tickVars, mainPc, netResult>>

\* SDL_Delay, then the check at the end of the loop.
NetDelay ==
    /\ netPc = "delay"
    /\ netPc' = IF nthread_should_run THEN "lock" ELSE "done"
    /\ UNCHANGED <<mutexVars, flagVars, turnVars, tickVars, mainPc, netResult>>

-----------------------------------------------------------------------------

Main ==
    \/ \E b \in {0, 1} : nthread_start(b)
    \/ MainSend
    \/ MainReceive
    \/ nthread_set_turn_upper_bit
    \/ LendMutex
    \/ TakeMutexBack
    \/ StopThread
    \/ ClearTransit
    \/ ReleaseForJoin
    \/ Join

Net ==
    \/ NetStart
    \/ NetLock
    \/ NetCheck
    \/ NetSend
    \/ NetFill
    \/ NetDeliver
    \/ NetReceive
    \/ NetUnlock
    \/ NetDelay

ThreadsNext == Main \/ Net

ThreadsSpec == ThreadsInit /\ [][ThreadsNext]_threadVars

\* Each thread runs on; a thread that waits for MemCrit while the other one
\* keeps releasing it gets it in the end.  Nothing obliges the main thread to
\* stop playing, to lend the mutex or to ask for an upper bit.
ThreadsFairness ==
    /\ WF_threadVars(Net)
    /\ SF_threadVars(TakeMutexBack)
    /\ WF_threadVars(ClearTransit \/ ReleaseForJoin \/ Join)

ThreadsFairSpec == ThreadsSpec /\ ThreadsFairness

-----------------------------------------------------------------------------
(* Properties.                                                             *)

\* The main thread and the network thread never exchange turns at the same
\* time: while the main thread may do so the network thread is outside its
\* critical section, and whoever is inside owns MemCrit exactly once.  Every
\* variable of nthread.cpp and base.cpp's turn state relies on this.
ExclusiveTurns ==
    /\ mainPc \in {"resync", "play"} =>
           /\ netPc \notin {"check", "send", "fill", "deliver", "receive", "unlock"}
           /\ MemCrit = "main" /\ MemCritCount = 1
    /\ netPc \in {"check", "send", "fill", "deliver", "receive", "unlock"} =>
           MemCrit = "net" /\ MemCritCount = 1

\* sgbThreadIsRunning remembers who holds MemCrit: no thread ever unlocks a
\* mutex it does not own, whichever state nthread_cleanup is called from.
UnlocksBalance == ~ badUnlock

\* Back in the menu nothing of the game is left: the thread is gone and the
\* recursive mutex is free, so the next nthread_start begins from scratch, and
\* while it waits for the thread the main thread holds no lock.
QuiescentAfterJoin ==
    /\ mainPc = "menu" => netPc = "none" /\ ~ Thread /\ MemCrit = "none"
    /\ mainPc = "join" => MemCrit # "main"

\* A request for the game state (the upper bit of a turn) is sent exactly once,
\* whichever thread sends the next turn: none is set between the statement of
\* nthread_send_and_recv_turn that reads the bit and the one that clears it.
UpperBitOnce == bitsAsked = bitsSent + turn_upper_bit

\* While turns arrive in time, SNetReceiveTurns is called after exactly
\* SyncPeriod * NetUpdateRate ticks; out of sync it is called at every tick.
ReceiveCadence ==
    netPc # "none" =>
        \/ sgbPacketCountdown = 1 /\ sgbSyncCountdown = 1
        \/ /\ sgbTicsOutOfSync
           /\ sinceReceive + (sgbSyncCountdown - 1) * NetUpdateRate + sgbPacketCountdown
                  = SyncPeriod * NetUpdateRate

\* Nobody waits forever: nthread_cleanup returns, as the join never waits for a thread that
\* is itself waiting for MemCrit, and the end of a level load gets the mutex back.
WaitsEnd ==
    /\ mainPc \in {"cleanup", "unlock", "join"} ~> mainPc = "menu"
    /\ mainPc = "loading" ~> mainPc # "loading"
=============================================================================
