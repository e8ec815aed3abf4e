----------------------------- MODULE CommandQueues -----------------------------
(***************************************************************************)
(* What a player's commands are promised on their way to another player:   *)
(* each of two priorities is a queue.  Commands may be refused when they   *)
(* are given, but what was accepted is handled once, whole, and in the     *)
(* order of its priority.  Nothing is promised between the priorities.     *)
(***************************************************************************)
EXTENDS Naturals, Sequences

CONSTANTS
    Priorities,
    Commands

VARIABLES
    waiting,    \* the commands of each priority that were not handled yet
    handled     \* those that the other player has handled

vars == <<waiting, handled>>

Init ==
    /\ waiting = [priority \in Priorities |-> <<>>]
    /\ handled = [priority \in Priorities |-> <<>>]

Accept(priority, command) ==
    /\ waiting' = [waiting EXCEPT ![priority] = Append(@, command)]
    /\ UNCHANGED handled

\* Some commands from the front of one queue or of both.
Handle ==
    \A priority \in Priorities :
        \E n \in 0 .. Len(waiting[priority]) :
            /\ handled'[priority] =
                   handled[priority] \o SubSeq(waiting[priority], 1, n)
            /\ waiting'[priority] =
                   SubSeq(waiting[priority], n + 1, Len(waiting[priority]))

Next ==
    \/ Handle
    \/ \E priority \in Priorities, command \in Commands : Accept(priority, command)

Spec == Init /\ [][Next]_vars
===============================================================================
