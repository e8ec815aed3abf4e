------------------------------- MODULE Lockstep -------------------------------
(***************************************************************************)
(* What the turn protocol promises the game: every player advances through *)
(* the numbered turns one at a time, and never more than K turns ahead of  *)
(* a player it is connected to.  Who is connected to whom may change at    *)
(* any moment; packets, sequence numbers and the server do not appear.     *)
(***************************************************************************)
EXTENDS Integers

CONSTANTS
    Players,    \* the player slots
    K           \* the turns a player may be ahead

VARIABLES
    playing,    \* the players that have a place in the sequence of turns
    turn,       \* the next turn of each player
    known       \* the players that a player waits for

vars == <<playing, turn, known>>

LockstepTypeOK ==
    /\ playing \subseteq Players
    /\ turn \in [Players -> Nat]
    /\ known \in [Players -> SUBSET Players]

\* p is not K turns ahead of any player it knows.
InStep(p) == \A q \in known[p] \cap playing : turn[p] < turn[q] + K

Init ==
    /\ LockstepTypeOK
    /\ \A p, q \in playing : turn[p] = turn[q]
    /\ \A p \in Players \ playing : turn[p] = 0

\* p takes its turn.  Without a place it may only do so alone.
Advance(p) ==
    /\ p \in playing \/ known[p] = {p}
    /\ InStep(p)
    /\ turn' = [turn EXCEPT ![p] = @ + 1]
    /\ UNCHANGED <<playing, known>>

\* p takes over its place from a player; whom it knows may change with it.
Enter(p) ==
    /\ p \notin playing
    /\ playing' = playing \cup {p}
    /\ \E q \in Players : \E n \in 0 .. turn[q] + K : turn' = [turn EXCEPT ![p] = n]
    /\ known' \in [Players -> SUBSET Players]

Quit(p) ==
    /\ p \in playing
    /\ playing' = playing \ {p}
    /\ UNCHANGED turn
    /\ known' \in [Players -> SUBSET Players]

\* Players get to know each other or lose each other.
Meet ==
    /\ UNCHANGED <<playing, turn>>
    /\ known' \in [Players -> SUBSET Players]

Next == Meet \/ \E p \in Players : Advance(p) \/ Enter(p) \/ Quit(p)

Spec == Init /\ [][Next]_vars
===============================================================================
