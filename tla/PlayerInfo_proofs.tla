--------------------------- MODULE PlayerInfo_proofs ---------------------------
(***************************************************************************)
(* Proofs about the exchange of characters, for any numbers of players,    *)
(* chunks, lives, commands and faults, and any order of messages.          *)
(*                                                                         *)
(*  - gbActivePlayers counts the active players (CountsActive).  What      *)
(*    messages contain plays no part in it.                                *)
(*  - Every variable keeps its type (TypeCorrect): what is in an inbox was *)
(*    sent to that program, what a joiner buffers is of the kinds it       *)
(*    buffers, the offset into a character stays below its length.         *)
(*  - A player that is valid has the character of one of its lives         *)
(*    (CharactersWhole).  What q has sent and p has not read, in the order *)
(*    in which p will read it, Coming(p, q), is a chain: each chunk is     *)
(*    followed by the next of the same character, by the first one of a    *)
(*    character, or by the leave of q.  It goes on where p stands, and the *)
(*    part of q's character that p has is of one life.                     *)
(*  - Of a player that left nothing stays (GoneForgotten).  Once its leave *)
(*    has passed the server, p will handle it after all that is to come of *)
(*    the player: it is the last of the player's items in p's inbox, or it *)
(*    is pending and the inbox has nothing more of the player, or it is    *)
(*    the last of the player's items in the buffer.                        *)
(*  - Characters are lost in a discarded rest only (LostOnlyByDiscard).    *)
(*    For each two programs: the start of the one's character is on its    *)
(*    way to the other, or it is arriving, or it is known, or the one has  *)
(*    not sent it yet - or the other's own character, which it will        *)
(*    answer, is on its way.  Messages of earlier owners of the slot are   *)
(*    in front of those of the present one, and spoil nothing.             *)
(***************************************************************************)
EXTENDS PlayerInfo, FiniteSetTheorems, Subsequences_proofs, TLAPS

\* ActiveCount of one program; that its active players are finitely many has to be carried
\* along, as nothing is said here of what messages contain.

Counted(p) ==
    /\ IsFiniteSet(plractive[p])
    /\ gbActivePlayers[p] = Cardinality(plractive[p])
    /\ phase[p] \notin {"out", "joined"} => p \in plractive[p]

Domains ==
    /\ DOMAIN phase = Slots
    /\ DOMAIN plractive = Slots
    /\ gbActivePlayers = [p \in Slots |-> gbActivePlayers[p]]

\* The inductive invariant.
IInv == Domains /\ \A p \in Slots : Counted(p)

LEMMA IInvImplies == IInv => ActiveCount
BY DEF IInv, Counted, ActiveCount

LEMMA MembersFinite == IsFiniteSet(Members)
<1>1. N - 1 \in Int
  BY ParametersAssumption
<1>2. IsFiniteSet(0 .. N - 1)
  BY <1>1, FS_Interval
<1> QED
  BY <1>2, FS_Subset, ParametersAssumption

LEMMA IInvInit == Init => IInv
<1> SUFFICES ASSUME Init PROVE IInv
  OBVIOUS
<1>1. Domains
  BY DEF Init, Domains
<1>2. ASSUME NEW p \in Slots PROVE Counted(p)
  <2>1. CASE p \in Members
    BY <2>1, MembersFinite DEF Init, Counted
  <2>2. CASE p \notin Members
    BY <2>2, FS_EmptySet DEF Init, Counted
  <2> QED BY <2>1, <2>2
<1> QED BY <1>1, <1>2 DEF IInv

--------------------------------------------------------------------------------
(* A step of program p leaves the others' players alone.                       *)

LEMMA OneProgram ==
    ASSUME IInv, NEW p \in Slots, Domains',
           \A q \in Slots \ {p} :
               phase'[q] = phase[q] /\ plractive'[q] = plractive[q]
               /\ gbActivePlayers'[q] = gbActivePlayers[q],
           Counted(p)'
    PROVE  IInv'
<1> SUFFICES ASSUME NEW q \in Slots PROVE Counted(q)'
  BY DEF IInv
<1> QED BY DEF IInv, Counted

\* Steps that change nobody's active players, and the phase of p at most.
LEMMA SamePlayers ==
    ASSUME IInv, NEW p \in Slots, UNCHANGED <<plractive, gbActivePlayers>>,
           \/ UNCHANGED phase
           \/ \E ph : /\ phase' = [phase EXCEPT ![p] = ph]
                      /\ ph = "joined" \/ phase[p] \notin {"out", "joined"}
    PROVE  IInv'
<1>1. CASE UNCHANGED phase
  BY <1>1 DEF IInv, Domains, Counted
<1>2. ASSUME NEW ph, phase' = [phase EXCEPT ![p] = ph],
             ph = "joined" \/ phase[p] \notin {"out", "joined"}
      PROVE  IInv'
  <2>1. Domains'
    BY <1>2 DEF IInv, Domains
  <2>2. Counted(p)'
    BY <1>2 DEF IInv, Domains, Counted
  <2>3. \A q \in Slots \ {p} : phase'[q] = phase[q]
    BY <1>2 DEF IInv, Domains
  <2> QED BY <2>1, <2>2, <2>3, OneProgram
<1> QED BY <1>1, <1>2

\* Steps that replace the active players of p.
LEMMA NewPlayers ==
    ASSUME IInv, NEW p \in Slots, NEW S, IsFiniteSet(S),
           UNCHANGED phase \/ \E ph : phase' = [phase EXCEPT ![p] = ph],
           plractive' = [plractive EXCEPT ![p] = S],
           gbActivePlayers' = [gbActivePlayers EXCEPT ![p] = Cardinality(S)],
           phase'[p] \notin {"out", "joined"} => p \in S
    PROVE  IInv'
<1>1. Domains'
  BY DEF IInv, Domains
<1>2. Counted(p)'
  BY DEF IInv, Domains, Counted
<1>3. \A q \in Slots \ {p} :
          phase'[q] = phase[q] /\ plractive'[q] = plractive[q]
          /\ gbActivePlayers'[q] = gbActivePlayers[q]
  BY DEF IInv, Domains
<1> QED BY <1>1, <1>2, <1>3, OneProgram

--------------------------------------------------------------------------------
(* What is done to the players of a program.                                   *)

LEMMA Removed ==
    ASSUME NEW S, IsFiniteSet(S), NEW T, T \subseteq S
    PROVE  IsFiniteSet(S \ T) /\ Cardinality(S \ T) = Cardinality(S) - Cardinality(T)
<1>1. /\ IsFiniteSet(S \ T)
      /\ Cardinality(S \ T) = Cardinality(S) - Cardinality(S \cap T)
  BY FS_Difference
<1>2. S \cap T = T
  OBVIOUS
<1> QED BY <1>1, <1>2

LEMMA LeftPreserves ==
    ASSUME IInv, NEW p \in Slots, NEW players, PlayerLeftMsg(p, players), UNCHANGED phase
    PROVE  IInv'
<1> DEFINE S == plractive[p]
           gone == (players \cap S) \ {p}
<1>1. /\ IsFiniteSet(S) /\ gbActivePlayers[p] = Cardinality(S)
      /\ phase[p] \notin {"out", "joined"} => p \in S
  BY DEF IInv, Counted
<1>2. gone \subseteq S
  OBVIOUS
<1>3. IsFiniteSet(S \ gone) /\ Cardinality(S \ gone) = Cardinality(S) - Cardinality(gone)
  <2> HIDE DEF S, gone
  <2> QED BY <1>1, <1>2, Removed
<1>4. plractive' = [plractive EXCEPT ![p] = S \ gone]
  BY DEF PlayerLeftMsg
<1>5. gbActivePlayers' = [gbActivePlayers EXCEPT ![p] = Cardinality(S \ gone)]
  <2>1. gbActivePlayers' = [gbActivePlayers EXCEPT ![p] = gbActivePlayers[p] - Cardinality(gone)]
    BY DEF PlayerLeftMsg
  <2> QED BY <2>1, <1>1, <1>3
<1>6. phase'[p] \notin {"out", "joined"} => p \in S \ gone
  BY <1>1
<1> HIDE DEF S, gone
<1> QED BY <1>3, <1>4, <1>5, <1>6, NewPlayers

LEMMA UnPackPreserves ==
    ASSUME IInv, NEW p \in Slots, NEW q, q # p, NEW pack, NEW recv \in BOOLEAN,
           UnPack(p, q, pack, recv), UNCHANGED phase
    PROVE  IInv'
<1> DEFINE S == plractive[p]
           T == IF recv THEN S \cup {q} ELSE S \ {q}
<1>1. /\ IsFiniteSet(S) /\ gbActivePlayers[p] = Cardinality(S)
      /\ phase[p] \notin {"out", "joined"} => p \in S
  BY DEF IInv, Counted
<1>2. Cardinality(S) \in Nat
  BY <1>1, FS_CardinalityType
<1>3. IsFiniteSet(T)
  BY <1>1, FS_AddElement, FS_RemoveElement
<1>4. Cardinality(T) = Cardinality(S) - (IF q \in S THEN 1 ELSE 0) + (IF recv THEN 1 ELSE 0)
  <2>1. CASE recv
    <3>1. Cardinality(T) = IF q \in S THEN Cardinality(S) ELSE Cardinality(S) + 1
      BY <2>1, <1>1, FS_AddElement
    <3> HIDE DEF S, T
    <3> QED BY <2>1, <3>1, <1>2
  <2>2. CASE ~ recv
    <3>1. Cardinality(T) = IF q \in S THEN Cardinality(S) - 1 ELSE Cardinality(S)
      BY <2>2, <1>1, FS_RemoveElement
    <3> HIDE DEF S, T
    <3> QED BY <2>2, <3>1, <1>2
  <2> QED BY <2>1, <2>2
<1>5. plractive' = [plractive EXCEPT ![p] = T]
  BY DEF UnPack
<1>6. gbActivePlayers' = [gbActivePlayers EXCEPT ![p] = Cardinality(T)]
  <2>1. gbActivePlayers' = [gbActivePlayers EXCEPT ![p] =
            gbActivePlayers[p] - (IF q \in S THEN 1 ELSE 0) + (IF recv THEN 1 ELSE 0)]
    BY DEF UnPack
  <2> QED BY <2>1, <1>1, <1>4
<1>7. phase'[p] \notin {"out", "joined"} => p \in T
  BY <1>1
<1> HIDE DEF S, T
<1> QED BY <1>3, <1>5, <1>6, <1>7, NewPlayers

LEMMA JoinLevelPreserves ==
    ASSUME IInv, NEW p \in Slots, NEW q, OnPlayerJoinLevel(p, q), UNCHANGED phase
    PROVE  IInv'
<1> DEFINE S == plractive[p]
<1>1. CASE IsValid(p, q) /\ q \notin plractive[p]
  <2>1. /\ IsFiniteSet(S) /\ gbActivePlayers[p] = Cardinality(S)
        /\ phase[p] \notin {"out", "joined"} => p \in S
    BY DEF IInv, Counted
  <2>2. IsFiniteSet(S \cup {q}) /\ Cardinality(S \cup {q}) = Cardinality(S) + 1
    BY <1>1, <2>1, FS_AddElement
  <2>3. plractive' = [plractive EXCEPT ![p] = S \cup {q}]
    BY <1>1 DEF OnPlayerJoinLevel
  <2>4. gbActivePlayers' = [gbActivePlayers EXCEPT ![p] = Cardinality(S \cup {q})]
    <3>1. gbActivePlayers' = [gbActivePlayers EXCEPT ![p] = gbActivePlayers[p] + 1]
      BY <1>1 DEF OnPlayerJoinLevel
    <3> QED BY <3>1, <2>1, <2>2
  <2>5. phase'[p] \notin {"out", "joined"} => p \in S \cup {q}
    BY <2>1
  <2> HIDE DEF S
  <2> QED BY <2>2, <2>3, <2>4, <2>5, NewPlayers
<1>2. CASE ~ (IsValid(p, q) /\ q \notin plractive[p])
  <2>1. UNCHANGED <<plractive, gbActivePlayers>>
    BY <1>2 DEF OnPlayerJoinLevel
  <2> QED BY <2>1, SamePlayers
<1> QED BY <1>1, <1>2

LEMMA ParseCmdPreserves ==
    ASSUME IInv, NEW p \in Slots, NEW m, NEW boxes, ParseCmd(p, m, boxes), UNCHANGED phase
    PROVE  IInv'
<1>1. CASE m.type \in InfoCommands
  <2>1. RecvPlrInfo(p, m, boxes)
    BY <1>1 DEF ParseCmd
  <2>2. \/ UNCHANGED <<plractive, gbActivePlayers>>
        \/ /\ m.src # p
           /\ \E pack : UnPack(p, m.src, pack, m.type = "CMD_ACK_PLRINFO")
    BY <2>1, Zenon DEF RecvPlrInfo
  <2>3. (m.type = "CMD_ACK_PLRINFO") \in BOOLEAN
    OBVIOUS
  <2> QED BY <2>2, <2>3, SamePlayers, UnPackPreserves
<1>2. CASE m.type \notin InfoCommands
  <2>1. UNCHANGED <<plractive, gbActivePlayers>> \/ OnPlayerJoinLevel(p, m.src)
    BY <1>2 DEF ParseCmd
  <2> QED BY <2>1, SamePlayers, JoinLevelPreserves
<1> QED BY <1>1, <1>2

--------------------------------------------------------------------------------

LEMMA IInvStep == IInv /\ [Next]_vars => IInv'
<1> SUFFICES ASSUME IInv, [Next]_vars PROVE IInv'
  OBVIOUS
<1>0. CASE UNCHANGED vars
  BY <1>0 DEF IInv, Domains, Counted, vars, programVars
<1> SUFFICES ASSUME Next PROVE IInv'
  BY <1>0
<1> PICK p \in Slots :
        \/ Join(p) \/ NetInit(p) \/ BufferMessage(p) \/ BufferDrops(p)
        \/ ResyncEnds(p) \/ EnterGame(p) \/ ReplayDrop(p) \/ ReplayMessage(p)
        \/ DiscardRest(p) \/ ReplayEnds(p) \/ ClearPlayerLeft(p) \/ HandleMessage(p)
        \/ ChangeLevel(p) \/ HandleDisconnect(p) \/ Relay(p) \/ Leave(p) \/ Crash(p)
  BY Zenon DEF Next
<1>1. CASE Join(p)
  BY <1>1, SamePlayers DEF Join, programVars
<1>2. CASE NetInit(p)
  <2>1. IsFiniteSet({p}) /\ Cardinality({p}) = 1
    BY FS_Singleton
  <2>2. /\ phase' = [phase EXCEPT ![p] = "resync"]
        /\ plractive' = [plractive EXCEPT ![p] = {p}]
        /\ gbActivePlayers' = [gbActivePlayers EXCEPT ![p] = Cardinality({p})]
    BY <1>2, <2>1 DEF NetInit
  <2> QED BY <2>1, <2>2, NewPlayers
<1>3. CASE BufferMessage(p)
  BY <1>3, SamePlayers DEF BufferMessage
<1>4. CASE BufferDrops(p)
  BY <1>4, SamePlayers DEF BufferDrops
<1>5. CASE ResyncEnds(p)
  BY <1>5, SamePlayers DEF ResyncEnds, programVars
<1>6. CASE EnterGame(p)
  BY <1>6, SamePlayers DEF EnterGame, programVars
<1>7. CASE ReplayDrop(p)
  <2>1. /\ \E players : PlayerLeftMsg(p, players)
        /\ UNCHANGED phase
    BY <1>7 DEF ReplayDrop
  <2> QED BY <2>1, LeftPreserves
<1>8. CASE ReplayMessage(p)
  <2>1. /\ ParseCmd(p, Head(buffer[p]), inbox)
        /\ UNCHANGED phase
    BY <1>8 DEF ReplayMessage
  <2> QED BY <2>1, ParseCmdPreserves
<1>9. CASE DiscardRest(p)
  BY <1>9, SamePlayers DEF DiscardRest, EndReplay
<1>10. CASE ReplayEnds(p)
  BY <1>10, SamePlayers DEF ReplayEnds, EndReplay
<1>11. CASE ClearPlayerLeft(p)
  <2>1. /\ PlayerLeftMsg(p, playerLeft[p])
        /\ UNCHANGED phase
    BY <1>11 DEF ClearPlayerLeft
  <2> QED BY <2>1, LeftPreserves
<1>12. CASE HandleMessage(p)
  <2>1. UNCHANGED phase
    BY <1>12 DEF HandleMessage
  <2>2. \/ UNCHANGED <<plractive, gbActivePlayers>>
        \/ \E m, rest : ParseCmd(p, m, rest)
    BY <1>12, Zenon DEF HandleMessage
  <2> QED BY <2>1, <2>2, SamePlayers, ParseCmdPreserves
<1>13. CASE ChangeLevel(p)
  BY <1>13, SamePlayers DEF ChangeLevel, programVars
<1>14. CASE HandleDisconnect(p)
  BY <1>14, SamePlayers DEF HandleDisconnect, programVars
<1>15. CASE Relay(p)
  BY <1>15, SamePlayers DEF Relay, programVars
<1>16. CASE Leave(p) \/ Crash(p)
  <2>1. Ended(p)
    BY <1>16 DEF Leave, Crash
  <2>2. /\ phase' = [phase EXCEPT ![p] = "out"]
        /\ plractive' = [plractive EXCEPT ![p] = {}]
        /\ gbActivePlayers' = [gbActivePlayers EXCEPT ![p] = Cardinality({})]
    BY <2>1, FS_EmptySet DEF Ended
  <2>3. phase'[p] = "out"
    BY <2>2 DEF IInv, Domains
  <2> QED BY <2>2, <2>3, FS_EmptySet, NewPlayers
<1> QED
  BY <1>1, <1>2, <1>3, <1>4, <1>5, <1>6, <1>7, <1>8, <1>9, <1>10, <1>11, <1>12,
     <1>13, <1>14, <1>15, <1>16

(* multi.cpp counts gbActivePlayers up and down in NetInit, recv_plrinfo,       *)
(* OnPlayerJoinLevel and PlayerLeftMsg: in every state it is the number of      *)
(* active players, and a program that takes part counts itself, whatever the    *)
(* messages are and in whatever order they come.                                *)
THEOREM CountsActive == Spec => []ActiveCount
<1> QED
  BY IInvInit, IInvStep, IInvImplies, PTL DEF Spec

--------------------------------------------------------------------------------
(* The chunks of a character, one after the other.                             *)

\* Whatever is before m, m can follow it.
Fresh(m) == IsDisconnect(m) \/ m.chunk = 0

Continues(before, m) ==
    Fresh(m) \/ (~ IsDisconnect(before) /\ m.chunk = before.chunk + 1 /\ m.life = before.life)

Linked(s) == \A i \in 1 .. Len(s) - 1 : Continues(s[i], s[i + 1])
FreshHead(s) == s # <<>> => Fresh(s[1])

LEMMA LinkedConcat ==
    ASSUME NEW S, NEW s \in Seq(S), NEW t \in Seq(S), Linked(s), Linked(t), FreshHead(t)
    PROVE  Linked(s \o t)
<1> SUFFICES ASSUME NEW i \in 1 .. Len(s \o t) - 1 PROVE Continues((s \o t)[i], (s \o t)[i + 1])
  BY DEF Linked
<1>0. Len(s) \in Nat /\ Len(t) \in Nat /\ Len(s \o t) = Len(s) + Len(t)
  OBVIOUS
<1>1. CASE i < Len(s)
  <2>1. (s \o t)[i] = s[i] /\ (s \o t)[i + 1] = s[i + 1] /\ i \in 1 .. Len(s) - 1
    BY <1>1
  <2> QED BY <2>1, Zenon DEF Linked
<1>2. CASE i = Len(s)
  <2>1. (s \o t)[i + 1] = t[1] /\ t # <<>>
    BY <1>2
  <2> QED BY <2>1, Zenon DEF Continues, FreshHead
<1>3. CASE i > Len(s)
  <2> DEFINE j == i - Len(s)
  <2>1. (s \o t)[i] = t[j] /\ (s \o t)[i + 1] = t[j + 1] /\ j \in 1 .. Len(t) - 1
    BY <1>3
  <2> QED BY <2>1, Zenon DEF Linked
<1> QED BY <1>0, <1>1, <1>2, <1>3

LEMMA LinkedParts ==
    ASSUME NEW S, NEW s \in Seq(S), NEW t \in Seq(S), Linked(s \o t)
    PROVE  Linked(s) /\ Linked(t)
<1>0. Len(s) \in Nat /\ Len(t) \in Nat /\ Len(s \o t) = Len(s) + Len(t)
  OBVIOUS
<1>1. ASSUME NEW i \in 1 .. Len(s) - 1 PROVE Continues(s[i], s[i + 1])
  <2>1. (s \o t)[i] = s[i] /\ (s \o t)[i + 1] = s[i + 1] /\ i \in 1 .. Len(s \o t) - 1
    OBVIOUS
  <2> QED BY <2>1, Zenon DEF Linked
<1>2. ASSUME NEW i \in 1 .. Len(t) - 1 PROVE Continues(t[i], t[i + 1])
  <2> DEFINE j == i + Len(s)
  <2>1. (s \o t)[j] = t[i] /\ (s \o t)[j + 1] = t[i + 1] /\ j \in 1 .. Len(s \o t) - 1
    OBVIOUS
  <2> QED BY <2>1, Zenon DEF Linked
<1> QED BY <1>1, <1>2 DEF Linked

\* What is behind m continues it.
LEMMA LinkedBehind ==
    ASSUME NEW S, NEW m \in S, NEW t \in Seq(S), Linked(<<m>> \o t), t # <<>>
    PROVE  Continues(m, t[1])
<1>1. (<<m>> \o t)[1] = m /\ (<<m>> \o t)[1 + 1] = t[1] /\ 1 \in 1 .. Len(<<m>> \o t) - 1
  OBVIOUS
<1> QED BY <1>1, Zenon DEF Linked

\* Behind a leave everything starts afresh.
LEMMA FreshBehindLeave ==
    ASSUME NEW S, NEW m \in S, NEW t \in Seq(S), Linked(<<m>> \o t), IsDisconnect(m)
    PROVE  FreshHead(t)
<1>1. CASE t = <<>>
  BY <1>1 DEF FreshHead
<1>2. CASE t # <<>>
  <2>1. Continues(m, t[1])
    BY <1>2, LinkedBehind
  <2> QED BY <2>1 DEF Continues, FreshHead
<1> QED BY <1>1, <1>2

LEMMA LinkedShort ==
    ASSUME NEW s, Len(s) \in {0, 1}
    PROVE  Linked(s)
BY DEF Linked

--------------------------------------------------------------------------------

\* m can be the next message of q at p, where offset and buffer are "off" and "pack".
Starts(m, off, pack) == Fresh(m) \/ off # m.chunk \/ pack[m.chunk - 1] = m.life

\* What is still to come, and the part that has arrived.
Fits(s, off, pack) ==
    /\ Linked(s)
    /\ s # <<>> => Starts(s[1], off, pack)

\* The chunks so far are of one life.
OneLife(off, pack) == \E l \in Lives : \A c \in 0 .. off - 1 : pack[c] = l

\* t is s with its end replaced by something that starts afresh.
Replaces(t, s) ==
    \E a, b, c \in Seq(Packets) :
        s = a \o b /\ t = a \o c /\ Linked(c) /\ FreshHead(c)

LEMMA ReplacesFits ==
    ASSUME NEW s, NEW t, NEW off, NEW pack, Fits(s, off, pack), Replaces(t, s)
    PROVE  Fits(t, off, pack)
<1> PICK a \in Seq(Packets), b \in Seq(Packets), c \in Seq(Packets) :
        s = a \o b /\ t = a \o c /\ Linked(c) /\ FreshHead(c)
  BY DEF Replaces
<1>1. Linked(t)
  <2>1. Linked(a)
    BY LinkedParts DEF Fits
  <2> QED BY <2>1, LinkedConcat
<1>2. CASE a = <<>>
  <2>1. t = c
    BY <1>2
  <2> QED BY <1>1, <2>1 DEF Fits, FreshHead, Starts
<1>3. CASE a # <<>>
  <2>1. s # <<>> /\ s[1] = a[1] /\ t[1] = a[1]
    BY <1>3
  <2> QED BY <1>1, <2>1, Zenon DEF Fits
<1> QED BY <1>2, <1>3

LEMMA ReplacesSame ==
    ASSUME NEW s \in Seq(Packets)
    PROVE  Replaces(s, s)
<1>1. s = s \o <<>> /\ <<>> \in Seq(Packets)
  OBVIOUS
<1>2. Linked(<<>>) /\ FreshHead(<<>>)
  BY LinkedShort DEF FreshHead
<1> QED BY <1>1, <1>2, Zenon DEF Replaces

LEMMA ReplacesMore ==
    ASSUME NEW s \in Seq(Packets), NEW c \in Seq(Packets), Linked(c), FreshHead(c)
    PROVE  Replaces(s \o c, s)
<1>1. s = s \o <<>> /\ <<>> \in Seq(Packets)
  OBVIOUS
<1> QED BY <1>1, Zenon DEF Replaces

--------------------------------------------------------------------------------
(* Types.                                                                      *)

Of(q) == {m \in Packets : m.src = q}

Boxes(boxes) ==
    /\ boxes \in [Slots -> Seq(Packets)]
    /\ \A p \in Slots : boxes[p] \in Seq(To(p))
Ups(queues) ==
    /\ queues \in [Slots -> Seq(Packets)]
    /\ \A p \in Slots : queues[p] \in Seq(Of(p))
Buffers(queues) ==
    /\ queues \in [Slots -> Seq(MessagesType \cup EventsType({"FAKE_CMD_DROPID"}))]
    /\ \A p \in Slots : queues[p] \in Seq(Buffered(p))

Programs ==
    /\ offset \in [Slots -> [Slots -> 0 .. Chunks - 1]]
    /\ packed \in [Slots -> [Slots -> Packs]]
    /\ character \in [Slots -> [Slots -> Packs]]
    /\ plractive \in [Slots -> SUBSET Slots]

Typed ==
    /\ phase \in [Slots -> Phases]
    /\ life \in [Slots -> 0 .. MaxLives]
    /\ connections \in SUBSET Slots
    /\ Ups(up) /\ Boxes(inbox) /\ Buffers(buffer)
    /\ Programs
    /\ playerLeft \in [Slots -> SUBSET Slots]
    /\ early \in SUBSET Slots
    /\ commands \in Nat
    /\ faults \in Nat

\* What a slot is in besides.
Standing(p) ==
    /\ phase[p] # "out" => p \in connections /\ life[p] \in Lives /\ up[p] \in Seq(MessagesType)
    /\ p \notin connections => up[p] = <<>>
    /\ phase[p] \notin {"resync", "load", "replay"} => buffer[p] = <<>>
    /\ phase[p] = "out" =>
           /\ offset[p] = [q \in Slots |-> 0]
           /\ plractive[p] = {}
           /\ playerLeft[p] = {}

TInv ==
    /\ Typed
    /\ phase[Host] # "out" /\ up[Host] = <<>>
    /\ \A p \in Slots : Standing(p)

LEMMA Constants ==
    /\ N \in Nat /\ N >= 1 /\ Chunks \in Nat /\ Chunks >= 1 /\ MaxLives \in Nat /\ MaxLives >= 1
    /\ 1 \in Lives /\ Lives \subseteq 0 .. MaxLives /\ 0 \notin Lives
    /\ Host \in Slots /\ Members \subseteq Slots /\ Host \in Members
    /\ SNPLAYER_OTHERS \notin Slots
BY ParametersAssumption DEF Lives, Host, Slots, SNPLAYER_OTHERS

LEMMA PacketTypes ==
    /\ MessagesType \subseteq Packets
    /\ \A m \in MessagesType : ~ IsDisconnect(m) /\ m.type # "FAKE_CMD_DROPID"
    /\ \A q \in Slots : Event("PT_DISCONNECT", q) \in Packets
                        /\ IsDisconnect(Event("PT_DISCONNECT", q))
                        /\ Event("PT_DISCONNECT", q).src = q
    /\ \A m \in Packets : m \in MessagesType \/ \E q \in Slots : m = Event("PT_DISCONNECT", q)
    /\ \A m \in Packets : m.src \in Slots
    /\ \A p : To(p) \subseteq Packets /\ MessagesTo(p) \subseteq To(p)
    /\ \A p : \A q \in Slots : Event("PT_DISCONNECT", q) \in To(p)
    /\ \A p : \A m \in To(p) : ~ IsDisconnect(m) => m \in MessagesTo(p)
<1>1. \A m \in MessagesType : m.type \in InfoCommands \cup {"CMD_PLAYER_JOINLEVEL"} /\ m.src \in Slots
  BY DEF MessagesType
<1>2. \A m \in EventsType({"PT_DISCONNECT"}) : m.type = "PT_DISCONNECT" /\ m.src \in Slots
                                              /\ m = Event("PT_DISCONNECT", m.src)
  BY DEF EventsType, Event
<1>3. \A q \in Slots : Event("PT_DISCONNECT", q) \in EventsType({"PT_DISCONNECT"})
                       /\ Event("PT_DISCONNECT", q).type = "PT_DISCONNECT"
                       /\ Event("PT_DISCONNECT", q).src = q
  BY DEF EventsType, Event
<1>4. \A m \in MessagesType : m.type # "PT_DISCONNECT" /\ m.type # "FAKE_CMD_DROPID"
  BY <1>1 DEF InfoCommands
<1> HIDE DEF Packets
<1>5. \A m \in Packets : m \in MessagesType \/ m \in EventsType({"PT_DISCONNECT"})
  BY DEF Packets
<1>6. MessagesType \subseteq Packets /\ EventsType({"PT_DISCONNECT"}) \subseteq Packets
  BY DEF Packets
<1>7. \A p : MessagesTo(p) \subseteq MessagesType /\ To(p) = MessagesTo(p) \cup EventsType({"PT_DISCONNECT"})
  BY DEF To, MessagesTo
<1> QED BY <1>1, <1>2, <1>3, <1>4, <1>5, <1>6, <1>7, Zenon DEF IsDisconnect

LEMMA SeqMonotonicHere ==
    ASSUME NEW S, NEW T, S \subseteq T
    PROVE  Seq(S) \subseteq Seq(T)
  OBVIOUS

LEMMA TypeParts ==
    ASSUME NEW S
    PROVE  /\ \A s, t \in Seq(S) : s \o t \in Seq(S)
           /\ \A s \in Seq(S), x \in S : Append(s, x) \in Seq(S)
           /\ \A s \in Seq(S) : s # <<>> =>
                  Head(s) \in S /\ Tail(s) \in Seq(S) /\ s = <<Head(s)>> \o Tail(s)
           /\ \A x \in S : <<x>> \in Seq(S) /\ <<x>> # <<>> /\ Head(<<x>>) = x
           /\ <<>> \in Seq(S)
  OBVIOUS

LEMMA DeliveredTypes ==
    ASSUME NEW boxes, Boxes(boxes), NEW src, NEW packets \in Seq(Packets)
    PROVE  Boxes(Delivered(boxes, src, packets))
<1> DEFINE d == Delivered(boxes, src, packets)
<1>1. ASSUME NEW q \in Slots PROVE d[q] \in Seq(To(q)) /\ d[q] \in Seq(Packets)
  <2>1. boxes[q] \in Seq(To(q)) /\ boxes[q] \in Seq(Packets)
    BY DEF Boxes
  <2>2. Among(packets, To(q)) \in Seq(Packets \cap To(q)) /\ Among(packets, To(q)) \in Seq(Packets)
    BY AmongType
  <2>3. Among(packets, To(q)) \in Seq(To(q))
    <3>1. Packets \cap To(q) \subseteq To(q)
      OBVIOUS
    <3> QED BY <2>2, <3>1, SeqMonotonicHere, Zenon
  <2>4. d[q] = boxes[q] \/ d[q] = boxes[q] \o Among(packets, To(q))
    BY DEF Delivered
  <2>5. \A S : \A s, t \in Seq(S) : s \o t \in Seq(S)
    BY TypeParts
  <2> HIDE DEF d
  <2> QED BY ONLY <2>1, <2>2, <2>3, <2>4, <2>5, Zenon
<1>2. d = [q \in Slots |-> d[q]]
  BY DEF Delivered
<1> HIDE DEF d
<1>3. d \in [Slots -> Seq(Packets)]
  BY <1>1, <1>2
<1>4. Boxes(d)
  BY <1>1, <1>3 DEF Boxes
<1> QED BY <1>4 DEF d

\* What tells p of the character of q: its chunks, and that q leaves.
Tells(p, q) ==
    {m \in MessagesTo(p) : m.type \in InfoCommands /\ m.src = q} \cup {Event("PT_DISCONNECT", q)}

Says(p) == {m \in MessagesType : m.src = p}

\* Messages that p may send: to everybody its character begins with the first chunk.
Sendable(messages, p) ==
    /\ messages \in Seq(Says(p))
    /\ \A q \in Slots :
           /\ Linked(Among(messages, Tells(q, p)))
           /\ FreshHead(Among(messages, Tells(q, p)))

LEMMA InfoSendable ==
    ASSUME NEW p \in Slots, life[p] \in Lives, NEW dst \in Slots \cup {SNPLAYER_OTHERS},
           NEW cmd \in InfoCommands
    PROVE  Sendable(Info(cmd, p, dst), p)
<1> DEFINE info == Info(cmd, p, dst)
           S == {m \in Says(p) : m.dst = dst /\ m.type \in InfoCommands}
<1>1. ASSUME NEW i \in 1 .. Chunks
      PROVE  info[i] \in S /\ info[i].chunk = i - 1 /\ info[i].life = life[p]
  <2>1. info[i] = [type |-> cmd, src |-> p, dst |-> dst, life |-> life[p], chunk |-> i - 1]
    BY DEF Info, Message
  <2>2. i - 1 \in 0 .. Chunks - 1
    BY Constants
  <2> HIDE DEF info
  <2> QED BY <2>1, <2>2 DEF Says, MessagesType
<1>2. info = [i \in 1 .. Chunks |-> info[i]]
  BY DEF Info
<1>3. Chunks \in Nat /\ Chunks >= 1
  BY Constants
<1> HIDE DEF info, S
<1>4. info \in Seq(S) /\ Len(info) = Chunks
  BY <1>1, <1>2, <1>3
<1>5. Linked(info)
  <2> SUFFICES ASSUME NEW i \in 1 .. Len(info) - 1 PROVE Continues(info[i], info[i + 1])
    BY DEF Linked
  <2>1. i \in 1 .. Chunks /\ i + 1 \in 1 .. Chunks
    BY <1>3, <1>4
  <2>2. info[i] \in S /\ info[i].chunk = i - 1 /\ info[i + 1].chunk = (i + 1) - 1
        /\ info[i].life = info[i + 1].life
    BY <1>1, <2>1
  <2>3. ~ IsDisconnect(info[i])
    BY <2>2, PacketTypes DEF S, Says
  <2> QED BY <2>2, <2>3 DEF Continues
<1>6. FreshHead(info)
  <2>1. info[1].chunk = 1 - 1
    BY <1>1, <1>3
  <2> QED BY <2>1 DEF FreshHead, Fresh
<1>7. S \subseteq Says(p)
  BY DEF S
<1>8. info \in Seq(Says(p))
  BY <1>4, <1>7, SeqMonotonicHere, Zenon
<1>9. ASSUME NEW q \in Slots
      PROVE  Linked(Among(info, Tells(q, p))) /\ FreshHead(Among(info, Tells(q, p)))
  <2>1. CASE dst \in {q, SNPLAYER_OTHERS}
    <3>1. S \subseteq Tells(q, p)
      BY <2>1 DEF S, Says, Tells, MessagesTo
    <3>2. info \in Seq(Tells(q, p))
      BY <1>4, <3>1, SeqMonotonicHere, Zenon
    <3>3. Among(info, Tells(q, p)) = info
      BY <3>2, AmongAll
    <3> QED BY <1>5, <1>6, <3>3
  <2>2. CASE dst \notin {q, SNPLAYER_OTHERS}
    <3>1. \A m \in S : m # Event("PT_DISCONNECT", p)
      BY PacketTypes DEF S, Says
    <3>2. S \cap Tells(q, p) = {}
      BY <2>2, <3>1 DEF S, Says, Tells, MessagesTo
    <3>3. Among(info, Tells(q, p)) = <<>>
      BY <1>4, <3>2, AmongNone
    <3> QED BY <3>3, LinkedShort DEF FreshHead
  <2> QED BY <2>1, <2>2
<1> QED BY <1>8, <1>9 DEF info, Sendable

\* Messages that are no chunks.
LEMMA OthersSendable ==
    ASSUME NEW p \in Slots, NEW messages \in Seq({m \in Says(p) : m.type \notin InfoCommands})
    PROVE  Sendable(messages, p)
<1> DEFINE S == {m \in Says(p) : m.type \notin InfoCommands}
<1>1. S \subseteq Says(p)
  OBVIOUS
<1>2. messages \in Seq(Says(p))
  BY <1>1, SeqMonotonicHere, Zenon
<1>3. ASSUME NEW q \in Slots PROVE Among(messages, Tells(q, p)) = <<>>
  <2>1. \A m \in S : m # Event("PT_DISCONNECT", p)
    BY PacketTypes DEF Says
  <2>2. S \cap Tells(q, p) = {}
    BY <2>1 DEF Tells
  <2> HIDE DEF S
  <2> QED BY <2>2, AmongNone DEF S
<1>4. Linked(<<>>) /\ FreshHead(<<>>)
  BY LinkedShort DEF FreshHead
<1> QED BY <1>2, <1>3, <1>4, Zenon DEF Sendable

LEMMA JoinLevelSendable ==
    ASSUME NEW p \in Slots, life[p] \in Lives
    PROVE  Sendable(JoinLevel(p), p)
<1>1. Message("CMD_PLAYER_JOINLEVEL", p, SNPLAYER_OTHERS, 0)
          \in {m \in Says(p) : m.type \notin InfoCommands}
  <2>1. 0 \in 0 .. Chunks - 1
    BY Constants
  <2> QED BY <2>1 DEF Message, Says, MessagesType, InfoCommands
<1>2. JoinLevel(p) \in Seq({m \in Says(p) : m.type \notin InfoCommands})
  BY <1>1 DEF JoinLevel
<1> QED BY <1>2, OthersSendable

LEMMA NothingSendable ==
    ASSUME NEW p \in Slots
    PROVE  Sendable(<<>>, p)
<1>1. <<>> \in Seq({m \in Says(p) : m.type \notin InfoCommands})
  OBVIOUS
<1> QED BY <1>1, OthersSendable

LEMMA AnswerSendable ==
    ASSUME NEW p \in Slots, life[p] \in Lives, NEW m, m.src \in Slots
    PROVE  Sendable(Answer(p, m), p)
<1>1. Answer(p, m) = <<>> \/ Answer(p, m) = Info("CMD_ACK_PLRINFO", p, m.src)
  BY Zenon DEF Answer
<1>2. "CMD_ACK_PLRINFO" \in InfoCommands
  BY DEF InfoCommands
<1> QED BY <1>1, <1>2, NothingSendable, InfoSendable

--------------------------------------------------------------------------------

LEMMA SendsTypes ==
    ASSUME Ups(up), NEW boxes, Boxes(boxes), NEW p \in Slots, NEW messages, Sendable(messages, p),
           Sends(p, messages, boxes)
    PROVE  /\ Ups(up)' /\ Boxes(inbox)'
           /\ \A q \in Slots :
                  \/ up'[q] = up[q]
                  \/ q = p /\ q # Host /\ q \in connections /\ up'[q] = up[q] \o messages
           /\ \A q \in Slots : up[q] \in Seq(MessagesType) => up'[q] \in Seq(MessagesType)
<1>1. Says(p) \subseteq MessagesType /\ Says(p) \subseteq Of(p) /\ Says(p) \subseteq Packets
  BY PacketTypes DEF Says, Of
<1>2. messages \in Seq(MessagesType) /\ messages \in Seq(Of(p)) /\ messages \in Seq(Packets)
  BY <1>1, SeqMonotonicHere, Zenon DEF Sendable
<1>3. Boxes(inbox)'
  <2>1. inbox' = boxes \/ inbox' = Delivered(boxes, Host, messages)
    BY DEF Sends
  <2>2. Boxes(Delivered(boxes, Host, messages))
    BY <1>2, DeliveredTypes
  <2>3. Boxes(inbox')
    BY <2>1, <2>2, Zenon
  <2> QED BY <2>3 DEF Boxes
<1>4. \A q \in Slots :
          \/ up'[q] = up[q]
          \/ q = p /\ q # Host /\ q \in connections /\ up'[q] = up[q] \o messages
  BY DEF Sends, Ups
<1>5. \A S : \A s, t \in Seq(S) : s \o t \in Seq(S)
  BY TypeParts
<1>6. ASSUME NEW q \in Slots
      PROVE  /\ up'[q] \in Seq(Packets) /\ up'[q] \in Seq(Of(q))
             /\ up[q] \in Seq(MessagesType) => up'[q] \in Seq(MessagesType)
  <2>1. up[q] \in Seq(Packets) /\ up[q] \in Seq(Of(q))
    BY DEF Ups
  <2> QED BY <1>2, <1>4, <1>5, <2>1, Zenon
<1>7. up' = [q \in Slots |-> up'[q]]
  BY DEF Sends, Ups
<1>8. up' \in [Slots -> Seq(Packets)]
  BY <1>6, <1>7, Zenon
<1>9. Ups(up)'
  BY <1>6, <1>8 DEF Ups
<1> QED BY <1>3, <1>4, <1>6, <1>9

LEMMA SendsNothing ==
    ASSUME Ups(up), NEW boxes, Boxes(boxes), NEW p \in Slots, inbox' = boxes, up' = up
    PROVE  Sends(p, <<>>, boxes)
<1>1. \A q \in Slots : Among(<<>>, To(q)) = <<>>
  BY AmongEmpty
<1>2. \A q \in Slots : boxes[q] \in Seq(Packets)
  BY DEF Boxes
<1>3. \A s \in Seq(Packets) : s \o <<>> = s
  OBVIOUS
<1>4. Delivered(boxes, Host, <<>>) = boxes
  <2>1. boxes = [q \in Slots |-> boxes[q]]
    BY DEF Boxes
  <2>2. \A q \in Slots : boxes[q] \o Among(<<>>, To(q)) = boxes[q]
    BY <1>1, <1>2, <1>3, Zenon
  <2>3. Delivered(boxes, Host, <<>>) = [q \in Slots |-> boxes[q]]
    BY <2>2, Zenon DEF Delivered
  <2> QED BY <2>1, <2>3, Zenon
<1>5. up[p] \o <<>> = up[p]
  BY <1>3, Zenon DEF Ups
<1>6. [up EXCEPT ![p] = @ \o <<>>] = up
  <2>1. [up EXCEPT ![p] = @ \o <<>>] = [up EXCEPT ![p] = up[p]]
    BY <1>5
  <2> QED BY <2>1 DEF Ups
<1> QED BY <1>4, <1>6, Zenon DEF Sends

--------------------------------------------------------------------------------
(* What a program does to what it knows of the others.                         *)

\* Packets of a character.
LEMMA PackTypes ==
    /\ Blank \in Packs
    /\ \A l \in Lives : PackOf(l) \in Packs /\ PackOf(l) # Blank
    /\ \A pack \in Packs, c \in 0 .. Chunks - 1, l \in Lives :
           /\ [pack EXCEPT ![c] = l] \in Packs
           /\ [pack EXCEPT ![c] = l] # Blank
<1>1. 0 \in 0 .. MaxLives /\ 0 \in 0 .. Chunks - 1 /\ Lives \subseteq 0 .. MaxLives /\ 0 \notin Lives
  BY Constants
<1>2. Blank \in Packs /\ \A c \in 0 .. Chunks - 1 : Blank[c] = 0
  BY <1>1 DEF Blank, PackOf, Packs
<1>3. \A l \in Lives : PackOf(l) \in Packs /\ PackOf(l)[0] = l
  BY <1>1 DEF PackOf, Packs
<1>4. \A pack \in Packs, c \in 0 .. Chunks - 1, l \in Lives :
           /\ [pack EXCEPT ![c] = l] \in Packs
           /\ [pack EXCEPT ![c] = l][c] = l
  BY <1>1 DEF Packs
<1> QED BY <1>1, <1>2, <1>3, <1>4, Zenon

ActiveKnown == \A p, q \in Slots : q \in plractive[p] => IsValid(p, q)

LEMMA LeftPrograms ==
    ASSUME Programs, ActiveKnown, NEW p \in Slots, NEW players, PlayerLeftMsg(p, players),
           UNCHANGED <<offset, packed>>
    PROVE  /\ Programs' /\ ActiveKnown'
           /\ \A q \in Slots : q # p => plractive'[q] = plractive[q] /\ character'[q] = character[q]
           /\ plractive'[p] = plractive[p] \ (players \ {p})
           /\ \A q \in Slots : character'[p][q] \in {character[p][q], Blank}
<1> DEFINE gone == (players \cap plractive[p]) \ {p}
<1>1. /\ plractive' = [plractive EXCEPT ![p] = plractive[p] \ gone]
      /\ character' = [character EXCEPT ![p] =
                          [q \in Slots |-> IF q \in gone THEN Blank ELSE character[p][q]]]
  BY DEF PlayerLeftMsg
<1>2. Blank \in Packs
  BY PackTypes
<1>3. plractive[p] \ gone = plractive[p] \ (players \ {p})
  BY DEF Programs
<1> HIDE DEF gone
<1>4. /\ \A q \in Slots : q # p => plractive'[q] = plractive[q] /\ character'[q] = character[q]
      /\ plractive'[p] = plractive[p] \ gone
      /\ \A q \in Slots : character'[p][q] = IF q \in gone THEN Blank ELSE character[p][q]
  BY <1>1 DEF Programs
<1>5. Programs'
  BY <1>1, <1>2 DEF Programs
<1>6. ActiveKnown'
  BY <1>4 DEF ActiveKnown, IsValid
<1> QED BY <1>3, <1>4, <1>5, <1>6

LEMMA UnPackPrograms ==
    ASSUME Programs, ActiveKnown, NEW p \in Slots, NEW q \in Slots, NEW pack \in Packs,
           pack # Blank, NEW recv \in BOOLEAN, UnPack(p, q, pack, recv)
    PROVE  /\ plractive' \in [Slots -> SUBSET Slots] /\ character' \in [Slots -> [Slots -> Packs]]
           /\ ActiveKnown'
           /\ \A r \in Slots : r # p => plractive'[r] = plractive[r] /\ character'[r] = character[r]
           /\ plractive'[p] \subseteq plractive[p] \cup {q}
           /\ \A r \in Slots : character'[p][r] = IF r = q THEN pack ELSE character[p][r]
<1>1. /\ plractive' = [plractive EXCEPT ![p] = IF recv THEN plractive[p] \cup {q} ELSE plractive[p] \ {q}]
      /\ character' = [character EXCEPT ![p][q] = pack]
  BY DEF UnPack
<1>2. /\ \A r \in Slots : r # p => plractive'[r] = plractive[r] /\ character'[r] = character[r]
      /\ plractive'[p] = IF recv THEN plractive[p] \cup {q} ELSE plractive[p] \ {q}
      /\ \A r \in Slots : character'[p][r] = IF r = q THEN pack ELSE character[p][r]
  BY <1>1 DEF Programs
<1>3. plractive' \in [Slots -> SUBSET Slots] /\ character' \in [Slots -> [Slots -> Packs]]
  BY <1>1 DEF Programs
<1>4. ActiveKnown'
  BY <1>2 DEF ActiveKnown, IsValid
<1> QED BY <1>2, <1>3, <1>4

LEMMA JoinLevelPrograms ==
    ASSUME Programs, ActiveKnown, NEW p \in Slots, NEW q \in Slots, OnPlayerJoinLevel(p, q),
           UNCHANGED <<offset, packed, character>>
    PROVE  /\ Programs' /\ ActiveKnown'
           /\ \A r \in Slots : r # p => plractive'[r] = plractive[r]
           /\ plractive'[p] \subseteq plractive[p] \cup {q}
<1>1. CASE UNCHANGED plractive
  BY <1>1 DEF Programs, ActiveKnown, IsValid
<1>2. CASE IsValid(p, q) /\ plractive' = [plractive EXCEPT ![p] = @ \cup {q}]
  <2>1. /\ \A r \in Slots : r # p => plractive'[r] = plractive[r]
        /\ plractive'[p] = plractive[p] \cup {q}
    BY <1>2 DEF Programs
  <2>2. Programs'
    BY <1>2 DEF Programs
  <2>3. ActiveKnown'
    BY <1>2, <2>1 DEF ActiveKnown, IsValid
  <2> QED BY <2>1, <2>2, <2>3
<1> QED BY <1>1, <1>2, Zenon DEF OnPlayerJoinLevel

LEMMA RecvPrograms ==
    ASSUME Programs, ActiveKnown, Ups(up), NEW boxes, Boxes(boxes),
           NEW p \in Slots, life[p] \in Lives, NEW m \in MessagesType, RecvPlrInfo(p, m, boxes)
    PROVE  /\ Programs' /\ ActiveKnown'
           /\ \A r \in Slots : r # p => /\ offset'[r] = offset[r] /\ packed'[r] = packed[r]
                                        /\ plractive'[r] = plractive[r] /\ character'[r] = character[r]
           /\ plractive'[p] \subseteq plractive[p] \cup {m.src}
           /\ \A r \in Slots : r # m.src =>
                  /\ offset'[p][r] = offset[p][r] /\ packed'[p][r] = packed[p][r]
                  /\ character'[p][r] = character[p][r]
           /\ m.src = p => character'[p][p] = character[p][p]
           /\ \E messages : Sendable(messages, p) /\ Sends(p, messages, boxes)
<1> DEFINE q == m.src
           pack == [packed[p][q] EXCEPT ![m.chunk] = m.life]
           ignored == q = p \/ NextChunk(p, m) # m.chunk
           off == IF q = p THEN offset[p][q] ELSE IF ignored THEN 0 ELSE NextOffset(m.chunk)
<1>1. q \in Slots /\ m.chunk \in 0 .. Chunks - 1 /\ m.life \in Lives
  BY DEF MessagesType
<1>2. pack \in Packs /\ pack # Blank
  BY <1>1, PackTypes DEF Programs
<1>3. off \in 0 .. Chunks - 1
  <2>1. offset[p][q] \in 0 .. Chunks - 1
    BY <1>1 DEF Programs
  <2>2. 0 \in 0 .. Chunks - 1 /\ NextOffset(m.chunk) \in 0 .. Chunks - 1
    BY <1>1, Constants DEF NextOffset
  <2> QED BY <2>1, <2>2
<1>4. /\ offset' = [offset EXCEPT ![p][q] = off]
      /\ packed' = IF ignored THEN packed ELSE [packed EXCEPT ![p][q] = pack]
      /\ Sends(p, IF ignored THEN <<>> ELSE Answer(p, m), boxes)
      /\ \/ ~ ignored /\ UnPack(p, q, pack, m.type = "CMD_ACK_PLRINFO")
         \/ UNCHANGED <<character, plractive>>
  BY DEF RecvPlrInfo
<1>5. \E messages : Sendable(messages, p) /\ Sends(p, messages, boxes)
  <2>1. Sendable(<<>>, p) /\ Sendable(Answer(p, m), p)
    BY <1>1, NothingSendable, AnswerSendable
  <2> HIDE DEF ignored
  <2> QED BY <1>4, <2>1, Zenon
<1>6. q = p => ignored
  OBVIOUS
<1> HIDE DEF q, pack, ignored, off
<1>7. /\ offset' \in [Slots -> [Slots -> 0 .. Chunks - 1]]
      /\ packed' \in [Slots -> [Slots -> Packs]]
      /\ \A r \in Slots : r # p => offset'[r] = offset[r] /\ packed'[r] = packed[r]
      /\ \A r \in Slots : r # q => offset'[p][r] = offset[p][r] /\ packed'[p][r] = packed[p][r]
  BY <1>1, <1>2, <1>3, <1>4 DEF Programs
<1>8. CASE UNCHANGED <<character, plractive>>
  <2>1. Programs' /\ ActiveKnown'
    BY <1>7, <1>8 DEF Programs, ActiveKnown, IsValid
  <2> QED BY <1>5, <1>7, <1>8, <2>1 DEF q
<1>9. CASE ~ ignored /\ UnPack(p, q, pack, m.type = "CMD_ACK_PLRINFO")
  <2>2. /\ plractive' \in [Slots -> SUBSET Slots] /\ character' \in [Slots -> [Slots -> Packs]]
        /\ ActiveKnown'
        /\ \A r \in Slots : r # p => plractive'[r] = plractive[r] /\ character'[r] = character[r]
        /\ plractive'[p] \subseteq plractive[p] \cup {q}
        /\ \A r \in Slots : character'[p][r] = IF r = q THEN pack ELSE character[p][r]
    <3> DEFINE recv == m.type = "CMD_ACK_PLRINFO"
    <3>1. recv \in BOOLEAN /\ UnPack(p, q, pack, recv)
      BY <1>9
    <3> HIDE DEF recv
    <3> QED BY <1>1, <1>2, <3>1, UnPackPrograms
  <2>3. Programs'
    BY <1>7, <2>2 DEF Programs
  <2> QED BY <1>5, <1>6, <1>7, <1>9, <2>2, <2>3 DEF q
<1> QED BY <1>4, <1>8, <1>9

\* A chunk that is the next one continues a character, any other one starts it over, and
\* what follows the chunk fits again.
LEMMA RecvChunks ==
    ASSUME Programs, NEW p \in Slots, NEW m \in MessagesType, NEW boxes, m.src # p,
           RecvPlrInfo(p, m, boxes),
           OneLife(offset[p][m.src], packed[p][m.src]),
           Starts(m, offset[p][m.src], packed[p][m.src])
    PROVE  /\ OneLife(offset[p][m.src], packed[p][m.src])'
           /\ \A t \in Seq(Packets) :
                  Linked(<<m>> \o t) => Fits(t, offset'[p][m.src], packed'[p][m.src])
           /\ \/ character'[p][m.src] = character[p][m.src]
              \/ \E l \in Lives : character'[p][m.src] = PackOf(l)
<1> DEFINE q == m.src
           pack == [packed[p][q] EXCEPT ![m.chunk] = m.life]
           ignored == q = p \/ NextChunk(p, m) # m.chunk
<1>1. q \in Slots /\ m.chunk \in 0 .. Chunks - 1 /\ m.life \in Lives /\ m \in Packets
  BY PacketTypes DEF MessagesType
<1>2. ~ IsDisconnect(m)
  BY PacketTypes
<1>3. offset[p][q] \in 0 .. Chunks - 1 /\ packed[p][q] \in Packs /\ Chunks \in Nat
  BY <1>1, Constants DEF Programs
<1>4. CASE ignored
  <2>1. offset'[p][q] = 0 /\ packed'[p][q] = packed[p][q] /\ character'[p][q] = character[p][q]
    BY <1>1, <1>4 DEF RecvPlrInfo, Programs
  <2>2. OneLife(0, packed[p][q])
    BY Constants DEF OneLife
  <2>3. ASSUME NEW t \in Seq(Packets), Linked(<<m>> \o t) PROVE Fits(t, 0, packed[p][q])
    <3>1. Linked(t)
      <4>1. <<m>> \in Seq(Packets)
        BY <1>1
      <4> QED BY <2>3, <4>1, LinkedParts
    <3>2. ASSUME NEW x PROVE Starts(x, 0, packed[p][q])
      BY DEF Starts, Fresh
    <3> QED BY <3>1, <3>2 DEF Fits
  <2> HIDE DEF q, ignored
  <2> QED BY <2>1, <2>2, <2>3 DEF q
<1>5. CASE ~ ignored
  <2>1. m.chunk = 0 \/ m.chunk = offset[p][q]
    BY <1>5 DEF NextChunk
  <2>2. /\ offset' = [offset EXCEPT ![p][q] = NextOffset(m.chunk)]
        /\ packed' = [packed EXCEPT ![p][q] = pack]
        /\ IF m.chunk = Chunks - 1
           THEN UnPack(p, q, pack, m.type = "CMD_ACK_PLRINFO")
           ELSE UNCHANGED character
    BY <1>5, Zenon DEF RecvPlrInfo
  <2>3. offset'[p][q] = NextOffset(m.chunk) /\ packed'[p][q] = pack
    <3> HIDE DEF pack
    <3> QED BY <1>1, <2>2 DEF Programs
  <2>4. \A c \in 0 .. m.chunk : pack[c] = m.life
    <3>1. CASE m.chunk = 0
      BY <1>1, <1>3, <3>1 DEF Packs
    <3>2. CASE m.chunk # 0
      <4>1. m.chunk = offset[p][q] /\ m.chunk - 1 \in 0 .. m.chunk - 1
        BY <1>1, <2>1, <3>2
      <4>2. packed[p][q][m.chunk - 1] = m.life
        BY <1>2, <3>2, <4>1 DEF Starts, Fresh
      <4>3. \A c \in 0 .. m.chunk - 1 : packed[p][q][c] = m.life
        BY <4>1, <4>2 DEF OneLife
      <4>4. \A c \in 0 .. Chunks - 1 : pack[c] = IF c = m.chunk THEN m.life ELSE packed[p][q][c]
        BY <1>3 DEF Packs
      <4>5. \A c \in 0 .. m.chunk : c \in 0 .. Chunks - 1 /\ (c # m.chunk => c \in 0 .. m.chunk - 1)
        BY <1>1, <1>3
      <4> HIDE DEF pack
      <4> QED BY <4>3, <4>4, <4>5, Zenon
    <3> QED BY <3>1, <3>2
  <2>5. OneLife(NextOffset(m.chunk), pack)
    <3>1. 0 .. NextOffset(m.chunk) - 1 \subseteq 0 .. m.chunk
      BY <1>1, <1>3 DEF NextOffset
    <3> HIDE DEF pack
    <3> QED BY <1>1, <2>4, <3>1 DEF OneLife
  <2>6. ASSUME NEW t \in Seq(Packets), Linked(<<m>> \o t)
        PROVE  Fits(t, NextOffset(m.chunk), pack)
    <3>1. Linked(t)
      <4>1. <<m>> \in Seq(Packets)
        BY <1>1
      <4> QED BY <2>6, <4>1, LinkedParts
    <3>2. ASSUME t # <<>> PROVE Starts(t[1], NextOffset(m.chunk), pack)
      <4>1. Continues(m, t[1])
        BY <1>1, <2>6, <3>2, LinkedBehind
      <4>2. CASE Fresh(t[1])
        BY <4>2 DEF Starts
      <4>3. CASE t[1].chunk = m.chunk + 1 /\ t[1].life = m.life
        <5>1. pack[m.chunk] = m.life
          BY <1>1, <2>4
        <5>2. (m.chunk + 1) - 1 = m.chunk
          BY <1>1
        <5> HIDE DEF pack
        <5> QED BY <4>3, <5>1, <5>2 DEF Starts
      <4> QED BY <4>1, <4>2, <4>3 DEF Continues
    <3> HIDE DEF pack
    <3> QED BY <3>1, <3>2 DEF Fits
  <2>7. character'[p][q] = character[p][q] \/ \E l \in Lives : character'[p][q] = PackOf(l)
    <3>1. CASE m.chunk = Chunks - 1
      <4>1. pack = PackOf(m.life)
        BY <1>3, <2>4, <3>1 DEF PackOf, Packs
      <4>2. character' = [character EXCEPT ![p][q] = pack]
        BY <2>2, <3>1 DEF UnPack
      <4>3. character'[p][q] = pack
        <5> HIDE DEF pack
        <5> QED BY <1>1, <4>2 DEF Programs
      <4> QED BY <1>1, <4>1, <4>3
    <3>2. CASE m.chunk # Chunks - 1
      BY <2>2, <3>2
    <3> QED BY <3>1, <3>2
  <2> HIDE DEF q, pack, ignored
  <2> QED BY <2>3, <2>5, <2>6, <2>7 DEF q
<1> QED BY <1>4, <1>5

\* What p has learned from a message of q, and what it has sent.
Learned(p, q, boxes) ==
    /\ Programs' /\ ActiveKnown'
    /\ \A r \in Slots : r # p => /\ offset'[r] = offset[r] /\ packed'[r] = packed[r]
                                 /\ plractive'[r] = plractive[r] /\ character'[r] = character[r]
    /\ plractive'[p] \subseteq plractive[p] \cup {q}
    /\ \A r \in Slots : r # q => /\ offset'[p][r] = offset[p][r] /\ packed'[p][r] = packed[p][r]
                                 /\ character'[p][r] = character[p][r]
    /\ q = p => character'[p][p] = character[p][p]
    /\ \E messages : Sendable(messages, p) /\ Sends(p, messages, boxes)

LEMMA ParsePrograms ==
    ASSUME Programs, ActiveKnown, Ups(up), NEW boxes, Boxes(boxes),
           NEW p \in Slots, life[p] \in Lives, NEW m \in MessagesType, ParseCmd(p, m, boxes)
    PROVE  Learned(p, m.src, boxes)
<1>1. CASE m.type \in InfoCommands
  <2>1. RecvPlrInfo(p, m, boxes)
    BY <1>1 DEF ParseCmd
  <2> QED BY <2>1, RecvPrograms DEF Learned
<1>2. CASE m.type \notin InfoCommands
  <2>1. /\ UNCHANGED plractive \/ OnPlayerJoinLevel(p, m.src)
        /\ inbox' = boxes /\ UNCHANGED <<up, offset, packed, character>>
    BY <1>2 DEF ParseCmd
  <2>2. \E messages : Sendable(messages, p) /\ Sends(p, messages, boxes)
    BY <2>1, NothingSendable, SendsNothing
  <2>3. m.src \in Slots
    BY DEF MessagesType
  <2>4. CASE UNCHANGED plractive
    <3>1. Programs' /\ ActiveKnown'
      BY <2>1, <2>4 DEF Programs, ActiveKnown, IsValid
    <3> QED BY <2>1, <2>2, <2>4, <3>1 DEF Learned
  <2>5. CASE OnPlayerJoinLevel(p, m.src)
    <3>1. /\ Programs' /\ ActiveKnown'
          /\ \A r \in Slots : r # p => plractive'[r] = plractive[r]
          /\ plractive'[p] \subseteq plractive[p] \cup {m.src}
      BY <2>1, <2>3, <2>5, JoinLevelPrograms
    <3> QED BY <2>1, <2>2, <3>1 DEF Learned
  <2> QED BY <2>1, <2>4, <2>5
<1> QED BY <1>1, <1>2

--------------------------------------------------------------------------------
(* Types are kept.                                                             *)

\* The invariant so far.
TKInv == TInv /\ ActiveKnown

LEMMA TKInvInit == Init => TKInv
<1> SUFFICES ASSUME Init PROVE TKInv
  OBVIOUS
<1>1. Members \subseteq Slots /\ Host \in Members /\ 1 \in Lives /\ Lives \subseteq 0 .. MaxLives
      /\ 0 \in 0 .. Chunks - 1 /\ 0 \in 0 .. MaxLives /\ 0 \in Nat
  BY Constants
<1>2. Blank \in Packs /\ PackOf(1) \in Packs /\ PackOf(1) # Blank
  BY <1>1, PackTypes
<1>3. \A S : <<>> \in Seq(S)
  OBVIOUS
<1>4. Ups(up) /\ Boxes(inbox) /\ Buffers(buffer)
  BY <1>3, Zenon DEF Init, Ups, Boxes, Buffers
<1>5. KnownAtFirst \in [Slots -> Packs] /\ Nobody \in [Slots -> Packs]
      /\ \A q \in Members : KnownAtFirst[q] # Blank
  BY <1>1, <1>2 DEF KnownAtFirst, Nobody
<1>6. Programs
  <2>1. offset \in [Slots -> [Slots -> 0 .. Chunks - 1]] /\ plractive \in [Slots -> SUBSET Slots]
    BY <1>1 DEF Init
  <2>2. packed \in [Slots -> [Slots -> Packs]] /\ character \in [Slots -> [Slots -> Packs]]
    BY <1>5, Zenon DEF Init
  <2> QED BY <2>1, <2>2 DEF Programs
<1>7. Typed
  <2>1. phase \in [Slots -> Phases]
    BY DEF Init, Phases
  <2>2. life \in [Slots -> 0 .. MaxLives] /\ connections \in SUBSET Slots
        /\ playerLeft \in [Slots -> SUBSET Slots] /\ early \in SUBSET Slots
        /\ commands \in Nat /\ faults \in Nat
    BY <1>1 DEF Init
  <2> QED BY <1>4, <1>6, <2>1, <2>2 DEF Typed
<1>8. \A p \in Slots : Standing(p)
  <2> SUFFICES ASSUME NEW p \in Slots PROVE Standing(p)
    OBVIOUS
  <2>1. up[p] = <<>> /\ buffer[p] = <<>> /\ up[p] \in Seq(MessagesType)
    BY <1>3 DEF Init
  <2>2. phase[p] # "out" => p \in connections /\ life[p] \in Lives
    BY <1>1 DEF Init
  <2>3. phase[p] = "out" => offset[p] = [q \in Slots |-> 0] /\ plractive[p] = {} /\ playerLeft[p] = {}
    BY DEF Init
  <2> QED BY <2>1, <2>2, <2>3 DEF Standing
<1>9. phase[Host] # "out" /\ up[Host] = <<>>
  BY <1>1 DEF Init
<1>10. ActiveKnown
  BY <1>1, <1>5 DEF Init, ActiveKnown, IsValid
<1> QED BY <1>7, <1>8, <1>9, <1>10 DEF TKInv, TInv

\* The slot of r is as it was.
Untouched(r) ==
    /\ phase'[r] = phase[r] /\ life'[r] = life[r] /\ (r \in connections' <=> r \in connections)
    /\ up'[r] = up[r] /\ buffer'[r] = buffer[r] /\ offset'[r] = offset[r]
    /\ plractive'[r] = plractive[r] /\ playerLeft'[r] = playerLeft[r]

LEMMA OneStands ==
    ASSUME TInv, NEW p \in Slots, \A r \in Slots : r # p => Untouched(r), Typed', Standing(p)',
           p = Host => phase'[p] # "out" /\ up'[p] = <<>>
    PROVE  TInv'
<1>1. ASSUME NEW r \in Slots, r # p PROVE Standing(r)'
  BY <1>1 DEF TInv, Untouched, Standing
<1>2. phase'[Host] # "out" /\ up'[Host] = <<>>
  BY Constants DEF TInv, Untouched
<1> QED BY <1>1, <1>2 DEF TInv

\* Phase and queues of p change, nothing else of what it knows.
LEMMA SendStep ==
    ASSUME TKInv, NEW p \in Slots, NEW ph \in Phases, ph # "out", phase[p] # "out",
           NEW boxes, Boxes(boxes), NEW messages, Sendable(messages, p), Sends(p, messages, boxes),
           phase' = [phase EXCEPT ![p] = ph], UNCHANGED <<life, connections, playerLeft>>,
           Buffers(buffer)', Programs', ActiveKnown', early' \in SUBSET Slots,
           commands' \in Nat, faults' \in Nat,
           \A r \in Slots : r # p => /\ buffer'[r] = buffer[r] /\ offset'[r] = offset[r]
                                     /\ plractive'[r] = plractive[r],
           ph \notin {"resync", "load", "replay"} => buffer'[p] = <<>>
    PROVE  TKInv'
<1>1. Typed /\ Ups(up)
  BY DEF TKInv, TInv, Typed
<1>2. /\ Ups(up)' /\ Boxes(inbox)'
      /\ \A q \in Slots : \/ up'[q] = up[q]
                          \/ q = p /\ q # Host /\ q \in connections
      /\ \A q \in Slots : up[q] \in Seq(MessagesType) => up'[q] \in Seq(MessagesType)
  BY <1>1, SendsTypes
<1>3. phase' \in [Slots -> Phases] /\ phase'[p] = ph /\ \A r \in Slots : r # p => phase'[r] = phase[r]
  BY <1>1 DEF Typed
<1>4. Typed'
  BY <1>1, <1>2, <1>3 DEF Typed
<1>5. Standing(p)'
  <2>1. p \in connections /\ life[p] \in Lives /\ up[p] \in Seq(MessagesType)
    BY DEF TKInv, TInv, Standing
  <2> QED BY <1>2, <1>3, <2>1 DEF Standing
<1>6. \A r \in Slots : r # p => Untouched(r)
  BY <1>2, <1>3 DEF Untouched
<1>7. p = Host => phase'[p] # "out" /\ up'[p] = <<>>
  BY <1>2, <1>3 DEF TKInv, TInv
<1>8. TInv'
  BY <1>4, <1>5, <1>6, <1>7, OneStands DEF TKInv
<1> QED BY <1>8 DEF TKInv

LEMMA NetInitTypes ==
    ASSUME TKInv, NEW p \in Slots, NetInit(p)
    PROVE  TKInv' /\ Sendable(Info("CMD_SEND_PLRINFO", p, SNPLAYER_OTHERS), p)
<1>1. /\ phase[p] = "joined"
      /\ phase' = [phase EXCEPT ![p] = "resync"]
      /\ character' = [character EXCEPT ![p][p] = PackOf(life[p])]
      /\ plractive' = [plractive EXCEPT ![p] = {p}]
      /\ Sends(p, Info("CMD_SEND_PLRINFO", p, SNPLAYER_OTHERS), inbox)
      /\ UNCHANGED <<life, connections, buffer, offset, packed, playerLeft, early, commands, faults>>
  BY DEF NetInit, leaveVars
<1>2. Typed /\ Boxes(inbox) /\ Programs /\ life[p] \in Lives /\ ActiveKnown
  BY <1>1 DEF TKInv, TInv, Typed, Standing
<1>3. PackOf(life[p]) \in Packs /\ PackOf(life[p]) # Blank
  BY <1>2, PackTypes
<1>4. Programs'
  BY <1>1, <1>2, <1>3 DEF Programs
<1>5. ActiveKnown'
  <2>1. \A r \in Slots : r # p => plractive'[r] = plractive[r] /\ character'[r] = character[r]
    BY <1>1, <1>2 DEF Programs
  <2>2. plractive'[p] = {p} /\ character'[p][p] = PackOf(life[p])
    BY <1>1, <1>2 DEF Programs
  <2> QED BY <1>2, <1>3, <2>1, <2>2 DEF ActiveKnown, IsValid
<1>6. Sendable(Info("CMD_SEND_PLRINFO", p, SNPLAYER_OTHERS), p)
  <2>1. "CMD_SEND_PLRINFO" \in InfoCommands
    BY DEF InfoCommands
  <2> QED BY <1>2, <2>1, InfoSendable
<1>7. "resync" \in Phases
  BY DEF Phases
<1>8. Buffers(buffer)' /\ early' \in SUBSET Slots /\ commands' \in Nat /\ faults' \in Nat
  BY <1>1, <1>2 DEF Typed, Buffers
<1>9. \A r \in Slots : r # p => buffer'[r] = buffer[r] /\ offset'[r] = offset[r]
                                /\ plractive'[r] = plractive[r]
  BY <1>1, <1>2 DEF Programs
<1> QED BY <1>1, <1>2, <1>4, <1>5, <1>6, <1>7, <1>8, <1>9, SendStep

LEMMA JoinLevelTypes ==
    ASSUME TKInv, NEW p \in Slots, EnterGame(p) \/ ChangeLevel(p)
    PROVE  TKInv' /\ Sendable(JoinLevel(p), p)
<1>1. /\ phase[p] # "out"
      /\ Sends(p, JoinLevel(p), inbox)
      /\ UNCHANGED <<life, connections, buffer, offset, packed, character, plractive, playerLeft,
                     early>>
  BY DEF EnterGame, ChangeLevel, Plays, programVars, leaveVars
<1>2. Typed /\ Boxes(inbox) /\ Programs /\ life[p] \in Lives /\ ActiveKnown
  BY <1>1 DEF TKInv, TInv, Typed, Standing
<1>3. Sendable(JoinLevel(p), p)
  BY <1>2, JoinLevelSendable
<1>4. \E ph \in Phases : /\ ph # "out" /\ phase' = [phase EXCEPT ![p] = ph]
                         /\ ph \notin {"resync", "load", "replay"} => buffer[p] = <<>>
  <2>1. CASE EnterGame(p)
    BY <2>1, Zenon DEF EnterGame, Phases
  <2>2. CASE ChangeLevel(p)
    <3>1. phase' = phase /\ Plays(p)
      BY <2>2 DEF ChangeLevel
    <3>2. phase' = [phase EXCEPT ![p] = phase[p]] /\ phase[p] \in Phases
      BY <1>2, <3>1 DEF Typed
    <3>3. phase[p] \notin {"resync", "load", "replay", "out"}
      BY <3>1 DEF Plays
    <3>4. buffer[p] = <<>>
      BY <3>3 DEF TKInv, TInv, Standing
    <3> QED BY <1>1, <3>2, <3>4
  <2> QED BY <2>1, <2>2
<1>5. Programs' /\ ActiveKnown'
  BY <1>1, <1>2 DEF Programs, ActiveKnown, IsValid
<1>6. Buffers(buffer)' /\ early' \in SUBSET Slots
  BY <1>1, <1>2 DEF Typed, Buffers
<1>7. commands' \in Nat /\ faults' \in Nat
  BY <1>2 DEF EnterGame, ChangeLevel, Disturbs, Typed
<1> QED BY <1>1, <1>2, <1>3, <1>4, <1>5, <1>6, <1>7, SendStep

\* Only what p has buffered and knows changes, and its phase.
LEMMA LocalStep ==
    ASSUME TKInv, NEW p \in Slots, NEW ph \in Phases, ph # "out", phase[p] # "out",
           phase' = [phase EXCEPT ![p] = ph], UNCHANGED <<life, connections, up, commands, faults>>,
           Boxes(inbox)', Buffers(buffer)', Programs', ActiveKnown',
           playerLeft' \in [Slots -> SUBSET Slots], early' \in SUBSET Slots,
           \A r \in Slots : r # p => /\ buffer'[r] = buffer[r] /\ offset'[r] = offset[r]
                                     /\ plractive'[r] = plractive[r]
                                     /\ playerLeft'[r] = playerLeft[r],
           ph \notin {"resync", "load", "replay"} => buffer'[p] = <<>>
    PROVE  TKInv'
<1>1. Typed
  BY DEF TKInv, TInv
<1>2. Ups(up)'
  BY <1>1 DEF Typed, Ups
<1>3. phase' \in [Slots -> Phases] /\ phase'[p] = ph /\ \A r \in Slots : r # p => phase'[r] = phase[r]
  BY <1>1 DEF Typed
<1>4. Typed'
  BY <1>1, <1>2, <1>3 DEF Typed
<1>5. Standing(p)'
  <2>1. p \in connections /\ life[p] \in Lives /\ up[p] \in Seq(MessagesType)
    BY DEF TKInv, TInv, Standing
  <2> QED BY <1>3, <2>1 DEF Standing
<1>6. \A r \in Slots : r # p => Untouched(r)
  BY <1>3 DEF Untouched
<1>7. p = Host => phase'[p] # "out" /\ up'[p] = <<>>
  BY <1>3 DEF TKInv, TInv
<1>8. TInv'
  BY <1>4, <1>5, <1>6, <1>7, OneStands DEF TKInv
<1> QED BY <1>8 DEF TKInv

\* The first message of an inbox.
LEMMA InboxHead ==
    ASSUME TInv, NEW p \in Slots, inbox[p] # <<>>
    PROVE  /\ Head(inbox[p]) \in To(p)
           /\ Boxes([inbox EXCEPT ![p] = Tail(@)])
           /\ ~ IsDisconnect(Head(inbox[p])) => Head(inbox[p]) \in MessagesTo(p)
           /\ inbox[p] = <<Head(inbox[p])>> \o Tail(inbox[p])
           /\ Tail(inbox[p]) \in Seq(Packets)
<1>1. inbox \in [Slots -> Seq(Packets)] /\ \A q \in Slots : inbox[q] \in Seq(To(q))
  BY DEF TInv, Typed, Boxes
<1>2. /\ Head(inbox[p]) \in To(p) /\ Tail(inbox[p]) \in Seq(To(p)) /\ Tail(inbox[p]) \in Seq(Packets)
      /\ inbox[p] = <<Head(inbox[p])>> \o Tail(inbox[p])
  BY <1>1, TypeParts
<1>3. Boxes([inbox EXCEPT ![p] = Tail(@)])
  <2> DEFINE boxes == [inbox EXCEPT ![p] = Tail(inbox[p])]
  <2>1. boxes \in [Slots -> Seq(Packets)]
    BY <1>1, <1>2
  <2>2. \A q \in Slots : boxes[q] = IF q = p THEN Tail(inbox[p]) ELSE inbox[q]
    BY <1>1
  <2> HIDE DEF boxes
  <2>3. Boxes(boxes)
    BY <1>1, <1>2, <2>1, <2>2 DEF Boxes
  <2> QED BY <2>3 DEF boxes
<1>4. ~ IsDisconnect(Head(inbox[p])) => Head(inbox[p]) \in MessagesTo(p)
  BY <1>2, PacketTypes
<1> QED BY <1>2, <1>3, <1>4

LEMMA BufferTypes ==
    ASSUME Buffers(buffer), NEW p \in Slots, NEW s \in Seq(Buffered(p)),
           buffer' = [buffer EXCEPT ![p] = s]
    PROVE  /\ Buffers(buffer)' /\ buffer'[p] = s
           /\ \A r \in Slots : r # p => buffer'[r] = buffer[r]
<1> DEFINE S == MessagesType \cup EventsType({"FAKE_CMD_DROPID"})
<1>1. Buffered(p) \subseteq S
  BY DEF Buffered, MessagesTo
<1>2. s \in Seq(S)
  BY <1>1, SeqMonotonicHere, Zenon
<1>3. /\ buffer' \in [Slots -> Seq(S)] /\ buffer'[p] = s
      /\ \A r \in Slots : r # p => buffer'[r] = buffer[r]
  BY <1>2 DEF Buffers
<1>4. Buffers(buffer)'
  BY <1>3 DEF Buffers
<1> QED BY <1>3, <1>4

LEMMA BufferHead ==
    ASSUME TInv, NEW p \in Slots, buffer[p] # <<>>
    PROVE  /\ Head(buffer[p]) \in Buffered(p) /\ Tail(buffer[p]) \in Seq(Buffered(p))
           /\ buffer[p] = <<Head(buffer[p])>> \o Tail(buffer[p])
           /\ Head(buffer[p]).type # "FAKE_CMD_DROPID" => Head(buffer[p]) \in MessagesTo(p)
<1>1. buffer[p] \in Seq(Buffered(p))
  BY DEF TInv, Typed, Buffers
<1>2. /\ Head(buffer[p]) \in Buffered(p) /\ Tail(buffer[p]) \in Seq(Buffered(p))
      /\ buffer[p] = <<Head(buffer[p])>> \o Tail(buffer[p])
  BY <1>1, TypeParts
<1>3. \A m \in Buffered(p) : m.type # "FAKE_CMD_DROPID" => m \in MessagesTo(p)
  BY DEF Buffered, EventsType
<1> QED BY <1>2, <1>3

LEMMA BufferMessageTypes ==
    ASSUME TKInv, NEW p \in Slots, BufferMessage(p)
    PROVE  TKInv'
<1>1. /\ phase[p] = "resync" /\ inbox[p] # <<>> /\ ~ IsDisconnect(Head(inbox[p]))
      /\ buffer' = [buffer EXCEPT ![p] = Append(buffer[p], Head(inbox[p]))]
      /\ inbox' = [inbox EXCEPT ![p] = Tail(@)]
      /\ UNCHANGED <<phase, life, connections, up, offset, packed, character, plractive,
                     playerLeft, early, commands, faults>>
  BY DEF BufferMessage, leaveVars
<1>2. Typed /\ Programs /\ Buffers(buffer) /\ ActiveKnown /\ TInv
  BY DEF TKInv, TInv, Typed
<1>3. Head(inbox[p]) \in Buffered(p) /\ Boxes(inbox)'
  <2>1. Head(inbox[p]) \in MessagesTo(p) /\ Boxes([inbox EXCEPT ![p] = Tail(@)])
    BY <1>1, <1>2, InboxHead
  <2>2. Boxes(inbox')
    BY <1>1, <2>1, Zenon
  <2> QED BY <2>1, <2>2 DEF Buffered, Boxes
<1>4. Append(buffer[p], Head(inbox[p])) \in Seq(Buffered(p))
  BY <1>2, <1>3, TypeParts DEF Buffers
<1>5. Buffers(buffer)' /\ \A r \in Slots : r # p => buffer'[r] = buffer[r]
  BY <1>1, <1>2, <1>4, BufferTypes
<1>6. Programs' /\ ActiveKnown'
  BY <1>1, <1>2 DEF Programs, ActiveKnown, IsValid
<1>7. phase' = [phase EXCEPT ![p] = "resync"] /\ "resync" \in Phases
  BY <1>1, <1>2 DEF Typed, Phases
<1>8. playerLeft' \in [Slots -> SUBSET Slots] /\ early' \in SUBSET Slots
  BY <1>1, <1>2 DEF Typed
<1> QED BY <1>1, <1>3, <1>5, <1>6, <1>7, <1>8, LocalStep

\* The leaves that BufferDrops buffers.
Drops(players) == [i \in 1 .. Len(Ascending(players)) |-> Event("FAKE_CMD_DROPID", Ascending(players)[i])]

LEMMA AscendingType ==
    ASSUME NEW players
    PROVE  Ascending(players) \in Seq(Slots) /\ Drops(players) \in Seq(EventsType({"FAKE_CMD_DROPID"}))
<1> DEFINE all == [i \in 1 .. N |-> i - 1]
<1>1. all \in Seq(Slots)
  BY Constants DEF Slots
<1>2. Ascending(players) \in Seq(Slots)
  <2> HIDE DEF all
  <2>1. Among(all, players) \in Seq(Slots)
    BY <1>1, AmongType
  <2> QED BY <2>1 DEF Ascending, all
<1> DEFINE s == Ascending(players)
<1>3. s \in Seq(Slots)
  BY <1>2
<1> HIDE DEF s
<1>4. \A i \in 1 .. Len(s) : Event("FAKE_CMD_DROPID", s[i]) \in EventsType({"FAKE_CMD_DROPID"})
  BY <1>3 DEF Event, EventsType
<1>5. [i \in 1 .. Len(s) |-> Event("FAKE_CMD_DROPID", s[i])] \in Seq(EventsType({"FAKE_CMD_DROPID"}))
  BY <1>3, <1>4
<1> QED BY <1>2, <1>5 DEF Drops, s

LEMMA BufferDropsTypes ==
    ASSUME TKInv, NEW p \in Slots, BufferDrops(p)
    PROVE  TKInv'
<1>1. /\ phase[p] = "resync"
      /\ buffer' = [buffer EXCEPT ![p] = buffer[p] \o Drops(playerLeft[p])]
      /\ playerLeft' = [playerLeft EXCEPT ![p] = {}]
      /\ UNCHANGED <<phase, life, connections, up, inbox, offset, packed, character, plractive,
                     early, commands, faults>>
  BY DEF BufferDrops, netVars, Drops
<1>2. Typed /\ Programs /\ Buffers(buffer) /\ ActiveKnown /\ TInv
  BY DEF TKInv, TInv, Typed
<1>3. EventsType({"FAKE_CMD_DROPID"}) \subseteq Buffered(p)
  BY DEF Buffered
<1>4. Drops(playerLeft[p]) \in Seq(Buffered(p))
  BY <1>3, AscendingType, SeqMonotonicHere
<1>5. buffer[p] \o Drops(playerLeft[p]) \in Seq(Buffered(p))
  BY <1>2, <1>4, TypeParts DEF Buffers
<1>6. Buffers(buffer)' /\ \A r \in Slots : r # p => buffer'[r] = buffer[r]
  BY <1>1, <1>2, <1>5, BufferTypes
<1>7. Programs' /\ ActiveKnown' /\ Boxes(inbox)'
  BY <1>1, <1>2 DEF Programs, ActiveKnown, IsValid, Boxes, Typed
<1>8. phase' = [phase EXCEPT ![p] = "resync"] /\ "resync" \in Phases
  BY <1>1, <1>2 DEF Typed, Phases
<1>9. playerLeft' \in [Slots -> SUBSET Slots] /\ early' \in SUBSET Slots
      /\ \A r \in Slots : r # p => playerLeft'[r] = playerLeft[r]
  BY <1>1, <1>2 DEF Typed
<1> QED BY <1>1, <1>6, <1>7, <1>8, <1>9, LocalStep

LEMMA PhaseTypes ==
    ASSUME TKInv, NEW p \in Slots, ResyncEnds(p) \/ DiscardRest(p) \/ ReplayEnds(p)
    PROVE  TKInv'
<1>1. /\ phase[p] \in {"resync", "replay"}
      /\ \E ph \in {"load", "cut", "play"} :
             /\ phase' = [phase EXCEPT ![p] = ph]
             /\ IF ph = "load" THEN UNCHANGED buffer ELSE buffer' = [buffer EXCEPT ![p] = <<>>]
      /\ UNCHANGED <<life, connections, up, inbox, offset, packed, character, plractive,
                     playerLeft, early, commands, faults>>
  BY Zenon DEF ResyncEnds, DiscardRest, ReplayEnds, EndReplay, netVars, programVars, leaveVars
<1>2. Typed /\ Programs /\ Buffers(buffer) /\ ActiveKnown /\ TInv
  BY DEF TKInv, TInv, Typed
<1>3. Programs' /\ ActiveKnown' /\ Boxes(inbox)'
  BY <1>1, <1>2 DEF Programs, ActiveKnown, IsValid, Boxes, Typed
<1>4. PICK ph \in {"load", "cut", "play"} :
             /\ phase' = [phase EXCEPT ![p] = ph]
             /\ IF ph = "load" THEN UNCHANGED buffer ELSE buffer' = [buffer EXCEPT ![p] = <<>>]
  BY <1>1
<1>5. /\ Buffers(buffer)' /\ \A r \in Slots : r # p => buffer'[r] = buffer[r]
      /\ ph \notin {"resync", "load", "replay"} => buffer'[p] = <<>>
  <2>1. CASE ph = "load"
    BY <1>2, <1>4, <2>1 DEF Buffers
  <2>2. CASE ph # "load"
    <3>1. <<>> \in Seq(Buffered(p))
      OBVIOUS
    <3> QED BY <1>2, <1>4, <2>2, <3>1, BufferTypes
  <2> QED BY <2>1, <2>2
<1>6. ph \in Phases /\ ph # "out" /\ phase[p] # "out"
  BY <1>1 DEF Phases
<1>7. playerLeft' \in [Slots -> SUBSET Slots] /\ early' \in SUBSET Slots
  BY <1>1, <1>2 DEF Typed
<1> QED BY <1>1, <1>3, <1>4, <1>5, <1>6, <1>7, LocalStep

LEMMA LeavesTypes ==
    ASSUME TKInv, NEW p \in Slots, ReplayDrop(p) \/ ClearPlayerLeft(p)
    PROVE  TKInv'
<1>1. /\ phase[p] \in {"replay", "play", "cut"}
      /\ \E players : PlayerLeftMsg(p, players)
      /\ playerLeft' = [playerLeft EXCEPT ![p] = {}]
      /\ UNCHANGED <<phase, life, connections, up, inbox, offset, packed, commands, faults>>
  BY DEF ReplayDrop, ClearPlayerLeft, Plays, netVars
<1>2. Typed /\ Programs /\ Buffers(buffer) /\ ActiveKnown /\ TInv
  BY DEF TKInv, TInv, Typed
<1>3. /\ Programs' /\ ActiveKnown'
      /\ \A q \in Slots : q # p => plractive'[q] = plractive[q]
  BY <1>1, <1>2, LeftPrograms
<1>4. /\ Buffers(buffer)' /\ \A r \in Slots : r # p => buffer'[r] = buffer[r]
      /\ phase[p] # "replay" => buffer'[p] = <<>>
  <2>1. CASE ReplayDrop(p)
    <3>1. /\ buffer[p] # <<>> /\ phase[p] = "replay"
          /\ buffer' = [buffer EXCEPT ![p] = Tail(buffer[p])]
      BY <2>1 DEF ReplayDrop
    <3>2. Tail(buffer[p]) \in Seq(Buffered(p))
      BY <1>2, <3>1, BufferHead
    <3> QED BY <1>2, <3>1, <3>2, BufferTypes
  <2>2. CASE ClearPlayerLeft(p)
    <3>1. UNCHANGED buffer /\ phase[p] \in {"play", "cut"}
      BY <2>2 DEF ClearPlayerLeft, Plays
    <3>2. buffer[p] = <<>>
      BY <1>2, <3>1 DEF TInv, Standing
    <3> QED BY <1>2, <3>1, <3>2 DEF Buffers
  <2> QED BY <2>1, <2>2
<1>5. phase' = [phase EXCEPT ![p] = phase[p]] /\ phase[p] \in Phases /\ phase[p] # "out"
  BY <1>1, <1>2 DEF Typed
<1>6. playerLeft' \in [Slots -> SUBSET Slots] /\ \A r \in Slots : r # p => playerLeft'[r] = playerLeft[r]
  BY <1>1, <1>2 DEF Typed
<1>7. early' \in SUBSET Slots
  BY <1>2 DEF ReplayDrop, ClearPlayerLeft, Typed
<1>8. \A r \in Slots : offset'[r] = offset[r]
  BY <1>1
<1>9. Boxes(inbox)'
  BY <1>1, <1>2 DEF Boxes, Typed
<1>10. phase[p] \notin {"resync", "load", "replay"} => buffer'[p] = <<>>
  BY <1>1, <1>4
<1> QED BY <1>1, <1>3, <1>4, <1>5, <1>6, <1>7, <1>8, <1>9, <1>10, LocalStep

\* A message that p reads, from its buffer or its inbox.
Reads(p, m, boxes) ==
    \/ /\ ReplayMessage(p) /\ m = Head(buffer[p]) /\ boxes = inbox
    \/ /\ HandleMessage(p) /\ m = Head(inbox[p]) /\ boxes = [inbox EXCEPT ![p] = Tail(@)]

LEMMA ReadsTypes ==
    ASSUME TKInv, NEW p \in Slots, NEW m, NEW boxes, Reads(p, m, boxes)
    PROVE  /\ TKInv' /\ m \in MessagesTo(p) /\ m \in MessagesType /\ Boxes(boxes)
           /\ Learned(p, m.src, boxes)
           /\ UNCHANGED <<phase, life, connections, playerLeft, early>>
           /\ phase[p] \in {"replay", "play", "cut"} /\ life[p] \in Lives
<1>1. Typed /\ Programs /\ Buffers(buffer) /\ ActiveKnown /\ TInv /\ Ups(up) /\ Boxes(inbox)
  BY DEF TKInv, TInv, Typed
<1>2. /\ phase[p] \in {"replay", "play", "cut"}
      /\ UNCHANGED <<phase, life, connections, playerLeft, early, commands, faults>>
  BY DEF Reads, ReplayMessage, HandleMessage, Plays, leaveVars
<1>3. life[p] \in Lives
  BY <1>1, <1>2 DEF TInv, Standing
<1>4. m \in MessagesTo(p) /\ Boxes(boxes)
  <2>1. CASE ReplayMessage(p) /\ m = Head(buffer[p]) /\ boxes = inbox
    <3>1. buffer[p] # <<>> /\ Head(buffer[p]).type # "FAKE_CMD_DROPID"
      BY <2>1 DEF ReplayMessage
    <3> QED BY <1>1, <2>1, <3>1, BufferHead
  <2>2. CASE HandleMessage(p) /\ m = Head(inbox[p]) /\ boxes = [inbox EXCEPT ![p] = Tail(@)]
    <3>1. inbox[p] # <<>> /\ ~ IsDisconnect(Head(inbox[p]))
      BY <2>2 DEF HandleMessage
    <3> QED BY <1>1, <2>2, <3>1, InboxHead
  <2> QED BY <2>1, <2>2 DEF Reads
<1>5. m \in MessagesType
  BY <1>4 DEF MessagesTo
<1>6. Learned(p, m.src, boxes)
  <2>1. \/ ParseCmd(p, m, boxes)
        \/ inbox' = boxes /\ UNCHANGED <<up, offset, packed, character, plractive>>
    BY DEF Reads, ReplayMessage, HandleMessage
  <2>2. CASE ParseCmd(p, m, boxes)
    BY <1>1, <1>3, <1>4, <1>5, <2>2, ParsePrograms
  <2>3. CASE inbox' = boxes /\ UNCHANGED <<up, offset, packed, character, plractive>>
    <3>1. Sendable(<<>>, p) /\ Sends(p, <<>>, boxes)
      BY <1>1, <1>4, <2>3, NothingSendable, SendsNothing
    <3>2. Programs' /\ ActiveKnown'
      BY <1>1, <2>3 DEF Programs, ActiveKnown, IsValid
    <3> QED BY <2>3, <3>1, <3>2, Zenon DEF Learned
  <2> QED BY <2>1, <2>2, <2>3
<1>7. /\ Buffers(buffer)' /\ \A r \in Slots : r # p => buffer'[r] = buffer[r]
      /\ phase[p] # "replay" => buffer'[p] = <<>>
  <2>1. CASE ReplayMessage(p)
    <3>1. /\ buffer[p] # <<>> /\ phase[p] = "replay"
          /\ buffer' = [buffer EXCEPT ![p] = Tail(buffer[p])]
      BY <2>1 DEF ReplayMessage
    <3>2. Tail(buffer[p]) \in Seq(Buffered(p))
      BY <1>1, <3>1, BufferHead
    <3> QED BY <1>1, <3>1, <3>2, BufferTypes
  <2>2. CASE HandleMessage(p)
    <3>1. UNCHANGED buffer /\ phase[p] \in {"play", "cut"}
      BY <2>2 DEF HandleMessage, Plays
    <3>2. buffer[p] = <<>>
      BY <1>1, <3>1 DEF TInv, Standing
    <3> QED BY <1>1, <3>1, <3>2 DEF Buffers
  <2> QED BY <2>1, <2>2 DEF Reads
<1>8. TKInv'
  <2>1. PICK messages : Sendable(messages, p) /\ Sends(p, messages, boxes)
    BY <1>6 DEF Learned
  <2>2. /\ Programs' /\ ActiveKnown'
        /\ \A r \in Slots : r # p => offset'[r] = offset[r] /\ plractive'[r] = plractive[r]
    BY <1>6 DEF Learned
  <2>3. phase' = [phase EXCEPT ![p] = phase[p]] /\ phase[p] \in Phases /\ phase[p] # "out"
    BY <1>1, <1>2 DEF Typed
  <2>4. early' \in SUBSET Slots /\ commands' \in Nat /\ faults' \in Nat
    BY <1>1, <1>2 DEF Typed
  <2>5. phase[p] \notin {"resync", "load", "replay"} => buffer'[p] = <<>>
    BY <1>2, <1>7
  <2> QED BY <1>2, <1>4, <1>7, <2>1, <2>2, <2>3, <2>4, <2>5, SendStep
<1> QED BY <1>2, <1>3, <1>4, <1>5, <1>6, <1>8

LEMMA JoinTypes ==
    ASSUME TKInv, NEW p \in Slots, Join(p)
    PROVE  TKInv'
<1>1. /\ phase[p] = "out" /\ p \notin connections /\ life[p] < MaxLives
      /\ phase' = [phase EXCEPT ![p] = "joined"]
      /\ life' = [life EXCEPT ![p] = @ + 1]
      /\ connections' = connections \cup {p}
      /\ inbox' = [inbox EXCEPT ![p] = <<>>]
      /\ faults' \in {faults, faults + 1}
      /\ UNCHANGED <<up, buffer, offset, packed, character, plractive, playerLeft, early, commands>>
  BY DEF Join, Disturbs, programVars, leaveVars
<1>2. Typed /\ Programs /\ Buffers(buffer) /\ ActiveKnown /\ TInv /\ Ups(up) /\ Boxes(inbox)
  BY DEF TKInv, TInv, Typed
<1>3. /\ phase' \in [Slots -> Phases] /\ phase'[p] = "joined"
      /\ life' \in [Slots -> 0 .. MaxLives] /\ life'[p] \in Lives
      /\ \A r \in Slots : r # p => phase'[r] = phase[r] /\ life'[r] = life[r]
  BY <1>1, <1>2, Constants DEF Typed, Phases, Lives
<1>4. Programs' /\ ActiveKnown' /\ Ups(up)' /\ Buffers(buffer)'
  BY <1>1, <1>2 DEF Programs, ActiveKnown, IsValid, Ups, Buffers
<1>5. Boxes(inbox)'
  <2>1. <<>> \in Seq(Packets) /\ <<>> \in Seq(To(p))
    OBVIOUS
  <2> QED BY <1>1, <1>2, <2>1 DEF Boxes
<1>6. Typed'
  BY <1>1, <1>2, <1>3, <1>4, <1>5 DEF Typed
<1>7. Standing(p)'
  <2>1. up[p] = <<>> /\ buffer[p] = <<>>
    BY <1>1, <1>2 DEF TInv, Standing
  <2>2. <<>> \in Seq(MessagesType)
    OBVIOUS
  <2> QED BY <1>1, <1>3, <2>1, <2>2 DEF Standing
<1>8. \A r \in Slots : r # p => Untouched(r)
  BY <1>1, <1>3 DEF Untouched
<1>9. p # Host
  BY <1>1, <1>2 DEF TInv
<1>10. TInv'
  BY <1>2, <1>6, <1>7, <1>8, <1>9, OneStands
<1> QED BY <1>4, <1>10 DEF TKInv

\* What ends with a program.
LEMMA EndedTypes ==
    ASSUME TKInv, NEW p \in Slots, p # Host, phase[p] # "out", Ended(p), UNCHANGED <<life, commands>>,
           connections' \in {connections, connections \ {p}}, Boxes(inbox)', Ups(up)',
           \A r \in Slots : r # p => up'[r] = up[r],
           p \notin connections' => up'[p] = <<>>
    PROVE  TKInv'
<1>1. Typed /\ Programs /\ Buffers(buffer) /\ ActiveKnown /\ TInv
  BY DEF TKInv, TInv, Typed
<1>2. Nobody \in [Slots -> Packs] /\ 0 \in 0 .. Chunks - 1
  BY PackTypes, Constants DEF Nobody
<1>3. /\ phase' \in [Slots -> Phases] /\ phase'[p] = "out"
      /\ \A r \in Slots : r # p => phase'[r] = phase[r]
  BY <1>1 DEF Ended, Typed, Phases
<1>4. /\ Programs' /\ offset'[p] = [q \in Slots |-> 0] /\ plractive'[p] = {}
      /\ \A r \in Slots : r # p => /\ offset'[r] = offset[r] /\ plractive'[r] = plractive[r]
                                   /\ character'[r] = character[r]
  BY <1>1, <1>2 DEF Ended, Programs
<1>5. ActiveKnown'
  BY <1>1, <1>4 DEF ActiveKnown, IsValid
<1>6. Buffers(buffer)' /\ buffer'[p] = <<>> /\ \A r \in Slots : r # p => buffer'[r] = buffer[r]
  <2>1. <<>> \in Seq(Buffered(p))
    OBVIOUS
  <2> QED BY <1>1, <2>1, BufferTypes DEF Ended
<1>7. /\ playerLeft' \in [Slots -> SUBSET Slots] /\ playerLeft'[p] = {}
      /\ \A r \in Slots : r # p => playerLeft'[r] = playerLeft[r]
      /\ early' \in SUBSET Slots /\ commands' \in Nat /\ faults' \in Nat
  BY <1>1 DEF Ended, Typed
<1>8. Typed'
  BY <1>1, <1>3, <1>4, <1>6, <1>7 DEF Typed
<1>9. Standing(p)'
  BY <1>3, <1>4, <1>6, <1>7 DEF Standing
<1>10. \A r \in Slots : r # p => Untouched(r)
  BY <1>3, <1>4, <1>6, <1>7 DEF Untouched
<1>11. TInv'
  BY <1>1, <1>8, <1>9, <1>10, OneStands
<1> QED BY <1>5, <1>11 DEF TKInv

\* What is sent when p ends: that it leaves.
LEMMA LeaveTypes ==
    ASSUME TKInv, NEW p \in Slots, Leave(p) \/ Crash(p)
    PROVE  TKInv'
<1> DEFINE left == Event("PT_DISCONNECT", p)
<1>1. Typed /\ Ups(up) /\ Boxes(inbox) /\ TInv
  BY DEF TKInv, TInv, Typed
<1>2. /\ p # Host /\ phase[p] # "out" /\ Ended(p) /\ UNCHANGED <<life, commands>>
      /\ connections' \in {connections, connections \ {p}}
  BY DEF Leave, Crash
<1>3. left \in Packets /\ left \in Of(p)
  BY PacketTypes DEF Of
<1>4. \A q \in Slots : <<>> \in Seq(Packets) /\ <<>> \in Seq(To(q)) /\ <<>> \in Seq(Of(q))
  OBVIOUS
<1>5. Boxes(inbox)'
  <2> DEFINE full == Delivered(inbox, p, <<left>>)
  <2>1. Boxes(full)
    <3>1. <<left>> \in Seq(Packets)
      BY <1>3
    <3> HIDE DEF left
    <3> QED BY <1>1, <3>1, DeliveredTypes
  <2>2. inbox' = [inbox EXCEPT ![p] = <<>>] \/ inbox' = [full EXCEPT ![p] = <<>>]
    BY DEF Leave, Crash
  <2> HIDE DEF full
  <2>3. ASSUME NEW boxes, Boxes(boxes) PROVE Boxes([boxes EXCEPT ![p] = <<>>])
    BY <1>4, <2>3 DEF Boxes
  <2>4. Boxes(inbox')
    BY <1>1, <2>1, <2>2, <2>3, Zenon
  <2> QED BY <2>4 DEF Boxes
<1>6. Ups(up)' /\ \A r \in Slots : r # p => up'[r] = up[r]
  <2>1. \E s \in Seq(Packets) : s \in Seq(Of(p)) /\ up' = [up EXCEPT ![p] = s]
    <3>1. up[p] \in Seq(Packets) /\ up[p] \in Seq(Of(p))
      BY <1>1 DEF Ups
    <3>2. Append(up[p], left) \in Seq(Packets) /\ Append(up[p], left) \in Seq(Of(p))
      <4> HIDE DEF left
      <4> QED BY <1>3, <3>1, TypeParts
    <3> QED BY <1>4, <3>2, Zenon DEF Leave, Crash
  <2> QED BY <1>1, <2>1 DEF Ups
<1>7. p \notin connections' => up'[p] = <<>>
  <2>1. p \in connections
    BY <1>1, <1>2 DEF TInv, Standing
  <2>2. CASE Leave(p)
    BY <2>1, <2>2 DEF Leave
  <2>3. CASE Crash(p)
    BY <1>1, <2>3 DEF Crash, Ups
  <2> QED BY <2>2, <2>3
<1> QED BY <1>2, <1>5, <1>6, <1>7, EndedTypes

LEMMA RelayTypes ==
    ASSUME TKInv, NEW p \in Slots, Relay(p)
    PROVE  TKInv'
<1>1. Typed /\ Ups(up) /\ Boxes(inbox) /\ TInv /\ Programs /\ ActiveKnown
  BY DEF TKInv, TInv, Typed
<1>2. /\ p \in connections /\ up[p] # <<>>
      /\ inbox' = Delivered(inbox, p, <<Head(up[p])>>)
      /\ UNCHANGED <<phase, life, buffer, offset, packed, character, plractive, playerLeft,
                     early, commands, faults>>
      /\ \/ /\ IsDisconnect(Head(up[p])) /\ connections' = connections \ {p}
            /\ up' = [up EXCEPT ![p] = <<>>]
         \/ UNCHANGED connections /\ up' = [up EXCEPT ![p] = Tail(up[p])]
  BY DEF Relay, programVars, leaveVars
<1>3. up[p] \in Seq(Packets) /\ up[p] \in Seq(Of(p))
  BY <1>1 DEF Ups
<1>4. /\ Head(up[p]) \in Packets /\ Tail(up[p]) \in Seq(Packets) /\ Tail(up[p]) \in Seq(Of(p))
      /\ <<>> \in Seq(Packets) /\ <<>> \in Seq(Of(p)) /\ <<Head(up[p])>> \in Seq(Packets)
  BY <1>2, <1>3, TypeParts
<1>5. Boxes(inbox)'
  <2>1. Boxes(Delivered(inbox, p, <<Head(up[p])>>))
    BY <1>1, <1>4, DeliveredTypes
  <2>2. Boxes(inbox')
    BY <1>2, <2>1, Zenon
  <2> QED BY <2>2 DEF Boxes
<1>6. \E s \in Seq(Packets) : s \in Seq(Of(p)) /\ up' = [up EXCEPT ![p] = s]
  BY <1>2, <1>4, Zenon
<1>7. Ups(up)' /\ \A r \in Slots : r # p => up'[r] = up[r]
  BY <1>1, <1>6 DEF Ups
<1>8. Typed'
  BY <1>1, <1>2, <1>5, <1>7 DEF Typed, Programs, Buffers
<1>9. Standing(p)'
  <2>1. CASE phase[p] = "out"
    <3>1. p \notin connections' => up'[p] = <<>>
      BY <1>1, <1>2 DEF Ups
    <3> QED BY <1>1, <1>2, <2>1, <3>1 DEF TInv, Standing
  <2>2. CASE phase[p] # "out"
    <3>1. up[p] \in Seq(MessagesType)
      BY <1>1, <2>2 DEF TInv, Standing
    <3>2. Head(up[p]) \in MessagesType /\ Tail(up[p]) \in Seq(MessagesType)
      BY <1>2, <3>1, TypeParts
    <3>3. ~ IsDisconnect(Head(up[p]))
      BY <3>2, PacketTypes
    <3>4. UNCHANGED connections /\ up'[p] = Tail(up[p])
      BY <1>1, <1>2, <3>3 DEF Ups
    <3> QED BY <1>1, <1>2, <2>2, <3>2, <3>4 DEF TInv, Standing
  <2> QED BY <2>1, <2>2
<1>10. \A r \in Slots : r # p => Untouched(r)
  BY <1>2, <1>7 DEF Untouched
<1>11. p # Host
  BY <1>1, <1>2 DEF TInv
<1>12. TInv'
  BY <1>1, <1>8, <1>9, <1>10, <1>11, OneStands
<1>13. ActiveKnown'
  BY <1>1, <1>2 DEF ActiveKnown, IsValid
<1> QED BY <1>12, <1>13 DEF TKInv

\* Where the inbox of p is parted by the first leave in it.
LEMMA DisconnectAt ==
    ASSUME TInv, NEW p \in Slots, HandleDisconnect(p)
    PROVE  \E q \in Slots : \E waiting, behind \in Seq(Packets) :
               /\ inbox[p] = waiting \o (<<Event("PT_DISCONNECT", q)>> \o behind)
               /\ waiting \in Seq(MessagesTo(p)) /\ behind \in Seq(To(p))
               /\ inbox' = [inbox EXCEPT ![p] = ClearMsg(waiting, q) \o behind]
               /\ playerLeft' = [playerLeft EXCEPT ![p] = @ \cup {q}]
<1>1. PICK i \in 1 .. Len(inbox[p]) :
          LET q == inbox[p][i].src
              waiting == SubSeq(inbox[p], 1, i - 1)
              behind == SubSeq(inbox[p], i + 1, Len(inbox[p]))
          IN  /\ IsDisconnect(inbox[p][i])
              /\ \A k \in 1 .. i - 1 : ~ IsDisconnect(inbox[p][k])
              /\ playerLeft' = [playerLeft EXCEPT ![p] = @ \cup {q}]
              /\ inbox' = [inbox EXCEPT ![p] = ClearMsg(waiting, q) \o behind]
  BY Zenon DEF HandleDisconnect
<1> DEFINE s == inbox[p]
           q == s[i].src
           waiting == SubSeq(s, 1, i - 1)
           behind == SubSeq(s, i + 1, Len(s))
<1>2. s \in Seq(Packets) /\ s \in Seq(To(p))
  BY DEF TInv, Typed, Boxes
<1>3. s[i] \in Packets
  BY <1>2
<1>4. q \in Slots /\ s[i] = Event("PT_DISCONNECT", q)
  <2>1. PICK r \in Slots : s[i] = Event("PT_DISCONNECT", r)
    BY <1>1, <1>3, PacketTypes
  <2>2. s[i].src = r
    BY <2>1, PacketTypes
  <2> QED BY <2>1, <2>2
<1>5. waiting \in Seq(Packets) /\ behind \in Seq(Packets) /\ behind \in Seq(To(p))
  BY <1>2
<1>6. waiting \in Seq(MessagesTo(p))
  <2>1. Len(waiting) = i - 1 /\ \A k \in 1 .. i - 1 : waiting[k] = s[k] /\ s[k] \in To(p)
    BY <1>2
  <2>2. \A k \in 1 .. i - 1 : s[k] \in MessagesTo(p)
    BY <1>1, <2>1, PacketTypes
  <2>3. waiting = [k \in 1 .. Len(waiting) |-> waiting[k]] /\ Len(waiting) \in Nat
    BY <1>5
  <2> HIDE DEF waiting, s
  <2>4. \A k \in 1 .. Len(waiting) : waiting[k] \in MessagesTo(p)
    BY <2>1, <2>2
  <2>5. waiting \in [1 .. Len(waiting) -> MessagesTo(p)]
    BY <2>3, <2>4
  <2> QED BY <2>3, <2>5
<1>7. s = waiting \o (<<s[i]>> \o behind)
  <2>1. i - 1 \in 0 .. Len(s) /\ (i - 1) + 1 = i
    BY <1>2
  <2>2. s = waiting \o SubSeq(s, i, Len(s))
    BY <1>2, <2>1, Cut
  <2>3. SubSeq(s, i, Len(s)) = <<s[i]>> \o behind
    BY <1>2
  <2> QED BY <2>2, <2>3, Zenon
<1>8. /\ inbox' = [inbox EXCEPT ![p] = ClearMsg(waiting, q) \o behind]
      /\ playerLeft' = [playerLeft EXCEPT ![p] = @ \cup {q}]
  BY <1>1, Zenon
<1> HIDE DEF s, q, waiting, behind
<1> QED BY <1>4, <1>5, <1>6, <1>7, <1>8, Zenon DEF s

LEMMA HandleDisconnectTypes ==
    ASSUME TKInv, NEW p \in Slots, HandleDisconnect(p)
    PROVE  TKInv'
<1>1. Typed /\ Ups(up) /\ Boxes(inbox) /\ Buffers(buffer) /\ TInv /\ Programs /\ ActiveKnown
  BY DEF TKInv, TInv, Typed
<1>2. PICK q \in Slots, waiting \in Seq(Packets), behind \in Seq(Packets) :
          /\ waiting \in Seq(MessagesTo(p)) /\ behind \in Seq(To(p))
          /\ inbox' = [inbox EXCEPT ![p] = ClearMsg(waiting, q) \o behind]
          /\ playerLeft' = [playerLeft EXCEPT ![p] = @ \cup {q}]
  BY <1>1, DisconnectAt, Zenon
<1>3. /\ phase[p] # "out"
      /\ UNCHANGED <<phase, life, connections, up, buffer, offset, packed, character, plractive,
                     early, commands, faults>>
  BY DEF HandleDisconnect, programVars
<1>4. ClearMsg(waiting, q) \in Seq(MessagesTo(p)) /\ ClearMsg(waiting, q) \in Seq(Packets)
  BY <1>2, AmongType DEF ClearMsg
<1>5. ClearMsg(waiting, q) \in Seq(To(p))
  BY <1>4, SeqMonotonicHere, PacketTypes
<1>6. ClearMsg(waiting, q) \o behind \in Seq(To(p)) /\ ClearMsg(waiting, q) \o behind \in Seq(Packets)
  BY <1>2, <1>4, <1>5, TypeParts
<1>7. Boxes(inbox)'
  <2> DEFINE s == ClearMsg(waiting, q) \o behind
  <2>1. s \in Seq(To(p)) /\ s \in Seq(Packets) /\ inbox' = [inbox EXCEPT ![p] = s]
    BY <1>2, <1>6
  <2> HIDE DEF s
  <2> QED BY <1>1, <2>1 DEF Boxes
<1>8. Programs' /\ ActiveKnown' /\ Buffers(buffer)'
  BY <1>1, <1>3 DEF Programs, ActiveKnown, IsValid, Buffers
<1>9. phase' = [phase EXCEPT ![p] = phase[p]] /\ phase[p] \in Phases
  BY <1>1, <1>3 DEF Typed
<1>10. playerLeft' \in [Slots -> SUBSET Slots] /\ early' \in SUBSET Slots
       /\ \A r \in Slots : r # p => playerLeft'[r] = playerLeft[r]
  BY <1>1, <1>2, <1>3 DEF Typed
<1>11. phase[p] \notin {"resync", "load", "replay"} => buffer'[p] = <<>>
  BY <1>1, <1>3 DEF TInv, Standing
<1> QED BY <1>3, <1>7, <1>8, <1>9, <1>10, <1>11, LocalStep

LEMMA TKInvStep == TKInv /\ [Next]_vars => TKInv'
<1> SUFFICES ASSUME TKInv, [Next]_vars PROVE TKInv'
  OBVIOUS
<1>0. CASE UNCHANGED vars
  BY <1>0 DEF TKInv, TInv, Typed, Ups, Boxes, Buffers, Programs, Standing, ActiveKnown, IsValid,
              vars, netVars, programVars, leaveVars
<1> SUFFICES ASSUME Next PROVE TKInv'
  BY <1>0
<1> PICK p \in Slots :
        \/ Join(p) \/ NetInit(p) \/ BufferMessage(p) \/ BufferDrops(p)
        \/ ResyncEnds(p) \/ EnterGame(p) \/ ReplayDrop(p) \/ ReplayMessage(p)
        \/ DiscardRest(p) \/ ReplayEnds(p) \/ ClearPlayerLeft(p) \/ HandleMessage(p)
        \/ ChangeLevel(p) \/ HandleDisconnect(p) \/ Relay(p) \/ Leave(p) \/ Crash(p)
  BY Zenon DEF Next
<1>1. CASE Join(p)
  BY <1>1, JoinTypes
<1>2. CASE NetInit(p)
  BY <1>2, NetInitTypes
<1>3. CASE BufferMessage(p)
  BY <1>3, BufferMessageTypes
<1>4. CASE BufferDrops(p)
  BY <1>4, BufferDropsTypes
<1>5. CASE ResyncEnds(p) \/ DiscardRest(p) \/ ReplayEnds(p)
  BY <1>5, PhaseTypes
<1>6. CASE EnterGame(p) \/ ChangeLevel(p)
  BY <1>6, JoinLevelTypes
<1>7. CASE ReplayDrop(p) \/ ClearPlayerLeft(p)
  BY <1>7, LeavesTypes
<1>8. CASE ReplayMessage(p) \/ HandleMessage(p)
  <2>1. \E m, boxes : Reads(p, m, boxes)
    BY <1>8, Zenon DEF Reads
  <2> QED BY <2>1, ReadsTypes
<1>9. CASE HandleDisconnect(p)
  BY <1>9, HandleDisconnectTypes
<1>10. CASE Relay(p)
  BY <1>10, RelayTypes
<1>11. CASE Leave(p) \/ Crash(p)
  BY <1>11, LeaveTypes
<1> QED
  BY <1>1, <1>2, <1>3, <1>4, <1>5, <1>6, <1>7, <1>8, <1>9, <1>10, <1>11

LEMMA TypesImply == TKInv /\ IInv => TypeOK
<1> SUFFICES ASSUME TKInv, IInv PROVE TypeOK
  OBVIOUS
<1>1. gbActivePlayers \in [Slots -> Nat]
  <2>1. \A p \in Slots : gbActivePlayers[p] \in Nat
    BY FS_CardinalityType DEF IInv, Counted
  <2>2. gbActivePlayers = [p \in Slots |-> gbActivePlayers[p]]
    BY DEF IInv, Domains
  <2> QED BY <2>1, <2>2
<1>2. Typed
  BY DEF TKInv, TInv
<1> QED BY <1>1, <1>2 DEF Typed, Ups, Boxes, Buffers, Programs, TypeOK

(* Every state is well-typed.  In particular the server delivers nothing to a   *)
(* program that was not sent to it, whoever had its slot before                 *)
(* (tcp_server.cpp); a joiner buffers only chunks, join-level commands and      *)
(* leaves (PrePacket, msg.cpp); and the offset up to which a character has been *)
(* received stays below its length (recv_plrinfo, multi.cpp).                   *)
THEOREM TypeCorrect == Spec => []TypeOK
<1>1. TKInv /\ IInv /\ [Next]_vars => (TKInv /\ IInv)'
  BY TKInvStep, IInvStep
<1> QED BY TKInvInit, IInvInit, <1>1, TypesImply, PTL DEF Spec

--------------------------------------------------------------------------------
(* What q has sent to tell p of its character, and p has not read.             *)

Told(s, p, q) == Among(s, Tells(p, q))

Rest(boxes, queues, p, q) == Told(boxes[p], p, q) \o Told(queues[q], p, q)
Coming(p, q) == Told(buffer[p], p, q) \o Rest(inbox, up, p, q)

LEMMA TellsTypes ==
    ASSUME NEW p \in Slots, NEW q \in Slots
    PROVE  /\ Tells(p, q) \subseteq Packets /\ Tells(p, q) \subseteq To(p)
           /\ \A m \in Tells(p, q) : m.src = q
           /\ Event("PT_DISCONNECT", q) \in Tells(p, q)
           /\ \A r \in Slots : r # q => Event("PT_DISCONNECT", r) \notin Tells(p, q)
           /\ \A m \in MessagesTo(p) : m.src = q /\ m.type \in InfoCommands <=> m \in Tells(p, q)
           /\ \A m \in EventsType({"FAKE_CMD_DROPID"}) : m \notin Tells(p, q)
<1>1. \A m \in MessagesTo(p) : m # Event("PT_DISCONNECT", q)
  BY PacketTypes DEF MessagesTo
<1>2. MessagesTo(p) \subseteq Packets /\ MessagesTo(p) \subseteq To(p)
  BY PacketTypes DEF MessagesTo
<1>3. /\ Event("PT_DISCONNECT", q) \in Packets /\ Event("PT_DISCONNECT", q) \in To(p)
      /\ \A r \in Slots : Event("PT_DISCONNECT", r).src = r
  BY PacketTypes
<1>4. \A m \in EventsType({"FAKE_CMD_DROPID"}) : m # Event("PT_DISCONNECT", q)
  BY DEF EventsType, Event
<1>5. \A m \in EventsType({"FAKE_CMD_DROPID"}) : m \notin MessagesTo(p)
  <2>1. \A m \in EventsType({"FAKE_CMD_DROPID"}) : m.type = "FAKE_CMD_DROPID"
    BY DEF EventsType
  <2> QED BY <2>1, PacketTypes DEF MessagesTo
<1> QED BY <1>1, <1>2, <1>3, <1>4, <1>5 DEF Tells

\* Of what is on its way only chunks and leaves of q count.
LEMMA ToldTypes ==
    ASSUME NEW p \in Slots, NEW q \in Slots
    PROVE  /\ \A s \in Seq(Packets) : Told(s, p, q) \in Seq(Packets)
           /\ \A s \in Seq(Buffered(p)) : Told(s, p, q) \in Seq(Packets)
           /\ \A r \in Slots : \A s \in Seq(Of(r)) : r # q => Told(s, p, q) = <<>>
           /\ \A s \in Seq(EventsType({"FAKE_CMD_DROPID"})) : Told(s, p, q) = <<>>
           /\ \A s, t \in Seq(Packets) : Told(s \o t, p, q) = Told(s, p, q) \o Told(t, p, q)
           /\ \A s, t \in Seq(Buffered(p)) : Told(s \o t, p, q) = Told(s, p, q) \o Told(t, p, q)
           /\ Told(<<>>, p, q) = <<>>
<1>1. ASSUME NEW S, NEW s \in Seq(S) PROVE Told(s, p, q) \in Seq(Packets)
  <2>1. Told(s, p, q) \in Seq(S \cap Tells(p, q))
    BY AmongType DEF Told
  <2>2. S \cap Tells(p, q) \subseteq Packets
    BY TellsTypes
  <2> QED BY <2>1, <2>2, SeqMonotonicHere, Zenon
<1>2. ASSUME NEW S, NEW s \in Seq(S), NEW t \in Seq(S)
      PROVE  Told(s \o t, p, q) = Told(s, p, q) \o Told(t, p, q)
  BY AmongConcat DEF Told
<1>3. ASSUME NEW r \in Slots, NEW s \in Seq(Of(r)), r # q PROVE Told(s, p, q) = <<>>
  <2>1. Of(r) \cap Tells(p, q) = {}
    BY <1>3, TellsTypes DEF Of
  <2> QED BY <2>1, AmongNone DEF Told
<1>4. ASSUME NEW s \in Seq(EventsType({"FAKE_CMD_DROPID"})) PROVE Told(s, p, q) = <<>>
  <2>1. EventsType({"FAKE_CMD_DROPID"}) \cap Tells(p, q) = {}
    BY TellsTypes
  <2> QED BY <2>1, AmongNone DEF Told
<1>5. Told(<<>>, p, q) = <<>>
  BY AmongEmpty DEF Told
<1> QED BY <1>1, <1>2, <1>3, <1>4, <1>5, Zenon

LEMMA ToldConcat ==
    ASSUME NEW p \in Slots, NEW q \in Slots
    PROVE  \A s, t \in Seq(Packets) : Told(s \o t, p, q) = Told(s, p, q) \o Told(t, p, q)
BY ToldTypes

\* One packet.
LEMMA ToldOne ==
    ASSUME NEW p \in Slots, NEW q \in Slots, NEW S, NEW m \in S
    PROVE  Told(<<m>>, p, q) = IF m \in Tells(p, q) THEN <<m>> ELSE <<>>
<1>1. <<>> \in Seq(S) /\ Append(<<>>, m) = <<m>>
  OBVIOUS
<1>2. Among(Append(<<>>, m), Tells(p, q)) =
          IF m \in Tells(p, q) THEN Append(Among(<<>>, Tells(p, q)), m) ELSE Among(<<>>, Tells(p, q))
  BY <1>1, AmongAppend
<1> QED BY <1>1, <1>2, AmongEmpty DEF Told

LEMMA ComingTypes ==
    ASSUME TInv, NEW p \in Slots, NEW q \in Slots
    PROVE  /\ Told(buffer[p], p, q) \in Seq(Packets) /\ Told(inbox[p], p, q) \in Seq(Packets)
           /\ Told(up[q], p, q) \in Seq(Packets)
           /\ Rest(inbox, up, p, q) \in Seq(Packets) /\ Coming(p, q) \in Seq(Packets)
<1>1. buffer[p] \in Seq(Buffered(p)) /\ inbox[p] \in Seq(Packets) /\ up[q] \in Seq(Packets)
  BY DEF TInv, Typed, Buffers, Boxes, Ups
<1>2. Told(buffer[p], p, q) \in Seq(Packets) /\ Told(inbox[p], p, q) \in Seq(Packets)
      /\ Told(up[q], p, q) \in Seq(Packets)
  BY <1>1, ToldTypes
<1>3. Rest(inbox, up, p, q) \in Seq(Packets)
  BY <1>2, TypeParts DEF Rest
<1>4. Coming(p, q) \in Seq(Packets)
  BY <1>2, <1>3, TypeParts DEF Coming
<1> QED BY <1>2, <1>3, <1>4

\* What is sent comes behind all that was sent before, and starts afresh.
Grows(t, s) == \E c \in Seq(Packets) : Linked(c) /\ FreshHead(c) /\ t = s \o c
UpGrows(p, q) == Grows(Told(up'[q], p, q), Told(up[q], p, q))
RestGrows(boxes, p, q) == Grows(Rest(inbox', up', p, q), Rest(boxes, up, p, q))

LEMMA SendsComes ==
    ASSUME TInv, NEW a \in Slots, NEW boxes, Boxes(boxes), NEW messages, Sendable(messages, a),
           Sends(a, messages, boxes), NEW p \in Slots, NEW q \in Slots, p # q
    PROVE  UpGrows(p, q) /\ (p \in connections => RestGrows(boxes, p, q))
<1> DEFINE T == Tells(p, q)
           more == Told(messages, p, q)
<1>1. messages \in Seq(Packets) /\ messages \in Seq(Of(a))
  <2>1. Says(a) \subseteq Packets /\ Says(a) \subseteq Of(a)
    BY PacketTypes DEF Says, Of
  <2> QED BY <2>1, SeqMonotonicHere, Zenon DEF Sendable
<1>2. /\ Linked(more) /\ FreshHead(more) /\ more \in Seq(Packets)
      /\ a # q => more = <<>>
  <2>1. more \in Seq(Packets) /\ (a # q => more = <<>>)
    BY <1>1, ToldTypes
  <2>2. CASE a = q
    <3>1. Linked(more) /\ FreshHead(more)
      BY <2>2, Zenon DEF Sendable, Told
    <3> QED BY <2>1, <2>2, <3>1
  <2>3. CASE a # q
    BY <2>1, <2>3, LinkedShort DEF FreshHead
  <2> QED BY <2>2, <2>3
<1>3. /\ up[q] \in Seq(Packets) /\ boxes[p] \in Seq(Packets)
      /\ Told(up[q], p, q) \in Seq(Packets) /\ Told(boxes[p], p, q) \in Seq(Packets)
  <2>1. up[q] \in Seq(Packets) /\ boxes[p] \in Seq(Packets)
    BY DEF TInv, Typed, Ups, Boxes
  <2> QED BY <2>1, ToldTypes
<1>4. \A s \in Seq(Packets) : s \o <<>> = s /\ <<>> \o s = s
  OBVIOUS
<1>5. Linked(<<>>) /\ FreshHead(<<>>) /\ <<>> \in Seq(Packets)
  BY LinkedShort DEF FreshHead
<1>6. \A s, t, u \in Seq(Packets) : (s \o t) \o u = s \o (t \o u)
  BY ConcatAssociates
<1>7. CASE a = Host
  <2>1. up' = up /\ inbox' = Delivered(boxes, Host, messages)
    BY <1>7, Zenon DEF Sends
  <2>2. Told(up'[q], p, q) = Told(up[q], p, q) \o <<>>
    BY <1>3, <1>4, <2>1, Zenon
  <2>3. ASSUME p \in connections
        PROVE  \E c \in Seq(Packets) :
                   Linked(c) /\ FreshHead(c) /\ Rest(inbox', up', p, q) = Rest(boxes, up, p, q) \o c
    <3>1. CASE p = Host
      <4>1. inbox'[p] = boxes[p]
        BY <2>1, <3>1 DEF Delivered
      <4>2. Rest(inbox', up', p, q) = Rest(boxes, up, p, q)
        BY <2>1, <4>1, Zenon DEF Rest
      <4>3. Rest(boxes, up, p, q) \in Seq(Packets)
        BY <1>3, TypeParts DEF Rest
      <4>4. Rest(inbox', up', p, q) = Rest(boxes, up, p, q) \o <<>>
        BY <1>4, <4>2, <4>3, Zenon
      <4> QED BY <1>5, <4>4, Zenon
    <3>2. CASE p # Host
      <4> DEFINE new == Among(messages, To(p))
      <4>1. inbox'[p] = boxes[p] \o new
        BY <2>1, <2>3, <3>2 DEF Delivered
      <4>2. new \in Seq(Packets) /\ Told(new, p, q) = more
        <5>1. new \in Seq(Packets)
          BY <1>1, AmongType
        <5>2. Tells(p, q) \subseteq To(p)
          BY TellsTypes
        <5>3. Among(new, Tells(p, q)) = Among(messages, Tells(p, q))
          BY <1>1, <5>2, AmongTwice
        <5> QED BY <5>1, <5>3, Zenon DEF Told
      <4>3. Told(inbox'[p], p, q) = Told(boxes[p], p, q) \o more
        <5> HIDE DEF new, more
        <5>1. Told(boxes[p] \o new, p, q) = Told(boxes[p], p, q) \o Told(new, p, q)
          BY <1>3, <4>2, ToldConcat, ZenonT(40)
        <5> QED BY <4>1, <4>2, <5>1, Zenon
      <4>4. more \o Told(up[q], p, q) = Told(up[q], p, q) \o more
        <5>1. CASE q = Host
          <6>1. Told(up[q], p, q) = <<>>
            BY <5>1, ToldTypes DEF TInv
          <6> QED BY <1>2, <1>4, <6>1, Zenon
        <5>2. CASE q # Host
          <6>1. more = <<>>
            BY <1>2, <1>7, <5>2
          <6> QED BY <1>3, <1>4, <6>1, Zenon
        <5> QED BY <5>1, <5>2
      <4>5. Rest(inbox', up', p, q) = Rest(boxes, up, p, q) \o more
        <5>1. Rest(inbox', up', p, q) = (Told(boxes[p], p, q) \o more) \o Told(up[q], p, q)
          BY <2>1, <4>3, Zenon DEF Rest
        <5>2. (Told(boxes[p], p, q) \o more) \o Told(up[q], p, q)
                  = Told(boxes[p], p, q) \o (more \o Told(up[q], p, q))
          BY <1>2, <1>3, <1>6, Zenon
        <5>3. (Told(boxes[p], p, q) \o Told(up[q], p, q)) \o more
                  = Told(boxes[p], p, q) \o (Told(up[q], p, q) \o more)
          BY <1>2, <1>3, <1>6, Zenon
        <5> QED BY <4>4, <5>1, <5>2, <5>3, Zenon DEF Rest
      <4> QED BY <1>2, <4>5, Zenon
    <3> QED BY <3>1, <3>2
  <2> QED BY <1>5, <2>2, <2>3, Zenon DEF UpGrows, RestGrows, Grows
<1>8. CASE a # Host
  <2>1. inbox' = boxes
    BY <1>8, Zenon DEF Sends
  <2>2. \E c \in Seq(Packets) :
            Linked(c) /\ FreshHead(c) /\ Told(up'[q], p, q) = Told(up[q], p, q) \o c
    <3>1. CASE up'[q] = up[q]
      <4>1. Told(up'[q], p, q) = Told(up[q], p, q) \o <<>>
        BY <1>3, <1>4, <3>1, Zenon
      <4> QED BY <1>5, <4>1, Zenon
    <3>2. CASE q = a /\ up'[q] = up[q] \o messages
      <4>1. Told(up[q] \o messages, p, q) = Told(up[q], p, q) \o more
        BY <1>1, <1>3, ToldConcat, ZenonT(40)
      <4>2. Told(up'[q], p, q) = Told(up[q], p, q) \o more
        BY <3>2, <4>1, Zenon
      <4> QED BY <1>2, <4>2, Zenon
    <3>3. \/ up'[q] = up[q]
          \/ q = a /\ up'[q] = up[q] \o messages
      BY DEF Sends, TInv, Typed, Ups
    <3> QED BY <3>1, <3>2, <3>3
  <2>3. PICK c \in Seq(Packets) :
            Linked(c) /\ FreshHead(c) /\ Told(up'[q], p, q) = Told(up[q], p, q) \o c
    BY <2>2
  <2>4. Rest(inbox', up', p, q) = Rest(boxes, up, p, q) \o c
    <3>1. Rest(inbox', up', p, q) = Told(boxes[p], p, q) \o (Told(up[q], p, q) \o c)
      BY <2>1, <2>3, Zenon DEF Rest
    <3>2. (Told(boxes[p], p, q) \o Told(up[q], p, q)) \o c
              = Told(boxes[p], p, q) \o (Told(up[q], p, q) \o c)
      BY <1>3, <1>6, <2>3, Zenon
    <3> QED BY <3>1, <3>2, Zenon DEF Rest
  <2> QED BY <2>3, <2>4, Zenon DEF UpGrows, RestGrows, Grows
<1> QED BY <1>7, <1>8

Listens(p) == phase[p] \notin {"out", "cut"}
UpLinked == \A p, q \in Slots : p # q => Linked(Told(up[q], p, q))
Arrives(p, q) ==
    Fits(Coming(p, q), offset[p][q], packed[p][q]) /\ OneLife(offset[p][q], packed[p][q])
Known1(p, q) == IsValid(p, q) => \E l \in Lives : character[p][q] = PackOf(l)

\* Chunks come in order, one character behind the other, and what has arrived of one that
\* goes on is of the same life.
PInv ==
    /\ UpLinked
    /\ \A p, q \in Slots : p # q /\ Listens(p) => Arrives(p, q)
    /\ \A p, q \in Slots : phase[p] # "cut" => Known1(p, q)

\* Characters stay, are forgotten or are those of one life.
SameCharacters ==
    \A p, q \in Slots : phase'[p] # "cut" =>
        \/ phase[p] # "cut" /\ character'[p][q] = character[p][q]
        \/ character'[p][q] = Blank
        \/ \E l \in Lives : character'[p][q] = PackOf(l)

LEMMA SameKnown ==
    ASSUME PInv, SameCharacters, NEW p \in Slots, NEW q \in Slots, phase'[p] # "cut"
    PROVE  Known1(p, q)'
<1>1. phase[p] # "cut" => Known1(p, q)
  BY DEF PInv
<1>2. \/ phase[p] # "cut" /\ character'[p][q] = character[p][q]
      \/ character'[p][q] = Blank
      \/ \E l \in Lives : character'[p][q] = PackOf(l)
  BY DEF SameCharacters
<1>3. (Blank' = Blank) /\ \A l : PackOf(l)' = PackOf(l)
  BY DEF Blank, PackOf
<1> QED BY <1>1, <1>2, <1>3, Zenon DEF Known1, IsValid

LEMMA ArrivesNext ==
    ASSUME NEW p \in Slots, NEW q \in Slots,
           Fits(Coming(p, q)', offset'[p][q], packed'[p][q]),
           OneLife(offset'[p][q], packed'[p][q])
    PROVE  Arrives(p, q)'
<1>1. Fits(Coming(p, q), offset[p][q], packed[p][q])' = Fits(Coming(p, q)', offset'[p][q], packed'[p][q])
  BY Zenon DEF Fits, Linked, Continues, Starts, Fresh, IsDisconnect
<1>2. OneLife(offset[p][q], packed[p][q])' = OneLife(offset'[p][q], packed'[p][q])
  BY Zenon DEF OneLife, Lives
<1> QED BY <1>1, <1>2, Zenon DEF Arrives

LEMMA ReplacesArrives ==
    ASSUME NEW p \in Slots, NEW q \in Slots, Arrives(p, q),
           offset'[p][q] = offset[p][q], packed'[p][q] = packed[p][q],
           Replaces(Coming(p, q)', Coming(p, q))
    PROVE  Arrives(p, q)'
<1> DEFINE t == Coming(p, q)'
           s == Coming(p, q)
           off == offset[p][q]
           pack == packed[p][q]
<1>1. Fits(s, off, pack) /\ OneLife(off, pack) /\ Replaces(t, s)
  BY DEF Arrives
<1>2. Fits(t, off, pack)
  <2> HIDE DEF t, s, off, pack
  <2> QED BY <1>1, ReplacesFits
<1>3. Fits(t, offset'[p][q], packed'[p][q]) /\ OneLife(offset'[p][q], packed'[p][q])
  BY <1>1, <1>2
<1> QED BY <1>3, ArrivesNext

\* What follows for the invariant.
LEMMA PStep ==
    ASSUME TInv, PInv, SameCharacters,
           \A p, q \in Slots : p # q => Linked(Told(up'[q], p, q)),
           \A p, q \in Slots : p # q /\ Listens(p)' =>
               \/ Arrives(p, q)'
               \/ /\ Listens(p)
                  /\ offset'[p][q] = offset[p][q] /\ packed'[p][q] = packed[p][q]
                  /\ Replaces(Coming(p, q)', Coming(p, q))
    PROVE  PInv'
<1>1. ASSUME NEW p \in Slots, NEW q \in Slots, p # q, Listens(p)' PROVE Arrives(p, q)'
  <2>1. Listens(p) => Arrives(p, q)
    BY <1>1 DEF PInv
  <2> QED BY <1>1, <2>1, ReplacesArrives
<1>2. ASSUME NEW p \in Slots, NEW q \in Slots, phase'[p] # "cut" PROVE Known1(p, q)'
  BY <1>2, SameKnown
<1>3. UpLinked'
  BY DEF UpLinked, Told, Linked
<1> QED BY <1>1, <1>2, <1>3 DEF PInv

\* Steps that change where messages are, and not what is to come.
LEMMA QuietStep ==
    ASSUME TInv, PInv, SameCharacters, UNCHANGED <<up, offset, packed>>,
           \A p, q \in Slots : p # q /\ Listens(p)' =>
               Listens(p) /\ Coming(p, q)' = Coming(p, q)
    PROVE  PInv'
<1>1. ASSUME NEW p \in Slots, NEW q \in Slots, p # q PROVE Linked(Told(up'[q], p, q))
  BY <1>1 DEF PInv, UpLinked
<1>2. ASSUME NEW p \in Slots, NEW q \in Slots, p # q, Listens(p)'
      PROVE  /\ Listens(p)
             /\ offset'[p][q] = offset[p][q] /\ packed'[p][q] = packed[p][q]
             /\ Replaces(Coming(p, q)', Coming(p, q))
  <2>1. Listens(p) /\ Coming(p, q)' = Coming(p, q)
    BY <1>2
  <2>2. Replaces(Coming(p, q), Coming(p, q))
    BY ComingTypes, ReplacesSame
  <2> QED BY <2>1, <2>2, Zenon
<1> QED BY <1>1, <1>2, PStep

\* Steps that send.
LEMMA SendArrives ==
    ASSUME TInv, PInv, NEW a \in Slots, NEW messages, Sendable(messages, a),
           Sends(a, messages, inbox), UNCHANGED <<buffer, offset, packed>>, SameCharacters,
           \A p \in Slots : Listens(p)' => Listens(p)
    PROVE  PInv'
<1>0. Boxes(inbox)
  BY DEF TInv, Typed
<1>1. ASSUME NEW p \in Slots, NEW q \in Slots, p # q PROVE Linked(Told(up'[q], p, q))
  <2>1. PICK c \in Seq(Packets) :
            Linked(c) /\ FreshHead(c) /\ Told(up'[q], p, q) = Told(up[q], p, q) \o c
    <3>1. UpGrows(p, q)
      BY <1>0, <1>1, SendsComes
    <3> QED BY <3>1 DEF UpGrows, Grows
  <2>2. Linked(Told(up[q], p, q)) /\ Told(up[q], p, q) \in Seq(Packets)
    BY <1>1, ComingTypes DEF PInv, UpLinked
  <2> QED BY <2>1, <2>2, LinkedConcat
<1>2. ASSUME NEW p \in Slots, NEW q \in Slots, p # q, Listens(p)' 
      PROVE  /\ Listens(p)
             /\ offset'[p][q] = offset[p][q] /\ packed'[p][q] = packed[p][q]
             /\ Replaces(Coming(p, q)', Coming(p, q))
  <2>1. p \in connections /\ Listens(p)
    BY <1>2 DEF PInv, TInv, Standing, Listens
  <2>2. PICK c \in Seq(Packets) :
            Linked(c) /\ FreshHead(c) /\ Rest(inbox', up', p, q) = Rest(inbox, up, p, q) \o c
    <3>1. RestGrows(inbox, p, q)
      BY <1>0, <1>2, <2>1, SendsComes
    <3> QED BY <3>1 DEF RestGrows, Grows
  <2>3. Coming(p, q)' = Coming(p, q) \o c
    <3>1. Coming(p, q)' = Told(buffer[p], p, q) \o (Rest(inbox, up, p, q) \o c)
      <4>1. Coming(p, q)' = Told(buffer'[p], p, q) \o Rest(inbox', up', p, q)
        BY DEF Coming, Told, Rest, Tells, MessagesTo, MessagesType, EventsType, Event
      <4>2. buffer' = buffer
        OBVIOUS
      <4> QED BY <2>2, <4>1, <4>2, Zenon
    <3>2. Told(buffer[p], p, q) \in Seq(Packets) /\ Rest(inbox, up, p, q) \in Seq(Packets)
      BY ComingTypes
    <3>3. Coming(p, q) = Told(buffer[p], p, q) \o Rest(inbox, up, p, q)
      BY DEF Coming
    <3>4. \A s, t, u \in Seq(Packets) : (s \o t) \o u = s \o (t \o u)
      BY ConcatAssociates
    <3>5. (Told(buffer[p], p, q) \o Rest(inbox, up, p, q)) \o c
              = Told(buffer[p], p, q) \o (Rest(inbox, up, p, q) \o c)
      BY <3>2, <3>4, Zenon
    <3> QED BY <3>1, <3>3, <3>5, Zenon
  <2>4. Replaces(Coming(p, q)', Coming(p, q))
    <3>1. Coming(p, q) \in Seq(Packets)
      BY ComingTypes
    <3>2. Replaces(Coming(p, q) \o c, Coming(p, q))
      BY <2>2, <3>1, ReplacesMore
    <3> QED BY <2>3, <3>2, Zenon
  <2> QED BY <2>1, <2>4, Zenon
<1> QED BY <1>1, <1>2, PStep

LEMMA ComingNext ==
    ASSUME NEW p \in Slots, NEW q \in Slots
    PROVE  /\ Coming(p, q)' = Told(buffer'[p], p, q) \o (Told(inbox'[p], p, q) \o Told(up'[q], p, q))
           /\ Coming(p, q) = Told(buffer[p], p, q) \o (Told(inbox[p], p, q) \o Told(up[q], p, q))
<1>1. Coming(p, q)' = Told(buffer'[p], p, q) \o (Told(inbox'[p], p, q) \o Told(up'[q], p, q))
  BY DEF Coming, Told, Rest, Tells, MessagesTo, MessagesType, EventsType, Event
<1>2. Coming(p, q) = Told(buffer[p], p, q) \o (Told(inbox[p], p, q) \o Told(up[q], p, q))
  BY DEF Coming, Rest
<1> QED BY <1>1, <1>2

\* The queues of p and q hold the same for p of q.
LEMMA ComingSame ==
    ASSUME NEW p \in Slots, NEW q \in Slots,
           Told(buffer'[p], p, q) = Told(buffer[p], p, q),
           Told(inbox'[p], p, q) = Told(inbox[p], p, q),
           Told(up'[q], p, q) = Told(up[q], p, q)
    PROVE  Coming(p, q)' = Coming(p, q)
BY ComingNext, Zenon

LEMMA SameCharactersHere ==
    ASSUME UNCHANGED character, \A p \in Slots : phase[p] = "cut" => phase'[p] = "cut"
    PROVE  SameCharacters
BY DEF SameCharacters

LEMMA BufferMessageKnows ==
    ASSUME TInv, PInv, NEW a \in Slots, BufferMessage(a)
    PROVE  PInv'
<1> DEFINE m == Head(inbox[a])
<1>1. /\ inbox[a] # <<>> /\ ~ IsDisconnect(m)
      /\ buffer' = [buffer EXCEPT ![a] = Append(buffer[a], m)]
      /\ inbox' = [inbox EXCEPT ![a] = Tail(inbox[a])]
      /\ UNCHANGED <<phase, up, offset, packed, character>>
  BY DEF BufferMessage
<1>2. SameCharacters /\ \A p \in Slots : Listens(p)' => Listens(p)
  BY <1>1, SameCharactersHere DEF Listens
<1>3. /\ Buffers(buffer) /\ Boxes(inbox) /\ Tail(inbox[a]) \in Seq(Packets)
      /\ inbox[a] = <<m>> \o Tail(inbox[a]) /\ m \in MessagesTo(a)
  BY <1>1, InboxHead DEF TInv, Typed
<1> HIDE DEF m
<1>4. ASSUME NEW p \in Slots, NEW q \in Slots PROVE Coming(p, q)' = Coming(p, q)
  <2>1. CASE p # a
    <3>1. buffer'[p] = buffer[p] /\ inbox'[p] = inbox[p] /\ up' = up
      BY <1>1, <1>3, <2>1 DEF Buffers, Boxes
    <3> QED BY <3>1, ComingSame, Zenon
  <2>2. CASE p = a
    <3> DEFINE b == Told(buffer[p], p, q)
               h == Told(<<m>>, p, q)
               t == Told(Tail(inbox[p]), p, q)
               u == Told(up[q], p, q)
    <3>1. /\ buffer[p] \in Seq(Buffered(p)) /\ m \in Buffered(p) /\ <<m>> \in Seq(Buffered(p))
          /\ m \in Packets /\ <<m>> \in Seq(Packets)
          /\ Append(buffer[p], m) = buffer[p] \o <<m>>
      <4>1. m \in Buffered(p) /\ m \in Packets
        BY <1>3, <2>2, PacketTypes DEF Buffered
      <4>2. buffer[p] \in Seq(Buffered(p))
        BY <1>3 DEF Buffers
      <4> QED BY <4>1, <4>2
    <3>2. b \in Seq(Packets) /\ h \in Seq(Packets) /\ t \in Seq(Packets) /\ u \in Seq(Packets)
      BY <1>3, <2>2, <3>1, ToldTypes, ComingTypes
    <3>3. Told(buffer'[p], p, q) = b \o h
      <4>1. buffer'[p] = buffer[p] \o <<m>>
        BY <1>1, <1>3, <2>2, <3>1 DEF Buffers
      <4>2. Told(buffer[p] \o <<m>>, p, q) = Told(buffer[p], p, q) \o Told(<<m>>, p, q)
        BY <3>1, ToldTypes, ZenonT(40)
      <4> QED BY <4>1, <4>2, Zenon
    <3>4. Told(inbox'[p], p, q) = t /\ Told(inbox[p], p, q) = h \o t
      <4>1. inbox'[p] = Tail(inbox[p])
        BY <1>1, <1>3, <2>2 DEF Boxes
      <4>2. Told(<<m>> \o Tail(inbox[p]), p, q) = Told(<<m>>, p, q) \o Told(Tail(inbox[p]), p, q)
        <5>1. Tail(inbox[p]) \in Seq(Packets) /\ <<m>> \in Seq(Packets)
          BY <1>3, <2>2, <3>1
        <5> QED BY <5>1, ToldConcat, Zenon
      <4> QED BY <1>3, <2>2, <4>1, <4>2, Zenon
    <3>5. up' = up
      BY <1>1
    <3> HIDE DEF b, h, t, u
    <3>6. (b \o h) \o (t \o u) = b \o ((h \o t) \o u)
      <4>1. \A r, s, v \in Seq(Packets) : (r \o s) \o v = r \o (s \o v)
        BY ConcatAssociates
      <4>2. t \o u \in Seq(Packets)
        BY <3>2, TypeParts
      <4>3. (h \o t) \o u = h \o (t \o u) /\ (b \o h) \o (t \o u) = b \o (h \o (t \o u))
        BY <3>2, <4>1, <4>2, ZenonT(40)
      <4> QED BY <4>3, Zenon
    <3>7. Coming(p, q)' = (b \o h) \o (t \o u)
      BY <3>3, <3>4, <3>5, ComingNext, Zenon DEF u
    <3>8. Coming(p, q) = b \o ((h \o t) \o u)
      BY <3>4, ComingNext, Zenon DEF b, u
    <3> QED BY <3>6, <3>7, <3>8, Zenon
  <2> QED BY <2>1, <2>2
<1> QED BY <1>1, <1>2, <1>4, QuietStep

LEMMA BufferDropsKnows ==
    ASSUME TInv, PInv, NEW a \in Slots, BufferDrops(a)
    PROVE  PInv'
<1>1. /\ buffer' = [buffer EXCEPT ![a] = buffer[a] \o Drops(playerLeft[a])]
      /\ UNCHANGED <<phase, up, inbox, offset, packed, character>>
  BY DEF BufferDrops, netVars, Drops
<1>2. SameCharacters /\ \A p \in Slots : Listens(p)' => Listens(p)
  BY <1>1, SameCharactersHere DEF Listens
<1>3. ASSUME NEW p \in Slots, NEW q \in Slots PROVE Told(buffer'[p], p, q) = Told(buffer[p], p, q)
  <2>1. Buffers(buffer)
    BY DEF TInv, Typed
  <2>2. CASE p # a
    <3>1. buffer'[p] = buffer[p]
      BY <1>1, <2>1, <2>2 DEF Buffers
    <3> QED BY <3>1
  <2>3. CASE p = a
    <3> DEFINE d == Drops(playerLeft[p])
    <3>1. d \in Seq(EventsType({"FAKE_CMD_DROPID"})) /\ d \in Seq(Buffered(p))
      <4>1. EventsType({"FAKE_CMD_DROPID"}) \subseteq Buffered(p)
        BY DEF Buffered
      <4> QED BY <4>1, AscendingType, SeqMonotonicHere
    <3>2. buffer[p] \in Seq(Buffered(p)) /\ buffer'[p] = buffer[p] \o d
      BY <1>1, <2>1, <2>3 DEF Buffers
    <3> HIDE DEF d
    <3>3. Told(buffer[p] \o d, p, q) = Told(buffer[p], p, q) \o Told(d, p, q) /\ Told(d, p, q) = <<>>
      BY <3>1, <3>2, ToldTypes, Zenon
    <3>4. Told(buffer[p], p, q) \o <<>> = Told(buffer[p], p, q)
      BY ComingTypes
    <3> QED BY <3>2, <3>3, <3>4, Zenon
  <2> QED BY <2>2, <2>3
<1>4. ASSUME NEW p \in Slots, NEW q \in Slots PROVE Coming(p, q)' = Coming(p, q)
  BY <1>1, <1>3, ComingSame
<1> QED BY <1>1, <1>2, <1>4, QuietStep

LEMMA PhaseKnows ==
    ASSUME TInv, PInv, NEW a \in Slots, ResyncEnds(a) \/ DiscardRest(a) \/ ReplayEnds(a)
    PROVE  PInv'
<1>1. /\ UNCHANGED <<up, inbox, offset, packed, character>>
      /\ \/ phase[a] = "resync" /\ phase' = [phase EXCEPT ![a] = "load"] /\ buffer' = buffer
         \/ phase[a] = "replay" /\ phase' = [phase EXCEPT ![a] = "cut"]
            /\ buffer' = [buffer EXCEPT ![a] = <<>>]
         \/ phase[a] = "replay" /\ phase' = [phase EXCEPT ![a] = "play"]
            /\ buffer[a] = <<>> /\ buffer' = [buffer EXCEPT ![a] = <<>>]
  BY DEF ResyncEnds, DiscardRest, ReplayEnds, EndReplay, netVars, programVars
<1>2. phase \in [Slots -> Phases] /\ Buffers(buffer)
  BY DEF TInv, Typed
<1>3. \A p \in Slots : phase[p] = "cut" => phase'[p] = "cut"
  BY <1>1, <1>2
<1>4. SameCharacters
  BY <1>1, <1>3, SameCharactersHere
<1>5. ASSUME NEW p \in Slots, Listens(p)' PROVE Listens(p) /\ buffer'[p] = buffer[p]
  BY <1>1, <1>2, <1>5 DEF Listens, Buffers
<1>6. ASSUME NEW p \in Slots, NEW q \in Slots, Listens(p)' PROVE Coming(p, q)' = Coming(p, q)
  BY <1>1, <1>5, <1>6, ComingSame
<1> QED BY <1>1, <1>4, <1>5, <1>6, QuietStep

LEMMA LeavesKnow ==
    ASSUME TInv, PInv, ActiveKnown, NEW a \in Slots, ReplayDrop(a) \/ ClearPlayerLeft(a)
    PROVE  PInv'
<1>1. /\ \E players : PlayerLeftMsg(a, players)
      /\ UNCHANGED <<phase, up, inbox, offset, packed>>
  BY DEF ReplayDrop, ClearPlayerLeft, netVars
<1>2. Programs /\ Buffers(buffer)
  BY DEF TInv, Typed
<1>3. SameCharacters
  <2>1. /\ \A q \in Slots : q # a => character'[q] = character[q]
        /\ \A q \in Slots : character'[a][q] \in {character[a][q], Blank}
    BY <1>1, <1>2, LeftPrograms
  <2> QED BY <1>1, <2>1 DEF SameCharacters
<1>4. ASSUME NEW p \in Slots, NEW q \in Slots PROVE Told(buffer'[p], p, q) = Told(buffer[p], p, q)
  <2>1. CASE buffer'[p] = buffer[p]
    BY <2>1
  <2>2. CASE p = a /\ ReplayDrop(a)
    <3> DEFINE h == Head(buffer[p])
               t == Tail(buffer[p])
    <3>1. /\ buffer[p] # <<>> /\ h.type = "FAKE_CMD_DROPID"
          /\ buffer' = [buffer EXCEPT ![p] = t]
      BY <2>2 DEF ReplayDrop
    <3>2. h \in Buffered(p) /\ t \in Seq(Buffered(p)) /\ buffer[p] = <<h>> \o t
      BY <3>1, BufferHead
    <3>3. buffer'[p] = t
      BY <1>2, <3>1 DEF Buffers
    <3> HIDE DEF h, t
    <3>4. h \in EventsType({"FAKE_CMD_DROPID"})
      BY <3>1, <3>2, PacketTypes DEF Buffered, MessagesTo
    <3>5. Told(<<h>>, p, q) = <<>>
      BY <3>4, ToldOne, TellsTypes
    <3>6. Told(<<h>> \o t, p, q) = Told(<<h>>, p, q) \o Told(t, p, q) /\ Told(t, p, q) \in Seq(Packets)
      <4>1. <<h>> \in Seq(Buffered(p))
        BY <3>2
      <4> QED BY <3>2, <4>1, ToldTypes, Zenon
    <3>7. <<>> \o Told(t, p, q) = Told(t, p, q)
      BY <3>6
    <3> QED BY <3>2, <3>3, <3>5, <3>6, <3>7, Zenon
  <2>3. buffer'[p] = buffer[p] \/ (p = a /\ ReplayDrop(a))
    BY <1>2 DEF ReplayDrop, ClearPlayerLeft, Buffers
  <2> QED BY <2>1, <2>2, <2>3
<1>5. ASSUME NEW p \in Slots, NEW q \in Slots PROVE Coming(p, q)' = Coming(p, q)
  BY <1>1, <1>4, ComingSame
<1>6. \A p \in Slots : Listens(p)' => Listens(p)
  BY <1>1 DEF Listens
<1> QED BY <1>1, <1>3, <1>5, <1>6, QuietStep

\* What p has of q when it leaves.
LEMMA LeftTold ==
    ASSUME NEW p \in Slots, NEW q \in Slots, NEW a \in Slots, NEW s \in Seq(Packets)
    PROVE  LET left == Event("PT_DISCONNECT", a) IN
           /\ <<left>> \in Seq(Packets) /\ Linked(<<left>>) /\ FreshHead(<<left>>)
           /\ Told(<<left>>, p, q) = IF q = a THEN <<left>> ELSE <<>>
           /\ Told(s \o <<left>>, p, q) = IF q = a THEN Told(s, p, q) \o <<left>> ELSE Told(s, p, q)
<1> DEFINE left == Event("PT_DISCONNECT", a)
<1>1. left \in Packets /\ IsDisconnect(left) /\ (left \in Tells(p, q) <=> q = a)
  BY PacketTypes, TellsTypes
<1> HIDE DEF left
<1>2. <<left>> \in Seq(Packets) /\ Linked(<<left>>) /\ FreshHead(<<left>>)
  BY <1>1, LinkedShort DEF FreshHead, Fresh
<1>3. Told(<<left>>, p, q) = IF q = a THEN <<left>> ELSE <<>>
  BY <1>1, ToldOne
<1>4. Told(s \o <<left>>, p, q) = Told(s, p, q) \o Told(<<left>>, p, q)
  BY <1>2, ToldConcat
<1>5. Told(s, p, q) \o <<>> = Told(s, p, q)
  <2>1. Told(s, p, q) \in Seq(Packets)
    BY ToldTypes
  <2> QED BY <2>1
<1> QED BY <1>2, <1>3, <1>4, <1>5 DEF left

\* What p receives of the packets that the server relays.
LEMMA DeliveredTold ==
    ASSUME Boxes(inbox), NEW src \in Slots, NEW packets \in Seq(Packets),
           NEW p \in Slots, p \in connections, p # src,
           inbox'[p] = Delivered(inbox, src, packets)[p]
    PROVE  \A q \in Slots : Told(inbox'[p], p, q) = Told(inbox[p], p, q) \o Told(packets, p, q)
<1> TAKE q \in Slots
<1> DEFINE new == Among(packets, To(p))
<1>1. inbox'[p] = inbox[p] \o new
  BY DEF Delivered
<1>2. new \in Seq(Packets) /\ inbox[p] \in Seq(Packets)
  BY AmongType DEF Boxes
<1>3. Told(new, p, q) = Told(packets, p, q)
  BY TellsTypes, AmongTwice DEF Told
<1> HIDE DEF new
<1>4. Told(inbox[p] \o new, p, q) = Told(inbox[p], p, q) \o Told(new, p, q)
  BY <1>2, ToldConcat, Zenon
<1> QED BY <1>1, <1>3, <1>4, Zenon

LEMMA EndedKnows ==
    ASSUME TInv, PInv, NEW a \in Slots, a # Host, phase[a] # "out", Ended(a),
           \A p, q \in Slots : p # q => Linked(Told(up'[q], p, q)),
           \A p, q \in Slots : p # q /\ p # a /\ p \in connections =>
               Replaces(Coming(p, q)', Coming(p, q))
    PROVE  PInv'
<1>1. /\ phase' = [phase EXCEPT ![a] = "out"]
      /\ offset' = [offset EXCEPT ![a] = [q \in Slots |-> 0]]
      /\ packed' = [packed EXCEPT ![a] = Nobody]
      /\ character' = [character EXCEPT ![a] = Nobody]
  BY DEF Ended
<1>2. phase \in [Slots -> Phases] /\ Programs
  BY DEF TInv, Typed
<1>3. SameCharacters
  <2>1. \A q \in Slots : character'[a][q] = Blank
    BY <1>1, <1>2 DEF Programs, Nobody
  <2>2. \A p, q \in Slots : p # a => phase'[p] = phase[p] /\ character'[p][q] = character[p][q]
    BY <1>1, <1>2 DEF Programs
  <2> QED BY <2>1, <2>2 DEF SameCharacters
<1>4. ASSUME NEW p \in Slots, NEW q \in Slots, p # q, Listens(p)'
      PROVE  /\ Listens(p)
             /\ offset'[p][q] = offset[p][q] /\ packed'[p][q] = packed[p][q]
             /\ Replaces(Coming(p, q)', Coming(p, q))
  <2>1. p # a /\ Listens(p)
    BY <1>1, <1>2, <1>4 DEF Listens
  <2>2. p \in connections
    BY <2>1 DEF Listens, TInv, Standing
  <2>3. offset'[p][q] = offset[p][q] /\ packed'[p][q] = packed[p][q]
    BY <1>1, <1>2, <2>1 DEF Programs
  <2> QED BY <1>4, <2>1, <2>2, <2>3
<1> QED BY <1>3, <1>4, PStep

LEMMA LeaveKnows ==
    ASSUME TInv, PInv, NEW a \in Slots, Leave(a)
    PROVE  PInv'
<1> DEFINE left == Event("PT_DISCONNECT", a)
<1>1. /\ a # Host /\ phase[a] # "out" /\ Ended(a)
      /\ up' = [up EXCEPT ![a] = Append(up[a], left)]
      /\ inbox' = [inbox EXCEPT ![a] = <<>>]
      /\ buffer' = [buffer EXCEPT ![a] = <<>>]
  BY DEF Leave, Ended
<1>2. /\ Ups(up) /\ Boxes(inbox) /\ Buffers(buffer)
  BY DEF TInv, Typed
<1>3. ASSUME NEW p \in Slots, NEW q \in Slots
      PROVE  \E c \in Seq(Packets) : Linked(c) /\ FreshHead(c) /\ Told(up'[q], p, q) = Told(up[q], p, q) \o c
  <2>1. up[q] \in Seq(Packets)
    BY <1>2 DEF Ups
  <2>2. CASE q = a
    <3>1. left \in Packets
      BY PacketTypes
    <3> HIDE DEF left
    <3>2. up'[q] = up[q] \o <<left>>
      BY <1>1, <1>2, <2>1, <2>2, <3>1 DEF Ups
    <3>3. /\ <<left>> \in Seq(Packets) /\ Linked(<<left>>) /\ FreshHead(<<left>>)
          /\ Told(up[q] \o <<left>>, p, q) = Told(up[q], p, q) \o <<left>>
      BY <2>1, <2>2, LeftTold DEF left
    <3>4. Told(up'[q], p, q) = Told(up[q], p, q) \o <<left>>
      BY <3>2, <3>3, Zenon
    <3> QED BY <3>3, <3>4, Zenon
  <2>3. CASE q # a
    <3>1. up'[q] = up[q]
      BY <1>1, <1>2, <2>3 DEF Ups
    <3>2. Told(up[q], p, q) = Told(up[q], p, q) \o <<>> /\ <<>> \in Seq(Packets)
      BY <2>1, ToldTypes
    <3>3. Linked(<<>>) /\ FreshHead(<<>>)
      BY LinkedShort DEF FreshHead
    <3> QED BY <3>1, <3>2, <3>3, Zenon
  <2> QED BY <2>2, <2>3
<1>4. ASSUME NEW p \in Slots, NEW q \in Slots, p # q PROVE Linked(Told(up'[q], p, q))
  <2>1. Linked(Told(up[q], p, q)) /\ Told(up[q], p, q) \in Seq(Packets)
    BY <1>4, ComingTypes DEF PInv, UpLinked
  <2>2. PICK c \in Seq(Packets) :
            Linked(c) /\ FreshHead(c) /\ Told(up'[q], p, q) = Told(up[q], p, q) \o c
    BY <1>3
  <2>3. Linked(Told(up[q], p, q) \o c)
    BY <2>1, <2>2, LinkedConcat
  <2> QED BY <2>2, <2>3, Zenon
<1>5. ASSUME NEW p \in Slots, NEW q \in Slots, p # a PROVE Replaces(Coming(p, q)', Coming(p, q))
  <2>1. buffer'[p] = buffer[p] /\ inbox'[p] = inbox[p]
    BY <1>1, <1>2, <1>5 DEF Buffers, Boxes
  <2>2. PICK c \in Seq(Packets) :
            Linked(c) /\ FreshHead(c) /\ Told(up'[q], p, q) = Told(up[q], p, q) \o c
    BY <1>3
  <2> DEFINE b == Told(buffer[p], p, q)
             i == Told(inbox[p], p, q)
             u == Told(up[q], p, q)
  <2>3. b \in Seq(Packets) /\ i \in Seq(Packets) /\ u \in Seq(Packets)
    BY ComingTypes
  <2>4. Coming(p, q)' = b \o (i \o (u \o c)) /\ Coming(p, q) = b \o (i \o u)
    BY <2>1, <2>2, ComingNext, Zenon
  <2> HIDE DEF b, i, u
  <2>5. b \o (i \o (u \o c)) = (b \o (i \o u)) \o c
    <3>1. \A r, s, v \in Seq(Packets) : (r \o s) \o v = r \o (s \o v)
      BY ConcatAssociates
    <3>2. i \o u \in Seq(Packets)
      BY <2>3, TypeParts
    <3>3. (i \o u) \o c = i \o (u \o c) /\ (b \o (i \o u)) \o c = b \o ((i \o u) \o c)
      BY <2>3, <3>1, <3>2, ZenonT(40)
    <3> QED BY <3>3, Zenon
  <2>6. Replaces((b \o (i \o u)) \o c, b \o (i \o u))
    <3>1. b \o (i \o u) \in Seq(Packets)
      BY <2>3, TypeParts
    <3> QED BY <2>2, <3>1, ReplacesMore
  <2> QED BY <2>4, <2>5, <2>6, Zenon
<1> QED BY <1>1, <1>4, <1>5, EndedKnows

LEMMA CrashKnows ==
    ASSUME TInv, PInv, NEW a \in Slots, Crash(a)
    PROVE  PInv'
<1> DEFINE left == Event("PT_DISCONNECT", a)
<1>1. /\ a # Host /\ phase[a] # "out" /\ Ended(a)
      /\ up' = [up EXCEPT ![a] = <<>>]
      /\ inbox' = [Delivered(inbox, a, <<left>>) EXCEPT ![a] = <<>>]
      /\ buffer' = [buffer EXCEPT ![a] = <<>>]
  BY DEF Crash, Ended
<1>2. /\ Ups(up) /\ Boxes(inbox) /\ Buffers(buffer)
  BY DEF TInv, Typed
<1>3. ASSUME NEW p \in Slots, NEW q \in Slots
      PROVE  Told(up'[q], p, q) = IF q = a THEN <<>> ELSE Told(up[q], p, q)
  <2>1. up'[q] = IF q = a THEN <<>> ELSE up[q]
    BY <1>1, <1>2 DEF Ups
  <2> QED BY <2>1, ToldTypes
<1>4. ASSUME NEW p \in Slots, NEW q \in Slots, p # q PROVE Linked(Told(up'[q], p, q))
  <2>1. Linked(Told(up[q], p, q)) /\ Linked(<<>>)
    BY <1>4, LinkedShort DEF PInv, UpLinked
  <2> QED BY <1>3, <2>1
<1>5. ASSUME NEW p \in Slots, NEW q \in Slots, p # q, p # a, p \in connections
      PROVE  Replaces(Coming(p, q)', Coming(p, q))
  <2> DEFINE b == Told(buffer[p], p, q)
             i == Told(inbox[p], p, q)
             u == Told(up[q], p, q)
  <2>1. <<left>> \in Seq(Packets) /\ Linked(<<left>>) /\ FreshHead(<<left>>)
        /\ Told(<<left>>, p, q) = IF q = a THEN <<left>> ELSE <<>>
    <3>1. <<>> \in Seq(Packets)
      OBVIOUS
    <3> QED BY <3>1, LeftTold
  <2>2. buffer'[p] = buffer[p] /\ inbox'[p] = Delivered(inbox, a, <<left>>)[p]
    BY <1>1, <1>2, <1>5 DEF Buffers, Boxes, Delivered
  <2>3. Told(inbox'[p], p, q) = i \o Told(<<left>>, p, q)
    <3>1. \A r \in Slots : Told(inbox'[p], p, r) = Told(inbox[p], p, r) \o Told(<<left>>, p, r)
      BY <1>2, <1>5, <2>1, <2>2, DeliveredTold
    <3> QED BY <3>1
  <2>4. b \in Seq(Packets) /\ i \in Seq(Packets) /\ u \in Seq(Packets)
    BY ComingTypes
  <2>5. Coming(p, q) = b \o (i \o u)
    BY ComingNext, Zenon
  <2> HIDE DEF left
  <2>6. CASE q = a
    <3>1. Coming(p, q)' = b \o ((i \o <<left>>) \o <<>>)
      <4>1. Told(inbox'[p], p, q) = i \o <<left>> /\ Told(up'[q], p, q) = <<>>
        BY <1>3, <2>1, <2>3, <2>6
      <4>2. Told(buffer'[p], p, q) = b
        BY <2>2
      <4> HIDE DEF b, i
      <4> QED BY <4>1, <4>2, ComingNext, Zenon
    <3> HIDE DEF b, i, u
    <3>2. /\ b \o ((i \o <<left>>) \o <<>>) = (b \o i) \o <<left>>
          /\ b \o (i \o u) = (b \o i) \o u
      <4>1. \A r, s, v \in Seq(Packets) : (r \o s) \o v = r \o (s \o v)
        BY ConcatAssociates
      <4>2. (i \o <<left>>) \o <<>> = i \o <<left>>
        BY <2>1, <2>4
      <4>3. (b \o i) \o <<left>> = b \o (i \o <<left>>) /\ (b \o i) \o u = b \o (i \o u)
        BY <2>1, <2>4, <4>1, Zenon
      <4> QED BY <4>2, <4>3, Zenon
    <3>3. b \o i \in Seq(Packets)
      BY <2>4, TypeParts
    <3>4. Replaces((b \o i) \o <<left>>, (b \o i) \o u)
      BY <2>1, <2>4, <3>3, Zenon DEF Replaces
    <3> QED BY <2>5, <3>1, <3>2, <3>4, Zenon
  <2>7. CASE q # a
    <3>1. i \o <<>> = i
      BY <2>4
    <3>2. Told(inbox'[p], p, q) = Told(inbox[p], p, q)
      BY <2>1, <2>3, <2>7, <3>1
    <3>3. Coming(p, q)' = Coming(p, q)
      BY <1>3, <2>2, <2>7, <3>2, ComingSame
    <3>4. Replaces(Coming(p, q), Coming(p, q))
      BY ComingTypes, ReplacesSame
    <3> QED BY <3>3, <3>4, Zenon
  <2> QED BY <2>6, <2>7
<1> QED BY <1>1, <1>4, <1>5, EndedKnows

LEMMA JoinKnows ==
    ASSUME TInv, PInv, NEW a \in Slots, Join(a)
    PROVE  PInv'
<1>1. /\ phase[a] = "out"
      /\ phase' = [phase EXCEPT ![a] = "joined"]
      /\ inbox' = [inbox EXCEPT ![a] = <<>>]
      /\ UNCHANGED <<up, buffer, offset, packed, character>>
  BY DEF Join, programVars
<1>2. phase \in [Slots -> Phases] /\ Programs /\ Boxes(inbox)
  BY DEF TInv, Typed
<1>3. SameCharacters
  <2>1. \A p \in Slots : phase[p] = "cut" => phase'[p] = "cut"
    BY <1>1, <1>2
  <2> QED BY <1>1, <2>1, SameCharactersHere
<1>4. ASSUME NEW p \in Slots, NEW q \in Slots, p # q PROVE Linked(Told(up'[q], p, q))
  BY <1>1, <1>4 DEF PInv, UpLinked
<1>5. ASSUME NEW p \in Slots, NEW q \in Slots, p # q, p # a, Listens(p)'
      PROVE  /\ Listens(p)
             /\ offset'[p][q] = offset[p][q] /\ packed'[p][q] = packed[p][q]
             /\ Replaces(Coming(p, q)', Coming(p, q))
  <2>1. Listens(p) /\ inbox'[p] = inbox[p]
    BY <1>1, <1>2, <1>5 DEF Listens, Boxes
  <2>2. Coming(p, q)' = Coming(p, q)
    BY <1>1, <2>1, ComingSame
  <2>3. Replaces(Coming(p, q), Coming(p, q))
    BY ComingTypes, ReplacesSame
  <2>4. offset'[p][q] = offset[p][q] /\ packed'[p][q] = packed[p][q]
    BY <1>1
  <2> QED BY <2>1, <2>2, <2>3, <2>4, Zenon
<1>6. ASSUME NEW q \in Slots, a # q PROVE Arrives(a, q)'
  <2> DEFINE u == Told(up[q], a, q)
  <2>1. buffer'[a] = <<>> /\ offset'[a][q] = 0 /\ inbox'[a] = <<>> /\ up'[q] = up[q]
    BY <1>1, <1>2 DEF TInv, Standing, Boxes
  <2>2. u \in Seq(Packets) /\ Linked(u)
    BY <1>6, ComingTypes DEF PInv, UpLinked
  <2>3. Coming(a, q)' = u
    <3>1. Coming(a, q)' = <<>> \o (<<>> \o u)
      <4>1. Told(<<>>, a, q) = <<>>
        BY ToldTypes
      <4>2. Told(buffer'[a], a, q) = <<>> /\ Told(inbox'[a], a, q) = <<>> /\ Told(up'[q], a, q) = u
        BY <2>1, <4>1, Zenon
      <4> HIDE DEF u
      <4> QED BY <4>2, ComingNext, Zenon
    <3>2. <<>> \o (<<>> \o u) = u
      BY <2>2
    <3> QED BY <3>1, <3>2, Zenon
  <2>4. Fits(u, 0, packed'[a][q]) /\ OneLife(0, packed'[a][q])
    <3>1. ASSUME NEW x PROVE Starts(x, 0, packed'[a][q])
      BY DEF Starts, Fresh
    <3>2. 1 \in Lives
      BY Constants
    <3> QED BY <2>2, <3>1, <3>2 DEF Fits, OneLife
  <2> HIDE DEF u
  <2> QED BY <2>1, <2>3, <2>4, ArrivesNext
<1> QED BY <1>3, <1>4, <1>5, <1>6, PStep

LEMMA RelayKnows ==
    ASSUME TInv, PInv, NEW a \in Slots, Relay(a)
    PROVE  PInv'
<1> DEFINE h == Head(up[a])
           t == Tail(up[a])
<1>1. /\ up[a] # <<>>
      /\ inbox' = Delivered(inbox, a, <<h>>)
      /\ UNCHANGED <<phase, buffer, offset, packed, character>>
      /\ \/ IsDisconnect(h) /\ up' = [up EXCEPT ![a] = <<>>]
         \/ up' = [up EXCEPT ![a] = t]
  BY DEF Relay, programVars
<1>2. Ups(up) /\ Boxes(inbox) /\ Buffers(buffer)
  BY DEF TInv, Typed
<1>3. /\ h \in Of(a) /\ h \in Packets /\ t \in Seq(Packets) /\ up[a] = <<h>> \o t
      /\ <<h>> \in Seq(Packets) /\ <<h>> \in Seq(Of(a))
  <2>1. up[a] \in Seq(Packets) /\ up[a] \in Seq(Of(a))
    BY <1>2 DEF Ups
  <2> QED BY <1>1, <2>1, TypeParts
<1>4. /\ \A q \in Slots : q # a => up'[q] = up[q]
      /\ (IsDisconnect(h) /\ up'[a] = <<>>) \/ up'[a] = t
  <2>1. up \in [Slots -> Seq(Packets)]
    BY <1>2 DEF Ups
  <2> HIDE DEF h, t
  <2> QED BY <1>1, <2>1
<1>5. SameCharacters /\ \A p \in Slots : Listens(p)' => Listens(p)
  BY <1>1, SameCharactersHere DEF Listens
<1> HIDE DEF h, t
<1>6. ASSUME NEW p \in Slots
      PROVE  /\ Told(up[a], p, a) = Told(<<h>>, p, a) \o Told(t, p, a)
             /\ Told(<<h>>, p, a) \in Seq(Packets) /\ Told(t, p, a) \in Seq(Packets)
             /\ \A q \in Slots : q # a => Told(<<h>>, p, q) = <<>>
  <2>1. Told(<<h>> \o t, p, a) = Told(<<h>>, p, a) \o Told(t, p, a)
    BY <1>3, ToldConcat, Zenon
  <2>2. Told(<<h>>, p, a) \in Seq(Packets) /\ Told(t, p, a) \in Seq(Packets)
    BY <1>3, ToldTypes
  <2>3. \A q \in Slots : q # a => Told(<<h>>, p, q) = <<>>
    BY <1>3, ToldTypes
  <2> QED BY <1>3, <2>1, <2>2, <2>3, Zenon
<1>7. ASSUME NEW p \in Slots, NEW q \in Slots, p # q PROVE Linked(Told(up'[q], p, q))
  <2>1. CASE q # a
    BY <1>4, <1>7, <2>1 DEF PInv, UpLinked
  <2>2. CASE q = a
    <3>1. Linked(Told(<<h>>, p, a) \o Told(t, p, a))
      BY <1>6, <1>7, <2>2 DEF PInv, UpLinked
    <3>2. Linked(Told(t, p, a))
      BY <1>6, <3>1, LinkedParts
    <3>3. Linked(Told(<<>>, p, a))
      BY ToldTypes, LinkedShort
    <3> QED BY <1>4, <2>2, <3>2, <3>3, Zenon
  <2> QED BY <2>1, <2>2
<1>8. ASSUME NEW p \in Slots, NEW q \in Slots, p # q, Listens(p)
      PROVE  Replaces(Coming(p, q)', Coming(p, q))
  <2>1. p \in connections /\ buffer'[p] = buffer[p]
    BY <1>1, <1>8 DEF Listens, TInv, Standing
  <2>2. p # a => Told(inbox'[p], p, q) = Told(inbox[p], p, q) \o Told(<<h>>, p, q)
    <3>1. ASSUME p # a
          PROVE  \A r \in Slots : Told(inbox'[p], p, r) = Told(inbox[p], p, r) \o Told(<<h>>, p, r)
      BY <1>1, <1>2, <1>3, <2>1, <3>1, DeliveredTold
    <3> QED BY <3>1
  <2>3. ASSUME Coming(p, q)' = Coming(p, q) PROVE Replaces(Coming(p, q)', Coming(p, q))
    <3>1. Replaces(Coming(p, q), Coming(p, q))
      BY ComingTypes, ReplacesSame
    <3> QED BY <2>3, <3>1, Zenon
  <2>4. CASE q # a
    <3>1. Told(inbox'[p], p, q) = Told(inbox[p], p, q)
      <4>1. CASE p = a
        <5>1. inbox'[p] = inbox[p]
          BY <1>1, <4>1 DEF Delivered
        <5> QED BY <5>1
      <4>2. CASE p # a
        <5>1. Told(inbox[p], p, q) \o <<>> = Told(inbox[p], p, q)
          BY ComingTypes
        <5> QED BY <1>6, <2>2, <2>4, <4>2, <5>1
      <4> QED BY <4>1, <4>2
    <3>2. Coming(p, q)' = Coming(p, q)
      BY <1>4, <2>1, <2>4, <3>1, ComingSame
    <3> QED BY <2>3, <3>2
  <2>5. CASE q = a
    <3> DEFINE b == Told(buffer[p], p, q)
               i == Told(inbox[p], p, q)
               f == Told(<<h>>, p, q)
               r == Told(t, p, q)
    <3>1. b \in Seq(Packets) /\ i \in Seq(Packets) /\ f \in Seq(Packets) /\ r \in Seq(Packets)
      BY <1>6, <2>5, ComingTypes
    <3>2. /\ Told(buffer'[p], p, q) = b /\ Told(inbox'[p], p, q) = i \o f
          /\ Told(up[q], p, q) = f \o r
      BY <1>6, <1>8, <2>1, <2>2, <2>5
    <3>3. Told(up'[q], p, q) = <<>> \/ Told(up'[q], p, q) = r
      BY <1>4, <2>5, ToldTypes
    <3>4. Coming(p, q) = b \o (i \o (f \o r))
      BY <3>2, ComingNext, Zenon
    <3>5. Coming(p, q)' = b \o ((i \o f) \o Told(up'[q], p, q))
      BY <3>2, ComingNext, Zenon
    <3> HIDE DEF b, i, f, r
    <3>6. /\ (i \o f) \o r = i \o (f \o r)
          /\ (b \o (i \o f)) \o r = b \o (i \o (f \o r))
          /\ b \o ((i \o f) \o <<>>) = b \o (i \o f)
      <4>1. \A s, u, v \in Seq(Packets) : (s \o u) \o v = s \o (u \o v)
        BY ConcatAssociates
      <4>2. i \o f \in Seq(Packets)
        BY <3>1, TypeParts
      <4>3. (i \o f) \o <<>> = i \o f
        BY <4>2
      <4>4. (i \o f) \o r = i \o (f \o r) /\ (b \o (i \o f)) \o r = b \o ((i \o f) \o r)
        BY <3>1, <4>1, <4>2, ZenonT(40)
      <4> QED BY <4>3, <4>4, Zenon
    <3>7. CASE Told(up'[q], p, q) = r
      <4>1. Coming(p, q)' = b \o ((i \o f) \o r)
        BY <3>5, <3>7, Zenon
      <4>2. Coming(p, q)' = Coming(p, q)
        BY <3>4, <3>6, <4>1, Zenon
      <4> QED BY <2>3, <4>2
    <3>8. CASE Told(up'[q], p, q) = <<>>
      <4>1. Coming(p, q)' = b \o ((i \o f) \o <<>>)
        BY <3>5, <3>8, Zenon
      <4>2. b \o (i \o f) \in Seq(Packets) /\ <<>> \in Seq(Packets)
        BY <3>1, TypeParts
      <4>3. (b \o (i \o f)) \o <<>> = b \o (i \o f)
        BY <4>2
      <4>4. Linked(<<>>) /\ FreshHead(<<>>)
        BY LinkedShort DEF FreshHead
      <4>5. Replaces((b \o (i \o f)) \o <<>>, (b \o (i \o f)) \o r)
        BY <3>1, <4>2, <4>4, Zenon DEF Replaces
      <4>6. Coming(p, q)' = (b \o (i \o f)) \o <<>> /\ Coming(p, q) = (b \o (i \o f)) \o r
        BY <3>4, <3>6, <4>1, <4>3, Zenon
      <4> QED BY <4>5, <4>6, Zenon
    <3> QED BY <3>3, <3>7, <3>8
  <2> QED BY <2>4, <2>5
<1>9. \A p, q \in Slots : offset'[p][q] = offset[p][q] /\ packed'[p][q] = packed[p][q]
  BY <1>1
<1> QED BY <1>5, <1>7, <1>8, <1>9, PStep

LEMMA PacketsAssociate == \A s, t, u \in Seq(Packets) : (s \o t) \o u = s \o (t \o u)
BY ConcatAssociates

Regroups(b, w, l, r, u) == b \o ((w \o (l \o r)) \o u) = (b \o w) \o (l \o (r \o u))

LEMMA Regrouped ==
    ASSUME NEW b \in Seq(Packets), NEW w \in Seq(Packets), NEW l \in Seq(Packets),
           NEW r \in Seq(Packets), NEW y \in Seq(Packets)
    PROVE  Regroups(b, w, l, r, y)
<1>1. \A s, t, u \in Seq(Packets) : (s \o t) \o u = s \o (t \o u)
  BY PacketsAssociate, Zenon
<1>2. r \o y \in Seq(Packets) /\ l \o r \in Seq(Packets)
  BY TypeParts
<1>3. l \o (r \o y) \in Seq(Packets)
  BY <1>2, TypeParts
<1>4. (w \o (l \o r)) \o y = w \o ((l \o r) \o y)
  BY <1>1, <1>2, ZenonT(40)
<1>5. (l \o r) \o y = l \o (r \o y)
  BY <1>1, Zenon
<1>6. (b \o w) \o (l \o (r \o y)) = b \o (w \o (l \o (r \o y)))
  BY <1>1, <1>3, ZenonT(40)
<1> QED BY <1>4, <1>5, <1>6, Zenon DEF Regroups

\* Without what is in front of a leave, and the leave.
LEMMA ReplacesLeave ==
    ASSUME NEW b \in Seq(Packets), NEW w \in Seq(Packets), NEW c \in Seq(Packets),
           NEW left \in Packets, IsDisconnect(left), Linked((b \o w) \o (<<left>> \o c))
    PROVE  Replaces(b \o c, (b \o w) \o (<<left>> \o c))
<1>1. <<left>> \in Seq(Packets)
  OBVIOUS
<1>2. b \o w \in Seq(Packets) /\ <<left>> \o c \in Seq(Packets)
  BY <1>1, TypeParts
<1>3. Linked(<<left>> \o c)
  BY <1>2, LinkedParts
<1>4. Linked(c) /\ FreshHead(c)
  BY <1>1, <1>3, LinkedParts, FreshBehindLeave
<1>5. w \o (<<left>> \o c) \in Seq(Packets)
  BY <1>2, TypeParts
<1>6. (b \o w) \o (<<left>> \o c) = b \o (w \o (<<left>> \o c))
  <2>1. \A s, t, u \in Seq(Packets) : (s \o t) \o u = s \o (t \o u)
    BY PacketsAssociate, Zenon
  <2> QED BY <1>2, <2>1, Zenon
<1> QED BY <1>4, <1>5, <1>6, Zenon DEF Replaces

LEMMA HandleDisconnectKnows ==
    ASSUME TInv, PInv, NEW a \in Slots, HandleDisconnect(a)
    PROVE  PInv'
<1>1. Ups(up) /\ Boxes(inbox) /\ Buffers(buffer)
  BY DEF TInv, Typed
<1>2. PICK d \in Slots : \E waiting, behind \in Seq(Packets) :
          /\ inbox[a] = waiting \o (<<Event("PT_DISCONNECT", d)>> \o behind)
          /\ waiting \in Seq(MessagesTo(a)) /\ behind \in Seq(To(a))
          /\ inbox' = [inbox EXCEPT ![a] = ClearMsg(waiting, d) \o behind]
          /\ playerLeft' = [playerLeft EXCEPT ![a] = @ \cup {d}]
  BY DisconnectAt, Zenon
<1>3. PICK waiting \in Seq(Packets), behind \in Seq(Packets) :
          /\ inbox[a] = waiting \o (<<Event("PT_DISCONNECT", d)>> \o behind)
          /\ inbox' = [inbox EXCEPT ![a] = ClearMsg(waiting, d) \o behind]
  BY <1>2
<1>4. UNCHANGED <<phase, up, buffer, offset, packed, character>>
  BY DEF HandleDisconnect, programVars
<1>5. SameCharacters /\ \A p \in Slots : Listens(p)' => Listens(p)
  BY <1>4, SameCharactersHere DEF Listens
<1> DEFINE left == Event("PT_DISCONNECT", d)
           kept == ClearMsg(waiting, d)
<1>6. /\ <<left>> \in Seq(Packets) /\ kept \in Seq(Packets)
      /\ inbox'[a] = kept \o behind
      /\ \A p \in Slots : p # a => inbox'[p] = inbox[p]
  <2>1. <<left>> \in Seq(Packets)
    BY PacketTypes
  <2>2. kept \in Seq(Packets)
    BY AmongType DEF ClearMsg
  <2> HIDE DEF left
  <2> QED BY <1>1, <1>3, <2>1, <2>2 DEF Boxes
<1>7. ASSUME NEW q \in Slots, q # a, Listens(a)
      PROVE  Replaces(Coming(a, q)', Coming(a, q))
  <2> DEFINE b == Told(buffer[a], a, q)
             w == Told(waiting, a, q)
             l == Told(<<left>>, a, q)
             r == Told(behind, a, q)
             u == Told(up[q], a, q)
  <2>1. /\ b \in Seq(Packets) /\ w \in Seq(Packets) /\ l \in Seq(Packets)
        /\ r \in Seq(Packets) /\ u \in Seq(Packets)
    BY <1>6, ToldTypes, ComingTypes
  <2>2. Told(inbox[a], a, q) = w \o (l \o r)
    <3> DEFINE x == <<left>>
               y == x \o behind
    <3>1. x \in Seq(Packets)
      BY <1>6
    <3> HIDE DEF x
    <3>2. y \in Seq(Packets)
      BY <3>1, TypeParts
    <3>3. Told(x \o behind, a, q) = Told(x, a, q) \o r
      BY <3>1, ToldConcat, Zenon
    <3> HIDE DEF y
    <3>4. Told(waiting \o y, a, q) = w \o Told(y, a, q)
      BY <3>2, ToldConcat, Zenon
    <3> QED BY <1>3, <3>3, <3>4, Zenon DEF x, y
  <2>3. Told(inbox'[a], a, q) = Told(kept, a, q) \o r
    <3> HIDE DEF kept
    <3>1. Told(kept \o behind, a, q) = Told(kept, a, q) \o r
      BY <1>6, ToldConcat, ZenonT(40)
    <3> QED BY <1>6, <3>1, Zenon
  <2>4. Told(buffer'[a], a, q) = b /\ Told(up'[q], a, q) = u
    BY <1>4
  <2>5. CASE q = d
    <3>1. Told(kept, a, q) = <<>>
      <4> DEFINE S == {m \in Packets : m.src # d}
      <4>1. kept \in Seq(Packets \cap S)
        BY AmongType DEF ClearMsg
      <4>2. (Packets \cap S) \cap Tells(a, q) = {}
        BY <2>5, TellsTypes
      <4> HIDE DEF S, kept
      <4> QED BY <4>1, <4>2, AmongNone DEF Told
    <3>2. l = <<left>>
      <4>1. left \in Tells(a, q) /\ left \in Packets
        BY <2>5, TellsTypes
      <4> HIDE DEF left
      <4> QED BY <4>1, ToldOne
    <3>3. IsDisconnect(left) /\ left \in Packets
      BY PacketTypes
    <3>4. <<>> \o r = r
      BY <2>1
    <3>5. Coming(a, q)' = b \o (r \o u)
      <4>1. Told(inbox'[a], a, q) = r
        BY <2>3, <3>1, <3>4, Zenon
      <4> HIDE DEF b, r, u
      <4> QED BY <2>4, <4>1, ComingNext, Zenon
    <3>6. Coming(a, q) = b \o ((w \o (l \o r)) \o u)
      BY <2>2, ComingNext, Zenon
    <3> HIDE DEF b, w, l, r, u, left
    <3>7. Coming(a, q) = (b \o w) \o (<<left>> \o (r \o u)) /\ r \o u \in Seq(Packets)
      <4>1. b \o ((w \o (l \o r)) \o u) = (b \o w) \o (l \o (r \o u))
        <5>1. Regroups(b, w, l, r, u)
          BY <2>1, Regrouped
        <5> QED BY <5>1 DEF Regroups
      <4>2. r \o u \in Seq(Packets)
        BY <2>1, TypeParts
      <4> QED BY <3>2, <3>6, <4>1, <4>2, Zenon
    <3>8. Linked((b \o w) \o (<<left>> \o (r \o u)))
      <4>1. Linked(Coming(a, q))
        BY <1>7, Zenon DEF PInv, Arrives, Fits
      <4> QED BY <3>7, <4>1, Zenon
    <3>9. Replaces(b \o (r \o u), (b \o w) \o (<<left>> \o (r \o u)))
      BY <2>1, <3>3, <3>7, <3>8, ReplacesLeave
    <3> QED BY <3>5, <3>7, <3>9, Zenon
  <2>6. CASE q # d
    <3>1. Told(kept, a, q) = w
      <4> DEFINE S == {m \in Packets : m.src # d}
      <4>1. Tells(a, q) \subseteq S
        BY <2>6, TellsTypes
      <4>2. Among(Among(waiting, S), Tells(a, q)) = Among(waiting, Tells(a, q))
        <5> HIDE DEF S
        <5> QED BY <4>1, AmongTwice
      <4> QED BY <4>2, Zenon DEF Told, ClearMsg
    <3>2. l = <<>>
      <4>1. left \notin Tells(a, q) /\ left \in Packets
        BY <2>6, TellsTypes, PacketTypes
      <4> HIDE DEF left
      <4> QED BY <4>1, ToldOne
    <3>3. <<>> \o r = r
      BY <2>1
    <3>4. Told(inbox'[a], a, q) = Told(inbox[a], a, q)
      <4> HIDE DEF b, w, l, r, u, left, kept
      <4> QED BY <2>2, <2>3, <3>1, <3>2, <3>3, Zenon
    <3>5. Coming(a, q)' = Coming(a, q)
      BY <2>4, <3>4, ComingSame
    <3>6. Replaces(Coming(a, q), Coming(a, q))
      BY ComingTypes, ReplacesSame
    <3> QED BY <3>5, <3>6, Zenon
  <2> QED BY <2>5, <2>6
<1>8. ASSUME NEW p \in Slots, NEW q \in Slots, p # q, Listens(p)
      PROVE  Replaces(Coming(p, q)', Coming(p, q))
  <2>1. CASE p = a
    BY <1>7, <1>8, <2>1
  <2>2. CASE p # a
    <3>1. inbox'[p] = inbox[p]
      BY <1>6, <2>2
    <3>2. Coming(p, q)' = Coming(p, q)
      BY <1>4, <3>1, ComingSame
    <3>3. Replaces(Coming(p, q), Coming(p, q))
      BY ComingTypes, ReplacesSame
    <3> QED BY <3>2, <3>3, Zenon
  <2> QED BY <2>1, <2>2
<1>9. ASSUME NEW p \in Slots, NEW q \in Slots, p # q PROVE Linked(Told(up'[q], p, q))
  BY <1>4, <1>9 DEF PInv, UpLinked
<1>10. \A p, q \in Slots : offset'[p][q] = offset[p][q] /\ packed'[p][q] = packed[p][q]
  BY <1>4
<1> QED BY <1>5, <1>8, <1>9, <1>10, PStep

LEMMA GrowsBehind ==
    ASSUME NEW b \in Seq(Packets), NEW r \in Seq(Packets), NEW t, Grows(t, r)
    PROVE  Grows(b \o t, b \o r)
<1>1. PICK c \in Seq(Packets) : Linked(c) /\ FreshHead(c) /\ t = r \o c
  BY DEF Grows
<1>2. (b \o r) \o c = b \o (r \o c)
  BY PacketsAssociate, Zenon
<1> QED BY <1>1, <1>2, Zenon DEF Grows

LEMMA GrowsReplaces ==
    ASSUME NEW s \in Seq(Packets), NEW t, Grows(t, s)
    PROVE  Replaces(t, s)
<1>1. PICK c \in Seq(Packets) : Linked(c) /\ FreshHead(c) /\ t = s \o c
  BY DEF Grows
<1>2. Replaces(s \o c, s)
  BY <1>1, ReplacesMore
<1> QED BY <1>1, <1>2, Zenon

\* What a still has of q when it has taken a message.
Remains(a, boxes, q) == Told(buffer'[a], a, q) \o Rest(boxes, up, a, q)

LEMMA ReadsComes ==
    ASSUME TKInv, NEW a \in Slots, NEW m, NEW boxes, Reads(a, m, boxes), NEW q \in Slots
    PROVE  /\ Remains(a, boxes, q) \in Seq(Packets) /\ Told(<<m>>, a, q) \in Seq(Packets)
           /\ Coming(a, q) = Told(<<m>>, a, q) \o Remains(a, boxes, q)
<1>1. TInv /\ Boxes(boxes) /\ Boxes(inbox) /\ Buffers(buffer) /\ m \in MessagesTo(a) /\ m \in Packets
  BY ReadsTypes, PacketTypes DEF TKInv, TInv, Typed
<1> DEFINE f == Told(<<m>>, a, q)
           b == Told(buffer'[a], a, q)
           i == Told(boxes[a], a, q)
           u == Told(up[q], a, q)
<1>2. f \in Seq(Packets) /\ i \in Seq(Packets) /\ u \in Seq(Packets)
  <2>1. <<m>> \in Seq(Packets) /\ boxes[a] \in Seq(Packets)
    BY <1>1 DEF Boxes
  <2> QED BY <1>1, <2>1, ToldTypes, ComingTypes
<1>3. CASE ReplayMessage(a) /\ m = Head(buffer[a]) /\ boxes = inbox
  <2> DEFINE t == Tail(buffer[a])
  <2>1. /\ t \in Seq(Buffered(a)) /\ buffer[a] = <<m>> \o t /\ m \in Buffered(a)
    BY <1>1, <1>3, BufferHead DEF ReplayMessage
  <2>2. buffer'[a] = t
    BY <1>1, <1>3 DEF ReplayMessage, Buffers
  <2> HIDE DEF t
  <2>3. Told(<<m>> \o t, a, q) = Told(<<m>>, a, q) \o Told(t, a, q) /\ Told(t, a, q) \in Seq(Packets)
    <3>1. <<m>> \in Seq(Buffered(a))
      BY <2>1
    <3> QED BY <2>1, <3>1, ToldTypes, Zenon
  <2>4. b \in Seq(Packets) /\ Told(buffer[a], a, q) = f \o b
    BY <2>1, <2>2, <2>3, Zenon
  <2>5. Coming(a, q) = (f \o b) \o (i \o u)
    <3> HIDE DEF f, b
    <3> QED BY <1>3, <2>4, ComingNext, Zenon
  <2>6. Remains(a, boxes, q) = b \o (i \o u)
    BY DEF Remains, Rest
  <2> HIDE DEF f, b, i, u
  <2>7. i \o u \in Seq(Packets) /\ b \o (i \o u) \in Seq(Packets)
    <3>1. i \o u \in Seq(Packets)
      BY <1>2, TypeParts
    <3> QED BY <2>4, <3>1, TypeParts
  <2>8. (f \o b) \o (i \o u) = f \o (b \o (i \o u))
    BY <1>2, <2>4, <2>7, PacketsAssociate, Zenon
  <2> QED BY <1>2, <2>5, <2>6, <2>7, <2>8, Zenon DEF f
<1>4. CASE HandleMessage(a) /\ m = Head(inbox[a]) /\ boxes = [inbox EXCEPT ![a] = Tail(@)]
  <2> DEFINE t == Tail(inbox[a])
  <2>1. inbox[a] = <<m>> \o t /\ t \in Seq(Packets)
    BY <1>1, <1>4, InboxHead DEF HandleMessage
  <2>2. boxes[a] = t /\ buffer'[a] = <<>> /\ buffer[a] = <<>>
    <3>1. buffer'[a] = buffer[a] /\ phase[a] \in {"play", "cut"}
      BY <1>4 DEF HandleMessage, Plays
    <3>2. buffer[a] = <<>>
      BY <1>1, <3>1 DEF TInv, Standing
    <3> QED BY <1>1, <1>4, <3>1, <3>2 DEF Boxes
  <2> HIDE DEF t
  <2>3. Told(<<m>> \o t, a, q) = Told(<<m>>, a, q) \o Told(t, a, q)
    <3>1. <<m>> \in Seq(Packets)
      BY <1>1
    <3> QED BY <2>1, <3>1, ToldConcat, Zenon
  <2>4. b = <<>> /\ Told(buffer[a], a, q) = <<>> /\ Told(inbox[a], a, q) = f \o i
    <3>1. Told(<<>>, a, q) = <<>>
      BY <1>1, ToldTypes
    <3>2. b = <<>> /\ Told(buffer[a], a, q) = <<>>
      BY <2>2, <3>1, Zenon
    <3>3. Told(inbox[a], a, q) = f \o i
      BY <2>1, <2>2, <2>3, Zenon
    <3> QED BY <3>2, <3>3
  <2>5. Coming(a, q) = <<>> \o ((f \o i) \o u)
    <3> HIDE DEF f, i
    <3> QED BY <2>4, ComingNext, Zenon
  <2>6. Remains(a, boxes, q) = <<>> \o (i \o u)
    <3>1. Remains(a, boxes, q) = b \o (i \o u)
      BY DEF Remains, Rest
    <3> QED BY <2>4, <3>1, Zenon
  <2> HIDE DEF f, b, i, u
  <2>7. i \o u \in Seq(Packets) /\ (f \o i) \o u \in Seq(Packets)
    <3>1. f \o i \in Seq(Packets)
      BY <1>2, TypeParts
    <3> QED BY <1>2, <3>1, TypeParts
  <2>8. (f \o i) \o u = f \o (i \o u)
    BY <1>2, PacketsAssociate, Zenon
  <2>9. <<>> \o (i \o u) = i \o u /\ <<>> \o ((f \o i) \o u) = (f \o i) \o u
    BY <2>7
  <2> QED BY <1>2, <2>5, <2>6, <2>7, <2>8, <2>9, Zenon DEF f
<1> QED BY <1>3, <1>4, Zenon DEF Reads

LEMMA ReadsKnow ==
    ASSUME TKInv, PInv, NEW a \in Slots, NEW m, NEW boxes, Reads(a, m, boxes)
    PROVE  PInv'
<1>1. /\ TInv /\ m \in MessagesTo(a) /\ m \in MessagesType /\ Boxes(boxes)
      /\ Learned(a, m.src, boxes) /\ UNCHANGED phase /\ Programs /\ Buffers(buffer) /\ Boxes(inbox)
      /\ m.src \in Slots /\ m \in Packets
  BY ReadsTypes, PacketTypes DEF TKInv, TInv, Typed
<1>2. PICK messages : Sendable(messages, a) /\ Sends(a, messages, boxes)
  BY <1>1 DEF Learned
<1>3. ASSUME NEW p \in Slots, NEW q \in Slots, p # q
      PROVE  UpGrows(p, q) /\ (p \in connections => RestGrows(boxes, p, q))
  BY <1>1, <1>2, <1>3, SendsComes
<1>4. ASSUME NEW p \in Slots, NEW q \in Slots, p # q PROVE Linked(Told(up'[q], p, q))
  <2>1. PICK c \in Seq(Packets) :
            Linked(c) /\ FreshHead(c) /\ Told(up'[q], p, q) = Told(up[q], p, q) \o c
    <3>1. UpGrows(p, q)
      BY <1>3, <1>4
    <3> QED BY <3>1 DEF UpGrows, Grows
  <2>2. Linked(Told(up[q], p, q)) /\ Told(up[q], p, q) \in Seq(Packets)
    BY <1>1, <1>4, ComingTypes DEF PInv, UpLinked
  <2>3. Linked(Told(up[q], p, q) \o c)
    BY <2>1, <2>2, LinkedConcat
  <2> QED BY <2>1, <2>3, Zenon
\* The others.
<1>5. ASSUME NEW p \in Slots, NEW q \in Slots, p # q, p # a, Listens(p)
      PROVE  /\ offset'[p][q] = offset[p][q] /\ packed'[p][q] = packed[p][q]
             /\ Replaces(Coming(p, q)', Coming(p, q))
  <2>1. buffer'[p] = buffer[p] /\ boxes[p] = inbox[p] /\ p \in connections
    <3>1. buffer'[p] = buffer[p]
      BY <1>1, <1>5 DEF Reads, ReplayMessage, HandleMessage, Buffers
    <3>2. boxes[p] = inbox[p]
      BY <1>1, <1>5 DEF Reads, Boxes
    <3>3. p \in connections
      BY <1>1, <1>5 DEF Listens, TInv, Standing
    <3> QED BY <3>1, <3>2, <3>3
  <2> DEFINE b == Told(buffer[p], p, q)
             r == Rest(inbox, up, p, q)
             r1 == Told(inbox'[p], p, q) \o Told(up'[q], p, q)
  <2>2. b \in Seq(Packets) /\ r \in Seq(Packets)
    BY <1>1, ComingTypes
  <2>3. Grows(r1, r)
    <3>1. RestGrows(boxes, p, q)
      BY <1>3, <1>5, <2>1
    <3>2. Rest(boxes, up, p, q) = r
      BY <2>1, Zenon DEF Rest
    <3>3. Rest(inbox', up', p, q) = r1
      BY DEF Rest
    <3> HIDE DEF r, r1
    <3> QED BY <3>1, <3>2, <3>3, Zenon DEF RestGrows
  <2>4. Coming(p, q)' = b \o r1 /\ Coming(p, q) = b \o r
    <3>1. Coming(p, q)' = b \o r1
      BY <2>1, ComingNext, Zenon
    <3>2. Coming(p, q) = b \o r
      BY DEF Coming
    <3> QED BY <3>1, <3>2
  <2> HIDE DEF b, r, r1
  <2>5. Grows(b \o r1, b \o r) /\ b \o r \in Seq(Packets)
    BY <2>2, <2>3, GrowsBehind, TypeParts
  <2>6. Replaces(b \o r1, b \o r)
    BY <2>5, GrowsReplaces
  <2>7. offset'[p] = offset[p] /\ packed'[p] = packed[p]
    BY <1>1, <1>5 DEF Learned
  <2> QED BY <2>4, <2>6, <2>7, Zenon
\* What comes to a behind the message.
<1>6. ASSUME NEW q \in Slots, q # a
      PROVE  Grows(Coming(a, q)', Remains(a, boxes, q))
  <2> DEFINE b == Told(buffer'[a], a, q)
             r == Rest(boxes, up, a, q)
             r1 == Told(inbox'[a], a, q) \o Told(up'[q], a, q)
  <2>1. Grows(r1, r)
    <3>1. a \in connections
      BY <1>1, ReadsTypes DEF TInv, Standing
    <3>2. RestGrows(boxes, a, q)
      BY <1>3, <1>6, <3>1
    <3>3. Rest(inbox', up', a, q) = r1
      BY DEF Rest
    <3> HIDE DEF r, r1
    <3> QED BY <3>2, <3>3, Zenon DEF RestGrows, r
  <2>2. b \in Seq(Packets) /\ r \in Seq(Packets)
    <3>1. buffer'[a] \in Seq(Buffered(a))
      BY ReadsTypes DEF TKInv, TInv, Typed, Buffers, Buffered, MessagesTo, MessagesType, EventsType
    <3>2. b \in Seq(Packets)
      BY <3>1, ToldTypes
    <3>3. Told(boxes[a], a, q) \in Seq(Packets) /\ Told(up[q], a, q) \in Seq(Packets)
      <4>1. boxes[a] \in Seq(Packets)
        BY <1>1 DEF Boxes
      <4> QED BY <1>1, <4>1, ToldTypes, ComingTypes
    <3>4. r \in Seq(Packets)
      BY <3>3, TypeParts DEF Rest
    <3> QED BY <3>2, <3>4
  <2>3. Coming(a, q)' = b \o r1
    BY ComingNext
  <2>4. Remains(a, boxes, q) = b \o r
    BY DEF Remains
  <2> HIDE DEF b, r, r1
  <2>5. Grows(b \o r1, b \o r)
    BY <2>1, <2>2, GrowsBehind
  <2> QED BY <2>3, <2>4, <2>5, Zenon
\* Messages that say nothing of the character of q.
<1>7. ASSUME NEW q \in Slots, q # a, Told(<<m>>, a, q) = <<>>
      PROVE  Replaces(Coming(a, q)', Coming(a, q))
  <2>1. /\ Remains(a, boxes, q) \in Seq(Packets)
        /\ Coming(a, q) = <<>> \o Remains(a, boxes, q)
    BY <1>7, ReadsComes, Zenon
  <2>2. <<>> \o Remains(a, boxes, q) = Remains(a, boxes, q)
    BY <2>1
  <2>3. Replaces(Coming(a, q)', Remains(a, boxes, q))
    BY <1>6, <1>7, <2>1, GrowsReplaces
  <2> QED BY <2>1, <2>2, <2>3, Zenon
<1>8. CASE m.type \in InfoCommands /\ m.src # a
  <2> DEFINE q == m.src
  <2>1. RecvPlrInfo(a, m, boxes)
    BY <1>8 DEF Reads, ReplayMessage, HandleMessage, ParseCmd
  <2>2. Told(<<m>>, a, q) = <<m>>
    <3>1. m \in Tells(a, q)
      BY <1>1, <1>8, TellsTypes
    <3> QED BY <1>1, <3>1, ToldOne
  <2>3. Remains(a, boxes, q) \in Seq(Packets) /\ Coming(a, q) = <<m>> \o Remains(a, boxes, q)
    BY <1>1, <2>2, ReadsComes, Zenon
  <2>4. ASSUME Listens(a)
        PROVE  /\ Arrives(a, q)'
               /\ \/ character'[a][q] = character[a][q]
                  \/ \E l \in Lives : character'[a][q] = PackOf(l)
    <3>1. Fits(Coming(a, q), offset[a][q], packed[a][q]) /\ OneLife(offset[a][q], packed[a][q])
      BY <1>1, <1>8, <2>4 DEF PInv, Arrives
    <3> DEFINE r == Remains(a, boxes, q)
    <3> HIDE DEF q, r
    <3>2. Fits(<<m>> \o r, offset[a][q], packed[a][q])
      BY <2>3, <3>1, Zenon DEF r
    <3>3. (<<m>> \o r)[1] = m /\ <<m>> \o r # <<>>
      BY <1>1, <2>3 DEF r
    <3>4. Linked(<<m>> \o r) /\ Starts(m, offset[a][q], packed[a][q])
      BY <3>2, <3>3, Zenon DEF Fits
    <3>5. /\ OneLife(offset[a][q], packed[a][q])'
          /\ \A t \in Seq(Packets) : Linked(<<m>> \o t) => Fits(t, offset'[a][q], packed'[a][q])
          /\ \/ character'[a][q] = character[a][q]
             \/ \E l \in Lives : character'[a][q] = PackOf(l)
      BY <1>1, <1>8, <2>1, <3>1, <3>4, RecvChunks DEF q
    <3>6. OneLife(offset'[a][q], packed'[a][q])
      BY <3>5 DEF OneLife, Lives
    <3>7. r \in Seq(Packets) /\ Fits(r, offset'[a][q], packed'[a][q])
      BY <2>3, <3>4, <3>5 DEF r
    <3>8. Replaces(Coming(a, q)', r)
      <4>1. q \in Slots /\ q # a
        BY <1>1, <1>8 DEF q
      <4> QED BY <1>6, <2>3, <4>1, GrowsReplaces DEF r
    <3>9. Fits(Coming(a, q)', offset'[a][q], packed'[a][q])
      <4> DEFINE t == Coming(a, q)'
      <4>1. Replaces(t, r)
        BY <3>8
      <4> HIDE DEF t
      <4>2. Fits(t, offset'[a][q], packed'[a][q])
        BY <3>7, <4>1, ReplacesFits
      <4> QED BY <4>2 DEF t
    <3>10. q \in Slots
      BY <1>1 DEF q
    <3>11. Arrives(a, q)'
      BY <3>6, <3>9, <3>10, ArrivesNext
    <3> QED BY <3>5, <3>11
  <2>5. ASSUME NEW r \in Slots, r # q
        PROVE  /\ offset'[a][r] = offset[a][r] /\ packed'[a][r] = packed[a][r]
               /\ character'[a][r] = character[a][r]
               /\ Told(<<m>>, a, r) = <<>>
    <3>1. <<m>> \in Seq(Of(q))
      BY <1>1 DEF Of
    <3>2. Told(<<m>>, a, r) = <<>>
      BY <1>1, <2>5, <3>1, ToldTypes
    <3> QED BY <1>1, <2>5, <3>2 DEF Learned
  <2> HIDE DEF q
  <2>6. SameCharacters
    <3> SUFFICES ASSUME NEW p \in Slots, NEW r \in Slots, phase'[p] # "cut"
                 PROVE  \/ phase[p] # "cut" /\ character'[p][r] = character[p][r]
                        \/ \E l \in Lives : character'[p][r] = PackOf(l)
      BY DEF SameCharacters
    <3>1. phase[p] # "cut"
      BY <1>1
    <3>2. CASE p # a
      BY <1>1, <3>1, <3>2 DEF Learned
    <3>3. CASE p = a /\ r # q
      BY <2>5, <3>1, <3>3
    <3>4. CASE p = a /\ r = q
      <4>1. Listens(a)
        BY <3>1, <3>4, ReadsTypes DEF Listens
      <4> QED BY <2>4, <3>1, <3>4, <4>1
    <3> QED BY <3>2, <3>3, <3>4
  <2>7. ASSUME NEW p \in Slots, NEW r \in Slots, p # r, Listens(p)'
        PROVE  \/ Arrives(p, r)'
               \/ /\ Listens(p)
                  /\ offset'[p][r] = offset[p][r] /\ packed'[p][r] = packed[p][r]
                  /\ Replaces(Coming(p, r)', Coming(p, r))
    <3>1. Listens(p)
      BY <1>1, <2>7 DEF Listens
    <3>2. CASE p # a
      BY <1>5, <2>7, <3>1, <3>2
    <3>3. CASE p = a /\ r # q
      BY <1>7, <2>5, <2>7, <3>1, <3>3
    <3>4. CASE p = a /\ r = q
      BY <2>4, <3>1, <3>4
    <3> QED BY <3>2, <3>3, <3>4
  <2> QED BY <1>1, <1>4, <2>6, <2>7, PStep
<1>9. CASE m.type \notin InfoCommands \/ m.src = a
  <2>1. ASSUME NEW r \in Slots, r # a
        PROVE  /\ offset'[a][r] = offset[a][r] /\ packed'[a][r] = packed[a][r]
               /\ character'[a][r] = character[a][r]
               /\ Told(<<m>>, a, r) = <<>>
    <3>1. Told(<<m>>, a, r) = <<>>
      <4>1. m \notin Tells(a, r)
        BY <1>1, <1>9, <2>1, TellsTypes
      <4> QED BY <1>1, <4>1, ToldOne
    <3>2. CASE m.src = a
      BY <1>1, <2>1, <3>1, <3>2 DEF Learned
    <3>3. CASE m.type \notin InfoCommands
      <4>1. UNCHANGED <<offset, packed, character>>
        BY <3>3 DEF Reads, ReplayMessage, HandleMessage, ParseCmd
      <4> QED BY <3>1, <4>1
    <3> QED BY <1>9, <3>2, <3>3
  <2>2. SameCharacters
    <3>1. \A p, r \in Slots : character'[p][r] = character[p][r]
      <4>1. character'[a][a] = character[a][a]
        <5>1. CASE m.src = a
          BY <1>1, <5>1 DEF Learned
        <5>2. CASE m.src # a
          BY <1>1, <5>2 DEF Learned
        <5> QED BY <5>1, <5>2
      <4> QED BY <1>1, <2>1, <4>1 DEF Learned
    <3> QED BY <1>1, <3>1 DEF SameCharacters
  <2>3. ASSUME NEW p \in Slots, NEW r \in Slots, p # r, Listens(p)'
        PROVE  /\ Listens(p)
               /\ offset'[p][r] = offset[p][r] /\ packed'[p][r] = packed[p][r]
               /\ Replaces(Coming(p, r)', Coming(p, r))
    <3>1. Listens(p)
      BY <1>1, <2>3 DEF Listens
    <3>2. CASE p # a
      BY <1>5, <2>3, <3>1, <3>2
    <3>3. CASE p = a
      BY <1>7, <2>1, <2>3, <3>1, <3>3
    <3> QED BY <3>2, <3>3
  <2> QED BY <1>1, <1>4, <2>2, <2>3, PStep
<1> QED BY <1>8, <1>9

LEMMA SendKnows ==
    ASSUME TKInv, PInv, NEW a \in Slots, NetInit(a) \/ EnterGame(a) \/ ChangeLevel(a)
    PROVE  PInv'
<1>1. TInv /\ Programs /\ phase \in [Slots -> Phases] /\ (phase[a] # "out" => life[a] \in Lives)
  BY DEF TKInv, TInv, Typed, Standing
<1>2. CASE NetInit(a)
  <2>1. /\ phase[a] = "joined" /\ phase' = [phase EXCEPT ![a] = "resync"]
        /\ character' = [character EXCEPT ![a][a] = PackOf(life[a])]
        /\ Sends(a, Info("CMD_SEND_PLRINFO", a, SNPLAYER_OTHERS), inbox)
        /\ UNCHANGED <<buffer, offset, packed>>
    BY <1>2 DEF NetInit
  <2>2. Sendable(Info("CMD_SEND_PLRINFO", a, SNPLAYER_OTHERS), a)
    BY <1>2, NetInitTypes
  <2>3. SameCharacters
    <3>1. /\ \A p \in Slots : phase[p] = "cut" => phase'[p] = "cut"
          /\ \A p, q \in Slots : \/ character'[p][q] = character[p][q]
                                 \/ character'[p][q] = PackOf(life[a])
      BY <1>1, <2>1 DEF Programs
    <3> QED BY <1>1, <2>1, <3>1 DEF SameCharacters
  <2>4. \A p \in Slots : Listens(p)' => Listens(p)
    BY <1>1, <2>1 DEF Listens
  <2> QED BY <1>1, <2>1, <2>2, <2>3, <2>4, SendArrives
<1>3. CASE EnterGame(a) \/ ChangeLevel(a)
  <2>1. /\ phase' = phase \/ (phase[a] = "load" /\ phase' = [phase EXCEPT ![a] = "replay"])
        /\ Sends(a, JoinLevel(a), inbox)
        /\ UNCHANGED <<buffer, offset, packed, character>>
    BY <1>3 DEF EnterGame, ChangeLevel, programVars
  <2>2. Sendable(JoinLevel(a), a)
    BY <1>3, JoinLevelTypes
  <2>3. SameCharacters
    <3>1. \A p \in Slots : phase[p] = "cut" => phase'[p] = "cut"
      BY <1>1, <2>1
    <3> QED BY <2>1, <3>1, SameCharactersHere
  <2>4. \A p \in Slots : Listens(p)' => Listens(p)
    BY <1>1, <2>1 DEF Listens
  <2> QED BY <1>1, <2>1, <2>2, <2>3, <2>4, SendArrives
<1> QED BY <1>2, <1>3

LEMMA PInvInit == Init => PInv
<1> SUFFICES ASSUME Init PROVE PInv
  OBVIOUS
<1>1. TInv
  BY TKInvInit DEF TKInv
<1>2. 1 \in Lives
  BY Constants
<1>3. ASSUME NEW p \in Slots, NEW q \in Slots PROVE Coming(p, q) = <<>> /\ Told(up[q], p, q) = <<>>
  <2>1. buffer[p] = <<>> /\ inbox[p] = <<>> /\ up[q] = <<>>
    BY DEF Init
  <2>2. Told(<<>>, p, q) = <<>>
    BY ToldTypes
  <2>3. Told(buffer[p], p, q) = <<>> /\ Told(inbox[p], p, q) = <<>> /\ Told(up[q], p, q) = <<>>
    BY <2>1, <2>2, Zenon
  <2>4. Coming(p, q) = <<>> \o (<<>> \o <<>>)
    BY <2>3, ComingNext, Zenon
  <2>5. <<>> \o (<<>> \o <<>>) = <<>>
    <3>1. <<>> \in Seq(Packets)
      OBVIOUS
    <3> QED BY <3>1
  <2> QED BY <2>3, <2>4, <2>5, Zenon
<1>4. Linked(<<>>)
  BY LinkedShort
<1>5. UpLinked
  BY <1>3, <1>4, Zenon DEF UpLinked
<1>6. ASSUME NEW p \in Slots, NEW q \in Slots PROVE Arrives(p, q)
  <2>1. offset[p][q] = 0
    BY DEF Init
  <2>2. Fits(<<>>, 0, packed[p][q]) /\ OneLife(0, packed[p][q])
    BY <1>2, <1>4 DEF Fits, OneLife
  <2> QED BY <1>3, <2>1, <2>2, Zenon DEF Arrives
<1>7. ASSUME NEW p \in Slots, NEW q \in Slots PROVE Known1(p, q)
  BY <1>2 DEF Init, Known1, IsValid, Nobody, KnownAtFirst
<1> QED BY <1>5, <1>6, <1>7 DEF PInv

LEMMA PInvStep == TKInv /\ PInv /\ [Next]_vars => PInv'
<1> SUFFICES ASSUME TKInv, PInv, [Next]_vars PROVE PInv'
  OBVIOUS
<1>0. TInv /\ ActiveKnown
  BY DEF TKInv
<1>1. CASE UNCHANGED vars
  <2>1. /\ UNCHANGED <<phase, up, buffer, inbox, offset, packed, character>>
        /\ SameCharacters /\ \A p \in Slots : Listens(p)' => Listens(p)
    BY <1>1, SameCharactersHere DEF vars, netVars, programVars, Listens
  <2>2. ASSUME NEW p \in Slots, NEW q \in Slots PROVE Coming(p, q)' = Coming(p, q)
    BY <2>1, ComingSame
  <2> QED BY <1>0, <2>1, <2>2, QuietStep
<1> SUFFICES ASSUME Next PROVE PInv'
  BY <1>1
<1> PICK p \in Slots :
        \/ Join(p) \/ NetInit(p) \/ BufferMessage(p) \/ BufferDrops(p)
        \/ ResyncEnds(p) \/ EnterGame(p) \/ ReplayDrop(p) \/ ReplayMessage(p)
        \/ DiscardRest(p) \/ ReplayEnds(p) \/ ClearPlayerLeft(p) \/ HandleMessage(p)
        \/ ChangeLevel(p) \/ HandleDisconnect(p) \/ Relay(p) \/ Leave(p) \/ Crash(p)
  BY Zenon DEF Next
<1>2. CASE Join(p)
  BY <1>0, <1>2, JoinKnows
<1>3. CASE NetInit(p) \/ EnterGame(p) \/ ChangeLevel(p)
  BY <1>3, SendKnows
<1>4. CASE BufferMessage(p)
  BY <1>0, <1>4, BufferMessageKnows
<1>5. CASE BufferDrops(p)
  BY <1>0, <1>5, BufferDropsKnows
<1>6. CASE ResyncEnds(p) \/ DiscardRest(p) \/ ReplayEnds(p)
  BY <1>0, <1>6, PhaseKnows
<1>7. CASE ReplayDrop(p) \/ ClearPlayerLeft(p)
  BY <1>0, <1>7, LeavesKnow
<1>8. CASE ReplayMessage(p) \/ HandleMessage(p)
  <2>1. \E m, boxes : Reads(p, m, boxes)
    BY <1>8, Zenon DEF Reads
  <2> QED BY <2>1, ReadsKnow
<1>9. CASE HandleDisconnect(p)
  BY <1>0, <1>9, HandleDisconnectKnows
<1>10. CASE Relay(p)
  BY <1>0, <1>10, RelayKnows
<1>11. CASE Leave(p)
  BY <1>0, <1>11, LeaveKnows
<1>12. CASE Crash(p)
  BY <1>0, <1>12, CrashKnows
<1> QED
  BY <1>2, <1>3, <1>4, <1>5, <1>6, <1>7, <1>8, <1>9, <1>10, <1>11, <1>12

LEMMA PInvImplies == ActiveKnown /\ PInv => OneCharacter
BY DEF ActiveKnown, PInv, Known1, OneCharacter

(* A player that a program takes as valid has the character of one of the       *)
(* player's lives, never chunks of two: a program that joins, leaves, crashes   *)
(* and takes the slot again in the middle of its chunks does not get its former *)
(* character mixed with the new one by recv_plrinfo (multi.cpp), unless the     *)
(* receiver has discarded messages (phase "cut").                               *)
THEOREM CharactersWhole == Spec => []OneCharacter
<1>1. TKInv /\ PInv /\ [Next]_vars => (TKInv /\ PInv)'
  BY TKInvStep, PInvStep
<1>2. TKInv /\ PInv => OneCharacter
  BY PInvImplies DEF TKInv
<1> QED BY TKInvInit, PInvInit, <1>1, <1>2, PTL DEF Spec

--------------------------------------------------------------------------------
(* What there is of a player that has left.                                    *)

Items == Packets \cup EventsType({"FAKE_CMD_DROPID"})
From(q) == {m \in Items : m.src = q}
IsLeave(m) == m.type \in {"PT_DISCONNECT", "FAKE_CMD_DROPID"}

\* There is nothing of q in s, and the last of q in s is its leave.
Silent(s, q) == Among(s, From(q)) = <<>>
EndsInLeave(s) == s # <<>> /\ IsLeave(s[Len(s)])
Closed(s, q) == EndsInLeave(Among(s, From(q)))

LEMMA ItemTypes ==
    /\ Packets \subseteq Items
    /\ \A p : To(p) \subseteq Items /\ MessagesTo(p) \subseteq Items /\ Buffered(p) \subseteq Items
    /\ EventsType({"FAKE_CMD_DROPID"}) \subseteq Items
    /\ \A p : \A m \in MessagesTo(p) : m \in Packets /\ ~ IsLeave(m)
    /\ \A q \in Slots : /\ Event("PT_DISCONNECT", q) \in Packets
                        /\ IsLeave(Event("PT_DISCONNECT", q)) /\ Event("PT_DISCONNECT", q).src = q
                        /\ Event("FAKE_CMD_DROPID", q) \in EventsType({"FAKE_CMD_DROPID"})
    /\ \A m \in EventsType({"FAKE_CMD_DROPID"}) : IsLeave(m)
BY DEF Items, Packets, To, MessagesTo, Buffered, MessagesType, InfoCommands, EventsType, Event, IsLeave

LEMMA LeavesConcat ==
    ASSUME NEW s \in Seq(Items), NEW t \in Seq(Items)
    PROVE  /\ s \o t = <<>> <=> s = <<>> /\ t = <<>>
           /\ EndsInLeave(s \o t) <=> EndsInLeave(t) \/ (t = <<>> /\ EndsInLeave(s))
<1>1. CASE t = <<>>
  BY <1>1 DEF EndsInLeave
<1>2. CASE t # <<>>
  <2>1. s \o t # <<>> /\ (s \o t)[Len(s \o t)] = t[Len(t)]
    BY <1>2
  <2> QED BY <1>2, <2>1 DEF EndsInLeave
<1> QED BY <1>1, <1>2

LEMMA GoneConcat ==
    ASSUME NEW s \in Seq(Items), NEW t \in Seq(Items), NEW q
    PROVE  /\ Silent(s \o t, q) <=> Silent(s, q) /\ Silent(t, q)
           /\ Closed(s \o t, q) <=> Closed(t, q) \/ (Silent(t, q) /\ Closed(s, q))
<1>1. /\ Among(s \o t, From(q)) = Among(s, From(q)) \o Among(t, From(q))
      /\ Among(s, From(q)) \in Seq(Items) /\ Among(t, From(q)) \in Seq(Items)
  <2>1. Among(s \o t, From(q)) = Among(s, From(q)) \o Among(t, From(q))
    BY AmongConcat
  <2>2. Among(s, From(q)) \in Seq(Items) /\ Among(t, From(q)) \in Seq(Items)
    BY AmongType
  <2> QED BY <2>1, <2>2
<1> QED BY <1>1, LeavesConcat DEF Silent, Closed

LEMMA GoneOne ==
    ASSUME NEW m \in Items, NEW q
    PROVE  /\ Silent(<<m>>, q) <=> m.src # q
           /\ Closed(<<m>>, q) <=> m.src = q /\ IsLeave(m)
<1>1. Among(<<m>>, From(q)) = IF m \in From(q) THEN <<m>> ELSE <<>>
  <2>1. <<>> \in Seq(Items) /\ Append(<<>>, m) = <<m>>
    OBVIOUS
  <2>2. Among(Append(<<>>, m), From(q)) =
            IF m \in From(q) THEN Append(Among(<<>>, From(q)), m) ELSE Among(<<>>, From(q))
    BY <2>1, AmongAppend
  <2> QED BY <2>1, <2>2, AmongEmpty
<1>2. <<m>> # <<>> /\ <<m>>[Len(<<m>>)] = m
  OBVIOUS
<1>3. m \in From(q) <=> m.src = q
  BY DEF From
<1> QED BY <1>1, <1>2, <1>3 DEF Silent, Closed, EndsInLeave

LEMMA GoneEmpty ==
    ASSUME NEW q
    PROVE  Silent(<<>>, q) /\ ~ Closed(<<>>, q)
BY AmongEmpty DEF Silent, Closed, EndsInLeave

\* What is not of q.
LEMMA GoneOthers ==
    ASSUME NEW S, S \subseteq Items, NEW q, \A m \in S : m.src # q, NEW s \in Seq(S)
    PROVE  Silent(s, q) /\ ~ Closed(s, q)
<1>1. Among(s, From(q)) = <<>>
  BY AmongNone DEF From
<1> QED BY <1>1 DEF Silent, Closed, EndsInLeave

\* ClearMsg.
LEMMA GoneCleared ==
    ASSUME NEW w \in Seq(Packets), NEW d \in Slots, NEW q \in Slots
    PROVE  /\ ClearMsg(w, d) \in Seq(Packets)
           /\ q = d => Silent(ClearMsg(w, d), q)
           /\ q # d => /\ Silent(ClearMsg(w, d), q) <=> Silent(w, q)
                       /\ Closed(ClearMsg(w, d), q) <=> Closed(w, q)
<1> DEFINE others == {m \in Packets : m.src # d}
<1>1. ClearMsg(w, d) \in Seq(Packets) /\ ClearMsg(w, d) \in Seq(others)
  BY AmongType DEF ClearMsg
<1>2. q = d => Silent(ClearMsg(w, d), q)
  BY <1>1, ItemTypes, GoneOthers
<1>3. ASSUME q # d PROVE Among(ClearMsg(w, d), From(q)) = Among(w, From(q))
  <2>1. Packets \cap From(q) \subseteq others
    BY <1>3 DEF From
  <2> QED BY <2>1, AmongTwice DEF ClearMsg
<1> QED BY <1>1, <1>2, <1>3 DEF Silent, Closed

\* What is to come of q, which has left, is closed by its leave, or nothing is to come and
\* it is not active.  In what order: the buffer, the pending leaves, the inbox.
Forget(box, left, buf, active, q) ==
    \/ Closed(box, q)
    \/ /\ Silent(box, q)
       /\ q \in left \/ Closed(buf, q) \/ (Silent(buf, q) /\ q \notin active)

LEMMA ClosedSpeaks ==
    ASSUME NEW s, NEW q
    PROVE  Closed(s, q) => ~ Silent(s, q)
BY DEF Closed, Silent, EndsInLeave

LEMMA ForgetGrows ==
    ASSUME NEW box \in Seq(Packets), NEW more \in Seq(Packets), NEW q, Silent(more, q),
           NEW left, NEW buf, NEW active, Forget(box, left, buf, active, q)
    PROVE  Forget(box \o more, left, buf, active, q)
<1>1. box \in Seq(Items) /\ more \in Seq(Items)
  BY ItemTypes
<1> QED BY <1>1, GoneConcat DEF Forget

\* The first message of an inbox is buffered, or read.
LEMMA ForgetHead ==
    ASSUME NEW m \in Packets, ~ IsLeave(m), NEW box \in Seq(Packets), NEW buf \in Seq(Items), NEW q,
           NEW left, NEW active, NEW active2, active2 \subseteq active \cup {m.src},
           Forget(<<m>> \o box, left, buf, active, q)
    PROVE  /\ Forget(box, left, buf, active2, q)
           /\ left = {} => Forget(box, left, Append(buf, m), active, q)
<1>1. <<m>> \in Seq(Items) /\ box \in Seq(Items) /\ m \in Items
  BY ItemTypes
<1>2. Append(buf, m) = buf \o <<m>>
  OBVIOUS
<1>3. /\ Silent(<<m>> \o box, q) <=> m.src # q /\ Silent(box, q)
      /\ Closed(<<m>> \o box, q) <=> Closed(box, q)
  BY <1>1, GoneConcat, GoneOne
<1>4. /\ Silent(buf \o <<m>>, q) <=> m.src # q /\ Silent(buf, q)
      /\ m.src # q => (Closed(buf \o <<m>>, q) <=> Closed(buf, q))
  BY <1>1, GoneConcat, GoneOne
<1>5. CASE m.src = q
  BY <1>3, <1>5 DEF Forget
<1>6. CASE m.src # q
  <2>1. q \in active2 => q \in active
    BY <1>6
  <2> QED BY <1>2, <1>3, <1>4, <1>6, <2>1 DEF Forget
<1> QED BY <1>5, <1>6

\* A buffered message is read.
LEMMA ForgetRead ==
    ASSUME NEW m \in Packets, ~ IsLeave(m), NEW buf \in Seq(Items), NEW q, NEW box,
           NEW left, NEW active, NEW active2, active2 \subseteq active \cup {m.src},
           Forget(box, left, <<m>> \o buf, active, q)
    PROVE  Forget(box, left, buf, active2, q)
<1>1. <<m>> \in Seq(Items) /\ m \in Items
  BY ItemTypes
<1>2. /\ Silent(<<m>> \o buf, q) <=> m.src # q /\ Silent(buf, q)
      /\ Closed(<<m>> \o buf, q) <=> Closed(buf, q)
  BY <1>1, GoneConcat, GoneOne
<1> QED BY <1>2 DEF Forget

\* Pending leaves are buffered behind what came before them.
LEMMA ForgetDrops ==
    ASSUME NEW buf \in Seq(Items), NEW drops \in Seq(Items), NEW q, NEW box, NEW left, NEW active,
           q \in left => Closed(drops, q), q \notin left => Silent(drops, q),
           Forget(box, left, buf, active, q)
    PROVE  Forget(box, {}, buf \o drops, active, q)
BY GoneConcat DEF Forget

\* A buffered leave is handled, and nothing else.
LEMMA ForgetDrop ==
    ASSUME NEW d \in Items, IsLeave(d), NEW buf \in Seq(Items), NEW q, NEW box,
           NEW active, NEW active2, active2 \subseteq active, d.src = q => q \notin active2,
           Forget(box, {}, <<d>> \o buf, active, q)
    PROVE  Forget(box, {}, buf, active2, q)
<1>1. <<d>> \in Seq(Items)
  OBVIOUS
<1>2. /\ Silent(<<d>> \o buf, q) <=> d.src # q /\ Silent(buf, q)
      /\ Closed(<<d>> \o buf, q) <=> Closed(buf, q) \/ (Silent(buf, q) /\ d.src = q)
  BY <1>1, GoneConcat, GoneOne
<1> QED BY <1>2 DEF Forget

\* Pending leaves are handled, and nothing is buffered.
LEMMA ForgetLeft ==
    ASSUME NEW q, NEW box, NEW left, NEW active, NEW active2, active2 \subseteq active,
           q \in left => q \notin active2, Forget(box, left, <<>>, active, q)
    PROVE  Forget(box, {}, <<>>, active2, q)
BY GoneEmpty DEF Forget

\* A leave becomes pending, and what waits in front of it is dropped.
LEMMA ForgetLeave ==
    ASSUME NEW waiting \in Seq(Packets), NEW behind \in Seq(Packets), NEW d \in Slots,
           NEW q \in Slots, NEW left, NEW buf, NEW active,
           Forget(waiting \o (<<Event("PT_DISCONNECT", d)>> \o behind), left, buf, active, q)
    PROVE  Forget(ClearMsg(waiting, d) \o behind, left \cup {d}, buf, active, q)
<1> DEFINE leave == Event("PT_DISCONNECT", d)
<1>1. leave \in Items /\ IsLeave(leave) /\ leave.src = d /\ waiting \in Seq(Items)
      /\ behind \in Seq(Items) /\ ClearMsg(waiting, d) \in Seq(Items)
  BY ItemTypes, GoneCleared
<1> HIDE DEF leave
<1>2. <<leave>> \in Seq(Items) /\ <<leave>> \o behind \in Seq(Items)
  BY <1>1
<1>3. /\ Silent(<<leave>> \o behind, q) <=> q # d /\ Silent(behind, q)
      /\ Closed(<<leave>> \o behind, q) <=> Closed(behind, q) \/ (Silent(behind, q) /\ q = d)
  BY <1>1, <1>2, GoneConcat, GoneOne
<1>4. /\ Silent(waiting \o (<<leave>> \o behind), q) <=>
             Silent(waiting, q) /\ Silent(<<leave>> \o behind, q)
      /\ Closed(waiting \o (<<leave>> \o behind), q) <=>
             \/ Closed(<<leave>> \o behind, q)
             \/ Silent(<<leave>> \o behind, q) /\ Closed(waiting, q)
  BY <1>1, <1>2, GoneConcat
<1>5. /\ Silent(ClearMsg(waiting, d) \o behind, q) <=>
             Silent(ClearMsg(waiting, d), q) /\ Silent(behind, q)
      /\ Closed(ClearMsg(waiting, d) \o behind, q) <=>
             \/ Closed(behind, q)
             \/ Silent(behind, q) /\ Closed(ClearMsg(waiting, d), q)
  BY <1>1, GoneConcat
<1>6. Forget(waiting \o (<<leave>> \o behind), left, buf, active, q)
  BY DEF leave
<1>7. CASE q = d
  <2>1. Silent(ClearMsg(waiting, d), q)
    BY <1>7, GoneCleared
  <2> QED BY <1>3, <1>4, <1>5, <1>6, <1>7, <2>1 DEF Forget
<1>8. CASE q # d
  <2>1. /\ Silent(ClearMsg(waiting, d), q) <=> Silent(waiting, q)
        /\ Closed(ClearMsg(waiting, d), q) <=> Closed(waiting, q)
    BY <1>8, GoneCleared
  <2> QED BY <1>3, <1>4, <1>5, <1>6, <1>8, <2>1 DEF Forget
<1> QED BY <1>7, <1>8

\* p minds who leaves: its replay, if it is over, lost nothing, and it handled no leave early.
Minds(p) == phase[p] \notin {"out", "cut"} /\ p \notin early
Forgets(p, q) == Forget(inbox[p], playerLeft[p], buffer[p], plractive[p], q)
LeavesLast(q) == up[q] = <<>> \/ EndsInLeave(up[q])

GInv ==
    \A q \in Slots : phase[q] = "out" =>
        /\ LeavesLast(q)
        /\ up[q] = <<>> => \A p \in Slots : Minds(p) => Forgets(p, q)

\* What step of program a does elsewhere, and to the inboxes of the others.
Grown(p, q) == \E more \in Seq(Packets) : Silent(more, q) /\ inbox'[p] = inbox[p] \o more
Elsewhere(a) ==
    \A p \in Slots : p # a =>
        /\ phase'[p] = phase[p] /\ up'[p] = up[p] /\ buffer'[p] = buffer[p]
        /\ playerLeft'[p] = playerLeft[p] /\ plractive'[p] = plractive[p]
        /\ p \in early' <=> p \in early
        /\ \A q \in Slots : q # a => Grown(p, q)

LEMMA SameInbox ==
    ASSUME Boxes(inbox), NEW p \in Slots, inbox'[p] = inbox[p], NEW q
    PROVE  Grown(p, q)
<1>1. inbox[p] \in Seq(Packets)
  BY DEF Boxes
<1>2. inbox[p] \o <<>> = inbox[p] /\ <<>> \in Seq(Packets)
  BY <1>1
<1> QED BY <1>2, GoneEmpty DEF Grown

LEMMA GrownForgets ==
    ASSUME Boxes(inbox), NEW p \in Slots, NEW q, Grown(p, q), Forgets(p, q),
           buffer'[p] = buffer[p], playerLeft'[p] = playerLeft[p], plractive'[p] = plractive[p]
    PROVE  Forgets(p, q)'
<1>1. PICK more \in Seq(Packets) : Silent(more, q) /\ inbox'[p] = inbox[p] \o more
  BY DEF Grown
<1>2. inbox[p] \in Seq(Packets)
  BY DEF Boxes
<1>3. Forget(inbox[p] \o more, playerLeft[p], buffer[p], plractive[p], q)
  BY <1>1, <1>2, ForgetGrows DEF Forgets
<1>4. Forget(inbox'[p], playerLeft'[p], buffer'[p], plractive'[p], q)
  BY <1>1, <1>3
<1> QED BY <1>4 DEF Forgets, Forget, Closed, Silent

\* A step of a, which is in the game before and after.
LEMMA GStep ==
    ASSUME GInv, Boxes(inbox), NEW a \in Slots, phase[a] # "out", phase'[a] # "out", Elsewhere(a),
           \A q \in Slots : phase[q] = "out" /\ Minds(a)' =>
               Minds(a) /\ (Forgets(a, q) => Forgets(a, q)')
    PROVE  GInv'
<1> SUFFICES ASSUME NEW q \in Slots, phase'[q] = "out"
             PROVE  LeavesLast(q)' /\ (up'[q] = <<>> => \A p \in Slots : Minds(p)' => Forgets(p, q)')
  BY DEF GInv
<1>1. q # a /\ phase[q] = "out" /\ up'[q] = up[q]
  BY DEF Elsewhere
<1>2. LeavesLast(q)'
  BY <1>1 DEF GInv, LeavesLast, EndsInLeave, IsLeave
<1>3. ASSUME up'[q] = <<>>, NEW p \in Slots, Minds(p)' PROVE Forgets(p, q)'
  <2>1. CASE p = a
    BY <1>1, <1>3, <2>1 DEF GInv
  <2>2. CASE p # a
    <3>1. Minds(p) /\ Grown(p, q) /\ buffer'[p] = buffer[p] /\ playerLeft'[p] = playerLeft[p]
          /\ plractive'[p] = plractive[p]
      BY <1>1, <1>3, <2>2 DEF Elsewhere, Minds
    <3>2. Forgets(p, q)
      BY <1>1, <1>3, <3>1 DEF GInv
    <3> QED BY <3>1, <3>2, GrownForgets
  <2> QED BY <2>1, <2>2
<1> QED BY <1>2, <1>3

\* What a sends is not of q.
LEMMA SendsGrown ==
    ASSUME TInv, NEW a \in Slots, NEW boxes, NEW messages, Sendable(messages, a),
           Sends(a, messages, boxes), NEW p \in Slots, boxes[p] = inbox[p], NEW q \in Slots, q # a
    PROVE  Grown(p, q)
<1>1. Boxes(inbox)
  BY DEF TInv, Typed
<1>2. CASE inbox'[p] = boxes[p]
  BY <1>1, <1>2, SameInbox
<1>3. CASE inbox'[p] # boxes[p]
  <2> DEFINE more == Among(messages, To(p))
  <2>1. inbox' = Delivered(boxes, Host, messages)
    BY <1>3, Zenon DEF Sends
  <2>2. inbox'[p] = inbox[p] \o more
    BY <1>3, <2>1 DEF Delivered
  <2>3. messages \in Seq(Says(a))
    BY Zenon DEF Sendable
  <2>4. more \in Seq(Says(a))
    BY <2>3, AmongType
  <2>5. Says(a) \subseteq Packets /\ Says(a) \subseteq Items /\ \A m \in Says(a) : m.src # q
    BY PacketTypes, ItemTypes DEF Says
  <2>6. more \in Seq(Packets) /\ Silent(more, q)
    BY <2>4, <2>5, SeqMonotonicHere, GoneOthers
  <2> HIDE DEF more
  <2> QED BY <2>2, <2>6 DEF Grown
<1> QED BY <1>2, <1>3

LEMMA ForgetsNext ==
    ASSUME NEW p \in Slots, NEW q,
           Forget(inbox'[p], playerLeft'[p], buffer'[p], plractive'[p], q)
    PROVE  Forgets(p, q)'
BY DEF Forgets, Forget, Closed, Silent

\* The leaves that BufferDrops buffers.
LEMMA DropsClosed ==
    ASSUME NEW players \in SUBSET Slots, NEW q \in Slots
    PROVE  /\ Drops(players) \in Seq(Items)
           /\ q \in players => Closed(Drops(players), q)
           /\ q \notin players => Silent(Drops(players), q)
<1> DEFINE s == Ascending(players)
           d == Drops(players)
           slots == [i \in 1 .. N |-> i - 1]
<1>1. N \in Nat
  BY Constants
<1>2. slots \in Seq(Slots) /\ Len(slots) = N
  BY <1>1 DEF Slots
<1>3. s \in Seq(Slots) /\ s \in Seq(players) /\ d \in Seq(EventsType({"FAKE_CMD_DROPID"}))
      /\ d \in Seq(Items)
  <2>1. s \in Seq(Slots \cap players)
    BY <1>2, AmongType DEF Ascending
  <2>2. s \in Seq(players)
    BY <2>1, SeqMonotonicHere
  <2> QED BY <2>2, AscendingType, ItemTypes, SeqMonotonicHere
<1>4. /\ Len(d) = Len(s) /\ Len(s) \in Nat
      /\ \A i \in 1 .. Len(s) : d[i] = Event("FAKE_CMD_DROPID", s[i]) /\ d[i].src = s[i]
  BY <1>3 DEF Drops, Event
<1> HIDE DEF s, d
<1>5. ASSUME q \in players PROVE Closed(d, q)
  <2>1. q + 1 \in 1 .. Len(slots) /\ slots[q + 1] = q
    BY <1>1, <1>2 DEF Slots
  <2>2. PICK j \in 1 .. Len(s) : s[j] = q
    <3>1. \E j \in 1 .. Len(Among(slots, players)) : Among(slots, players)[j] = slots[q + 1]
      <4> HIDE DEF slots
      <4> QED BY <1>2, <1>5, <2>1, AmongKeeps
    <3> QED BY <2>1, <3>1 DEF s, Ascending
  <2>3. j \in 1 .. Len(d) /\ d[j] \in From(q)
    <3>1. d[j] \in Items
      BY <1>3, <1>4
    <3> QED BY <1>4, <2>2, <3>1 DEF From
  <2> DEFINE h == Among(d, From(q))
  <2>4. h \in Seq(EventsType({"FAKE_CMD_DROPID"}))
    BY <1>3, AmongType
  <2>5. h # <<>>
    <3>1. \E k \in 1 .. Len(h) : h[k] = d[j]
      BY <1>3, <2>3, AmongKeeps
    <3> HIDE DEF h
    <3> QED BY <2>4, <3>1
  <2>6. h[Len(h)] \in EventsType({"FAKE_CMD_DROPID"})
    <3> HIDE DEF h
    <3> QED BY <2>4, <2>5
  <2> QED BY <2>5, <2>6, ItemTypes DEF Closed, EndsInLeave
<1>6. ASSUME q \notin players PROVE Silent(d, q)
  <2> DEFINE E == {m \in EventsType({"FAKE_CMD_DROPID"}) : m.src # q}
  <2>1. \A i \in 1 .. Len(d) : d[i] \in E
    BY <1>3, <1>4, <1>6
  <2>2. d \in Seq(E)
    <3>1. d = [i \in 1 .. Len(d) |-> d[i]] /\ Len(d) \in Nat
      BY <1>3
    <3> HIDE DEF E
    <3>2. d \in [1 .. Len(d) -> E]
      BY <2>1, <3>1
    <3> QED BY <3>1, <3>2
  <2> QED BY <2>2, ItemTypes, GoneOthers
<1> QED BY <1>3, <1>5, <1>6 DEF d

LEMMA BufferMessageForgets ==
    ASSUME TInv, GInv, NEW a \in Slots, BufferMessage(a)
    PROVE  GInv'
<1> DEFINE m == Head(inbox[a])
           t == Tail(inbox[a])
<1>1. /\ phase[a] = "resync" /\ playerLeft[a] = {} /\ inbox[a] # <<>> /\ ~ IsDisconnect(m)
      /\ buffer' = [buffer EXCEPT ![a] = Append(buffer[a], m)]
      /\ inbox' = [inbox EXCEPT ![a] = t]
      /\ UNCHANGED <<phase, up, plractive, playerLeft, early>>
  BY DEF BufferMessage, leaveVars
<1>2. /\ Buffers(buffer) /\ Boxes(inbox) /\ t \in Seq(Packets)
      /\ inbox[a] = <<m>> \o t /\ m \in Packets /\ ~ IsLeave(m)
  BY <1>1, InboxHead, ItemTypes DEF TInv, Typed
<1> HIDE DEF m, t
<1>3. buffer[a] \in Seq(Items) /\ buffer'[a] = Append(buffer[a], m) /\ inbox'[a] = t
  <2>1. buffer[a] \in Seq(Buffered(a))
    BY <1>2 DEF Buffers
  <2> QED BY <1>1, <1>2, <2>1, ItemTypes, SeqMonotonicHere DEF Buffers, Boxes
<1>4. ASSUME NEW q \in Slots, Forgets(a, q) PROVE Forgets(a, q)'
  <2>1. Forget(<<m>> \o t, playerLeft[a], buffer[a], plractive[a], q)
    BY <1>2, <1>4 DEF Forgets
  <2>2. Forget(t, playerLeft[a], Append(buffer[a], m), plractive[a], q)
    BY <1>1, <1>2, <1>3, <2>1, ForgetHead
  <2> QED BY <1>1, <1>3, <2>2, ForgetsNext
<1>5. Elsewhere(a)
  <2>1. \A p \in Slots : p # a => inbox'[p] = inbox[p] /\ buffer'[p] = buffer[p]
    BY <1>1, <1>2 DEF Boxes, Buffers
  <2> QED BY <1>1, <1>2, <2>1, SameInbox DEF Elsewhere
<1> QED BY <1>1, <1>2, <1>4, <1>5, GStep DEF Minds

LEMMA BufferDropsForgets ==
    ASSUME TInv, GInv, NEW a \in Slots, BufferDrops(a)
    PROVE  GInv'
<1> DEFINE d == Drops(playerLeft[a])
<1>1. /\ phase[a] = "resync"
      /\ buffer' = [buffer EXCEPT ![a] = buffer[a] \o d]
      /\ playerLeft' = [playerLeft EXCEPT ![a] = {}]
      /\ UNCHANGED <<phase, up, inbox, plractive, early>>
  BY DEF BufferDrops, netVars, Drops
<1>2. Buffers(buffer) /\ Boxes(inbox) /\ playerLeft \in [Slots -> SUBSET Slots]
  BY DEF TInv, Typed
<1>3. /\ buffer[a] \in Seq(Items) /\ buffer'[a] = buffer[a] \o d /\ playerLeft'[a] = {}
  <2>1. buffer[a] \in Seq(Buffered(a))
    BY <1>2 DEF Buffers
  <2> QED BY <1>1, <1>2, <2>1, ItemTypes, SeqMonotonicHere DEF Buffers
<1>4. ASSUME NEW q \in Slots, Forgets(a, q) PROVE Forgets(a, q)'
  <2>1. d \in Seq(Items) /\ (q \in playerLeft[a] => Closed(d, q))
        /\ (q \notin playerLeft[a] => Silent(d, q))
    BY <1>2, DropsClosed
  <2> HIDE DEF d
  <2>2. Forget(inbox[a], {}, buffer[a] \o d, plractive[a], q)
    BY <1>3, <1>4, <2>1, ForgetDrops DEF Forgets
  <2> QED BY <1>1, <1>3, <2>2, ForgetsNext
<1>5. Elsewhere(a)
  <2>1. \A p \in Slots : p # a => playerLeft'[p] = playerLeft[p] /\ buffer'[p] = buffer[p]
    BY <1>1, <1>2 DEF Buffers
  <2> QED BY <1>1, <1>2, <2>1, SameInbox DEF Elsewhere
<1> QED BY <1>1, <1>2, <1>4, <1>5, GStep DEF Minds

LEMMA PhaseForgets ==
    ASSUME TInv, GInv, NEW a \in Slots, ResyncEnds(a) \/ DiscardRest(a) \/ ReplayEnds(a)
    PROVE  GInv'
<1>1. /\ phase[a] \in {"resync", "replay"} /\ phase[a] # "out"
      /\ UNCHANGED <<up, inbox, plractive, playerLeft, early>>
      /\ \E ph \in {"load", "cut", "play"} :
             /\ phase' = [phase EXCEPT ![a] = ph]
             /\ \/ buffer' = buffer
                \/ ph = "cut" /\ buffer' = [buffer EXCEPT ![a] = <<>>]
                \/ buffer[a] = <<>> /\ buffer' = [buffer EXCEPT ![a] = <<>>]
  BY DEF ResyncEnds, DiscardRest, ReplayEnds, EndReplay, netVars, programVars, leaveVars
<1>2. Buffers(buffer) /\ Boxes(inbox) /\ phase \in [Slots -> Phases]
  BY DEF TInv, Typed
<1>3. /\ phase'[a] # "out"
      /\ phase'[a] # "cut" => buffer'[a] = buffer[a]
      /\ \A p \in Slots : p # a => phase'[p] = phase[p] /\ buffer'[p] = buffer[p]
  BY <1>1, <1>2 DEF Buffers
<1>4. ASSUME NEW q \in Slots, Minds(a)', Forgets(a, q) PROVE Forgets(a, q)'
  <2>1. buffer'[a] = buffer[a]
    BY <1>3, <1>4 DEF Minds
  <2>2. Forget(inbox'[a], playerLeft'[a], buffer'[a], plractive'[a], q)
    BY <1>1, <1>4, <2>1 DEF Forgets
  <2> QED BY <2>2, ForgetsNext
<1>5. Elsewhere(a)
  BY <1>1, <1>2, <1>3, SameInbox DEF Elsewhere
<1>6. Minds(a)' => Minds(a)
  BY <1>1 DEF Minds
<1> QED BY <1>1, <1>2, <1>3, <1>4, <1>5, <1>6, GStep

LEMMA ReplayDropForgets ==
    ASSUME TInv, ActiveKnown, GInv, NEW a \in Slots, ReplayDrop(a)
    PROVE  GInv'
<1> DEFINE d == Head(buffer[a])
           t == Tail(buffer[a])
<1>1. /\ phase[a] = "replay" /\ buffer[a] # <<>> /\ d.type = "FAKE_CMD_DROPID"
      /\ PlayerLeftMsg(a, playerLeft[a] \cup {d.src})
      /\ playerLeft' = [playerLeft EXCEPT ![a] = {}]
      /\ early' = IF playerLeft[a] = {} THEN early ELSE early \cup {a}
      /\ buffer' = [buffer EXCEPT ![a] = t]
      /\ UNCHANGED <<phase, up, inbox, offset, packed>>
  BY DEF ReplayDrop, netVars
<1>2. Buffers(buffer) /\ Boxes(inbox) /\ Programs /\ playerLeft \in [Slots -> SUBSET Slots]
  BY DEF TInv, Typed
<1>3. /\ d \in Items /\ IsLeave(d) /\ t \in Seq(Items) /\ buffer[a] = <<d>> \o t
      /\ buffer'[a] = t /\ playerLeft'[a] = {}
  <2>1. d \in Buffered(a) /\ t \in Seq(Buffered(a)) /\ buffer[a] = <<d>> \o t
    BY <1>1, BufferHead
  <2>2. t \in Seq(Items) /\ d \in Items
    BY <2>1, ItemTypes, SeqMonotonicHere
  <2>3. IsLeave(d)
    BY <1>1 DEF IsLeave
  <2> HIDE DEF d, t
  <2> QED BY <1>1, <1>2, <2>1, <2>2, <2>3 DEF Buffers
<1>4. /\ plractive'[a] = plractive[a] \ ((playerLeft[a] \cup {d.src}) \ {a})
      /\ \A p \in Slots : p # a => plractive'[p] = plractive[p]
  BY <1>1, <1>2, LeftPrograms
<1> HIDE DEF d, t
<1>5. Minds(a)' => Minds(a) /\ playerLeft[a] = {}
  BY <1>1 DEF Minds
<1>6. ASSUME NEW q \in Slots, q # a, playerLeft[a] = {}, Forgets(a, q) PROVE Forgets(a, q)'
  <2>1. Forget(inbox[a], {}, <<d>> \o t, plractive[a], q)
    BY <1>3, <1>6 DEF Forgets
  <2>2. plractive'[a] \subseteq plractive[a] /\ (d.src = q => q \notin plractive'[a])
    BY <1>4, <1>6
  <2>3. Forget(inbox[a], {}, t, plractive'[a], q)
    BY <1>3, <2>1, <2>2, ForgetDrop
  <2> QED BY <1>1, <1>3, <2>3, ForgetsNext
<1>7. Elsewhere(a)
  <2>1. \A p \in Slots : p # a => playerLeft'[p] = playerLeft[p] /\ buffer'[p] = buffer[p]
                                   /\ (p \in early' <=> p \in early)
    BY <1>1, <1>2 DEF Buffers
  <2> QED BY <1>1, <1>2, <1>4, <2>1, SameInbox DEF Elsewhere
<1> QED BY <1>1, <1>2, <1>5, <1>6, <1>7, GStep

LEMMA ClearPlayerLeftForgets ==
    ASSUME TInv, ActiveKnown, GInv, NEW a \in Slots, ClearPlayerLeft(a)
    PROVE  GInv'
<1>1. /\ phase[a] \in {"play", "cut"}
      /\ PlayerLeftMsg(a, playerLeft[a])
      /\ playerLeft' = [playerLeft EXCEPT ![a] = {}]
      /\ UNCHANGED <<phase, up, inbox, buffer, offset, packed, early>>
  BY DEF ClearPlayerLeft, netVars, Plays
<1>2. Boxes(inbox) /\ Programs /\ playerLeft \in [Slots -> SUBSET Slots] /\ buffer[a] = <<>>
      /\ playerLeft'[a] = {}
  BY <1>1 DEF TInv, Typed, Standing
<1>3. /\ plractive'[a] = plractive[a] \ (playerLeft[a] \ {a})
      /\ \A p \in Slots : p # a => plractive'[p] = plractive[p]
  BY <1>1, <1>2, LeftPrograms
<1>4. ASSUME NEW q \in Slots, q # a, Forgets(a, q) PROVE Forgets(a, q)'
  <2>1. plractive'[a] \subseteq plractive[a] /\ (q \in playerLeft[a] => q \notin plractive'[a])
    BY <1>3, <1>4
  <2>2. Forget(inbox[a], {}, <<>>, plractive'[a], q)
    BY <1>2, <1>4, <2>1, ForgetLeft DEF Forgets
  <2> QED BY <1>1, <1>2, <2>2, ForgetsNext
<1>5. Elsewhere(a)
  <2>1. \A p \in Slots : p # a => playerLeft'[p] = playerLeft[p]
    BY <1>1, <1>2
  <2> QED BY <1>1, <1>2, <1>3, <2>1, SameInbox DEF Elsewhere
<1>6. Minds(a)' => Minds(a)
  BY <1>1 DEF Minds
<1> QED BY <1>1, <1>2, <1>4, <1>5, <1>6, GStep

LEMMA HandleDisconnectForgets ==
    ASSUME TInv, GInv, NEW a \in Slots, HandleDisconnect(a)
    PROVE  GInv'
<1>1. PICK d \in Slots : \E waiting, behind \in Seq(Packets) :
          /\ inbox[a] = waiting \o (<<Event("PT_DISCONNECT", d)>> \o behind)
          /\ waiting \in Seq(MessagesTo(a)) /\ behind \in Seq(To(a))
          /\ inbox' = [inbox EXCEPT ![a] = ClearMsg(waiting, d) \o behind]
          /\ playerLeft' = [playerLeft EXCEPT ![a] = @ \cup {d}]
  BY DisconnectAt, Zenon
<1>2. PICK waiting \in Seq(Packets), behind \in Seq(Packets) :
          /\ inbox[a] = waiting \o (<<Event("PT_DISCONNECT", d)>> \o behind)
          /\ inbox' = [inbox EXCEPT ![a] = ClearMsg(waiting, d) \o behind]
          /\ playerLeft' = [playerLeft EXCEPT ![a] = playerLeft[a] \cup {d}]
  BY <1>1
<1>3. phase[a] # "out" /\ UNCHANGED <<phase, up, buffer, plractive, early>>
  BY DEF HandleDisconnect, programVars
<1>4. Boxes(inbox) /\ playerLeft \in [Slots -> SUBSET Slots]
  BY DEF TInv, Typed
<1> DEFINE rest == ClearMsg(waiting, d) \o behind
<1>5. rest \in Seq(Packets)
  BY GoneCleared, TypeParts
<1>6. inbox'[a] = rest /\ playerLeft'[a] = playerLeft[a] \cup {d}
  <2> HIDE DEF rest
  <2> QED BY <1>2, <1>4, <1>5 DEF Boxes, rest
<1>7. ASSUME NEW q \in Slots, Forgets(a, q) PROVE Forgets(a, q)'
  <2>1. Forget(waiting \o (<<Event("PT_DISCONNECT", d)>> \o behind), playerLeft[a], buffer[a],
               plractive[a], q)
    BY <1>2, <1>7, Zenon DEF Forgets
  <2>2. Forget(rest, playerLeft[a] \cup {d}, buffer[a], plractive[a], q)
    BY <2>1, ForgetLeave
  <2> HIDE DEF rest
  <2> QED BY <1>3, <1>6, <2>2, ForgetsNext
<1>8. Elsewhere(a)
  <2>1. \A p \in Slots : p # a => playerLeft'[p] = playerLeft[p] /\ inbox'[p] = inbox[p]
    BY <1>2, <1>4 DEF Boxes
  <2> QED BY <1>3, <1>4, <2>1, SameInbox DEF Elsewhere
<1>9. Minds(a)' => Minds(a)
  BY <1>3 DEF Minds
<1> QED BY <1>3, <1>4, <1>7, <1>8, <1>9, GStep

LEMMA ReadsForget ==
    ASSUME TKInv, GInv, NEW a \in Slots, NEW m, NEW boxes, Reads(a, m, boxes)
    PROVE  GInv'
<1>1. /\ TInv /\ m \in MessagesTo(a) /\ m \in Packets /\ ~ IsLeave(m) /\ Boxes(boxes)
      /\ Learned(a, m.src, boxes)
      /\ UNCHANGED <<phase, life, connections, playerLeft, early>>
      /\ phase[a] \in {"replay", "play", "cut"}
  BY ReadsTypes, ItemTypes DEF TKInv
<1>2. Boxes(inbox) /\ Buffers(buffer) /\ Ups(up)
  BY <1>1 DEF TInv, Typed
<1>3. PICK messages : Sendable(messages, a) /\ Sends(a, messages, boxes)
  BY <1>1 DEF Learned
<1>4. /\ plractive'[a] \subseteq plractive[a] \cup {m.src}
      /\ \A p \in Slots : p # a => plractive'[p] = plractive[p]
  BY <1>1 DEF Learned
<1>5. inbox'[a] = boxes[a]
  <2>1. a # Host => inbox' = boxes
    BY <1>3, Zenon DEF Sends
  <2>2. a = Host => inbox'[a] = boxes[a]
    <3>1. a = Host => inbox' = Delivered(boxes, a, messages)
      BY <1>3, Zenon DEF Sends
    <3> QED BY <3>1 DEF Delivered
  <2> QED BY <2>1, <2>2
<1>6. /\ \A p \in Slots : p # a => boxes[p] = inbox[p] /\ buffer'[p] = buffer[p]
      /\ \/ boxes[a] = inbox[a] /\ buffer'[a] \in Seq(Items) /\ buffer[a] = <<m>> \o buffer'[a]
         \/ inbox[a] = <<m>> \o boxes[a] /\ buffer'[a] = buffer[a] /\ buffer[a] = <<>>
  <2>1. CASE ReplayMessage(a) /\ m = Head(buffer[a]) /\ boxes = inbox
    <3>1. buffer[a] # <<>> /\ buffer' = [buffer EXCEPT ![a] = Tail(buffer[a])]
      BY <2>1 DEF ReplayMessage
    <3>2. Tail(buffer[a]) \in Seq(Buffered(a)) /\ buffer[a] = <<Head(buffer[a])>> \o Tail(buffer[a])
      BY <1>1, <3>1, BufferHead
    <3>3. Tail(buffer[a]) \in Seq(Items)
      BY <3>2, ItemTypes, SeqMonotonicHere
    <3>4. buffer'[a] = Tail(buffer[a]) /\ \A p \in Slots : p # a => buffer'[p] = buffer[p]
      BY <1>2, <3>1 DEF Buffers
    <3> QED BY <2>1, <3>2, <3>3, <3>4
  <2>2. CASE HandleMessage(a) /\ m = Head(inbox[a]) /\ boxes = [inbox EXCEPT ![a] = Tail(@)]
    <3>1. inbox[a] # <<>> /\ buffer' = buffer /\ phase[a] \in {"play", "cut"}
      BY <2>2 DEF HandleMessage, Plays
    <3>2. buffer[a] = <<>>
      BY <1>1, <3>1 DEF TInv, Standing
    <3>3. inbox[a] = <<Head(inbox[a])>> \o Tail(inbox[a])
      BY <1>1, <3>1, InboxHead
    <3>4. boxes[a] = Tail(inbox[a]) /\ \A p \in Slots : p # a => boxes[p] = inbox[p]
      BY <1>2, <2>2 DEF Boxes
    <3> QED BY <2>2, <3>1, <3>2, <3>3, <3>4
  <2> QED BY <2>1, <2>2 DEF Reads
<1>7. ASSUME NEW q \in Slots, Forgets(a, q) PROVE Forgets(a, q)'
  <2>1. CASE boxes[a] = inbox[a] /\ buffer'[a] \in Seq(Items) /\ buffer[a] = <<m>> \o buffer'[a]
    <3>1. Forget(inbox[a], playerLeft[a], <<m>> \o buffer'[a], plractive[a], q)
      BY <1>7, <2>1 DEF Forgets
    <3>2. Forget(inbox[a], playerLeft[a], buffer'[a], plractive'[a], q)
      BY <1>1, <1>4, <2>1, <3>1, ForgetRead
    <3> QED BY <1>1, <1>5, <2>1, <3>2, ForgetsNext
  <2>2. CASE inbox[a] = <<m>> \o boxes[a] /\ buffer'[a] = buffer[a] /\ buffer[a] = <<>>
    <3>1. Forget(<<m>> \o boxes[a], playerLeft[a], <<>>, plractive[a], q)
      BY <1>7, <2>2 DEF Forgets
    <3>2. boxes[a] \in Seq(Packets) /\ <<>> \in Seq(Items)
      BY <1>1 DEF Boxes
    <3>3. Forget(boxes[a], playerLeft[a], <<>>, plractive'[a], q)
      BY <1>1, <1>4, <3>1, <3>2, ForgetHead
    <3> QED BY <1>1, <1>5, <2>2, <3>3, ForgetsNext
  <2> QED BY <1>6, <2>1, <2>2
<1>8. Elsewhere(a)
  <2>1. \A p \in Slots : p # a => up'[p] = up[p]
    BY <1>1, <1>2, <1>3, SendsTypes
  <2>2. ASSUME NEW p \in Slots, p # a, NEW q \in Slots, q # a PROVE Grown(p, q)
    BY <1>1, <1>3, <1>6, <2>2, SendsGrown
  <2> QED BY <1>1, <1>4, <1>6, <2>1, <2>2 DEF Elsewhere
<1>9. (Minds(a)' => Minds(a)) /\ phase[a] # "out" /\ phase'[a] # "out"
  BY <1>1 DEF Minds
<1> QED BY <1>2, <1>7, <1>8, <1>9, GStep

LEMMA JoinForgets ==
    ASSUME TInv, GInv, NEW a \in Slots, Join(a)
    PROVE  GInv'
<1>1. /\ phase[a] = "out" /\ phase' = [phase EXCEPT ![a] = "joined"]
      /\ inbox' = [inbox EXCEPT ![a] = <<>>]
      /\ UNCHANGED <<up, buffer, plractive, playerLeft, early>>
  BY DEF Join, programVars, leaveVars
<1>2. Boxes(inbox) /\ phase \in [Slots -> Phases]
  BY DEF TInv, Typed
<1>3. /\ buffer[a] = <<>> /\ plractive[a] = {}
      /\ inbox'[a] = <<>> /\ phase'[a] = "joined"
      /\ \A p \in Slots : p # a => inbox'[p] = inbox[p] /\ phase'[p] = phase[p]
  BY <1>1, <1>2 DEF TInv, Standing, Boxes
<1> SUFFICES ASSUME NEW q \in Slots, phase'[q] = "out"
             PROVE  LeavesLast(q)' /\ (up'[q] = <<>> => \A p \in Slots : Minds(p)' => Forgets(p, q)')
  BY DEF GInv
<1>4. q # a /\ phase[q] = "out" /\ up'[q] = up[q]
  BY <1>1, <1>3
<1>5. LeavesLast(q)'
  BY <1>4 DEF GInv, LeavesLast, EndsInLeave, IsLeave
<1>6. ASSUME up'[q] = <<>>, NEW p \in Slots, Minds(p)' PROVE Forgets(p, q)'
  <2>1. CASE p = a
    <3>1. Forget(<<>>, playerLeft[a], <<>>, {}, q)
      BY GoneEmpty DEF Forget
    <3>2. Forget(inbox'[a], playerLeft'[a], buffer'[a], plractive'[a], q)
      BY <1>1, <1>3, <3>1
    <3> QED BY <2>1, <3>2, ForgetsNext
  <2>2. CASE p # a
    <3>1. Minds(p)
      BY <1>1, <1>3, <1>6, <2>2 DEF Minds
    <3>2. Forgets(p, q) /\ Grown(p, q)
      BY <1>2, <1>3, <1>4, <1>6, <2>2, <3>1, SameInbox DEF GInv
    <3> QED BY <1>1, <1>2, <3>2, GrownForgets
  <2> QED BY <2>1, <2>2
<1> QED BY <1>5, <1>6

LEMMA SendForgets ==
    ASSUME TKInv, GInv, NEW a \in Slots, NetInit(a) \/ EnterGame(a) \/ ChangeLevel(a)
    PROVE  GInv'
<1>1. /\ phase[a] # "out"
      /\ UNCHANGED <<buffer, playerLeft, early>>
      /\ \/ phase' = phase
         \/ phase[a] = "joined" /\ phase' = [phase EXCEPT ![a] = "resync"]
         \/ phase[a] = "load" /\ phase' = [phase EXCEPT ![a] = "replay"]
      /\ plractive' = plractive \/ plractive' = [plractive EXCEPT ![a] = {a}]
  BY DEF NetInit, EnterGame, ChangeLevel, Plays, programVars, leaveVars
<1>2. /\ TInv /\ Boxes(inbox) /\ Ups(up) /\ phase \in [Slots -> Phases]
      /\ plractive \in [Slots -> SUBSET Slots]
  BY DEF TKInv, TInv, Typed, Programs
<1>3. PICK messages : Sendable(messages, a) /\ Sends(a, messages, inbox)
  <2>1. CASE NetInit(a)
    BY <2>1, NetInitTypes DEF NetInit
  <2>2. CASE EnterGame(a) \/ ChangeLevel(a)
    BY <2>2, JoinLevelTypes DEF EnterGame, ChangeLevel
  <2> QED BY <2>1, <2>2
<1>4. /\ phase'[a] # "out" /\ (Minds(a)' => Minds(a))
      /\ \A p \in Slots : p # a => phase'[p] = phase[p] /\ plractive'[p] = plractive[p]
      /\ plractive'[a] \in {plractive[a], {a}}
  BY <1>1, <1>2 DEF Minds
<1>5. inbox'[a] = inbox[a]
  <2>1. a # Host => inbox' = inbox
    BY <1>3, Zenon DEF Sends
  <2>2. a = Host => inbox'[a] = inbox[a]
    <3>1. a = Host => inbox' = Delivered(inbox, a, messages)
      BY <1>3, Zenon DEF Sends
    <3> QED BY <3>1 DEF Delivered
  <2> QED BY <2>1, <2>2
<1>6. ASSUME NEW q \in Slots, phase[q] = "out", Forgets(a, q) PROVE Forgets(a, q)'
  <2>1. q \in plractive'[a] => q \in plractive[a]
    BY <1>1, <1>4, <1>6
  <2>2. Forget(inbox[a], playerLeft[a], buffer[a], plractive'[a], q)
    BY <1>6, <2>1 DEF Forgets, Forget
  <2> QED BY <1>1, <1>5, <2>2, ForgetsNext
<1>7. Elsewhere(a)
  <2>1. \A p \in Slots : p # a => up'[p] = up[p]
    BY <1>2, <1>3, SendsTypes
  <2>2. ASSUME NEW p \in Slots, p # a, NEW q \in Slots, q # a PROVE Grown(p, q)
    BY <1>2, <1>3, <2>2, SendsGrown
  <2> QED BY <1>1, <1>4, <2>1, <2>2 DEF Elsewhere
<1> QED BY <1>1, <1>2, <1>4, <1>6, <1>7, GStep

\* What the server relays of a is not of another.
LEMMA RelayedGrown ==
    ASSUME Boxes(inbox), NEW a \in Slots, NEW m \in Of(a), NEW p \in Slots,
           inbox'[p] = Delivered(inbox, a, <<m>>)[p], NEW q \in Slots, q # a
    PROVE  Grown(p, q)
<1> DEFINE more == Among(<<m>>, To(p))
<1>1. inbox'[p] = inbox[p] \/ inbox'[p] = inbox[p] \o more
  BY DEF Delivered
<1>2. CASE inbox'[p] = inbox[p]
  BY <1>2, SameInbox
<1>3. CASE inbox'[p] = inbox[p] \o more
  <2>1. <<m>> \in Seq(Of(a)) /\ Of(a) \subseteq Packets /\ Of(a) \subseteq Items
        /\ \A r \in Of(a) : r.src # q
    BY ItemTypes DEF Of
  <2>2. more \in Seq(Of(a))
    BY <2>1, AmongType
  <2>3. more \in Seq(Packets) /\ Silent(more, q)
    BY <2>1, <2>2, SeqMonotonicHere, GoneOthers
  <2> HIDE DEF more
  <2> QED BY <1>3, <2>3 DEF Grown
<1> QED BY <1>1, <1>2, <1>3

\* Who is connected has the leave of a last.
LEMMA RelayedLeave ==
    ASSUME Boxes(inbox), NEW a \in Slots, NEW p \in Slots, p \in connections \ {a},
           inbox'[p] = Delivered(inbox, a, <<Event("PT_DISCONNECT", a)>>)[p]
    PROVE  Forgets(p, a)'
<1> DEFINE m == Event("PT_DISCONNECT", a)
<1>1. inbox'[p] = inbox[p] \o Among(<<m>>, To(p))
  BY DEF Delivered
<1>2. m \in Packets /\ m \in To(p) /\ m \in Items /\ IsLeave(m) /\ m.src = a
  BY PacketTypes, ItemTypes
<1> HIDE DEF m
<1>3. Among(<<m>>, To(p)) = <<m>>
  <2>1. \A s \in Seq(Items) : Among(Append(s, m), To(p)) =
                                 IF m \in To(p) THEN Append(Among(s, To(p)), m) ELSE Among(s, To(p))
    BY <1>2, AmongAppend
  <2>2. <<>> \in Seq(Items) /\ Append(<<>>, m) = <<m>> /\ Among(<<>>, To(p)) = <<>>
    BY AmongEmpty
  <2>3. Among(Append(<<>>, m), To(p)) = Append(Among(<<>>, To(p)), m)
    BY <1>2, <2>1, <2>2
  <2> QED BY <2>2, <2>3
<1>4. inbox[p] \in Seq(Items) /\ <<m>> \in Seq(Items)
  <2>1. inbox[p] \in Seq(Packets)
    BY DEF Boxes
  <2> QED BY <1>2, <2>1, ItemTypes, SeqMonotonicHere
<1>5. Closed(inbox[p] \o <<m>>, a)
  BY <1>2, <1>4, GoneOne, GoneConcat
<1>6. Forget(inbox'[p], playerLeft'[p], buffer'[p], plractive'[p], a)
  BY <1>1, <1>3, <1>5 DEF Forget
<1> QED BY <1>6, ForgetsNext

LEMMA RelayForgets ==
    ASSUME TInv, GInv, NEW a \in Slots, Relay(a)
    PROVE  GInv'
<1> DEFINE h == Head(up[a])
           t == Tail(up[a])
<1>1. /\ a \in connections /\ up[a] # <<>>
      /\ inbox' = Delivered(inbox, a, <<h>>)
      /\ UNCHANGED <<phase, buffer, plractive, playerLeft, early>>
      /\ \/ IsDisconnect(h) /\ up' = [up EXCEPT ![a] = <<>>]
         \/ ~ IsDisconnect(h) /\ up' = [up EXCEPT ![a] = t]
  BY DEF Relay, programVars, leaveVars
<1>2. Boxes(inbox) /\ Ups(up)
  BY DEF TInv, Typed
<1>3. h \in Packets /\ h \in Of(a) /\ t \in Seq(Packets) /\ up[a] = <<h>> \o t
  <2>1. up[a] \in Seq(Packets) /\ up[a] \in Seq(Of(a))
    BY <1>2 DEF Ups
  <2> QED BY <1>1, <2>1
<1>4. \A q \in Slots : q # a => up'[q] = up[q]
  BY <1>1, <1>2 DEF Ups
<1>5. IsDisconnect(h) => up'[a] = <<>> /\ h = Event("PT_DISCONNECT", a)
  <2>1. IsDisconnect(h) => up'[a] = <<>>
    BY <1>1, <1>2 DEF Ups
  <2>2. h.src = a
    BY <1>3 DEF Of
  <2> HIDE DEF h
  <2>3. IsDisconnect(h) => h = Event("PT_DISCONNECT", a)
    BY <1>3, <2>2, PacketTypes
  <2> QED BY <2>1, <2>3
<1>6. ~ IsDisconnect(h) => up'[a] = t
  BY <1>1, <1>2 DEF Ups
<1>7. IsLeave(h) => IsDisconnect(h)
  <2>1. h.type # "FAKE_CMD_DROPID"
    <3> HIDE DEF h
    <3> QED BY <1>3, PacketTypes DEF Event, IsDisconnect
  <2> QED BY <2>1 DEF IsLeave, IsDisconnect
<1> HIDE DEF h, t
<1>8. ASSUME phase[a] = "out", ~ IsDisconnect(h)
      PROVE  up'[a] # <<>> /\ EndsInLeave(up'[a])
  <2>1. EndsInLeave(<<h>> \o t)
    BY <1>1, <1>3, <1>8 DEF GInv, LeavesLast
  <2>2. t # <<>>
    <3>1. t = <<>> => (<<h>> \o t)[Len(<<h>> \o t)] = h
      BY <1>3
    <3> QED BY <1>7, <1>8, <2>1, <3>1 DEF EndsInLeave
  <2>3. (<<h>> \o t)[Len(<<h>> \o t)] = t[Len(t)]
    BY <1>3, <2>2
  <2> QED BY <1>6, <1>8, <2>1, <2>2, <2>3 DEF EndsInLeave
<1> SUFFICES ASSUME NEW q \in Slots, phase[q] = "out"
             PROVE  LeavesLast(q)' /\ (up'[q] = <<>> => \A p \in Slots : Minds(p)' => Forgets(p, q)')
  BY <1>1 DEF GInv
<1>9. LeavesLast(q)'
  <2>1. CASE q = a
    BY <1>5, <1>8, <2>1 DEF LeavesLast, EndsInLeave, IsLeave
  <2>2. CASE q # a
    BY <1>4, <2>2 DEF GInv, LeavesLast, EndsInLeave, IsLeave
  <2> QED BY <2>1, <2>2
<1>10. ASSUME up'[q] = <<>>, NEW p \in Slots, Minds(p)' PROVE Forgets(p, q)'
  <2>1. Minds(p)
    BY <1>1, <1>10 DEF Minds
  <2>2. CASE q = a
    <3>1. IsDisconnect(h)
      BY <1>8, <1>10, <2>2
    <3>2. p # a /\ p \in connections
      BY <2>1, <2>2 DEF Minds, TInv, Standing
    <3>3. inbox'[p] = Delivered(inbox, a, <<Event("PT_DISCONNECT", a)>>)[p]
      BY <1>1, <1>5, <3>1
    <3> QED BY <1>2, <2>2, <3>2, <3>3, RelayedLeave
  <2>3. CASE q # a
    <3>1. Forgets(p, q)
      BY <1>4, <1>10, <2>1, <2>3 DEF GInv
    <3>2. inbox'[p] = Delivered(inbox, a, <<h>>)[p]
      BY <1>1
    <3>3. Grown(p, q)
      BY <1>2, <1>3, <2>3, <3>2, RelayedGrown
    <3> QED BY <1>1, <1>2, <3>1, <3>3, GrownForgets
  <2> QED BY <2>2, <2>3
<1> QED BY <1>9, <1>10

LEMMA EndForgets ==
    ASSUME TInv, GInv, NEW a \in Slots, Leave(a) \/ Crash(a)
    PROVE  GInv'
<1> DEFINE left == Event("PT_DISCONNECT", a)
<1>1. /\ phase[a] # "out" /\ phase' = [phase EXCEPT ![a] = "out"]
      /\ buffer' = [buffer EXCEPT ![a] = <<>>]
      /\ plractive' = [plractive EXCEPT ![a] = {}]
      /\ playerLeft' = [playerLeft EXCEPT ![a] = {}]
      /\ early' = early \ {a}
  BY DEF Leave, Crash, Ended
<1>2. /\ Boxes(inbox) /\ Ups(up) /\ Buffers(buffer) /\ phase \in [Slots -> Phases]
      /\ plractive \in [Slots -> SUBSET Slots] /\ playerLeft \in [Slots -> SUBSET Slots]
  BY DEF TInv, Typed, Programs
<1>3. \A p \in Slots : p # a =>
          /\ phase'[p] = phase[p] /\ buffer'[p] = buffer[p] /\ plractive'[p] = plractive[p]
          /\ playerLeft'[p] = playerLeft[p] /\ (p \in early' <=> p \in early)
  BY <1>1, <1>2 DEF Buffers
<1>4. phase'[a] = "out"
  BY <1>1, <1>2
<1>5. left \in Packets /\ left \in Of(a) /\ IsLeave(left)
  BY PacketTypes, ItemTypes DEF Of
<1>6. /\ \A q \in Slots : q # a => up'[q] = up[q]
      /\ Leave(a) => up'[a] = Append(up[a], left)
      /\ Crash(a) => up'[a] = <<>>
  BY <1>2 DEF Leave, Crash, Ups
<1>7. \A p \in Slots : p # a =>
          /\ Leave(a) => inbox'[p] = inbox[p]
          /\ Crash(a) => inbox'[p] = Delivered(inbox, a, <<left>>)[p]
  <2>1. Leave(a) => \A p \in Slots : p # a => inbox'[p] = inbox[p]
    BY <1>2 DEF Leave, Boxes
  <2> DEFINE full == Delivered(inbox, a, <<left>>)
  <2>2. Crash(a) => inbox' = [full EXCEPT ![a] = <<>>]
    BY DEF Crash
  <2>3. full = [p \in Slots |-> full[p]]
    BY DEF Delivered
  <2> HIDE DEF full
  <2>4. Crash(a) => \A p \in Slots : p # a => inbox'[p] = full[p]
    BY <2>2, <2>3
  <2> QED BY <2>1, <2>4 DEF full
<1>8. Leave(a) => up'[a] # <<>> /\ EndsInLeave(up'[a])
  <2>1. up[a] \in Seq(Packets)
    BY <1>2 DEF Ups
  <2> HIDE DEF left
  <2>2. Append(up[a], left) # <<>> /\ Append(up[a], left)[Len(Append(up[a], left))] = left
    BY <1>5, <2>1
  <2> QED BY <1>5, <1>6, <2>2 DEF EndsInLeave
<1> HIDE DEF left
<1> SUFFICES ASSUME NEW q \in Slots, phase'[q] = "out"
             PROVE  LeavesLast(q)' /\ (up'[q] = <<>> => \A p \in Slots : Minds(p)' => Forgets(p, q)')
  BY DEF GInv
<1>9. q # a => phase[q] = "out" /\ up'[q] = up[q]
  BY <1>3, <1>6
<1>10. LeavesLast(q)'
  <2>1. CASE q = a
    BY <1>6, <1>8, <2>1 DEF LeavesLast, EndsInLeave, IsLeave
  <2>2. CASE q # a
    BY <1>9, <2>2 DEF GInv, LeavesLast, EndsInLeave, IsLeave
  <2> QED BY <2>1, <2>2
<1>11. ASSUME up'[q] = <<>>, NEW p \in Slots, Minds(p)' PROVE Forgets(p, q)'
  <2>1. p # a
    BY <1>4, <1>11 DEF Minds
  <2>2. Minds(p)
    BY <1>3, <1>11, <2>1 DEF Minds
  <2>3. CASE q = a
    <3>1. Crash(a)
      BY <1>8, <1>11, <2>3
    <3>2. p \in connections
      BY <2>2 DEF Minds, TInv, Standing
    <3>3. inbox'[p] = Delivered(inbox, a, <<Event("PT_DISCONNECT", a)>>)[p]
      BY <1>7, <2>1, <3>1 DEF left
    <3> QED BY <1>2, <2>1, <2>3, <3>2, <3>3, RelayedLeave
  <2>4. CASE q # a
    <3>1. Forgets(p, q)
      BY <1>9, <1>11, <2>2, <2>4 DEF GInv
    <3>2. Grown(p, q)
      BY <1>2, <1>5, <1>7, <2>1, <2>4, SameInbox, RelayedGrown
    <3> QED BY <1>2, <1>3, <2>1, <3>1, <3>2, GrownForgets
  <2> QED BY <2>3, <2>4
<1> QED BY <1>10, <1>11

LEMMA GInvInit == Init => GInv
<1> SUFFICES ASSUME Init PROVE GInv
  OBVIOUS
<1>1. ASSUME NEW p \in Slots, Minds(p), NEW q \in Slots, phase[q] = "out" PROVE Forgets(p, q)
  <2>1. q \notin Members /\ p \in Members
    BY <1>1 DEF Init, Minds
  <2>2. inbox[p] = <<>> /\ buffer[p] = <<>> /\ q \notin plractive[p]
    BY <2>1 DEF Init
  <2> QED BY <2>2, GoneEmpty DEF Forgets, Forget
<1>2. \A q \in Slots : up[q] = <<>>
  BY DEF Init
<1> QED BY <1>1, <1>2 DEF GInv, LeavesLast

LEMMA GInvStep == TKInv /\ GInv /\ [Next]_vars => GInv'
<1> SUFFICES ASSUME TKInv, GInv, [Next]_vars PROVE GInv'
  OBVIOUS
<1>0. TInv /\ ActiveKnown
  BY DEF TKInv
<1>1. CASE UNCHANGED vars
  BY <1>1 DEF vars, netVars, programVars, leaveVars, GInv, LeavesLast, Minds, Forgets, Forget,
              EndsInLeave, IsLeave, Closed, Silent
<1> SUFFICES ASSUME Next PROVE GInv'
  BY <1>1
<1> PICK p \in Slots :
        \/ Join(p) \/ NetInit(p) \/ BufferMessage(p) \/ BufferDrops(p)
        \/ ResyncEnds(p) \/ EnterGame(p) \/ ReplayDrop(p) \/ ReplayMessage(p)
        \/ DiscardRest(p) \/ ReplayEnds(p) \/ ClearPlayerLeft(p) \/ HandleMessage(p)
        \/ ChangeLevel(p) \/ HandleDisconnect(p) \/ Relay(p) \/ Leave(p) \/ Crash(p)
  BY Zenon DEF Next
<1>2. CASE Join(p)
  BY <1>0, <1>2, JoinForgets
<1>3. CASE NetInit(p) \/ EnterGame(p) \/ ChangeLevel(p)
  BY <1>3, SendForgets
<1>4. CASE BufferMessage(p)
  BY <1>0, <1>4, BufferMessageForgets
<1>5. CASE BufferDrops(p)
  BY <1>0, <1>5, BufferDropsForgets
<1>6. CASE ResyncEnds(p) \/ DiscardRest(p) \/ ReplayEnds(p)
  BY <1>0, <1>6, PhaseForgets
<1>7. CASE ReplayDrop(p)
  BY <1>0, <1>7, ReplayDropForgets
<1>8. CASE ClearPlayerLeft(p)
  BY <1>0, <1>8, ClearPlayerLeftForgets
<1>9. CASE ReplayMessage(p) \/ HandleMessage(p)
  <2>1. \E m, boxes : Reads(p, m, boxes)
    BY <1>9, Zenon DEF Reads
  <2> QED BY <2>1, ReadsForget
<1>10. CASE HandleDisconnect(p)
  BY <1>0, <1>10, HandleDisconnectForgets
<1>11. CASE Relay(p)
  BY <1>0, <1>11, RelayForgets
<1>12. CASE Leave(p) \/ Crash(p)
  BY <1>0, <1>12, EndForgets
<1> QED
  BY <1>2, <1>3, <1>4, <1>5, <1>6, <1>7, <1>8, <1>9, <1>10, <1>11, <1>12

LEMMA GInvImplies == TInv /\ GInv => GoneWhenQuiet
<1> SUFFICES ASSUME TInv, GInv, Quiet, NEW p \in Playing, phase[p] # "cut", p \notin early,
                    NEW q \in plractive[p]
             PROVE  q \in Playing
  BY DEF GoneWhenQuiet
<1>1. p \in Slots /\ phase[p] = "play" /\ p \in connections /\ buffer[p] = <<>>
  BY DEF Playing, Plays, TInv, Standing
<1>2. q \in Slots /\ phase[q] \in Phases /\ ~ Joins(q) /\ up[q] = <<>>
  BY <1>1 DEF TInv, Typed, Programs, Quiet
<1>3. inbox[p] = <<>> /\ playerLeft[p] = {}
  BY <1>1 DEF Quiet
<1>4. phase[q] # "out"
  <2>1. SUFFICES ASSUME phase[q] = "out" PROVE FALSE
    OBVIOUS
  <2>2. Forgets(p, q)
    BY <1>1, <1>2, <2>1 DEF GInv, Minds
  <2> QED BY <1>1, <1>3, <2>2, GoneEmpty DEF Forgets, Forget
<1> QED BY <1>2, <1>4 DEF Phases, Joins, Playing, Plays

(* When all messages were handled, every active player is one that plays: the   *)
(* character of a player that left or crashed in the middle of its join, its    *)
(* answer or its change of level is not brought back by what was still on its   *)
(* way (PlayerLeftMsg, ClearMsg, msg_send_drop_pkt), unless the receiver has    *)
(* discarded messages or its replay handled a leave early.                      *)
THEOREM GoneForgotten == Spec => []GoneWhenQuiet
<1>1. TKInv /\ GInv /\ [Next]_vars => (TKInv /\ GInv)'
  BY TKInvStep, GInvStep
<1>2. TKInv /\ GInv => GoneWhenQuiet
  BY GInvImplies DEF TKInv
<1> QED BY TKInvInit, GInvInit, <1>1, <1>2, PTL DEF Spec

--------------------------------------------------------------------------------
(* What is in a sequence, and in what order.                                   *)

Has(s, A) == \E i \in 1 .. Len(s) : s[i] \in A

\* What is in A comes before what is in B.
Before(s, A, B) == \A i, j \in 1 .. Len(s) : i < j /\ s[i] \in B => s[j] \notin A

LEMMA HasConcat ==
    ASSUME NEW S, NEW s \in Seq(S), NEW t \in Seq(S), NEW A
    PROVE  Has(s \o t, A) <=> Has(s, A) \/ Has(t, A)
<1>1. /\ Len(s \o t) = Len(s) + Len(t) /\ Len(s) \in Nat /\ Len(t) \in Nat
      /\ \A i \in 1 .. Len(s) : (s \o t)[i] = s[i]
      /\ \A i \in 1 .. Len(t) : (s \o t)[Len(s) + i] = t[i]
  OBVIOUS
<1> DEFINE u == s \o t
<1> HIDE DEF u
<1>2. ASSUME NEW i \in 1 .. Len(u), u[i] \in A PROVE Has(s, A) \/ Has(t, A)
  <2>1. CASE i \in 1 .. Len(s)
    BY <1>1, <1>2, <2>1 DEF Has, u
  <2>2. CASE i \notin 1 .. Len(s)
    <3>1. i - Len(s) \in 1 .. Len(t) /\ Len(s) + (i - Len(s)) = i
      BY <1>1, <2>2 DEF u
    <3> QED BY <1>1, <1>2, <3>1 DEF Has, u
  <2> QED BY <2>1, <2>2
<1>3. Has(s, A) => Has(u, A)
  BY <1>1 DEF Has, u
<1>4. Has(t, A) => Has(u, A)
  <2>1. \A i \in 1 .. Len(t) : Len(s) + i \in 1 .. Len(u)
    BY <1>1 DEF u
  <2> QED BY <1>1, <2>1 DEF Has, u
<1> QED BY <1>2, <1>3, <1>4 DEF Has, u

LEMMA HasOne ==
    ASSUME NEW x, NEW A, NEW B
    PROVE  /\ Has(<<x>>, A) <=> x \in A
           /\ ~ Has(<<>>, A)
           /\ Before(<<x>>, A, B) /\ Before(<<>>, A, B)
<1>1. Len(<<x>>) = 1 /\ <<x>>[1] = x /\ Len(<<>>) = 0
  OBVIOUS
<1>2. \A i, j \in 1 .. 1 : ~ (i < j)
  OBVIOUS
<1>3. 1 \in 1 .. 1 /\ \A i \in 1 .. 1 : i = 1
  OBVIOUS
<1>4. \A i \in 1 .. 0 : FALSE
  OBVIOUS
<1> QED BY <1>1, <1>2, <1>3, <1>4, Zenon DEF Has, Before

LEMMA BeforeConcat ==
    ASSUME NEW S, NEW s \in Seq(S), NEW t \in Seq(S), NEW A, NEW B
    PROVE  Before(s \o t, A, B) <=>
               Before(s, A, B) /\ Before(t, A, B) /\ ~ (Has(s, B) /\ Has(t, A))
<1>1. /\ Len(s \o t) = Len(s) + Len(t) /\ Len(s) \in Nat /\ Len(t) \in Nat
      /\ \A i \in 1 .. Len(s) : (s \o t)[i] = s[i]
      /\ \A i \in 1 .. Len(t) : (s \o t)[Len(s) + i] = t[i]
  OBVIOUS
<1> DEFINE u == s \o t
<1> HIDE DEF u
<1>2. ASSUME Before(s, A, B), Before(t, A, B), ~ (Has(s, B) /\ Has(t, A))
      PROVE  Before(u, A, B)
  <2> SUFFICES ASSUME NEW i \in 1 .. Len(u), NEW j \in 1 .. Len(u), i < j, u[i] \in B
               PROVE  u[j] \notin A
    BY DEF Before
  <2>1. CASE j \in 1 .. Len(s)
    <3>1. i \in 1 .. Len(s)
      BY <1>1, <2>1 DEF u
    <3> QED BY <1>1, <1>2, <2>1, <3>1 DEF Before, u
  <2>2. CASE i \notin 1 .. Len(s)
    <3>1. /\ i - Len(s) \in 1 .. Len(t) /\ Len(s) + (i - Len(s)) = i
          /\ j - Len(s) \in 1 .. Len(t) /\ Len(s) + (j - Len(s)) = j
          /\ i - Len(s) < j - Len(s)
      BY <1>1, <2>2 DEF u
    <3>2. u[i] = t[i - Len(s)] /\ u[j] = t[j - Len(s)]
      BY <1>1, <3>1 DEF u
    <3> QED BY <1>2, <3>1, <3>2, Zenon DEF Before
  <2>3. CASE i \in 1 .. Len(s) /\ j \notin 1 .. Len(s)
    <3>1. j - Len(s) \in 1 .. Len(t) /\ Len(s) + (j - Len(s)) = j
      BY <1>1, <2>3 DEF u
    <3>2. u[i] = s[i] /\ u[j] = t[j - Len(s)]
      BY <1>1, <2>3, <3>1 DEF u
    <3> QED BY <1>2, <2>3, <3>1, <3>2, Zenon DEF Has
  <2> QED BY <2>1, <2>2, <2>3
<1>3. ASSUME Before(u, A, B) PROVE Before(s, A, B)
  <2>1. 1 .. Len(s) \subseteq 1 .. Len(u)
    BY <1>1 DEF u
  <2> QED BY <1>1, <1>3, <2>1 DEF Before, u
<1>4. ASSUME Before(u, A, B) PROVE Before(t, A, B)
  <2> SUFFICES ASSUME NEW i \in 1 .. Len(t), NEW j \in 1 .. Len(t), i < j, t[i] \in B
               PROVE  t[j] \notin A
    BY DEF Before
  <2>1. Len(s) + i \in 1 .. Len(u) /\ Len(s) + j \in 1 .. Len(u) /\ Len(s) + i < Len(s) + j
    BY <1>1 DEF u
  <2>2. u[Len(s) + i] = t[i] /\ u[Len(s) + j] = t[j]
    BY <1>1 DEF u
  <2> QED BY <1>4, <2>1, <2>2, Zenon DEF Before
<1>5. ASSUME Before(u, A, B), Has(s, B), Has(t, A) PROVE FALSE
  <2>1. PICK i \in 1 .. Len(s) : s[i] \in B
    BY <1>5 DEF Has
  <2>2. PICK j \in 1 .. Len(t) : t[j] \in A
    BY <1>5 DEF Has
  <2>3. i \in 1 .. Len(u) /\ Len(s) + j \in 1 .. Len(u) /\ i < Len(s) + j
    BY <1>1 DEF u
  <2>4. u[i] = s[i] /\ u[Len(s) + j] = t[j]
    BY <1>1 DEF u
  <2> QED BY <1>5, <2>1, <2>2, <2>3, <2>4, Zenon DEF Before
<1> QED BY <1>2, <1>3, <1>4, <1>5 DEF u

LEMMA AmongLess ==
    ASSUME NEW S, NEW s \in Seq(S), NEW T, NEW A, Has(Among(s, T), A)
    PROVE  Has(s, A)
<1> DEFINE P == {r \in Seq(S) : Has(Among(r, T), A) => Has(r, A)}
<1>1. <<>> \in P
  BY AmongEmpty, HasOne
<1>2. ASSUME NEW r \in Seq(S), NEW x \in S, r \in P PROVE Append(r, x) \in P
  <2>1. Among(Append(r, x), T) = IF x \in T THEN Append(Among(r, T), x) ELSE Among(r, T)
    BY AmongAppend
  <2>2. Among(r, T) \in Seq(S)
    BY AmongType
  <2>3. <<x>> \in Seq(S) /\ Append(r, x) = r \o <<x>> /\ Append(r, x) \in Seq(S)
        /\ Append(Among(r, T), x) = Among(r, T) \o <<x>>
    BY <2>2
  <2>4. /\ Has(r \o <<x>>, A) <=> Has(r, A) \/ Has(<<x>>, A)
        /\ Has(Among(r, T) \o <<x>>, A) <=> Has(Among(r, T), A) \/ Has(<<x>>, A)
    BY <2>2, <2>3, HasConcat
  <2> QED BY <1>2, <2>1, <2>3, <2>4, Zenon
<1> HIDE DEF P
<1>3. Seq(S) \subseteq P
  BY <1>1, <1>2, SeqInduct
<1> QED BY <1>3 DEF P

LEMMA AmongHas ==
    ASSUME NEW S, NEW s \in Seq(S), NEW T, NEW A
    PROVE  /\ Has(Among(s, T), A) => Has(s, A)
           /\ S \cap A \subseteq T => (Has(s, A) => Has(Among(s, T), A))
           /\ S \cap A \cap T = {} => ~ Has(Among(s, T), A)
<1>1. Among(s, T) \in Seq(S \cap T)
  BY AmongType
<1>2. ASSUME NEW i \in 1 .. Len(s), s[i] \in A, S \cap A \subseteq T PROVE Has(Among(s, T), A)
  <2>1. s[i] \in T
    BY <1>2
  <2>2. \E j \in 1 .. Len(Among(s, T)) : Among(s, T)[j] = s[i]
    BY <2>1, AmongKeeps
  <2> QED BY <1>2, <2>2 DEF Has
<1>3. Has(Among(s, T), A) => Has(s, A)
  BY AmongLess
<1> DEFINE a == Among(s, T)
<1> HIDE DEF a
<1>4. a \in Seq(S \cap T)
  BY <1>1 DEF a
<1>5. S \cap A \cap T = {} => ~ Has(a, A)
  <2>1. \A i \in 1 .. Len(a) : a[i] \in S \cap T
    BY <1>4
  <2> QED BY <2>1 DEF Has
<1> QED BY <1>2, <1>3, <1>5 DEF Has, a

LEMMA AmongAbsent ==
    ASSUME NEW S, NEW s \in Seq(S), NEW T, ~ Has(s, T)
    PROVE  Among(s, T) = <<>>
<1> DEFINE a == Among(s, T)
<1> HIDE DEF a
<1>1. a \in Seq(S \cap T)
  BY AmongType DEF a
<1>2. a # <<>> => 1 \in 1 .. Len(a) /\ a[1] \in T
  BY <1>1
<1>3. a # <<>> => Has(a, T)
  BY <1>2 DEF Has
<1> QED BY <1>3, AmongLess DEF a

LEMMA AmongBefore ==
    ASSUME NEW S, NEW s \in Seq(S), NEW T, NEW A, NEW B, Before(s, A, B)
    PROVE  Before(Among(s, T), A, B)
<1> DEFINE P == {r \in Seq(S) : Before(r, A, B) => Before(Among(r, T), A, B)}
<1>1. <<>> \in P
  BY AmongEmpty, HasOne
<1>2. ASSUME NEW r \in Seq(S), NEW x \in S, r \in P PROVE Append(r, x) \in P
  <2>1. Among(Append(r, x), T) = IF x \in T THEN Append(Among(r, T), x) ELSE Among(r, T)
    BY AmongAppend
  <2>2. Among(r, T) \in Seq(S)
    BY AmongType
  <2>3. <<x>> \in Seq(S) /\ Append(r, x) = r \o <<x>> /\ Append(r, x) \in Seq(S)
        /\ Append(Among(r, T), x) = Among(r, T) \o <<x>>
    BY <2>2
  <2>4. /\ Before(r \o <<x>>, A, B) <=>
               Before(r, A, B) /\ Before(<<x>>, A, B) /\ ~ (Has(r, B) /\ Has(<<x>>, A))
        /\ Before(Among(r, T) \o <<x>>, A, B) <=>
               Before(Among(r, T), A, B) /\ Before(<<x>>, A, B) /\ ~ (Has(Among(r, T), B) /\ Has(<<x>>, A))
    BY <2>2, <2>3, BeforeConcat
  <2>5. Has(Among(r, T), B) => Has(r, B)
    BY AmongHas
  <2> QED BY <1>2, <2>1, <2>2, <2>3, <2>4, <2>5, Zenon
<1> HIDE DEF P
<1>3. Seq(S) \subseteq P
  BY <1>1, <1>2, SeqInduct
<1> QED BY <1>3 DEF P

--------------------------------------------------------------------------------
(* What a program learns of another one that plays on.                         *)

\* Messages of q's present life, and what else there is of q.
Current(p, q, l) == {m \in MessagesTo(p) : m.src = q /\ m.life = l}
Outdated(p, q, l) == From(q) \ Current(p, q, l)

Sent == {m \in MessagesType : m.type = "CMD_SEND_PLRINFO"}
JoinLevels == {m \in MessagesType : m.type = "CMD_PLAYER_JOINLEVEL"}
Starting == {m \in MessagesType : m.type \in InfoCommands /\ m.chunk = 0}
Asking == Sent \cap Starting

\* A character comes as a whole: behind a chunk there is the next one.
Unfinished(m) == m.type \in InfoCommands /\ m.chunk < Chunks - 1
Follows(m, x) == x.type = m.type /\ x.chunk = m.chunk + 1
Whole(s) ==
    \A i \in 1 .. Len(s) : Unfinished(s[i]) => i < Len(s) /\ Follows(s[i], s[i + 1])

\* The line of what q has sent in its phase and is to be read yet.  Who has entered a
\* level has said so behind its character.
Ordered(line, ph) ==
    /\ Whole(line)
    /\ Before(line, Sent, JoinLevels)
    /\ ph = "joined" => line = <<>>
    /\ ph \in {"replay", "play"} /\ Has(line, Sent) => Has(line, JoinLevels)

LEMMA WholeConcat ==
    ASSUME NEW s \in Seq(MessagesType), NEW t \in Seq(MessagesType), Whole(s), Whole(t)
    PROVE  Whole(s \o t)
<1>1. /\ Len(s \o t) = Len(s) + Len(t) /\ Len(s) \in Nat /\ Len(t) \in Nat
      /\ \A i \in 1 .. Len(s) : (s \o t)[i] = s[i]
      /\ \A i \in 1 .. Len(t) : (s \o t)[Len(s) + i] = t[i]
  OBVIOUS
<1> DEFINE u == s \o t
<1> HIDE DEF u
<1> SUFFICES ASSUME NEW i \in 1 .. Len(u), Unfinished(u[i])
             PROVE  i < Len(u) /\ Follows(u[i], u[i + 1])
  BY DEF Whole, u
<1>2. CASE i \in 1 .. Len(s)
  <2>1. u[i] = s[i]
    BY <1>1, <1>2 DEF u
  <2>2. i < Len(s) /\ Follows(s[i], s[i + 1])
    BY <1>2, <2>1 DEF Whole
  <2>3. i + 1 \in 1 .. Len(s)
    BY <1>1, <1>2, <2>2
  <2>4. u[i + 1] = s[i + 1] /\ i < Len(u)
    BY <1>1, <2>2, <2>3 DEF u
  <2> QED BY <2>1, <2>2, <2>4
<1>3. CASE i \notin 1 .. Len(s)
  <2> DEFINE k == i - Len(s)
  <2>1. k \in 1 .. Len(t) /\ Len(s) + k = i /\ Len(s) + (k + 1) = i + 1
    BY <1>1, <1>3 DEF u
  <2>2. u[i] = t[k]
    BY <1>1, <2>1 DEF u
  <2>3. k < Len(t) /\ Follows(t[k], t[k + 1])
    BY <2>1, <2>2 DEF Whole
  <2>4. k + 1 \in 1 .. Len(t)
    BY <1>1, <2>1, <2>3
  <2> HIDE DEF k
  <2>5. u[i + 1] = t[k + 1] /\ i < Len(u)
    BY <1>1, <2>1, <2>3, <2>4 DEF u
  <2> QED BY <2>2, <2>3, <2>5
<1> QED BY <1>2, <1>3

LEMMA WholeTail ==
    ASSUME NEW m \in MessagesType, NEW t \in Seq(MessagesType), Whole(<<m>> \o t)
    PROVE  Whole(t) /\ (Unfinished(m) => t # <<>> /\ Follows(m, t[1]))
<1> DEFINE u == <<m>> \o t
<1>1. /\ Len(u) = 1 + Len(t) /\ Len(t) \in Nat /\ u[1] = m
      /\ \A i \in 1 .. Len(t) : u[i + 1] = t[i]
  OBVIOUS
<1>2. Whole(u)
  OBVIOUS
<1> HIDE DEF u
<1>3. Whole(t)
  <2> SUFFICES ASSUME NEW i \in 1 .. Len(t), Unfinished(t[i])
               PROVE  i < Len(t) /\ Follows(t[i], t[i + 1])
    BY DEF Whole
  <2>1. i + 1 \in 1 .. Len(u) /\ u[i + 1] = t[i]
    BY <1>1
  <2>2. i + 1 < Len(u) /\ Follows(u[i + 1], u[(i + 1) + 1])
    BY <1>2, <2>1 DEF Whole
  <2>3. i + 1 \in 1 .. Len(t)
    BY <1>1, <2>2
  <2> QED BY <1>1, <2>1, <2>2, <2>3
<1>4. ASSUME Unfinished(m) PROVE t # <<>> /\ Follows(m, t[1])
  <2>1. 1 \in 1 .. Len(u)
    BY <1>1
  <2>2. 1 < Len(u) /\ Follows(u[1], u[1 + 1])
    BY <1>1, <1>2, <1>4, <2>1 DEF Whole
  <2>3. 1 \in 1 .. Len(t)
    BY <1>1, <2>2
  <2> QED BY <1>1, <2>2, <2>3
<1> QED BY <1>3, <1>4

LEMMA WholeOne ==
    ASSUME NEW m, m.type \notin InfoCommands
    PROVE  Whole(<<m>>) /\ Whole(<<>>)
<1>1. Len(<<m>>) = 1 /\ <<m>>[1] = m /\ Len(<<>>) = 0
  OBVIOUS
<1> QED BY <1>1 DEF Whole, Unfinished

\* Nothing is sent before NetInit, which sends the character first.
LEMMA OrderedTail ==
    ASSUME NEW m \in MessagesType, NEW t \in Seq(MessagesType), NEW ph,
           Ordered(<<m>> \o t, ph)
    PROVE  /\ Ordered(t, ph) /\ ph # "joined"
           /\ Unfinished(m) => t # <<>> /\ Follows(m, t[1])
           /\ m \in Sent /\ ph \in {"replay", "play"} => Has(t, JoinLevels)
<1>1. <<m>> \in Seq(MessagesType)
  OBVIOUS
<1>2. Whole(t) /\ (Unfinished(m) => t # <<>> /\ Follows(m, t[1]))
  BY WholeTail DEF Ordered
<1>3. Before(t, Sent, JoinLevels) /\ ~ (m \in JoinLevels /\ Has(t, Sent))
  BY <1>1, BeforeConcat, HasOne DEF Ordered
<1>4. /\ Has(<<m>> \o t, Sent) <=> m \in Sent \/ Has(t, Sent)
      /\ Has(<<m>> \o t, JoinLevels) <=> m \in JoinLevels \/ Has(t, JoinLevels)
  BY <1>1, HasConcat, HasOne
<1>5. <<m>> \o t # <<>>
  OBVIOUS
<1>6. m \in Sent => m \notin JoinLevels
  BY DEF Sent, JoinLevels
<1> QED BY <1>2, <1>3, <1>4, <1>5, <1>6 DEF Ordered

LEMMA OrderedMore ==
    ASSUME NEW s \in Seq(MessagesType), NEW x \in Seq(MessagesType), NEW ph, ph # "joined",
           Ordered(s, ph), Whole(x), ~ Has(x, Sent)
    PROVE  /\ Ordered(s \o x, ph)
           /\ ph = "load" /\ Has(x, JoinLevels) => Ordered(s \o x, "replay")
<1>1. Whole(s \o x)
  BY WholeConcat DEF Ordered
<1>2. Before(s \o x, Sent, JoinLevels)
  <2>1. Before(x, Sent, JoinLevels)
    BY DEF Before, Has
  <2> QED BY <2>1, BeforeConcat DEF Ordered
<1>3. /\ Has(s \o x, Sent) <=> Has(s, Sent)
      /\ Has(s \o x, JoinLevels) <=> Has(s, JoinLevels) \/ Has(x, JoinLevels)
  BY HasConcat
<1> QED BY <1>1, <1>2, <1>3 DEF Ordered

\* What p has of q's past is in front of what it has of q's present.
Settled(buf, left, box, p, q, l) ==
    /\ Before(buf, Outdated(p, q, l), Current(p, q, l))
    /\ Before(box, Outdated(p, q, l), Current(p, q, l))
    /\ Has(buf, Current(p, q, l)) => q \notin left /\ ~ Has(box, Outdated(p, q, l))

\* What of q's past p has.
Past(buf, left, box, p, q, l) ==
    {m \in Outdated(p, q, l) : Has(buf, {m}) \/ Has(box, {m})} \cup (left \cap {q})

\* q's character is on its way from the start, or arriving, or known - q is active, or
\* says so yet - or q has not sent it yet.
Learnt(line, past, off, pack, char, active, ph, q, l) ==
    \/ Has(line, Starting)
    \/ /\ past = {} /\ off > 0
       /\ \A c \in 0 .. off - 1 : pack[c] = l
       /\ line # <<>> /\ line[1].type \in InfoCommands /\ line[1].chunk = off
    \/ /\ past = {} /\ off = 0 /\ char = PackOf(l)
       /\ q \in active \/ Has(line, JoinLevels) \/ ph \in {"resync", "load"}
    \/ ph = "joined"

\* What becomes of p's knowledge of q when it reads a message of q.
Took(m, off, pack, char, active, off2, pack2, char2, active2) ==
    IF m.type \in InfoCommands
    THEN IF m.chunk \in {0, off}
         THEN /\ off2 = NextOffset(m.chunk)
              /\ pack2 = [pack EXCEPT ![m.chunk] = m.life]
              /\ IF m.chunk = Chunks - 1
                 THEN char2 = pack2 /\ (m.type = "CMD_ACK_PLRINFO" => m.src \in active2)
                 ELSE TRUE
         ELSE off2 = 0 /\ char2 = char /\ active2 = active
    ELSE /\ off2 = off /\ pack2 = pack /\ char2 = char /\ active \subseteq active2
         /\ off = 0 /\ char # Blank => m.src \in active2

LEMMA LearntReads ==
    ASSUME NEW m \in MessagesType, NEW t \in Seq(MessagesType), NEW ph \in Phases \ {"out", "cut"},
           NEW q \in Slots, m.src = q, NEW l \in Lives, m.life = l,
           NEW past, NEW off \in 0 .. Chunks - 1, NEW pack \in Packs, NEW char, NEW active,
           NEW off2, NEW pack2, NEW char2, NEW active2,
           Ordered(<<m>> \o t, ph), Learnt(<<m>> \o t, past, off, pack, char, active, ph, q, l),
           Took(m, off, pack, char, active, off2, pack2, char2, active2)
    PROVE  Learnt(t, {}, off2, pack2, char2, active2, ph, q, l)
<1>1. /\ ph # "joined"
      /\ Unfinished(m) => t # <<>> /\ Follows(m, t[1])
      /\ m \in Sent /\ ph \in {"replay", "play"} => Has(t, JoinLevels)
  BY OrderedTail
<1>2. /\ Has(<<m>> \o t, Starting) <=> m \in Starting \/ Has(t, Starting)
      /\ Has(<<m>> \o t, JoinLevels) <=> m \in JoinLevels \/ Has(t, JoinLevels)
  <2>1. <<m>> \in Seq(MessagesType)
    OBVIOUS
  <2> QED BY <2>1, HasConcat, HasOne
<1>3. (<<m>> \o t)[1] = m
  OBVIOUS
<1>4. m.chunk \in 0 .. Chunks - 1 /\ Chunks \in Nat /\ Chunks >= 1
      /\ m.type \in {"CMD_SEND_PLRINFO", "CMD_ACK_PLRINFO", "CMD_PLAYER_JOINLEVEL"}
  BY Constants DEF MessagesType, InfoCommands
<1>5. ASSUME m.type \in InfoCommands,
             m.chunk = 0 \/ (m.chunk = off /\ \A c \in 0 .. off - 1 : pack[c] = l)
      PROVE  Learnt(t, {}, off2, pack2, char2, active2, ph, q, l)
  <2>1. /\ off2 = NextOffset(m.chunk)
        /\ pack2 = [pack EXCEPT ![m.chunk] = l]
        /\ m.chunk = Chunks - 1 =>
               char2 = pack2 /\ (m.type = "CMD_ACK_PLRINFO" => q \in active2)
    BY <1>5 DEF Took
  <2>2. \A c \in 0 .. m.chunk : pack2[c] = l
    <3>1. \A c \in 0 .. Chunks - 1 : pack2[c] = IF c = m.chunk THEN l ELSE pack[c]
      BY <1>4, <2>1 DEF Packs
    <3>2. \A c \in 0 .. m.chunk : c \in 0 .. Chunks - 1 /\ (c # m.chunk => m.chunk # 0 /\ c \in 0 .. m.chunk - 1)
      BY <1>4
    <3> QED BY <1>5, <3>1, <3>2, Zenon
  <2>3. CASE m.chunk < Chunks - 1
    <3>1. off2 = m.chunk + 1 /\ off2 > 0 /\ off2 - 1 = m.chunk
      BY <1>4, <2>1, <2>3 DEF NextOffset
    <3>2. t # <<>> /\ t[1].type = m.type /\ t[1].chunk = m.chunk + 1
      BY <1>1, <1>5, <2>3 DEF Unfinished, Follows
    <3>3. \A c \in 0 .. off2 - 1 : pack2[c] = l
      BY <2>2, <3>1
    <3> QED BY <1>5, <3>1, <3>2, <3>3 DEF Learnt
  <2>4. CASE m.chunk = Chunks - 1
    <3>1. off2 = 0 /\ char2 = pack2 /\ (m.type = "CMD_ACK_PLRINFO" => q \in active2)
      BY <1>4, <2>1, <2>4 DEF NextOffset
    <3>2. pack2 = PackOf(l)
      <4>1. pack2 \in Packs
        BY <1>4, <2>1, PackTypes
      <4>2. \A c \in 0 .. Chunks - 1 : pack2[c] = l
        BY <2>2, <2>4
      <4> QED BY <4>1, <4>2 DEF Packs, PackOf
    <3>3. m.type = "CMD_SEND_PLRINFO" => Has(t, JoinLevels) \/ ph \in {"resync", "load"}
      BY <1>1 DEF Sent, Phases
    <3>4. m.type \in {"CMD_SEND_PLRINFO", "CMD_ACK_PLRINFO"}
      BY <1>5 DEF InfoCommands
    <3> QED BY <3>1, <3>2, <3>3, <3>4 DEF Learnt
  <2> QED BY <1>4, <2>3, <2>4
<1>6. CASE Has(t, Starting)
  BY <1>6 DEF Learnt
<1>7. CASE m \in Starting
  BY <1>5, <1>7 DEF Starting
<1>8. CASE /\ off > 0 /\ \A c \in 0 .. off - 1 : pack[c] = l
           /\ m.type \in InfoCommands /\ m.chunk = off
  BY <1>5, <1>8
<1>9. CASE /\ off = 0 /\ char = PackOf(l) /\ m \notin Starting
           /\ q \in active \/ Has(<<m>> \o t, JoinLevels) \/ ph \in {"resync", "load"}
  <2>1. CASE m.type \in InfoCommands
    <3>1. m.chunk # 0 /\ m \notin JoinLevels
      BY <1>9, <2>1 DEF Starting, JoinLevels, InfoCommands
    <3>2. off2 = 0 /\ char2 = char /\ active2 = active
      BY <1>9, <2>1, <3>1 DEF Took
    <3> QED BY <1>2, <1>9, <3>1, <3>2 DEF Learnt
  <2>2. CASE m.type \notin InfoCommands
    <3>1. char # Blank
      BY <1>9, PackTypes
    <3>2. off2 = 0 /\ char2 = char /\ q \in active2
      BY <1>9, <2>2, <3>1 DEF Took
    <3> QED BY <1>9, <3>2 DEF Learnt
  <2> QED BY <2>1, <2>2
<1>10. \/ Has(<<m>> \o t, Starting)
       \/ /\ off > 0 /\ \A c \in 0 .. off - 1 : pack[c] = l
          /\ (<<m>> \o t)[1].type \in InfoCommands /\ (<<m>> \o t)[1].chunk = off
       \/ /\ off = 0 /\ char = PackOf(l)
          /\ q \in active \/ Has(<<m>> \o t, JoinLevels) \/ ph \in {"resync", "load"}
  BY <1>1 DEF Learnt
<1> QED BY <1>2, <1>3, <1>6, <1>7, <1>8, <1>9, <1>10, Zenon

LEMMA PastEmpty ==
    ASSUME NEW buf, NEW left, NEW box, NEW p, NEW q, NEW l
    PROVE  Past(buf, left, box, p, q, l) = {} <=>
               /\ ~ Has(buf, Outdated(p, q, l)) /\ ~ Has(box, Outdated(p, q, l))
               /\ q \notin left
<1>1. \A s : Has(s, Outdated(p, q, l)) <=> \E m \in Outdated(p, q, l) : Has(s, {m})
  BY DEF Has
<1> QED BY <1>1 DEF Past

\* From one state of what p has received to another, as far as q's past is concerned.
Keeps(buf, left, box, buf2, left2, box2, p, q, l) ==
    /\ Settled(buf, left, box, p, q, l) => Settled(buf2, left2, box2, p, q, l)
    /\ Past(buf, left, box, p, q, l) = {} => Past(buf2, left2, box2, p, q, l) = {}

LEMMA Parted ==
    ASSUME NEW p, NEW q, NEW l
    PROVE  /\ Current(p, q, l) \cap Outdated(p, q, l) = {}
           /\ From(q) = Current(p, q, l) \cup Outdated(p, q, l)
           /\ Current(p, q, l) \subseteq MessagesType /\ Current(p, q, l) \subseteq Packets
<1>1. MessagesTo(p) \subseteq MessagesType /\ MessagesTo(p) \subseteq Packets /\ MessagesTo(p) \subseteq Items
  BY ItemTypes, PacketTypes DEF MessagesTo
<1> QED BY <1>1 DEF Current, Outdated, From

LEMMA KeepsBuffered ==
    ASSUME NEW m \in Items, NEW buf \in Seq(Items), NEW box \in Seq(Items), NEW p, NEW q, NEW l
    PROVE  Keeps(buf, {}, <<m>> \o box, buf \o <<m>>, {}, box, p, q, l)
<1> DEFINE C == Current(p, q, l)
           O == Outdated(p, q, l)
<1>1. <<m>> \in Seq(Items)
  OBVIOUS
<1>2. /\ Has(<<m>> \o box, O) <=> m \in O \/ Has(box, O)
      /\ Has(buf \o <<m>>, C) <=> Has(buf, C) \/ m \in C
      /\ Has(buf \o <<m>>, O) <=> Has(buf, O) \/ m \in O
  <2> HIDE DEF C, O
  <2>1. Has(<<m>> \o box, O) <=> Has(<<m>>, O) \/ Has(box, O)
    BY <1>1, HasConcat
  <2>2. Has(buf \o <<m>>, C) <=> Has(buf, C) \/ Has(<<m>>, C)
    BY <1>1, HasConcat
  <2>3. Has(buf \o <<m>>, O) <=> Has(buf, O) \/ Has(<<m>>, O)
    BY <1>1, HasConcat
  <2> QED BY <2>1, <2>2, <2>3, HasOne
<1>3. /\ Before(<<m>> \o box, O, C) <=> Before(box, O, C) /\ ~ (m \in C /\ Has(box, O))
      /\ Before(buf \o <<m>>, O, C) <=> Before(buf, O, C) /\ ~ (Has(buf, C) /\ m \in O)
  BY <1>1, BeforeConcat, HasOne
<1>4. q \notin {}
  OBVIOUS
<1> QED BY <1>2, <1>3, <1>4, PastEmpty DEF Keeps, Settled

\* More of q's present comes, or of others.
LEMMA KeepsMore ==
    ASSUME NEW buf \in Seq(Items), NEW box \in Seq(Items), NEW more \in Seq(Items), NEW left,
           NEW p, NEW q, NEW l, ~ Has(more, Outdated(p, q, l))
    PROVE  Keeps(buf, left, box, buf, left, box \o more, p, q, l)
<1> DEFINE C == Current(p, q, l)
           O == Outdated(p, q, l)
<1>1. Has(box \o more, O) <=> Has(box, O)
  BY HasConcat
<1>2. Before(more, O, C)
  BY DEF Has, Before
<1>3. Before(box \o more, O, C) <=> Before(box, O, C)
  BY <1>2, BeforeConcat
<1> QED BY <1>1, <1>3, PastEmpty DEF Keeps, Settled

\* Pending leaves are buffered, or handled.
LEMMA KeepsDrops ==
    ASSUME NEW buf \in Seq(Items), NEW box, NEW drops \in Seq(Items), NEW left, NEW p, NEW q, NEW l,
           ~ Has(drops, Current(p, q, l)), q \notin left => ~ Has(drops, Outdated(p, q, l))
    PROVE  /\ Keeps(buf, left, box, buf \o drops, {}, box, p, q, l)
           /\ Keeps(buf, left, box, buf, {}, box, p, q, l)
<1> DEFINE C == Current(p, q, l)
           O == Outdated(p, q, l)
<1>1. /\ Has(buf \o drops, C) <=> Has(buf, C)
      /\ Has(buf \o drops, O) <=> Has(buf, O) \/ Has(drops, O)
  BY HasConcat
<1>2. Before(drops, O, C)
  BY DEF Has, Before
<1>3. Before(buf \o drops, O, C) <=> Before(buf, O, C) /\ ~ (Has(buf, C) /\ Has(drops, O))
  BY <1>2, BeforeConcat
<1>4. q \notin {}
  OBVIOUS
<1> QED BY <1>1, <1>3, <1>4, PastEmpty DEF Keeps, Settled

\* A leave becomes pending, and what waits in front of it is dropped: of q, when it is
\* settled, that is not of its present.
LEMMA KeepsLeave ==
    ASSUME NEW waiting \in Seq(Packets), NEW behind \in Seq(Packets), NEW d \in Slots,
           NEW buf, NEW left, NEW p, NEW q \in Slots, NEW l
    PROVE  LET box == waiting \o (<<Event("PT_DISCONNECT", d)>> \o behind)
               box2 == ClearMsg(waiting, d) \o behind
           IN  /\ Keeps(buf, left, box, buf, left \cup {d}, box2, p, q, l)
               /\ Settled(buf, left, box, p, q, l) =>
                      Among(box2, Current(p, q, l)) = Among(box, Current(p, q, l))
<1> DEFINE C == Current(p, q, l)
           O == Outdated(p, q, l)
           e == Event("PT_DISCONNECT", d)
           cleared == ClearMsg(waiting, d)
           box == waiting \o (<<e>> \o behind)
           box2 == cleared \o behind
           others == {m \in Packets : m.src # d}
<1>1. e \in Packets /\ e \in Items /\ e.src = d /\ IsLeave(e)
  BY PacketTypes, ItemTypes
<1>2. e \notin C /\ (e \in O <=> d = q)
  <2>1. \A m \in MessagesTo(p) : ~ IsLeave(m)
    BY ItemTypes
  <2> HIDE DEF e
  <2> QED BY <1>1, <2>1 DEF Current, Outdated, From
<1>3. cleared \in Seq(Packets)
  BY AmongType DEF ClearMsg
<1>4. /\ Has(cleared, O) => Has(waiting, O)
      /\ Has(cleared, C) => Has(waiting, C)
      /\ Before(waiting, O, C) => Before(cleared, O, C)
  <2>1. /\ Has(Among(waiting, others), O) => Has(waiting, O)
        /\ Has(Among(waiting, others), C) => Has(waiting, C)
    BY AmongHas
  <2>2. Before(waiting, O, C) => Before(Among(waiting, others), O, C)
    <3> HIDE DEF C, O, others
    <3> QED BY AmongBefore
  <2> QED BY <2>1, <2>2 DEF ClearMsg
<1> HIDE DEF e, cleared
<1>5. <<e>> \in Seq(Packets) /\ <<e>> \o behind \in Seq(Packets)
  BY <1>1
<1>6. /\ Has(<<e>> \o behind, C) <=> Has(behind, C)
      /\ Has(<<e>> \o behind, O) <=> d = q \/ Has(behind, O)
      /\ Before(<<e>> \o behind, O, C) <=> Before(behind, O, C)
  <2> HIDE DEF C, O
  <2> QED BY <1>2, <1>5, HasConcat, HasOne, BeforeConcat
<1>7. /\ Has(box, O) <=> Has(waiting, O) \/ Has(<<e>> \o behind, O)
      /\ Before(box, O, C) <=> /\ Before(waiting, O, C) /\ Before(<<e>> \o behind, O, C)
                               /\ ~ (Has(waiting, C) /\ Has(<<e>> \o behind, O))
      /\ Has(box2, O) <=> Has(cleared, O) \/ Has(behind, O)
      /\ Before(box2, O, C) <=> /\ Before(cleared, O, C) /\ Before(behind, O, C)
                                /\ ~ (Has(cleared, C) /\ Has(behind, O))
  <2> HIDE DEF C, O
  <2>1. waiting \in Seq(Packets) /\ behind \in Seq(Packets)
        /\ box = waiting \o (<<e>> \o behind) /\ box2 = cleared \o behind
    OBVIOUS
  <2>2. Has(box, O) <=> Has(waiting, O) \/ Has(<<e>> \o behind, O)
    BY <1>5, <2>1, HasConcat
  <2>3. Before(box, O, C) <=> /\ Before(waiting, O, C) /\ Before(<<e>> \o behind, O, C)
                              /\ ~ (Has(waiting, C) /\ Has(<<e>> \o behind, O))
    BY <1>5, <2>1, BeforeConcat
  <2>4. Has(box2, O) <=> Has(cleared, O) \/ Has(behind, O)
    BY <1>3, <2>1, HasConcat
  <2>5. Before(box2, O, C) <=> /\ Before(cleared, O, C) /\ Before(behind, O, C)
                               /\ ~ (Has(cleared, C) /\ Has(behind, O))
    BY <1>3, <2>1, BeforeConcat
  <2> QED BY <2>2, <2>3, <2>4, <2>5
<1>8. q \in left \cup {d} <=> q \in left \/ d = q
  OBVIOUS
<1>9. Keeps(buf, left, box, buf, left \cup {d}, box2, p, q, l)
  <2> HIDE DEF box, box2
  <2> QED BY <1>4, <1>6, <1>7, <1>8, PastEmpty DEF Keeps, Settled
<1>10. \A x, y \in Seq(Packets) : Among(x \o y, C) = Among(x, C) \o Among(y, C)
  <2> HIDE DEF C
  <2> QED BY AmongConcat
<1>11. ASSUME Settled(buf, left, box, p, q, l) PROVE Among(box2, C) = Among(box, C)
  <2>1. /\ Among(box2, C) = Among(cleared, C) \o Among(behind, C)
        /\ Among(box, C) = Among(waiting, C) \o Among(<<e>> \o behind, C)
    BY <1>3, <1>5, <1>10, Zenon
  <2>2. Among(<<e>> \o behind, C) = Among(behind, C)
    <3>1. Among(<<e>> \o behind, C) = Among(<<e>>, C) \o Among(behind, C)
      BY <1>5, <1>10, Zenon
    <3>2. Among(<<e>>, C) = <<>>
      <4>1. ~ Has(<<e>>, C)
        BY <1>2, HasOne
      <4> QED BY <1>5, <4>1, AmongAbsent, Zenon
    <3>3. Among(behind, C) \in Seq(Packets)
      BY AmongType
    <3>4. \A s \in Seq(Packets) : <<>> \o s = s
      OBVIOUS
    <3> QED BY <3>1, <3>2, <3>3, <3>4, Zenon
  <2>3. CASE d = q
    <3>1. Before(box, O, C)
      BY <1>11 DEF Settled
    <3>2. ~ Has(waiting, C) /\ ~ Has(cleared, C)
      BY <1>4, <1>6, <1>7, <2>3, <3>1
    <3>3. Among(waiting, C) = <<>> /\ Among(cleared, C) = <<>>
      BY <1>3, <3>2, AmongAbsent
    <3> QED BY <2>1, <2>2, <3>3
  <2>4. CASE d # q
    <3>1. Packets \cap C \subseteq others
      BY <2>4 DEF Current
    <3>2. Among(Among(waiting, others), C) = Among(waiting, C)
      BY <3>1, AmongTwice
    <3> QED BY <2>1, <2>2, <3>2 DEF cleared, ClearMsg
  <2> QED BY <2>3, <2>4
<1> QED BY <1>9, <1>11 DEF e, cleared

--------------------------------------------------------------------------------
(* Lines.                                                                      *)

LineOf(buf, box, queue, p, q, l) ==
    Among(buf, Current(p, q, l)) \o (Among(box, Current(p, q, l)) \o Among(queue, Current(p, q, l)))

LEMMA CurrentType ==
    ASSUME NEW s \in Seq(Items), NEW p, NEW q, NEW l
    PROVE  Among(s, Current(p, q, l)) \in Seq(MessagesType)
<1>1. Among(s, Current(p, q, l)) \in Seq(Items \cap Current(p, q, l))
  BY AmongType
<1>2. Items \cap Current(p, q, l) \subseteq MessagesType
  BY Parted
<1> QED BY <1>1, <1>2, SeqMonotonicHere, Zenon

LEMMA MessagesConcat ==
    /\ \A s, t \in Seq(MessagesType) : s \o t \in Seq(MessagesType)
    /\ \A s, t, u \in Seq(MessagesType) : (s \o t) \o u = s \o (t \o u)
    /\ \A s \in Seq(MessagesType) : <<>> \o s = s /\ s \o <<>> = s
    /\ <<>> \in Seq(MessagesType)
    /\ \A m \in MessagesType : <<m>> \in Seq(MessagesType)
OBVIOUS

LEMMA MessagesAssociate == \A s, t, u \in Seq(MessagesType) : (s \o t) \o u = s \o (t \o u)
OBVIOUS

LEMMA LineType ==
    ASSUME NEW buf \in Seq(Items), NEW box \in Seq(Items), NEW queue \in Seq(Items),
           NEW p, NEW q, NEW l
    PROVE  LineOf(buf, box, queue, p, q, l) \in Seq(MessagesType)
<1>1. \A s \in Seq(Items) : Among(s, Current(p, q, l)) \in Seq(MessagesType)
  BY CurrentType
<1> QED BY <1>1, MessagesConcat, Zenon DEF LineOf

LEMMA ItemsConcat ==
    \A T : \A x, y \in Seq(Items) : Among(x \o y, T) = Among(x, T) \o Among(y, T)
<1> SUFFICES ASSUME NEW T
             PROVE  \A x, y \in Seq(Items) : Among(x \o y, T) = Among(x, T) \o Among(y, T)
  OBVIOUS
<1> QED BY AmongConcat

LEMMA CurrentConcat ==
    ASSUME NEW p, NEW q, NEW l
    PROVE  \A s, t \in Seq(Items) : Among(s \o t, Current(p, q, l)) =
                                        Among(s, Current(p, q, l)) \o Among(t, Current(p, q, l))
BY ItemsConcat, Zenon

LEMMA CurrentOne ==
    ASSUME NEW m \in Items, NEW p, NEW q, NEW l
    PROVE  Among(<<m>>, Current(p, q, l)) = IF m \in Current(p, q, l) THEN <<m>> ELSE <<>>
<1>1. <<>> \in Seq(Items) /\ Append(<<>>, m) = <<m>>
  OBVIOUS
<1>2. Among(Append(<<>>, m), Current(p, q, l)) =
          IF m \in Current(p, q, l) THEN Append(Among(<<>>, Current(p, q, l)), m)
          ELSE Among(<<>>, Current(p, q, l))
  BY <1>1, AmongAppend
<1> QED BY <1>1, <1>2, AmongEmpty

\* What is sent to p is among what is sent to p.
LEMMA CurrentDelivered ==
    ASSUME NEW s \in Seq(Packets), NEW p, NEW q, NEW l
    PROVE  Among(Among(s, To(p)), Current(p, q, l)) = Among(s, Current(p, q, l))
<1>1. Packets \cap Current(p, q, l) \subseteq To(p)
  BY PacketTypes DEF Current
<1> QED BY <1>1, AmongTwice

\* What is in front of a buffer, or of an inbox.
InFront(s, buf, box, queue, p, q, l) ==
    /\ LineOf(s \o buf, box, queue, p, q, l) =
           Among(s, Current(p, q, l)) \o LineOf(buf, box, queue, p, q, l)
    /\ LineOf(<<>>, s \o box, queue, p, q, l) =
           Among(s, Current(p, q, l)) \o LineOf(<<>>, box, queue, p, q, l)
    /\ LineOf(buf, s \o box, queue, p, q, l) = LineOf(buf \o s, box, queue, p, q, l)

LEMMA LineFront ==
    ASSUME NEW s \in Seq(Items), NEW buf \in Seq(Items), NEW box \in Seq(Items),
           NEW queue \in Seq(Items), NEW p, NEW q, NEW l
    PROVE  InFront(s, buf, box, queue, p, q, l)
<1> DEFINE C == Current(p, q, l)
           M == Among(s, C)
           B == Among(buf, C)
           W == Among(box, C)
           Q == Among(queue, C)
<1>1. <<>> \in Seq(Items)
  OBVIOUS
<1>2. B \in Seq(MessagesType) /\ W \in Seq(MessagesType) /\ Q \in Seq(MessagesType)
      /\ M \in Seq(MessagesType)
  BY <1>1, CurrentType
<1>3. /\ Among(s \o buf, C) = M \o B /\ Among(s \o box, C) = M \o W
      /\ Among(buf \o s, C) = B \o M /\ Among(<<>>, C) = <<>>
  <2> HIDE DEF C
  <2>1. \A x, y \in Seq(Items) : Among(x \o y, C) = Among(x, C) \o Among(y, C)
    BY ItemsConcat, Zenon
  <2>2. Among(<<>>, C) = <<>>
    BY AmongEmpty
  <2> QED BY <1>1, <2>1, <2>2, Zenon
<1> HIDE DEF C, M, B, W, Q
<1>5. /\ LineOf(s \o buf, box, queue, p, q, l) = (M \o B) \o (W \o Q)
      /\ LineOf(<<>>, s \o box, queue, p, q, l) = <<>> \o ((M \o W) \o Q)
      /\ LineOf(buf, s \o box, queue, p, q, l) = B \o ((M \o W) \o Q)
      /\ LineOf(buf \o s, box, queue, p, q, l) = (B \o M) \o (W \o Q)
      /\ LineOf(buf, box, queue, p, q, l) = B \o (W \o Q)
      /\ LineOf(<<>>, box, queue, p, q, l) = <<>> \o (W \o Q)
  BY <1>3, Zenon DEF LineOf, C, B, W, Q
<1>6. /\ (M \o B) \o (W \o Q) = M \o (B \o (W \o Q))
      /\ <<>> \o ((M \o W) \o Q) = M \o (<<>> \o (W \o Q))
      /\ B \o ((M \o W) \o Q) = (B \o M) \o (W \o Q)
  <2>2. W \o Q \in Seq(MessagesType)
    BY <1>2, MessagesConcat, Zenon
  <2>1. /\ (M \o B) \o (W \o Q) = M \o (B \o (W \o Q))
        /\ (M \o W) \o Q = M \o (W \o Q)
        /\ B \o ((M \o W) \o Q) = (B \o M) \o (W \o Q)
    <3>1. (M \o B) \o (W \o Q) = M \o (B \o (W \o Q))
      BY <1>2, <2>2, MessagesAssociate, Zenon
    <3>2. (M \o W) \o Q = M \o (W \o Q)
      BY <1>2, MessagesAssociate, Zenon
    <3>3. B \o (M \o (W \o Q)) = (B \o M) \o (W \o Q)
      BY <1>2, <2>2, MessagesAssociate, Zenon
    <3> QED BY <3>1, <3>2, <3>3, Zenon
  <2>3. M \o (W \o Q) \in Seq(MessagesType)
    BY <1>2, <2>2, MessagesConcat, Zenon
  <2>4. <<>> \o (W \o Q) = W \o Q /\ <<>> \o (M \o (W \o Q)) = M \o (W \o Q)
    BY <2>2, <2>3, MessagesConcat, Zenon
  <2> QED BY <2>1, <2>4, Zenon
<1> QED BY <1>5, <1>6, Zenon DEF C, M, InFront

\* The line grows at its end, wherever that is; what the server relays stays in it.
Growing(buf, box, queue, more, p, q, l) ==
    /\ LineOf(buf, box, queue \o more, p, q, l) =
           LineOf(buf, box, queue, p, q, l) \o Among(more, Current(p, q, l))
    /\ LineOf(buf, box \o Among(more, To(p)), <<>>, p, q, l) =
           LineOf(buf, box, <<>>, p, q, l) \o Among(more, Current(p, q, l))
    /\ LineOf(buf, box \o Among(more, To(p)), queue, p, q, l) =
           LineOf(buf, box, more \o queue, p, q, l)
    /\ ~ Has(more, Current(p, q, l)) =>
           LineOf(buf, box \o more, queue, p, q, l) = LineOf(buf, box, queue, p, q, l)

LEMMA LineGrows ==
    ASSUME NEW buf \in Seq(Items), NEW box \in Seq(Packets), NEW queue \in Seq(Packets),
           NEW more \in Seq(Packets), NEW p, NEW q, NEW l
    PROVE  Growing(buf, box, queue, more, p, q, l)
<1> DEFINE C == Current(p, q, l)
           M == Among(more, C)
           B == Among(buf, C)
           W == Among(box, C)
           Q == Among(queue, C)
           d == Among(more, To(p))
<1>1. /\ box \in Seq(Items) /\ queue \in Seq(Items) /\ more \in Seq(Items) /\ d \in Seq(Items)
      /\ <<>> \in Seq(Items)
  <2>1. d \in Seq(Packets)
    BY AmongType
  <2> HIDE DEF d
  <2> QED BY <2>1, ItemTypes, SeqMonotonicHere
<1>2. B \in Seq(MessagesType) /\ W \in Seq(MessagesType) /\ Q \in Seq(MessagesType)
      /\ M \in Seq(MessagesType)
  BY <1>1, CurrentType
<1>3. Among(d, C) = M
  BY CurrentDelivered
<1> HIDE DEF d
<1>4. /\ Among(queue \o more, C) = Q \o M /\ Among(box \o d, C) = W \o M /\ Among(more \o queue, C) = M \o Q
      /\ Among(<<>>, C) = <<>> /\ Among(box \o more, C) = W \o M
  <2>1. \A s, t \in Seq(Items) : Among(s \o t, C) = Among(s, C) \o Among(t, C)
    BY CurrentConcat
  <2>2. Among(<<>>, C) = <<>>
    BY AmongEmpty
  <2> HIDE DEF C
  <2> QED BY <1>1, <1>3, <2>1, <2>2, Zenon
<1>5. ~ Has(more, C) => M = <<>>
  BY <1>1, AmongAbsent
<1> HIDE DEF C, M, B, W, Q
<1>6. /\ LineOf(buf, box, queue \o more, p, q, l) = B \o (W \o (Q \o M))
      /\ LineOf(buf, box, queue, p, q, l) = B \o (W \o Q)
      /\ LineOf(buf, box \o d, <<>>, p, q, l) = B \o ((W \o M) \o <<>>)
      /\ LineOf(buf, box, <<>>, p, q, l) = B \o (W \o <<>>)
      /\ LineOf(buf, box \o d, queue, p, q, l) = B \o ((W \o M) \o Q)
      /\ LineOf(buf, box, more \o queue, p, q, l) = B \o (W \o (M \o Q))
      /\ LineOf(buf, box \o more, queue, p, q, l) = B \o ((W \o M) \o Q)
  BY <1>4, Zenon DEF LineOf, C, B, W, Q
<1>7. /\ B \o (W \o (Q \o M)) = (B \o (W \o Q)) \o M
      /\ B \o ((W \o M) \o <<>>) = (B \o (W \o <<>>)) \o M
      /\ B \o ((W \o M) \o Q) = B \o (W \o (M \o Q))
  <2>1. /\ B \o (W \o (Q \o M)) = (B \o (W \o Q)) \o M
        /\ B \o (W \o M) = (B \o W) \o M
        /\ B \o ((W \o M) \o Q) = B \o (W \o (M \o Q))
    <3>1. W \o Q \in Seq(MessagesType)
      BY <1>2, MessagesConcat, Zenon
    <3>2. W \o (Q \o M) = (W \o Q) \o M
      BY <1>2, MessagesAssociate, Zenon
    <3>3. B \o ((W \o Q) \o M) = (B \o (W \o Q)) \o M
      BY <1>2, <3>1, MessagesAssociate, Zenon
    <3>4. B \o (W \o M) = (B \o W) \o M
      BY <1>2, MessagesAssociate, Zenon
    <3>5. (W \o M) \o Q = W \o (M \o Q)
      BY <1>2, MessagesAssociate, Zenon
    <3> QED BY <3>2, <3>3, <3>4, <3>5, Zenon
  <2>2. W \o M \in Seq(MessagesType)
    BY <1>2, MessagesConcat, Zenon
  <2>3. W \o <<>> = W /\ (W \o M) \o <<>> = W \o M
    BY <1>2, <2>2, MessagesConcat, Zenon
  <2> QED BY <2>1, <2>3, Zenon
<1>8. M = <<>> => B \o ((W \o M) \o Q) = B \o (W \o Q)
  BY <1>2, MessagesConcat, Zenon
<1> QED BY <1>5, <1>6, <1>7, <1>8, Zenon DEF C, M, d, Growing

LEMMA LineMoves ==
    ASSUME NEW s \in Seq(Items), NEW buf \in Seq(Items), NEW box \in Seq(Items),
           NEW queue \in Seq(Items), NEW p, NEW q, NEW l
    PROVE  LineOf(buf, s \o box, queue, p, q, l) = LineOf(buf \o s, box, queue, p, q, l)
<1>1. InFront(s, buf, box, queue, p, q, l)
  BY LineFront
<1> QED BY <1>1, Zenon DEF InFront

LEMMA LineSilent ==
    ASSUME NEW buf \in Seq(Items), NEW box \in Seq(Packets), NEW queue \in Seq(Packets),
           NEW more \in Seq(Packets), NEW p, NEW q, NEW l, ~ Has(more, Current(p, q, l))
    PROVE  LineOf(buf, box \o more, queue, p, q, l) = LineOf(buf, box, queue, p, q, l)
<1>1. Growing(buf, box, queue, more, p, q, l)
  BY LineGrows
<1> QED BY <1>1, Zenon DEF Growing

\* What is added to a buffer and is not of q's present.
LEMMA LineBuffers ==
    ASSUME NEW buf \in Seq(Items), NEW drops \in Seq(Items), NEW box, NEW queue, NEW p, NEW q, NEW l,
           ~ Has(drops, Current(p, q, l))
    PROVE  LineOf(buf \o drops, box, queue, p, q, l) = LineOf(buf, box, queue, p, q, l)
<1> DEFINE B == Among(buf, Current(p, q, l))
<1>1. Among(drops, Current(p, q, l)) = <<>>
  BY AmongAbsent
<1>2. Among(buf \o drops, Current(p, q, l)) = B \o Among(drops, Current(p, q, l))
  BY CurrentConcat
<1>3. B \in Seq(MessagesType)
  BY CurrentType
<1> HIDE DEF B
<1>4. B \o <<>> = B
  BY <1>3, MessagesConcat, Zenon
<1>5. Among(buf \o drops, Current(p, q, l)) = B
  BY <1>1, <1>2, <1>4, Zenon
<1> QED BY <1>5, Zenon DEF LineOf, B

LEMMA LearntMore ==
    ASSUME NEW line \in Seq(MessagesType), NEW x \in Seq(MessagesType), NEW past, NEW past2,
           NEW off \in Nat, NEW pack, NEW char, NEW char2, NEW active, NEW active2, NEW ph, NEW ph2,
           NEW q, NEW l,
           Learnt(line, past, off, pack, char, active, ph, q, l),
           past = {} => past2 = {} /\ char2 = char /\ (q \in active => q \in active2),
           ph = "joined" => ph2 = "joined" \/ Has(x, Starting),
           ph \in {"resync", "load"} => ph2 \in {"resync", "load"} \/ Has(x, JoinLevels)
    PROVE  Learnt(line \o x, past2, off, pack, char2, active2, ph2, q, l)
<1>1. /\ Has(line \o x, Starting) <=> Has(line, Starting) \/ Has(x, Starting)
      /\ Has(line \o x, JoinLevels) <=> Has(line, JoinLevels) \/ Has(x, JoinLevels)
  BY HasConcat
<1>2. line # <<>> => line \o x # <<>> /\ (line \o x)[1] = line[1]
  OBVIOUS
<1> QED BY <1>1, <1>2 DEF Learnt

\* A message of q's past is read: its present is as before.
LEMMA LearntStale ==
    ASSUME NEW line, NEW past, past # {}, NEW past2, NEW off, NEW pack, NEW char, NEW active,
           NEW off2, NEW pack2, NEW char2, NEW active2, NEW ph, NEW q, NEW l,
           Learnt(line, past, off, pack, char, active, ph, q, l)
    PROVE  Learnt(line, past2, off2, pack2, char2, active2, ph, q, l)
BY DEF Learnt

LEMMA KeepsSame ==
    ASSUME NEW buf, NEW left, NEW box, NEW p, NEW q, NEW l
    PROVE  Keeps(buf, left, box, buf, left, box, p, q, l)
BY DEF Keeps

LEMMA KeepsBoth ==
    ASSUME NEW buf, NEW left, NEW box, NEW buf2, NEW left2, NEW box2, NEW buf3, NEW left3, NEW box3,
           NEW p, NEW q, NEW l, Keeps(buf, left, box, buf2, left2, box2, p, q, l),
           Keeps(buf2, left2, box2, buf3, left3, box3, p, q, l)
    PROVE  Keeps(buf, left, box, buf3, left3, box3, p, q, l)
BY DEF Keeps

LEMMA OrderedEmpty == \A ph : Ordered(<<>>, ph)
<1>1. Whole(<<>>)
  <2>1. Len(<<>>) = 0
    OBVIOUS
  <2> QED BY <2>1 DEF Whole
<1> QED BY <1>1, HasOne DEF Ordered

--------------------------------------------------------------------------------
(* What programs know of each other.                                           *)

Line(p, q) == LineOf(buffer[p], inbox[p], up[q], p, q, life[q])
OldFirst(p, q) == Settled(buffer[p], playerLeft[p], inbox[p], p, q, life[q])
OldOnes(p, q) == Past(buffer[p], playerLeft[p], inbox[p], p, q, life[q])
Learns(p, q) ==
    Learnt(Line(p, q), OldOnes(p, q), offset[p][q], packed[p][q], character[p][q], plractive[p],
           phase[q], q, life[q])

\* p will send its character to q, which answers it.
Asks(p, q) == phase[p] = "joined" \/ Has(Line(q, p), Asking)

Good(p, q) == /\ OldFirst(p, q)
              /\ Ordered(Line(p, q), phase[q])
              /\ Learns(p, q) \/ Asks(p, q)

\* Of a life that is not over a program can have received anything but more than was sent.
Born(lives) == {m \in Items : m \in MessagesType => m.life <= lives[m.src]}
UpBorn(q, l) == {m \in Of(q) : m \in MessagesType => m.life = l}
Aged(boxes, lives) == \A p \in Slots : boxes[p] \in Seq(Born(lives))
Ages ==
    /\ \A p \in Slots : up[p] \in Seq(UpBorn(p, life[p]))
    /\ Aged(inbox, life) /\ Aged(buffer, life)

KnowsItself(p) == phase[p] \notin {"out", "joined"} => character[p][p] = PackOf(life[p])

Waiting(p, q) == Among(up[q], Current(p, q, life[q]))

\* The inductive invariant.
MInv ==
    /\ Ages
    /\ \A p \in Slots : KnowsItself(p)
    /\ \A p, q \in Slots : p # q /\ Listens(q) =>
           /\ Ordered(Waiting(p, q), phase[q])
           /\ Listens(p) => Good(p, q)

LEMMA LineItems ==
    ASSUME Typed, NEW p \in Slots, NEW q \in Slots
    PROVE  /\ buffer[p] \in Seq(Items) /\ inbox[p] \in Seq(Packets) /\ inbox[p] \in Seq(Items)
           /\ up[q] \in Seq(Packets) /\ up[q] \in Seq(Items)
           /\ Line(p, q) \in Seq(MessagesType) /\ Waiting(p, q) \in Seq(MessagesType)
<1>1. /\ buffer[p] \in Seq(Buffered(p)) /\ inbox[p] \in Seq(Packets) /\ up[q] \in Seq(Packets)
  BY DEF Typed, Buffers, Boxes, Ups
<1>2. buffer[p] \in Seq(Items) /\ inbox[p] \in Seq(Items) /\ up[q] \in Seq(Items)
  BY <1>1, ItemTypes, SeqMonotonicHere, Zenon
<1> QED BY <1>1, <1>2, LineType, CurrentType DEF Line, Waiting

\* What a step does to what p knows of q when it reads nothing of q: the line grows by x.
LEMMA PairStep ==
    ASSUME Typed, NEW p \in Slots, NEW q \in Slots, Good(p, q), life'[q] = life[q],
           NEW x \in Seq(MessagesType),
           LineOf(buffer'[p], inbox'[p], up'[q], p, q, life[q]) = Line(p, q) \o x,
           Ordered(Line(p, q) \o x, phase'[q]),
           Keeps(buffer[p], playerLeft[p], inbox[p], buffer'[p], playerLeft'[p], inbox'[p],
                 p, q, life[q]),
           offset'[p][q] = offset[p][q], packed'[p][q] = packed[p][q],
           OldOnes(p, q) = {} => /\ character'[p][q] = character[p][q]
                                 /\ q \in plractive[p] => q \in plractive'[p],
           phase[q] = "joined" => phase'[q] = "joined" \/ Has(x, Starting),
           phase[q] \in {"resync", "load"} =>
               phase'[q] \in {"resync", "load"} \/ Has(x, JoinLevels),
           Asks(p, q) => Asks(p, q)' \/ Has(x, Starting)
    PROVE  Good(p, q)'
<1> DEFINE past2 == Past(buffer'[p], playerLeft'[p], inbox'[p], p, q, life[q])
<1>1. Settled(buffer'[p], playerLeft'[p], inbox'[p], p, q, life[q])
      /\ (OldOnes(p, q) = {} => past2 = {})
  BY DEF Good, OldFirst, OldOnes, Keeps
<1>2. Line(p, q) \in Seq(MessagesType) /\ offset[p][q] \in Nat
  <2>1. offset[p][q] \in 0 .. Chunks - 1
    BY DEF Typed, Programs
  <2> QED BY <2>1, Constants, LineItems
<1> HIDE DEF past2
<1>3. Learns(p, q) => Learnt(Line(p, q) \o x, past2, offset[p][q], packed[p][q], character'[p][q],
                             plractive'[p], phase'[q], q, life[q])
  BY <1>1, <1>2, LearntMore DEF Learns
<1>4. Has(x, Starting) => Learnt(Line(p, q) \o x, past2, offset[p][q], packed[p][q],
                                 character'[p][q], plractive'[p], phase'[q], q, life[q])
  BY <1>2, HasConcat DEF Learnt
<1>5. Learns(p, q)' \/ Asks(p, q)'
  <2>1. Learnt(Line(p, q) \o x, past2, offset[p][q], packed[p][q], character'[p][q],
               plractive'[p], phase'[q], q, life[q]) => Learns(p, q)'
    BY DEF Learns, Line, OldOnes, past2
  <2> QED BY <1>3, <1>4, <2>1 DEF Good
<1>6. OldFirst(p, q)'
  BY <1>1 DEF OldFirst
<1>7. Ordered(Line(p, q), phase[q])'
  BY DEF Line
<1> QED BY <1>5, <1>6, <1>7 DEF Good

--------------------------------------------------------------------------------
(* What a step of program a leaves as it is.                                   *)

Apart(a) ==
    \A p \in Slots : p # a =>
        /\ phase'[p] = phase[p] /\ life'[p] = life[p] /\ up'[p] = up[p] /\ buffer'[p] = buffer[p]
        /\ playerLeft'[p] = playerLeft[p] /\ plractive'[p] = plractive[p]
        /\ offset'[p] = offset[p] /\ packed'[p] = packed[p] /\ character'[p] = character[p]
        /\ \A q \in Slots : q # a => Grown(p, q)

LEMMA SilentHas ==
    ASSUME NEW s \in Seq(Items), NEW p, NEW q, NEW l, Silent(s, q)
    PROVE  ~ Has(s, Current(p, q, l)) /\ ~ Has(s, Outdated(p, q, l))
<1>1. \A A : A \subseteq From(q) => ~ Has(s, A)
  <2> SUFFICES ASSUME NEW A, A \subseteq From(q), Has(s, A) PROVE FALSE
    OBVIOUS
  <2>1. Has(Among(s, From(q)), A)
    BY AmongHas
  <2> QED BY <2>1, HasOne DEF Silent
<1> QED BY <1>1, Parted

\* Other programs' lines are the same.
LEMMA ApartLine ==
    ASSUME Typed, NEW a \in Slots, Apart(a), NEW p \in Slots, NEW q \in Slots, p # a, q # a
    PROVE  /\ LineOf(buffer'[p], inbox'[p], up'[q], p, q, life[q]) = Line(p, q)
           /\ Line(p, q)' = Line(p, q)
           /\ Keeps(buffer[p], playerLeft[p], inbox[p], buffer'[p], playerLeft'[p], inbox'[p],
                    p, q, life[q])
<1>1. PICK more \in Seq(Packets) : Silent(more, q) /\ inbox'[p] = inbox[p] \o more
  BY DEF Apart, Grown
<1>2. /\ buffer'[p] = buffer[p] /\ playerLeft'[p] = playerLeft[p] /\ up'[q] = up[q]
      /\ life'[q] = life[q]
  BY DEF Apart
<1>3. more \in Seq(Items)
  BY ItemTypes, SeqMonotonicHere
<1>4. ~ Has(more, Current(p, q, life[q])) /\ ~ Has(more, Outdated(p, q, life[q]))
  BY <1>1, <1>3, SilentHas
<1>5. /\ buffer[p] \in Seq(Items) /\ inbox[p] \in Seq(Packets) /\ inbox[p] \in Seq(Items)
      /\ up[q] \in Seq(Packets)
  BY LineItems
<1>6. LineOf(buffer[p], inbox[p] \o more, up[q], p, q, life[q]) = Line(p, q)
  <2>1. LineOf(buffer[p], inbox[p] \o more, up[q], p, q, life[q]) =
            LineOf(buffer[p], inbox[p], up[q], p, q, life[q])
    <3>1. Growing(buffer[p], inbox[p], up[q], more, p, q, life[q])
      BY <1>5, LineGrows
    <3> QED BY <1>4, <3>1, Zenon DEF Growing
  <2> QED BY <2>1 DEF Line
<1>7. Keeps(buffer[p], playerLeft[p], inbox[p], buffer[p], playerLeft[p], inbox[p] \o more,
            p, q, life[q])
  BY <1>3, <1>4, <1>5, KeepsMore
<1>8. LineOf(buffer'[p], inbox'[p], up'[q], p, q, life[q]) = Line(p, q)
  BY <1>1, <1>2, <1>6, Zenon
<1>9. Line(p, q)' = Line(p, q)
  BY <1>2, <1>8 DEF Line
<1> QED BY <1>1, <1>2, <1>7, <1>8, <1>9, Zenon

LEMMA ApartGood ==
    ASSUME Typed, NEW a \in Slots, Apart(a), NEW p \in Slots, NEW q \in Slots, p # a, q # a,
           Good(p, q)
    PROVE  Good(p, q)'
<1>1. /\ LineOf(buffer'[p], inbox'[p], up'[q], p, q, life[q]) = Line(p, q)
      /\ Keeps(buffer[p], playerLeft[p], inbox[p], buffer'[p], playerLeft'[p], inbox'[p],
               p, q, life[q])
      /\ Line(q, p)' = Line(q, p)
  BY ApartLine
<1>2. /\ life'[q] = life[q] /\ phase'[q] = phase[q] /\ phase'[p] = phase[p]
      /\ offset'[p] = offset[p] /\ packed'[p] = packed[p]
      /\ character'[p] = character[p] /\ plractive'[p] = plractive[p]
  BY DEF Apart
<1>3. <<>> \in Seq(MessagesType) /\ Line(p, q) \o <<>> = Line(p, q)
  <2>1. Line(p, q) \in Seq(MessagesType)
    BY LineItems
  <2> QED BY <2>1, MessagesConcat
<1>4. Asks(p, q) => Asks(p, q)'
  BY <1>1, <1>2 DEF Asks
<1>5. Ordered(Line(p, q), phase[q])
  BY DEF Good
<1> QED BY <1>1, <1>2, <1>3, <1>4, <1>5, PairStep

LEMMA MStep ==
    ASSUME Typed, MInv, NEW a \in Slots, Apart(a), Ages', KnowsItself(a)',
           Listens(a)' => \A p \in Slots : p # a => Ordered(Waiting(p, a)', phase'[a]),
           \A p \in Slots : p # a /\ Listens(p) /\ Listens(a)' => Good(p, a)' /\ Good(a, p)'
    PROVE  MInv'
<1>1. \A p \in Slots : p # a => (Listens(p)' <=> Listens(p))
  BY DEF Apart, Listens
<1>2. ASSUME NEW p \in Slots PROVE KnowsItself(p)'
  <2>1. CASE p = a
    BY <2>1
  <2>2. CASE p # a
    BY <2>2 DEF MInv, KnowsItself, Apart
  <2> QED BY <2>1, <2>2
<1>3. ASSUME NEW p \in Slots, NEW q \in Slots, p # q, Listens(q)'
      PROVE  Ordered(Waiting(p, q)', phase'[q])
  <2>1. CASE q = a
    BY <1>3, <2>1
  <2>2. CASE q # a
    <3>1. up'[q] = up[q] /\ life'[q] = life[q] /\ phase'[q] = phase[q]
      BY <2>2 DEF Apart
    <3>2. Waiting(p, q)' = Waiting(p, q)
      BY <3>1 DEF Waiting
    <3>3. Ordered(Waiting(p, q), phase[q])
      BY <1>1, <1>3, <2>2 DEF MInv
    <3> QED BY <3>1, <3>2, <3>3
  <2> QED BY <2>1, <2>2
<1>4. ASSUME NEW p \in Slots, NEW q \in Slots, p # q, Listens(q)', Listens(p)'
      PROVE  Good(p, q)'
  <2>1. CASE q = a \/ p = a
    BY <1>1, <1>4, <2>1
  <2>2. CASE q # a /\ p # a
    <3>1. Good(p, q)
      BY <1>1, <1>4, <2>2 DEF MInv
    <3> QED BY <2>2, <3>1, ApartGood
  <2> QED BY <2>1, <2>2
<1>5. \A p, q \in Slots : p # q /\ Listens(q)' =>
          /\ Ordered(Waiting(p, q), phase[q])'
          /\ Listens(p)' => Good(p, q)'
  BY <1>3, <1>4
<1> HIDE DEF Ages
<1> QED BY <1>2, <1>5 DEF MInv

--------------------------------------------------------------------------------
(* A program handles what it has: its line stays, or is lost for good.         *)

\* How a phase may go on by itself.
GoesOn(ph, next) ==
    \/ next = ph
    \/ ph = "resync" /\ next = "load"
    \/ ph = "replay" /\ next \in {"play", "cut"}

\* What a step of a does to what it has of q, which it does not read.
Handles(a, q) ==
    /\ LineOf(buffer'[a], inbox'[a], up[q], a, q, life[q]) = Line(a, q)
    /\ Keeps(buffer[a], playerLeft[a], inbox[a], buffer'[a], playerLeft'[a], inbox'[a],
             a, q, life[q])
    /\ offset'[a][q] = offset[a][q] /\ packed'[a][q] = packed[a][q]
    /\ OldOnes(a, q) = {} => /\ character'[a][q] = character[a][q]
                             /\ q \in plractive[a] => q \in plractive'[a]

LEMMA AgedParts ==
    ASSUME Typed, Ages
    PROVE  /\ \A p \in Slots : buffer[p] \in Seq(Born(life)) /\ inbox[p] \in Seq(Born(life))
           /\ \A p \in Slots : up[p] \in Seq(UpBorn(p, life[p]))
           /\ \A p \in Slots : UpBorn(p, life[p]) \subseteq Born(life)
           /\ \A p \in Slots : UpBorn(p, life[p]) \subseteq Of(p)
           /\ Born(life) \subseteq Items
<1>1. \A p \in Slots : life[p] \in Nat
  BY Constants DEF Typed
<1>2. \A p \in Slots : UpBorn(p, life[p]) \subseteq Born(life)
  <2> SUFFICES ASSUME NEW p \in Slots, NEW m \in UpBorn(p, life[p]) PROVE m \in Born(life)
    OBVIOUS
  <2>1. m \in Packets /\ m.src = p /\ (m \in MessagesType => m.life = life[p])
    BY DEF UpBorn, Of
  <2>2. m \in Items
    BY <2>1, ItemTypes
  <2>3. m \in MessagesType => m.life <= life[m.src]
    BY <1>1, <2>1
  <2> QED BY <2>2, <2>3 DEF Born
<1>3. \A p \in Slots : UpBorn(p, life[p]) \subseteq Of(p)
  BY DEF UpBorn
<1>4. Born(life) \subseteq Items
  BY DEF Born
<1> QED BY <1>2, <1>3, <1>4 DEF Ages, Aged

\* Whose line to the others and whose phase are as they were, or who left a beginning.
LEMMA StaysGood ==
    ASSUME Typed, MInv, NEW a \in Slots, NEW p \in Slots, p # a, Listens(p), Listens(a),
           GoesOn(phase[a], phase'[a]), phase'[a] # "cut", UNCHANGED <<up, life>>,
           inbox'[p] = inbox[p], buffer'[p] = buffer[p], playerLeft'[p] = playerLeft[p],
           phase'[p] = phase[p], offset'[p] = offset[p], packed'[p] = packed[p],
           character'[p] = character[p], plractive'[p] = plractive[p], Line(a, p)' = Line(a, p)
    PROVE  Good(p, a)'
<1> DEFINE line == Line(p, a)
<1>1. Good(p, a) /\ Ordered(line, phase[a])
  BY DEF MInv, Good
<1>2. line \in Seq(MessagesType) /\ line \o <<>> = line /\ <<>> \in Seq(MessagesType)
  <2>1. line \in Seq(MessagesType)
    BY LineItems
  <2> HIDE DEF line
  <2> QED BY <2>1, MessagesConcat
<1>3. LineOf(buffer'[p], inbox'[p], up'[a], p, a, life[a]) = line
  BY DEF Line
<1>4. Keeps(buffer[p], playerLeft[p], inbox[p], buffer'[p], playerLeft'[p], inbox'[p], p, a, life[a])
  BY KeepsSame
<1> HIDE DEF line
<1>5. Ordered(line, phase'[a])
  BY <1>1 DEF GoesOn, Ordered
<1>6. phase[a] = "joined" => phase'[a] = "joined"
  BY DEF GoesOn
<1>7. phase[a] \in {"resync", "load"} => phase'[a] \in {"resync", "load"}
  BY DEF GoesOn
<1>8. Asks(p, a) => Asks(p, a)'
  BY DEF Asks
<1> QED BY <1>1, <1>2, <1>3, <1>4, <1>5, <1>6, <1>7, <1>8, PairStep DEF line

LEMMA HandlesStep ==
    ASSUME TInv, MInv, NEW a \in Slots, phase[a] # "out", GoesOn(phase[a], phase'[a]),
           UNCHANGED <<up, life>>,
           \A p \in Slots : p # a =>
               /\ inbox'[p] = inbox[p] /\ phase'[p] = phase[p] /\ buffer'[p] = buffer[p]
               /\ playerLeft'[p] = playerLeft[p] /\ plractive'[p] = plractive[p]
               /\ offset'[p] = offset[p] /\ packed'[p] = packed[p] /\ character'[p] = character[p],
           character'[a][a] = character[a][a],
           inbox'[a] \in Seq(Born(life)), buffer'[a] \in Seq(Born(life)),
           phase'[a] # "cut" =>
               \A q \in Slots : q # a /\ OldFirst(a, q) => Handles(a, q)
    PROVE  MInv'
<1>1. Typed /\ Boxes(inbox)
  BY DEF TInv, Typed
<1>2. Apart(a)
  BY <1>1, SameInbox DEF Apart
<1>3. Ages'
  <2>1. Ages
    BY DEF MInv
  <2>2. \A p \in Slots : inbox'[p] \in Seq(Born(life)) /\ buffer'[p] \in Seq(Born(life))
    BY <2>1 DEF Ages, Aged
  <2> QED BY <2>1, <2>2 DEF Ages, Aged
<1>4. KnowsItself(a)'
  <2>1. phase'[a] \notin {"out", "joined"} => phase[a] \notin {"out", "joined"}
    BY DEF GoesOn
  <2> QED BY <2>1 DEF MInv, KnowsItself
<1>5. Listens(a)' => Listens(a) /\ phase'[a] # "cut"
  BY DEF Listens, GoesOn
<1>6. ASSUME Listens(a)', NEW p \in Slots, p # a PROVE Ordered(Waiting(p, a)', phase'[a])
  <2>1. Ordered(Waiting(p, a), phase[a])
    BY <1>5, <1>6 DEF MInv
  <2>2. Waiting(p, a)' = Waiting(p, a)
    BY DEF Waiting
  <2>3. Ordered(Waiting(p, a), phase'[a])
    BY <2>1 DEF Ordered, GoesOn
  <2> QED BY <2>2, <2>3
<1>7. ASSUME NEW p \in Slots, p # a, Listens(p), Listens(a)'
      PROVE  Good(p, a)' /\ Good(a, p)'
  <2>1. Listens(a) /\ phase'[a] # "cut" /\ Good(a, p) /\ OldFirst(a, p)
    BY <1>5, <1>7 DEF MInv, Good
  <2>2. Handles(a, p)
    BY <1>7, <2>1
  <2>3. Line(a, p)' = Line(a, p)
    BY <2>2 DEF Handles, Line
  <2>4. Line(p, a)' = Line(p, a)
    BY <1>7 DEF Line
  <2>5. Good(p, a)'
    BY <1>1, <1>7, <2>1, <2>3, StaysGood
  <2>6. <<>> \in Seq(MessagesType) /\ Line(a, p) \o <<>> = Line(a, p)
    <3>1. Line(a, p) \in Seq(MessagesType)
      BY <1>1, LineItems
    <3> QED BY <3>1, MessagesConcat
  <2>7. Asks(a, p) => Asks(a, p)'
    <3>1. phase[a] = "joined" => phase'[a] = "joined"
      BY DEF GoesOn
    <3> QED BY <2>4, <3>1 DEF Asks
  <2>8. Ordered(Line(a, p), phase'[p])
    BY <1>7, <2>1 DEF Good
  <2>9. LineOf(buffer'[a], inbox'[a], up'[p], a, p, life[p]) = Line(a, p) \o <<>>
    BY <2>2, <2>6 DEF Handles
  <2>10. Good(a, p)'
    BY <1>1, <1>7, <2>1, <2>2, <2>6, <2>7, <2>8, <2>9, PairStep DEF Handles
  <2> QED BY <2>5, <2>10
<1> QED BY <1>1, <1>2, <1>3, <1>4, <1>6, <1>7, MStep

LEMMA BufferMessageLearns ==
    ASSUME TInv, MInv, NEW a \in Slots, BufferMessage(a)
    PROVE  MInv'
<1> DEFINE m == Head(inbox[a])
           t == Tail(inbox[a])
<1>1. /\ phase[a] = "resync" /\ playerLeft[a] = {} /\ inbox[a] # <<>>
      /\ buffer' = [buffer EXCEPT ![a] = Append(buffer[a], m)]
      /\ inbox' = [inbox EXCEPT ![a] = t]
      /\ UNCHANGED <<phase, life, up, offset, packed, character, plractive, playerLeft>>
  BY DEF BufferMessage, leaveVars
<1>2. Typed /\ Buffers(buffer) /\ Boxes(inbox)
  BY DEF TInv, Typed
<1>3. /\ buffer[a] \in Seq(Born(life)) /\ inbox[a] \in Seq(Born(life)) /\ Born(life) \subseteq Items
      /\ buffer[a] \in Seq(Items) /\ up \in [Slots -> Seq(Packets)]
  BY <1>2, AgedParts, LineItems DEF MInv, Typed, Ups
<1>4. m \in Born(life) /\ m \in Items /\ t \in Seq(Born(life)) /\ inbox[a] = <<m>> \o t
      /\ Append(buffer[a], m) \in Seq(Born(life)) /\ Append(buffer[a], m) = buffer[a] \o <<m>>
  <2>1. m \in Born(life) /\ t \in Seq(Born(life)) /\ inbox[a] = <<m>> \o t
    BY <1>1, <1>3, TypeParts
  <2> HIDE DEF m, t
  <2> QED BY <1>3, <2>1
<1>5. t \in Seq(Items)
  BY <1>3, <1>4, SeqMonotonicHere, Zenon
<1>6. /\ buffer'[a] = Append(buffer[a], m) /\ inbox'[a] = t
      /\ \A p \in Slots : p # a => inbox'[p] = inbox[p] /\ buffer'[p] = buffer[p]
  BY <1>1, <1>2 DEF Buffers, Boxes
<1> HIDE DEF m, t
<1>7. ASSUME NEW q \in Slots PROVE Handles(a, q)
  <2>1. up[q] \in Seq(Items)
    BY <1>2, LineItems
  <2>3. LineOf(buffer'[a], inbox'[a], up[q], a, q, life[q]) = Line(a, q)
    <3>1. LineOf(buffer[a], <<m>> \o t, up[q], a, q, life[q]) =
              LineOf(buffer[a] \o <<m>>, t, up[q], a, q, life[q])
      <4> DEFINE one == <<m>>
      <4>1. one \in Seq(Items)
        BY <1>4
      <4> HIDE DEF one
      <4>2. LineOf(buffer[a], one \o t, up[q], a, q, life[q]) =
                LineOf(buffer[a] \o one, t, up[q], a, q, life[q])
        BY <1>3, <1>5, <2>1, <4>1, LineMoves
      <4> QED BY <4>2 DEF one
    <3> QED BY <1>4, <1>6, <3>1, Zenon DEF Line
  <2>4. \A b, i \in Seq(Items) : \A l :
            Keeps(b, {}, <<m>> \o i, b \o <<m>>, {}, i, a, q, l)
    BY <1>4, KeepsBuffered, Zenon
  <2>5. Keeps(buffer[a], playerLeft[a], inbox[a], buffer'[a], playerLeft'[a], inbox'[a], a, q, life[q])
    <3>1. Keeps(buffer[a], {}, <<m>> \o t, buffer[a] \o <<m>>, {}, t, a, q, life[q])
      BY <1>3, <1>5, <2>4, Zenon
    <3>2. playerLeft[a] = {} /\ playerLeft'[a] = {}
      BY <1>1
    <3> QED BY <1>4, <1>6, <3>1, <3>2, Zenon
  <2> QED BY <1>1, <2>3, <2>5 DEF Handles
<1>8. phase[a] # "out" /\ GoesOn(phase[a], phase'[a])
  BY <1>1 DEF GoesOn
<1> QED BY <1>1, <1>4, <1>6, <1>7, <1>8, HandlesStep

LEMMA BufferDropsLearns ==
    ASSUME TInv, MInv, NEW a \in Slots, BufferDrops(a)
    PROVE  MInv'
<1> DEFINE d == Drops(playerLeft[a])
<1>1. /\ phase[a] = "resync"
      /\ buffer' = [buffer EXCEPT ![a] = buffer[a] \o d]
      /\ playerLeft' = [playerLeft EXCEPT ![a] = {}]
      /\ UNCHANGED <<phase, life, up, inbox, offset, packed, character, plractive>>
  BY DEF BufferDrops, netVars, Drops
<1>2. Typed /\ Buffers(buffer) /\ playerLeft \in [Slots -> SUBSET Slots]
  BY DEF TInv, Typed
<1>3. /\ buffer[a] \in Seq(Born(life)) /\ buffer[a] \in Seq(Items) /\ inbox[a] \in Seq(Born(life))
  BY <1>2, AgedParts, LineItems DEF MInv
<1>4. /\ buffer'[a] = buffer[a] \o d /\ playerLeft'[a] = {}
      /\ \A p \in Slots : p # a => playerLeft'[p] = playerLeft[p] /\ buffer'[p] = buffer[p]
  BY <1>1, <1>2 DEF Buffers
<1> DEFINE E == EventsType({"FAKE_CMD_DROPID"})
<1>5. d \in Seq(E) /\ d \in Seq(Items) /\ E \subseteq Items /\ \A m \in E : IsLeave(m)
  <2>1. Ascending(playerLeft[a]) \in Seq(playerLeft[a])
    <3>1. N \in Nat
      BY Constants
    <3>2. [i \in 1 .. N |-> i - 1] \in Seq(Slots)
      BY <3>1 DEF Slots
    <3>3. Ascending(playerLeft[a]) \in Seq(Slots \cap playerLeft[a])
      BY <3>2, AmongType DEF Ascending
    <3> QED BY <3>3, SeqMonotonicHere
  <2>2. playerLeft[a] \subseteq Slots
    BY <1>2
  <2>3. d \in Seq(E)
    BY <2>2, AscendingType
  <2> HIDE DEF d
  <2> QED BY <2>3, ItemTypes, SeqMonotonicHere, Zenon
<1>6. d \in Seq(Born(life))
  <2>1. \A m \in E : m \in Born(life)
    BY <1>5, PacketTypes DEF Born, EventsType
  <2> HIDE DEF d, E
  <2> QED BY <1>5, <2>1, SeqMonotonicHere
<1>7. buffer'[a] \in Seq(Born(life))
  <2> HIDE DEF d
  <2> QED BY <1>3, <1>4, <1>6
<1>8. ASSUME NEW q \in Slots PROVE Handles(a, q)
  <2>1. ~ Has(d, Current(a, q, life[q]))
    <3>1. \A m \in E : m \notin Current(a, q, life[q])
      BY <1>5, ItemTypes DEF Current
    <3> HIDE DEF d, E
    <3> QED BY <1>5, <3>1 DEF Has
  <2>2. q \notin playerLeft[a] => ~ Has(d, Outdated(a, q, life[q]))
    <3>1. q \notin playerLeft[a] => Silent(d, q)
      BY <1>2, DropsClosed
    <3> HIDE DEF d
    <3> QED BY <1>5, <3>1, SilentHas
  <2> HIDE DEF d
  <2>3. LineOf(buffer[a] \o d, inbox[a], up[q], a, q, life[q]) = Line(a, q)
    BY <1>3, <1>5, <2>1, LineBuffers DEF Line
  <2>4. Keeps(buffer[a], playerLeft[a], inbox[a], buffer[a] \o d, {}, inbox[a], a, q, life[q])
    BY <1>3, <1>5, <2>1, <2>2, KeepsDrops
  <2> QED BY <1>1, <1>4, <2>3, <2>4 DEF Handles
<1>9. phase[a] # "out" /\ GoesOn(phase[a], phase'[a])
  BY <1>1 DEF GoesOn
<1> HIDE DEF d
<1> QED BY <1>1, <1>3, <1>4, <1>7, <1>8, <1>9, HandlesStep

LEMMA PhaseLearns ==
    ASSUME TInv, MInv, NEW a \in Slots, ResyncEnds(a) \/ DiscardRest(a) \/ ReplayEnds(a)
    PROVE  MInv'
<1>1. /\ phase[a] \in {"resync", "replay"}
      /\ UNCHANGED <<life, up, inbox, offset, packed, character, plractive, playerLeft>>
      /\ \/ /\ phase[a] = "resync" /\ phase' = [phase EXCEPT ![a] = "load"] /\ buffer' = buffer
         \/ /\ phase[a] = "replay" /\ phase' = [phase EXCEPT ![a] = "cut"]
            /\ buffer' = [buffer EXCEPT ![a] = <<>>]
         \/ /\ phase[a] = "replay" /\ phase' = [phase EXCEPT ![a] = "play"]
            /\ buffer[a] = <<>> /\ buffer' = [buffer EXCEPT ![a] = <<>>]
  BY DEF ResyncEnds, DiscardRest, ReplayEnds, EndReplay, netVars, programVars, leaveVars
<1>2. Typed /\ Buffers(buffer) /\ phase \in [Slots -> Phases]
  BY DEF TInv, Typed
<1>3. /\ buffer[a] \in Seq(Born(life)) /\ inbox[a] \in Seq(Born(life)) /\ <<>> \in Seq(Born(life))
  <2>1. buffer[a] \in Seq(Born(life)) /\ inbox[a] \in Seq(Born(life))
    BY <1>2, AgedParts DEF MInv
  <2> QED BY <2>1
<1>4. /\ phase[a] # "out" /\ GoesOn(phase[a], phase'[a])
      /\ phase'[a] # "cut" => buffer'[a] = buffer[a]
      /\ buffer'[a] \in Seq(Born(life))
      /\ \A p \in Slots : p # a => phase'[p] = phase[p] /\ buffer'[p] = buffer[p]
  BY <1>1, <1>2, <1>3 DEF Buffers, GoesOn
<1>5. ASSUME phase'[a] # "cut", NEW q \in Slots PROVE Handles(a, q)
  BY <1>1, <1>4, <1>5, KeepsSame DEF Handles, Line
<1> QED BY <1>1, <1>3, <1>4, <1>5, HandlesStep

\* A program reads the first item of its buffer, or of its inbox when nothing is buffered.
Begins(full, m, t) == full = <<m>> \o t

ReadLine(full, m, t, other, queue, p, q, l) ==
    /\ m \in Current(p, q, l) =>
           /\ LineOf(full, other, queue, p, q, l) = <<m>> \o LineOf(t, other, queue, p, q, l)
           /\ LineOf(<<>>, full, queue, p, q, l) = <<m>> \o LineOf(<<>>, t, queue, p, q, l)
    /\ m \notin Current(p, q, l) =>
           /\ LineOf(full, other, queue, p, q, l) = LineOf(t, other, queue, p, q, l)
           /\ LineOf(<<>>, full, queue, p, q, l) = LineOf(<<>>, t, queue, p, q, l)

LEMMA LineReads ==
    ASSUME NEW m \in Items, NEW t \in Seq(Items), NEW full, Begins(full, m, t),
           NEW other \in Seq(Items), NEW queue \in Seq(Items), NEW p, NEW q, NEW l
    PROVE  ReadLine(full, m, t, other, queue, p, q, l)
<1> DEFINE one == <<m>>
           M == Among(one, Current(p, q, l))
<1>1. one \in Seq(Items)
  OBVIOUS
<1>2. M = IF m \in Current(p, q, l) THEN <<m>> ELSE <<>>
  BY CurrentOne
<1> HIDE DEF one
<1>3. /\ LineOf(one \o t, other, queue, p, q, l) = M \o LineOf(t, other, queue, p, q, l)
      /\ LineOf(<<>>, one \o t, queue, p, q, l) = M \o LineOf(<<>>, t, queue, p, q, l)
  <2>1. InFront(one, t, other, queue, p, q, l) /\ InFront(one, t, t, queue, p, q, l)
    BY <1>1, LineFront
  <2> QED BY <2>1, Zenon DEF InFront
<1>4. LineOf(t, other, queue, p, q, l) \in Seq(MessagesType)
      /\ LineOf(<<>>, t, queue, p, q, l) \in Seq(MessagesType)
  <2>1. <<>> \in Seq(Items)
    OBVIOUS
  <2> QED BY <2>1, LineType
<1> HIDE DEF M
<1>5. full = one \o t
  BY DEF one, Begins
<1>6. \A s \in Seq(MessagesType) : <<>> \o s = s
  BY MessagesConcat
<1> QED BY <1>2, <1>3, <1>4, <1>5, <1>6, Zenon DEF ReadLine

\* When it is of q's present, nothing of q's past is left.
ReadPast(full, m, t, other, left, p, q, l) ==
    /\ Keeps(full, left, other, t, left, other, p, q, l)
    /\ Keeps(<<>>, {}, full, <<>>, {}, t, p, q, l)
    /\ m \in Current(p, q, l) =>
           /\ Settled(full, left, other, p, q, l) => Past(t, left, other, p, q, l) = {}
           /\ Settled(<<>>, {}, full, p, q, l) => Past(<<>>, {}, t, p, q, l) = {}
    /\ m \in Outdated(p, q, l) =>
           /\ Past(full, left, other, p, q, l) # {}
           /\ Past(<<>>, {}, full, p, q, l) # {}

LEMMA KeepsReading ==
    ASSUME NEW m \in Items, NEW t \in Seq(Items), NEW full, Begins(full, m, t),
           NEW other \in Seq(Items), NEW left, NEW p, NEW q, NEW l
    PROVE  ReadPast(full, m, t, other, left, p, q, l)
<1> DEFINE C == Current(p, q, l)
           O == Outdated(p, q, l)
<1>1. <<m>> \in Seq(Items)
  OBVIOUS
<1>2. /\ Has(<<m>> \o t, C) <=> m \in C \/ Has(t, C)
      /\ Has(<<m>> \o t, O) <=> m \in O \/ Has(t, O)
  BY <1>1, HasConcat, HasOne
<1>3. Before(<<m>> \o t, O, C) <=> Before(t, O, C) /\ ~ (m \in C /\ Has(t, O))
  BY <1>1, BeforeConcat, HasOne
<1>4. ~ Has(<<>>, C) /\ ~ Has(<<>>, O) /\ Before(<<>>, O, C) /\ q \notin {}
  BY HasOne
<1>5. m \in C => m \notin O
  BY Parted
<1>6. full = <<m>> \o t
  BY DEF Begins
<1>7. /\ Has(full, C) <=> m \in C \/ Has(t, C)
      /\ Has(full, O) <=> m \in O \/ Has(t, O)
      /\ Before(full, O, C) <=> Before(t, O, C) /\ ~ (m \in C /\ Has(t, O))
  BY <1>2, <1>3, <1>6, Zenon
<1>8. /\ Keeps(full, left, other, t, left, other, p, q, l)
      /\ Keeps(<<>>, {}, full, <<>>, {}, t, p, q, l)
  BY <1>4, <1>7, PastEmpty DEF Keeps, Settled
<1>9. ASSUME m \in C
      PROVE  /\ Settled(full, left, other, p, q, l) => Past(t, left, other, p, q, l) = {}
             /\ Settled(<<>>, {}, full, p, q, l) => Past(<<>>, {}, t, p, q, l) = {}
  BY <1>4, <1>5, <1>7, <1>9, PastEmpty DEF Settled
<1>10. ASSUME m \in O
       PROVE  /\ Past(full, left, other, p, q, l) # {}
              /\ Past(<<>>, {}, full, p, q, l) # {}
  BY <1>7, <1>10, PastEmpty
<1> QED BY <1>8, <1>9, <1>10 DEF ReadPast

LEMMA LeftCharacters ==
    ASSUME Programs, NEW p \in Slots, NEW players, PlayerLeftMsg(p, players), NEW q \in Slots,
           q \notin players \ {p}
    PROVE  character'[p][q] = character[p][q]
BY DEF PlayerLeftMsg, Programs

LEMMA ReplayDropLearns ==
    ASSUME TKInv, MInv, NEW a \in Slots, ReplayDrop(a)
    PROVE  MInv'
<1> DEFINE d == Head(buffer[a])
           t == Tail(buffer[a])
<1>1. /\ phase[a] = "replay" /\ buffer[a] # <<>> /\ d.type = "FAKE_CMD_DROPID"
      /\ PlayerLeftMsg(a, playerLeft[a] \cup {d.src})
      /\ playerLeft' = [playerLeft EXCEPT ![a] = {}]
      /\ buffer' = [buffer EXCEPT ![a] = t]
      /\ UNCHANGED <<phase, life, up, inbox, offset, packed>>
  BY DEF ReplayDrop, netVars
<1>2. /\ TInv /\ Typed /\ ActiveKnown /\ Buffers(buffer) /\ Boxes(inbox) /\ Programs
      /\ playerLeft \in [Slots -> SUBSET Slots]
  BY DEF TKInv, TInv, Typed
<1>3. /\ d \in Items /\ IsLeave(d) /\ t \in Seq(Items) /\ Begins(buffer[a], d, t)
      /\ buffer'[a] = t /\ playerLeft'[a] = {} /\ t \in Seq(Born(life))
  <2>1. d \in Buffered(a) /\ t \in Seq(Buffered(a)) /\ buffer[a] = <<d>> \o t
    BY <1>1, <1>2, BufferHead
  <2>2. t \in Seq(Items) /\ d \in Items
    BY <2>1, ItemTypes, SeqMonotonicHere
  <2>3. IsLeave(d)
    BY <1>1 DEF IsLeave
  <2>4. buffer[a] \in Seq(Born(life))
    BY <1>2, AgedParts DEF MInv
  <2>5. t \in Seq(Born(life))
    BY <1>1, <2>4
  <2> HIDE DEF d, t
  <2> QED BY <1>1, <1>2, <2>1, <2>2, <2>3, <2>5 DEF Buffers, Begins
<1>4. /\ plractive'[a] = plractive[a] \ ((playerLeft[a] \cup {d.src}) \ {a})
      /\ \A p \in Slots : p # a => plractive'[p] = plractive[p] /\ character'[p] = character[p]
  BY <1>1, <1>2, LeftPrograms
<1>5. \A q \in Slots : q \notin (playerLeft[a] \cup {d.src}) \ {a} =>
          character'[a][q] = character[a][q]
  BY <1>1, <1>2, LeftCharacters
<1> HIDE DEF d, t
<1>6. \A p \in Slots : p # a => playerLeft'[p] = playerLeft[p] /\ buffer'[p] = buffer[p]
  BY <1>1, <1>2 DEF Buffers
<1>7. ASSUME NEW q \in Slots, q # a PROVE Handles(a, q)
  <2>1. d \notin Current(a, q, life[q])
    BY <1>3, ItemTypes DEF Current
  <2>2. inbox[a] \in Seq(Items) /\ up[q] \in Seq(Items)
    BY <1>2, LineItems
  <2>3. LineOf(t, inbox[a], up[q], a, q, life[q]) = Line(a, q)
    <3>1. LineOf(buffer[a], inbox[a], up[q], a, q, life[q]) =
              LineOf(t, inbox[a], up[q], a, q, life[q])
      <4>1. ReadLine(buffer[a], d, t, inbox[a], up[q], a, q, life[q])
        BY <1>3, <2>2, LineReads
      <4> QED BY <2>1, <4>1, Zenon DEF ReadLine
    <3> QED BY <3>1, Zenon DEF Line
  <2>4. Keeps(buffer[a], playerLeft[a], inbox[a], t, {}, inbox[a], a, q, life[q])
    <3>1. Keeps(buffer[a], playerLeft[a], inbox[a], t, playerLeft[a], inbox[a], a, q, life[q])
      <4>1. ReadPast(buffer[a], d, t, inbox[a], playerLeft[a], a, q, life[q])
        BY <1>3, <2>2, KeepsReading
      <4> QED BY <4>1, Zenon DEF ReadPast
    <3>2. Keeps(t, playerLeft[a], inbox[a], t, {}, inbox[a], a, q, life[q])
      <4>1. <<>> \in Seq(Items) /\ ~ Has(<<>>, Current(a, q, life[q]))
            /\ ~ Has(<<>>, Outdated(a, q, life[q]))
        <5>1. <<>> \in Seq(Items)
          OBVIOUS
        <5> QED BY <5>1, HasOne, Zenon
      <4> QED BY <1>3, <4>1, KeepsDrops
    <3> QED BY <3>1, <3>2, KeepsBoth
  <2>5. OldOnes(a, q) = {} => /\ character'[a][q] = character[a][q]
                              /\ q \in plractive[a] => q \in plractive'[a]
    <3> SUFFICES ASSUME OldOnes(a, q) = {} PROVE q # d.src /\ q \notin playerLeft[a]
      BY <1>4, <1>5
    <3>1. q \notin playerLeft[a]
      BY PastEmpty DEF OldOnes
    <3>2. d \notin Outdated(a, q, life[q])
      <4>1. ReadPast(buffer[a], d, t, inbox[a], playerLeft[a], a, q, life[q])
        BY <1>3, <2>2, KeepsReading
      <4> QED BY <4>1, Zenon DEF OldOnes, ReadPast
    <3> QED BY <1>3, <2>1, <3>1, <3>2 DEF Outdated, From
  <2> QED BY <1>1, <1>3, <2>3, <2>4, <2>5 DEF Handles
<1>8. phase[a] # "out" /\ GoesOn(phase[a], phase'[a]) /\ inbox'[a] \in Seq(Born(life))
  <2>1. inbox[a] \in Seq(Born(life))
    BY <1>2, AgedParts DEF MInv
  <2> QED BY <1>1, <2>1 DEF GoesOn
<1>9. character'[a][a] = character[a][a]
  BY <1>5
<1> QED BY <1>1, <1>2, <1>3, <1>4, <1>6, <1>7, <1>8, <1>9, HandlesStep

LEMMA ClearPlayerLeftLearns ==
    ASSUME TKInv, MInv, NEW a \in Slots, ClearPlayerLeft(a)
    PROVE  MInv'
<1>1. /\ phase[a] \in {"play", "cut"}
      /\ PlayerLeftMsg(a, playerLeft[a])
      /\ playerLeft' = [playerLeft EXCEPT ![a] = {}]
      /\ UNCHANGED <<phase, life, up, inbox, buffer, offset, packed>>
  BY DEF ClearPlayerLeft, netVars, Plays
<1>2. /\ TInv /\ Typed /\ ActiveKnown /\ Buffers(buffer) /\ Boxes(inbox) /\ Programs
      /\ playerLeft \in [Slots -> SUBSET Slots] /\ playerLeft'[a] = {}
  BY <1>1 DEF TKInv, TInv, Typed
<1>3. /\ plractive'[a] = plractive[a] \ (playerLeft[a] \ {a})
      /\ \A p \in Slots : p # a => plractive'[p] = plractive[p] /\ character'[p] = character[p]
  BY <1>1, <1>2, LeftPrograms
<1>4. \A q \in Slots : q \notin playerLeft[a] \ {a} => character'[a][q] = character[a][q]
  BY <1>1, <1>2, LeftCharacters
<1>5. \A p \in Slots : p # a => playerLeft'[p] = playerLeft[p]
  BY <1>1, <1>2
<1>6. ASSUME NEW q \in Slots, q # a PROVE Handles(a, q)
  <2>1. Keeps(buffer[a], playerLeft[a], inbox[a], buffer[a], {}, inbox[a], a, q, life[q])
    <3>1. <<>> \in Seq(Items) /\ ~ Has(<<>>, Current(a, q, life[q]))
          /\ ~ Has(<<>>, Outdated(a, q, life[q]))
      <4>1. <<>> \in Seq(Items)
        OBVIOUS
      <4> QED BY <4>1, HasOne, Zenon
    <3>2. buffer[a] \in Seq(Items)
      BY <1>2, LineItems
    <3> QED BY <3>1, <3>2, KeepsDrops
  <2>2. OldOnes(a, q) = {} => q \notin playerLeft[a]
    BY PastEmpty DEF OldOnes
  <2> QED BY <1>1, <1>2, <1>3, <1>4, <2>1, <2>2 DEF Handles, Line
<1>7. phase[a] # "out" /\ GoesOn(phase[a], phase'[a])
      /\ inbox'[a] \in Seq(Born(life)) /\ buffer'[a] \in Seq(Born(life))
  <2>1. inbox[a] \in Seq(Born(life)) /\ buffer[a] \in Seq(Born(life))
    BY <1>2, AgedParts DEF MInv
  <2> QED BY <1>1, <2>1 DEF GoesOn
<1>8. character'[a][a] = character[a][a]
  BY <1>4
<1> QED BY <1>1, <1>2, <1>3, <1>5, <1>6, <1>7, <1>8, HandlesStep

LEMMA PartsType ==
    ASSUME NEW S, NEW B, NEW r \in Seq(S), NEW t \in Seq(S), r \o t \in Seq(B)
    PROVE  r \in Seq(B) /\ t \in Seq(B)
<1> DEFINE all == r \o t
<1>1. /\ Len(all) = Len(r) + Len(t) /\ Len(r) \in Nat /\ Len(t) \in Nat
      /\ \A i \in 1 .. Len(r) : all[i] = r[i]
      /\ \A i \in 1 .. Len(t) : all[Len(r) + i] = t[i]
  OBVIOUS
<1>2. all \in Seq(B)
  OBVIOUS
<1> HIDE DEF all
<1>3. \A i \in 1 .. Len(all) : all[i] \in B
  BY <1>2
<1>4. \A i \in 1 .. Len(r) : r[i] \in B
  BY <1>1, <1>3
<1>5. \A i \in 1 .. Len(t) : t[i] \in B
  BY <1>1, <1>3
<1> QED BY <1>4, <1>5

LEMMA HandleDisconnectLearns ==
    ASSUME TInv, MInv, NEW a \in Slots, HandleDisconnect(a)
    PROVE  MInv'
<1>1. PICK d \in Slots : \E waiting, behind \in Seq(Packets) :
          /\ inbox[a] = waiting \o (<<Event("PT_DISCONNECT", d)>> \o behind)
          /\ waiting \in Seq(MessagesTo(a)) /\ behind \in Seq(To(a))
          /\ inbox' = [inbox EXCEPT ![a] = ClearMsg(waiting, d) \o behind]
          /\ playerLeft' = [playerLeft EXCEPT ![a] = @ \cup {d}]
  BY DisconnectAt, Zenon
<1>2. PICK waiting \in Seq(Packets), behind \in Seq(Packets) :
          /\ inbox[a] = waiting \o (<<Event("PT_DISCONNECT", d)>> \o behind)
          /\ inbox' = [inbox EXCEPT ![a] = ClearMsg(waiting, d) \o behind]
          /\ playerLeft' = [playerLeft EXCEPT ![a] = playerLeft[a] \cup {d}]
  BY <1>1
<1>3. phase[a] # "out" /\ UNCHANGED <<phase, life, up, buffer, offset, packed, character, plractive>>
  BY DEF HandleDisconnect, programVars
<1>4. Typed /\ Boxes(inbox) /\ playerLeft \in [Slots -> SUBSET Slots]
  BY DEF TInv, Typed
<1> DEFINE rest == ClearMsg(waiting, d) \o behind
<1>5. inbox'[a] = rest /\ playerLeft'[a] = playerLeft[a] \cup {d}
      /\ \A p \in Slots : p # a => inbox'[p] = inbox[p] /\ playerLeft'[p] = playerLeft[p]
  BY <1>2, <1>4 DEF Boxes
<1>6. rest \in Seq(Born(life))
  <2> DEFINE B == Born(life)
             one == <<Event("PT_DISCONNECT", d)>>
  <2>1. inbox[a] \in Seq(B)
    BY <1>4, AgedParts DEF MInv
  <2>2. waiting \in Seq(B) /\ behind \in Seq(B)
    <3>1. one \in Seq(Packets)
      BY PacketTypes
    <3>2. inbox[a] = waiting \o (one \o behind)
      BY <1>2
    <3> HIDE DEF one, B
    <3>3. \A r, t \in Seq(Packets) : r \o t \in Seq(B) => r \in Seq(B) /\ t \in Seq(B)
      BY PartsType
    <3>4. one \o behind \in Seq(Packets)
      BY <3>1
    <3> QED BY <2>1, <3>1, <3>2, <3>3, <3>4, Zenon
  <2>3. ClearMsg(waiting, d) \in Seq(B)
    <3> HIDE DEF B
    <3> QED BY <2>2, AmongType DEF ClearMsg
  <2> HIDE DEF B
  <2> QED BY <2>2, <2>3, TypeParts, Zenon DEF B
<1> HIDE DEF rest
<1>7. ASSUME NEW q \in Slots, OldFirst(a, q) PROVE Handles(a, q)
  <2>1. /\ Keeps(buffer[a], playerLeft[a], inbox[a], buffer[a], playerLeft[a] \cup {d}, rest,
                 a, q, life[q])
        /\ OldFirst(a, q) => Among(rest, Current(a, q, life[q])) = Among(inbox[a], Current(a, q, life[q]))
    <3>1. LET box == waiting \o (<<Event("PT_DISCONNECT", d)>> \o behind)
              box2 == ClearMsg(waiting, d) \o behind
          IN  /\ Keeps(buffer[a], playerLeft[a], box, buffer[a], playerLeft[a] \cup {d}, box2,
                       a, q, life[q])
              /\ Settled(buffer[a], playerLeft[a], box, a, q, life[q]) =>
                     Among(box2, Current(a, q, life[q])) = Among(box, Current(a, q, life[q]))
      BY KeepsLeave
    <3> QED BY <1>2, <3>1, Zenon DEF rest, OldFirst
  <2>2. LineOf(buffer[a], rest, up[q], a, q, life[q]) = Line(a, q)
    BY <1>7, <2>1 DEF LineOf, Line
  <2> QED BY <1>3, <1>5, <2>1, <2>2 DEF Handles
<1>8. GoesOn(phase[a], phase'[a]) /\ buffer'[a] \in Seq(Born(life))
  <2>1. buffer[a] \in Seq(Born(life))
    BY <1>4, AgedParts DEF MInv
  <2> QED BY <1>3, <2>1 DEF GoesOn
<1> QED BY <1>3, <1>5, <1>6, <1>7, <1>8, HandlesStep

--------------------------------------------------------------------------------
(* What is sent.                                                               *)

Present(a) == {m \in Says(a) : m.life = life[a]}

LEMMA PresentTypes ==
    ASSUME NEW a \in Slots
    PROVE  /\ Present(a) \subseteq Says(a) /\ Present(a) \subseteq MessagesType
           /\ Present(a) \subseteq Packets /\ Present(a) \subseteq Items
           /\ Present(a) \subseteq UpBorn(a, life[a])
           /\ \A p : \A m \in Present(a) : m \in To(p) => m \in Current(p, a, life[a])
           /\ \A p : Present(a) \cap To(p) \cap Outdated(p, a, life[a]) = {}
<1>1. /\ Present(a) \subseteq Says(a) /\ Present(a) \subseteq MessagesType
      /\ Present(a) \subseteq Packets /\ Present(a) \subseteq Items
  BY PacketTypes, ItemTypes DEF Present, Says
<1>2. Present(a) \subseteq UpBorn(a, life[a])
  BY <1>1 DEF Present, Says, UpBorn, Of
<1>3. \A p : \A m \in Present(a) : m \in To(p) => m \in Current(p, a, life[a])
  <2>1. \A m \in Present(a) : ~ IsDisconnect(m) /\ m.src = a /\ m.life = life[a]
    BY PacketTypes DEF Present, Says
  <2> QED BY <2>1, PacketTypes DEF Current
<1>4. \A p : Present(a) \cap To(p) \cap Outdated(p, a, life[a]) = {}
  BY <1>3 DEF Outdated
<1> QED BY <1>1, <1>2, <1>3, <1>4

\* The chunks of a character: who they are for has all of them.
LEMMA InfoTypes ==
    ASSUME NEW a \in Slots, life[a] \in Lives, NEW dst \in Slots \cup {SNPLAYER_OTHERS},
           NEW cmd \in InfoCommands
    PROVE  /\ Info(cmd, a, dst) \in Seq(Present(a))
           /\ Whole(Info(cmd, a, dst)) /\ ~ Has(Info(cmd, a, dst), JoinLevels)
           /\ Has(Info(cmd, a, dst), Starting)
           /\ cmd = "CMD_SEND_PLRINFO" => Has(Info(cmd, a, dst), Asking)
           /\ cmd = "CMD_ACK_PLRINFO" => ~ Has(Info(cmd, a, dst), Sent)
           /\ \A p \in Slots : Among(Info(cmd, a, dst), Current(p, a, life[a])) =
                  IF dst \in {p, SNPLAYER_OTHERS} THEN Info(cmd, a, dst) ELSE <<>>
<1> DEFINE info == Info(cmd, a, dst)
           S == {m \in Present(a) : m.dst = dst /\ m.type = cmd}
<1>1. ASSUME NEW i \in 1 .. Chunks
      PROVE  info[i] \in S /\ info[i].chunk = i - 1
  <2>1. info[i] = [type |-> cmd, src |-> a, dst |-> dst, life |-> life[a], chunk |-> i - 1]
    BY DEF Info, Message
  <2>2. i - 1 \in 0 .. Chunks - 1
    BY Constants
  <2> HIDE DEF info
  <2> QED BY <2>1, <2>2 DEF Present, Says, MessagesType
<1>2. info = [i \in 1 .. Chunks |-> info[i]]
  BY DEF Info
<1>3. Chunks \in Nat /\ Chunks >= 1
  BY Constants
<1> HIDE DEF info
<1>4. info \in Seq(S) /\ Len(info) = Chunks
  <2> HIDE DEF S
  <2> QED BY <1>1, <1>2, <1>3
<1>5. info \in Seq(Present(a))
  <2>1. S \subseteq Present(a)
    OBVIOUS
  <2> HIDE DEF S
  <2> QED BY <1>4, <2>1, SeqMonotonicHere, Zenon
<1>6. \A m \in S : m.type = cmd /\ m \in MessagesType
  BY PresentTypes
<1>7. Whole(info)
  <2> SUFFICES ASSUME NEW i \in 1 .. Len(info), Unfinished(info[i])
               PROVE  i < Len(info) /\ Follows(info[i], info[i + 1])
    BY DEF Whole
  <2>1. info[i] \in S /\ info[i].chunk = i - 1 /\ i \in 1 .. Chunks
    BY <1>1, <1>4
  <2>2. i < Chunks /\ i + 1 \in 1 .. Chunks
    BY <1>3, <2>1 DEF Unfinished
  <2>3. info[i + 1] \in S /\ info[i + 1].chunk = (i + 1) - 1
    BY <1>1, <2>2
  <2> HIDE DEF S
  <2> QED BY <1>3, <1>4, <1>6, <2>1, <2>2, <2>3 DEF Follows
<1>8. /\ ~ Has(info, JoinLevels)
      /\ cmd = "CMD_ACK_PLRINFO" => ~ Has(info, Sent)
  <2>1. \A i \in 1 .. Len(info) : info[i].type = cmd
    <3> HIDE DEF S
    <3> QED BY <1>1, <1>4, <1>6
  <2>2. cmd # "CMD_PLAYER_JOINLEVEL"
    BY DEF InfoCommands
  <2> QED BY <2>1, <2>2 DEF Has, JoinLevels, Sent
<1>9. Has(info, Starting) /\ (cmd = "CMD_SEND_PLRINFO" => Has(info, Asking))
  <2>1. 1 \in 1 .. Len(info)
    BY <1>3, <1>4
  <2>2. info[1] \in S /\ info[1].chunk = 1 - 1
    BY <1>3, <1>1
  <2>3. info[1].type = cmd /\ info[1] \in MessagesType /\ info[1].chunk = 0
    <3> HIDE DEF S
    <3> QED BY <1>6, <2>2
  <2>4. info[1] \in Starting /\ (cmd = "CMD_SEND_PLRINFO" => info[1] \in Asking)
    BY <2>3 DEF Starting, Asking, Sent
  <2> QED BY <2>1, <2>4 DEF Has
<1>10. ASSUME NEW p \in Slots
       PROVE  Among(info, Current(p, a, life[a])) =
                  IF dst \in {p, SNPLAYER_OTHERS} THEN info ELSE <<>>
  <2>1. CASE dst \in {p, SNPLAYER_OTHERS}
    <3>1. S \subseteq Current(p, a, life[a])
      BY <2>1, PresentTypes DEF Present, Says, Current, MessagesTo
    <3> HIDE DEF S
    <3>2. info \in Seq(Current(p, a, life[a]))
      BY <1>4, <3>1, SeqMonotonicHere, Zenon
    <3> QED BY <2>1, <3>2, AmongAll
  <2>2. CASE dst \notin {p, SNPLAYER_OTHERS}
    <3>1. S \cap Current(p, a, life[a]) = {}
      BY <2>2 DEF Current, MessagesTo
    <3> HIDE DEF S
    <3> QED BY <1>4, <2>2, <3>1, AmongNone
  <2> QED BY <2>1, <2>2
<1> QED BY <1>5, <1>7, <1>8, <1>9, <1>10 DEF info

LEMMA JoinLevelMessages ==
    ASSUME NEW a \in Slots, life[a] \in Lives
    PROVE  /\ JoinLevel(a) \in Seq(Present(a)) /\ <<>> \in Seq(Present(a))
           /\ Whole(JoinLevel(a)) /\ Has(JoinLevel(a), JoinLevels)
           /\ ~ Has(JoinLevel(a), Sent)
           /\ \A p \in Slots : Among(JoinLevel(a), Current(p, a, life[a])) = JoinLevel(a)
<1> DEFINE m == Message("CMD_PLAYER_JOINLEVEL", a, SNPLAYER_OTHERS, 0)
<1>1. m \in Present(a) /\ m.type = "CMD_PLAYER_JOINLEVEL" /\ m.dst = SNPLAYER_OTHERS
  <2>1. 0 \in 0 .. Chunks - 1
    BY Constants
  <2> QED BY <2>1 DEF Message, Present, Says, MessagesType
<1>2. JoinLevel(a) = <<m>>
  BY DEF JoinLevel
<1> HIDE DEF m
<1>3. m \in MessagesType /\ m \in Items /\ \A p \in Slots : m \in Current(p, a, life[a])
  BY <1>1, PresentTypes DEF Present, Says, Current, MessagesTo
<1>4. <<m>> \in Seq(Present(a)) /\ <<>> \in Seq(Present(a))
  BY <1>1
<1>5. Whole(<<m>>) /\ Has(<<m>>, JoinLevels) /\ ~ Has(<<m>>, Sent)
  <2>1. m.type \notin InfoCommands /\ m \in JoinLevels /\ m \notin Sent
    BY <1>1, <1>3 DEF InfoCommands, JoinLevels, Sent
  <2> QED BY <2>1, WholeOne, HasOne
<1>6. \A p \in Slots : Among(<<m>>, Current(p, a, life[a])) = <<m>>
  BY <1>3, CurrentOne
<1> QED BY <1>2, <1>4, <1>5, <1>6, Zenon

\* What a sends comes at the end of its line, and of what the server has to relay.
LEMMA SentLine ==
    ASSUME TInv, NEW a \in Slots, phase[a] # "out", NEW boxes, NEW messages \in Seq(Present(a)),
           Sends(a, messages, boxes), NEW p \in Slots, p # a, boxes[p] = inbox[p]
    PROVE  /\ phase[p] # "out" =>
                  /\ LineOf(buffer[p], inbox'[p], up'[a], p, a, life[a]) =
                         Line(p, a) \o Among(messages, Current(p, a, life[a]))
                  /\ Keeps(buffer[p], playerLeft[p], inbox[p], buffer[p], playerLeft[p], inbox'[p],
                           p, a, life[a])
           /\ \/ Among(up'[a], Current(p, a, life[a])) = <<>>
              \/ Among(up'[a], Current(p, a, life[a])) =
                     Waiting(p, a) \o Among(messages, Current(p, a, life[a]))
<1> DEFINE C == Current(p, a, life[a])
<1>1. Typed /\ Ups(up) /\ a \in connections
  BY DEF TInv, Typed, Standing
<1>2. /\ buffer[p] \in Seq(Items) /\ inbox[p] \in Seq(Packets) /\ inbox[p] \in Seq(Items)
      /\ up[a] \in Seq(Packets) /\ up[a] \in Seq(Items)
  BY <1>1, LineItems
<1>3. messages \in Seq(Packets) /\ messages \in Seq(Items)
  BY PresentTypes, SeqMonotonicHere, Zenon
<1>4. CASE a = Host
  <2>1. up'[a] = <<>> /\ up[a] = <<>>
    BY <1>4 DEF TInv, Sends
  <2>2. Among(up'[a], C) = <<>>
    BY <2>1, AmongEmpty
  <2>3. ASSUME phase[p] # "out"
        PROVE  /\ LineOf(buffer[p], inbox'[p], up'[a], p, a, life[a]) = Line(p, a) \o Among(messages, C)
               /\ Keeps(buffer[p], playerLeft[p], inbox[p], buffer[p], playerLeft[p], inbox'[p],
                        p, a, life[a])
    <3> DEFINE more == Among(messages, To(p))
    <3>1. p \in connections
      BY <2>3 DEF TInv, Standing
    <3>2. inbox' = Delivered(boxes, Host, messages)
      BY <1>4, Zenon DEF Sends
    <3>3. inbox'[p] = inbox[p] \o more
      BY <1>4, <3>1, <3>2 DEF Delivered
    <3>4. Growing(buffer[p], inbox[p], up[a], messages, p, a, life[a])
      BY <1>2, <1>3, LineGrows
    <3>5. LineOf(buffer[p], inbox'[p], up'[a], p, a, life[a]) = Line(p, a) \o Among(messages, C)
      BY <2>1, <3>3, <3>4, Zenon DEF Growing, Line
    <3>6. more \in Seq(Items) /\ ~ Has(more, Outdated(p, a, life[a]))
      <4>1. more \in Seq(Items)
        BY <1>3, AmongType
      <4>2. more \in Seq(Present(a) \cap To(p))
        BY AmongType
      <4>3. (Present(a) \cap To(p)) \cap Outdated(p, a, life[a]) = {}
        BY PresentTypes
      <4> HIDE DEF more
      <4>4. \A i \in 1 .. Len(more) : more[i] \in Present(a) \cap To(p)
        BY <4>2
      <4> QED BY <4>1, <4>3, <4>4 DEF Has
    <3> HIDE DEF more
    <3>7. Keeps(buffer[p], playerLeft[p], inbox[p], buffer[p], playerLeft[p], inbox[p] \o more,
                p, a, life[a])
      BY <1>2, <3>6, KeepsMore
    <3> QED BY <3>3, <3>5, <3>7, Zenon
  <2> QED BY <2>2, <2>3
<1>5. CASE a # Host
  <2>1. up'[a] = up[a] \o messages /\ inbox' = boxes
    BY <1>1, <1>5 DEF Sends, Ups
  <2>2. Growing(buffer[p], inbox[p], up[a], messages, p, a, life[a])
    BY <1>2, <1>3, LineGrows
  <2>3. LineOf(buffer[p], inbox'[p], up'[a], p, a, life[a]) = Line(p, a) \o Among(messages, C)
    BY <2>1, <2>2, Zenon DEF Growing, Line
  <2>4. Keeps(buffer[p], playerLeft[p], inbox[p], buffer[p], playerLeft[p], inbox'[p], p, a, life[a])
    BY <2>1, KeepsSame
  <2>5. Among(up[a] \o messages, C) = Waiting(p, a) \o Among(messages, C)
    <3>1. \A s, t \in Seq(Items) : Among(s \o t, C) = Among(s, C) \o Among(t, C)
      BY CurrentConcat
    <3> QED BY <1>2, <1>3, <3>1, Zenon DEF Waiting
  <2> QED BY <2>1, <2>3, <2>4, <2>5
<1> QED BY <1>4, <1>5

LEMMA SentAges ==
    ASSUME TInv, Ages, NEW a \in Slots, phase[a] # "out", NEW boxes, Boxes(boxes),
           Aged(boxes, life), NEW messages \in Seq(Present(a)), Sends(a, messages, boxes)
    PROVE  /\ Aged(inbox', life) /\ inbox'[a] = boxes[a]
           /\ \A q \in Slots : up'[q] \in Seq(UpBorn(q, life[q])) /\ (q # a => up'[q] = up[q])
<1>1. Typed /\ Ups(up)
  BY DEF TInv, Typed
<1>2. messages \in Seq(UpBorn(a, life[a])) /\ messages \in Seq(Born(life))
  <2>1. /\ Present(a) \subseteq UpBorn(a, life[a]) /\ UpBorn(a, life[a]) \subseteq Born(life)
    BY <1>1, AgedParts, PresentTypes
  <2>2. Present(a) \subseteq Born(life)
    BY <2>1
  <2> QED BY <2>1, <2>2, SeqMonotonicHere, Zenon
<1>3. ASSUME NEW q \in Slots PROVE up'[q] \in Seq(UpBorn(q, life[q])) /\ (q # a => up'[q] = up[q])
  <2>1. up[q] \in Seq(UpBorn(q, life[q]))
    BY DEF Ages
  <2>2. up'[q] = up[q] \/ (q = a /\ up'[q] = up[q] \o messages)
    BY <1>1 DEF Sends, Ups
  <2>3. q # a => up'[q] = up[q]
    BY <2>2
  <2>4. \A s, t \in Seq(UpBorn(q, life[q])) : s \o t \in Seq(UpBorn(q, life[q]))
    BY TypeParts, Zenon
  <2>5. CASE up'[q] = up[q]
    BY <2>1, <2>3, <2>5
  <2>6. CASE q = a /\ up'[q] = up[q] \o messages
    <3>1. messages \in Seq(UpBorn(q, life[q]))
      BY <1>2, <2>6
    <3>2. up[q] \o messages \in Seq(UpBorn(q, life[q]))
      BY <2>1, <2>4, <3>1, Zenon
    <3>3. up'[q] \in Seq(UpBorn(q, life[q]))
      BY <2>6, <3>2, Zenon
    <3> QED BY <2>3, <3>3
  <2> QED BY <2>2, <2>5, <2>6
<1>4. ASSUME NEW q \in Slots PROVE inbox'[q] \in Seq(Born(life))
  <2>1. boxes[q] \in Seq(Born(life))
    BY DEF Aged
  <2>2. Among(messages, To(q)) \in Seq(Born(life))
    BY <1>2, AmongType
  <2>3. inbox'[q] = boxes[q] \/ inbox'[q] = boxes[q] \o Among(messages, To(q))
    BY DEF Sends, Delivered
  <2>4. \A s, t \in Seq(Born(life)) : s \o t \in Seq(Born(life))
    BY TypeParts, Zenon
  <2>5. boxes[q] \o Among(messages, To(q)) \in Seq(Born(life))
    BY <2>1, <2>2, <2>4, Zenon
  <2> QED BY <2>1, <2>3, <2>5, Zenon
<1>5. inbox'[a] = boxes[a]
  <2>1. a # Host => inbox' = boxes
    BY Zenon DEF Sends
  <2>2. a = Host => inbox'[a] = boxes[a]
    <3>1. a = Host => inbox' = Delivered(boxes, a, messages)
      BY Zenon DEF Sends
    <3> QED BY <3>1 DEF Delivered
  <2> QED BY <2>1, <2>2
<1> QED BY <1>3, <1>4, <1>5 DEF Aged

\* The line to p grows by what a sends to it.
LEMMA SentGood ==
    ASSUME TInv, MInv, NEW a \in Slots, Listens(a), UNCHANGED life, NEW boxes,
           NEW messages \in Seq(Present(a)), Sends(a, messages, boxes),
           NEW p \in Slots, p # a, boxes[p] = inbox[p],
           phase'[p] = phase[p], buffer'[p] = buffer[p], playerLeft'[p] = playerLeft[p],
           offset'[p] = offset[p], packed'[p] = packed[p],
           character'[p] = character[p], plractive'[p] = plractive[p],
           NEW x, x = Among(messages, Current(p, a, life[a])),
           \A s \in Seq(MessagesType) : Ordered(s, phase[a]) => Ordered(s \o x, phase'[a]),
           phase[a] = "joined" => phase'[a] = "joined" \/ Has(x, Starting),
           phase[a] \in {"resync", "load"} =>
               phase'[a] \in {"resync", "load"} \/ Has(x, JoinLevels),
           Listens(p) /\ Asks(p, a) => Asks(p, a)' \/ Has(x, Starting)
    PROVE  /\ Ordered(Waiting(p, a)', phase'[a])
           /\ Listens(p) => Good(p, a)'
<1>1. Typed /\ phase[a] # "out"
  BY DEF TInv, Listens
<1>2. x \in Seq(MessagesType)
  <2>1. messages \in Seq(Items)
    BY PresentTypes, SeqMonotonicHere, Zenon
  <2> QED BY <2>1, CurrentType
<1>3. Line(p, a) \in Seq(MessagesType) /\ Waiting(p, a) \in Seq(MessagesType)
  BY <1>1, LineItems
<1>4. /\ phase[p] # "out" =>
             /\ LineOf(buffer[p], inbox'[p], up'[a], p, a, life[a]) = Line(p, a) \o x
             /\ Keeps(buffer[p], playerLeft[p], inbox[p], buffer[p], playerLeft[p], inbox'[p],
                      p, a, life[a])
      /\ \/ Among(up'[a], Current(p, a, life[a])) = <<>>
         \/ Among(up'[a], Current(p, a, life[a])) = Waiting(p, a) \o x
  BY <1>1, SentLine
<1>5. Waiting(p, a)' = Among(up'[a], Current(p, a, life[a]))
  BY DEF Waiting
<1>6. Ordered(Waiting(p, a)', phase'[a])
  <2>1. Ordered(Waiting(p, a), phase[a])
    BY DEF MInv
  <2>2. Ordered(Waiting(p, a) \o x, phase'[a])
    BY <1>3, <2>1, Zenon
  <2>3. Ordered(<<>>, phase'[a])
    BY OrderedEmpty
  <2> QED BY <1>4, <1>5, <2>2, <2>3, Zenon
<1>7. ASSUME Listens(p) PROVE Good(p, a)'
  <2>1. Good(p, a)
    BY <1>7 DEF MInv
  <2>2. Ordered(Line(p, a) \o x, phase'[a])
    <3>1. Ordered(Line(p, a), phase[a])
      BY <2>1 DEF Good
    <3> QED BY <1>3, <3>1, Zenon
  <2>3. LineOf(buffer'[p], inbox'[p], up'[a], p, a, life[a]) = Line(p, a) \o x
    BY <1>4, <1>7, Zenon DEF Listens
  <2>4. Keeps(buffer[p], playerLeft[p], inbox[p], buffer'[p], playerLeft'[p], inbox'[p], p, a, life[a])
    BY <1>4, <1>7, Zenon DEF Listens
  <2> QED BY <1>1, <1>2, <1>7, <2>1, <2>2, <2>3, <2>4, PairStep
<1> QED BY <1>6, <1>7

\* Who sends nothing of its own to a leaves a's lines as they are.
LEMMA SenderLine ==
    ASSUME Typed, NEW a \in Slots, NEW q \in Slots, q # a, buffer'[a] = buffer[a],
           inbox'[a] = inbox[a], up'[q] = up[q], life'[q] = life[q]
    PROVE  /\ Line(a, q)' = Line(a, q)
           /\ LineOf(buffer'[a], inbox'[a], up'[q], a, q, life[q]) = Line(a, q) \o <<>>
           /\ <<>> \in Seq(MessagesType) /\ Line(a, q) \o <<>> = Line(a, q)
<1>1. Line(a, q)' = Line(a, q)
  BY DEF Line
<1>2. LineOf(buffer'[a], inbox'[a], up'[q], a, q, life[q]) = Line(a, q)
  BY DEF Line
<1>3. Line(a, q) \in Seq(MessagesType)
  BY LineItems
<1>4. <<>> \in Seq(MessagesType) /\ Line(a, q) \o <<>> = Line(a, q)
  BY <1>3, MessagesConcat, Zenon
<1> QED BY <1>1, <1>2, <1>4, Zenon

LEMMA NetInitLearns ==
    ASSUME TKInv, MInv, NEW a \in Slots, NetInit(a)
    PROVE  MInv'
<1> DEFINE x == Info("CMD_SEND_PLRINFO", a, SNPLAYER_OTHERS)
<1>1. /\ phase[a] = "joined" /\ phase' = [phase EXCEPT ![a] = "resync"]
      /\ character' = [character EXCEPT ![a][a] = PackOf(life[a])]
      /\ plractive' = [plractive EXCEPT ![a] = {a}]
      /\ Sends(a, x, inbox)
      /\ UNCHANGED <<life, buffer, offset, packed, playerLeft>>
  BY DEF NetInit, leaveVars
<1>2. /\ TInv /\ Typed /\ Boxes(inbox) /\ Ups(up) /\ phase \in [Slots -> Phases] /\ Programs
      /\ plractive \in [Slots -> SUBSET Slots] /\ character \in [Slots -> [Slots -> Packs]]
  BY DEF TKInv, TInv, Typed, Programs
<1>3. life[a] \in Lives /\ Sendable(x, a) /\ "CMD_SEND_PLRINFO" \in InfoCommands
      /\ SNPLAYER_OTHERS \in Slots \cup {SNPLAYER_OTHERS}
  BY <1>1, <1>2, InfoSendable DEF TInv, Standing, InfoCommands
<1>4. /\ x \in Seq(Present(a)) /\ Whole(x) /\ ~ Has(x, JoinLevels) /\ Has(x, Starting) /\ Has(x, Asking)
      /\ \A p \in Slots : Among(x, Current(p, a, life[a])) = x
  <2>1. \A p : SNPLAYER_OTHERS \in {p, SNPLAYER_OTHERS}
    OBVIOUS
  <2> QED BY <1>3, <2>1, InfoTypes
<1> HIDE DEF x
<1>5. /\ Ages /\ Aged(inbox, life) /\ Aged(buffer, life)
  BY DEF MInv, Ages
<1>6. /\ Aged(inbox', life) /\ inbox'[a] = inbox[a]
      /\ \A q \in Slots : up'[q] \in Seq(UpBorn(q, life[q])) /\ (q # a => up'[q] = up[q])
  BY <1>1, <1>2, <1>4, <1>5, SentAges
<1>7. Ages'
  BY <1>1, <1>5, <1>6 DEF Ages, Aged
<1>8. /\ phase'[a] = "resync" /\ plractive'[a] = {a} /\ character'[a][a] = PackOf(life[a])
      /\ \A q \in Slots : q # a => character'[a][q] = character[a][q]
      /\ \A p \in Slots : p # a => phase'[p] = phase[p] /\ plractive'[p] = plractive[p]
                                   /\ character'[p] = character[p]
  BY <1>1, <1>2
<1>9. Apart(a)
  <2>1. ASSUME NEW p \in Slots, p # a, NEW q \in Slots, q # a PROVE Grown(p, q)
    BY <1>1, <1>2, <1>3, <2>1, SendsGrown
  <2> QED BY <1>1, <1>6, <1>8, <2>1 DEF Apart
<1>10. KnowsItself(a)'
  BY <1>1, <1>8 DEF KnowsItself
<1>11. Listens(a)
  BY <1>1 DEF Listens
<1>12. x \in Seq(MessagesType) /\ <<>> \o x = x
  <2>1. x \in Seq(MessagesType)
    BY <1>4, PresentTypes, SeqMonotonicHere, Zenon
  <2> QED BY <2>1, MessagesConcat, Zenon
<1>13. \A s \in Seq(MessagesType) : Ordered(s, phase[a]) => Ordered(s \o x, phase'[a])
  <2>1. Ordered(x, "resync")
    BY <1>4 DEF Ordered, Before, Has
  <2>2. \A s : Ordered(s, "joined") => s = <<>>
    BY DEF Ordered
  <2> QED BY <1>1, <1>8, <1>12, <2>1, <2>2, Zenon
<1>14. ASSUME NEW p \in Slots, p # a
       PROVE  /\ Ordered(Waiting(p, a)', phase'[a])
              /\ Listens(p) => Good(p, a)'
  <2>1. Among(x, Current(p, a, life[a])) = x
    BY <1>4
  <2> QED BY <1>1, <1>2, <1>4, <1>8, <1>11, <1>13, <1>14, <2>1, SentGood
<1>15. ASSUME NEW p \in Slots, p # a, Listens(p)
       PROVE  Good(a, p)'
  <2>1. Good(a, p)
    BY <1>11, <1>15 DEF MInv
  <2>2. Line(a, p)' = Line(a, p)
    BY <1>1, <1>2, <1>6, <1>15, SenderLine
  <2>3. OldFirst(a, p)' /\ Ordered(Line(a, p), phase[p])'
    BY <1>1, <1>6, <1>8, <1>15, <2>1, <2>2 DEF Good, OldFirst
  <2>4. Asks(a, p)'
    <3>1. phase[p] # "out" /\ phase[a] # "out"
      BY <1>1, <1>15 DEF Listens
    <3>2. LineOf(buffer[p], inbox'[p], up'[a], p, a, life[a]) =
              Line(p, a) \o Among(x, Current(p, a, life[a]))
      BY <1>1, <1>2, <1>4, <1>15, <3>1, SentLine
    <3>3. Line(p, a)' = Line(p, a) \o x
      BY <1>1, <1>4, <3>2 DEF Line
    <3>4. Line(p, a) \in Seq(MessagesType)
      BY <1>2, LineItems
    <3>5. Has(Line(p, a) \o x, Asking)
      BY <1>4, <1>12, <3>4, HasConcat
    <3>6. Has(Line(p, a), Asking)'
      BY <3>3, <3>5
    <3> QED BY <3>6 DEF Asks
  <2> QED BY <2>3, <2>4 DEF Good
<1> QED BY <1>2, <1>7, <1>9, <1>10, <1>14, <1>15, MStep

\* A program tells the others that it enters a level.
LEMMA LevelLearns ==
    ASSUME TKInv, MInv, NEW a \in Slots, EnterGame(a) \/ ChangeLevel(a)
    PROVE  MInv'
<1> DEFINE x == JoinLevel(a)
<1>1. /\ \/ phase[a] = "load" /\ phase' = [phase EXCEPT ![a] = "replay"]
         \/ phase[a] \in {"play", "cut"} /\ phase' = phase
      /\ Sends(a, x, inbox)
      /\ UNCHANGED <<life, buffer, offset, packed, character, plractive, playerLeft>>
  BY DEF EnterGame, ChangeLevel, Plays, leaveVars, programVars
<1>2. /\ TInv /\ Typed /\ Boxes(inbox) /\ Ups(up) /\ phase \in [Slots -> Phases]
  BY DEF TKInv, TInv, Typed
<1>3. life[a] \in Lives /\ phase[a] # "out" /\ Sendable(x, a)
  BY <1>1, <1>2, JoinLevelTypes DEF TInv, Standing
<1>4. /\ x \in Seq(Present(a)) /\ Whole(x) /\ Has(x, JoinLevels) /\ ~ Has(x, Sent)
      /\ \A p \in Slots : Among(x, Current(p, a, life[a])) = x
  BY <1>3, JoinLevelMessages
<1> HIDE DEF x
<1>5. /\ Ages /\ Aged(inbox, life) /\ Aged(buffer, life)
  BY DEF MInv, Ages
<1>6. /\ Aged(inbox', life) /\ inbox'[a] = inbox[a]
      /\ \A q \in Slots : up'[q] \in Seq(UpBorn(q, life[q])) /\ (q # a => up'[q] = up[q])
  BY <1>1, <1>2, <1>3, <1>4, <1>5, SentAges
<1>7. Ages'
  BY <1>1, <1>5, <1>6 DEF Ages, Aged
<1>8. /\ \A p \in Slots : p # a => phase'[p] = phase[p]
      /\ \/ phase[a] = "load" /\ phase'[a] = "replay"
         \/ phase[a] \in {"play", "cut"} /\ phase'[a] = phase[a]
  BY <1>1, <1>2
<1>9. Apart(a)
  <2>1. ASSUME NEW p \in Slots, p # a, NEW q \in Slots, q # a PROVE Grown(p, q)
    BY <1>1, <1>2, <1>3, <2>1, SendsGrown
  <2> QED BY <1>1, <1>6, <1>8, <2>1 DEF Apart
<1>10. KnowsItself(a)'
  BY <1>1, <1>8 DEF KnowsItself, MInv
<1>11. Listens(a)' => Listens(a)
  BY <1>8 DEF Listens
<1>12. x \in Seq(MessagesType)
  BY <1>4, PresentTypes, SeqMonotonicHere, Zenon
<1>13. \A s \in Seq(MessagesType) : Ordered(s, phase[a]) => Ordered(s \o x, phase'[a])
  <2> SUFFICES ASSUME NEW s \in Seq(MessagesType), Ordered(s, phase[a])
               PROVE  Ordered(s \o x, phase'[a])
    OBVIOUS
  <2>1. phase[a] # "joined"
    BY <1>8
  <2>2. /\ Ordered(s \o x, phase[a])
        /\ phase[a] = "load" => Ordered(s \o x, "replay")
    <3>1. /\ Ordered(s \o x, phase[a])
          /\ phase[a] = "load" /\ Has(x, JoinLevels) => Ordered(s \o x, "replay")
      BY <1>4, <1>12, <2>1, OrderedMore
    <3> QED BY <1>4, <3>1
  <2> QED BY <1>8, <2>2
<1>14. ASSUME NEW p \in Slots, p # a, Listens(a)'
       PROVE  /\ Ordered(Waiting(p, a)', phase'[a])
              /\ Listens(p) => Good(p, a)'
  <2>1. Among(x, Current(p, a, life[a])) = x
    BY <1>4
  <2>2. Listens(a)
    BY <1>11, <1>14
  <2>3. phase[a] # "joined"
    BY <1>8
  <2>4. Asks(p, a) => Asks(p, a)'
    <3>1. Line(a, p)' = Line(a, p)
      BY <1>1, <1>2, <1>6, <1>14, SenderLine
    <3> QED BY <1>8, <1>14, <3>1 DEF Asks
  <2> QED BY <1>1, <1>2, <1>4, <1>8, <1>13, <1>14, <2>1, <2>2, <2>3, <2>4, SentGood
<1>15. ASSUME NEW p \in Slots, p # a, Listens(p), Listens(a)'
       PROVE  Good(a, p)'
  <2>1. Good(a, p) /\ phase[p] # "out"
    BY <1>11, <1>15 DEF MInv, Listens
  <2>2. /\ LineOf(buffer'[a], inbox'[a], up'[p], a, p, life[p]) = Line(a, p) \o <<>>
        /\ <<>> \in Seq(MessagesType) /\ Line(a, p) \o <<>> = Line(a, p)
    <3>1. buffer'[a] = buffer[a] /\ inbox'[a] = inbox[a] /\ up'[p] = up[p] /\ life'[p] = life[p]
      BY <1>1, <1>6, <1>15
    <3> QED BY <1>2, <1>15, <3>1, SenderLine
  <2>3. Ordered(Line(a, p) \o <<>>, phase'[p])
    <3>1. Ordered(Line(a, p), phase'[p])
      BY <1>8, <1>15, <2>1 DEF Good
    <3> QED BY <2>2, <3>1, Zenon
  <2>4. Asks(a, p) => Asks(a, p)'
    <3>1. LineOf(buffer[p], inbox'[p], up'[a], p, a, life[a]) =
              Line(p, a) \o Among(x, Current(p, a, life[a]))
      BY <1>1, <1>2, <1>3, <1>4, <1>15, <2>1, SentLine
    <3>2. Line(p, a)' = Line(p, a) \o x
      BY <1>1, <1>4, <3>1 DEF Line
    <3>3. Line(p, a) \in Seq(MessagesType)
      BY <1>2, LineItems
    <3>4. Has(Line(p, a), Asking) => Has(Line(p, a) \o x, Asking)
      BY <1>12, <3>3, HasConcat
    <3>5. Has(Line(p, a), Asking) => Has(Line(p, a), Asking)'
      BY <3>2, <3>4
    <3> QED BY <1>8, <3>5 DEF Asks
  <2>5. Keeps(buffer[a], playerLeft[a], inbox[a], buffer'[a], playerLeft'[a], inbox'[a],
              a, p, life[p])
    BY <1>1, <1>6, KeepsSame
  <2> QED BY <1>1, <1>2, <1>8, <1>15, <2>1, <2>2, <2>3, <2>4, <2>5, PairStep
<1> QED BY <1>2, <1>7, <1>9, <1>10, <1>14, <1>15, MStep

--------------------------------------------------------------------------------
(* What passes the server, and who comes and goes.                             *)

LEMMA SameGood ==
    ASSUME Typed, NEW p \in Slots, NEW q \in Slots, Good(p, q), life'[q] = life[q],
           phase'[q] = phase[q],
           LineOf(buffer'[p], inbox'[p], up'[q], p, q, life[q]) = Line(p, q),
           Keeps(buffer[p], playerLeft[p], inbox[p], buffer'[p], playerLeft'[p], inbox'[p],
                 p, q, life[q]),
           offset'[p] = offset[p], packed'[p] = packed[p], character'[p] = character[p],
           plractive'[p] = plractive[p], Asks(p, q) => Asks(p, q)'
    PROVE  Good(p, q)'
<1>1. Line(p, q) \in Seq(MessagesType)
  BY LineItems
<1>2. <<>> \in Seq(MessagesType) /\ Line(p, q) \o <<>> = Line(p, q)
  BY <1>1, MessagesConcat, Zenon
<1>3. LineOf(buffer'[p], inbox'[p], up'[q], p, q, life[q]) = Line(p, q) \o <<>>
  BY <1>2, Zenon
<1>4. Ordered(Line(p, q) \o <<>>, phase'[q])
  <2>1. Ordered(Line(p, q), phase'[q])
    BY DEF Good
  <2> QED BY <1>2, <2>1, Zenon
<1> QED BY <1>2, <1>3, <1>4, PairStep

LEMMA RelayLine ==
    ASSUME Typed, Ages, NEW a \in Slots, NEW h, NEW t, h \in UpBorn(a, life[a]), h \in MessagesType,
           t \in Seq(Packets), Begins(up[a], h, t), NEW p \in Slots, p # a, p \in connections,
           inbox' = Delivered(inbox, a, <<h>>)
    PROVE  /\ LineOf(buffer[p], inbox'[p], t, p, a, life[a]) = Line(p, a)
           /\ Keeps(buffer[p], playerLeft[p], inbox[p], buffer[p], playerLeft[p], inbox'[p],
                    p, a, life[a])
<1> DEFINE one == <<h>>
           more == Among(one, To(p))
           O == Outdated(p, a, life[a])
<1>1. h.src = a /\ h.life = life[a] /\ h \in Packets
  BY DEF UpBorn, Of
<1>2. one \in Seq(Packets) /\ one \in Seq({h})
  BY <1>1
<1>3. inbox'[p] = inbox[p] \o more
  BY DEF Delivered
<1>4. {h} \cap O \cap To(p) = {}
  BY <1>1, PacketTypes DEF Outdated, Current
<1>5. ~ Has(more, O)
  <2> HIDE DEF one, O
  <2> QED BY <1>2, <1>4, AmongHas
<1>6. more \in Seq(Items)
  <2>1. more \in Seq(Packets)
    <3> HIDE DEF one
    <3> QED BY <1>2, AmongType
  <2> HIDE DEF more
  <2> QED BY <2>1, ItemTypes, SeqMonotonicHere
<1>7. buffer[p] \in Seq(Items) /\ inbox[p] \in Seq(Packets) /\ inbox[p] \in Seq(Items)
  BY LineItems
<1>8. up[a] = one \o t
  BY DEF Begins
<1> HIDE DEF one
<1>9. Growing(buffer[p], inbox[p], t, one, p, a, life[a])
  BY <1>2, <1>7, LineGrows
<1>10. LineOf(buffer[p], inbox'[p], t, p, a, life[a]) = Line(p, a)
  BY <1>3, <1>8, <1>9, Zenon DEF Growing, Line
<1> HIDE DEF more, O
<1>11. Keeps(buffer[p], playerLeft[p], inbox[p], buffer[p], playerLeft[p], inbox[p] \o more,
             p, a, life[a])
  BY <1>5, <1>6, <1>7, KeepsMore DEF O
<1> QED BY <1>3, <1>10, <1>11, Zenon

LEMMA WaitingTail ==
    ASSUME NEW h \in Items, NEW t \in Seq(Items), NEW s, Begins(s, h, t), NEW p, NEW q, NEW l, NEW ph,
           Ordered(Among(s, Current(p, q, l)), ph)
    PROVE  Ordered(Among(t, Current(p, q, l)), ph)
<1> DEFINE C == Current(p, q, l)
           one == <<h>>
           T == Among(t, C)
<1>1. one \in Seq(Items) /\ s = one \o t
  BY DEF Begins
<1>2. Among(one, C) = IF h \in C THEN <<h>> ELSE <<>>
  BY CurrentOne
<1>3. T \in Seq(MessagesType)
  BY CurrentType
<1>4. h \in C => h \in MessagesType
  BY Parted
<1> HIDE DEF one, C
<1>5. Among(s, C) = Among(one, C) \o T
  <2>1. \A x, y \in Seq(Items) : Among(x \o y, C) = Among(x, C) \o Among(y, C)
    BY CurrentConcat DEF C
  <2> QED BY <1>1, <2>1, Zenon
<1> HIDE DEF T
<1>6. CASE h \in C
  <2>1. Ordered(<<h>> \o T, ph)
    BY <1>2, <1>5, <1>6, Zenon DEF C
  <2>2. Ordered(T, ph)
    BY <1>3, <1>4, <1>6, <2>1, OrderedTail
  <2> QED BY <2>2 DEF T, C
<1>7. CASE h \notin C
  <2>1. <<>> \o T = T
    BY <1>3, MessagesConcat, Zenon
  <2>2. Ordered(T, ph)
    BY <1>2, <1>5, <1>7, <2>1, Zenon DEF C
  <2> QED BY <2>2 DEF T, C
<1> QED BY <1>6, <1>7

LEMMA RelayLearns ==
    ASSUME TInv, MInv, NEW a \in Slots, Relay(a)
    PROVE  MInv'
<1> DEFINE h == Head(up[a])
           t == Tail(up[a])
<1>1. /\ a \in connections /\ up[a] # <<>>
      /\ inbox' = Delivered(inbox, a, <<h>>)
      /\ UNCHANGED <<phase, life, buffer, offset, packed, character, plractive, playerLeft>>
      /\ \/ IsDisconnect(h) /\ up' = [up EXCEPT ![a] = <<>>]
         \/ ~ IsDisconnect(h) /\ up' = [up EXCEPT ![a] = t]
  BY DEF Relay, programVars, leaveVars
<1>2. Boxes(inbox) /\ Ups(up) /\ Typed /\ Ages
  BY DEF TInv, Typed, MInv
<1>3. /\ h \in UpBorn(a, life[a]) /\ t \in Seq(UpBorn(a, life[a])) /\ Begins(up[a], h, t)
      /\ t \in Seq(Packets) /\ h \in Packets /\ h \in Of(a)
  <2>1. up[a] \in Seq(UpBorn(a, life[a])) /\ up[a] \in Seq(Packets)
    BY <1>2 DEF Ups, Ages
  <2>2. h \in UpBorn(a, life[a]) /\ t \in Seq(UpBorn(a, life[a])) /\ up[a] = <<h>> \o t
    <3>1. \A s \in Seq(UpBorn(a, life[a])) : s # <<>> =>
              /\ Head(s) \in UpBorn(a, life[a]) /\ Tail(s) \in Seq(UpBorn(a, life[a]))
              /\ s = <<Head(s)>> \o Tail(s)
      BY TypeParts, Zenon
    <3> QED BY <1>1, <2>1, <3>1, Zenon
  <2>3. t \in Seq(Packets) /\ h \in Packets
    BY <1>1, <2>1
  <2> QED BY <2>2, <2>3 DEF Begins, UpBorn
<1>4. /\ \A q \in Slots : q # a => up'[q] = up[q]
      /\ up'[a] \in {t, <<>>} /\ (~ IsDisconnect(h) => up'[a] = t)
  BY <1>1, <1>2 DEF Ups
<1>5. phase[a] # "out" => h \in MessagesType
  <2>1. phase[a] # "out" => up[a] \in Seq(MessagesType)
    BY DEF TInv, Standing
  <2> QED BY <1>1, <2>1
<1>6. inbox'[a] = inbox[a]
  BY <1>1 DEF Delivered
<1> HIDE DEF h, t
<1>7. h \in Born(life) /\ <<h>> \in Seq(Born(life)) /\ <<>> \in Seq(UpBorn(a, life[a]))
  BY <1>2, <1>3, AgedParts
<1>8. Ages'
  <2>1. ASSUME NEW q \in Slots PROVE inbox'[q] \in Seq(Born(life))
    <3>1. inbox[q] \in Seq(Born(life))
      BY <1>2 DEF Ages, Aged
    <3>2. Among(<<h>>, To(q)) \in Seq(Born(life))
      BY <1>7, AmongType
    <3>3. inbox'[q] = inbox[q] \/ inbox'[q] = inbox[q] \o Among(<<h>>, To(q))
      BY <1>1 DEF Delivered
    <3>4. \A r, s \in Seq(Born(life)) : r \o s \in Seq(Born(life))
      BY TypeParts, Zenon
    <3>5. inbox[q] \o Among(<<h>>, To(q)) \in Seq(Born(life))
      BY <3>1, <3>2, <3>4, Zenon
    <3> QED BY <3>1, <3>3, <3>5, Zenon
  <2>2. \A q \in Slots : up'[q] \in Seq(UpBorn(q, life[q]))
    BY <1>2, <1>3, <1>4, <1>7 DEF Ages
  <2> QED BY <1>1, <1>2, <2>1, <2>2 DEF Ages, Aged
<1>9. Apart(a)
  <2>1. ASSUME NEW p \in Slots, p # a, NEW q \in Slots, q # a PROVE Grown(p, q)
    <3>1. inbox'[p] = Delivered(inbox, a, <<h>>)[p]
      BY <1>1
    <3> QED BY <1>2, <1>3, <2>1, <3>1, RelayedGrown
  <2> QED BY <1>1, <1>4, <2>1 DEF Apart
<1>10. KnowsItself(a)'
  BY <1>1 DEF KnowsItself, MInv
<1>11. ASSUME Listens(a) PROVE h \in MessagesType /\ ~ IsDisconnect(h) /\ up'[a] = t
  <2>1. h \in MessagesType
    BY <1>5, <1>11 DEF Listens
  <2> QED BY <1>4, <2>1, PacketTypes
<1>12. ASSUME Listens(a), NEW p \in Slots, p # a PROVE Ordered(Waiting(p, a)', phase'[a])
  <2>1. Ordered(Among(up[a], Current(p, a, life[a])), phase[a])
    BY <1>12 DEF MInv, Waiting
  <2>2. t \in Seq(Items) /\ h \in Items
    BY <1>3, ItemTypes, SeqMonotonicHere
  <2>3. Ordered(Among(t, Current(p, a, life[a])), phase[a])
    BY <1>3, <2>1, <2>2, WaitingTail
  <2> QED BY <1>1, <1>11, <1>12, <2>3 DEF Waiting
<1>13. ASSUME Listens(a), NEW p \in Slots, p # a, Listens(p) PROVE Good(p, a)' /\ Good(a, p)'
  <2>1. Good(p, a) /\ Good(a, p) /\ p \in connections
    BY <1>13 DEF MInv, Listens, TInv, Standing
  <2>2. /\ LineOf(buffer[p], inbox'[p], t, p, a, life[a]) = Line(p, a)
        /\ Keeps(buffer[p], playerLeft[p], inbox[p], buffer[p], playerLeft[p], inbox'[p],
                 p, a, life[a])
    BY <1>1, <1>2, <1>3, <1>11, <1>13, <2>1, RelayLine
  <2>3. Line(p, a)' = Line(p, a) /\ Line(a, p)' = Line(a, p)
    BY <1>1, <1>4, <1>6, <1>11, <1>13, <2>2 DEF Line
  <2>4. (Asks(p, a) => Asks(p, a)') /\ (Asks(a, p) => Asks(a, p)')
    BY <1>1, <2>3 DEF Asks
  <2>5. Good(p, a)'
    BY <1>1, <1>2, <1>11, <1>13, <2>1, <2>2, <2>4, SameGood
  <2>6. LineOf(buffer'[a], inbox'[a], up'[p], a, p, life[p]) = Line(a, p)
    BY <1>1, <1>4, <1>6, <1>13 DEF Line
  <2>7. Keeps(buffer[a], playerLeft[a], inbox[a], buffer'[a], playerLeft'[a], inbox'[a], a, p, life[p])
    BY <1>1, <1>6, KeepsSame
  <2>8. Good(a, p)'
    BY <1>1, <1>2, <2>1, <2>4, <2>6, <2>7, SameGood
  <2> QED BY <2>5, <2>8
<1>14. Listens(a)' <=> Listens(a)
  BY <1>1 DEF Listens
<1> QED BY <1>2, <1>8, <1>9, <1>10, <1>12, <1>13, <1>14, MStep

LEMMA JoinLearns ==
    ASSUME TInv, MInv, NEW a \in Slots, Join(a)
    PROVE  MInv'
<1>1. /\ phase[a] = "out" /\ a \notin connections
      /\ phase' = [phase EXCEPT ![a] = "joined"]
      /\ life' = [life EXCEPT ![a] = life[a] + 1]
      /\ inbox' = [inbox EXCEPT ![a] = <<>>]
      /\ UNCHANGED <<up, buffer, offset, packed, character, plractive, playerLeft>>
  BY DEF Join, programVars, leaveVars
<1>2. /\ Typed /\ Boxes(inbox) /\ phase \in [Slots -> Phases] /\ life \in [Slots -> 0 .. MaxLives]
      /\ Ages /\ up[a] = <<>> /\ buffer[a] = <<>> /\ playerLeft[a] = {}
  BY <1>1 DEF TInv, Typed, Standing, MInv
<1>3. /\ phase'[a] = "joined" /\ life'[a] = life[a] + 1 /\ inbox'[a] = <<>>
      /\ \A p \in Slots : p # a => phase'[p] = phase[p] /\ life'[p] = life[p] /\ inbox'[p] = inbox[p]
  BY <1>1, <1>2 DEF Boxes
<1>4. \A q \in Slots : life[q] \in Nat
  BY <1>2, Constants
<1>5. Born(life) \subseteq Born(life')
  <2>1. \A q \in Slots : life[q] <= life'[q]
    BY <1>3, <1>4
  <2> SUFFICES ASSUME NEW m \in Born(life), m \in MessagesType PROVE m.life <= life'[m.src]
    BY DEF Born
  <2>2. m.life <= life[m.src] /\ m.src \in Slots /\ m.life \in Nat
    BY Constants DEF Born, MessagesType, Lives
  <2>3. life[m.src] <= life'[m.src] /\ life'[m.src] \in Nat
    BY <1>3, <1>4, <2>2
  <2> QED BY <1>4, <2>2, <2>3
<1>6. Ages'
  <2>1. \A S : <<>> \in Seq(S)
    OBVIOUS
  <2>2. \A q \in Slots : up'[q] \in Seq(UpBorn(q, life'[q]))
    BY <1>1, <1>2, <1>3, <2>1 DEF Ages
  <2>3. Seq(Born(life)) \subseteq Seq(Born(life'))
    BY <1>5, SeqMonotonicHere
  <2>4. \A q \in Slots : inbox[q] \in Seq(Born(life)) /\ buffer[q] \in Seq(Born(life))
    BY <1>2 DEF Ages, Aged
  <2>5. \A q \in Slots : inbox'[q] \in Seq(Born(life')) /\ buffer'[q] \in Seq(Born(life'))
    <3> SUFFICES ASSUME NEW q \in Slots
                 PROVE  inbox'[q] \in Seq(Born(life')) /\ buffer'[q] \in Seq(Born(life'))
      OBVIOUS
    <3>1. inbox[q] \in Seq(Born(life')) /\ buffer[q] \in Seq(Born(life'))
      BY <2>3, <2>4
    <3>2. inbox'[q] = inbox[q] \/ inbox'[q] = <<>>
      BY <1>3
    <3> QED BY <1>1, <2>1, <3>1, <3>2, Zenon
  <2> QED BY <2>2, <2>5 DEF Ages, Aged
<1>7. Apart(a)
  BY <1>1, <1>2, <1>3, SameInbox DEF Apart
<1>8. KnowsItself(a)'
  BY <1>3 DEF KnowsItself
<1>9. \A p \in Slots : Ordered(Waiting(p, a)', phase'[a])
  <2>1. \A p \in Slots : Waiting(p, a)' = <<>>
    BY <1>1, <1>2, AmongEmpty DEF Waiting
  <2> QED BY <2>1, OrderedEmpty
<1>10. <<>> \o <<>> = <<>>
  OBVIOUS
<1>11. ASSUME NEW p \in Slots, p # a, Listens(p) PROVE Good(p, a)'
  <2> DEFINE l == life[a] + 1
  <2>1. \A s \in Seq(Born(life)) : s \in Seq(Items) /\ ~ Has(s, Current(p, a, l))
    <3>1. Born(life) \cap Current(p, a, l) = {}
      <4> SUFFICES ASSUME NEW m \in Born(life), m \in Current(p, a, l) PROVE FALSE
        OBVIOUS
      <4>1. m.src = a /\ m.life = l /\ m \in MessagesType
        BY Parted DEF Current
      <4> QED BY <1>4, <4>1 DEF Born
    <3> HIDE DEF l
    <3>2. Born(life) \subseteq Items
      BY DEF Born
    <3>3. Seq(Born(life)) \subseteq Seq(Items)
      BY <3>2, SeqMonotonicHere
    <3> QED BY <3>1, <3>3 DEF Has
  <2>2. buffer[p] \in Seq(Born(life)) /\ inbox[p] \in Seq(Born(life))
    BY <1>2 DEF Ages, Aged
  <2>3. /\ ~ Has(buffer[p], Current(p, a, l)) /\ ~ Has(inbox[p], Current(p, a, l))
        /\ Among(buffer[p], Current(p, a, l)) = <<>> /\ Among(inbox[p], Current(p, a, l)) = <<>>
    <3> HIDE DEF l
    <3> QED BY <2>1, <2>2, AmongAbsent
  <2>4. LineOf(buffer[p], inbox[p], <<>>, p, a, l) = <<>>
    <3>1. Among(<<>>, Current(p, a, l)) = <<>>
      BY AmongEmpty
    <3> QED BY <1>10, <2>3, <3>1, Zenon DEF LineOf
  <2>5. Line(p, a)' = <<>>
    BY <1>1, <1>2, <1>3, <1>11, <2>4 DEF Line
  <2>6. OldFirst(p, a)'
    <3>1. Settled(buffer[p], playerLeft[p], inbox[p], p, a, l)
      BY <2>3 DEF Settled, Before, Has
    <3> QED BY <1>1, <1>3, <1>11, <3>1 DEF OldFirst
  <2>7. Ordered(Line(p, a), phase[a])'
    BY <2>5, OrderedEmpty
  <2>8. Learns(p, a)'
    BY <1>3 DEF Learns, Learnt
  <2> QED BY <2>6, <2>7, <2>8 DEF Good
<1>12. ASSUME NEW p \in Slots, p # a, Listens(p) PROVE Good(a, p)'
  <2>1. Line(a, p)' = LineOf(<<>>, <<>>, up[p], a, p, life[p])
    BY <1>1, <1>2, <1>3, <1>12 DEF Line
  <2>2. LineOf(<<>>, <<>>, up[p], a, p, life[p]) = Waiting(a, p)
    <3>1. Among(<<>>, Current(a, p, life[p])) = <<>>
      BY AmongEmpty
    <3>2. Waiting(a, p) \in Seq(MessagesType)
      BY <1>2, LineItems
    <3>3. <<>> \o (<<>> \o Waiting(a, p)) = Waiting(a, p)
      BY <3>2, MessagesConcat, Zenon
    <3> QED BY <3>1, <3>3, Zenon DEF LineOf, Waiting
  <2>3. Ordered(Waiting(a, p), phase[p])
    BY <1>12 DEF MInv
  <2>4. Ordered(Line(a, p), phase[p])'
    BY <1>3, <1>12, <2>1, <2>2, <2>3
  <2>5. OldFirst(a, p)'
    <3>1. Settled(<<>>, {}, <<>>, a, p, life[p])
      BY HasOne DEF Settled
    <3> QED BY <1>1, <1>2, <1>3, <1>12, <3>1 DEF OldFirst
  <2>6. Asks(a, p)'
    BY <1>3 DEF Asks
  <2> QED BY <2>4, <2>5, <2>6 DEF Good
<1> QED BY <1>2, <1>6, <1>7, <1>8, <1>9, <1>11, <1>12, MStep

LEMMA EndLearns ==
    ASSUME TInv, MInv, NEW a \in Slots, Leave(a) \/ Crash(a)
    PROVE  MInv'
<1> DEFINE left == Event("PT_DISCONNECT", a)
<1>1. /\ phase' = [phase EXCEPT ![a] = "out"]
      /\ buffer' = [buffer EXCEPT ![a] = <<>>]
      /\ offset' = [offset EXCEPT ![a] = [q \in Slots |-> 0]]
      /\ packed' = [packed EXCEPT ![a] = Nobody]
      /\ character' = [character EXCEPT ![a] = Nobody]
      /\ plractive' = [plractive EXCEPT ![a] = {}]
      /\ playerLeft' = [playerLeft EXCEPT ![a] = {}]
      /\ UNCHANGED life
  BY DEF Leave, Crash, Ended
<1>2. /\ Typed /\ Boxes(inbox) /\ Ups(up) /\ Buffers(buffer) /\ phase \in [Slots -> Phases]
      /\ playerLeft \in [Slots -> SUBSET Slots] /\ Programs /\ Ages
  BY DEF TInv, Typed, MInv
<1>3. \A p \in Slots : p # a =>
          /\ phase'[p] = phase[p] /\ buffer'[p] = buffer[p] /\ plractive'[p] = plractive[p]
          /\ playerLeft'[p] = playerLeft[p]
          /\ offset'[p] = offset[p] /\ packed'[p] = packed[p] /\ character'[p] = character[p]
  BY <1>1, <1>2 DEF Buffers, Programs
<1>4. phase'[a] = "out" /\ buffer'[a] = <<>>
  BY <1>1, <1>2 DEF Buffers
<1>5. /\ left \in Packets /\ left \in Of(a) /\ left \in Born(life) /\ left \in UpBorn(a, life[a])
  <2>1. left \in Packets /\ left.src = a /\ left \notin MessagesType /\ left \in Items
    BY PacketTypes, ItemTypes
  <2> QED BY <2>1 DEF Of, UpBorn, Born
<1>6. /\ \A q \in Slots : q # a => up'[q] = up[q]
      /\ up'[a] = Append(up[a], left) \/ up'[a] = <<>>
  BY <1>2 DEF Leave, Crash, Ups
<1> DEFINE full == Delivered(inbox, a, <<left>>)
<1>7. /\ \A p \in Slots : p # a => inbox'[p] = inbox[p] \/ inbox'[p] = full[p]
      /\ inbox'[a] = <<>>
  <2>1. Leave(a) => inbox'[a] = <<>> /\ \A p \in Slots : p # a => inbox'[p] = inbox[p]
    BY <1>2 DEF Leave, Boxes
  <2>2. Crash(a) => inbox' = [full EXCEPT ![a] = <<>>]
    BY DEF Crash
  <2>3. full = [p \in Slots |-> full[p]]
    BY DEF Delivered
  <2> HIDE DEF full
  <2>4. Crash(a) => inbox'[a] = <<>> /\ \A p \in Slots : p # a => inbox'[p] = full[p]
    BY <2>2, <2>3
  <2> QED BY <2>1, <2>4
<1>8. \A p \in Slots : full[p] = inbox[p] \/ full[p] = inbox[p] \o Among(<<left>>, To(p))
  BY DEF Delivered
<1>9. Apart(a)
  <2>1. ASSUME NEW p \in Slots, p # a, NEW q \in Slots, q # a PROVE Grown(p, q)
    <3>1. inbox'[p] = inbox[p] \/ inbox'[p] = full[p]
      BY <1>7, <2>1
    <3> HIDE DEF left
    <3> QED BY <1>2, <1>5, <2>1, <3>1, SameInbox, RelayedGrown
  <2> QED BY <1>1, <1>3, <1>6, <2>1 DEF Apart
<1> HIDE DEF left, full
<1>10. Ages'
  <2>1. \A S : <<>> \in Seq(S)
    OBVIOUS
  <2>2. ASSUME NEW q \in Slots PROVE inbox'[q] \in Seq(Born(life))
    <3>1. inbox[q] \in Seq(Born(life))
      BY <1>2 DEF Ages, Aged
    <3>2. Among(<<left>>, To(q)) \in Seq(Born(life))
      <4>1. <<left>> \in Seq(Born(life))
        BY <1>5
      <4> QED BY <4>1, AmongType
    <3>3. \A r, s \in Seq(Born(life)) : r \o s \in Seq(Born(life))
      BY TypeParts, Zenon
    <3>4. inbox[q] \o Among(<<left>>, To(q)) \in Seq(Born(life))
      BY <3>1, <3>2, <3>3, Zenon
    <3>5. \/ inbox'[q] = inbox[q] \/ inbox'[q] = <<>>
          \/ inbox'[q] = inbox[q] \o Among(<<left>>, To(q))
      BY <1>7, <1>8
    <3> QED BY <2>1, <3>1, <3>4, <3>5, Zenon
  <2>3. \A q \in Slots : up'[q] \in Seq(UpBorn(q, life[q]))
    <3>1. \A q \in Slots : up[q] \in Seq(UpBorn(q, life[q]))
      BY <1>2 DEF Ages
    <3>2. Append(up[a], left) \in Seq(UpBorn(a, life[a]))
      BY <1>5, <3>1
    <3> QED BY <1>6, <2>1, <3>1, <3>2
  <2>4. \A q \in Slots : buffer'[q] \in Seq(Born(life))
    <3>1. \A q \in Slots : buffer[q] \in Seq(Born(life))
      BY <1>2 DEF Ages, Aged
    <3> QED BY <1>3, <1>4, <2>1, <3>1
  <2> QED BY <1>1, <2>2, <2>3, <2>4 DEF Ages, Aged
<1>11. KnowsItself(a)' /\ ~ Listens(a)'
  BY <1>4 DEF KnowsItself, Listens
<1> QED BY <1>2, <1>9, <1>10, <1>11, MStep

--------------------------------------------------------------------------------
(* A program reads a message.                                                  *)

LEMMA ParseTook ==
    ASSUME Programs, NEW a \in Slots, NEW m \in MessagesType, NEW boxes, ParseCmd(a, m, boxes)
    PROVE  /\ m.src # a => Took(m, offset[a][m.src], packed[a][m.src], character[a][m.src],
                                plractive[a], offset'[a][m.src], packed'[a][m.src],
                                character'[a][m.src], plractive'[a])
           /\ \A r \in Slots : r # m.src /\ r \in plractive[a] => r \in plractive'[a]
<1> DEFINE q == m.src
           pack == [packed[a][q] EXCEPT ![m.chunk] = m.life]
           ignored == q = a \/ NextChunk(a, m) # m.chunk
<1>1. q \in Slots /\ m.chunk \in 0 .. Chunks - 1
  BY DEF MessagesType
<1>2. CASE m.type \in InfoCommands
  <2>1. RecvPlrInfo(a, m, boxes)
    BY <1>2 DEF ParseCmd
  <2>2. /\ q # a => offset' = [offset EXCEPT ![a][q] = IF ignored THEN 0 ELSE NextOffset(m.chunk)]
        /\ packed' = IF ignored THEN packed ELSE [packed EXCEPT ![a][q] = pack]
        /\ IF ~ ignored /\ m.chunk = Chunks - 1
           THEN UnPack(a, q, pack, m.type = "CMD_ACK_PLRINFO")
           ELSE UNCHANGED <<character, plractive>>
    BY <2>1 DEF RecvPlrInfo
  <2>3. q # a => (ignored <=> m.chunk \notin {0, offset[a][q]})
    BY <1>1 DEF NextChunk
  <2>4. q # a => offset'[a][q] = IF ignored THEN 0 ELSE NextOffset(m.chunk)
    <3> HIDE DEF ignored, q
    <3> QED BY <1>1, <2>2 DEF Programs
  <2>5. ~ ignored => packed'[a][q] = pack
    <3> HIDE DEF ignored, pack, q
    <3> QED BY <1>1, <2>2 DEF Programs
  <2>6. CASE ~ ignored /\ m.chunk = Chunks - 1
    <3>1. UnPack(a, q, pack, m.type = "CMD_ACK_PLRINFO")
      BY <2>2, <2>6
    <3> HIDE DEF pack, q, ignored
    <3>2. /\ character' = [character EXCEPT ![a][q] = pack]
          /\ plractive' = [plractive EXCEPT ![a] = IF m.type = "CMD_ACK_PLRINFO"
                                                   THEN plractive[a] \cup {q} ELSE plractive[a] \ {q}]
      BY <3>1 DEF UnPack
    <3>3. /\ character'[a][q] = pack
          /\ m.type = "CMD_ACK_PLRINFO" => q \in plractive'[a]
          /\ \A r \in Slots : r # q /\ r \in plractive[a] => r \in plractive'[a]
      BY <1>1, <3>2 DEF Programs
    <3>4. q # a => Took(m, offset[a][q], packed[a][q], character[a][q], plractive[a],
                        offset'[a][q], packed'[a][q], character'[a][q], plractive'[a])
      BY <1>2, <2>3, <2>4, <2>5, <2>6, <3>3 DEF Took, q, pack
    <3> QED BY <3>3, <3>4 DEF q
  <2>7. CASE ~ (~ ignored /\ m.chunk = Chunks - 1)
    <3>1. character' = character /\ plractive' = plractive
      BY <2>2, <2>7
    <3>2. q # a => Took(m, offset[a][q], packed[a][q], character[a][q], plractive[a],
                        offset'[a][q], packed'[a][q], character'[a][q], plractive'[a])
      <4> HIDE DEF ignored
      <4> QED BY <1>2, <2>3, <2>4, <2>5, <2>7, <3>1 DEF Took
    <3> QED BY <3>1, <3>2
  <2> QED BY <2>6, <2>7
<1>3. CASE m.type \notin InfoCommands
  <2>1. /\ offset' = offset /\ packed' = packed /\ character' = character
        /\ IF Refused(a, m) THEN plractive' = plractive ELSE OnPlayerJoinLevel(a, q)
    BY <1>3 DEF ParseCmd
  <2>2. Refused(a, m) <=> offset[a][q] # 0
    BY <1>3 DEF Refused
  <2>3. /\ plractive[a] \subseteq plractive'[a]
        /\ offset[a][q] = 0 /\ character[a][q] # Blank => q \in plractive'[a]
    BY <1>1, <2>1, <2>2 DEF OnPlayerJoinLevel, IsValid, Programs
  <2> QED BY <1>3, <2>1, <2>3 DEF Took
<1> QED BY <1>2, <1>3

LEMMA ReadsTook ==
    ASSUME TKInv, NEW a \in Slots, NEW m, NEW boxes, Reads(a, m, boxes)
    PROVE  /\ m.src # a => Took(m, offset[a][m.src], packed[a][m.src], character[a][m.src],
                                plractive[a], offset'[a][m.src], packed'[a][m.src],
                                character'[a][m.src], plractive'[a])
           /\ \A r \in Slots : r # m.src /\ r \in plractive[a] => r \in plractive'[a]
<1>1. m \in MessagesType /\ Programs
  BY ReadsTypes DEF TKInv, TInv, Typed
<1>2. \/ ParseCmd(a, m, boxes)
      \/ /\ ~ IsValid(a, m.src) /\ m.type \notin InfoCommands
         /\ UNCHANGED <<offset, packed, character, plractive>>
  BY DEF Reads, ReplayMessage, HandleMessage
<1>3. CASE ParseCmd(a, m, boxes)
  BY <1>1, <1>3, ParseTook
<1>4. CASE /\ ~ IsValid(a, m.src) /\ m.type \notin InfoCommands
           /\ UNCHANGED <<offset, packed, character, plractive>>
  BY <1>4 DEF Took, IsValid
<1> QED BY <1>2, <1>3, <1>4

\* Who asks is answered.
LEMMA ReadsSends ==
    ASSUME TKInv, NEW a \in Slots, NEW m, NEW boxes, Reads(a, m, boxes)
    PROVE  \E messages \in Seq(Present(a)) :
               /\ Sends(a, messages, boxes)
               /\ messages = <<>> \/ messages = Info("CMD_ACK_PLRINFO", a, m.src)
               /\ m \in Asking /\ m.src # a => messages = Info("CMD_ACK_PLRINFO", a, m.src)
<1> DEFINE ack == Info("CMD_ACK_PLRINFO", a, m.src)
<1>1. m \in MessagesType /\ Ups(up) /\ Boxes(boxes) /\ life[a] \in Lives
  BY ReadsTypes DEF TKInv, TInv, Typed
<1>2. ack \in Seq(Present(a)) /\ <<>> \in Seq(Present(a))
  <2>1. m.src \in Slots /\ "CMD_ACK_PLRINFO" \in InfoCommands
    BY <1>1 DEF MessagesType, InfoCommands
  <2> QED BY <1>1, <2>1, InfoTypes, JoinLevelMessages
<1>3. \/ m.type \in InfoCommands /\ RecvPlrInfo(a, m, boxes)
      \/ m.type \notin InfoCommands /\ inbox' = boxes /\ up' = up
  BY DEF Reads, ReplayMessage, HandleMessage, ParseCmd
<1>4. CASE m.type \in InfoCommands /\ RecvPlrInfo(a, m, boxes)
  <2> DEFINE ignored == m.src = a \/ NextChunk(a, m) # m.chunk
             sent == IF ignored THEN <<>> ELSE Answer(a, m)
  <2>1. Sends(a, sent, boxes)
    BY <1>4 DEF RecvPlrInfo
  <2>2. sent = <<>> \/ sent = ack
    <3> HIDE DEF ignored, ack
    <3> QED BY Zenon DEF Answer, ack
  <2>3. ASSUME m \in Asking, m.src # a PROVE sent = ack
    <3>1. m.type = "CMD_SEND_PLRINFO" /\ m.chunk = 0
      BY <2>3 DEF Asking, Sent, Starting
    <3>2. ~ ignored
      BY <2>3, <3>1 DEF NextChunk
    <3>3. Answer(a, m) = ack
      BY <3>1, Zenon DEF Answer
    <3> HIDE DEF ignored, ack
    <3> QED BY <3>2, <3>3, Zenon
  <2> HIDE DEF sent, ack
  <2>4. sent \in Seq(Present(a))
    BY <1>2, <2>2, Zenon
  <2> QED BY <2>1, <2>2, <2>3, <2>4, Zenon DEF ack
<1>5. CASE m.type \notin InfoCommands /\ inbox' = boxes /\ up' = up
  <2>1. Sends(a, <<>>, boxes)
    BY <1>1, <1>5, SendsNothing
  <2>2. m \notin Asking
    BY <1>5 DEF Asking, Starting
  <2> QED BY <1>2, <2>1, <2>2, Zenon
<1> QED BY <1>3, <1>4, <1>5

\* What a has of r when m is read.
Unread(a, m, r) ==
    LET line == LineOf(buffer'[a], inbox'[a], up[r], a, r, life[r])
    IN  /\ line \in Seq(MessagesType)
        /\ IF m \in Current(a, r, life[r]) THEN Begins(Line(a, r), m, line) ELSE Line(a, r) = line
        /\ Keeps(buffer[a], playerLeft[a], inbox[a], buffer'[a], playerLeft[a], inbox'[a],
                 a, r, life[r])
        /\ m \in Current(a, r, life[r]) /\ OldFirst(a, r) =>
               Past(buffer'[a], playerLeft[a], inbox'[a], a, r, life[r]) = {}
        /\ m \in Outdated(a, r, life[r]) => OldOnes(a, r) # {}

LEMMA ReadsUnread ==
    ASSUME TKInv, Ages, NEW a \in Slots, NEW m, NEW boxes, Reads(a, m, boxes), inbox'[a] = boxes[a]
    PROVE  /\ \A r \in Slots : r # a => Unread(a, m, r)
           /\ inbox'[a] \in Seq(Born(life)) /\ buffer'[a] \in Seq(Born(life))
           /\ Aged(boxes, life)
           /\ \A p \in Slots : p # a => boxes[p] = inbox[p] /\ buffer'[p] = buffer[p]
<1>1. /\ TInv /\ Typed /\ Boxes(inbox) /\ Buffers(buffer) /\ Boxes(boxes)
      /\ m \in MessagesType /\ m \in Items
  <2>1. m \in MessagesType /\ Boxes(boxes)
    BY ReadsTypes
  <2>2. m \in Items
    BY <2>1, PacketTypes, ItemTypes
  <2> QED BY <2>1, <2>2 DEF TKInv, TInv, Typed
<1>2. /\ \A p \in Slots : p # a => boxes[p] = inbox[p] /\ buffer'[p] = buffer[p]
      /\ \/ boxes = inbox /\ Begins(buffer[a], m, buffer'[a])
         \/ /\ Begins(inbox[a], m, boxes[a]) /\ buffer'[a] = <<>> /\ buffer[a] = <<>>
            /\ playerLeft[a] = {}
  <2>1. CASE ReplayMessage(a) /\ m = Head(buffer[a]) /\ boxes = inbox
    <3>1. buffer[a] # <<>> /\ buffer' = [buffer EXCEPT ![a] = Tail(buffer[a])]
      BY <2>1 DEF ReplayMessage
    <3>2. buffer[a] = <<Head(buffer[a])>> \o Tail(buffer[a])
      BY <1>1, <3>1, BufferHead
    <3>3. buffer'[a] = Tail(buffer[a]) /\ \A p \in Slots : p # a => buffer'[p] = buffer[p]
      BY <1>1, <3>1 DEF Buffers
    <3> QED BY <2>1, <3>2, <3>3 DEF Begins
  <2>2. CASE HandleMessage(a) /\ m = Head(inbox[a]) /\ boxes = [inbox EXCEPT ![a] = Tail(@)]
    <3>1. inbox[a] # <<>> /\ buffer' = buffer /\ phase[a] \in {"play", "cut"} /\ playerLeft[a] = {}
      BY <2>2 DEF HandleMessage, Plays
    <3>2. buffer[a] = <<>>
      BY <1>1, <3>1 DEF TInv, Standing
    <3>3. inbox[a] = <<Head(inbox[a])>> \o Tail(inbox[a])
      BY <1>1, <3>1, InboxHead
    <3>4. boxes[a] = Tail(inbox[a]) /\ \A p \in Slots : p # a => boxes[p] = inbox[p]
      BY <1>1, <2>2 DEF Boxes
    <3> QED BY <2>2, <3>1, <3>2, <3>3, <3>4 DEF Begins
  <2> QED BY <2>1, <2>2 DEF Reads
<1>3. \A S : \A full, t : Begins(full, m, t) /\ full \in Seq(S) /\ t \in Seq(Items) => t \in Seq(S)
  <2> SUFFICES ASSUME NEW S, NEW full, NEW t, Begins(full, m, t), full \in Seq(S), t \in Seq(Items)
               PROVE  t \in Seq(S)
    OBVIOUS
  <2>1. <<m>> \in Seq(Items) /\ <<m>> \o t \in Seq(S)
    BY <1>1 DEF Begins
  <2> QED BY <2>1, PartsType
<1>4. \A p \in Slots : /\ inbox[p] \in Seq(Born(life)) /\ buffer[p] \in Seq(Born(life))
                       /\ buffer[p] \in Seq(Items) /\ inbox[p] \in Seq(Items)
                       /\ up[p] \in Seq(Items)
  BY <1>1, LineItems DEF Ages, Aged
<1>5. buffer'[a] \in Seq(Items) /\ boxes[a] \in Seq(Items)
  <2>1. Buffers(buffer)' /\ boxes[a] \in Seq(Packets)
    BY <1>1, ReadsTypes DEF TKInv, TInv, Typed, Boxes
  <2>2. buffer'[a] \in Seq(Buffered(a))
    BY <2>1 DEF Buffers
  <2> QED BY <2>1, <2>2, ItemTypes, SeqMonotonicHere, Zenon
<1>6. buffer'[a] \in Seq(Born(life)) /\ boxes[a] \in Seq(Born(life))
  <2>1. <<>> \in Seq(Born(life))
    OBVIOUS
  <2> QED BY <1>2, <1>3, <1>4, <1>5, <2>1, Zenon
<1>7. Aged(boxes, life)
  <2> SUFFICES ASSUME NEW p \in Slots PROVE boxes[p] \in Seq(Born(life))
    BY DEF Aged
  <2> QED BY <1>2, <1>4, <1>6
<1>8. ASSUME NEW r \in Slots, r # a PROVE Unread(a, m, r)
  <2> DEFINE line == LineOf(buffer'[a], inbox'[a], up[r], a, r, life[r])
  <2>1. line \in Seq(MessagesType)
    BY <1>4, <1>5, LineType
  <2> HIDE DEF line
  <2>2. CASE boxes = inbox /\ Begins(buffer[a], m, buffer'[a])
    <3>1. ReadLine(buffer[a], m, buffer'[a], inbox[a], up[r], a, r, life[r])
      BY <1>1, <1>4, <1>5, <2>2, LineReads
    <3>2. ReadPast(buffer[a], m, buffer'[a], inbox[a], playerLeft[a], a, r, life[r])
      BY <1>1, <1>4, <1>5, <2>2, KeepsReading
    <3>3. inbox'[a] = inbox[a]
      BY <2>2
    <3>4. IF m \in Current(a, r, life[r]) THEN Begins(Line(a, r), m, line) ELSE Line(a, r) = line
      BY <3>1, <3>3, Zenon DEF ReadLine, Begins, Line, line
    <3>5. /\ Keeps(buffer[a], playerLeft[a], inbox[a], buffer'[a], playerLeft[a], inbox'[a],
                   a, r, life[r])
          /\ m \in Current(a, r, life[r]) /\ OldFirst(a, r) =>
                 Past(buffer'[a], playerLeft[a], inbox'[a], a, r, life[r]) = {}
          /\ m \in Outdated(a, r, life[r]) => OldOnes(a, r) # {}
      BY <3>2, <3>3, Zenon DEF ReadPast, OldFirst, OldOnes
    <3> QED BY <2>1, <3>4, <3>5 DEF Unread, line
  <2>3. CASE /\ Begins(inbox[a], m, boxes[a]) /\ buffer'[a] = <<>> /\ buffer[a] = <<>>
             /\ playerLeft[a] = {}
    <3>1. ReadLine(inbox[a], m, boxes[a], inbox[a], up[r], a, r, life[r])
      BY <1>1, <1>4, <1>5, <2>3, LineReads
    <3>2. ReadPast(inbox[a], m, boxes[a], inbox[a], playerLeft[a], a, r, life[r])
      BY <1>1, <1>4, <1>5, <2>3, KeepsReading
    <3>4. IF m \in Current(a, r, life[r]) THEN Begins(Line(a, r), m, line) ELSE Line(a, r) = line
      BY <2>3, <3>1, Zenon DEF ReadLine, Begins, Line, line
    <3>5. /\ Keeps(buffer[a], playerLeft[a], inbox[a], buffer'[a], playerLeft[a], inbox'[a],
                   a, r, life[r])
          /\ m \in Current(a, r, life[r]) /\ OldFirst(a, r) =>
                 Past(buffer'[a], playerLeft[a], inbox'[a], a, r, life[r]) = {}
          /\ m \in Outdated(a, r, life[r]) => OldOnes(a, r) # {}
      BY <2>3, <3>2, Zenon DEF ReadPast, OldFirst, OldOnes
    <3> QED BY <2>1, <3>4, <3>5 DEF Unread, line
  <2> QED BY <1>2, <2>2, <2>3
<1> QED BY <1>2, <1>6, <1>7, <1>8

LEMMA LearntBegins ==
    ASSUME NEW m \in MessagesType, NEW t \in Seq(MessagesType), NEW ph \in Phases \ {"out", "cut"},
           NEW q \in Slots, m.src = q, NEW l \in Lives, m.life = l,
           NEW past, NEW off \in 0 .. Chunks - 1, NEW pack \in Packs, NEW char, NEW active,
           NEW off2, NEW pack2, NEW char2, NEW active2, NEW full, Begins(full, m, t),
           Ordered(full, ph), Learnt(full, past, off, pack, char, active, ph, q, l),
           Took(m, off, pack, char, active, off2, pack2, char2, active2)
    PROVE  Learnt(t, {}, off2, pack2, char2, active2, ph, q, l)
<1>1. full = <<m>> \o t
  BY DEF Begins
<1>2. Ordered(<<m>> \o t, ph) /\ Learnt(<<m>> \o t, past, off, pack, char, active, ph, q, l)
  BY <1>1
<1> QED BY <1>2, LearntReads

\* What a learns of r, when it reads m.
LEMMA ReaderGood ==
    ASSUME TKInv, MInv, NEW a \in Slots, NEW m, NEW boxes, Reads(a, m, boxes),
           NEW r \in Slots, r # a, Listens(a), Listens(r), Unread(a, m, r),
           up'[r] = up[r], Asks(a, r) => Asks(a, r)'
    PROVE  Good(a, r)'
<1> DEFINE l == life[r]
           line == LineOf(buffer'[a], inbox'[a], up[r], a, r, l)
<1>1. /\ m \in MessagesTo(a) /\ m \in MessagesType /\ Typed /\ Programs /\ Learned(a, m.src, boxes)
      /\ UNCHANGED <<phase, life, playerLeft>>
  BY ReadsTypes DEF TKInv, TInv, Typed
<1>2. Good(a, r)
  BY DEF MInv
<1>3. /\ line \in Seq(MessagesType)
      /\ IF m \in Current(a, r, l) THEN Begins(Line(a, r), m, line) ELSE Line(a, r) = line
      /\ Keeps(buffer[a], playerLeft[a], inbox[a], buffer'[a], playerLeft[a], inbox'[a], a, r, l)
      /\ m \in Current(a, r, l) /\ OldFirst(a, r) =>
             Past(buffer'[a], playerLeft[a], inbox'[a], a, r, l) = {}
      /\ m \in Outdated(a, r, l) => OldOnes(a, r) # {}
  BY Zenon DEF Unread
<1>4. Line(a, r)' = line /\ life'[r] = l /\ phase'[r] = phase[r] /\ playerLeft'[a] = playerLeft[a]
  BY <1>1 DEF Line
<1>5. /\ phase[r] \in Phases \ {"out", "cut"} /\ l \in Lives /\ l \in Nat
      /\ offset[a][r] \in 0 .. Chunks - 1 /\ packed[a][r] \in Packs
  <2>1. l \in Lives /\ phase[r] \in Phases
    BY DEF TKInv, TInv, Typed, Standing, Listens
  <2> QED BY <1>1, <2>1, Constants DEF Listens, Programs, Lives
<1> HIDE DEF line
<1>6. OldFirst(a, r)'
  BY <1>2, <1>3, <1>4 DEF Good, OldFirst, Keeps
<1> HIDE DEF l
<1>7. CASE m \in Current(a, r, l)
  <2>1. m.src = r /\ m.life = l
    BY <1>7 DEF Current
  <2>2. Line(a, r) = <<m>> \o line
    BY <1>3, <1>7, Zenon DEF Begins
  <2>3. Ordered(<<m>> \o line, phase[r])
    BY <1>2, <2>2, Zenon DEF Good
  <2>4. Ordered(line, phase[r])
    BY <1>1, <1>3, <2>3, OrderedTail
  <2>5. Took(m, offset[a][r], packed[a][r], character[a][r], plractive[a],
             offset'[a][r], packed'[a][r], character'[a][r], plractive'[a])
    BY <2>1, ReadsTook
  <2>6. ASSUME Learns(a, r)
        PROVE  Learnt(line, {}, offset'[a][r], packed'[a][r], character'[a][r], plractive'[a],
                      phase[r], r, l)
    <3>1. /\ Learnt(Line(a, r), OldOnes(a, r), offset[a][r], packed[a][r], character[a][r],
                    plractive[a], phase[r], r, l)
          /\ Ordered(Line(a, r), phase[r]) /\ Begins(Line(a, r), m, line)
      BY <1>2, <1>3, <1>7, <2>6 DEF Learns, Good, l
    <3>2. /\ m \in MessagesType /\ line \in Seq(MessagesType) /\ r \in Slots /\ m.src = r /\ m.life = l
          /\ phase[r] \in Phases \ {"out", "cut"} /\ l \in Lives
          /\ offset[a][r] \in 0 .. Chunks - 1 /\ packed[a][r] \in Packs
      BY <1>1, <1>3, <1>5, <2>1
    <3> DEFINE off == offset[a][r]
               pack == packed[a][r]
               char == character[a][r]
               active == plractive[a]
               off2 == offset'[a][r]
               pack2 == packed'[a][r]
               char2 == character'[a][r]
               active2 == plractive'[a]
               past == OldOnes(a, r)
               full == Line(a, r)
               ph == phase[r]
    <3>3. Took(m, off, pack, char, active, off2, pack2, char2, active2)
      BY <2>5
    <3>4. Learnt(full, past, off, pack, char, active, ph, r, l)
      BY <3>1
    <3>5. Ordered(full, ph) /\ Begins(full, m, line)
      BY <3>1
    <3>6. /\ m \in MessagesType /\ line \in Seq(MessagesType) /\ r \in Slots
          /\ m.src = r /\ m.life = l /\ ph \in Phases \ {"out", "cut"} /\ l \in Lives
          /\ off \in 0 .. Chunks - 1 /\ pack \in Packs
      BY <3>2
    <3> HIDE DEF off, pack, char, active, off2, pack2, char2, active2, past, full, ph
    <3>7. Learnt(line, {}, off2, pack2, char2, active2, ph, r, l)
      BY ONLY <3>3, <3>4, <3>5, <3>6, LearntBegins
    <3> QED BY <3>7 DEF off2, pack2, char2, active2, ph
  <2>7. Past(buffer'[a], playerLeft[a], inbox'[a], a, r, l) = {}
    BY <1>2, <1>3, <1>7 DEF Good
  <2>8. OldOnes(a, r)' = {}
    BY <1>4, <2>7 DEF OldOnes
  <2>9. Learns(a, r) => Learns(a, r)'
    BY <1>4, <2>6, <2>8 DEF Learns
  <2>10. Ordered(Line(a, r), phase[r])'
    BY <1>4, <2>4
  <2> QED BY <1>2, <1>6, <2>9, <2>10 DEF Good
<1>8. CASE m \notin Current(a, r, l)
  <2>1. Line(a, r)' = Line(a, r)
    BY <1>3, <1>4, <1>8
  <2>2. Ordered(Line(a, r), phase[r])'
    BY <1>2, <1>4, <2>1 DEF Good
  <2>3. CASE m.src = r
    <3>1. m \in Outdated(a, r, l)
      <4>1. m \in Items
        BY <1>1, PacketTypes, ItemTypes
      <4> QED BY <1>8, <2>3, <4>1 DEF Outdated, From
    <3>2. OldOnes(a, r) # {}
      BY <1>3, <3>1
    <3>3. Learns(a, r) => Learnt(Line(a, r), OldOnes(a, r)', offset'[a][r], packed'[a][r],
                                 character'[a][r], plractive'[a], phase[r], r, l)
      BY <3>2, LearntStale DEF Learns, l
    <3>4. Learns(a, r) => Learns(a, r)'
      BY <1>4, <2>1, <3>3 DEF Learns, l
    <3> QED BY <1>2, <1>6, <2>2, <3>4 DEF Good
  <2>4. CASE m.src # r
    <3>1. /\ offset'[a][r] = offset[a][r] /\ packed'[a][r] = packed[a][r]
          /\ character'[a][r] = character[a][r]
      BY <1>1, <2>4 DEF Learned
    <3>2. r \in plractive[a] => r \in plractive'[a]
      BY <2>4, ReadsTook
    <3>3. OldOnes(a, r) = {} => OldOnes(a, r)' = {}
      BY <1>3, <1>4 DEF Keeps, OldOnes, l
    <3>4. Learns(a, r) => Learns(a, r)'
      BY <1>4, <2>1, <3>1, <3>2, <3>3 DEF Learns, Learnt, l
    <3> QED BY <1>2, <1>6, <2>2, <3>4 DEF Good
  <2> QED BY <2>3, <2>4
<1> QED BY <1>7, <1>8

LEMMA ReadsLearn ==
    ASSUME TKInv, MInv, NEW a \in Slots, NEW m, NEW boxes, Reads(a, m, boxes)
    PROVE  MInv'
<1>1. /\ TInv /\ Typed /\ Boxes(boxes) /\ m \in MessagesType /\ m \in MessagesTo(a)
      /\ Learned(a, m.src, boxes) /\ m.src \in Slots
      /\ UNCHANGED <<phase, life, playerLeft>>
      /\ phase[a] \in {"replay", "play", "cut"} /\ life[a] \in Lives /\ Ages
  <2>1. m \in MessagesType
    BY ReadsTypes
  <2>2. m.src \in Slots
    BY <2>1 DEF MessagesType
  <2> QED BY <2>1, <2>2, ReadsTypes DEF TKInv, TInv, MInv
<1>2. PICK messages \in Seq(Present(a)) :
          /\ Sends(a, messages, boxes)
          /\ messages = <<>> \/ messages = Info("CMD_ACK_PLRINFO", a, m.src)
          /\ m \in Asking /\ m.src # a => messages = Info("CMD_ACK_PLRINFO", a, m.src)
  BY ReadsSends
<1>3. inbox'[a] = boxes[a]
  <2>1. a # Host => inbox' = boxes
    BY <1>2, Zenon DEF Sends
  <2>2. a = Host => inbox'[a] = boxes[a]
    <3>1. a = Host => inbox' = Delivered(boxes, a, messages)
      BY <1>2, Zenon DEF Sends
    <3> QED BY <3>1 DEF Delivered
  <2> QED BY <2>1, <2>2
<1>4. /\ \A r \in Slots : r # a => Unread(a, m, r)
      /\ buffer'[a] \in Seq(Born(life)) /\ Aged(boxes, life)
      /\ \A p \in Slots : p # a => boxes[p] = inbox[p] /\ buffer'[p] = buffer[p]
  BY <1>1, <1>3, ReadsUnread
<1>5. /\ Aged(inbox', life)
      /\ \A q \in Slots : up'[q] \in Seq(UpBorn(q, life[q])) /\ (q # a => up'[q] = up[q])
  BY <1>1, <1>2, <1>4, SentAges
<1>6. Ages'
  <2>1. Aged(buffer', life)
    BY <1>1, <1>4 DEF Ages, Aged
  <2> QED BY <1>1, <1>5, <2>1 DEF Ages, Aged
<1>7. \A p \in Slots : p # a => /\ offset'[p] = offset[p] /\ packed'[p] = packed[p]
                                /\ plractive'[p] = plractive[p] /\ character'[p] = character[p]
  BY <1>1 DEF Learned
<1>8. Apart(a)
  <2>1. PICK sent : Sendable(sent, a) /\ Sends(a, sent, boxes)
    BY <1>1 DEF Learned
  <2>2. ASSUME NEW p \in Slots, p # a, NEW q \in Slots, q # a PROVE Grown(p, q)
    BY <1>1, <1>4, <2>1, <2>2, SendsGrown
  <2> QED BY <1>1, <1>4, <1>5, <1>7, <2>2 DEF Apart
<1>9. KnowsItself(a)'
  <2>1. character'[a][a] = character[a][a]
    BY <1>1 DEF Learned
  <2> QED BY <1>1, <2>1 DEF KnowsItself, MInv
<1>10. Listens(a)' <=> Listens(a)
  BY <1>1 DEF Listens
\* The answer, as far as it is for p.
<1> DEFINE x(p) == Among(messages, Current(p, a, life[a]))
<1>11. "CMD_ACK_PLRINFO" \in InfoCommands
  BY DEF InfoCommands
<1>12. ASSUME NEW p \in Slots
       PROVE  /\ x(p) \in Seq(MessagesType) /\ Whole(x(p)) /\ ~ Has(x(p), Sent)
              /\ p = m.src /\ p # a /\ m \in Asking => Has(x(p), Starting)
  <2> DEFINE info == Info("CMD_ACK_PLRINFO", a, m.src)
  <2>1. /\ info \in Seq(Present(a)) /\ Whole(info) /\ Has(info, Starting) /\ ~ Has(info, Sent)
        /\ Among(info, Current(p, a, life[a])) =
               IF m.src \in {p, SNPLAYER_OTHERS} THEN info ELSE <<>>
    BY <1>1, <1>11, InfoTypes
  <2>2. Whole(<<>>) /\ ~ Has(<<>>, Sent) /\ Among(<<>>, Current(p, a, life[a])) = <<>>
        /\ <<>> \in Seq(MessagesType)
    BY OrderedEmpty, HasOne, AmongEmpty, MessagesConcat DEF Ordered
  <2>3. info \in Seq(MessagesType)
    <3>1. Seq(Present(a)) \subseteq Seq(MessagesType)
      BY PresentTypes, SeqMonotonicHere
    <3> HIDE DEF info
    <3> QED BY <2>1, <3>1
  <2> HIDE DEF info
  <2>4. x(p) = <<>> \/ x(p) = info
    BY <1>2, <2>1, <2>2, Zenon DEF info
  <2>5. p = m.src /\ p # a /\ m \in Asking => x(p) = info
    BY <1>2, <2>1 DEF info
  <2> HIDE DEF x
  <2> QED BY <2>1, <2>2, <2>3, <2>4, <2>5
<1>13. ASSUME NEW p \in Slots, p # a, Listens(p), Listens(a), Asks(p, a)
       PROVE  Asks(p, a)' \/ Has(x(p), Starting)
  <2> DEFINE line == LineOf(buffer'[a], inbox'[a], up[p], a, p, life[p])
  <2>1. Line(a, p)' = line
    BY <1>1, <1>5, <1>13 DEF Line
  <2>2. /\ line \in Seq(MessagesType)
        /\ IF m \in Current(a, p, life[p]) THEN Begins(Line(a, p), m, line) ELSE Line(a, p) = line
    BY <1>4, <1>13, Zenon DEF Unread
  <2> HIDE DEF line, x
  <2>3. CASE m \in Current(a, p, life[p])
    <3>1. Has(Line(a, p), Asking) => m \in Asking \/ Has(line, Asking)
      <4>1. <<m>> \in Seq(MessagesType)
        BY <1>1
      <4>2. Line(a, p) = <<m>> \o line
        BY <2>2, <2>3, Zenon DEF Begins
      <4>3. Has(<<m>> \o line, Asking) <=> m \in Asking \/ Has(line, Asking)
        BY <2>2, <4>1, HasConcat, HasOne
      <4> QED BY <4>2, <4>3, Zenon
    <3>2. m.src = p
      BY <2>3 DEF Current
    <3> QED BY <1>1, <1>12, <1>13, <2>1, <3>1, <3>2 DEF Asks
  <2>4. CASE m \notin Current(a, p, life[p])
    BY <1>1, <1>13, <2>1, <2>2, <2>4 DEF Asks
  <2> QED BY <2>3, <2>4
<1>14. ASSUME NEW p \in Slots, p # a, Listens(a)
       PROVE  /\ Ordered(Waiting(p, a)', phase'[a])
              /\ Listens(p) => Good(p, a)'
  <2>1. phase[a] # "joined" /\ phase[a] \notin {"resync", "load"} /\ phase'[a] = phase[a]
    BY <1>1
  <2>2. \A s \in Seq(MessagesType) : Ordered(s, phase[a]) => Ordered(s \o x(p), phase'[a])
    <3>1. x(p) \in Seq(MessagesType) /\ Whole(x(p)) /\ ~ Has(x(p), Sent)
      BY <1>12
    <3> HIDE DEF x
    <3> QED BY <2>1, <3>1, OrderedMore
  <2>3. Listens(p) /\ Asks(p, a) => Asks(p, a)' \/ Has(x(p), Starting)
    BY <1>13, <1>14
  <2> QED BY <1>1, <1>2, <1>4, <1>7, <1>14, <2>1, <2>2, <2>3, SentGood
<1>15. ASSUME NEW p \in Slots, p # a, Listens(p), Listens(a) PROVE Good(a, p)'
  <2>1. Asks(a, p) => Asks(a, p)'
    <3>1. phase[p] # "out" /\ phase[a] # "out"
      BY <1>15 DEF Listens
    <3>2. LineOf(buffer[p], inbox'[p], up'[a], p, a, life[a]) = Line(p, a) \o x(p)
      BY <1>1, <1>2, <1>4, <1>15, <3>1, SentLine
    <3>3. Line(p, a)' = Line(p, a) \o x(p)
      BY <1>1, <1>4, <1>15, <3>2 DEF Line
    <3>4. Line(p, a) \in Seq(MessagesType) /\ x(p) \in Seq(MessagesType)
      BY <1>1, <1>12, LineItems
    <3> HIDE DEF x
    <3>5. Has(Line(p, a), Asking) => Has(Line(p, a) \o x(p), Asking)
      BY <3>4, HasConcat
    <3>6. Has(Line(p, a), Asking) => Has(Line(p, a), Asking)'
      BY <3>3, <3>5
    <3> QED BY <1>1, <3>6 DEF Asks
  <2>2. Unread(a, m, p) /\ up'[p] = up[p]
    BY <1>4, <1>5, <1>15
  <2> QED BY <1>15, <2>1, <2>2, ReaderGood
<1> QED BY <1>1, <1>6, <1>8, <1>9, <1>10, <1>14, <1>15, MStep

--------------------------------------------------------------------------------
(* Nothing is on its way.                                                      *)

LEMMA NothingComes ==
    ASSUME NEW p \in Slots, NEW q \in Slots, buffer[p] = <<>>, inbox[p] = <<>>, up[q] = <<>>,
           playerLeft[p] = {}
    PROVE  Line(p, q) = <<>> /\ Waiting(p, q) = <<>> /\ OldFirst(p, q) /\ OldOnes(p, q) = {}
<1>1. \A A : Among(<<>>, A) = <<>>
  BY AmongEmpty
<1>2. <<>> \o <<>> = <<>>
  OBVIOUS
<1>3. Line(p, q) = <<>>
  BY <1>1, <1>2, Zenon DEF Line, LineOf
<1>4. Waiting(p, q) = <<>>
  BY <1>1, Zenon DEF Waiting
<1>5. \A A, B : ~ Has(<<>>, A) /\ Before(<<>>, A, B)
  BY HasOne
<1>6. OldFirst(p, q) /\ OldOnes(p, q) = {}
  BY <1>5 DEF OldFirst, Settled, OldOnes, Past
<1> QED BY <1>3, <1>4, <1>6

LEMMA MInvInit == Init => MInv
<1> SUFFICES ASSUME Init PROVE MInv
  OBVIOUS
<1>1. \A p \in Slots : up[p] = <<>> /\ inbox[p] = <<>> /\ buffer[p] = <<>> /\ playerLeft[p] = {}
  BY DEF Init
<1>2. Ages
  <2>1. \A S : <<>> \in Seq(S)
    OBVIOUS
  <2> QED BY <1>1, <2>1, Zenon DEF Ages, Aged
<1>3. \A p \in Members : life[p] = 1 /\ character[p] = KnownAtFirst /\ plractive[p] = Members
  BY Constants DEF Init
<1>4. \A p \in Slots : phase[p] = IF p \in Members THEN "play" ELSE "out"
  BY DEF Init
<1>5. \A q \in Members : KnownAtFirst[q] = PackOf(1)
  BY Constants DEF KnownAtFirst
<1>6. ASSUME NEW p \in Slots PROVE KnowsItself(p)
  BY <1>3, <1>4, <1>5 DEF KnowsItself
<1>7. ASSUME NEW p \in Slots, NEW q \in Slots, Listens(p), Listens(q) PROVE Good(p, q)
  <2>1. p \in Members /\ q \in Members
    BY <1>4, <1>7 DEF Listens
  <2>2. Line(p, q) = <<>> /\ OldFirst(p, q) /\ OldOnes(p, q) = {}
    BY <1>1, NothingComes
  <2>3. offset[p][q] = 0
    BY DEF Init
  <2>4. character[p][q] = PackOf(life[q]) /\ q \in plractive[p]
    BY <1>3, <1>5, <2>1
  <2>5. Learns(p, q)
    BY <2>2, <2>3, <2>4 DEF Learns, Learnt
  <2> QED BY <2>2, <2>5, OrderedEmpty DEF Good
<1>8. \A p, q \in Slots : Ordered(Waiting(p, q), phase[q])
  BY <1>1, NothingComes, OrderedEmpty
<1> HIDE DEF Ages
<1> QED BY <1>2, <1>6, <1>7, <1>8 DEF MInv

LEMMA MInvStep == TKInv /\ MInv /\ [Next]_vars => MInv'
<1> SUFFICES ASSUME TKInv, MInv, [Next]_vars PROVE MInv'
  OBVIOUS
<1>0. TInv
  BY DEF TKInv
<1>1. CASE UNCHANGED vars
  BY <1>1 DEF vars, netVars, programVars, leaveVars, MInv, Ages, Aged, KnowsItself, Waiting,
              Listens, Good, OldFirst, OldOnes, Line, Learns, Asks
<1> SUFFICES ASSUME Next PROVE MInv'
  BY <1>1
<1> PICK p \in Slots :
        \/ Join(p) \/ NetInit(p) \/ BufferMessage(p) \/ BufferDrops(p)
        \/ ResyncEnds(p) \/ EnterGame(p) \/ ReplayDrop(p) \/ ReplayMessage(p)
        \/ DiscardRest(p) \/ ReplayEnds(p) \/ ClearPlayerLeft(p) \/ HandleMessage(p)
        \/ ChangeLevel(p) \/ HandleDisconnect(p) \/ Relay(p) \/ Leave(p) \/ Crash(p)
  BY Zenon DEF Next
<1>2. CASE Join(p)
  BY <1>0, <1>2, JoinLearns
<1>3. CASE NetInit(p)
  BY <1>3, NetInitLearns
<1>4. CASE BufferMessage(p)
  BY <1>0, <1>4, BufferMessageLearns
<1>5. CASE BufferDrops(p)
  BY <1>0, <1>5, BufferDropsLearns
<1>6. CASE ResyncEnds(p) \/ DiscardRest(p) \/ ReplayEnds(p)
  BY <1>0, <1>6, PhaseLearns
<1>7. CASE EnterGame(p) \/ ChangeLevel(p)
  BY <1>7, LevelLearns
<1>8. CASE ReplayDrop(p)
  BY <1>8, ReplayDropLearns
<1>9. CASE ClearPlayerLeft(p)
  BY <1>9, ClearPlayerLeftLearns
<1>10. CASE ReplayMessage(p) \/ HandleMessage(p)
  <2>1. \E m, boxes : Reads(p, m, boxes)
    BY <1>10, Zenon DEF Reads
  <2> QED BY <2>1, ReadsLearn
<1>11. CASE HandleDisconnect(p)
  BY <1>0, <1>11, HandleDisconnectLearns
<1>12. CASE Relay(p)
  BY <1>0, <1>12, RelayLearns
<1>13. CASE Leave(p) \/ Crash(p)
  BY <1>0, <1>13, EndLearns
<1> QED
  BY <1>2, <1>3, <1>4, <1>5, <1>6, <1>7, <1>8, <1>9, <1>10, <1>11, <1>12, <1>13

LEMMA MInvImplies == IInv /\ TInv /\ MInv => LostByDiscardOnly
<1> SUFFICES ASSUME IInv, TInv, MInv, Quiet, NEW p \in Playing, NEW q \in Playing,
                    phase[p] # "cut", phase[q] # "cut"
             PROVE  Known(p, q)
  BY DEF LostByDiscardOnly
<1>1. p \in Slots /\ q \in Slots /\ phase[p] = "play" /\ phase[q] = "play"
  BY DEF Playing, Plays
<1>2. CASE p = q
  <2>1. q \in plractive[p]
    BY <1>1, <1>2 DEF IInv, Counted
  <2>2. character[p][q] = PackOf(life[q])
    BY <1>1, <1>2 DEF MInv, KnowsItself
  <2> QED BY <2>1, <2>2 DEF Known
<1>3. CASE p # q
  <2>1. /\ buffer[p] = <<>> /\ buffer[q] = <<>> /\ p \in connections /\ q \in connections
    BY <1>1 DEF TInv, Standing
  <2>2. /\ up[p] = <<>> /\ up[q] = <<>> /\ inbox[p] = <<>> /\ inbox[q] = <<>>
        /\ playerLeft[p] = {} /\ playerLeft[q] = {}
    BY <1>1, <2>1 DEF Quiet
  <2>3. Line(p, q) = <<>> /\ Line(q, p) = <<>>
    BY <1>1, <2>1, <2>2, NothingComes
  <2>4. Good(p, q)
    BY <1>1, <1>3 DEF MInv, Listens
  <2>5. \A A : ~ Has(<<>>, A)
    BY HasOne
  <2>6. Learns(p, q)
    BY <1>1, <2>3, <2>4, <2>5 DEF Good, Asks
  <2>7. character[p][q] = PackOf(life[q]) /\ q \in plractive[p]
    BY <1>1, <2>3, <2>5, <2>6 DEF Learns, Learnt
  <2> QED BY <2>7 DEF Known
<1> QED BY <1>2, <1>3

(* Characters are lost in a discarded rest of a buffer only: when nothing is on *)
(* its way, any two programs that play and have replayed their buffers to the   *)
(* end (PrePacket) have each other active, each with the character it has now - *)
(* whatever programs joined, answered (SendPlayerInfo), changed level, left or  *)
(* crashed at the same time, and whoever had their slots before.                *)
THEOREM LostOnlyByDiscard == Spec => []LostByDiscardOnly
<1>1. IInv /\ TKInv /\ MInv /\ [Next]_vars => (IInv /\ TKInv /\ MInv)'
  BY IInvStep, TKInvStep, MInvStep
<1>2. IInv /\ TKInv /\ MInv => LostByDiscardOnly
  BY MInvImplies DEF TKInv
<1> QED BY IInvInit, TKInvInit, MInvInit, <1>1, <1>2, PTL DEF Spec
================================================================================
