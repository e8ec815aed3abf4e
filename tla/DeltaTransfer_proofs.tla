------------------------ MODULE DeltaTransfer_proofs ------------------------
(***************************************************************************)
(* The theorems of DeltaTransfer: types, a program that enters the game    *)
(* has a whole state, chunks continue what is in the buffer, and nobody is *)
(* dropped for what it sent.                                               *)
(*                                                                         *)
(* The argument.  As long as all programs find the same player to answer   *)
(* the last request, only that player s sends.  Then at any time the first *)
(* n messages of its export are handled, the next ones are in the queue,   *)
(* and those after them are in its channel, where leaves may precede and   *)
(* follow them (Progress).  What is in the buffer and in the imported      *)
(* parts follows from n alone (Received), also across the requests that    *)
(* were given up: a new one is sent only when s is gone (Past, SenderOK),  *)
(* so nothing that a former sender sent can arrive any more (Sources).     *)
(***************************************************************************)
EXTENDS DeltaTransfer, FiniteSetTheorems, Subsequences_proofs

(* What ClearMsgs leaves in a queue.                                           *)

\* It is of the messages, and of nobody in gone.
LEMMA WithoutType ==
    ASSUME NEW inbox \in Seq(ChunksType), NEW gone
    PROVE  Without(inbox, gone) \in Seq({chunk \in ChunksType : chunk.src \notin gone})
<1> DEFINE T == {chunk \in ChunksType : chunk.src \notin gone}
<1>1. Among(inbox, T) \in Seq(ChunksType \cap T)
  <2> HIDE DEF T
  <2> QED BY AmongType
<1>2. ChunksType \cap T = T
  OBVIOUS
<1> QED BY <1>1, <1>2 DEF Without

\* Nothing is left if all are of players in gone, and everything if none is.
LEMMA WithoutAll ==
    ASSUME NEW inbox \in Seq(ChunksType), NEW gone,
           \A i \in 1 .. Len(inbox) : inbox[i].src \in gone
    PROVE  Without(inbox, gone) = <<>>
<1> DEFINE S == {chunk \in ChunksType : chunk.src \in gone}
           T == {chunk \in ChunksType : chunk.src \notin gone}
<1>1. inbox \in Seq(S)
  OBVIOUS
<1>2. S \cap T = {}
  OBVIOUS
<1>3. Among(inbox, T) = <<>>
  <2> HIDE DEF S, T
  <2> QED BY <1>1, <1>2, AmongNone
<1> QED BY <1>3 DEF Without

LEMMA WithoutNone ==
    ASSUME NEW inbox \in Seq(ChunksType), NEW gone,
           \A i \in 1 .. Len(inbox) : inbox[i].src \notin gone
    PROVE  Without(inbox, gone) = inbox
<1> DEFINE T == {chunk \in ChunksType : chunk.src \notin gone}
<1>1. inbox \in Seq(T)
  OBVIOUS
<1>2. Among(inbox, T) = inbox
  <2> HIDE DEF T
  <2> QED BY <1>1, AmongAll
<1> QED BY <1>2 DEF Without
--------------------------------------------------------------------------------
(* The levels, and what Export sends of them.                                  *)

Lev(i) == SetToSeq(Levels)[i]

\* SetToSeq numbers the levels.
LEMMA LevelsCounted ==
    /\ MaxMultiplayerLevels \in Nat \ {0}
    /\ \A i \in 1 .. MaxMultiplayerLevels : Lev(i) \in Levels
    /\ \A level \in Levels : \E i \in 1 .. MaxMultiplayerLevels : Lev(i) = level
<1>1. IsFiniteSet(Levels) /\ Levels # {}
  BY ParametersAssumption
<1>2. MaxMultiplayerLevels \in Nat \ {0}
  BY <1>1, FS_CardinalityType, FS_EmptySet DEF MaxMultiplayerLevels
<1>3. PICK f : f \in Bijection(1 .. MaxMultiplayerLevels, Levels)
  BY <1>1, FS_CardinalityType DEF MaxMultiplayerLevels, ExistsBijection
<1>4. f \in [1 .. MaxMultiplayerLevels -> Levels] /\ IsInjective(f)
  BY <1>3 DEF Bijection, Injection, IsInjective
<1> DEFINE g == SetToSeq(Levels)
<1>5. g \in [1 .. MaxMultiplayerLevels -> Levels] /\ IsInjective(g)
  BY <1>4 DEF SetToSeq, MaxMultiplayerLevels
<1> HIDE DEF g
<1>6. g \in Injection(1 .. MaxMultiplayerLevels, Levels)
  BY <1>5 DEF Injection, IsInjective
<1>7. /\ IsFiniteSet(1 .. MaxMultiplayerLevels)
      /\ Cardinality(1 .. MaxMultiplayerLevels) = Cardinality(Levels)
  BY <1>2, FS_Interval DEF MaxMultiplayerLevels
<1>8. g \in Surjection(1 .. MaxMultiplayerLevels, Levels)
  BY <1>1, <1>6, <1>7, FS_Injection
<1> QED BY <1>2, <1>5, <1>8 DEF Surjection, Lev, g

\* Facts about the quotient and the remainder that number the chunks.
LEMMA Division ==
    ASSUME NEW a \in Nat, NEW c \in Nat \ {0}
    PROVE  /\ a \div c \in Nat /\ a % c \in 0 .. c - 1
           /\ a = (a \div c) * c + (a % c)
  OBVIOUS

LEMMA TimesMonotonic ==
    ASSUME NEW a \in Nat, NEW b \in Nat, NEW c \in Nat, a <= b
    PROVE  a * c <= b * c /\ a * c \in Nat
  OBVIOUS

LEMMA Distributes ==
    ASSUME NEW a \in Nat, NEW c \in Nat
    PROVE  (a + 1) * c = a * c + c
  OBVIOUS

LEMMA DivisionUnique ==
    ASSUME NEW c \in Nat \ {0}, NEW a \in Nat, NEW b \in 0 .. c - 1, NEW d \in Nat, NEW e \in 0 .. c - 1,
           a * c + b = d * c + e
    PROVE  a = d /\ b = e
<1>1. CASE a + 1 <= d
  <2>1. (a + 1) * c <= d * c /\ (a + 1) * c = a * c + c /\ a * c \in Nat /\ d * c \in Nat
    BY <1>1, TimesMonotonic, Distributes
  <2> QED BY <2>1
<1>2. CASE d + 1 <= a
  <2>1. (d + 1) * c <= a * c /\ (d + 1) * c = d * c + c /\ a * c \in Nat /\ d * c \in Nat
    BY <1>2, TimesMonotonic, Distributes
  <2> QED BY <2>1
<1> QED BY <1>1, <1>2

LEMMA DivisionOf ==
    ASSUME NEW c \in Nat \ {0}, NEW v \in Nat, NEW k \in 1 .. c
    PROVE  ((v * c + k) - 1) \div c = v /\ ((v * c + k) - 1) % c = k - 1
<1> DEFINE x == (v * c + k) - 1
<1>1. v * c \in Nat
  BY TimesMonotonic
<1>2. x \in Nat /\ x = v * c + (k - 1)
  BY <1>1
<1> HIDE DEF x
<1>3. x \div c \in Nat /\ x % c \in 0 .. c - 1 /\ x = (x \div c) * c + (x % c)
  BY <1>2, Division
<1>4. x \div c = v /\ x % c = k - 1
  BY <1>2, <1>3, DivisionUnique
<1> QED BY <1>4 DEF x

\* Which numbers the chunks of a level have.
LEMMA ChunkNumbers ==
    /\ NumLevelChunks \in Nat
    /\ \A v \in 0 .. MaxMultiplayerLevels - 1, k \in 1 .. LevelChunks :
           /\ v * LevelChunks + k \in 1 .. NumLevelChunks
           /\ v * LevelChunks + k = NumLevelChunks <=> v = MaxMultiplayerLevels - 1 /\ k = LevelChunks
    /\ \A v \in Nat : (v + 1) * LevelChunks = v * LevelChunks + LevelChunks
<1> DEFINE L == MaxMultiplayerLevels
           C == LevelChunks
<1>1. C \in Nat \ {0} /\ L \in Nat \ {0}
  BY ParametersAssumption, LevelsCounted
<1> HIDE DEF C, L
<1>2. L * C \in Nat
  BY <1>1, TimesMonotonic
<1>3. ASSUME NEW v \in 0 .. L - 1, NEW k \in 1 .. C
      PROVE  /\ v * C + k \in 1 .. L * C
             /\ v * C + k = L * C <=> v = L - 1 /\ k = C
  <2>1. v * C \in Nat /\ (v + 1) * C = v * C + C /\ v + 1 <= L
    BY <1>1, TimesMonotonic, Distributes
  <2>2. (v + 1) * C <= L * C
    BY <1>1, <2>1, TimesMonotonic
  <2>3. v * C + k \in 1 .. L * C
    BY <1>1, <1>2, <2>1, <2>2
  <2>4. CASE v + 1 < L
    <3>1. (v + 2) * C <= L * C
      BY <1>1, <2>4, TimesMonotonic
    <3>2. (v + 2) * C = (v + 1) * C + C
      <4>1. v + 1 \in Nat /\ (v + 1) + 1 = v + 2
        OBVIOUS
      <4> QED BY <1>1, <4>1, Distributes
    <3> QED BY <1>1, <1>2, <2>1, <2>3, <2>4, <3>1, <3>2
  <2>5. CASE v + 1 = L
    BY <1>1, <1>2, <2>1, <2>3, <2>5
  <2> QED BY <2>1, <2>3, <2>4, <2>5, <1>1
<1> QED BY <1>1, <1>2, <1>3, Distributes DEF C, L, NumLevelChunks

\* What a player sends: each chunk of each level, the junk, and the end mark.
LEMMA ExportIs ==
    ASSUME NEW p
    PROVE  /\ \A v \in 0 .. MaxMultiplayerLevels - 1, k \in 1 .. LevelChunks :
                  Export(p)[v * LevelChunks + k] = Chunk("CMD_DLEVEL", p, Lev(v + 1), k - 1)
           /\ Export(p)[NumLevelChunks + 1] = Chunk("CMD_DLEVEL_JUNK", p, "junk", 0)
           /\ Export(p)[NumLevelChunks + 2] = Chunk("CMD_DLEVEL_END", p, "junk", 0)
<1>1. ASSUME NEW v \in 0 .. MaxMultiplayerLevels - 1, NEW k \in 1 .. LevelChunks
      PROVE  Export(p)[v * LevelChunks + k] = Chunk("CMD_DLEVEL", p, Lev(v + 1), k - 1)
  <2>1. v * LevelChunks + k \in 1 .. NumLevelChunks /\ NumLevelChunks \in Nat
    BY ChunkNumbers
  <2>2. /\ ((v * LevelChunks + k) - 1) \div LevelChunks = v
        /\ ((v * LevelChunks + k) - 1) % LevelChunks = k - 1
    BY DivisionOf, ParametersAssumption, LevelsCounted
  <2> DEFINE i == v * LevelChunks + k
  <2> HIDE DEF i
  <2>3. Export(p)[i] = Chunk("CMD_DLEVEL", p, SetToSeq(Levels)[((i - 1) \div LevelChunks) + 1],
                   (i - 1) % LevelChunks)
    BY <2>1 DEF Export, i
  <2>4. i - 1 = (v * LevelChunks + k) - 1
    BY <2>1 DEF i
  <2> QED BY <2>2, <2>3, <2>4 DEF i, Lev
<1>2. NumLevelChunks \in Nat
  BY ChunkNumbers
<1> QED BY <1>1, <1>2 DEF Export

LEMMA ExportType ==
    ASSUME NEW p \in Peers
    PROVE  /\ Export(p) \in Seq(ChunksType) /\ Len(Export(p)) = NumLevelChunks + 2
           /\ \A i \in 1 .. NumLevelChunks + 2 :
                  Export(p)[i].src = p /\ Export(p)[i].cmd # "PT_DISCONNECT"
<1> DEFINE n == NumLevelChunks
           C == LevelChunks
<1>0. n \in Nat /\ C \in Nat \ {0}
  BY ChunkNumbers, ParametersAssumption
<1>1. ASSUME NEW i \in 1 .. n
      PROVE  /\ SetToSeq(Levels)[((i - 1) \div C) + 1] \in Levels
             /\ (i - 1) % C \in 0 .. C - 1
  <2> DEFINE v == (i - 1) \div C
  <2>0. i - 1 \in Nat
    BY <1>0
  <2>1. v \in Nat /\ (i - 1) % C \in 0 .. C - 1 /\ i - 1 = v * C + ((i - 1) % C)
    <3> HIDE DEF n, C
    <3> QED BY <1>0, <2>0, Division DEF v
  <2> HIDE DEF v
  <2>2. ~ MaxMultiplayerLevels <= v
    <3> SUFFICES ASSUME MaxMultiplayerLevels <= v PROVE FALSE
      OBVIOUS
    <3>1. n <= v * C /\ v * C \in Nat
      BY <1>0, <2>1, LevelsCounted, TimesMonotonic DEF NumLevelChunks
    <3> HIDE DEF n, C
    <3> QED BY <2>1, <3>1, <1>0
  <2>3. v + 1 \in 1 .. MaxMultiplayerLevels
    BY <2>1, <2>2, LevelsCounted
  <2> QED BY <2>1, <2>3, LevelsCounted DEF Lev, v
<1>2. ASSUME NEW i \in 1 .. n + 2
      PROVE  Export(p)[i] \in ChunksType /\ Export(p)[i].src = p
             /\ Export(p)[i].cmd # "PT_DISCONNECT"
  <2>1. CASE i <= n
    <3>1. i \in 1 .. n
      BY <2>1, <1>0
    <3>2. Export(p)[i] = Chunk("CMD_DLEVEL", p, SetToSeq(Levels)[((i - 1) \div C) + 1], (i - 1) % C)
      BY <2>1 DEF Export
    <3> QED BY <1>1, <3>1, <3>2 DEF Chunk, ChunksType, Commands, Parts
  <2>2. CASE i > n
    <3>1. Export(p)[i] = Chunk(IF i = n + 1 THEN "CMD_DLEVEL_JUNK" ELSE "CMD_DLEVEL_END", p, "junk", 0)
      BY <2>2, <1>0 DEF Export
    <3>2. 0 \in 0 .. C - 1
      BY <1>0
    <3> QED BY <3>1, <3>2 DEF Chunk, ChunksType, Commands, Parts
  <2> QED BY <2>1, <2>2, <1>0
<1>3. Export(p) = [i \in 1 .. n + 2 |-> Export(p)[i]]
  BY DEF Export
<1>4. n + 2 \in Nat
  BY <1>0
<1> HIDE DEF n
<1> QED BY <1>2, <1>3, <1>4 DEF n

LEMMA SeqMonotone ==
    ASSUME NEW S, NEW T, S \subseteq T, NEW s \in Seq(S)
    PROVE  s \in Seq(T)
  OBVIOUS

--------------------------------------------------------------------------------
(* Types.                                                                      *)

\* A part that is begun is in the receive buffer.
Buffered == sgbRecvCmd # "CMD_DLEVEL_END" => recvBuf # <<>>

TInv == TypeOK /\ Buffered

\* What is known of the players.
LEMMA Constants ==
    /\ N \in 2 .. 4 /\ Joiner \in 0 .. N - 1 /\ Joiner \notin Peers
    /\ Peers \subseteq 0 .. N - 1
    /\ MAX_PLRS \notin Peers /\ MAX_PLRS # Joiner
    /\ LevelChunks \in Nat \ {0}
BY ParametersAssumption DEF Joiner, Peers, MAX_PLRS

\* Packets are leaves or chunks.
LEMMA PacketTypes ==
    /\ \A m \in PacketsType :
           IF m.cmd = "PT_DISCONNECT" THEN m.src \in Peers ELSE m \in ChunksType
    /\ \A m \in ChunksType :
           m \in PacketsType /\ m.cmd \in Commands /\ m.src \in Peers /\ m.part \in Parts
    /\ \A p \in Peers : Disconnect(p) \in PacketsType /\ Disconnect(p).cmd = "PT_DISCONNECT"
    /\ "PT_DISCONNECT" \notin Commands
BY DEF PacketsType, ChunksType, Commands, Disconnect

\* What HandleDisconnect leaves has its type.
LEMMA ForgetTypes ==
    ASSUME NEW gone, NEW inbox \in Seq(ChunksType),
           NEW sender \in 0 .. N - 1 \cup {MAX_PLRS},
           NEW channels \in [Peers -> Seq(PacketsType)],
           connected \subseteq Peers, Forget(gone, inbox, sender, channels)
    PROVE  /\ connected' \subseteq Peers
           /\ queue' \in Seq(ChunksType)
           /\ net' \in [Peers -> Seq(PacketsType)]
           /\ gbDeltaSender' \in 0 .. N - 1 \cup {MAX_PLRS}
<1>1. queue' \in Seq({m \in ChunksType : m.src \notin gone})
  BY WithoutType DEF Forget
<1>2. queue' \in Seq(ChunksType)
  <2> DEFINE T == {m \in ChunksType : m.src \notin gone}
  <2>1. T \subseteq ChunksType
    OBVIOUS
  <2> HIDE DEF T
  <2> QED BY <1>1, <2>1, SeqMonotone DEF T
<1>3. net' \in [Peers -> Seq(PacketsType)]
  <2>1. <<>> \in Seq(PacketsType)
    OBVIOUS
  <2> QED BY <2>1 DEF Forget
<1>4. gbDeltaSender' \in 0 .. N - 1 \cup {MAX_PLRS}
  BY DEF Forget
<1> QED BY <1>2, <1>3, <1>4 DEF Forget

LEMMA TInvInit == Init => TInv
<1> SUFFICES ASSUME Init PROVE TInv
  OBVIOUS
<1>1. Joiner \in 0 .. N - 1
  BY Constants
<1>2. <<>> \in Seq(ChunksType) /\ Len(<<>>) = 0 /\ RecvBufSize \in Nat /\ <<>> \in Seq(PacketsType)
  BY Constants DEF RecvBufSize
<1>3. 1 \in 1 .. MaxRequests /\ 0 \in 0 .. 1
  BY ParametersAssumption
<1>4. 0 \in 0 .. MaxFaults
  BY ParametersAssumption
<1> QED BY <1>1, <1>2, <1>3, <1>4 DEF Init, TInv, TypeOK, Buffered, Phases, Commands

\* The one that answers is one of the players, if there are any.
LEMMA ResponderIs ==
    ASSUME NEW players \in SUBSET Peers
    PROVE  IF players = {} THEN Responder(players) = MAX_PLRS ELSE Responder(players) \in players
<1> SUFFICES ASSUME players # {} PROVE \E p \in players : \A q \in players : p <= q
  BY DEF Responder
<1>1. Peers \subseteq {0, 1, 2}
  BY Constants DEF Peers
<1>2. CASE 0 \in players
  BY <1>1, <1>2
<1>3. CASE 0 \notin players /\ 1 \in players
  BY <1>1, <1>3
<1>4. CASE 0 \notin players /\ 1 \notin players
  <2>1. \A q \in players : q = 2
    BY <1>1, <1>4
  <2> QED BY <2>1
<1> QED BY <1>2, <1>3, <1>4

\* The queue and its first message.
LEMMA MessageTypes ==
    ASSUME TInv, queue # <<>>
    PROVE  /\ Head(queue) \in ChunksType /\ Head(queue).src \in Peers
           /\ Head(queue).cmd \in Commands /\ Head(queue) = queue[1]
           /\ Tail(queue) \in Seq(ChunksType) /\ Len(queue) \in Nat \ {0}
           /\ Len(Tail(queue)) = Len(queue) - 1
           /\ \A i \in 1 .. Len(queue) - 1 : Tail(queue)[i] = queue[i + 1]
<1>1. queue \in Seq(ChunksType)
  BY DEF TInv, TypeOK
<1>2. Head(queue) \in ChunksType /\ Tail(queue) \in Seq(ChunksType)
  BY <1>1
<1>3. Len(queue) \in Nat \ {0} /\ Head(queue) = queue[1]
  BY <1>1
<1>4. Len(Tail(queue)) = Len(queue) - 1 /\ \A i \in 1 .. Len(queue) - 1 : Tail(queue)[i] = queue[i + 1]
  BY <1>1, <1>3
<1> QED BY <1>2, <1>3, <1>4, PacketTypes

LEMMA CopyTypes ==
    ASSUME TInv, queue # <<>>,
           NEW buf \in Seq(ChunksType), Len(buf) <= RecvBufSize,
           NEW dropped \in SUBSET Peers, Copy(Head(queue), buf, dropped)
    PROVE  /\ recvBuf' \in Seq(ChunksType) /\ Len(recvBuf') <= RecvBufSize /\ recvBuf' # <<>>
           /\ connected' \subseteq Peers /\ out' \subseteq Peers
           /\ queue' \in Seq(ChunksType)
           /\ net' \in [Peers -> Seq(PacketsType)]
           /\ gbDeltaSender' \in 0 .. N - 1 \cup {MAX_PLRS}
<1> DEFINE message == Head(queue)
           gone == IF Len(buf) < RecvBufSize THEN dropped ELSE {message.src}
<1>1. message \in ChunksType /\ message.src \in Peers /\ Tail(queue) \in Seq(ChunksType)
  BY MessageTypes
<1>2. RecvBufSize \in Nat \ {0} /\ Len(buf) \in Nat
  BY Constants DEF RecvBufSize
<1>3. recvBuf' \in Seq(ChunksType) /\ Len(recvBuf') <= RecvBufSize /\ recvBuf' # <<>>
  <2> HIDE DEF message
  <2>1. recvBuf' = IF Len(buf) < RecvBufSize THEN Append(buf, message) ELSE buf
    BY DEF Copy, message
  <2>2. CASE Len(buf) < RecvBufSize
    BY <1>1, <1>2, <2>1, <2>2
  <2>3. CASE ~ (Len(buf) < RecvBufSize)
    BY <1>2, <2>1, <2>3
  <2> QED BY <2>2, <2>3
<1>4. Forget(gone \cap connected, Tail(queue), message.src, net)
  BY DEF Copy
<1>5. gone \subseteq Peers /\ out' = out \cup gone
  BY <1>1 DEF Copy
<1>6. message.src \in 0 .. N - 1 \cup {MAX_PLRS}
  BY <1>1, Constants
<1>7. connected \subseteq Peers /\ net \in [Peers -> Seq(PacketsType)] /\ out \subseteq Peers
  BY DEF TInv, TypeOK
<1>8. /\ connected' \subseteq Peers /\ queue' \in Seq(ChunksType)
      /\ net' \in [Peers -> Seq(PacketsType)] /\ gbDeltaSender' \in 0 .. N - 1 \cup {MAX_PLRS}
  <2> HIDE DEF message, gone
  <2> QED BY <1>1, <1>4, <1>6, <1>7, ForgetTypes
<1> QED BY <1>3, <1>5, <1>7, <1>8

LEMMA ImportTypes ==
    ASSUME TInv, sgbRecvCmd # "CMD_DLEVEL_END", NEW succeeds, Import(succeeds)
    PROVE  imported' \in [Parts -> Peers \cup {None, Mixed}]
<1>1. recvBuf \in Seq(ChunksType) /\ recvBuf # <<>>
  BY DEF TInv, TypeOK, Buffered
<1>2. recvBuf[1] \in ChunksType
  BY <1>1
<1>3. recvBuf[1].src \in Peers
  BY <1>2, PacketTypes
<1>4. imported \in [Parts -> Peers \cup {None, Mixed}]
  BY DEF TInv, TypeOK
<1> QED BY <1>3, <1>4 DEF Import

LEMMA OnLevelDataTypes ==
    ASSUME TInv, queue # <<>>, OnLevelData(Head(queue))
    PROVE  /\ recvBuf' \in Seq(ChunksType) /\ Len(recvBuf') <= RecvBufSize
           /\ connected' \subseteq Peers /\ out' \subseteq Peers
           /\ queue' \in Seq(ChunksType)
           /\ net' \in [Peers -> Seq(PacketsType)]
           /\ gbDeltaSender' \in 0 .. N - 1 \cup {MAX_PLRS}
           /\ sgbRecvCmd' \in Commands /\ sgbDeltaChunks' \in Nat
           /\ imported' \in [Parts -> Peers \cup {None, Mixed}]
           /\ Buffered'
<1> DEFINE message == Head(queue)
<1>1. /\ message \in ChunksType /\ message.src \in Peers /\ message.cmd \in Commands
      /\ Tail(queue) \in Seq(ChunksType) /\ message.src \in 0 .. N - 1 \cup {MAX_PLRS}
  BY MessageTypes, Constants
<1>2. /\ recvBuf \in Seq(ChunksType) /\ Len(recvBuf) <= RecvBufSize
      /\ <<>> \in Seq(ChunksType) /\ Len(<<>>) <= RecvBufSize
  BY Constants DEF TInv, TypeOK, RecvBufSize
<1>3. /\ connected \subseteq Peers /\ net \in [Peers -> Seq(PacketsType)] /\ out \subseteq Peers
      /\ gbDeltaSender \in 0 .. N - 1 \cup {MAX_PLRS}
      /\ sgbRecvCmd \in Commands /\ sgbDeltaChunks \in Nat
      /\ imported \in [Parts -> Peers \cup {None, Mixed}]
  BY DEF TInv, TypeOK
<1>4. MaxChunks - 1 \in Nat
  BY LevelsCounted DEF MaxChunks
<1> HIDE DEF message
<1>5. RecvCmd(message) # "CMD_DLEVEL_END" => sgbRecvCmd # "CMD_DLEVEL_END"
  BY DEF RecvCmd
<1>6. ASSUME NEW gone, Forget(gone, Tail(queue), message.src, net)
      PROVE  /\ connected' \subseteq Peers /\ queue' \in Seq(ChunksType)
             /\ net' \in [Peers -> Seq(PacketsType)]
             /\ gbDeltaSender' \in 0 .. N - 1 \cup {MAX_PLRS}
  BY <1>1, <1>3, <1>6, ForgetTypes
<1>7. CASE SkipChunk(message)
  BY <1>1, <1>2, <1>3, <1>7 DEF SkipChunk, importVars, TInv, Buffered
<1>8. CASE FirstChunk(message)
  <2>1. /\ Copy(Head(queue), <<>>, {}) /\ {} \in SUBSET Peers
        /\ sgbRecvCmd' = message.cmd /\ UNCHANGED <<sgbDeltaChunks, imported>>
    BY <1>8 DEF FirstChunk, message
  <2>2. /\ recvBuf' \in Seq(ChunksType) /\ Len(recvBuf') <= RecvBufSize /\ recvBuf' # <<>>
        /\ connected' \subseteq Peers /\ out' \subseteq Peers
        /\ queue' \in Seq(ChunksType)
        /\ net' \in [Peers -> Seq(PacketsType)]
        /\ gbDeltaSender' \in 0 .. N - 1 \cup {MAX_PLRS}
    BY <1>2, <2>1, CopyTypes
  <2> QED BY <1>1, <1>3, <2>1, <2>2 DEF Buffered
<1>9. CASE EndAtOnce(message)
  BY <1>1, <1>2, <1>3, <1>4, <1>6, <1>9 DEF EndAtOnce, Buffered
<1>10. CASE NextChunk(message)
  <2>1. /\ Copy(Head(queue), recvBuf, {}) /\ {} \in SUBSET Peers
        /\ UNCHANGED <<sgbRecvCmd, sgbDeltaChunks, imported>>
    BY <1>10 DEF NextChunk, message
  <2>2. /\ recvBuf' \in Seq(ChunksType) /\ Len(recvBuf') <= RecvBufSize /\ recvBuf' # <<>>
        /\ connected' \subseteq Peers /\ out' \subseteq Peers
        /\ queue' \in Seq(ChunksType)
        /\ net' \in [Peers -> Seq(PacketsType)]
        /\ gbDeltaSender' \in 0 .. N - 1 \cup {MAX_PLRS}
    <3> HIDE DEF message
    <3> QED BY <1>2, <2>1, CopyTypes
  <2> QED BY <1>3, <2>1, <2>2 DEF Buffered
<1>11. CASE NextPart(message)
  <2>1. PICK succeeds \in BOOLEAN :
           /\ Import(succeeds)
           /\ sgbDeltaChunks' = IF succeeds THEN sgbDeltaChunks + 1 ELSE sgbDeltaChunks
           /\ Copy(message, <<>>, IF succeeds THEN {} ELSE {message.src})
    BY <1>11 DEF NextPart
  <2>2. imported' \in [Parts -> Peers \cup {None, Mixed}]
    BY <1>5, <1>11, <2>1, ImportTypes DEF NextPart
  <2>3. (IF succeeds THEN {} ELSE {message.src}) \in SUBSET Peers
    BY <1>1
  <2>4. sgbRecvCmd' = message.cmd
    BY <1>11 DEF NextPart
  <2> DEFINE dropped == IF succeeds THEN {} ELSE {message.src}
  <2>5. Copy(Head(queue), <<>>, dropped) /\ dropped \in SUBSET Peers
    BY <2>1, <2>3 DEF message
  <2>6. /\ recvBuf' \in Seq(ChunksType) /\ Len(recvBuf') <= RecvBufSize /\ recvBuf' # <<>>
        /\ connected' \subseteq Peers /\ out' \subseteq Peers
        /\ queue' \in Seq(ChunksType)
        /\ net' \in [Peers -> Seq(PacketsType)]
        /\ gbDeltaSender' \in 0 .. N - 1 \cup {MAX_PLRS}
    <3> HIDE DEF dropped
    <3> QED BY <1>2, <2>5, CopyTypes
  <2>7. sgbDeltaChunks' \in Nat
    BY <1>3, <2>1
  <2> QED BY <1>1, <2>2, <2>4, <2>6, <2>7 DEF Buffered
<1>12. CASE LastPart(message)
  <2>1. PICK succeeds \in BOOLEAN :
           LET gone == IF succeeds THEN {} ELSE {message.src} IN
           /\ Import(succeeds)
           /\ Forget(gone \cap connected, Tail(queue), message.src, net)
           /\ out' = out \cup gone
    BY <1>12 DEF LastPart
  <2> DEFINE gone == (IF succeeds THEN {} ELSE {message.src}) \cap connected
  <2>5. Forget(gone, Tail(queue), message.src, net)
    BY <2>1
  <2>2. imported' \in [Parts -> Peers \cup {None, Mixed}]
    BY <1>5, <1>12, <2>1, ImportTypes DEF LastPart
  <2>3. /\ connected' \subseteq Peers /\ queue' \in Seq(ChunksType)
        /\ net' \in [Peers -> Seq(PacketsType)]
        /\ gbDeltaSender' \in 0 .. N - 1 \cup {MAX_PLRS}
    <3> HIDE DEF gone
    <3> QED BY <1>6, <2>5
  <2>4. out' \subseteq Peers
    BY <1>1, <1>3, <2>1
  <2> QED BY <1>2, <1>3, <1>4, <1>12, <2>2, <2>3, <2>4 DEF LastPart, Buffered, Commands
<1> QED BY <1>7, <1>8, <1>9, <1>10, <1>11, <1>12 DEF OnLevelData, message

\* Steps of the joiner keep the types.
LEMMA TInvJoiner ==
    ASSUME TInv, JoinerStep
    PROVE  TInv'
<1> USE DEF TInv
<1>1. CASE JoinerConsumes
  <2>1. /\ Responder(connected) \in 0 .. N - 1 \cup {MAX_PLRS}
        /\ Responder(connected) \in Peers \cup {MAX_PLRS}
    BY ResponderIs, Constants DEF TypeOK
  <2>2. consumed' \in [0 .. N - 1 -> 0 .. requests]
    BY <1>1, Constants DEF JoinerConsumes, Consume, TypeOK
  <2>3. chosen' \in [1 .. MaxRequests -> SUBSET (Peers \cup {MAX_PLRS})]
    BY <1>1, <2>1 DEF JoinerConsumes, TypeOK
  <2> QED BY <1>1, <2>1, <2>2, <2>3 DEF JoinerConsumes, TypeOK, Buffered
<1>2. CASE HandleMessage
  <2>1. /\ recvBuf' \in Seq(ChunksType) /\ Len(recvBuf') <= RecvBufSize
        /\ connected' \subseteq Peers /\ out' \subseteq Peers
        /\ queue' \in Seq(ChunksType)
        /\ net' \in [Peers -> Seq(PacketsType)]
        /\ gbDeltaSender' \in 0 .. N - 1 \cup {MAX_PLRS}
        /\ sgbRecvCmd' \in Commands /\ sgbDeltaChunks' \in Nat
        /\ imported' \in [Parts -> Peers \cup {None, Mixed}]
        /\ Buffered'
    BY <1>2, OnLevelDataTypes DEF HandleMessage
  <2> QED BY <1>2, <2>1 DEF HandleMessage, requestVars, TypeOK
<1>3. CASE Distrust
  <2>1. Tail(queue) \in Seq(ChunksType)
    BY <1>3, MessageTypes DEF Distrust
  <2> QED BY <1>3, <2>1 DEF Distrust, importVars, requestVars, TypeOK, Buffered
<1>4. CASE OwnerReady
  BY <1>4 DEF OwnerReady, requestVars, TypeOK, Phases, Buffered
<1>5. CASE AskAgain
  <2>1. Joiner \in 0 .. N - 1 /\ MaxRequests \in Nat \ {0}
    BY Constants, ParametersAssumption
  <2>2. requests' \in 1 .. MaxRequests
    BY <1>5, <2>1 DEF AskAgain, TypeOK
  <2>3. consumed' \in [0 .. N - 1 -> 0 .. requests']
    <3>1. requests' = requests + 1 /\ requests \in Nat
      BY <1>5, <2>1 DEF AskAgain, TypeOK
    <3>2. 0 .. requests \subseteq 0 .. requests'
      BY <3>1
    <3> QED BY <1>5, <3>2 DEF AskAgain, TypeOK
  <2>4. phase' \in Phases /\ sgbRecvCmd' \in Commands /\ sgbDeltaChunks' \in Nat
    BY <1>5 DEF AskAgain, Phases, Commands
  <2>5. gbDeltaSender' \in 0 .. N - 1 \cup {MAX_PLRS} /\ Buffered'
    BY <1>5, <2>1 DEF AskAgain, Buffered
  <2>6. /\ recvBuf' \in Seq(ChunksType) /\ Len(recvBuf') <= RecvBufSize
        /\ imported' \in [Parts -> Peers \cup {None, Mixed}]
        /\ connected' \subseteq Peers
        /\ queue' \in Seq(ChunksType)
        /\ net' \in [Peers -> Seq(PacketsType)]
        /\ chosen' \in [1 .. MaxRequests -> SUBSET (Peers \cup {MAX_PLRS})]
        /\ knows' \in [Peers -> SUBSET Peers]
        /\ sendDelta' \subseteq Peers
        /\ alive' \subseteq Peers /\ out' \subseteq Peers
        /\ faults' \in 0 .. MaxFaults
    BY <1>5 DEF AskAgain, TypeOK
  <2> QED BY <2>2, <2>3, <2>4, <2>5, <2>6 DEF TypeOK
<1>6. CASE NearlyDone
  <2>1. MaxChunks \in Nat
    BY LevelsCounted DEF MaxChunks
  <2> QED BY <1>6, <2>1 DEF NearlyDone, requestVars, TypeOK, Buffered
<1>7. CASE Return
  BY <1>7 DEF Return, importVars, requestVars, TypeOK, Phases, Buffered
<1>8. CASE Cancel
  BY <1>8 DEF Cancel, importVars, requestVars, TypeOK, Phases, Buffered
<1> QED BY <1>1, <1>2, <1>3, <1>4, <1>5, <1>6, <1>7, <1>8 DEF JoinerStep

LEMMA TInvReceive ==
    ASSUME TInv, NEW p \in Peers, Receive(p)
    PROVE  TInv'
<1> DEFINE packet == Head(net[p])
           rest == [net EXCEPT ![p] = Tail(@)]
<1>1. net[p] \in Seq(PacketsType) /\ net[p] # <<>> /\ net \in [Peers -> Seq(PacketsType)]
  BY DEF Receive, TInv, TypeOK
<1>2. packet \in PacketsType /\ Tail(net[p]) \in Seq(PacketsType)
  BY <1>1
<1>3. rest \in [Peers -> Seq(PacketsType)]
  BY <1>1, <1>2
<1>4. /\ queue \in Seq(ChunksType) /\ connected \subseteq Peers
      /\ gbDeltaSender \in 0 .. N - 1 \cup {MAX_PLRS}
  BY DEF TInv, TypeOK
<1>5. /\ connected' \subseteq Peers
      /\ queue' \in Seq(ChunksType)
      /\ net' \in [Peers -> Seq(PacketsType)]
      /\ gbDeltaSender' \in 0 .. N - 1 \cup {MAX_PLRS}
  <2>1. CASE p \notin connected
    BY <1>3, <1>4, <2>1 DEF Receive
  <2>2. CASE p \in connected /\ packet.cmd = "PT_DISCONNECT"
    <3>1. Forget({packet.src} \cap connected, queue, gbDeltaSender, rest)
      BY <2>2 DEF Receive
    <3> HIDE DEF rest, packet
    <3> QED BY <1>3, <1>4, <3>1, ForgetTypes
  <2>3. CASE p \in connected /\ packet.cmd # "PT_DISCONNECT"
    <3>1. Forget({}, Append(queue, packet), gbDeltaSender, rest)
      BY <2>3 DEF Receive
    <3> HIDE DEF rest, packet
    <3>2. packet \in ChunksType
      BY <1>2, <2>3, PacketTypes
    <3>3. Append(queue, packet) \in Seq(ChunksType)
      BY <1>4, <3>2
    <3> QED BY <1>3, <1>4, <3>1, <3>3, ForgetTypes
  <2> QED BY <2>1, <2>2, <2>3
<1> QED BY <1>5 DEF Receive, requestVars, TInv, TypeOK, Buffered

LEMMA AppendDisconnect ==
    ASSUME TInv, NEW q \in Peers, NEW p \in Peers
    PROVE  [net EXCEPT ![q] = Append(@, Disconnect(p))] \in [Peers -> Seq(PacketsType)]
<1>1. net \in [Peers -> Seq(PacketsType)] /\ Disconnect(p) \in PacketsType
  BY PacketTypes DEF TInv, TypeOK
<1>2. Append(net[q], Disconnect(p)) \in Seq(PacketsType)
  BY <1>1
<1> QED BY <1>1, <1>2

LEMMA TInvPeer ==
    ASSUME TInv, NEW p \in Peers,
           \/ PeerConsumes(p)
           \/ Answer(p)
           \/ Crash(p)
           \/ Leave(p)
           \/ InfoTimeout(p)
           \/ \E q \in Peers \ {p} : Drop(q, p) \/ PeerLearns(q, p)
    PROVE  TInv'
<1>1. CASE PeerConsumes(p)
  <2> DEFINE responder == Responder(knows[p] \cup {p})
  <2>1. responder \in Peers \cup {MAX_PLRS}
    <3>1. knows[p] \cup {p} \in SUBSET Peers
      BY DEF TInv, TypeOK
    <3> QED BY <3>1, ResponderIs
  <2> HIDE DEF responder
  <2>2. consumed' \in [0 .. N - 1 -> 0 .. requests]
    BY <1>1, Constants DEF PeerConsumes, Consume, TInv, TypeOK
  <2>3. chosen' \in [1 .. MaxRequests -> SUBSET (Peers \cup {MAX_PLRS})]
    BY <1>1, <2>1 DEF PeerConsumes, TInv, TypeOK, responder
  <2>4. sendDelta' \subseteq Peers
    BY <1>1 DEF PeerConsumes, TInv, TypeOK
  <2> QED BY <1>1, <2>2, <2>3, <2>4 DEF PeerConsumes, importVars, TInv, TypeOK, Buffered
<1>2. CASE Answer(p)
  <2>1. Export(p) \in Seq(PacketsType) /\ net \in [Peers -> Seq(PacketsType)]
    BY ExportType, SeqMonotone, PacketTypes DEF TInv, TypeOK
  <2>2. net[p] \o Export(p) \in Seq(PacketsType)
    BY <2>1
  <2>3. net' \in [Peers -> Seq(PacketsType)]
    BY <1>2, <2>1, <2>2 DEF Answer
  <2> QED BY <1>2, <2>3 DEF Answer, importVars, TInv, TypeOK, Buffered
<1>3. CASE Crash(p)
  <2>1. PICK k \in 0 .. Len(net[p]) : net' = [net EXCEPT ![p] = SubSeq(@, 1, k)]
    BY <1>3 DEF Crash
  <2>2. net \in [Peers -> Seq(PacketsType)]
    BY DEF TInv, TypeOK
  <2>3. SubSeq(net[p], 1, k) \in Seq(PacketsType)
    <3>1. net[p] \in Seq(PacketsType) /\ k \in Nat /\ k <= Len(net[p]) /\ Len(net[p]) \in Nat
      BY <2>2
    <3> QED BY <3>1
  <2>4. net' \in [Peers -> Seq(PacketsType)]
    BY <2>1, <2>2, <2>3
  <2>5. faults' \in 0 .. MaxFaults /\ alive' \subseteq Peers
    BY <1>3, ParametersAssumption DEF Crash, TInv, TypeOK
  <2> QED BY <1>3, <2>4, <2>5 DEF Crash, importVars, requestVars, TInv, TypeOK, Buffered
<1>4. CASE Leave(p)
  <2>1. net' \in [Peers -> Seq(PacketsType)]
    BY <1>4, AppendDisconnect DEF Leave
  <2>2. faults' \in 0 .. MaxFaults /\ alive' \subseteq Peers /\ out' \subseteq Peers
    BY <1>4, ParametersAssumption DEF Leave, TInv, TypeOK
  <2> QED BY <1>4, <2>1, <2>2 DEF Leave, importVars, requestVars, TInv, TypeOK, Buffered
<1>5. CASE InfoTimeout(p)
  <2>1. /\ connected' \subseteq Peers
        /\ queue' \in Seq(ChunksType)
        /\ net' \in [Peers -> Seq(PacketsType)]
        /\ gbDeltaSender' \in 0 .. N - 1 \cup {MAX_PLRS}
    BY <1>5, ForgetTypes DEF InfoTimeout, TInv, TypeOK
  <2>2. faults' \in 0 .. MaxFaults /\ out' \subseteq Peers
    BY <1>5, ParametersAssumption DEF InfoTimeout, TInv, TypeOK
  <2> QED BY <1>5, <2>1, <2>2 DEF InfoTimeout, requestVars, TInv, TypeOK, Buffered
<1>6. ASSUME NEW q \in Peers \ {p}, Drop(q, p)
      PROVE  TInv'
  <2>1. net' \in [Peers -> Seq(PacketsType)]
    BY <1>6, AppendDisconnect DEF Drop
  <2>2. faults' \in 0 .. MaxFaults /\ knows' \in [Peers -> SUBSET Peers] /\ out' \subseteq Peers
    BY <1>6, ParametersAssumption DEF Drop, TInv, TypeOK
  <2> QED BY <1>6, <2>1, <2>2 DEF Drop, importVars, TInv, TypeOK, Buffered
<1>7. ASSUME NEW q \in Peers \ {p}, PeerLearns(q, p)
      PROVE  TInv'
  <2>1. knows' \in [Peers -> SUBSET Peers]
    BY <1>7 DEF PeerLearns, TInv, TypeOK
  <2> QED BY <1>7, <2>1 DEF PeerLearns, importVars, TInv, TypeOK, Buffered
<1> QED BY <1>1, <1>2, <1>3, <1>4, <1>5, <1>6, <1>7

LEMMA TInvNext == TInv /\ [Next]_vars => TInv'
<1> SUFFICES ASSUME TInv, [Next]_vars PROVE TInv'
  OBVIOUS
<1>1. CASE JoinerStep
  BY <1>1, TInvJoiner
<1>2. CASE \E p \in Peers : Receive(p)
  BY <1>2, TInvReceive
<1>3. ASSUME NEW p \in Peers,
             \/ PeerConsumes(p)
             \/ Answer(p)
             \/ Crash(p)
             \/ Leave(p)
             \/ InfoTimeout(p)
             \/ \E q \in Peers \ {p} : Drop(q, p) \/ PeerLearns(q, p)
      PROVE  TInv'
  BY <1>3, TInvPeer
<1>4. CASE UNCHANGED vars
  BY <1>4 DEF vars, importVars, requestVars, TInv, TypeOK, Buffered
<1> QED BY <1>1, <1>2, <1>3, <1>4 DEF Next

--------------------------------------------------------------------------------
(* What is underway.                                                           *)

\* The number of messages that a player sends of its state.
Total == NumLevelChunks + 2

\* Nothing of the state is in a channel.
Silent(channel) == \A i \in 1 .. Len(channel) : channel[i].cmd = "PT_DISCONNECT"

\* In a channel are messages that follow the first m that s sends, between leaves.
Underway(s, m, channel) ==
    \E a \in 0 .. Len(channel), b \in 0 .. Len(channel) :
        /\ a <= b /\ m + (b - a) <= Total
        /\ \A i \in 1 .. Len(channel) :
               IF i <= a \/ i > b THEN channel[i].cmd = "PT_DISCONNECT"
                                  ELSE channel[i] = Export(s)[m + (i - a)]

LEMMA TotalIs == Total \in Nat /\ NumLevelChunks \in Nat /\ NumLevelChunks + 2 = Total
BY ChunkNumbers DEF Total

\* Silent channels stay silent as their ends are cut off or a leave is added.
LEMMA SilentChannels ==
    ASSUME NEW S, NEW channel \in Seq(S), Silent(channel)
    PROVE  /\ \A k \in 0 .. Len(channel) : Silent(SubSeq(channel, 1, k))
           /\ channel # <<>> => Silent(Tail(channel))
           /\ \A p : Silent(Append(channel, Disconnect(p)))
           /\ \A s : \A m \in 0 .. Total : Underway(s, m, channel)
<1>1. \A k \in 0 .. Len(channel) : Silent(SubSeq(channel, 1, k))
  BY DEF Silent
<1>2. channel # <<>> => Silent(Tail(channel))
  BY DEF Silent
<1>3. ASSUME NEW p
      PROVE  Silent(Append(channel, Disconnect(p)))
  <2>1. Disconnect(p).cmd = "PT_DISCONNECT"
    BY DEF Disconnect
  <2>2. Append(channel, Disconnect(p)) \in Seq(S \cup {Disconnect(p)})
    <3>1. channel \in Seq(S \cup {Disconnect(p)})
      BY SeqMonotone
    <3> QED BY <3>1
  <2>3. Len(Append(channel, Disconnect(p))) = Len(channel) + 1 /\ Len(channel) \in Nat
    OBVIOUS
  <2>4. ASSUME NEW i \in 1 .. Len(channel) + 1
        PROVE  Append(channel, Disconnect(p))[i]
                   = IF i = Len(channel) + 1 THEN Disconnect(p) ELSE channel[i]
    BY <2>3
  <2>5. \A i \in 1 .. Len(channel) + 1 : i # Len(channel) + 1 => i \in 1 .. Len(channel)
    BY <2>3
  <2> QED BY <2>1, <2>3, <2>4, <2>5 DEF Silent
<1>4. ASSUME NEW s, NEW m \in 0 .. Total
      PROVE  Underway(s, m, channel)
  <2>1. Len(channel) \in Nat /\ Total \in Nat
    BY TotalIs
  <2>2. \A i \in 1 .. Len(channel) : i > 0
    OBVIOUS
  <2>3. /\ 0 \in 0 .. Len(channel) /\ 0 <= 0 /\ m + (0 - 0) <= Total
        /\ \A i \in 1 .. Len(channel) :
               IF i <= 0 \/ i > 0 THEN channel[i].cmd = "PT_DISCONNECT"
                                  ELSE channel[i] = Export(s)[m + (i - 0)]
    BY <2>1, <2>2 DEF Silent
  <2> QED BY <2>3 DEF Underway
<1> QED BY <1>1, <1>2, <1>3, <1>4

\* What is lost at the end of a channel or a leave after what was sent changes nothing.
LEMMA UnderwayPrefix ==
    ASSUME NEW S, NEW channel \in Seq(S), NEW k \in 0 .. Len(channel), NEW s, NEW m \in Nat,
           Underway(s, m, channel)
    PROVE  Underway(s, m, SubSeq(channel, 1, k))
<1> DEFINE rest == SubSeq(channel, 1, k)
<1>1. /\ Len(rest) = k /\ k \in Nat /\ k <= Len(channel)
      /\ \A i \in 1 .. k : rest[i] = channel[i] /\ i \in 1 .. Len(channel)
  OBVIOUS
<1>2. PICK a \in 0 .. Len(channel), b \in 0 .. Len(channel) :
        /\ a <= b /\ m + (b - a) <= Total
        /\ \A i \in 1 .. Len(channel) :
               IF i <= a \/ i > b THEN channel[i].cmd = "PT_DISCONNECT"
                                  ELSE channel[i] = Export(s)[m + (i - a)]
  BY DEF Underway
<1> HIDE DEF rest
<1> DEFINE Fits(x, y) ==
             /\ x \in 0 .. k /\ y \in 0 .. k /\ x <= y /\ y - x <= b - a
             /\ \A i \in 1 .. k : IF i <= x \/ i > y THEN i <= a \/ i > b
                                                  ELSE i > a /\ i <= b /\ x = a
<1>3. ASSUME NEW x, NEW y, Fits(x, y)
      PROVE  Underway(s, m, rest)
  <2>1. ASSUME NEW i \in 1 .. k
        PROVE  IF i <= x \/ i > y THEN rest[i].cmd = "PT_DISCONNECT"
                                  ELSE rest[i] = Export(s)[m + (i - x)]
    <3>1. rest[i] = channel[i] /\ i \in 1 .. Len(channel)
      BY <1>1
    <3>2. CASE i <= x \/ i > y
      BY <1>2, <1>3, <3>1, <3>2
    <3>3. CASE ~ (i <= x \/ i > y)
      <4>1. i > a /\ i <= b /\ x = a
        BY <1>3, <3>3
      <4>2. ~ (i <= a \/ i > b)
        BY <4>1
      <4> QED BY <1>2, <3>1, <3>3, <4>1, <4>2
    <3> QED BY <3>2, <3>3
  <2>2. x \in 0 .. Len(rest) /\ y \in 0 .. Len(rest) /\ m + (y - x) <= Total
    BY <1>1, <1>2, <1>3, TotalIs
  <2>3. Len(rest) = k
    BY <1>1
  <2> QED BY <1>3, <2>1, <2>2, <2>3 DEF Underway
<1> HIDE DEF Fits
<1>4. CASE k < a
  <2>1. Fits(k, k)
    BY <1>1, <1>2, <1>4 DEF Fits
  <2> QED BY <1>3, <2>1 DEF rest
<1>5. CASE a <= k /\ k < b
  <2>1. Fits(a, k)
    BY <1>1, <1>2, <1>5 DEF Fits
  <2> QED BY <1>3, <2>1 DEF rest
<1>6. CASE a <= k /\ b <= k
  <2>1. Fits(a, b)
    BY <1>1, <1>2, <1>6 DEF Fits
  <2> QED BY <1>3, <2>1 DEF rest
<1> QED BY <1>1, <1>4, <1>5, <1>6

LEMMA UnderwayAppend ==
    ASSUME NEW S, NEW channel \in Seq(S), NEW s, NEW p, NEW m \in Nat, Underway(s, m, channel)
    PROVE  Underway(s, m, Append(channel, Disconnect(p)))
<1> DEFINE longer == Append(channel, Disconnect(p))
<1>1. Len(longer) = Len(channel) + 1 /\ Len(channel) \in Nat
  OBVIOUS
<1>2. \A i \in 1 .. Len(channel) : longer[i] = channel[i]
  OBVIOUS
<1>3. longer[Len(channel) + 1].cmd = "PT_DISCONNECT"
  BY DEF Disconnect
<1>4. PICK a \in 0 .. Len(channel), b \in 0 .. Len(channel) :
        /\ a <= b /\ m + (b - a) <= Total
        /\ \A i \in 1 .. Len(channel) :
               IF i <= a \/ i > b THEN channel[i].cmd = "PT_DISCONNECT"
                                  ELSE channel[i] = Export(s)[m + (i - a)]
  BY DEF Underway
<1> HIDE DEF longer
<1>5. ASSUME NEW i \in 1 .. Len(longer)
      PROVE  IF i <= a \/ i > b THEN longer[i].cmd = "PT_DISCONNECT"
                                ELSE longer[i] = Export(s)[m + (i - a)]
  <2>1. CASE i = Len(channel) + 1
    BY <1>1, <1>3, <2>1
  <2>2. CASE i # Len(channel) + 1
    <3>1. i \in 1 .. Len(channel)
      BY <1>1, <2>2
    <3> QED BY <1>2, <1>4, <3>1
  <2> QED BY <2>1, <2>2
<1>6. a \in 0 .. Len(longer) /\ b \in 0 .. Len(longer)
  BY <1>1
<1> QED BY <1>4, <1>5, <1>6 DEF Underway, longer

\* The first packet of a channel is a leave, or the next message that s sends.
LEMMA UnderwayTail ==
    ASSUME NEW channel \in Seq(PacketsType), channel # <<>>, NEW s \in Peers, NEW m \in Nat,
           Underway(s, m, channel)
    PROVE  IF Head(channel).cmd = "PT_DISCONNECT" THEN Underway(s, m, Tail(channel))
           ELSE /\ Head(channel) = Export(s)[m + 1] /\ m + 1 <= Total
                /\ Underway(s, m + 1, Tail(channel))
<1> DEFINE rest == Tail(channel)
<1>1. /\ Len(channel) \in Nat \ {0} /\ Head(channel) = channel[1]
      /\ Len(rest) = Len(channel) - 1
      /\ \A i \in 1 .. Len(rest) : rest[i] = channel[i + 1] /\ i + 1 \in 1 .. Len(channel)
  OBVIOUS
<1>2. PICK a \in 0 .. Len(channel), b \in 0 .. Len(channel) :
        /\ a <= b /\ m + (b - a) <= Total
        /\ \A i \in 1 .. Len(channel) :
               IF i <= a \/ i > b THEN channel[i].cmd = "PT_DISCONNECT"
                                  ELSE channel[i] = Export(s)[m + (i - a)]
  BY DEF Underway
<1>3. IF 1 <= a \/ 1 > b THEN Head(channel).cmd = "PT_DISCONNECT"
                         ELSE Head(channel) = Export(s)[m + 1] /\ m + 1 <= Total
  <2>1. 1 \in 1 .. Len(channel) /\ Total \in Nat
    BY <1>1, TotalIs
  <2>2. ~ (1 <= a \/ 1 > b) => a = 0 /\ m + (1 - a) = m + 1 /\ m + 1 <= Total
    BY <1>2, <2>1
  <2> QED BY <1>1, <1>2, <2>1, <2>2
<1>4. ~ (1 <= a \/ 1 > b) => Head(channel).cmd # "PT_DISCONNECT"
  <2> SUFFICES ASSUME ~ (1 <= a \/ 1 > b) PROVE Head(channel).cmd # "PT_DISCONNECT"
    OBVIOUS
  <2>1. m + 1 \in 1 .. NumLevelChunks + 2
    BY <1>3, TotalIs
  <2> QED BY <1>3, <2>1, ExportType
<1> HIDE DEF rest
<1> DEFINE Fits(x, y, z) ==
             /\ x \in 0 .. Len(rest) /\ y \in 0 .. Len(rest) /\ x <= y /\ z + (y - x) <= Total
             /\ \A i \in 1 .. Len(rest) :
                    IF i <= x \/ i > y THEN i + 1 <= a \/ i + 1 > b
                    ELSE ~ (i + 1 <= a \/ i + 1 > b) /\ z + (i - x) = m + ((i + 1) - a)
<1>5. ASSUME NEW x, NEW y, NEW z, Fits(x, y, z)
      PROVE  Underway(s, z, rest)
  <2>1. ASSUME NEW i \in 1 .. Len(rest)
        PROVE  IF i <= x \/ i > y THEN rest[i].cmd = "PT_DISCONNECT"
                                  ELSE rest[i] = Export(s)[z + (i - x)]
    <3>1. rest[i] = channel[i + 1] /\ i + 1 \in 1 .. Len(channel)
      BY <1>1
    <3>2. IF i <= x \/ i > y THEN i + 1 <= a \/ i + 1 > b
                    ELSE ~ (i + 1 <= a \/ i + 1 > b) /\ z + (i - x) = m + ((i + 1) - a)
      BY <1>5
    <3>3. IF i + 1 <= a \/ i + 1 > b THEN channel[i + 1].cmd = "PT_DISCONNECT"
                                  ELSE channel[i + 1] = Export(s)[m + ((i + 1) - a)]
      BY <1>2, <3>1
    <3> QED BY <3>1, <3>2, <3>3
  <2> QED BY <1>5, <2>1 DEF Underway
<1> HIDE DEF Fits
<1>6. CASE 1 <= a
  <2>1. Fits(a - 1, b - 1, m)
    BY <1>1, <1>2, <1>6 DEF Fits
  <2> QED BY <1>3, <1>5, <1>6, <2>1 DEF rest
<1>7. CASE a = 0 /\ b = 0
  <2>1. Fits(0, 0, m)
    BY <1>1, <1>2, <1>7 DEF Fits
  <2> QED BY <1>3, <1>5, <1>7, <2>1 DEF rest
<1>8. CASE a = 0 /\ b > 0
  <2>1. Fits(0, b - 1, m + 1)
    BY <1>1, <1>2, <1>8, TotalIs DEF Fits
  <2>2. ~ (1 <= a \/ 1 > b)
    BY <1>8
  <2> QED BY <1>3, <1>4, <1>5, <2>1, <2>2 DEF rest
<1> QED BY <1>2, <1>6, <1>7, <1>8

LEMMA UnderwayAnswer ==
    ASSUME NEW channel \in Seq(PacketsType), NEW s \in Peers, Silent(channel)
    PROVE  Underway(s, 0, channel \o Export(s))
<1> DEFINE longer == channel \o Export(s)
           a == Len(channel)
<1>1. Export(s) \in Seq(PacketsType) /\ Len(Export(s)) = Total /\ a \in Nat /\ Total \in Nat
  BY ExportType, SeqMonotone, PacketTypes, TotalIs
<1>2. Len(longer) = a + Total
  BY <1>1
<1>3. \A i \in 1 .. Len(longer) : longer[i] = IF i <= a THEN channel[i] ELSE Export(s)[i - a]
  BY <1>1
<1> HIDE DEF longer
<1>4. ASSUME NEW i \in 1 .. Len(longer)
      PROVE  IF i <= a \/ i > a + Total THEN longer[i].cmd = "PT_DISCONNECT"
                                ELSE longer[i] = Export(s)[0 + (i - a)]
  BY <1>1, <1>2, <1>3 DEF Silent
<1>5. /\ a \in 0 .. Len(longer) /\ a + Total \in 0 .. Len(longer) /\ a <= a + Total
      /\ 0 + ((a + Total) - a) <= Total
  BY <1>1, <1>2
<1>6. Underway(s, 0, longer)
  <2> HIDE DEF a
  <2> QED BY <1>4, <1>5 DEF Underway
<1> QED BY <1>6 DEF longer

--------------------------------------------------------------------------------
(* The inductive invariant.                                                    *)

\* Players that the joiner counts as gone.
Left == Peers \ connected

\* Whoever was to answer a former request is gone, or nobody was left to answer it.
Past ==
    /\ \A r \in requests + 1 .. MaxRequests : chosen[r] = {}
    /\ \A r \in 1 .. requests - 1 :
           chosen[r] \cap Left # {} \/ (r <= consumed[Joiner] /\ MAX_PLRS \in chosen[r])

\* The joiner waits for the one that was found to answer its request.
SenderOK ==
    /\ gbDeltaSender \in Peers => gbDeltaSender \in connected \cap chosen[requests]
    /\ gbDeltaSender = MAX_PLRS =>
           \/ chosen[requests] \cap Left # {}
           \/ consumed[Joiner] = requests /\ MAX_PLRS \in chosen[requests]

\* p has sent the state for the last request.
Answered(p) == p \in chosen[requests] /\ consumed[p] = requests /\ p \notin sendDelta

\* Only who answers the last request sends.
Sources(channels) ==
    \A p \in connected :
        /\ p \in sendDelta => p \in chosen[requests] /\ consumed[p] = requests
        /\ Answered(p) \/ Silent(channels[p])

Fresh ==
    /\ sgbRecvCmd = "CMD_DLEVEL_END"
    /\ phase = "owner" => sgbDeltaChunks = 0
    /\ phase = "process" => sgbDeltaChunks = 1

\* The first n messages of s are handled: v levels and k chunks of the next one.
InLevel(s, n, v, k) ==
    /\ n = v * LevelChunks + k
    /\ sgbRecvCmd = "CMD_DLEVEL"
    /\ recvBuf = [i \in 1 .. k |-> Chunk("CMD_DLEVEL", s, Lev(v + 1), i - 1)]
    /\ \A i \in 1 .. v : imported[Lev(i)] = s
    /\ sgbDeltaChunks = 1 + v

InJunk(s, n) ==
    /\ n = NumLevelChunks + 1
    /\ sgbRecvCmd = "CMD_DLEVEL_JUNK"
    /\ recvBuf = ChunksOf(s, "junk")
    /\ \A level \in Levels : imported[level] = s
    /\ sgbDeltaChunks = 1 + MaxMultiplayerLevels

AtEnd(s, n) ==
    /\ n = Total
    /\ sgbRecvCmd = "CMD_DLEVEL_END"
    /\ \A part \in Parts : imported[part] = s
    /\ sgbDeltaChunks \in {MaxChunks - 1, MaxChunks}

InSomeLevel(s, n) ==
    \E v \in 0 .. MaxMultiplayerLevels - 1, k \in 1 .. LevelChunks : InLevel(s, n, v, k)

Received(s, n) ==
    IF n = 0 THEN Fresh
    ELSE /\ phase # "owner" /\ gbDeltaSender = s
         /\ InSomeLevel(s, n) \/ InJunk(s, n) \/ AtEnd(s, n)

\* What s sent after the first n messages is in the queue.
Queued(s, n) ==
    /\ n + Len(queue) <= Total
    /\ \A i \in 1 .. Len(queue) : queue[i] = Export(s)[n + i]

\* The first n messages of s are handled, and the others follow.
Progress(s, n, channel) ==
    /\ n > 0 => Answered(s)
    /\ Received(s, n) /\ Queued(s, n)
    /\ Underway(s, n + Len(queue), channel)

Transfer(channels) ==
    phase \in {"owner", "process", "cancelled"} =>
        /\ gbDeltaSender = Joiner => Fresh
        /\ \A i \in 1 .. Len(queue) : queue[i].src \in connected /\ Answered(queue[i].src)
        /\ \A s \in connected \cap chosen[requests] :
               \E n \in 0 .. Total : Progress(s, n, channels[s])

\* The state is that of one player, which sends nothing more.
Done(channels) ==
    phase = "done" =>
        \E s \in chosen[requests] \cap Peers :
            /\ \A part \in Parts : imported[part] = s
            /\ queue = <<>>
            /\ s \in connected => Answered(s) /\ Silent(channels[s])

Inv(channels) ==
    /\ phase # "failed"
    /\ Past /\ SenderOK /\ Sources(channels) /\ Transfer(channels) /\ Done(channels)

IInv == TInv /\ (Agreed => Inv(net))

LEMMA PlayersFinite == IsFiniteSet(Peers \cup {MAX_PLRS})
<1>1. N - 2 \in Int
  BY Constants
<1>2. IsFiniteSet(Peers)
  BY <1>1, FS_Interval DEF Peers
<1> QED BY <1>2, FS_AddElement

\* A finite set with at most one element has no two.
LEMMA FewInSet ==
    ASSUME NEW S, IsFiniteSet(S), Cardinality(S) <= 1, NEW x \in S, NEW y \in S
    PROVE  x = y
<1> SUFFICES ASSUME x # y PROVE FALSE
  OBVIOUS
<1>1. IsFiniteSet({x}) /\ Cardinality({x}) = 1
  BY FS_Singleton
<1>2. IsFiniteSet({x, y}) /\ Cardinality({x, y}) = 2
  <2>1. {x, y} = {x} \cup {y}
    OBVIOUS
  <2>2. Cardinality({x} \cup {y}) = Cardinality({x}) + 1 /\ IsFiniteSet({x} \cup {y})
    BY <1>1, FS_AddElement
  <2> QED BY <1>1, <2>1, <2>2
<1>3. Cardinality({x, y}) <= Cardinality(S)
  <2>1. {x, y} \subseteq S
    OBVIOUS
  <2> QED BY <2>1, FS_Subset
<1>4. Cardinality(S) \in Nat
  BY FS_CardinalityType
<1> QED BY <1>2, <1>3, <1>4

\* The programs agree: what two of them found is the same.
LEMMA AgreedUnique ==
    ASSUME TInv, Agreed, NEW r \in 1 .. MaxRequests, NEW x \in chosen[r], NEW y \in chosen[r]
    PROVE  x = y
<1>1. IsFiniteSet(chosen[r])
  BY PlayersFinite, FS_Subset DEF TInv, TypeOK
<1>2. Cardinality(chosen[r]) <= 1
  BY DEF Agreed
<1> QED BY <1>1, <1>2, FewInSet

\* No program forgets what it found.
LEMMA AgreedBefore ==
    ASSUME TInv, TInv', [Next]_vars, Agreed'
    PROVE  Agreed
<1>1. ASSUME NEW r \in 1 .. MaxRequests
      PROVE  chosen[r] \subseteq chosen'[r]
  <2>1. CASE JoinerConsumes
    BY <2>1 DEF JoinerConsumes, TInv, TypeOK
  <2>2. ASSUME NEW p \in Peers, PeerConsumes(p)
        PROVE  chosen[r] \subseteq chosen'[r]
    BY <2>2 DEF PeerConsumes, TInv, TypeOK
  <2>3. CASE chosen' = chosen
    BY <2>3
  <2>4. CASE UNCHANGED vars
    BY <2>4 DEF vars, requestVars
  <2>5. CASE JoinerStep
    BY <2>1, <2>3, <2>5 DEF JoinerStep, HandleMessage, Distrust, OwnerReady, AskAgain, NearlyDone,
       Return, Cancel, requestVars
  <2>6. ASSUME NEW p \in Peers,
              \/ Answer(p)
              \/ Crash(p)
              \/ Leave(p)
              \/ Receive(p)
              \/ InfoTimeout(p)
              \/ \E q \in Peers \ {p} : Drop(q, p) \/ PeerLearns(q, p)
        PROVE  chosen[r] \subseteq chosen'[r]
    BY <2>6 DEF Answer, Crash, Leave, Receive, InfoTimeout, Drop, PeerLearns, requestVars
  <2> QED BY <2>2, <2>4, <2>5, <2>6 DEF Next
<1>4. ASSUME NEW r \in 1 .. MaxRequests
      PROVE  Cardinality(chosen[r]) <= 1
  <2>2. IsFiniteSet(chosen'[r])
    BY PlayersFinite, FS_Subset DEF TInv, TypeOK
  <2>3. IsFiniteSet(chosen[r]) /\ Cardinality(chosen[r]) <= Cardinality(chosen'[r])
    BY <1>1, <2>2, FS_Subset
  <2>4. Cardinality(chosen[r]) \in Nat /\ Cardinality(chosen'[r]) \in Nat
    BY <2>2, <2>3, FS_CardinalityType
  <2>5. Cardinality(chosen'[r]) <= 1
    BY DEF Agreed
  <2> QED BY <2>3, <2>4, <2>5
<1> QED BY <1>4 DEF Agreed

LEMMA AgreedUniqueAfter ==
    ASSUME TInv', Agreed', NEW r \in 1 .. MaxRequests, NEW x \in chosen'[r], NEW y \in chosen'[r]
    PROVE  x = y
<1> SUFFICES ASSUME x # y PROVE FALSE
  OBVIOUS
<1>1. IsFiniteSet(chosen'[r])
  BY PlayersFinite, FS_Subset DEF TInv, TypeOK
<1>2. Cardinality(chosen'[r]) <= 1
  BY DEF Agreed
<1> QED BY <1>1, <1>2, FewInSet

--------------------------------------------------------------------------------
(* OnLevelData of the next message of the player that sends.                   *)

\* HandleDisconnect of nobody changes nothing.
LEMMA KeepAll ==
    ASSUME TInv, NEW inbox \in Seq(ChunksType), NEW sender, Forget({}, inbox, sender, net)
    PROVE  connected' = connected /\ queue' = inbox /\ net' = net /\ gbDeltaSender' = sender
<1>1. Without(inbox, {}) = inbox
  BY WithoutNone
<1>2. net = [p \in Peers |-> net[p]]
  BY DEF TInv, TypeOK
<1> QED BY <1>1, <1>2 DEF Forget

\* A chunk that fits is appended.
LEMMA CopyFits ==
    ASSUME TInv, queue # <<>>, NEW buf, Len(buf) < RecvBufSize, Copy(Head(queue), buf, {})
    PROVE  /\ recvBuf' = Append(buf, Head(queue))
           /\ connected' = connected /\ queue' = Tail(queue) /\ net' = net
           /\ gbDeltaSender' = Head(queue).src
<1>1. Forget({}, Tail(queue), Head(queue).src, net) /\ recvBuf' = Append(buf, Head(queue))
  <2>1. {} \cap connected = {}
    OBVIOUS
  <2> QED BY <2>1 DEF Copy
<1>2. Tail(queue) \in Seq(ChunksType)
  BY MessageTypes
<1> QED BY <1>1, <1>2, KeepAll

\* All chunks of one part unpack as this part.
LEMMA ImportWhole ==
    ASSUME TInv, NEW s \in Peers, NEW part \in Parts, recvBuf = ChunksOf(s, part),
           NEW succeeds \in BOOLEAN, Import(succeeds)
    PROVE  succeeds /\ imported' = [imported EXCEPT ![part] = s]
<1>1. recvBuf[1].src = s /\ recvBuf[1].part = part
  <2>1. CASE part = "junk"
    BY <2>1 DEF ChunksOf, Chunk
  <2>2. CASE part # "junk"
    <3>1. 1 \in 1 .. LevelChunks
      BY Constants
    <3>2. recvBuf = [i \in 1 .. LevelChunks |-> Chunk("CMD_DLEVEL", s, part, i - 1)]
      BY <2>2 DEF ChunksOf
    <3> QED BY <3>1, <3>2 DEF Chunk
  <2> QED BY <2>1, <2>2
<1>2. IsWhole(recvBuf)
  BY DEF IsWhole
<1>3. s # Mixed
  BY Constants DEF Mixed, Peers
<1> QED BY <1>1, <1>2, <1>3 DEF Import

\* The message that s sends after v levels, k chunks of the next one and n messages in all.
Follows(s, n, v, k) ==
    /\ k < LevelChunks =>
           /\ n + 1 = v * LevelChunks + (k + 1)
           /\ Export(s)[n + 1] = Chunk("CMD_DLEVEL", s, Lev(v + 1), k)
    /\ k = LevelChunks /\ v < MaxMultiplayerLevels - 1 =>
           /\ n + 1 = (v + 1) * LevelChunks + 1
           /\ Export(s)[n + 1] = Chunk("CMD_DLEVEL", s, Lev(v + 2), 0)
    /\ k = LevelChunks /\ v = MaxMultiplayerLevels - 1 =>
           /\ n = NumLevelChunks
           /\ Export(s)[n + 1] = Chunk("CMD_DLEVEL_JUNK", s, "junk", 0)

\* What s sends after what is received.
LEMMA NextMessage ==
    ASSUME NEW s \in Peers
    PROVE  /\ Export(s)[0 + 1] = Chunk("CMD_DLEVEL", s, Lev(1), 0)
           /\ \A n : \A v \in 0 .. MaxMultiplayerLevels - 1, k \in 1 .. LevelChunks :
                  InLevel(s, n, v, k) => Follows(s, n, v, k)
           /\ \A n : InJunk(s, n) => /\ n + 1 = Total
                                     /\ Export(s)[n + 1] = Chunk("CMD_DLEVEL_END", s, "junk", 0)
<1> USE DEF Total
<1>1. /\ MaxMultiplayerLevels \in Nat \ {0} /\ LevelChunks \in Nat \ {0} /\ NumLevelChunks \in Nat
  BY Constants, LevelsCounted, ChunkNumbers
<1>2. Export(s)[0 + 1] = Chunk("CMD_DLEVEL", s, Lev(1), 0)
  <2>1. 0 \in 0 .. MaxMultiplayerLevels - 1 /\ 1 \in 1 .. LevelChunks
    BY <1>1
  <2>2. Export(s)[0 * LevelChunks + 1] = Chunk("CMD_DLEVEL", s, Lev(0 + 1), 1 - 1)
    BY <2>1, ExportIs
  <2>3. 0 * LevelChunks + 1 = 0 + 1 /\ 0 + 1 = 1 /\ 1 - 1 = 0
    BY <1>1
  <2> QED BY <2>2, <2>3
<1>3. ASSUME NEW n, NEW v \in 0 .. MaxMultiplayerLevels - 1, NEW k \in 1 .. LevelChunks,
             InLevel(s, n, v, k)
      PROVE  Follows(s, n, v, k)
  <2>1. n = v * LevelChunks + k /\ v \in Nat /\ k \in Nat
    BY <1>1, <1>3 DEF InLevel
  <2>2. v * LevelChunks \in Nat /\ (v + 1) * LevelChunks = v * LevelChunks + LevelChunks
    BY <1>1, <2>1, ChunkNumbers
  <2>3. ASSUME k < LevelChunks
        PROVE  /\ n + 1 = v * LevelChunks + (k + 1)
               /\ Export(s)[n + 1] = Chunk("CMD_DLEVEL", s, Lev(v + 1), k)
    <3>1. k + 1 \in 1 .. LevelChunks /\ (k + 1) - 1 = k
      BY <1>1, <2>1, <2>3
    <3>2. n + 1 = v * LevelChunks + (k + 1)
      BY <2>1, <2>2
    <3>3. Export(s)[v * LevelChunks + (k + 1)] = Chunk("CMD_DLEVEL", s, Lev(v + 1), (k + 1) - 1)
      BY <3>1, ExportIs
    <3> QED BY <3>1, <3>2, <3>3
  <2>4. ASSUME k = LevelChunks, v < MaxMultiplayerLevels - 1
        PROVE  /\ n + 1 = (v + 1) * LevelChunks + 1
               /\ Export(s)[n + 1] = Chunk("CMD_DLEVEL", s, Lev(v + 2), 0)
    <3>1. /\ v + 1 \in 0 .. MaxMultiplayerLevels - 1 /\ 1 \in 1 .. LevelChunks
          /\ (v + 1) + 1 = v + 2 /\ 1 - 1 = 0
      BY <1>1, <2>1, <2>4
    <3>2. n + 1 = (v + 1) * LevelChunks + 1
      BY <1>1, <2>1, <2>2, <2>4
    <3>3. Export(s)[(v + 1) * LevelChunks + 1] = Chunk("CMD_DLEVEL", s, Lev((v + 1) + 1), 1 - 1)
      BY <3>1, ExportIs
    <3> QED BY <3>1, <3>2, <3>3
  <2>5. ASSUME k = LevelChunks, v = MaxMultiplayerLevels - 1
        PROVE  /\ n = NumLevelChunks
               /\ Export(s)[n + 1] = Chunk("CMD_DLEVEL_JUNK", s, "junk", 0)
    BY <2>1, <2>5, ChunkNumbers, ExportIs
  <2> QED BY <2>3, <2>4, <2>5 DEF Follows
<1>4. ASSUME NEW n, InJunk(s, n)
      PROVE  n + 1 = Total /\ Export(s)[n + 1] = Chunk("CMD_DLEVEL_END", s, "junk", 0)
  <2>1. n = NumLevelChunks + 1 /\ n + 1 = NumLevelChunks + 2
    BY <1>1, <1>4 DEF InJunk
  <2> QED BY <2>1, ExportIs
<1> QED BY <1>2, <1>3, <1>4

\* The first message in the queue is taken and nothing else moves.
Takes(s) ==
    gbDeltaSender' = s /\ connected' = connected /\ queue' = Tail(queue) /\ net' = net

\* OnLevelData of the first chunk of the first level.
LEMMA FirstStep ==
    ASSUME TInv, queue # <<>>, phase = "process", phase' = phase, NEW s \in Peers, Fresh,
           Head(queue) = Export(s)[0 + 1], OnLevelData(Head(queue))
    PROVE  Takes(s) /\ Received(s, 1)'
<1> DEFINE message == Head(queue)
<1>1. /\ message.cmd = "CMD_DLEVEL" /\ message.src = s /\ message.offset = 0
      /\ message = Chunk("CMD_DLEVEL", s, Lev(1), 0) /\ message \in ChunksType
  <2>1. message = Chunk("CMD_DLEVEL", s, Lev(1), 0)
    BY NextMessage
  <2>2. message \in ChunksType
    BY MessageTypes
  <2> HIDE DEF message
  <2> QED BY <2>1, <2>2 DEF Chunk
<1>2. RecvCmd(message) = "CMD_DLEVEL_END" /\ StartsState(message)
  <2> HIDE DEF message
  <2>1. RecvCmd(message) = "CMD_DLEVEL_END"
    BY DEF RecvCmd, Fresh
  <2> QED BY <1>1, <2>1 DEF StartsState
<1>3. FirstChunk(message)
  <2> HIDE DEF message
  <2> SUFFICES ASSUME OnLevelData(message) PROVE FirstChunk(message)
    BY DEF message
  <2> QED BY <1>1, <1>2 DEF OnLevelData, SkipChunk, EndAtOnce, NextChunk, NextPart, LastPart
<1>4. Len(<<>>) < RecvBufSize /\ 0 \in 0 .. MaxMultiplayerLevels - 1 /\ 1 \in 1 .. LevelChunks
      /\ LevelChunks \in Nat
  BY Constants, LevelsCounted DEF RecvBufSize
<1>5. /\ recvBuf' = Append(<<>>, message) /\ sgbRecvCmd' = message.cmd
      /\ UNCHANGED <<sgbDeltaChunks, imported>> /\ Takes(s)
  BY <1>1, <1>3, <1>4, CopyFits DEF FirstChunk, Takes
<1>6. recvBuf' = [i \in 1 .. 1 |-> Chunk("CMD_DLEVEL", s, Lev(0 + 1), i - 1)]
  <2> HIDE DEF message
  <2>1. recvBuf' = <<message>> /\ 0 + 1 = 1 /\ 1 - 1 = 0
    BY <1>5
  <2>2. <<message>> = [i \in 1 .. 1 |-> message]
    OBVIOUS
  <2>3. \A i \in 1 .. 1 : message = Chunk("CMD_DLEVEL", s, Lev(0 + 1), i - 1)
    BY <1>1, <2>1
  <2> QED BY <2>1, <2>2, <2>3
<1>7. sgbDeltaChunks' = 1 + 0 /\ 1 = 0 * LevelChunks + 1
  BY <1>4, <1>5 DEF Fresh
<1>8. InLevel(s, 1, 0, 1)'
  BY <1>1, <1>5, <1>6, <1>7 DEF InLevel
<1> QED BY <1>4, <1>5, <1>8 DEF Received, Takes, InSomeLevel

\* OnLevelData of a further chunk of a level.
LEMMA InLevelStep ==
    ASSUME TInv, queue # <<>>, phase = "process", phase' = phase, NEW s \in Peers,
           gbDeltaSender = s, NEW n \in 0 .. Total,
           NEW v \in 0 .. MaxMultiplayerLevels - 1, NEW k \in 1 .. LevelChunks,
           InLevel(s, n, v, k), k < LevelChunks,
           Head(queue) = Export(s)[n + 1], OnLevelData(Head(queue))
    PROVE  Takes(s) /\ Received(s, n + 1)'
<1> DEFINE message == Head(queue)
<1>1. n + 1 = v * LevelChunks + (k + 1) /\ message = Chunk("CMD_DLEVEL", s, Lev(v + 1), k)
  BY NextMessage DEF Follows
<1>2. /\ message.cmd = "CMD_DLEVEL" /\ message.src = s /\ message.offset = k /\ message \in ChunksType
      /\ k # 0 /\ k \in Nat
  BY <1>1, MessageTypes DEF Chunk
<1>3. RecvCmd(message) = "CMD_DLEVEL" /\ ~ EndsPart(message)
  BY <1>2 DEF RecvCmd, InLevel, EndsPart
<1>4. NextChunk(message)
  <2> HIDE DEF message
  <2> SUFFICES ASSUME OnLevelData(message) PROVE NextChunk(message)
    BY DEF message
  <2> QED BY <1>2, <1>3 DEF OnLevelData, SkipChunk, FirstChunk, EndAtOnce, NextPart, LastPart
<1>5. recvBuf = [i \in 1 .. k |-> Chunk("CMD_DLEVEL", s, Lev(v + 1), i - 1)]
  BY DEF InLevel
<1>6. Len(recvBuf) = k /\ Len(recvBuf) < RecvBufSize
  BY <1>2, <1>5 DEF RecvBufSize
<1>7. /\ recvBuf' = Append(recvBuf, message)
      /\ UNCHANGED <<sgbRecvCmd, sgbDeltaChunks, imported>> /\ Takes(s)
  BY <1>2, <1>4, <1>6, CopyFits DEF NextChunk, Takes
<1>8. recvBuf' = [i \in 1 .. k + 1 |-> Chunk("CMD_DLEVEL", s, Lev(v + 1), i - 1)]
  <2> DEFINE f == [i \in 1 .. k + 1 |-> Chunk("CMD_DLEVEL", s, Lev(v + 1), i - 1)]
  <2> HIDE DEF message
  <2>1. recvBuf \in Seq(ChunksType) /\ message \in ChunksType
    BY <1>2 DEF TInv, TypeOK
  <2>2. Append(recvBuf, message) = [i \in 1 .. k + 1 |-> IF i <= k THEN recvBuf[i] ELSE message]
    <3> DEFINE longer == Append(recvBuf, message)
    <3>1. longer \in Seq(ChunksType) /\ Len(longer) = k + 1
      BY <1>2, <1>6, <2>1
    <3>2. \A i \in 1 .. k + 1 : longer[i] = IF i <= k THEN recvBuf[i] ELSE message
      BY <1>2, <1>6, <2>1
    <3> HIDE DEF longer
    <3>3. longer = [i \in 1 .. Len(longer) |-> longer[i]]
      BY <3>1
    <3> QED BY <3>1, <3>2, <3>3 DEF longer
  <2>3. ASSUME NEW i \in 1 .. k + 1
        PROVE  (IF i <= k THEN recvBuf[i] ELSE message) = Chunk("CMD_DLEVEL", s, Lev(v + 1), i - 1)
    <3>1. CASE i <= k
      BY <1>5, <3>1
    <3>2. CASE ~ (i <= k)
      <4>1. i = k + 1 /\ (k + 1) - 1 = k
        BY <1>2, <3>2
      <4> QED BY <1>1, <3>2, <4>1
    <3> QED BY <3>1, <3>2
  <2> QED BY <1>7, <2>2, <2>3
<1>9. InLevel(s, n + 1, v, k + 1)'
  BY <1>1, <1>7, <1>8 DEF InLevel
<1>10. k + 1 \in 1 .. LevelChunks /\ n + 1 # 0
  BY Constants
<1> QED BY <1>7, <1>9, <1>10 DEF Received, Takes, InSomeLevel

\* OnLevelData of the first chunk after a level that is complete.
LEMMA NextPartStep ==
    ASSUME TInv, queue # <<>>, phase = "process", phase' = phase, NEW s \in Peers,
           gbDeltaSender = s, NEW n \in 0 .. Total,
           NEW v \in 0 .. MaxMultiplayerLevels - 1,
           InLevel(s, n, v, LevelChunks),
           Head(queue) = Export(s)[n + 1], OnLevelData(Head(queue))
    PROVE  Takes(s) /\ Received(s, n + 1)'
<1> DEFINE message == Head(queue)
           C == LevelChunks
<1>1. C \in 1 .. C /\ C \in Nat /\ MaxMultiplayerLevels \in Nat \ {0} /\ v \in Nat /\ n + 1 # 0
      /\ 1 \in 1 .. C
  BY Constants, LevelsCounted
<1>2. Follows(s, n, v, C)
  BY <1>1, NextMessage
<1>3. \/ /\ v < MaxMultiplayerLevels - 1 /\ n + 1 = (v + 1) * C + 1
         /\ message = Chunk("CMD_DLEVEL", s, Lev(v + 2), 0)
      \/ /\ v = MaxMultiplayerLevels - 1 /\ n = NumLevelChunks
         /\ message = Chunk("CMD_DLEVEL_JUNK", s, "junk", 0)
  <2> HIDE DEF message
  <2>1. message = Export(s)[n + 1]
    BY DEF message
  <2> QED BY <1>1, <1>2, <2>1 DEF Follows
<1>4. message \in ChunksType
  BY MessageTypes
<1> HIDE DEF message
<1>5. /\ message.cmd \in {"CMD_DLEVEL", "CMD_DLEVEL_JUNK"} /\ message.src = s
      /\ message.offset = 0
  BY <1>3 DEF Chunk
<1>6. RecvCmd(message) = "CMD_DLEVEL" /\ EndsPart(message)
  BY <1>5 DEF RecvCmd, InLevel, EndsPart
<1>7. NextPart(message)
  <2> SUFFICES ASSUME OnLevelData(message) PROVE NextPart(message)
    BY DEF message
  <2> QED BY <1>5, <1>6 DEF OnLevelData, SkipChunk, FirstChunk, EndAtOnce, NextChunk, LastPart
<1>8. PICK succeeds \in BOOLEAN :
           /\ Import(succeeds)
           /\ sgbDeltaChunks' = IF succeeds THEN sgbDeltaChunks + 1 ELSE sgbDeltaChunks
           /\ Copy(message, <<>>, IF succeeds THEN {} ELSE {message.src})
  BY <1>7 DEF NextPart
<1>9. Lev(v + 1) \in Levels /\ Lev(v + 1) \in Parts /\ Lev(v + 1) # "junk"
  <2>1. v + 1 \in 1 .. MaxMultiplayerLevels
    BY <1>1
  <2> QED BY <2>1, LevelsCounted, ParametersAssumption DEF Parts
<1>10. recvBuf = ChunksOf(s, Lev(v + 1))
  BY <1>9 DEF InLevel, ChunksOf
<1>11. succeeds /\ imported' = [imported EXCEPT ![Lev(v + 1)] = s]
  BY <1>8, <1>9, <1>10, ImportWhole
<1>12. /\ recvBuf' = <<message>> /\ sgbDeltaChunks' = 1 + (v + 1) /\ sgbRecvCmd' = message.cmd
       /\ Takes(s)
  <2>1. Len(<<>>) < RecvBufSize
    BY Constants DEF RecvBufSize
  <2>2. Copy(Head(queue), <<>>, {})
    BY <1>8, <1>11 DEF message
  <2>3. sgbDeltaChunks' = 1 + (v + 1) /\ sgbRecvCmd' = message.cmd
    BY <1>1, <1>7, <1>8, <1>11 DEF InLevel, NextPart
  <2>4. recvBuf' = Append(<<>>, message) /\ Takes(s)
    BY <1>5, <2>1, <2>2, CopyFits DEF Takes, message
  <2> QED BY <2>3, <2>4
<1>13. \A i \in 1 .. v + 1 : imported'[Lev(i)] = s
  <2> SUFFICES ASSUME NEW i \in 1 .. v + 1 PROVE imported'[Lev(i)] = s
    OBVIOUS
  <2>1. imported \in [Parts -> Peers \cup {None, Mixed}]
    BY DEF TInv, TypeOK
  <2>2. i \in 1 .. MaxMultiplayerLevels
    BY <1>1
  <2>3. Lev(i) \in Parts
    BY <2>2, LevelsCounted DEF Parts
  <2>4. CASE i = v + 1
    BY <1>9, <1>11, <2>1, <2>4
  <2>5. CASE i # v + 1
    <3>1. i \in 1 .. v
      BY <1>1, <2>5
    <3>2. imported[Lev(i)] = s
      BY <3>1 DEF InLevel
    <3> QED BY <1>11, <2>1, <2>3, <3>2
  <2> QED BY <2>4, <2>5
<1>14. CASE v < MaxMultiplayerLevels - 1
  <2>1. n + 1 = (v + 1) * C + 1 /\ message = Chunk("CMD_DLEVEL", s, Lev(v + 2), 0)
    BY <1>1, <1>3, <1>14
  <2>2. message.cmd = "CMD_DLEVEL" /\ v + 1 \in 0 .. MaxMultiplayerLevels - 1 /\ (v + 1) + 1 = v + 2
    BY <1>1, <1>14, <2>1 DEF Chunk
  <2>3. recvBuf' = [i \in 1 .. 1 |-> Chunk("CMD_DLEVEL", s, Lev((v + 1) + 1), i - 1)]
    <3>1. <<message>> = [i \in 1 .. 1 |-> message] /\ 1 - 1 = 0
      OBVIOUS
    <3>2. \A i \in 1 .. 1 : message = Chunk("CMD_DLEVEL", s, Lev((v + 1) + 1), i - 1)
      BY <2>1, <2>2, <3>1
    <3> QED BY <1>12, <3>1, <3>2
  <2>4. InLevel(s, n + 1, v + 1, 1)'
    <3> HIDE DEF C
    <3> QED BY <1>12, <1>13, <2>1, <2>2, <2>3 DEF InLevel, C
  <2> QED BY <1>1, <1>12, <2>2, <2>4 DEF Received, Takes, InSomeLevel
<1>15. CASE ~ (v < MaxMultiplayerLevels - 1)
  <2>1. v = MaxMultiplayerLevels - 1 /\ n = NumLevelChunks
    BY <1>3, <1>15
  <2>2. message = Chunk("CMD_DLEVEL_JUNK", s, "junk", 0) /\ v + 1 = MaxMultiplayerLevels
    BY <1>1, <1>3, <1>15, <2>1
  <2>3. message.cmd = "CMD_DLEVEL_JUNK"
    BY <2>2 DEF Chunk
  <2>4. recvBuf' = ChunksOf(s, "junk")
    BY <1>12, <2>2 DEF ChunksOf
  <2>5. \A level \in Levels : imported'[level] = s
    BY <1>13, <2>2, LevelsCounted
  <2>6. InJunk(s, n + 1)'
    BY <1>12, <2>1, <2>2, <2>3, <2>4, <2>5 DEF InJunk
  <2> QED BY <1>1, <1>12, <2>6 DEF Received, Takes
<1> QED BY <1>14, <1>15

\* OnLevelData of the end mark.
LEMMA LastStep ==
    ASSUME TInv, queue # <<>>, phase = "process", phase' = phase, NEW s \in Peers,
           gbDeltaSender = s, NEW n \in 0 .. Total, InJunk(s, n),
           Head(queue) = Export(s)[n + 1], OnLevelData(Head(queue))
    PROVE  Takes(s) /\ Received(s, n + 1)'
<1> DEFINE message == Head(queue)
<1>1. n + 1 = Total /\ message = Chunk("CMD_DLEVEL_END", s, "junk", 0) /\ n + 1 # 0
  BY NextMessage
<1> HIDE DEF message
<1>2. message.cmd = "CMD_DLEVEL_END" /\ message.src = s
  BY <1>1 DEF Chunk
<1>3. RecvCmd(message) = "CMD_DLEVEL_JUNK" /\ EndsPart(message)
  BY <1>2 DEF RecvCmd, InJunk, EndsPart
<1>4. LastPart(message)
  <2> SUFFICES ASSUME OnLevelData(message) PROVE LastPart(message)
    BY DEF message
  <2> QED BY <1>2, <1>3 DEF OnLevelData, SkipChunk, FirstChunk, EndAtOnce, NextChunk, NextPart
<1>5. PICK succeeds \in BOOLEAN :
           /\ Import(succeeds)
           /\ Forget((IF succeeds THEN {} ELSE {message.src}) \cap connected, Tail(queue),
                     message.src, net)
  BY <1>4 DEF LastPart
<1>6. "junk" \in Parts /\ recvBuf = ChunksOf(s, "junk")
  BY DEF Parts, InJunk
<1>7. succeeds /\ imported' = [imported EXCEPT !["junk"] = s]
  BY <1>5, <1>6, ImportWhole
<1>8. Takes(s)
  <2>1. Forget({}, Tail(queue), s, net)
    <3>1. (IF succeeds THEN {} ELSE {message.src}) \cap connected = {}
      BY <1>7
    <3> QED BY <1>2, <1>5, <3>1
  <2>2. Tail(queue) \in Seq(ChunksType)
    BY MessageTypes
  <2> QED BY <2>1, <2>2, KeepAll DEF Takes
<1>9. \A part \in Parts : imported'[part] = s
  <2>1. imported \in [Parts -> Peers \cup {None, Mixed}]
    BY DEF TInv, TypeOK
  <2> QED BY <1>7, <2>1 DEF InJunk, Parts
<1>10. sgbRecvCmd' = "CMD_DLEVEL_END" /\ sgbDeltaChunks' = MaxChunks - 1
  BY <1>4 DEF LastPart
<1>11. AtEnd(s, n + 1)'
  BY <1>1, <1>9, <1>10 DEF AtEnd
<1> QED BY <1>1, <1>8, <1>11 DEF Received, Takes

\* A message that s sent next is handled: s sends the state, nobody is dropped, and the
\* chunk continues what is in the buffer.
LEMMA Handled ==
    ASSUME TInv, queue # <<>>, phase = "process", phase' = phase, NEW s \in Peers,
           NEW n \in 0 .. Total - 1, Received(s, n),
           Head(queue) = Export(s)[n + 1], OnLevelData(Head(queue))
    PROVE  Takes(s) /\ Received(s, n + 1)'
<1>1. n \in 0 .. Total /\ n # Total /\ LevelChunks \in Nat \ {0}
  BY TotalIs, Constants
<1>2. CASE n = 0
  <2>1. n + 1 = 0 + 1 /\ n + 1 = 1
    BY <1>2
  <2> QED BY <1>2, <2>1, FirstStep DEF Received
<1>3. CASE n # 0 /\ InSomeLevel(s, n)
  <2>1. gbDeltaSender = s
    BY <1>3 DEF Received
  <2>2. PICK v \in 0 .. MaxMultiplayerLevels - 1, k \in 1 .. LevelChunks : InLevel(s, n, v, k)
    BY <1>3 DEF InSomeLevel
  <2>3. CASE k < LevelChunks
    BY <1>1, <2>1, <2>2, <2>3, InLevelStep
  <2>4. CASE k = LevelChunks
    BY <1>1, <2>1, <2>2, <2>4, NextPartStep
  <2> QED BY <1>1, <2>3, <2>4
<1>4. CASE n # 0 /\ InJunk(s, n)
  BY <1>1, <1>4, LastStep DEF Received
<1>5. ~ AtEnd(s, n)
  BY <1>1 DEF AtEnd
<1> QED BY <1>2, <1>3, <1>4, <1>5 DEF Received

--------------------------------------------------------------------------------
(* Steps of the joiner.                                                        *)

LEMMA Players == 0 .. N - 1 = Peers \cup {Joiner} /\ Left \subseteq Peers
BY Constants DEF Peers, Joiner, Left

\* As long as nobody was found for the last request, nothing of the state arrives.
LEMMA FreshSender ==
    ASSUME TInv, Inv(net), phase \in {"owner", "process", "cancelled"}, chosen[requests] = {},
           NEW s \in connected
    PROVE  Fresh /\ Progress(s, 0, net[s])
<1>1. gbDeltaSender = Joiner
  BY Players DEF Inv, SenderOK, TInv, TypeOK
<1>2. Fresh
  BY <1>1 DEF Inv, Transfer
<1>3. ~ Answered(s) /\ \A p : ~ Answered(p)
  BY DEF Answered
<1>4. queue \in Seq(ChunksType) /\ net[s] \in Seq(PacketsType)
  BY DEF TInv, TypeOK
<1>5. Len(queue) = 0
  <2>1. \A i \in 1 .. Len(queue) : FALSE
    BY <1>3 DEF Inv, Transfer
  <2> QED BY <1>4, <2>1
<1>6. Silent(net[s])
  BY <1>3 DEF Inv, Sources
<1>7. Underway(s, 0 + Len(queue), net[s])
  <2>1. 0 \in 0 .. Total
    BY TotalIs
  <2>2. Underway(s, 0, net[s]) /\ 0 + Len(queue) = 0
    BY <1>4, <1>5, <1>6, <2>1, SilentChannels
  <2> QED BY <2>2
<1>8. Queued(s, 0)
  BY <1>5, TotalIs DEF Queued
<1> QED BY <1>2, <1>7, <1>8 DEF Progress, Received

\* The joiner only consumes its last request: whoever was found for a former one is gone,
\* and the joiner would not find it.
LEMMA JoinerConsumesKeeps ==
    ASSUME TInv, TInv', Agreed, Agreed', Inv(net), JoinerConsumes
    PROVE  Inv(net)'
<1> DEFINE responder == Responder(connected)
           k == consumed[Joiner] + 1
           R == requests
<1>1. /\ responder \in connected \cup {MAX_PLRS} /\ responder \notin Left
      /\ responder # Joiner
  BY ResponderIs, Constants DEF TInv, TypeOK, Left
<1>2. /\ k \in 1 .. requests /\ R \in 1 .. MaxRequests /\ k \in 1 .. MaxRequests
      /\ consumed' = [consumed EXCEPT ![Joiner] = k]
      /\ chosen' = [chosen EXCEPT ![k] = @ \cup {responder}]
      /\ gbDeltaSender' = responder
  <2>1. /\ consumed \in [0 .. N - 1 -> 0 .. requests] /\ requests \in 1 .. MaxRequests
        /\ consumed[Joiner] \in 0 .. requests /\ consumed[Joiner] < requests
    BY Constants DEF JoinerConsumes, Consume, TInv, TypeOK
  <2>2. consumed' = [consumed EXCEPT ![Joiner] = k]
    BY DEF JoinerConsumes, Consume
  <2>3. consumed'[Joiner] = k
    BY <2>1, <2>2, Constants
  <2>4. k \in 1 .. requests /\ k \in 1 .. MaxRequests
    BY <2>1, ParametersAssumption
  <2> QED BY <2>1, <2>2, <2>3, <2>4 DEF JoinerConsumes
<1> HIDE DEF responder, k
<1>3. /\ \A p \in Peers : consumed'[p] = consumed[p]
      /\ consumed'[Joiner] = k /\ k = consumed[Joiner] + 1
      /\ \A r \in 1 .. MaxRequests :
             chosen'[r] = IF r = k THEN chosen[r] \cup {responder} ELSE chosen[r]
      /\ chosen' \in [1 .. MaxRequests -> SUBSET (Peers \cup {MAX_PLRS})]
  BY <1>2, Constants DEF TInv, TypeOK, k
<1>4. UNCHANGED <<phase, sgbRecvCmd, sgbDeltaChunks, recvBuf, imported, connected, queue,
                  net, requests, knows, sendDelta>>
  BY DEF JoinerConsumes
<1>5. \A x \in chosen[k] : x = responder
  BY <1>2, <1>3, AgreedUniqueAfter
<1>6. k = R
  <2> SUFFICES ASSUME k # R PROVE FALSE
    OBVIOUS
  <2>1. k \in 1 .. R - 1 /\ ~ (k <= consumed[Joiner])
    BY <1>2, <1>3, Constants DEF TInv, TypeOK
  <2>2. chosen[k] \cap Left # {}
    BY <2>1 DEF Inv, Past
  <2> QED BY <1>1, <1>5, <2>2
<1>7. /\ \A p \in Peers : Answered(p) => Answered(p)'
      /\ \A p \in Peers : p \in chosen[R] => p \in chosen'[R]
  BY <1>2, <1>3, <1>4, <1>6 DEF Answered
<1>8. connected \subseteq Peers /\ MAX_PLRS \notin Peers
  BY Constants DEF TInv, TypeOK
<1>9. Past'
  <2>1. \A r \in R + 1 .. MaxRequests : chosen'[r] = {}
    <3>1. \A r \in R + 1 .. MaxRequests : r \in 1 .. MaxRequests /\ r # k
      BY <1>2, <1>6
    <3> QED BY <1>3, <3>1 DEF Inv, Past
  <2>2. ASSUME NEW r \in 1 .. R - 1
        PROVE  chosen'[r] \cap Left # {} \/ (r <= consumed'[Joiner] /\ MAX_PLRS \in chosen'[r])
    <3>1. r \in 1 .. MaxRequests /\ r # k
      BY <1>2, <1>6, ParametersAssumption
    <3>2. consumed[Joiner] \in Nat /\ consumed[Joiner] <= consumed'[Joiner] /\ r \in Nat
      BY <1>2, <1>3, Constants DEF TInv, TypeOK
    <3>3. chosen[r] \cap Left # {} \/ (r <= consumed[Joiner] /\ MAX_PLRS \in chosen[r])
      BY DEF Inv, Past
    <3> QED BY <1>3, <3>1, <3>2, <3>3
  <2> QED BY <1>4, <2>1, <2>2 DEF Past, Left
<1>10. SenderOK'
  BY <1>1, <1>2, <1>3, <1>4, <1>6, <1>8 DEF SenderOK
<1>11. Sources(net)'
  BY <1>3, <1>4, <1>7, <1>8 DEF Sources, Inv
<1>12. Transfer(net)'
  <2> SUFFICES ASSUME phase = "process" PROVE Transfer(net)'
    BY <1>4 DEF Transfer, JoinerConsumes
  <2>1. \A i \in 1 .. Len(queue) : queue[i].src \in connected /\ Answered(queue[i].src)'
    BY <1>4, <1>7, <1>8 DEF Inv, Transfer
  <2>2. ASSUME NEW s \in connected, s \in chosen'[R]
        PROVE  \E n \in 0 .. Total : Progress(s, n, net[s])'
    <3>1. s = responder /\ s \in Peers
      BY <1>2, <1>3, <1>6, <1>8, <2>2, AgreedUniqueAfter
    <3>2. CASE s \in chosen[R]
      <4>1. PICK n \in 0 .. Total : Progress(s, n, net[s])
        BY <3>2 DEF Inv, Transfer
      <4>2. (n > 0 => Answered(s)') /\ Queued(s, n)' /\ Underway(s, n + Len(queue'), net'[s])
        BY <1>4, <1>7, <3>1, <4>1 DEF Progress, Queued
      <4>3. Received(s, n)'
        BY <1>2, <1>4, <3>1, <4>1 DEF Progress, Received, Fresh, InSomeLevel, InLevel, InJunk, AtEnd
      <4> QED BY <4>2, <4>3 DEF Progress
    <3>3. CASE s \notin chosen[R]
      <4>1. chosen[R] = {}
        BY <1>5, <1>6, <3>1, <3>3
      <4>2. Fresh /\ Progress(s, 0, net[s])
        BY <4>1, FreshSender
      <4>3. Progress(s, 0, net[s])'
        <5>1. Received(s, 0)'
          BY <1>4, <4>2 DEF Received, Fresh
        <5>2. Queued(s, 0)' /\ Underway(s, 0 + Len(queue), net[s])'
          BY <1>4, <4>2 DEF Progress, Queued
        <5> QED BY <5>1, <5>2 DEF Progress
      <4> QED BY <4>3, TotalIs
    <3> QED BY <3>2, <3>3
  <2>3. gbDeltaSender' # Joiner
    BY <1>1, <1>2
  <2> QED BY <1>4, <2>1, <2>2, <2>3 DEF Transfer
<1>13. Done(net)'
  <2> SUFFICES ASSUME phase = "done" PROVE Done(net)'
    BY <1>4 DEF Done
  <2>1. PICK s \in chosen[R] \cap Peers :
            /\ \A part \in Parts : imported[part] = s
            /\ queue = <<>>
            /\ s \in connected => Answered(s) /\ Silent(net[s])
    BY DEF Inv, Done
  <2>2. s \in chosen'[R] /\ (s \in connected => Answered(s)')
    BY <1>7, <2>1
  <2> QED BY <1>4, <2>1, <2>2 DEF Done, Silent
<1> QED BY <1>4, <1>9, <1>10, <1>11, <1>12, <1>13 DEF Inv

\* What is in the queue is the next message of the player that sends.
LEMMA FirstInQueue ==
    ASSUME TInv, Agreed, Inv(net), queue # <<>>
    PROVE  /\ phase \in {"owner", "process", "cancelled"}
           /\ \E s \in connected \cap chosen[requests] : \E n \in 0 .. Total - 1 :
                  /\ Answered(s) /\ Head(queue).src = s /\ Head(queue) = Export(s)[n + 1]
                  /\ Progress(s, n, net[s])
<1>1. phase \in {"owner", "process", "cancelled"}
  BY DEF Inv, Done, TInv, TypeOK, Phases
<1>2. Len(queue) \in Nat \ {0} /\ Head(queue) = queue[1] /\ 1 \in 1 .. Len(queue)
  BY MessageTypes
<1>3. PICK s \in connected : Head(queue).src = s /\ Answered(s)
  BY <1>1, <1>2 DEF Inv, Transfer
<1>4. s \in chosen[requests]
  BY <1>3 DEF Answered
<1>5. PICK n \in 0 .. Total : Progress(s, n, net[s])
  BY <1>1, <1>3, <1>4 DEF Inv, Transfer
<1>6. n + Len(queue) <= Total /\ queue[1] = Export(s)[n + 1]
  BY <1>2, <1>5 DEF Progress, Queued
<1>7. n \in 0 .. Total - 1
  BY <1>2, <1>6, TotalIs
<1> QED BY <1>1, <1>2, <1>3, <1>4, <1>5, <1>6, <1>7

\* Exactly the next message of s is handled.
LEMMA HandleMessageKeeps ==
    ASSUME TInv, TInv', Agreed, Agreed', Inv(net), HandleMessage
    PROVE  Inv(net)' /\ connected' = connected
<1>1. phase = "process" /\ phase' = phase /\ queue # <<>> /\ OnLevelData(Head(queue))
  BY FirstInQueue DEF HandleMessage
<1>2. PICK s \in connected \cap chosen[requests], n \in 0 .. Total - 1 :
          /\ Answered(s) /\ Head(queue).src = s /\ Head(queue) = Export(s)[n + 1]
          /\ Progress(s, n, net[s])
  BY <1>1, FirstInQueue
<1>3. s \in Peers /\ s # Joiner /\ s # MAX_PLRS
  BY Constants DEF TInv, TypeOK
<1>4. Takes(s) /\ Received(s, n + 1)'
  BY <1>1, <1>2, <1>3, Handled DEF Progress
<1>5. UNCHANGED <<phase, requests, consumed, chosen, knows, sendDelta, alive, faults, connected, net>>
      /\ gbDeltaSender' = s /\ queue' = Tail(queue)
  BY <1>4 DEF HandleMessage, requestVars, Takes
<1>6. Past' /\ SenderOK' /\ Sources(net)'
  <2>1. Past'
    BY <1>5 DEF Inv, Past, Left
  <2>2. SenderOK'
    BY <1>2, <1>3, <1>5 DEF SenderOK
  <2>3. Sources(net)'
    BY <1>5 DEF Inv, Sources, Answered
  <2> QED BY <2>1, <2>2, <2>3
<1>7. /\ Len(queue) \in Nat \ {0} /\ Len(queue') = Len(queue) - 1
      /\ \A i \in 1 .. Len(queue') : queue'[i] = queue[i + 1] /\ i + 1 \in 1 .. Len(queue)
  BY <1>1, <1>5, MessageTypes
<1>8. Answered(s)'
  BY <1>2, <1>5 DEF Answered
<1>9. n + 1 \in 0 .. Total /\ n \in Nat
  BY TotalIs
<1>10. Progress(s, n + 1, net[s])'
  <2>1. Queued(s, n + 1)'
    <3>1. n + Len(queue) <= Total /\ \A i \in 1 .. Len(queue) : queue[i] = Export(s)[n + i]
      BY <1>2 DEF Progress, Queued
    <3>2. (n + 1) + Len(queue') <= Total
      BY <1>7, <1>9, <3>1, TotalIs
    <3>3. ASSUME NEW i \in 1 .. Len(queue')
          PROVE  queue'[i] = Export(s)[(n + 1) + i]
      <4>1. n + (i + 1) = (n + 1) + i
        BY <1>9
      <4>2. queue'[i] = queue[i + 1] /\ i + 1 \in 1 .. Len(queue)
        BY <1>7
      <4> QED BY <3>1, <4>1, <4>2
    <3> QED BY <3>2, <3>3 DEF Queued
  <2>2. (n + 1) + Len(queue') = n + Len(queue)
    BY <1>7, <1>9
  <2>3. Underway(s, n + Len(queue), net[s])
    BY <1>2 DEF Progress
  <2>4. Underway(s, (n + 1) + Len(queue), net[s])'
    BY <1>5, <2>2, <2>3
  <2> QED BY <1>4, <1>8, <2>1, <2>4 DEF Progress
<1>11. Transfer(net)'
  <2>1. \A i \in 1 .. Len(queue') : queue'[i].src \in connected' /\ Answered(queue[i].src)'
    <3> SUFFICES ASSUME NEW i \in 1 .. Len(queue')
                 PROVE  /\ queue'[i].src \in connected /\ queue'[i].src \in chosen[requests]
                        /\ consumed[queue'[i].src] = requests /\ queue'[i].src \notin sendDelta
      BY <1>5 DEF Answered
    <3>1. queue'[i] = queue[i + 1] /\ i + 1 \in 1 .. Len(queue)
      BY <1>7
    <3>2. queue[i + 1].src \in connected /\ Answered(queue[i + 1].src)
      BY <1>1, <3>1 DEF Inv, Transfer
    <3> QED BY <3>1, <3>2 DEF Answered
  <2>2. ASSUME NEW q \in connected \cap chosen[requests]
        PROVE  \E x \in 0 .. Total : Progress(q, x, net[q])'
    <3>1. requests \in 1 .. MaxRequests
      BY DEF TInv, TypeOK
    <3>2. q = s
      BY <1>2, <3>1, AgreedUnique
    <3> QED BY <1>9, <1>10, <3>2
  <2>3. gbDeltaSender' # Joiner
    BY <1>3, <1>5
  <2> QED BY <1>5, <2>1, <2>2, <2>3 DEF Transfer
<1>12. Done(net)'
  BY <1>1 DEF Done
<1> QED BY <1>1, <1>5, <1>6, <1>11, <1>12 DEF Inv

\* Nothing of the state is in the queue of a program that entered the game.
LEMMA DistrustKeeps ==
    ASSUME TInv, Agreed, Inv(net), Distrust
    PROVE  FALSE
BY FirstInQueue DEF Distrust

\* Progress does not depend on the phase, but for its start.
LEMMA ProgressKept ==
    ASSUME NEW s, NEW n, NEW channel, Progress(s, n, channel),
           UNCHANGED <<gbDeltaSender, sgbRecvCmd, recvBuf, imported, queue, requests, consumed,
                       chosen, sendDelta>>,
           n = 0 => Fresh',
           n # 0 => phase' # "owner" /\ UNCHANGED sgbDeltaChunks
    PROVE  Progress(s, n, channel)'
<1>1. (n > 0 => Answered(s)') /\ Queued(s, n)' /\ Underway(s, n + Len(queue'), channel)
  BY DEF Progress, Answered, Queued
<1>2. Received(s, n)'
  <2>1. CASE n = 0
    BY <2>1 DEF Received
  <2>2. CASE n # 0
    BY <2>2 DEF Progress, Received, InSomeLevel, InLevel, InJunk, AtEnd
  <2> QED BY <2>1, <2>2
<1> QED BY <1>1, <1>2 DEF Progress

LEMMA OwnerReadyKeeps ==
    ASSUME TInv, Agreed, Inv(net), OwnerReady
    PROVE  Inv(net)'
<1>1. /\ phase = "owner" /\ phase' = "process" /\ sgbDeltaChunks' = sgbDeltaChunks + 1
      /\ UNCHANGED <<gbDeltaSender, sgbRecvCmd, recvBuf, imported, connected, queue, net,
                     requests, consumed, chosen, knows, sendDelta>>
  BY DEF OwnerReady, requestVars
<1>2. Past' /\ SenderOK' /\ Sources(net)'
  BY <1>1 DEF Inv, Past, Left, SenderOK, Sources, Answered
<1>3. Fresh => Fresh'
  BY <1>1 DEF Fresh, TInv, TypeOK
<1>4. ASSUME NEW s \in connected \cap chosen[requests]
      PROVE  \E n \in 0 .. Total : Progress(s, n, net[s])'
  <2>1. PICK n \in 0 .. Total : Progress(s, n, net[s])
    BY <1>1 DEF Inv, Transfer
  <2>2. n = 0 /\ Fresh
    BY <1>1, <2>1 DEF Progress, Received
  <2>3. Progress(s, n, net[s])'
    BY <1>1, <1>3, <2>1, <2>2, ProgressKept
  <2> QED BY <2>3
<1>5. Transfer(net)'
  <2>1. \A i \in 1 .. Len(queue) : queue[i].src \in connected /\ Answered(queue[i].src)
    BY <1>1 DEF Inv, Transfer
  <2>2. gbDeltaSender = Joiner => Fresh'
    BY <1>1, <1>3 DEF Inv, Transfer
  <2> QED BY <1>1, <1>4, <2>1, <2>2 DEF Transfer, Answered
<1>6. Done(net)'
  BY <1>1 DEF Done
<1> QED BY <1>1, <1>2, <1>5, <1>6 DEF Inv

\* A new request is sent only when all that was sent for the last one is of no account.
LEMMA AskAgainKeeps ==
    ASSUME TInv, TInv', Agreed, Inv(net), AskAgain
    PROVE  Inv(net)'
<1>1. /\ phase = "process" /\ gbDeltaSender = MAX_PLRS
      /\ phase' = "owner" /\ sgbDeltaChunks' = 0 /\ sgbRecvCmd' = "CMD_DLEVEL_END"
      /\ gbDeltaSender' = Joiner /\ requests' = requests + 1
      /\ UNCHANGED <<recvBuf, imported, connected, queue, net, consumed, chosen, knows, sendDelta>>
  BY DEF AskAgain
<1>2. /\ requests \in 1 .. MaxRequests /\ requests \in Nat /\ requests' \in 1 .. MaxRequests
      /\ MaxRequests \in Nat /\ connected \subseteq Peers
      /\ MAX_PLRS \notin Peers /\ Joiner \notin Peers /\ MAX_PLRS # Joiner
  BY Constants, ParametersAssumption DEF TInv, TypeOK
<1>3. \/ chosen[requests] \cap Left # {}
      \/ consumed[Joiner] = requests /\ MAX_PLRS \in chosen[requests]
  BY <1>1 DEF Inv, SenderOK
<1>4. \A p \in connected : p \notin chosen[requests] /\ ~ Answered(p)
  <2> SUFFICES ASSUME NEW p \in connected, p \in chosen[requests] PROVE FALSE
    BY DEF Answered
  <2>1. \A x \in chosen[requests] : x = p
    BY <1>2, AgreedUnique
  <2> QED BY <1>2, <1>3, <2>1 DEF Left
<1>5. chosen[requests + 1] = {}
  BY <1>1, <1>2 DEF Inv, Past
<1>6. Past'
  <2>1. \A r \in requests' + 1 .. MaxRequests : chosen[r] = {}
    <3>1. \A r \in requests' + 1 .. MaxRequests : r \in requests + 1 .. MaxRequests
      BY <1>1, <1>2
    <3> QED BY <3>1 DEF Inv, Past
  <2>2. ASSUME NEW r \in 1 .. requests' - 1
        PROVE  chosen[r] \cap Left # {} \/ (r <= consumed[Joiner] /\ MAX_PLRS \in chosen[r])
    <3>1. r \in 1 .. requests - 1 \/ r = requests
      BY <1>1, <1>2
    <3> QED BY <1>2, <1>3, <3>1 DEF Inv, Past
  <2> QED BY <1>1, <2>1, <2>2 DEF Past, Left
<1>7. SenderOK'
  BY <1>1, <1>2 DEF SenderOK
<1>8. Sources(net)'
  BY <1>1, <1>4 DEF Inv, Sources, Answered, Silent
<1>9. Transfer(net)'
  <2>1. Len(queue) \in Nat
    BY DEF TInv, TypeOK
  <2>2. \A i \in 1 .. Len(queue) : FALSE
    BY <1>1, <1>4 DEF Inv, Transfer
  <2>3. Len(queue) = 0
    <3> SUFFICES ASSUME Len(queue) # 0 PROVE FALSE
      OBVIOUS
    <3>1. 1 \in 1 .. Len(queue)
      BY <2>1
    <3> QED BY <2>2, <3>1
  <2> QED BY <1>1, <1>5, <2>3 DEF Transfer, Fresh
<1>10. Done(net)'
  BY <1>1 DEF Done
<1> QED BY <1>1, <1>6, <1>7, <1>8, <1>9, <1>10 DEF Inv

\* The count of parts shows the end only after the end mark.
LEMMA Finished ==
    ASSUME TInv, Agreed, Inv(net), phase = "process", gbDeltaSender # MAX_PLRS,
           sgbDeltaChunks >= MaxChunks - 1
    PROVE  /\ \E s \in connected \cap chosen[requests] :
                  gbDeltaSender = s /\ AtEnd(s, Total) /\ Progress(s, Total, net[s])
           /\ queue = <<>>
<1>1. MaxMultiplayerLevels \in Nat /\ MaxChunks = MaxMultiplayerLevels + 4
  BY LevelsCounted DEF MaxChunks
<1>2. ~ Fresh
  BY <1>1 DEF Fresh
<1>3. gbDeltaSender \in Peers
  BY <1>2, Players DEF Inv, Transfer, TInv, TypeOK
<1>4. gbDeltaSender \in connected \cap chosen[requests]
  BY <1>3 DEF Inv, SenderOK
<1>5. PICK n \in 0 .. Total : Progress(gbDeltaSender, n, net[gbDeltaSender])
  BY <1>4 DEF Inv, Transfer
<1>6. n # 0
  BY <1>2, <1>5 DEF Progress, Received
<1>7. ~ InSomeLevel(gbDeltaSender, n) /\ ~ InJunk(gbDeltaSender, n)
  BY <1>1 DEF InSomeLevel, InLevel, InJunk
<1>8. AtEnd(gbDeltaSender, n) /\ n = Total
  BY <1>5, <1>6, <1>7 DEF Progress, Received, AtEnd
<1>9. queue = <<>>
  <2>1. queue \in Seq(ChunksType) /\ Total \in Nat
    BY TotalIs DEF TInv, TypeOK
  <2>2. Total + Len(queue) <= Total
    BY <1>5, <1>8 DEF Progress, Queued
  <2>3. Len(queue) = 0
    BY <2>1, <2>2
  <2> QED BY <2>1, <2>3
<1> QED BY <1>4, <1>5, <1>8, <1>9

\* The progress of 99.
LEMMA NearlyDoneKeeps ==
    ASSUME TInv, Agreed, Inv(net), NearlyDone
    PROVE  Inv(net)'
<1>1. /\ phase = "process" /\ gbDeltaSender # MAX_PLRS
      /\ sgbDeltaChunks = MaxChunks - 1 /\ sgbDeltaChunks' = MaxChunks
      /\ UNCHANGED <<phase, gbDeltaSender, sgbRecvCmd, recvBuf, imported, connected, queue, net,
                     requests, consumed, chosen, knows, sendDelta>>
  BY DEF NearlyDone, requestVars
<1>2. MaxChunks \in Nat
  BY LevelsCounted DEF MaxChunks
<1>0. queue = <<>>
  BY <1>1, <1>2, Finished
<1>3. PICK s \in connected \cap chosen[requests] :
          gbDeltaSender = s /\ AtEnd(s, Total) /\ Progress(s, Total, net[s])
  BY <1>1, <1>2, Finished
<1>4. s \in Peers /\ s # Joiner /\ requests \in 1 .. MaxRequests
  BY Constants DEF TInv, TypeOK
<1>5. Past' /\ SenderOK' /\ Sources(net)'
  BY <1>1 DEF Inv, Past, Left, SenderOK, Sources, Answered
<1>6. Progress(s, Total, net[s])'
  <2>1. AtEnd(s, Total)'
    BY <1>1, <1>3 DEF AtEnd
  <2>2. Total # 0
    BY TotalIs
  <2>3. Received(s, Total)'
    BY <1>1, <1>3, <2>1, <2>2 DEF Received
  <2>4. (Total > 0 => Answered(s)') /\ Queued(s, Total)' /\ Underway(s, Total + Len(queue'), net'[s])
    BY <1>1, <1>3 DEF Progress, Queued, Answered
  <2> QED BY <2>3, <2>4 DEF Progress
<1>7. Transfer(net)'
  <2>1. ASSUME NEW q \in connected \cap chosen[requests]
        PROVE  \E n \in 0 .. Total : Progress(q, n, net[q])'
    <3>1. q = s
      BY <1>3, <1>4, AgreedUnique
    <3> QED BY <1>6, <3>1, TotalIs
  <2>2. Len(queue) = 0
    BY <1>0
  <2> QED BY <1>1, <1>3, <1>4, <2>1, <2>2 DEF Transfer
<1>8. Done(net)'
  BY <1>1 DEF Done
<1> QED BY <1>1, <1>5, <1>7, <1>8 DEF Inv

\* The joiner enters the game only with a whole state; the progress is never above 100.
LEMMA ReturnKeeps ==
    ASSUME TInv, Agreed, Inv(net), Return
    PROVE  Inv(net)'
<1>1. /\ phase = "process" /\ gbDeltaSender # MAX_PLRS
      /\ sgbDeltaChunks >= MaxChunks
      /\ phase' = IF sgbDeltaChunks = MaxChunks THEN "done" ELSE "failed"
      /\ UNCHANGED <<gbDeltaSender, imported, connected, queue, net, requests, consumed, chosen,
                     knows, sendDelta>>
  BY DEF Return, importVars, requestVars
<1>2. MaxChunks \in Nat /\ sgbDeltaChunks \in Nat
  BY LevelsCounted DEF MaxChunks, TInv, TypeOK
<1>0. queue = <<>>
  BY <1>1, <1>2, Finished
<1>3. PICK s \in connected \cap chosen[requests] :
          gbDeltaSender = s /\ AtEnd(s, Total) /\ Progress(s, Total, net[s])
  BY <1>1, <1>2, Finished
<1>4. sgbDeltaChunks = MaxChunks /\ phase' = "done"
  BY <1>1, <1>2, <1>3 DEF AtEnd
<1>5. Past' /\ SenderOK' /\ Sources(net)'
  BY <1>1 DEF Inv, Past, Left, SenderOK, Sources, Answered
<1>6. Silent(net[s]) /\ Answered(s) /\ s \in Peers
  <2>1. Total \in Nat \ {0} /\ Len(queue) = 0 /\ Total + Len(queue) = Total
    BY <1>0, TotalIs
  <2>2. Underway(s, Total, net[s]) /\ Answered(s)
    BY <1>3, <2>1 DEF Progress
  <2>3. PICK a \in 0 .. Len(net[s]), b \in 0 .. Len(net[s]) :
            /\ a <= b /\ Total + (b - a) <= Total
            /\ \A i \in 1 .. Len(net[s]) :
                   IF i <= a \/ i > b THEN net[s][i].cmd = "PT_DISCONNECT"
                                      ELSE net[s][i] = Export(s)[Total + (i - a)]
    BY <2>2 DEF Underway
  <2>4. s \in Peers /\ Len(net[s]) \in Nat
    BY DEF TInv, TypeOK
  <2>5. a = b
    BY <2>1, <2>3, <2>4
  <2>6. \A i \in 1 .. Len(net[s]) : i <= a \/ i > b
    BY <2>3, <2>4, <2>5
  <2> QED BY <2>2, <2>3, <2>4, <2>6 DEF Silent
<1>7. Transfer(net)'
  BY <1>4 DEF Transfer
<1>8. Done(net)'
  <2>1. \A part \in Parts : imported[part] = s
    BY <1>3 DEF AtEnd
  <2> QED BY <1>0, <1>1, <1>6, <2>1 DEF Done, Answered, Silent
<1> QED BY <1>4, <1>5, <1>7, <1>8 DEF Inv

LEMMA CancelKeeps ==
    ASSUME TInv, Inv(net), Cancel
    PROVE  Inv(net)'
<1>1. /\ phase \in {"owner", "process"} /\ phase' = "cancelled"
      /\ UNCHANGED <<gbDeltaSender, sgbRecvCmd, sgbDeltaChunks, recvBuf, imported, connected,
                     queue, net, requests, consumed, chosen, knows, sendDelta>>
  BY DEF Cancel, importVars, requestVars
<1>2. Past' /\ SenderOK' /\ Sources(net)'
  BY <1>1 DEF Inv, Past, Left, SenderOK, Sources, Answered
<1>3. Fresh => Fresh'
  BY <1>1 DEF Fresh
<1>4. ASSUME NEW s \in connected \cap chosen[requests]
      PROVE  \E n \in 0 .. Total : Progress(s, n, net[s])'
  <2>1. PICK n \in 0 .. Total : Progress(s, n, net[s])
    BY <1>1 DEF Inv, Transfer
  <2>2. n = 0 => Fresh
    BY <2>1 DEF Progress, Received
  <2>3. Progress(s, n, net[s])'
    BY <1>1, <1>3, <2>1, <2>2, ProgressKept
  <2> QED BY <2>3
<1>5. Transfer(net)'
  <2>1. \A i \in 1 .. Len(queue) : queue[i].src \in connected /\ Answered(queue[i].src)
    BY <1>1 DEF Inv, Transfer
  <2>2. gbDeltaSender = Joiner => Fresh'
    BY <1>1, <1>3 DEF Inv, Transfer
  <2> QED BY <1>1, <1>4, <2>1, <2>2 DEF Transfer, Answered
<1>6. Done(net)'
  BY <1>1 DEF Done
<1> QED BY <1>1, <1>2, <1>5, <1>6 DEF Inv

--------------------------------------------------------------------------------
(* Steps of the other players, and of the joiner's provider.                   *)

\* Channels that lose or gain nothing but leaves and their ends.
LEMMA ChannelsKept ==
    ASSUME TInv, Inv(net), NEW channels,
           \A p \in connected :
               /\ Silent(net[p]) => Silent(channels[p])
               /\ \A m \in Nat : Underway(p, m, net[p]) => Underway(p, m, channels[p])
    PROVE  Inv(channels)
<1>1. Sources(channels)
  BY DEF Inv, Sources
<1>2. Len(queue) \in Nat
  BY DEF TInv, TypeOK
<1>3. ASSUME NEW s \in connected, NEW n \in 0 .. Total, Progress(s, n, net[s])
      PROVE  Progress(s, n, channels[s])
  <2>1. n + Len(queue) \in Nat
    BY <1>2
  <2> QED BY <1>3, <2>1 DEF Progress
<1>4. Transfer(channels)
  BY <1>3 DEF Inv, Transfer
<1>5. Done(channels)
  BY DEF Inv, Done
<1> QED BY <1>1, <1>4, <1>5 DEF Inv

\* Inv is kept by steps that change nothing but channels.
LEMMA ChannelsReplace ==
    ASSUME NEW channels, Inv(channels), net' = channels,
           UNCHANGED <<phase, importVars, connected, queue, requests, consumed, chosen, sendDelta>>
    PROVE  Inv(net)'
<1>1. Past' /\ SenderOK' /\ Sources(net)' /\ phase' # "failed"
  BY DEF Inv, Past, Left, SenderOK, Sources, Answered, importVars
<1>2. \A s, n : Progress(s, n, channels[s]) => Progress(s, n, channels[s])'
  <2> SUFFICES ASSUME NEW s, NEW n, Progress(s, n, channels[s]) PROVE Progress(s, n, channels[s])'
    OBVIOUS
  <2>1. UNCHANGED <<gbDeltaSender, sgbRecvCmd, recvBuf, imported, queue, requests, consumed,
                    chosen, sendDelta, phase, sgbDeltaChunks>>
    BY DEF importVars
  <2>2. n = 0 => Fresh
    BY DEF Progress, Received
  <2>3. n = 0 => Fresh'
    BY <2>1, <2>2 DEF Fresh
  <2>4. n # 0 => phase # "owner"
    BY DEF Progress, Received
  <2> QED BY <2>1, <2>3, <2>4, ProgressKept
<1>3. Transfer(net)'
  <2>1. Fresh => Fresh'
    BY DEF Fresh, importVars
  <2> QED BY <1>2, <2>1 DEF Inv, Transfer, Answered, importVars
<1>4. Done(net)'
  BY DEF Inv, Done, Answered, importVars
<1> QED BY <1>1, <1>3, <1>4 DEF Inv

\* A player is counted as gone: the joiner does not wait for it any more.
LEMMA ForgetKeeps ==
    ASSUME TInv, Agreed, NEW channels, Inv(channels), NEW gone \in SUBSET connected,
           Forget(gone, queue, gbDeltaSender, channels),
           UNCHANGED <<phase, sgbRecvCmd, sgbDeltaChunks, recvBuf, imported, requests, consumed,
                       chosen, sendDelta>>
    PROVE  Inv(net)'
<1>1. /\ connected' = connected \ gone /\ queue' = Without(queue, gone)
      /\ net' = [p \in Peers |-> IF p \in gone THEN <<>> ELSE channels[p]]
      /\ gbDeltaSender' = IF gbDeltaSender \in gone THEN MAX_PLRS ELSE gbDeltaSender
  BY DEF Forget
<1>2. /\ connected \subseteq Peers /\ requests \in 1 .. MaxRequests /\ queue \in Seq(ChunksType)
      /\ MAX_PLRS \notin Peers /\ Joiner \notin Peers /\ MAX_PLRS # Joiner
      /\ Left \subseteq Left'
  BY <1>1, Constants DEF TInv, TypeOK, Left
<1>3. \A p \in connected' : net'[p] = channels[p]
  BY <1>1, <1>2
<1>4. Past'
  BY <1>2 DEF Inv, Past
<1>5. SenderOK'
  <2>1. ASSUME gbDeltaSender \in gone
        PROVE  chosen[requests] \cap Left' # {}
    <3>1. gbDeltaSender \in chosen[requests] /\ gbDeltaSender \in Left'
      BY <1>1, <1>2, <2>1 DEF Inv, SenderOK, Left
    <3> QED BY <3>1
  <2> QED BY <1>1, <1>2, <2>1 DEF Inv, SenderOK
<1>6. Sources(net)'
  BY <1>1, <1>3 DEF Inv, Sources, Answered
<1>7. ASSUME phase \in {"owner", "process", "cancelled"},
             NEW s \in connected' \cap chosen[requests]
      PROVE  queue' = queue
  <2>1. \A i \in 1 .. Len(queue) : queue[i].src = s
    BY <1>1, <1>2, <1>7, AgreedUnique DEF Inv, Transfer, Answered
  <2>2. \A i \in 1 .. Len(queue) : queue[i].src \notin gone
    BY <1>1, <1>7, <2>1
  <2> QED BY <1>1, <1>2, <2>2, WithoutNone
<1>8. ASSUME phase \in {"owner", "process", "cancelled"}, connected' \cap chosen[requests] = {}
      PROVE  queue' = <<>>
  <2>1. \A i \in 1 .. Len(queue) : queue[i].src \in gone
    BY <1>1, <1>8 DEF Inv, Transfer, Answered
  <2> QED BY <1>1, <1>2, <2>1, WithoutAll
<1>9. Transfer(net)'
  <2> SUFFICES ASSUME phase \in {"owner", "process", "cancelled"} PROVE Transfer(net)'
    BY DEF Transfer
  <2>1. gbDeltaSender' = Joiner => Fresh'
    BY <1>1, <1>2 DEF Inv, Transfer, Fresh
  <2>2. CASE connected' \cap chosen[requests] = {}
    <3>1. Len(queue') = 0
      BY <1>8, <2>2
    <3> QED BY <2>1, <2>2, <3>1 DEF Transfer
  <2>3. ASSUME NEW s \in connected' \cap chosen[requests]
        PROVE  Transfer(net)'
    <3>1. queue' = queue
      BY <1>7, <2>3
    <3>2. \A i \in 1 .. Len(queue) : queue[i].src = s /\ Answered(s)
      BY <1>1, <1>2, <2>3, AgreedUnique DEF Inv, Transfer, Answered
    <3>3. PICK n \in 0 .. Total : Progress(s, n, channels[s])
      BY <1>1, <2>3 DEF Inv, Transfer
    <3>4. n # 0 => phase # "owner" /\ gbDeltaSender' = gbDeltaSender
      BY <1>1, <2>3, <3>3 DEF Progress, Received
    <3>5. Received(s, n)'
      <4>1. CASE n = 0
        BY <3>3, <4>1 DEF Progress, Received, Fresh
      <4>2. CASE n # 0
        BY <3>3, <3>4, <4>2 DEF Progress, Received, InSomeLevel, InLevel, InJunk, AtEnd
      <4> QED BY <4>1, <4>2
    <3>6. (n > 0 => Answered(s)') /\ Queued(s, n)' /\ Underway(s, n + Len(queue'), net'[s])
      BY <1>3, <2>3, <3>1, <3>3 DEF Progress, Queued, Answered
    <3>7. \E x \in 0 .. Total : /\ x > 0 => Answered(s)'
                                /\ Received(s, x)' /\ Queued(s, x)'
                                /\ Underway(s, x + Len(queue'), net'[s])
      BY <3>5, <3>6
    <3>8. \A q \in connected' \cap chosen[requests] : q = s
      BY <1>2, <2>3, AgreedUnique
    <3> QED BY <2>1, <2>3, <3>1, <3>2, <3>7, <3>8 DEF Transfer, Progress, Answered
  <2> QED BY <2>2, <2>3
<1>10. Done(net)'
  <2> SUFFICES ASSUME phase = "done" PROVE Done(net)'
    BY DEF Done
  <2>1. PICK s \in chosen[requests] \cap Peers :
            /\ \A part \in Parts : imported[part] = s
            /\ queue = <<>>
            /\ s \in connected => Answered(s) /\ Silent(channels[s])
    BY DEF Inv, Done
  <2>2. queue' = <<>>
    <3>1. \A i \in 1 .. Len(queue) : queue[i].src \notin gone
      BY <2>1
    <3> QED BY <1>1, <1>2, <2>1, <3>1, WithoutNone
  <2>3. s \in connected' => Answered(s)' /\ Silent(net'[s])
    BY <1>1, <1>3, <2>1 DEF Answered
  <2> QED BY <2>1, <2>2, <2>3 DEF Done
<1> QED BY <1>4, <1>5, <1>6, <1>9, <1>10 DEF Inv

\* A peer that answers a former request is found by no other one, unless it is gone.
LEMMA PeerConsumesKeeps ==
    ASSUME TInv, TInv', Agreed, Agreed', Inv(net), NEW p \in Peers, PeerConsumes(p)
    PROVE  Inv(net)'
<1> DEFINE responder == Responder(knows[p] \cup {p})
           k == consumed[p] + 1
           R == requests
<1>1. /\ consumed \in [0 .. N - 1 -> 0 .. requests] /\ requests \in 1 .. MaxRequests
      /\ p \in 0 .. N - 1 /\ p # Joiner /\ p # MAX_PLRS
      /\ connected \subseteq Peers /\ MAX_PLRS \notin Peers
  BY Constants DEF TInv, TypeOK
<1>2. /\ k \in 1 .. R /\ R \in 1 .. MaxRequests /\ k \in 1 .. MaxRequests
      /\ consumed' = [consumed EXCEPT ![p] = k] /\ consumed[p] # R
      /\ chosen' = [chosen EXCEPT ![k] = @ \cup {responder}]
      /\ sendDelta' = IF responder = p THEN sendDelta \cup {p} ELSE sendDelta
  <2>1. consumed[p] \in 0 .. requests /\ consumed[p] < requests
    BY <1>1 DEF PeerConsumes, Consume
  <2>2. consumed' = [consumed EXCEPT ![p] = k]
    BY DEF PeerConsumes, Consume
  <2>3. consumed'[p] = k
    BY <1>1, <2>2
  <2>4. k \in 1 .. requests /\ k \in 1 .. MaxRequests
    BY <1>1, <2>1, ParametersAssumption
  <2> QED BY <1>1, <2>1, <2>2, <2>3, <2>4 DEF PeerConsumes
<1> HIDE DEF responder, k
<1>3. /\ \A q \in 0 .. N - 1 : q # p => consumed'[q] = consumed[q]
      /\ consumed'[p] = k /\ consumed'[Joiner] = consumed[Joiner]
      /\ \A r \in 1 .. MaxRequests :
             chosen'[r] = IF r = k THEN chosen[r] \cup {responder} ELSE chosen[r]
  BY <1>1, <1>2, Constants DEF TInv, TypeOK
<1>4. UNCHANGED <<phase, gbDeltaSender, sgbRecvCmd, sgbDeltaChunks, recvBuf, imported, connected,
                  queue, net, requests>>
  BY DEF PeerConsumes, importVars
<1>5. \A x \in chosen[k] : x = responder
  BY <1>2, <1>3, AgreedUniqueAfter
<1>6. responder \in connected => k = R
  <2> SUFFICES ASSUME responder \in connected, k # R PROVE FALSE
    OBVIOUS
  <2>1. k \in 1 .. R - 1
    BY <1>2
  <2>2. chosen[k] \cap Left # {} \/ MAX_PLRS \in chosen[k]
    BY <2>1 DEF Inv, Past
  <2> QED BY <1>1, <1>5, <2>2 DEF Left
<1>7. \A q \in Peers : Answered(q) => Answered(q)' /\ q # p
  BY <1>1, <1>2, <1>3, <1>4, Constants DEF Answered
<1>8. \A r \in 1 .. MaxRequests : chosen[r] \subseteq chosen'[r]
  BY <1>3
<1>9. Past'
  <2>1. \A r \in R + 1 .. MaxRequests : chosen'[r] = {}
    <3>1. \A r \in R + 1 .. MaxRequests : r \in 1 .. MaxRequests /\ r # k
      BY <1>2, ParametersAssumption
    <3> QED BY <1>3, <3>1 DEF Inv, Past
  <2>2. ASSUME NEW r \in 1 .. R - 1
        PROVE  chosen'[r] \cap Left # {} \/ (r <= consumed[Joiner] /\ MAX_PLRS \in chosen'[r])
    <3>1. r \in 1 .. MaxRequests
      BY <1>2, ParametersAssumption
    <3>2. chosen[r] \cap Left # {} \/ (r <= consumed[Joiner] /\ MAX_PLRS \in chosen[r])
      BY DEF Inv, Past
    <3> QED BY <1>8, <3>1, <3>2
  <2> QED BY <1>3, <1>4, <2>1, <2>2 DEF Past, Left
<1>10. SenderOK'
  <2>1. chosen[R] \subseteq chosen'[R]
    BY <1>2, <1>8
  <2> QED BY <1>3, <1>4, <2>1 DEF Inv, SenderOK, Left
<1>11. Sources(net)'
  <2>1. ASSUME NEW q \in connected, q \in sendDelta'
        PROVE  q \in chosen'[R] /\ consumed'[q] = R
    <3>1. CASE q \in sendDelta
      <4>1. q \in chosen[R] /\ consumed[q] = R /\ q # p /\ q \in 0 .. N - 1
        BY <1>1, <1>2, <3>1, Constants DEF Inv, Sources
      <4> QED BY <1>2, <1>3, <1>8, <4>1
    <3>2. CASE q \notin sendDelta
      <4>1. q = p /\ responder = p
        BY <1>2, <2>1, <3>2
      <4>2. k = R
        BY <1>6, <2>1, <4>1
      <4> QED BY <1>2, <1>3, <4>1, <4>2
    <3> QED BY <3>1, <3>2
  <2>2. ASSUME NEW q \in connected
        PROVE  Answered(q)' \/ Silent(net'[q])
    BY <1>1, <1>4, <1>7 DEF Inv, Sources
  <2> QED BY <1>4, <2>1, <2>2 DEF Sources
<1>12. Transfer(net)'
  <2> SUFFICES ASSUME phase \in {"owner", "process", "cancelled"} PROVE Transfer(net)'
    BY <1>4 DEF Transfer
  <2>1. \A i \in 1 .. Len(queue) : queue[i].src \in connected /\ Answered(queue[i].src)'
    BY <1>1, <1>4, <1>7 DEF Inv, Transfer
  <2>2. ASSUME NEW s \in connected, s \in chosen'[R]
        PROVE  \E n \in 0 .. Total : Progress(s, n, net[s])'
    <3>1. CASE s \in chosen[R]
      <4>1. PICK n \in 0 .. Total : Progress(s, n, net[s])
        BY <3>1 DEF Inv, Transfer
      <4>2. (n > 0 => Answered(s)') /\ Queued(s, n)' /\ Underway(s, n + Len(queue'), net'[s])
        BY <1>1, <1>4, <1>7, <4>1 DEF Progress, Queued
      <4>3. Received(s, n)'
        BY <1>4, <4>1 DEF Progress, Received, Fresh, InSomeLevel, InLevel, InJunk, AtEnd
      <4> QED BY <4>2, <4>3 DEF Progress
    <3>2. CASE s \notin chosen[R]
      <4>1. s = responder /\ k = R
        BY <1>2, <1>3, <2>2, <3>2
      <4>2. chosen[R] = {}
        BY <1>5, <3>2, <4>1
      <4>3. Fresh /\ Progress(s, 0, net[s])
        BY <4>2, FreshSender
      <4>4. Received(s, 0)'
        BY <1>4, <4>3 DEF Received, Fresh
      <4>5. Queued(s, 0)' /\ Underway(s, 0 + Len(queue), net[s])'
        BY <1>4, <4>3 DEF Progress, Queued
      <4>6. Progress(s, 0, net[s])'
        BY <4>4, <4>5 DEF Progress
      <4> QED BY <4>6, TotalIs
    <3> QED BY <3>1, <3>2
  <2>3. gbDeltaSender' = Joiner => Fresh'
    BY <1>4 DEF Inv, Transfer, Fresh
  <2> QED BY <1>4, <2>1, <2>2, <2>3 DEF Transfer
<1>13. Done(net)'
  <2> SUFFICES ASSUME phase = "done" PROVE Done(net)'
    BY <1>4 DEF Done
  <2>1. PICK s \in chosen[R] \cap Peers :
            /\ \A part \in Parts : imported[part] = s
            /\ queue = <<>>
            /\ s \in connected => Answered(s) /\ Silent(net[s])
    BY DEF Inv, Done
  <2>2. s \in chosen'[R] /\ (s \in connected => Answered(s)')
    BY <1>2, <1>7, <1>8, <2>1
  <2> QED BY <1>4, <2>1, <2>2 DEF Done, Silent
<1> QED BY <1>4, <1>9, <1>10, <1>11, <1>12, <1>13 DEF Inv

\* The state is sent once.
LEMMA AnswerKeeps ==
    ASSUME TInv, Agreed, Inv(net), NEW p \in Peers, Answer(p)
    PROVE  Inv(net)'
<1>1. /\ p \in sendDelta /\ sendDelta' = sendDelta \ {p}
      /\ net' = [net EXCEPT ![p] = @ \o Export(p)]
      /\ UNCHANGED <<phase, gbDeltaSender, sgbRecvCmd, sgbDeltaChunks, recvBuf, imported,
                     connected, queue, requests, consumed, chosen>>
  BY DEF Answer, importVars
<1>2. /\ net \in [Peers -> Seq(PacketsType)] /\ connected \subseteq Peers
      /\ requests \in 1 .. MaxRequests
  BY DEF TInv, TypeOK
<1>3. net'[p] = net[p] \o Export(p) /\ \A q \in Peers : q # p => net'[q] = net[q]
  BY <1>1, <1>2
<1>4. \A q : Answered(q) => Answered(q)' /\ q # p
  BY <1>1 DEF Answered
<1>5. p \in connected => p \in chosen[requests] /\ consumed[p] = requests /\ Silent(net[p])
  BY <1>1, <1>4 DEF Inv, Sources
<1>6. p \in connected => Answered(p)'
  BY <1>1, <1>5 DEF Answered
<1>7. Past' /\ SenderOK'
  BY <1>1 DEF Inv, Past, Left, SenderOK
<1>8. Sources(net)'
  <2> SUFFICES ASSUME NEW q \in connected
               PROVE  /\ q \in sendDelta' => q \in chosen[requests] /\ consumed[q] = requests
                      /\ Answered(q)' \/ Silent(net'[q])
    BY <1>1 DEF Sources
  <2>1. CASE q = p
    BY <1>1, <1>6, <2>1
  <2>2. CASE q # p
    BY <1>1, <1>2, <1>3, <1>4, <2>2 DEF Inv, Sources
  <2> QED BY <2>1, <2>2
<1>9. Transfer(net)'
  <2> SUFFICES ASSUME phase \in {"owner", "process", "cancelled"} PROVE Transfer(net)'
    BY <1>1 DEF Transfer
  <2>1. \A i \in 1 .. Len(queue) : queue[i].src \in connected /\ Answered(queue[i].src)'
    BY <1>1, <1>4 DEF Inv, Transfer
  <2>2. ASSUME NEW s \in connected \cap chosen[requests]
        PROVE  \E n \in 0 .. Total : Progress(s, n, net[s])'
    <3>1. PICK n \in 0 .. Total : Progress(s, n, net[s])
      BY DEF Inv, Transfer
    <3>2. Received(s, n)'
      BY <1>1, <3>1 DEF Progress, Received, Fresh, InSomeLevel, InLevel, InJunk, AtEnd
    <3>3. Queued(s, n)' /\ (n > 0 => Answered(s)')
      BY <1>1, <1>4, <3>1 DEF Progress, Queued
    <3>4. Underway(s, n + Len(queue), net'[s])
      <4>1. CASE s # p
        <5>1. net'[s] = net[s]
          BY <1>2, <1>3, <4>1
        <5> QED BY <3>1, <5>1 DEF Progress
      <4>2. CASE s = p
        <5>1. n = 0
          BY <1>4, <3>1, <4>2, TotalIs DEF Progress
        <5>2. Len(queue) = 0
          <6>1. \A i \in 1 .. Len(queue) : queue[i].src = s
            BY <1>2, AgreedUnique DEF Inv, Transfer, Answered
          <6>2. \A i \in 1 .. Len(queue) : FALSE
            BY <1>4, <4>2, <6>1 DEF Inv, Transfer
          <6>3. Len(queue) \in Nat
            BY DEF TInv, TypeOK
          <6> QED BY <6>2, <6>3
        <5>3. Underway(p, 0, net[p] \o Export(p)) /\ n + Len(queue) = 0
          BY <1>2, <1>5, <4>2, <5>1, <5>2, UnderwayAnswer
        <5> QED BY <1>3, <4>2, <5>3
      <4> QED BY <4>1, <4>2
    <3> QED BY <1>1, <3>2, <3>3, <3>4 DEF Progress
  <2>3. gbDeltaSender' = Joiner => Fresh'
    BY <1>1 DEF Inv, Transfer, Fresh
  <2> QED BY <1>1, <2>1, <2>2, <2>3 DEF Transfer
<1>10. Done(net)'
  <2> SUFFICES ASSUME phase = "done" PROVE Done(net)'
    BY <1>1 DEF Done
  <2>1. PICK s \in chosen[requests] \cap Peers :
            /\ \A part \in Parts : imported[part] = s
            /\ queue = <<>>
            /\ s \in connected => Answered(s) /\ Silent(net[s])
    BY DEF Inv, Done
  <2>2. s \in connected => Answered(s)' /\ Silent(net'[s])
    BY <1>2, <1>3, <1>4, <2>1
  <2> QED BY <1>1, <2>1, <2>2 DEF Done
<1> QED BY <1>1, <1>7, <1>8, <1>9, <1>10 DEF Inv

\* The end of what a player sent is lost.
LEMMA CrashKeeps ==
    ASSUME TInv, Inv(net), NEW p \in Peers, Crash(p)
    PROVE  Inv(net)'
<1>1. PICK k \in 0 .. Len(net[p]) : net' = [net EXCEPT ![p] = SubSeq(@, 1, k)]
  BY DEF Crash
<1>2. net \in [Peers -> Seq(PacketsType)] /\ connected \subseteq Peers
  BY DEF TInv, TypeOK
<1> DEFINE channels == [net EXCEPT ![p] = SubSeq(@, 1, k)]
<1>3. ASSUME NEW q \in connected
      PROVE  /\ Silent(net[q]) => Silent(channels[q])
             /\ \A m \in Nat : Underway(q, m, net[q]) => Underway(q, m, channels[q])
  <2>1. CASE q = p
    <3>1. channels[q] = SubSeq(net[q], 1, k) /\ net[q] \in Seq(PacketsType)
      BY <1>2, <2>1
    <3> HIDE DEF channels
    <3> QED BY <2>1, <3>1, SilentChannels, UnderwayPrefix
  <2>2. CASE q # p
    BY <1>2, <2>2
  <2> QED BY <2>1, <2>2
<1>4. UNCHANGED <<phase, importVars, connected, queue, requests, consumed, chosen, sendDelta>>
  BY DEF Crash, requestVars
<1>5. net' = channels
  BY <1>1
<1> HIDE DEF channels
<1>6. Inv(channels)
  BY <1>3, ChannelsKept
<1> QED BY <1>4, <1>5, <1>6, ChannelsReplace

\* Leave and Drop.
LEMMA LeaveSentKeeps ==
    ASSUME TInv, Inv(net), NEW q \in Peers, NEW p \in Peers,
           net' = [net EXCEPT ![q] = Append(@, Disconnect(p))],
           UNCHANGED <<phase, importVars, connected, queue, requests, consumed, chosen, sendDelta>>
    PROVE  Inv(net)'
<1> DEFINE channels == [net EXCEPT ![q] = Append(@, Disconnect(p))]
<1>1. net \in [Peers -> Seq(PacketsType)] /\ connected \subseteq Peers
  BY DEF TInv, TypeOK
<1>2. ASSUME NEW s \in connected
      PROVE  /\ Silent(net[s]) => Silent(channels[s])
             /\ \A m \in Nat : Underway(s, m, net[s]) => Underway(s, m, channels[s])
  <2>1. CASE s = q
    <3>1. channels[s] = Append(net[s], Disconnect(p)) /\ net[s] \in Seq(PacketsType)
      BY <1>1, <2>1
    <3> HIDE DEF channels
    <3> QED BY <3>1, SilentChannels, UnderwayAppend
  <2>2. CASE s # q
    BY <1>1, <2>2
  <2> QED BY <2>1, <2>2
<1>3. net' = channels
  OBVIOUS
<1> HIDE DEF channels
<1>4. Inv(channels)
  BY <1>2, ChannelsKept
<1> QED BY <1>3, <1>4, ChannelsReplace

LEMMA InfoTimeoutKeeps ==
    ASSUME TInv, Agreed, Inv(net), NEW p \in Peers, InfoTimeout(p)
    PROVE  Inv(net)'
<1>1. /\ {p} \in SUBSET connected /\ Forget({p}, queue, gbDeltaSender, net)
      /\ UNCHANGED <<phase, sgbRecvCmd, sgbDeltaChunks, recvBuf, imported, requests, consumed,
                     chosen, sendDelta>>
  BY DEF InfoTimeout, requestVars
<1> QED BY <1>1, ForgetKeeps

\* The packet of a player that is gone is dropped, and a leave is heard of.
LEMMA ReceiveLeaveKeeps ==
    ASSUME TInv, Agreed, Inv(net), NEW p \in Peers, Receive(p),
           p \notin connected \/ Head(net[p]).cmd = "PT_DISCONNECT"
    PROVE  Inv(net)'
<1> DEFINE rest == [net EXCEPT ![p] = Tail(@)]
<1>1. /\ net \in [Peers -> Seq(PacketsType)] /\ connected \subseteq Peers
      /\ net[p] \in Seq(PacketsType) /\ net[p] # <<>>
  BY DEF Receive, TInv, TypeOK
<1>2. UNCHANGED <<phase, sgbRecvCmd, sgbDeltaChunks, recvBuf, imported, requests, consumed, chosen,
                  sendDelta>>
  BY DEF Receive, requestVars
<1>3. ASSUME NEW s \in connected
      PROVE  /\ Silent(net[s]) => Silent(rest[s])
             /\ \A m \in Nat : Underway(s, m, net[s]) => Underway(s, m, rest[s])
  <2>1. CASE s = p
    <3>1. rest[s] = Tail(net[s]) /\ Head(net[s]).cmd = "PT_DISCONNECT"
      BY <1>1, <2>1
    <3> HIDE DEF rest
    <3>2. Silent(net[s]) => Silent(rest[s])
      BY <1>1, <2>1, <3>1, SilentChannels
    <3>3. \A m \in Nat : Underway(s, m, net[s]) => Underway(s, m, rest[s])
      BY <1>1, <2>1, <3>1, UnderwayTail
    <3> QED BY <3>2, <3>3
  <2>2. CASE s # p
    BY <1>1, <2>2
  <2> QED BY <2>1, <2>2
<1>4. CASE p \notin connected
  <2>1. net' = rest /\ UNCHANGED <<importVars, connected, queue>>
    BY <1>2, <1>4 DEF Receive, importVars
  <2> HIDE DEF rest
  <2>2. Inv(rest)
    BY <1>3, ChannelsKept
  <2> QED BY <1>2, <2>1, <2>2, ChannelsReplace
<1>5. CASE p \in connected
  <2> DEFINE gone == {Head(net[p]).src} \cap connected
  <2>1. Forget(gone, queue, gbDeltaSender, rest) /\ gone \in SUBSET connected
    BY <1>5 DEF Receive
  <2> HIDE DEF rest, gone
  <2>2. Inv(rest)
    BY <1>3, ChannelsKept
  <2> QED BY <1>2, <2>1, <2>2, ForgetKeeps
<1> QED BY <1>4, <1>5

\* A message of the state arrives at the end of the queue.
LEMMA ReceiveMessageKeeps ==
    ASSUME TInv, Agreed, Inv(net), NEW p \in Peers, Receive(p),
           p \in connected, Head(net[p]).cmd # "PT_DISCONNECT"
    PROVE  Inv(net)'
<1> DEFINE rest == [net EXCEPT ![p] = Tail(@)]
           packet == Head(net[p])
           longer == Append(queue, packet)
<1>1. /\ net \in [Peers -> Seq(PacketsType)] /\ connected \subseteq Peers
      /\ net[p] \in Seq(PacketsType) /\ net[p] # <<>> /\ queue \in Seq(ChunksType)
      /\ requests \in 1 .. MaxRequests
      /\ gbDeltaSender \in 0 .. N - 1 \cup {MAX_PLRS}
  BY DEF Receive, TInv, TypeOK
<1>2. /\ packet \in ChunksType /\ rest \in [Peers -> Seq(PacketsType)] /\ rest[p] = Tail(net[p])
      /\ \A q \in Peers : q # p => rest[q] = net[q]
  <2>1. packet \in PacketsType /\ Tail(net[p]) \in Seq(PacketsType)
    BY <1>1
  <2>2. packet \in ChunksType
    BY <2>1, PacketTypes
  <2> QED BY <1>1, <2>1, <2>2
<1>3. /\ longer \in Seq(ChunksType) /\ Len(longer) = Len(queue) + 1 /\ Len(queue) \in Nat
      /\ \A i \in 1 .. Len(queue) : longer[i] = queue[i]
      /\ longer[Len(queue) + 1] = packet
  BY <1>1, <1>2
<1>4. /\ queue' = longer /\ connected' = connected /\ net' = rest /\ gbDeltaSender' = gbDeltaSender
      /\ UNCHANGED <<phase, sgbRecvCmd, sgbDeltaChunks, recvBuf, imported, requests, consumed,
                     chosen, sendDelta>>
  <2>1. Forget({}, longer, gbDeltaSender, rest)
    BY DEF Receive
  <2>2. UNCHANGED <<phase, sgbRecvCmd, sgbDeltaChunks, recvBuf, imported, requests, consumed,
                     chosen, sendDelta>>
    BY DEF Receive, requestVars
  <2> HIDE DEF longer, rest
  <2>3. Without(longer, {}) = longer
    BY <1>3, WithoutNone
  <2>4. rest = [q \in Peers |-> rest[q]]
    BY <1>2
  <2> QED BY <2>1, <2>2, <2>3, <2>4 DEF Forget
<1> HIDE DEF longer, rest
<1>5. ~ Silent(net[p])
  <2>1. 1 \in 1 .. Len(net[p]) /\ Head(net[p]) = net[p][1]
    BY <1>1
  <2> QED BY <2>1 DEF Silent
<1>6. Answered(p) /\ p \in chosen[requests]
  BY <1>5 DEF Inv, Sources, Answered
<1>7. \A q : Answered(q) <=> Answered(q)'
  BY <1>4 DEF Answered
<1>8. Past' /\ SenderOK'
  BY <1>4 DEF Inv, Past, Left, SenderOK
<1>9. Sources(net)'
  <2> SUFFICES ASSUME NEW q \in connected
               PROVE  /\ q \in sendDelta => q \in chosen[requests] /\ consumed[q] = requests
                      /\ Answered(q)' \/ Silent(net'[q])
    BY <1>4 DEF Sources
  <2>1. CASE q = p
    BY <1>6, <1>7, <2>1 DEF Answered
  <2>2. CASE q # p
    BY <1>1, <1>2, <1>4, <1>7, <2>2 DEF Inv, Sources
  <2> QED BY <2>1, <2>2
<1>10. \A q \in chosen[requests] : q = p
  BY <1>1, <1>6, AgreedUnique
<1>11. phase # "done"
  BY <1>5, <1>10 DEF Inv, Done
<1>12. ASSUME phase \in {"owner", "process", "cancelled"}
       PROVE  /\ packet.src = p
              /\ \E n \in 0 .. Total : Progress(p, n, net[p])'
  <2>1. PICK n \in 0 .. Total : Progress(p, n, net[p])
    BY <1>6, <1>12 DEF Inv, Transfer
  <2>2. n + Len(queue) \in Nat /\ n \in Nat /\ Total \in Nat
    BY <1>3, TotalIs
  <2>3. Underway(p, n + Len(queue), net[p])
    BY <2>1 DEF Progress
  <2>4. /\ packet = Export(p)[(n + Len(queue)) + 1] /\ (n + Len(queue)) + 1 <= Total
        /\ Underway(p, (n + Len(queue)) + 1, rest[p])
    BY <1>1, <1>2, <2>2, <2>3, UnderwayTail
  <2>5. packet.src = p
    <3>1. (n + Len(queue)) + 1 \in 1 .. NumLevelChunks + 2
      BY <2>2, <2>4, TotalIs
    <3> QED BY <2>4, <3>1, ExportType
  <2>6. Received(p, n)'
    BY <1>4, <2>1 DEF Progress, Received, Fresh, InSomeLevel, InLevel, InJunk, AtEnd
  <2>7. Queued(p, n)'
    <3>1. \A i \in 1 .. Len(queue) : queue[i] = Export(p)[n + i]
      BY <2>1 DEF Progress, Queued
    <3>2. ASSUME NEW i \in 1 .. Len(longer)
          PROVE  longer[i] = Export(p)[n + i]
      <4>1. CASE i = Len(queue) + 1
        <5>1. n + i = (n + Len(queue)) + 1
          BY <1>3, <2>2, <4>1
        <5> QED BY <1>3, <2>4, <4>1, <5>1
      <4>2. CASE i # Len(queue) + 1
        <5>1. i \in 1 .. Len(queue)
          BY <1>3, <4>2
        <5> QED BY <1>3, <3>1, <5>1
      <4> QED BY <4>1, <4>2
    <3>3. n + Len(longer) <= Total
      BY <1>3, <2>2, <2>4
    <3> QED BY <1>4, <3>2, <3>3 DEF Queued
  <2>8. Underway(p, n + Len(queue'), net'[p])
    <3>1. n + Len(queue') = (n + Len(queue)) + 1
      <4>1. Len(queue') = Len(queue) + 1
        BY <1>3, <1>4
      <4> QED BY <1>3, <2>2, <4>1
    <3> QED BY <1>4, <2>4, <3>1
  <2>9. n > 0 => Answered(p)'
    BY <1>6, <1>7
  <2>10. Progress(p, n, net[p])'
    BY <2>6, <2>7, <2>8, <2>9 DEF Progress
  <2> QED BY <2>5, <2>10
<1>13. Transfer(net)'
  <2> SUFFICES ASSUME phase \in {"owner", "process", "cancelled"} PROVE Transfer(net)'
    BY <1>4 DEF Transfer
  <2>1. \A i \in 1 .. Len(longer) : longer[i].src \in connected /\ Answered(longer[i].src)
    <3> SUFFICES ASSUME NEW i \in 1 .. Len(longer)
                 PROVE  longer[i].src \in connected /\ Answered(longer[i].src)
      OBVIOUS
    <3>1. CASE i = Len(queue) + 1
      BY <1>3, <1>6, <1>12, <3>1
    <3>2. CASE i # Len(queue) + 1
      <4>1. i \in 1 .. Len(queue)
        BY <1>3, <3>2
      <4> QED BY <1>3, <4>1 DEF Inv, Transfer
    <3> QED BY <3>1, <3>2
  <2>2. gbDeltaSender' = Joiner => Fresh'
    BY <1>4 DEF Inv, Transfer, Fresh
  <2>3. \A i \in 1 .. Len(queue') : queue'[i].src \in connected' /\ Answered(queue[i].src)'
    BY <1>4, <2>1 DEF Answered
  <2>4. \E n \in 0 .. Total : Progress(p, n, net[p])'
    BY <1>12
  <2> QED BY <1>4, <1>10, <2>2, <2>3, <2>4 DEF Transfer
<1>14. Done(net)'
  BY <1>4, <1>11 DEF Done
<1> QED BY <1>4, <1>8, <1>9, <1>13, <1>14 DEF Inv

--------------------------------------------------------------------------------
(* The theorems.                                                               *)

LEMMA IInvInit == Init => IInv
<1> SUFFICES ASSUME Init PROVE IInv
  OBVIOUS
<1>1. TInv
  BY TInvInit
<1>2. /\ phase = "owner" /\ gbDeltaSender = Joiner /\ sgbRecvCmd = "CMD_DLEVEL_END"
      /\ sgbDeltaChunks = 0 /\ connected = Peers /\ queue = <<>>
      /\ net = [p \in Peers |-> <<>>] /\ requests = 1 /\ sendDelta = {}
      /\ chosen = [r \in 1 .. MaxRequests |-> {}]
  BY DEF Init
<1>3. Joiner \notin Peers /\ Joiner # MAX_PLRS /\ MaxRequests \in Nat \ {0}
  BY Constants, ParametersAssumption
<1>4. chosen[1] = {} /\ 1 \in 1 .. MaxRequests
  BY <1>2, <1>3
<1>5. Past
  BY <1>2, <1>3 DEF Past
<1>6. SenderOK
  BY <1>2, <1>3 DEF SenderOK
<1>7. Sources(net)
  BY <1>2 DEF Sources, Silent
<1>8. Transfer(net)
  <2>1. Len(queue) = 0
    BY <1>2
  <2> QED BY <1>2, <1>4, <2>1 DEF Transfer, Fresh
<1>9. Done(net)
  BY <1>2 DEF Done
<1> QED BY <1>1, <1>2, <1>5, <1>6, <1>7, <1>8, <1>9 DEF IInv, Inv

LEMMA IInvNext == IInv /\ [Next]_vars => IInv'
<1> SUFFICES ASSUME IInv, [Next]_vars PROVE IInv'
  OBVIOUS
<1>1. TInv /\ TInv'
  BY TInvNext DEF IInv
<1> SUFFICES ASSUME Agreed' PROVE Inv(net)'
  BY <1>1 DEF IInv
<1>2. Agreed /\ Inv(net)
  BY <1>1, AgreedBefore DEF IInv
<1>3. CASE JoinerStep
  BY <1>1, <1>2, <1>3, JoinerConsumesKeeps, HandleMessageKeeps, DistrustKeeps, OwnerReadyKeeps,
     AskAgainKeeps, NearlyDoneKeeps, ReturnKeeps, CancelKeeps DEF JoinerStep
<1>4. ASSUME NEW p \in Peers, PeerConsumes(p)
      PROVE  Inv(net)'
  BY <1>1, <1>2, <1>4, PeerConsumesKeeps
<1>5. ASSUME NEW p \in Peers, Answer(p)
      PROVE  Inv(net)'
  BY <1>1, <1>2, <1>5, AnswerKeeps
<1>6. ASSUME NEW p \in Peers, Crash(p)
      PROVE  Inv(net)'
  BY <1>1, <1>2, <1>6, CrashKeeps
<1>7. ASSUME NEW p \in Peers, Leave(p)
      PROVE  Inv(net)'
  BY <1>1, <1>2, <1>7, LeaveSentKeeps DEF Leave, requestVars
<1>8. ASSUME NEW p \in Peers, Receive(p)
      PROVE  Inv(net)'
  BY <1>1, <1>2, <1>8, ReceiveLeaveKeeps, ReceiveMessageKeeps
<1>9. ASSUME NEW p \in Peers, InfoTimeout(p)
      PROVE  Inv(net)'
  BY <1>1, <1>2, <1>9, InfoTimeoutKeeps
<1>10. ASSUME NEW p \in Peers, NEW q \in Peers \ {p}, Drop(q, p)
       PROVE  Inv(net)'
  BY <1>1, <1>2, <1>10, LeaveSentKeeps DEF Drop
<1>11. CASE UNCHANGED <<net, phase, importVars, connected, queue, requests, consumed, chosen, sendDelta>>
  <2> DEFINE channels == net
  <2> HIDE DEF channels
  <2>1. Inv(channels) /\ net' = channels
    BY <1>2, <1>11 DEF channels
  <2> QED BY <1>11, <2>1, ChannelsReplace
<1>12. ASSUME NEW p \in Peers, NEW q \in Peers \ {p}, PeerLearns(q, p)
       PROVE  Inv(net)'
  BY <1>11, <1>12 DEF PeerLearns
<1>13. CASE UNCHANGED vars
  BY <1>11, <1>13 DEF vars, requestVars
<1> QED BY <1>3, <1>4, <1>5, <1>6, <1>7, <1>8, <1>9, <1>10, <1>12, <1>13 DEF Next

LEMMA InvariantHolds == Spec => []IInv
BY IInvInit, IInvNext, PTL DEF Spec

LEMMA InvWhole == IInv => WholeState
BY DEF IInv, Inv, Done, WholeState

LEMMA InvOffsets == IInv => OffsetsMatch
<1> SUFFICES ASSUME IInv, Agreed, queue # <<>>,
                    RecvCmd(Head(queue)) # "CMD_DLEVEL_END", ~ EndsPart(Head(queue))
             PROVE  Head(queue).offset = Len(recvBuf)
  BY DEF OffsetsMatch
<1> DEFINE message == Head(queue)
<1>1. TInv /\ Inv(net)
  BY DEF IInv
<1>2. PICK s \in connected \cap chosen[requests], n \in 0 .. Total - 1 :
          /\ Answered(s) /\ message.src = s /\ message = Export(s)[n + 1]
          /\ Progress(s, n, net[s])
  BY <1>1, FirstInQueue
<1>3. s \in Peers /\ n \in Nat /\ n # Total
  BY <1>1, TotalIs DEF TInv, TypeOK
<1> HIDE DEF message
<1>4. sgbRecvCmd # "CMD_DLEVEL_END" /\ sgbRecvCmd = message.cmd /\ message.offset # 0
  BY DEF RecvCmd, EndsPart, message
<1>5. n # 0 /\ ~ AtEnd(s, n)
  BY <1>2, <1>3, <1>4 DEF Progress, Received, Fresh, AtEnd
<1>6. CASE InSomeLevel(s, n)
  <2>1. PICK v \in 0 .. MaxMultiplayerLevels - 1, k \in 1 .. LevelChunks : InLevel(s, n, v, k)
    BY <1>6 DEF InSomeLevel
  <2>2. Follows(s, n, v, k)
    BY <1>3, <2>1, NextMessage
  <2>3. k \in Nat /\ LevelChunks \in Nat /\ v \in Nat /\ MaxMultiplayerLevels \in Nat
    BY Constants, LevelsCounted
  <2>4. CASE k < LevelChunks
    <3>1. message.offset = k
      BY <1>2, <2>2, <2>4 DEF Follows, Chunk
    <3>2. Len(recvBuf) = k
      BY <2>1, <2>3 DEF InLevel
    <3> QED BY <3>1, <3>2 DEF message
  <2>5. CASE ~ (k < LevelChunks)
    <3>1. k = LevelChunks /\ (v < MaxMultiplayerLevels - 1 \/ v = MaxMultiplayerLevels - 1)
      BY <2>3, <2>5
    <3>2. message.offset = 0
      BY <1>2, <2>2, <3>1 DEF Follows, Chunk
    <3> QED BY <1>4, <3>2
  <2> QED BY <2>4, <2>5
<1>7. CASE InJunk(s, n)
  <2>1. message = Chunk("CMD_DLEVEL_END", s, "junk", 0)
    BY <1>2, <1>3, <1>7, NextMessage
  <2> QED BY <1>4, <2>1 DEF Chunk
<1> QED BY <1>2, <1>5, <1>6, <1>7 DEF Progress, Received

\* Every variable keeps its type, and the receive buffer its bound (sgRecvBuf).
THEOREM TypeCorrect == Spec => []TypeOK
<1>1. Init => TInv
  BY TInvInit
<1>2. TInv /\ [Next]_vars => TInv'
  BY TInvNext
<1>3. TInv => TypeOK
  BY DEF TInv
<1> QED BY <1>1, <1>2, <1>3, PTL DEF Spec

\* A program that enters the game has the state of the game as one player exported it
\* (OnLevelData, WaitForTurns), whoever leaves in the middle.
THEOREM StateIsWhole == Spec => []WholeState
BY InvariantHolds, InvWhole, PTL

\* A chunk that is copied continues what is in the receive buffer, as OnLevelData asserts.
THEOREM OffsetsAlwaysMatch == Spec => []OffsetsMatch
BY InvariantHolds, InvOffsets, PTL

\* What a player sends of the state is never the reason to drop it: it fits into the
\* receive buffer and unpacks (OnLevelData, DeltaImportData).
THEOREM NobodyIsBlamed == Spec => NobodyBlamed
<1>1. IInv /\ [Next]_vars => [HandleMessage /\ Agreed => connected' = connected]_vars
  <2> SUFFICES ASSUME IInv, [Next]_vars, HandleMessage, Agreed PROVE connected' = connected
    OBVIOUS
  <2>1. TInv /\ TInv' /\ Inv(net)
    BY TInvNext DEF IInv
  <2>2. chosen' = chosen
    BY DEF HandleMessage, requestVars
  <2>3. Agreed'
    BY <2>2 DEF Agreed
  <2> QED BY <2>1, <2>3, HandleMessageKeeps
<1> QED BY <1>1, InvariantHolds, PTL DEF Spec, NobodyBlamed

=============================================================================
