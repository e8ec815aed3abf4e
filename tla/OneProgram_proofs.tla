--------------------------- MODULE OneProgram_proofs ---------------------------
(***************************************************************************)
(* What holds of the two components that are one program by itself, for    *)
(* all values of their constants: CommandPath, the way of a command from   *)
(* the buffers to the wire and back, and NetThread, the two threads that   *)
(* exchange turns (from ConstantTypes on).                                 *)
(*                                                                         *)
(* CommandPath, for every size of commands, buffers and packets, and for   *)
(* every way to cut the bytes in the socket into parts.                    *)
(*                                                                         *)
(* The argument.  The bytes that are still to be read are whole frames,    *)
(* except that the size of the first one may have been read (FramedAs): a  *)
(* packet is one frame more at the end, and what ReadSize and ReadPacket   *)
(* take from the front is by its length a size and a content.  Only the    *)
(* last byte of a command tells that it has arrived, and a size or a       *)
(* header is no such byte, so the commands that bytes carry are those of   *)
(* their parts, one behind the other (CarriedConcat).  With it what is     *)
(* underway of a priority is what the received packets, the receiver's     *)
(* queue and the socket carry, and then the buffer; a step moves the       *)
(* borders between these, takes a packet's commands from the front, or     *)
(* puts one command behind (ForwardedQueues, HandleTakes).  That a packet  *)
(* holds whole commands, from the front of each buffer, is TakenFacts.     *)
(*                                                                         *)
(* NetThread, for every value of the provider's capabilities.  Who holds   *)
(* MemCrit is known in every state (Holder), and the flags follow the      *)
(* control states (Flags).                                                 *)
(***************************************************************************)
EXTENDS CommandPath, NetThread, Subsequences_proofs

LEMMA SizesNat == \A command \in Commands : command.size \in Nat \ {0} /\ command.size <= MsgSize
  BY SizesAssumption DEF Commands

--------------------------------------------------------------------------------
(* Joined: the sequences of a sequence one behind the other.                    *)

JoinedBy(f, seqs, n) ==
    [i \in 0 .. n |-> IF i = 0 THEN <<>> ELSE f[i - 1] \o seqs[i]]

LEMMA JoinedExists ==
    ASSUME NEW S, NEW seqs \in Seq(Seq(S))
    PROVE  \E f : f = JoinedBy(f, seqs, Len(seqs))
<1> DEFINE m == Len(seqs)
           step == [i \in 1 .. m |-> [a \in Seq(S) |-> a \o seqs[i]]]
<1>1. m \in Nat /\ <<>> \in Seq(S)
  OBVIOUS
<1>2. step \in [1 .. m -> [Seq(S) -> Seq(S)]]
  OBVIOUS
<1>3. \E f \in [0 .. m -> Seq(S)] : f = RunBy(f, <<>>, step, m)
  <2> HIDE DEF m, step
  <2> QED BY <1>1, <1>2, Runs, ZenonT(40)
<1>4. PICK f \in [0 .. m -> Seq(S)] : f = RunBy(f, <<>>, step, m)
  BY <1>3
<1> DEFINE h == JoinedBy(f, seqs, m)
<1>5. ASSUME NEW i \in 0 .. m PROVE f[i] = h[i]
  <2>1. f[i] = IF i = 0 THEN <<>> ELSE step[i][f[i - 1]]
    <3>1. f[i] = RunBy(f, <<>>, step, m)[i]
      BY <1>4
    <3> HIDE DEF step, m
    <3> QED BY <3>1 DEF RunBy
  <2>2. CASE i = 0
    BY <2>1, <2>2 DEF JoinedBy
  <2>3. CASE i # 0
    <3>1. i \in 1 .. m /\ f[i - 1] \in Seq(S)
      BY <2>3, SMTT(40)
    <3>2. step[i][f[i - 1]] = f[i - 1] \o seqs[i]
      BY <3>1
    <3> HIDE DEF step
    <3> QED BY <2>1, <2>3, <3>2 DEF JoinedBy
  <2> QED BY <2>2, <2>3
<1>6. f = [i \in 0 .. m |-> f[i]] /\ h = [i \in 0 .. m |-> h[i]]
  BY DEF JoinedBy
<1>7. f = h
  <2> HIDE DEF h, m
  <2> QED BY <1>5, <1>6
<1> QED BY <1>7

LEMMA JoinedRun ==
    ASSUME NEW S, NEW seqs \in Seq(Seq(S))
    PROVE  \E f : /\ Joined(seqs) = f[Len(seqs)]
                  /\ f[0] = <<>>
                  /\ \A i \in 1 .. Len(seqs) : f[i] = f[i - 1] \o seqs[i]
<1> DEFINE f == CHOOSE f : f = JoinedBy(f, seqs, Len(seqs))
           h == JoinedBy(f, seqs, Len(seqs))
<1>1. f = h
  BY JoinedExists
<1>2. Joined(seqs) = f[Len(seqs)]
  BY DEF Joined, JoinedBy
<1>3. h[0] = <<>> /\ \A i \in 1 .. Len(seqs) : h[i] = f[i - 1] \o seqs[i]
  <2>1. \A i \in 0 .. Len(seqs) : h[i] = IF i = 0 THEN <<>> ELSE f[i - 1] \o seqs[i]
    <3> HIDE DEF f
    <3> QED BY DEF JoinedBy
  <2>2. h[0] = <<>>
    BY <2>1
  <2>3. \A i \in 1 .. Len(seqs) : i \in 0 .. Len(seqs) /\ i # 0
    OBVIOUS
  <2> HIDE DEF f, h
  <2> QED BY <2>1, <2>2, <2>3, Zenon
<1> HIDE DEF f, h
<1> QED BY <1>1, <1>2, <1>3

LEMMA JoinedEmpty == Joined(<<>>) = <<>>
<1>1. ASSUME NEW e \in Seq(Seq({})), Len(e) = 0 PROVE Joined(e) = <<>>
  <2>1. PICK f : Joined(e) = f[Len(e)] /\ f[0] = <<>>
    BY JoinedRun
  <2> QED BY <1>1, <2>1
<1>2. <<>> \in Seq(Seq({})) /\ Len(<<>>) = 0
  OBVIOUS
<1> QED BY <1>1, <1>2, Zenon

LEMMA JoinedAppend ==
    ASSUME NEW S, NEW seqs \in Seq(Seq(S)), NEW x \in Seq(S)
    PROVE  Joined(Append(seqs, x)) = Joined(seqs) \o x
<1> DEFINE m == Len(seqs)
           long == Append(seqs, x)
<1>1. PICK f : /\ Joined(seqs) = f[m]
               /\ f[0] = <<>>
               /\ \A i \in 1 .. m : f[i] = f[i - 1] \o seqs[i]
  BY JoinedRun
<1>2. long \in Seq(Seq(S)) /\ Len(long) = m + 1 /\ m \in Nat /\ long[m + 1] = x
  OBVIOUS
<1>3. PICK g : /\ Joined(long) = g[m + 1]
               /\ g[0] = <<>>
               /\ \A i \in 1 .. m + 1 : g[i] = g[i - 1] \o long[i]
  <2> HIDE DEF long
  <2> QED BY <1>2, JoinedRun
<1>4. \A i \in 1 .. m : long[i] = seqs[i]
  OBVIOUS
<1>5. g[m + 1] = g[m] \o x
  <2>1. m + 1 \in 1 .. m + 1 /\ (m + 1) - 1 = m
    BY <1>2
  <2> HIDE DEF long, m
  <2> QED BY <1>2, <1>3, <2>1
<1>6. \A i \in 1 .. m : g[i - 1] = f[i - 1] => g[i] = f[i]
  <2> SUFFICES ASSUME NEW i \in 1 .. m, g[i - 1] = f[i - 1] PROVE g[i] = f[i]
    OBVIOUS
  <2>1. i \in 1 .. m + 1 /\ long[i] = seqs[i]
    BY <1>2, <1>4
  <2> HIDE DEF long, m
  <2> QED BY <1>1, <1>3, <2>1
<1>7. g[m] = f[m]
  <2>1. m \in Nat /\ f[0] = g[0]
    BY <1>1, <1>2, <1>3
  <2> HIDE DEF long, m
  <2> QED BY <1>6, <2>1, Alike
<1> QED BY <1>1, <1>3, <1>5, <1>7

--------------------------------------------------------------------------------
(* TotalSize: the bytes of commands.                                            *)

TotalSizeBy(f, commands, n) ==
    [i \in 0 .. n |-> IF i = 0 THEN 0 ELSE f[i - 1] + commands[i].size]

LEMMA TotalSizeExists ==
    ASSUME NEW commands \in Seq(Commands)
    PROVE  \E f : f = TotalSizeBy(f, commands, Len(commands))
<1> DEFINE m == Len(commands)
           step == [i \in 1 .. m |-> [a \in Nat |-> a + commands[i].size]]
<1>1. m \in Nat /\ 0 \in Nat
  OBVIOUS
<1>2. step \in [1 .. m -> [Nat -> Nat]]
  BY SizesNat
<1>3. \E f \in [0 .. m -> Nat] : f = RunBy(f, 0, step, m)
  <2>1. ASSUME NEW A, A = Nat, NEW z, z = 0
       PROVE  \E f \in [0 .. m -> A] : f = RunBy(f, z, step, m)
    <3>1. z \in A /\ step \in [1 .. m -> [A -> A]] /\ m \in Nat
      BY <1>1, <1>2, <2>1
    <3> HIDE DEF m, step
    <3> QED BY <3>1, Runs
  <2> HIDE DEF m, step
  <2> QED BY <2>1, Zenon
<1>4. PICK f \in [0 .. m -> Nat] : f = RunBy(f, 0, step, m)
  BY <1>3
<1> DEFINE h == TotalSizeBy(f, commands, m)
<1>5. ASSUME NEW i \in 0 .. m PROVE f[i] = h[i]
  <2>1. f[i] = IF i = 0 THEN 0 ELSE step[i][f[i - 1]]
    <3>1. f[i] = RunBy(f, 0, step, m)[i]
      BY <1>4
    <3> HIDE DEF step, m
    <3> QED BY <3>1 DEF RunBy
  <2>2. CASE i = 0
    BY <2>1, <2>2 DEF TotalSizeBy
  <2>3. CASE i # 0
    <3>1. i \in 1 .. m /\ f[i - 1] \in Nat
      BY <2>3
    <3>2. step[i][f[i - 1]] = f[i - 1] + commands[i].size
      BY <3>1
    <3> HIDE DEF step
    <3> QED BY <2>1, <2>3, <3>2 DEF TotalSizeBy
  <2> QED BY <2>2, <2>3
<1>6. f = [i \in 0 .. m |-> f[i]] /\ h = [i \in 0 .. m |-> h[i]]
  BY DEF TotalSizeBy
<1>7. f = h
  <2> HIDE DEF h, m
  <2> QED BY <1>5, <1>6
<1> QED BY <1>7

LEMMA TotalSizeRun ==
    ASSUME NEW commands \in Seq(Commands)
    PROVE  \E f : /\ TotalSize(commands) = f[Len(commands)]
                  /\ f[0] = 0
                  /\ \A i \in 1 .. Len(commands) : f[i] = f[i - 1] + commands[i].size
<1> DEFINE f == CHOOSE f : f = TotalSizeBy(f, commands, Len(commands))
           h == TotalSizeBy(f, commands, Len(commands))
<1>1. f = h
  BY TotalSizeExists
<1>2. TotalSize(commands) = f[Len(commands)]
  BY DEF TotalSize, TotalSizeBy
<1>3. h[0] = 0 /\ \A i \in 1 .. Len(commands) : h[i] = f[i - 1] + commands[i].size
  <2>1. \A i \in 0 .. Len(commands) : h[i] = IF i = 0 THEN 0 ELSE f[i - 1] + commands[i].size
    <3> HIDE DEF f
    <3> QED BY DEF TotalSizeBy
  <2>2. h[0] = 0
    BY <2>1
  <2>3. \A i \in 1 .. Len(commands) : i \in 0 .. Len(commands) /\ i # 0
    OBVIOUS
  <2> HIDE DEF f, h
  <2> QED BY <2>1, <2>2, <2>3, Zenon
<1> HIDE DEF f, h
<1> QED BY <1>1, <1>2, <1>3

LEMMA TotalSizeEmpty == TotalSize(<<>>) = 0
<1>1. ASSUME NEW e \in Seq(Commands), Len(e) = 0 PROVE TotalSize(e) = 0
  <2>1. PICK f : TotalSize(e) = f[Len(e)] /\ f[0] = 0
    BY TotalSizeRun
  <2> QED BY <1>1, <2>1
<1>2. <<>> \in Seq(Commands) /\ Len(<<>>) = 0
  OBVIOUS
<1> QED BY <1>1, <1>2, Zenon

LEMMA TotalSizeAppend ==
    ASSUME NEW commands \in Seq(Commands), NEW x \in Commands
    PROVE  TotalSize(Append(commands, x)) = TotalSize(commands) + x.size
<1> DEFINE m == Len(commands)
           long == Append(commands, x)
<1>1. PICK f : /\ TotalSize(commands) = f[m]
               /\ f[0] = 0
               /\ \A i \in 1 .. m : f[i] = f[i - 1] + commands[i].size
  BY TotalSizeRun
<1>2. long \in Seq(Commands) /\ Len(long) = m + 1 /\ m \in Nat /\ long[m + 1] = x
  OBVIOUS
<1>3. PICK g : /\ TotalSize(long) = g[m + 1]
               /\ g[0] = 0
               /\ \A i \in 1 .. m + 1 : g[i] = g[i - 1] + long[i].size
  <2> HIDE DEF long
  <2> QED BY <1>2, TotalSizeRun
<1>4. \A i \in 1 .. m : long[i] = commands[i]
  OBVIOUS
<1>5. g[m + 1] = g[m] + x.size
  <2>1. m + 1 \in 1 .. m + 1 /\ (m + 1) - 1 = m
    BY <1>2
  <2> HIDE DEF long, m
  <2> QED BY <1>2, <1>3, <2>1
<1>6. \A i \in 1 .. m : g[i - 1] = f[i - 1] => g[i] = f[i]
  <2> SUFFICES ASSUME NEW i \in 1 .. m, g[i - 1] = f[i - 1] PROVE g[i] = f[i]
    OBVIOUS
  <2>1. i \in 1 .. m + 1 /\ long[i] = commands[i]
    BY <1>2, <1>4
  <2> HIDE DEF long, m
  <2> QED BY <1>1, <1>3, <2>1
<1>7. g[m] = f[m]
  <2> HIDE DEF long, m
  <2> QED BY <1>1, <1>2, <1>3, <1>6, Alike, SMTT(40)
<1> QED BY <1>1, <1>3, <1>5, <1>7

--------------------------------------------------------------------------------
(* Sequences of sequences, and sizes of sequences of commands.                 *)

LEMMA JoinedType ==
    ASSUME NEW S, NEW seqs \in Seq(Seq(S))
    PROVE  Joined(seqs) \in Seq(S)
<1> DEFINE P == {s \in Seq(Seq(S)) : Joined(s) \in Seq(S)}
<1>1. <<>> \in P
  <2>1. <<>> \in Seq(Seq(S)) /\ <<>> \in Seq(S)
    OBVIOUS
  <2> QED BY <2>1, JoinedEmpty
<1>2. ASSUME NEW s \in Seq(Seq(S)), NEW x \in Seq(S), s \in P PROVE Append(s, x) \in P
  <2>1. Joined(Append(s, x)) = Joined(s) \o x
    BY JoinedAppend
  <2>2. Joined(s) \in Seq(S) /\ Append(s, x) \in Seq(Seq(S))
    BY <1>2
  <2>3. Joined(s) \o x \in Seq(S)
    BY <2>2
  <2> QED BY <2>1, <2>2, <2>3
<1>3. Seq(Seq(S)) \subseteq P
  <2> HIDE DEF P
  <2> QED BY <1>1, <1>2, SeqInduct
<1> QED BY <1>3

LEMMA JoinedConcat ==
    ASSUME NEW S, NEW a \in Seq(Seq(S)), NEW b \in Seq(Seq(S))
    PROVE  Joined(a \o b) = Joined(a) \o Joined(b)
<1> DEFINE P == {s \in Seq(Seq(S)) : Joined(a \o s) = Joined(a) \o Joined(s)}
<1>0. Joined(a) \in Seq(S)
  BY JoinedType
<1>1. <<>> \in P
  <2>1. <<>> \in Seq(Seq(S)) /\ a \o <<>> = a /\ Joined(a) \o <<>> = Joined(a)
    BY <1>0
  <2> QED BY <2>1, JoinedEmpty
<1>2. ASSUME NEW s \in Seq(Seq(S)), NEW x \in Seq(S), s \in P PROVE Append(s, x) \in P
  <2>1. Joined(Append(s, x)) = Joined(s) \o x
    BY JoinedAppend
  <2>2. a \o s \in Seq(Seq(S)) /\ a \o Append(s, x) = Append(a \o s, x) /\ Append(s, x) \in Seq(Seq(S))
    OBVIOUS
  <2>3. Joined(Append(a \o s, x)) = Joined(a \o s) \o x
    BY <2>2, JoinedAppend
  <2>4. Joined(a \o s) = Joined(a) \o Joined(s)
    BY <1>2
  <2>5. Joined(s) \in Seq(S)
    BY JoinedType
  <2>6. (Joined(a) \o Joined(s)) \o x = Joined(a) \o (Joined(s) \o x)
    <3>1. \A t, u, v \in Seq(S) : (t \o u) \o v = t \o (u \o v)
      BY ONLY ConcatAssociates
    <3> QED BY <1>0, <2>5, <3>1, Zenon
  <2> QED BY <2>1, <2>2, <2>3, <2>4, <2>6
<1>3. Seq(Seq(S)) \subseteq P
  <2> HIDE DEF P
  <2> QED BY <1>1, <1>2, SeqInduct
<1> QED BY <1>3

LEMMA JoinedSingle ==
    ASSUME NEW S, NEW x \in Seq(S)
    PROVE  Joined(<<x>>) = x
<1>1. <<>> \in Seq(Seq(S)) /\ Append(<<>>, x) = <<x>> /\ <<>> \o x = x
  OBVIOUS
<1>2. Joined(Append(<<>>, x)) = Joined(<<>>) \o x
  BY <1>1, JoinedAppend
<1> QED BY <1>1, <1>2, JoinedEmpty

LEMMA TotalSizeType ==
    ASSUME NEW commands \in Seq(Commands)
    PROVE  TotalSize(commands) \in Nat
<1> DEFINE P == {s \in Seq(Commands) : TotalSize(s) \in Nat}
<1>1. <<>> \in P
  <2>1. <<>> \in Seq(Commands) /\ 0 \in Nat
    OBVIOUS
  <2> QED BY <2>1, TotalSizeEmpty
<1>2. ASSUME NEW s \in Seq(Commands), NEW x \in Commands, s \in P PROVE Append(s, x) \in P
  <2>1. TotalSize(Append(s, x)) = TotalSize(s) + x.size
    BY TotalSizeAppend
  <2>2. TotalSize(s) \in Nat /\ x.size \in Nat /\ Append(s, x) \in Seq(Commands)
    BY <1>2, SizesNat
  <2> QED BY <2>1, <2>2
<1>3. Seq(Commands) \subseteq P
  <2> HIDE DEF P
  <2> QED BY <1>1, <1>2, SeqInduct
<1> QED BY <1>3

LEMMA TotalSizeConcat ==
    ASSUME NEW a \in Seq(Commands), NEW b \in Seq(Commands)
    PROVE  TotalSize(a \o b) = TotalSize(a) + TotalSize(b)
<1> DEFINE P == {s \in Seq(Commands) : TotalSize(a \o s) = TotalSize(a) + TotalSize(s)}
<1>0. TotalSize(a) \in Nat
  BY TotalSizeType
<1>1. <<>> \in P
  <2>1. <<>> \in Seq(Commands) /\ a \o <<>> = a /\ TotalSize(a) + 0 = TotalSize(a)
    BY <1>0
  <2> QED BY <2>1, TotalSizeEmpty
<1>2. ASSUME NEW s \in Seq(Commands), NEW x \in Commands, s \in P PROVE Append(s, x) \in P
  <2>1. TotalSize(Append(s, x)) = TotalSize(s) + x.size
    BY TotalSizeAppend
  <2>2. a \o s \in Seq(Commands) /\ a \o Append(s, x) = Append(a \o s, x) /\ Append(s, x) \in Seq(Commands)
    OBVIOUS
  <2>3. TotalSize(Append(a \o s, x)) = TotalSize(a \o s) + x.size
    BY <2>2, TotalSizeAppend
  <2>4. TotalSize(a \o s) = TotalSize(a) + TotalSize(s)
    BY <1>2
  <2>5. TotalSize(s) \in Nat /\ x.size \in Nat
    BY TotalSizeType, SizesNat
  <2>6. (TotalSize(a) + TotalSize(s)) + x.size = TotalSize(a) + (TotalSize(s) + x.size)
    BY <1>0, <2>5
  <2> QED BY <2>1, <2>2, <2>3, <2>4, <2>6
<1>3. Seq(Commands) \subseteq P
  <2> HIDE DEF P
  <2> QED BY <1>1, <1>2, SeqInduct
<1> QED BY <1>3

--------------------------------------------------------------------------------
(* Bytes, and the commands that they carry.                                    *)

SizeDigits == {SizeByte(digit) : digit \in 0 .. Radix - 1}

LEMMA SizeDigitsType == SizeDigits \subseteq BytesType /\ HeaderByte \in SizeDigits
<1>1. 0 \in 0 .. MsgSize
  BY SizesAssumption
<1> QED BY <1>1 DEF SizeDigits, SizeByte, HeaderByte, BytesType, Radix

LEMMA LastBytesType ==
    /\ LastBytes \subseteq BytesType
    /\ SizeDigits \cap LastBytes = {}
    /\ \A byte \in LastBytes : byte.command \in Commands
<1>1. \A c \in Commands : c.size \in 1 .. MsgSize
  BY SizesNat, SizesAssumption
<1>2. LastBytes \subseteq BytesType
  BY <1>1 DEF LastBytes, DataByte, BytesType, Radix
<1>3. \A byte \in LastBytes : byte.command \in Commands /\ byte.index # 0
  BY <1>1 DEF LastBytes, DataByte
<1>4. \A byte \in SizeDigits : byte.index = 0
  BY DEF SizeDigits, SizeByte
<1> QED BY <1>2, <1>3, <1>4

\* The commands of bytes that are last ones.
Named(ends) == [i \in 1 .. Len(ends) |-> ends[i].command]

LEMMA CommandsInNamed == \A bytes : CommandsIn(bytes) = Named(Among(bytes, LastBytes))
  BY DEF CommandsIn, Named

LEMMA NamedType ==
    ASSUME NEW ends \in Seq(LastBytes)
    PROVE  Named(ends) \in Seq(Commands) /\ Len(Named(ends)) = Len(ends)
<1>1. \A i \in 1 .. Len(ends) : ends[i].command \in Commands
  BY LastBytesType
<1> QED BY <1>1 DEF Named

LEMMA NamedConcat ==
    ASSUME NEW a \in Seq(LastBytes), NEW b \in Seq(LastBytes)
    PROVE  Named(a \o b) = Named(a) \o Named(b)
<1>1. /\ a \o b \in Seq(LastBytes)
      /\ Named(a \o b) \in Seq(Commands) /\ Len(Named(a \o b)) = Len(a) + Len(b)
  <2>1. a \o b \in Seq(LastBytes) /\ Len(a \o b) = Len(a) + Len(b)
    OBVIOUS
  <2> QED BY <2>1, NamedType
<1>2. /\ Named(a) \in Seq(Commands) /\ Len(Named(a)) = Len(a)
      /\ Named(b) \in Seq(Commands) /\ Len(Named(b)) = Len(b)
  BY NamedType
<1>3. /\ Named(a) \o Named(b) \in Seq(Commands)
      /\ Len(Named(a) \o Named(b)) = Len(a) + Len(b)
  <2>1. \A s, t \in Seq(Commands) : s \o t \in Seq(Commands) /\ Len(s \o t) = Len(s) + Len(t)
    OBVIOUS
  <2> QED BY <1>2, <2>1
<1>4. ASSUME NEW i \in 1 .. Len(a) + Len(b)
      PROVE  Named(a \o b)[i] = (Named(a) \o Named(b))[i]
  <2>1. Named(a \o b)[i] = (a \o b)[i].command
    BY <1>1 DEF Named
  <2>2. CASE i <= Len(a)
    <3>1. i \in 1 .. Len(a) /\ (a \o b)[i] = a[i]
      BY <2>2
    <3>2. (Named(a) \o Named(b))[i] = Named(a)[i]
      BY <3>1, <1>2
    <3>3. Named(a)[i] = a[i].command
      BY <3>1 DEF Named
    <3> QED BY <2>1, <3>1, <3>2, <3>3
  <2>3. CASE ~ (i <= Len(a))
    <3>1. i - Len(a) \in 1 .. Len(b) /\ (a \o b)[i] = b[i - Len(a)]
      BY <2>3
    <3>2. (Named(a) \o Named(b))[i] = Named(b)[i - Len(a)]
      BY <3>1, <2>3, <1>2
    <3>3. Named(b)[i - Len(a)] = b[i - Len(a)].command
      BY <3>1 DEF Named
    <3> QED BY <2>1, <3>1, <3>2, <3>3
  <2> QED BY <2>2, <2>3
<1> QED BY <1>1, <1>3, <1>4, SeqEqual

LEMMA CommandsInType ==
    ASSUME NEW bytes \in Seq(BytesType)
    PROVE  CommandsIn(bytes) \in Seq(Commands)
<1>1. Among(bytes, LastBytes) \in Seq(BytesType \cap LastBytes)
  BY AmongType
<1>2. BytesType \cap LastBytes = LastBytes
  BY LastBytesType
<1> QED BY <1>1, <1>2, NamedType, CommandsInNamed

LEMMA CommandsInConcat ==
    ASSUME NEW a \in Seq(BytesType), NEW b \in Seq(BytesType)
    PROVE  CommandsIn(a \o b) = CommandsIn(a) \o CommandsIn(b)
<1>1. /\ Among(a, LastBytes) \in Seq(BytesType \cap LastBytes)
      /\ Among(b, LastBytes) \in Seq(BytesType \cap LastBytes)
  BY AmongType
<1>2. BytesType \cap LastBytes = LastBytes
  BY LastBytesType
<1>3. Among(a \o b, LastBytes) = Among(a, LastBytes) \o Among(b, LastBytes)
  BY AmongConcat
<1>4. Named(Among(a, LastBytes) \o Among(b, LastBytes))
          = Named(Among(a, LastBytes)) \o Named(Among(b, LastBytes))
  BY <1>1, <1>2, NamedConcat
<1> QED BY <1>3, <1>4, CommandsInNamed

LEMMA NamedEmpty == Named(<<>>) = <<>>
  BY DEF Named

LEMMA CommandsInSizes ==
    ASSUME NEW bytes \in Seq(SizeDigits)
    PROVE  CommandsIn(bytes) = <<>>
<1>1. Among(bytes, LastBytes) = <<>>
  BY AmongNone, LastBytesType
<1> QED BY <1>1, NamedEmpty, CommandsInNamed

LEMMA CommandsInEmpty == CommandsIn(<<>>) = <<>>
  BY AmongEmpty, NamedEmpty, CommandsInNamed

LEMMA BytesOfType ==
    ASSUME NEW command \in Commands
    PROVE  BytesOf(command) \in Seq(BytesType) /\ Len(BytesOf(command)) = command.size
<1>1. command.size \in Nat \ {0} /\ command.size <= MsgSize /\ MsgSize \in Nat
  BY SizesNat, SizesAssumption
<1>2. \A i \in 1 .. command.size : DataByte(command, i) \in BytesType
  BY <1>1 DEF DataByte, BytesType, Radix
<1> QED BY <1>1, <1>2 DEF BytesOf

\* Only the last byte of a command tells that it has arrived.
LEMMA CommandsInBytesOf ==
    ASSUME NEW command \in Commands
    PROVE  CommandsIn(BytesOf(command)) = <<command>>
<1> DEFINE size == command.size
           first == [i \in 1 .. size - 1 |-> DataByte(command, i)]
           last == DataByte(command, size)
<1>1. size \in Nat \ {0} /\ size <= MsgSize
  BY SizesNat
<1>2. last \in LastBytes /\ last.command = command
  BY DEF LastBytes, DataByte
<1>3. \A i \in 1 .. size - 1 : DataByte(command, i) \in BytesType \ LastBytes
  <2> SUFFICES ASSUME NEW i \in 1 .. size - 1 PROVE DataByte(command, i) \in BytesType \ LastBytes
    OBVIOUS
  <2>1. DataByte(command, i) \in BytesType
    BY <1>1, SizesAssumption DEF DataByte, BytesType, Radix
  <2>2. ASSUME NEW c \in Commands, DataByte(command, i) = DataByte(c, c.size) PROVE FALSE
    <3>1. command = c /\ i = c.size
      BY <2>2 DEF DataByte
    <3> QED BY <3>1, <1>1
  <2> QED BY <2>1, <2>2 DEF LastBytes
<1>4. first \in Seq(BytesType \ LastBytes) /\ last \in BytesType
  BY <1>1, <1>2, <1>3, LastBytesType
<1>5. BytesOf(command) = Append(first, last)
  <2>1. BytesOf(command) \in Seq(BytesType) /\ Len(BytesOf(command)) = size
    BY BytesOfType
  <2>2. first \in Seq(BytesType) /\ Len(first) = size - 1
    <3>1. Len(first) = size - 1
      BY <1>1
    <3>2. BytesType \ LastBytes \subseteq BytesType
      OBVIOUS
    <3> HIDE DEF first
    <3> QED BY <1>4, <3>1, <3>2, SeqMonotonic
  <2>3. Append(first, last) \in Seq(BytesType) /\ Len(Append(first, last)) = size
    <3> HIDE DEF first, last
    <3> QED BY <1>1, <1>4, <2>2
  <2>4. ASSUME NEW i \in 1 .. size PROVE BytesOf(command)[i] = Append(first, last)[i]
    <3>1. BytesOf(command)[i] = DataByte(command, i)
      BY DEF BytesOf
    <3>2. CASE i = size
      <4>1. Append(first, last)[i] = last
        <5> HIDE DEF first, last
        <5> QED BY <1>1, <1>4, <2>2, <3>2
      <4> QED BY <3>1, <3>2, <4>1
    <3>3. CASE i # size
      <4>1. i \in 1 .. size - 1
        BY <1>1, <3>3
      <4>2. Append(first, last)[i] = first[i]
        <5> HIDE DEF first, last
        <5> QED BY <1>1, <1>4, <2>2, <4>1
      <4> QED BY <3>1, <4>1, <4>2
    <3> QED BY <3>2, <3>3
  <2> HIDE DEF first, last
  <2> QED BY <2>1, <2>3, <2>4, SeqEqual
<1>6. Among(first, LastBytes) = <<>>
  <2>1. (BytesType \ LastBytes) \cap LastBytes = {}
    OBVIOUS
  <2> HIDE DEF first
  <2> QED BY <1>4, <2>1, AmongNone
<1>7. Among(Append(first, last), LastBytes) = Append(<<>>, last)
  <2>1. first \in Seq(BytesType)
    <3>1. BytesType \ LastBytes \subseteq BytesType
      OBVIOUS
    <3> HIDE DEF first
    <3> QED BY <1>4, <3>1, SeqMonotonic
  <2> HIDE DEF first, last
  <2> QED BY <1>2, <1>4, <1>6, <2>1, AmongAppend
<1>8. Named(Append(<<>>, last)) = <<command>>
  <2> HIDE DEF last
  <2> QED BY <1>2 DEF Named
<1> QED BY <1>5, <1>7, <1>8, CommandsInNamed

--------------------------------------------------------------------------------
(* The contents of packets, and frames.                                        *)

LEMMA BytesConcat ==
    \A s, t \in Seq(BytesType) : s \o t \in Seq(BytesType) /\ Len(s \o t) = Len(s) + Len(t)
  OBVIOUS

LEMMA BytesAssociate ==
    \A s, t, u \in Seq(BytesType) : (s \o t) \o u = s \o (t \o u)
  OBVIOUS

Blocks(commands) == [i \in 1 .. Len(commands) |-> BytesOf(commands[i])]

LEMMA BlocksAppend ==
    ASSUME NEW commands \in Seq(Commands), NEW command \in Commands
    PROVE  /\ Blocks(commands) \in Seq(Seq(BytesType))
           /\ Blocks(Append(commands, command)) = Append(Blocks(commands), BytesOf(command))
<1> DEFINE long == Append(commands, command)
<1>1. /\ long \in Seq(Commands) /\ Len(long) = Len(commands) + 1
      /\ Len(commands) \in Nat /\ long[Len(commands) + 1] = command
      /\ \A i \in 1 .. Len(commands) : long[i] = commands[i]
  OBVIOUS
<1>2. ASSUME NEW cs \in Seq(Commands)
      PROVE  Blocks(cs) \in Seq(Seq(BytesType)) /\ Len(Blocks(cs)) = Len(cs)
  <2>1. \A i \in 1 .. Len(cs) : BytesOf(cs[i]) \in Seq(BytesType)
    BY BytesOfType
  <2> QED BY <2>1 DEF Blocks
<1>3. /\ Blocks(commands) \in Seq(Seq(BytesType)) /\ Len(Blocks(commands)) = Len(commands)
      /\ Blocks(long) \in Seq(Seq(BytesType)) /\ Len(Blocks(long)) = Len(commands) + 1
  <2> HIDE DEF long
  <2> QED BY <1>1, <1>2
<1> DEFINE longer == Append(Blocks(commands), BytesOf(command))
<1>4. BytesOf(command) \in Seq(BytesType)
  BY BytesOfType
<1>5. /\ longer \in Seq(Seq(BytesType)) /\ Len(longer) = Len(commands) + 1
      /\ longer[Len(commands) + 1] = BytesOf(command)
      /\ \A i \in 1 .. Len(commands) : longer[i] = Blocks(commands)[i]
  BY <1>3, <1>4, AppendProperties
<1>6. ASSUME NEW i \in 1 .. Len(commands) + 1 PROVE Blocks(long)[i] = longer[i]
  <2>1. Blocks(long)[i] = BytesOf(long[i])
    BY <1>1 DEF Blocks
  <2>2. CASE i = Len(commands) + 1
    BY <2>1, <2>2, <1>1, <1>5
  <2>3. CASE i # Len(commands) + 1
    <3>1. i \in 1 .. Len(commands)
      BY <2>3, <1>1
    <3>2. Blocks(commands)[i] = BytesOf(commands[i])
      BY <3>1 DEF Blocks
    <3>3. long[i] = commands[i] /\ longer[i] = Blocks(commands)[i]
      BY <1>1, <1>5, <3>1
    <3> HIDE DEF long, longer
    <3> QED BY <2>1, <3>2, <3>3
  <2> QED BY <2>2, <2>3
<1>7. Blocks(long) = longer
  <2> HIDE DEF long, longer
  <2> QED BY <1>3, <1>5, <1>6, SeqEqual
<1> QED BY <1>3, <1>7

\* The bytes of commands are as many as their sizes tell, and carry these commands.
LEMMA BlocksFacts ==
    ASSUME NEW commands \in Seq(Commands)
    PROVE  /\ Joined(Blocks(commands)) \in Seq(BytesType)
           /\ Len(Joined(Blocks(commands))) = TotalSize(commands)
           /\ CommandsIn(Joined(Blocks(commands))) = commands
<1> DEFINE J(s) == Joined(Blocks(s))
           Good(s) == J(s) \in Seq(BytesType) /\ Len(J(s)) = TotalSize(s) /\ CommandsIn(J(s)) = s
           P == {s \in Seq(Commands) : Good(s)}
<1>1. <<>> \in P
  <2>1. Blocks(<<>>) = <<>>
    BY DEF Blocks
  <2>2. <<>> \in Seq(BytesType) /\ Len(<<>>) = 0 /\ <<>> \in Seq(Commands)
    OBVIOUS
  <2> QED BY <2>1, <2>2, JoinedEmpty, TotalSizeEmpty, CommandsInEmpty
<1>2. ASSUME NEW s \in Seq(Commands), NEW x \in Commands, s \in P PROVE Append(s, x) \in P
  <2>0. Append(s, x) \in Seq(Commands) /\ s \o <<x>> = Append(s, x)
    OBVIOUS
  <2>1. BytesOf(x) \in Seq(BytesType) /\ Len(BytesOf(x)) = x.size
    BY BytesOfType
  <2>2. /\ Blocks(s) \in Seq(Seq(BytesType))
        /\ Blocks(Append(s, x)) = Append(Blocks(s), BytesOf(x))
    BY BlocksAppend
  <2>3. J(Append(s, x)) = J(s) \o BytesOf(x)
    BY <2>1, <2>2, JoinedAppend
  <2>4. J(s) \in Seq(BytesType) /\ Len(J(s)) = TotalSize(s) /\ CommandsIn(J(s)) = s
    BY <1>2
  <2>5. J(s) \o BytesOf(x) \in Seq(BytesType) /\ Len(J(s) \o BytesOf(x)) = TotalSize(s) + x.size
    <3> HIDE DEF J
    <3> QED BY <2>1, <2>4, BytesConcat
  <2>6. TotalSize(Append(s, x)) = TotalSize(s) + x.size
    BY TotalSizeAppend
  <2>7. CommandsIn(J(s) \o BytesOf(x)) = Append(s, x)
    <3>1. CommandsIn(J(s) \o BytesOf(x)) = CommandsIn(J(s)) \o CommandsIn(BytesOf(x))
      <4> HIDE DEF J
      <4> QED BY <2>1, <2>4, CommandsInConcat
    <3>2. CommandsIn(BytesOf(x)) = <<x>>
      BY CommandsInBytesOf
    <3> HIDE DEF J
    <3> QED BY <2>0, <2>4, <3>1, <3>2
  <2> HIDE DEF J
  <2> QED BY <2>0, <2>3, <2>5, <2>6, <2>7
<1>3. Seq(Commands) \subseteq P
  <2> HIDE DEF P
  <2> QED BY <1>1, <1>2, SeqInduct
<1> QED BY <1>3

LEMMA PayloadFacts ==
    ASSUME NEW commands \in Seq(Commands)
    PROVE  /\ Payload(commands) \in Seq(BytesType)
           /\ Len(Payload(commands)) = TotalSize(commands) + 1
           /\ CommandsIn(Payload(commands)) = commands
<1> DEFINE J == Joined(Blocks(commands))
           h == <<HeaderByte>>
<1>1. J \in Seq(BytesType) /\ Len(J) = TotalSize(commands) /\ CommandsIn(J) = commands
  BY BlocksFacts
<1>2. Payload(commands) = h \o J
  BY DEF Payload, Blocks
<1>3. h \in Seq(SizeDigits) /\ h \in Seq(BytesType) /\ Len(h) = 1
  BY SizeDigitsType
<1>4. CommandsIn(h) = <<>>
  <2> HIDE DEF h
  <2> QED BY <1>3, CommandsInSizes
<1>5. TotalSize(commands) \in Nat
  BY TotalSizeType
<1>6. h \o J \in Seq(BytesType) /\ Len(h \o J) = TotalSize(commands) + 1
  <2> HIDE DEF h, J
  <2>1. h \o J \in Seq(BytesType) /\ Len(h \o J) = Len(h) + Len(J)
    BY <1>1, <1>3, BytesConcat
  <2> QED BY <1>1, <1>3, <1>5, <2>1
<1>7. CommandsIn(h \o J) = <<>> \o commands
  <2> HIDE DEF h, J
  <2> QED BY <1>1, <1>3, <1>4, CommandsInConcat
<1> QED BY <1>2, <1>6, <1>7

\* What a packet may contain, and the frames that it is sent in.
Payloads == {Payload(commands) : commands \in {s \in Seq(Commands) : TotalSize(s) <= MsgSize}}
Frames == {MakeFrame(payload) : payload \in Payloads}

LEMMA PayloadsType ==
    ASSUME NEW payload \in Payloads
    PROVE  payload \in Seq(BytesType) /\ Len(payload) \in 1 .. MsgSize + 1
<1>1. PICK commands \in Seq(Commands) : payload = Payload(commands) /\ TotalSize(commands) <= MsgSize
  BY DEF Payloads
<1>2. TotalSize(commands) \in Nat /\ MsgSize \in Nat
  BY TotalSizeType, SizesAssumption
<1> QED BY <1>1, <1>2, PayloadFacts

SizeOf(payload) == <<SizeByte(Len(payload) % Radix), SizeByte(Len(payload) \div Radix)>>

\* The size in front of a payload is read as it was written, and carries no command.
LEMMA FrameFacts ==
    ASSUME NEW payload \in Payloads
    PROVE  /\ MakeFrame(payload) = SizeOf(payload) \o payload
           /\ SizeOf(payload) \in Seq(SizeDigits)
           /\ SizeOf(payload) \in Seq(BytesType)
           /\ Len(SizeOf(payload)) = SizeBytes
           /\ LoadSize(SizeOf(payload)) = Len(payload)
           /\ MakeFrame(payload) \in Seq(BytesType)
<1> DEFINE n == Len(payload)
<1>1. payload \in Seq(BytesType) /\ n \in Nat /\ n < 16
  BY PayloadsType, FrameAssumption, SizesAssumption DEF Radix
<1>2. n % 4 \in 0 .. 3 /\ n \div 4 \in 0 .. 3 /\ (n % 4) + 4 * (n \div 4) = n
  BY <1>1
<1>3. MakeFrame(payload) = SizeOf(payload) \o payload
  BY DEF MakeFrame, SizeOf
<1>4. SizeByte(n % Radix) \in SizeDigits /\ SizeByte(n \div Radix) \in SizeDigits
  BY <1>2 DEF SizeDigits, Radix
<1>5. SizeOf(payload) \in Seq(SizeDigits) /\ Len(SizeOf(payload)) = SizeBytes
  BY <1>4 DEF SizeOf, SizeBytes
<1>6. SizeOf(payload) \in Seq(BytesType)
  BY <1>5, SizeDigitsType, SeqMonotonic
<1>7. LoadSize(SizeOf(payload)) = n
  <2>1. SizeOf(payload)[1] = SizeByte(n % Radix) /\ SizeOf(payload)[2] = SizeByte(n \div Radix)
    BY DEF SizeOf
  <2> QED BY <1>2, <2>1 DEF LoadSize, SizeByte, Radix
<1>8. SizeOf(payload) \o payload \in Seq(BytesType)
  BY <1>1, <1>6, ConcatProperties
<1> QED BY <1>3, <1>5, <1>6, <1>7, <1>8

--------------------------------------------------------------------------------
(* What is taken from a packet buffer, and what is left.                       *)

LEMMA TakenFacts ==
    ASSUME NEW S, S \subseteq Commands, NEW cs \in Seq(S), NEW room \in Nat
    PROVE  /\ Taken(cs, room) \in Seq(S)
           /\ Rest(cs, Taken(cs, room)) \in Seq(S)
           /\ cs = Taken(cs, room) \o Rest(cs, Taken(cs, room))
           /\ TotalSize(Taken(cs, room)) <= room
           /\ TotalSize(cs) <= room => Rest(cs, Taken(cs, room)) = <<>>
<1> DEFINE F == {n \in 0 .. Len(cs) : TotalSize(SubSeq(cs, 1, n)) <= room}
           Ns == {n \in Nat : n <= Len(cs) => \E m \in F : m <= n /\ \A k \in F : k <= n => k <= m}
<1>1. 0 \in F
  <2>1. SubSeq(cs, 1, 0) = <<>> /\ 0 \in 0 .. Len(cs)
    OBVIOUS
  <2>2. TotalSize(SubSeq(cs, 1, 0)) = 0
    BY <2>1, TotalSizeEmpty, Zenon
  <2>3. 0 <= room
    OBVIOUS
  <2> QED BY <2>1, <2>2, <2>3
<1>2. 0 \in Ns
  <2>1. \A k \in F : k >= 0 /\ (k <= 0 => k = 0)
    OBVIOUS
  <2> HIDE DEF F
  <2> QED BY <1>1, <2>1
<1>3. ASSUME NEW n \in Nat, n \in Ns PROVE n + 1 \in Ns
  <2> SUFFICES ASSUME n + 1 <= Len(cs)
               PROVE  \E m \in F : m <= n + 1 /\ \A k \in F : k <= n + 1 => k <= m
    OBVIOUS
  <2>0. \A k \in F : k \in Nat
    OBVIOUS
  <2>1. PICK m \in F : m <= n /\ \A k \in F : k <= n => k <= m
    BY <1>3
  <2> HIDE DEF F
  <2>2. CASE n + 1 \in F
    BY <2>2
  <2>3. CASE n + 1 \notin F
    <3>1. \A k \in F : k <= n + 1 => k <= n
      BY <2>0, <2>3
    <3> QED BY <2>0, <2>1, <3>1
  <2> QED BY <2>2, <2>3
<1>4. Len(cs) \in Ns
  <2> HIDE DEF Ns
  <2> QED BY <1>2, <1>3, Induct
<1>5. \E m \in F : \A k \in F : k <= m
  <2>1. \A k \in F : k <= Len(cs)
    OBVIOUS
  <2>2. \E m \in F : m <= Len(cs) /\ \A k \in F : k <= Len(cs) => k <= m
    BY <1>4
  <2> HIDE DEF F
  <2> QED BY <2>1, <2>2
<1> DEFINE n == CHOOSE m \in F : \A k \in F : k <= m
<1>6. n \in F /\ \A k \in F : k <= n
  <2> HIDE DEF F
  <2> QED BY <1>5
<1>7. Taken(cs, room) = SubSeq(cs, 1, n)
  BY DEF Taken
<1> HIDE DEF n, Ns
<1>8. n \in 0 .. Len(cs) /\ TotalSize(SubSeq(cs, 1, n)) <= room
  BY <1>6
<1>9. /\ SubSeq(cs, 1, n) \in Seq(S) /\ Len(SubSeq(cs, 1, n)) = n
      /\ SubSeq(cs, n + 1, Len(cs)) \in Seq(S)
      /\ cs = SubSeq(cs, 1, n) \o SubSeq(cs, n + 1, Len(cs))
  <2>1. n \in 0 .. Len(cs)
    BY <1>8
  <2> QED BY <2>1, Cut, Zenon
<1>10. Rest(cs, Taken(cs, room)) = SubSeq(cs, n + 1, Len(cs))
  BY <1>7, <1>9 DEF Rest
<1>11. TotalSize(cs) <= room => n = Len(cs)
  <2>1. SubSeq(cs, 1, Len(cs)) = cs /\ Len(cs) \in 0 .. Len(cs)
    OBVIOUS
  <2>2. TotalSize(cs) <= room => Len(cs) \in F
    BY <2>1
  <2> HIDE DEF F
  <2> QED BY <1>6, <1>8, <2>2
<1>12. n = Len(cs) => SubSeq(cs, n + 1, Len(cs)) = <<>>
  <2> HIDE DEF F
  <2> QED BY <1>8
<1> QED BY <1>7, <1>8, <1>9, <1>10, <1>11, <1>12

LEMMA BufferedSizeConcat ==
    ASSUME NEW a \in Seq(Commands), NEW b \in Seq(Commands)
    PROVE  /\ BufferedSize(a \o b) = BufferedSize(a) + BufferedSize(b)
           /\ BufferedSize(a) \in Nat
           /\ BufferedSize(a) = 0 => a = <<>>
<1>1. TotalSize(a) \in Nat /\ TotalSize(b) \in Nat
  BY TotalSizeType
<1>2. TotalSize(a \o b) = TotalSize(a) + TotalSize(b)
  BY TotalSizeConcat
<1>3. Len(a) \in Nat /\ Len(b) \in Nat /\ Len(a \o b) = Len(a) + Len(b) /\ (Len(a) = 0 => a = <<>>)
  OBVIOUS
<1> QED BY <1>1, <1>2, <1>3 DEF BufferedSize

LEMMA BufferedSizeEmpty == BufferedSize(<<>>) = 0
  BY TotalSizeEmpty DEF BufferedSize

LEMMA BufferedSizeAppend ==
    ASSUME NEW a \in Seq(Commands), NEW command \in Commands
    PROVE  BufferedSize(Append(a, command)) = BufferedSize(a) + command.size + 1
<1>1. TotalSize(a) \in Nat /\ command.size \in Nat
  BY TotalSizeType, SizesNat
<1>2. TotalSize(Append(a, command)) = TotalSize(a) + command.size
  BY TotalSizeAppend
<1>3. Len(a) \in Nat /\ Len(Append(a, command)) = Len(a) + 1
  OBVIOUS
<1> QED BY <1>1, <1>2, <1>3 DEF BufferedSize

--------------------------------------------------------------------------------
(* The commands of a priority.                                                 *)

Of(priority) == {command \in Commands : command.priority = priority}

LEMMA OfPriorityAmong ==
    \A commands, priority : OfPriority(commands, priority) = Among(commands, Of(priority))
  BY DEF OfPriority, Of

LEMMA OfPriorityConcat ==
    ASSUME NEW a \in Seq(Commands), NEW b \in Seq(Commands), NEW priority
    PROVE  /\ OfPriority(a \o b, priority) = OfPriority(a, priority) \o OfPriority(b, priority)
           /\ OfPriority(a, priority) \in Seq(Commands)
<1>1. Among(a \o b, Of(priority)) = Among(a, Of(priority)) \o Among(b, Of(priority))
  BY AmongConcat
<1>2. Among(a, Of(priority)) \in Seq(Commands)
  BY AmongType
<1> QED BY <1>1, <1>2, OfPriorityAmong

\* A packet's commands with high priority precede those with low priority.
LEMMA OfPriorityPacket ==
    ASSUME NEW taken, taken["high"] \in Seq(Of("high")), taken["low"] \in Seq(Of("low")),
           NEW priority \in Priorities
    PROVE  OfPriority(taken["high"] \o taken["low"], priority) = taken[priority]
<1> DEFINE h == taken["high"]
           l == taken["low"]
<1>0. Of("high") \subseteq Commands /\ Of("low") \subseteq Commands
  BY DEF Of
<1>1. h \in Seq(Of("high")) /\ l \in Seq(Of("low")) /\ h \in Seq(Commands) /\ l \in Seq(Commands)
  BY <1>0, SeqMonotonic
<1>2. Of("high") \cap Of("low") = {} /\ Of("low") \cap Of("high") = {}
  BY DEF Of
<1>3. /\ Among(h, Of("high")) = h /\ Among(l, Of("low")) = l
      /\ Among(h, Of("low")) = <<>> /\ Among(l, Of("high")) = <<>>
  <2> HIDE DEF h, l
  <2> QED BY <1>1, <1>2, AmongAll, AmongNone
<1>4. Among(h \o l, Of(priority)) = Among(h, Of(priority)) \o Among(l, Of(priority))
  <2> HIDE DEF h, l
  <2> QED BY <1>1, AmongConcat
<1>5. h \o <<>> = h /\ <<>> \o l = l
  <2> HIDE DEF h, l
  <2> QED BY <1>1
<1>6. Among(h \o l, Of(priority)) = IF priority = "high" THEN h ELSE l
  <2> HIDE DEF h, l
  <2> QED BY <1>3, <1>4, <1>5 DEF Priorities
<1> QED BY <1>6, OfPriorityAmong DEF Priorities

--------------------------------------------------------------------------------
(* The inductive invariant.                                                    *)

\* Buffers hold commands of their priority, and the offsets go with them.
BuffersOK(buffers, offsets) ==
    /\ buffers \in [Priorities -> Seq(Commands)]
    /\ offsets \in [Priorities -> Nat]
    /\ \A priority \in Priorities :
           /\ buffers[priority] \in Seq(Of(priority))
           /\ offsets[priority] = BufferedSize(buffers[priority])
           /\ offsets[priority] < BufferSize

\* The bytes that are still to be read are whole frames, except that the size of the
\* first one may have been read.
FramedAs(size, bytes) ==
    \E frames \in Seq(Frames) :
        \/ size = 0 /\ bytes = Joined(frames)
        \/ \E payload \in Payloads : size = Len(payload) /\ bytes = payload \o Joined(frames)

SenderOK ==
    /\ BuffersOK(buffer, dwNextWriteOffset)
    /\ shareNextHighPriorityMessage \in BOOLEAN
    /\ given \in 0 .. MaxCommands

WireOK ==
    /\ stream \in Seq(BytesType)
    /\ buffer_deque \in Seq(BytesType)
    /\ nextsize \in 0 .. MsgSize + 1
    /\ FramedAs(nextsize, buffer_deque \o stream)

ReceiverOK ==
    /\ packets \in Seq(Payloads)
    /\ handled \in [Priorities -> Seq(Commands)]

IInv == SenderOK /\ WireOK /\ ReceiverOK

LEMMA PayloadsAreBytes == Payloads \subseteq Seq(BytesType)
  BY PayloadsType

LEMMA IInvImplies == IInv => TypeOK /\ packets \in Seq(Payloads)
<1> SUFFICES ASSUME IInv PROVE TypeOK
  BY DEF IInv, ReceiverOK
<1>1. packets \in Seq(Seq(BytesType))
  BY PayloadsAreBytes, SeqMonotonic DEF IInv, ReceiverOK
<1>2. handled \in [Priorities -> Seq(Commands)]
  BY DEF IInv, ReceiverOK
<1>3. /\ stream \in Seq(BytesType) /\ buffer_deque \in Seq(BytesType)
      /\ nextsize \in 0 .. MsgSize + 1
  BY DEF IInv, WireOK
<1>4. /\ buffer \in [Priorities -> Seq(Commands)]
      /\ \A priority \in Priorities :
             /\ dwNextWriteOffset[priority] = BufferedSize(buffer[priority])
             /\ dwNextWriteOffset[priority] < BufferSize
      /\ shareNextHighPriorityMessage \in BOOLEAN
      /\ given \in 0 .. MaxCommands
  BY DEF IInv, SenderOK, BuffersOK
<1> QED BY <1>1, <1>2, <1>3, <1>4 DEF TypeOK

LEMMA IInvInit == Init => IInv
<1> SUFFICES ASSUME Init PROVE IInv
  OBVIOUS
<1>1. SenderOK
  <2>1. 0 < BufferSize /\ 0 \in 0 .. MaxCommands
    BY SizesAssumption
  <2>2. \A S : <<>> \in Seq(S)
    OBVIOUS
  <2> QED BY <2>1, <2>2, BufferedSizeEmpty DEF SenderOK, BuffersOK, Init
<1>2. WireOK
  <2>1. <<>> \in Seq(Frames) /\ <<>> \in Seq(BytesType) /\ <<>> \o <<>> = <<>>
    OBVIOUS
  <2>2. FramedAs(0, <<>>)
    BY <2>1, JoinedEmpty DEF FramedAs
  <2>3. 0 \in 0 .. MsgSize + 1
    BY SizesAssumption
  <2>4. stream = <<>> /\ buffer_deque = <<>> /\ nextsize = 0
    BY DEF Init
  <2> QED BY <2>1, <2>2, <2>3, <2>4 DEF WireOK
<1>3. ReceiverOK
  BY DEF ReceiverOK, Init
<1> QED BY <1>1, <1>2, <1>3 DEF IInv

--------------------------------------------------------------------------------
(* Frames in the socket.                                                       *)

LEMMA FramesAreBytes == Frames \subseteq Seq(BytesType)
  BY FrameFacts DEF Frames

LEMMA JoinedFrames ==
    ASSUME NEW frames \in Seq(Frames)
    PROVE  frames \in Seq(Seq(BytesType)) /\ Joined(frames) \in Seq(BytesType)
<1>1. frames \in Seq(Seq(BytesType))
  BY FramesAreBytes, SeqMonotonic
<1> QED BY <1>1, JoinedType

LEMMA FramedAppend ==
    ASSUME NEW size, NEW bytes, FramedAs(size, bytes), NEW frame \in Frames
    PROVE  FramedAs(size, bytes \o frame)
<1>1. PICK frames \in Seq(Frames) :
          \/ size = 0 /\ bytes = Joined(frames)
          \/ \E payload \in Payloads : size = Len(payload) /\ bytes = payload \o Joined(frames)
  BY DEF FramedAs
<1> DEFINE more == Append(frames, frame)
<1>2. more \in Seq(Frames)
  OBVIOUS
<1>3. frame \in Seq(BytesType)
  BY FramesAreBytes
<1>4. Joined(more) = Joined(frames) \o frame /\ Joined(frames) \in Seq(BytesType)
  BY <1>3, JoinedFrames, JoinedAppend
<1>5. CASE size = 0 /\ bytes = Joined(frames)
  <2> HIDE DEF more
  <2> QED BY <1>2, <1>4, <1>5, Zenon DEF FramedAs
<1>6. ASSUME NEW payload \in Payloads, size = Len(payload), bytes = payload \o Joined(frames)
      PROVE  FramedAs(size, bytes \o frame)
  <2>1. payload \in Seq(BytesType)
    BY PayloadsType
  <2>2. (payload \o Joined(frames)) \o frame = payload \o (Joined(frames) \o frame)
    BY <1>3, <1>4, <2>1, BytesAssociate, Zenon
  <2>3. bytes \o frame = payload \o Joined(more)
    BY <1>4, <1>6, <2>2, Zenon
  <2> HIDE DEF more
  <2> QED BY <1>2, <1>6, <2>3, Zenon DEF FramedAs
<1> QED BY <1>1, <1>5, <1>6, Zenon

\* The first two of at least two bytes are a size, and the frame's content follows.
LEMMA FramedSize ==
    ASSUME NEW bytes \in Seq(BytesType), FramedAs(0, bytes), Len(bytes) >= SizeBytes
    PROVE  \E payload \in Payloads, rest \in Seq(BytesType) :
               bytes = SizeOf(payload) \o rest /\ FramedAs(Len(payload), rest)
<1>1. PICK frames \in Seq(Frames) :
          \/ bytes = Joined(frames)
          \/ \E payload \in Payloads : 0 = Len(payload) /\ bytes = payload \o Joined(frames)
  BY DEF FramedAs
<1>2. bytes = Joined(frames)
  BY <1>1, PayloadsType, SizesAssumption
<1>3. frames # <<>>
  <2>1. Len(<<>>) = 0
    OBVIOUS
  <2> QED BY <1>2, <2>1, JoinedEmpty DEF SizeBytes
<1> DEFINE f == Head(frames)
           t == Tail(frames)
<1>4. f \in Frames /\ t \in Seq(Frames) /\ frames = <<f>> \o t
  BY <1>3
<1>5. PICK payload \in Payloads : f = MakeFrame(payload)
  BY <1>4 DEF Frames
<1>6. /\ f = SizeOf(payload) \o payload /\ f \in Seq(BytesType)
      /\ SizeOf(payload) \in Seq(BytesType) /\ payload \in Seq(BytesType)
  BY <1>5, FrameFacts, PayloadsType
<1>7. /\ <<f>> \in Seq(Seq(BytesType)) /\ t \in Seq(Seq(BytesType))
      /\ Joined(t) \in Seq(BytesType)
  <2> HIDE DEF f, t
  <2> QED BY <1>4, <1>6, JoinedFrames
<1>8. Joined(<<f>> \o t) = Joined(<<f>>) \o Joined(t)
  <2> HIDE DEF f, t
  <2> QED BY <1>7, JoinedConcat
<1>9. Joined(<<f>>) = f
  <2> HIDE DEF f, t
  <2> QED BY <1>6, JoinedSingle
<1> DEFINE rest == payload \o Joined(t)
<1> HIDE DEF f, t
<1>10. (SizeOf(payload) \o payload) \o Joined(t) = SizeOf(payload) \o rest
  BY <1>6, <1>7, BytesAssociate, Zenon
<1>11. rest \in Seq(BytesType)
  BY <1>6, <1>7, BytesConcat, Zenon
<1>12. bytes = SizeOf(payload) \o rest
  BY <1>2, <1>4, <1>6, <1>8, <1>9, <1>10, Zenon
<1>13. FramedAs(Len(payload), rest)
  BY <1>4, Zenon DEF FramedAs
<1> QED BY <1>11, <1>12, <1>13, Zenon

LEMMA FramedPayload ==
    ASSUME NEW size, size # 0, NEW bytes, FramedAs(size, bytes)
    PROVE  \E payload \in Payloads, rest \in Seq(BytesType) :
               /\ size = Len(payload)
               /\ bytes = payload \o rest
               /\ FramedAs(0, rest)
<1>1. PICK frames \in Seq(Frames), payload \in Payloads :
          size = Len(payload) /\ bytes = payload \o Joined(frames)
  BY DEF FramedAs
<1>2. Joined(frames) \in Seq(BytesType)
  BY JoinedFrames
<1>3. FramedAs(0, Joined(frames))
  BY DEF FramedAs
<1> QED BY <1>1, <1>2, <1>3

--------------------------------------------------------------------------------
(* What the sender does.                                                       *)

LEMMA OfType == \A priority : Of(priority) \subseteq Commands
  BY DEF Of

LEMMA OfSequences ==
    ASSUME NEW priority, NEW s \in Seq(Of(priority))
    PROVE  s \in Seq(Commands)
  BY OfType, SeqMonotonic

\* What is left in a buffer, and the offset, once some commands were taken.
TakenWell(priority, cs, offset, room, taken) ==
    /\ taken \in Seq(Of(priority)) /\ TotalSize(taken) \in Nat /\ TotalSize(taken) <= room
    /\ Rest(cs, taken) \in Seq(Of(priority))
    /\ Remaining(cs, taken, offset) = BufferedSize(Rest(cs, taken))
    /\ Remaining(cs, taken, offset) \in Nat /\ Remaining(cs, taken, offset) < BufferSize
    /\ cs = taken \o Rest(cs, taken)
    /\ TotalSize(cs) <= room => Rest(cs, taken) = <<>>

LEMMA TakenOK ==
    ASSUME NEW priority, NEW cs \in Seq(Of(priority)), NEW offset, offset = BufferedSize(cs),
           offset < BufferSize, NEW room \in Nat, NEW taken, taken = Taken(cs, room)
    PROVE  TakenWell(priority, cs, offset, room, taken)
<1>1. Of(priority) \subseteq Commands
  BY OfType
<1>2. /\ taken \in Seq(Of(priority)) /\ Rest(cs, taken) \in Seq(Of(priority))
      /\ cs = taken \o Rest(cs, taken)
      /\ TotalSize(taken) <= room
      /\ TotalSize(cs) <= room => Rest(cs, taken) = <<>>
  BY <1>1, TakenFacts, ZenonT(40)
<1>3. taken \in Seq(Commands) /\ Rest(cs, taken) \in Seq(Commands)
  BY <1>2, OfSequences
<1>4. TotalSize(taken) \in Nat
  BY <1>3, TotalSizeType
<1>5. /\ BufferedSize(cs) = BufferedSize(taken) + BufferedSize(Rest(cs, taken))
      /\ BufferedSize(taken) \in Nat /\ BufferedSize(Rest(cs, taken)) \in Nat
  BY <1>2, <1>3, BufferedSizeConcat
<1>6. Remaining(cs, taken, offset) = offset - BufferedSize(taken)
  BY DEF Remaining
<1>7. BufferSize \in Nat
  BY SizesAssumption
<1>8. /\ Remaining(cs, taken, offset) = BufferedSize(Rest(cs, taken))
      /\ Remaining(cs, taken, offset) \in Nat /\ Remaining(cs, taken, offset) < BufferSize
  BY <1>5, <1>6, <1>7
<1> QED BY <1>2, <1>4, <1>8 DEF TakenWell

\* A packet is a frame more in the socket; its commands and what stays in the buffers are
\* what was in the buffers, each priority for itself.
LEMMA Sent ==
    ASSUME NEW b, NEW o, BuffersOK(b, o), SendBuffered(b, o)
    PROVE  /\ BuffersOK(buffer', dwNextWriteOffset')
           /\ \E frame \in Frames :
                  /\ stream' = stream \o frame
                  /\ \A priority \in Priorities :
                         OfPriority(CommandsIn(frame), priority) \o buffer'[priority] = b[priority]
           /\ TotalSize(b["high"]) <= MsgSize => buffer'["high"] = <<>>
<1> DEFINE high == Taken(b["high"], MsgSize)
           low == Taken(b["low"], MsgSize - TotalSize(high))
           taken == [priority \in Priorities |-> IF priority = "high" THEN high ELSE low]
           payload == Payload(high \o low)
           frame == MakeFrame(payload)
<1>1. /\ buffer' = [priority \in Priorities |-> Rest(b[priority], taken[priority])]
      /\ dwNextWriteOffset' =
             [priority \in Priorities |-> Remaining(b[priority], taken[priority], o[priority])]
      /\ stream' = stream \o frame
  BY DEF SendBuffered
<1>2. \A priority \in Priorities :
          /\ b[priority] \in Seq(Of(priority))
          /\ o[priority] = BufferedSize(b[priority]) /\ o[priority] < BufferSize
  BY DEF BuffersOK
<1>3. "high" \in Priorities /\ "low" \in Priorities /\ \A pr \in Priorities : pr = "high" \/ pr = "low"
  BY DEF Priorities
<1>4. MsgSize \in Nat
  BY SizesAssumption
<1>5. /\ high \in Seq(Of("high")) /\ TotalSize(high) \in Nat /\ TotalSize(high) <= MsgSize
      /\ Rest(b["high"], high) \in Seq(Of("high"))
      /\ Remaining(b["high"], high, o["high"]) = BufferedSize(Rest(b["high"], high))
      /\ Remaining(b["high"], high, o["high"]) \in Nat
      /\ Remaining(b["high"], high, o["high"]) < BufferSize
      /\ b["high"] = high \o Rest(b["high"], high)
      /\ TotalSize(b["high"]) <= MsgSize => Rest(b["high"], high) = <<>>
  <2>1. /\ b["high"] \in Seq(Of("high"))
        /\ o["high"] = BufferedSize(b["high"]) /\ o["high"] < BufferSize
    BY <1>2, <1>3
  <2>2. TakenWell("high", b["high"], o["high"], MsgSize, high)
    BY <1>4, <2>1, TakenOK
  <2> QED BY <2>2 DEF TakenWell
<1>6. MsgSize - TotalSize(high) \in Nat
  BY <1>4, <1>5
<1>7. /\ low \in Seq(Of("low")) /\ TotalSize(low) \in Nat
      /\ TotalSize(low) <= MsgSize - TotalSize(high)
      /\ Rest(b["low"], low) \in Seq(Of("low"))
      /\ Remaining(b["low"], low, o["low"]) = BufferedSize(Rest(b["low"], low))
      /\ Remaining(b["low"], low, o["low"]) \in Nat
      /\ Remaining(b["low"], low, o["low"]) < BufferSize
      /\ b["low"] = low \o Rest(b["low"], low)
  <2>1. /\ b["low"] \in Seq(Of("low"))
        /\ o["low"] = BufferedSize(b["low"]) /\ o["low"] < BufferSize
    BY <1>2, <1>3
  <2>2. TakenWell("low", b["low"], o["low"], MsgSize - TotalSize(high), low)
    <3> HIDE DEF high
    <3> QED BY <1>6, <2>1, TakenOK
  <2> QED BY <2>2 DEF TakenWell
<1>8. taken["high"] = high /\ taken["low"] = low
  BY <1>3
<1> HIDE DEF high, low
<1>9. ASSUME NEW pr \in Priorities
      PROVE  /\ taken[pr] \in Seq(Of(pr))
             /\ buffer'[pr] = Rest(b[pr], taken[pr])
             /\ dwNextWriteOffset'[pr] = BufferedSize(buffer'[pr])
             /\ dwNextWriteOffset'[pr] \in Nat /\ dwNextWriteOffset'[pr] < BufferSize
             /\ buffer'[pr] \in Seq(Of(pr))
             /\ b[pr] = taken[pr] \o buffer'[pr]
  <2>1. /\ buffer'[pr] = Rest(b[pr], taken[pr])
        /\ dwNextWriteOffset'[pr] = Remaining(b[pr], taken[pr], o[pr])
    <3> HIDE DEF taken
    <3> QED BY <1>1
  <2>2. CASE pr = "high"
    <3> HIDE DEF taken
    <3> QED BY <2>1, <2>2, <1>5, <1>8
  <2>3. CASE pr = "low"
    <3> HIDE DEF taken
    <3> QED BY <2>1, <2>3, <1>7, <1>8
  <2> QED BY <1>3, <2>2, <2>3
<1> HIDE DEF taken, frame
<1>10. BuffersOK(buffer', dwNextWriteOffset')
  <2>1. buffer' \in [Priorities -> Seq(Commands)]
    <3>1. \A pr \in Priorities : buffer'[pr] \in Seq(Commands)
      BY <1>9, OfSequences
    <3>2. buffer' = [pr \in Priorities |-> buffer'[pr]]
      BY <1>1
    <3> QED BY <3>1, <3>2
  <2>2. dwNextWriteOffset' \in [Priorities -> Nat]
    <3>1. dwNextWriteOffset' = [pr \in Priorities |-> dwNextWriteOffset'[pr]]
      BY <1>1
    <3> QED BY <3>1, <1>9
  <2> QED BY <2>1, <2>2, <1>9 DEF BuffersOK
<1>11. high \in Seq(Commands) /\ low \in Seq(Commands)
  BY <1>5, <1>7, OfSequences
<1>12. /\ high \o low \in Seq(Commands)
       /\ TotalSize(high \o low) <= MsgSize
  BY <1>4, <1>5, <1>7, <1>11, TotalSizeConcat
<1>13. payload \in Payloads /\ CommandsIn(payload) = high \o low
  BY <1>12, PayloadFacts DEF Payloads
<1>14. frame \in Frames /\ CommandsIn(frame) = high \o low
  <2> HIDE DEF payload
  <2>1. /\ frame = SizeOf(payload) \o payload
        /\ SizeOf(payload) \in Seq(SizeDigits) /\ SizeOf(payload) \in Seq(BytesType)
        /\ payload \in Seq(BytesType)
    BY <1>13, FrameFacts, PayloadsType DEF frame
  <2>2. CommandsIn(frame) = CommandsIn(SizeOf(payload)) \o CommandsIn(payload)
    BY <2>1, CommandsInConcat
  <2>3. CommandsIn(SizeOf(payload)) = <<>>
    BY <2>1, CommandsInSizes
  <2>4. <<>> \o (high \o low) = high \o low
    BY <1>12
  <2>5. frame \in Frames
    BY <1>13 DEF frame, Frames
  <2> QED BY <1>13, <2>2, <2>3, <2>4, <2>5
<1>15. ASSUME NEW pr \in Priorities
       PROVE  OfPriority(CommandsIn(frame), pr) \o buffer'[pr] = b[pr]
  <2>1. OfPriority(taken["high"] \o taken["low"], pr) = taken[pr]
    BY <1>3, <1>9, OfPriorityPacket
  <2> QED BY <2>1, <1>8, <1>9, <1>14
<1>16. TotalSize(b["high"]) <= MsgSize => buffer'["high"] = <<>>
  BY <1>3, <1>5, <1>8, <1>9
<1> QED BY <1>1, <1>10, <1>14, <1>15, <1>16

\* A command that is given is put into its buffer or refused.
LEMMA Copied ==
    ASSUME BuffersOK(buffer, dwNextWriteOffset), NEW command \in Commands
    PROVE  /\ BuffersOK(CopyPacket(command), OffsetsWith(command))
           /\ \/ CopyPacket(command) = buffer
              \/ CopyPacket(command) =
                     [buffer EXCEPT ![command.priority] = Append(@, command)]
<1> DEFINE p == command.priority
           b == [buffer EXCEPT ![p] = Append(@, command)]
           o == [dwNextWriteOffset EXCEPT ![p] = @ + command.size + 1]
<1>1. CASE ~ Fits(p, command.size)
  BY <1>1 DEF CopyPacket, OffsetsWith
<1>2. CASE Fits(p, command.size)
  <2>1. CopyPacket(command) = b /\ OffsetsWith(command) = o
    BY <1>2 DEF CopyPacket, OffsetsWith
  <2>2. p \in Priorities /\ command \in Of(p) /\ command.size \in Nat
    BY SizesNat DEF Commands, Of
  <2>3. /\ buffer \in [Priorities -> Seq(Commands)]
        /\ dwNextWriteOffset \in [Priorities -> Nat]
        /\ \A priority \in Priorities :
               /\ buffer[priority] \in Seq(Of(priority))
               /\ dwNextWriteOffset[priority] = BufferedSize(buffer[priority])
               /\ dwNextWriteOffset[priority] < BufferSize
    BY DEF BuffersOK
  <2>4. Append(buffer[p], command) \in Seq(Of(p)) /\ Append(buffer[p], command) \in Seq(Commands)
    <3>1. buffer[p] \in Seq(Of(p)) /\ buffer[p] \in Seq(Commands)
      BY <2>2, <2>3
    <3> HIDE DEF p
    <3> QED BY <2>2, <3>1
  <2>5. dwNextWriteOffset[p] + command.size + 1 < BufferSize
    <3>1. dwNextWriteOffset[p] + command.size + 2 <= BufferSize
      BY <1>2 DEF Fits
    <3>2. dwNextWriteOffset[p] \in Nat /\ BufferSize \in Nat
      BY <2>2, <2>3, SizesAssumption
    <3> HIDE DEF p
    <3> QED BY <2>2, <3>1, <3>2
  <2>6. BufferedSize(Append(buffer[p], command)) = dwNextWriteOffset[p] + command.size + 1
    <3>1. buffer[p] \in Seq(Commands) /\ dwNextWriteOffset[p] = BufferedSize(buffer[p])
      BY <2>2, <2>3
    <3> HIDE DEF p
    <3> QED BY <3>1, BufferedSizeAppend
  <2>7. b \in [Priorities -> Seq(Commands)]
    <3> HIDE DEF p
    <3> QED BY <2>2, <2>3, <2>4
  <2>8. o \in [Priorities -> Nat]
    <3>1. dwNextWriteOffset[p] \in Nat
      BY <2>2, <2>3
    <3>2. dwNextWriteOffset[p] + command.size + 1 \in Nat
      <4> HIDE DEF p
      <4> QED BY <2>2, <3>1
    <3> HIDE DEF p
    <3> QED BY <2>2, <2>3, <3>2
  <2>9. ASSUME NEW priority \in Priorities
        PROVE  /\ b[priority] \in Seq(Of(priority))
               /\ o[priority] = BufferedSize(b[priority])
               /\ o[priority] < BufferSize
    <3>1. CASE priority = p
      <4>1. /\ b[priority] = Append(buffer[p], command)
            /\ o[priority] = dwNextWriteOffset[p] + command.size + 1
        <5> HIDE DEF p
        <5> QED BY <2>2, <2>3, <3>1
      <4> HIDE DEF b, o, p
      <4> QED BY <3>1, <4>1, <2>4, <2>5, <2>6
    <3>2. CASE priority # p
      <4>1. b[priority] = buffer[priority] /\ o[priority] = dwNextWriteOffset[priority]
        <5> HIDE DEF p
        <5> QED BY <2>3, <3>2
      <4> HIDE DEF b, o, p
      <4> QED BY <4>1, <2>3
    <3> QED BY <3>1, <3>2
  <2> HIDE DEF b, o, p
  <2>10. BuffersOK(b, o)
    BY <2>7, <2>8, <2>9 DEF BuffersOK
  <2> QED BY <2>1, <2>10 DEF b, p
<1> QED BY <1>1, <1>2

--------------------------------------------------------------------------------
(* Every step keeps the invariant.                                             *)

\* One frame more, or none, behind what is in the socket.
LEMMA WireGrows ==
    ASSUME WireOK, UNCHANGED <<buffer_deque, nextsize>>,
           NEW frame \in Frames, stream' = stream \o frame
    PROVE  WireOK'
<1>1. /\ stream \in Seq(BytesType) /\ buffer_deque \in Seq(BytesType)
      /\ nextsize \in 0 .. MsgSize + 1
      /\ FramedAs(nextsize, buffer_deque \o stream)
  BY DEF WireOK
<1>2. frame \in Seq(BytesType)
  BY FramesAreBytes
<1>3. stream' \in Seq(BytesType)
  BY <1>1, <1>2, BytesConcat
<1>4. buffer_deque \o stream' = (buffer_deque \o stream) \o frame
  BY <1>1, <1>2, BytesAssociate
<1>5. FramedAs(nextsize, buffer_deque \o stream')
  BY <1>1, <1>4, FramedAppend
<1> QED BY <1>1, <1>3, <1>5 DEF WireOK

LEMMA SendBufferedOK ==
    ASSUME IInv, NEW b, NEW o, BuffersOK(b, o), SendBuffered(b, o), UNCHANGED receiverVars,
           shareNextHighPriorityMessage' \in BOOLEAN, given' \in 0 .. MaxCommands
    PROVE  IInv'
<1>1. BuffersOK(buffer', dwNextWriteOffset')
  BY Sent
<1>2. PICK frame \in Frames : stream' = stream \o frame
  BY Sent
<1>3. WireOK'
  BY <1>2, WireGrows DEF IInv, receiverVars
<1>4. ReceiverOK'
  BY DEF IInv, ReceiverOK, receiverVars
<1>5. SenderOK'
  BY <1>1 DEF SenderOK
<1> QED BY <1>3, <1>4, <1>5 DEF IInv

\* The command that Send is about.
Asked(priority, size) == [priority |-> priority, id |-> given + 1, size |-> size]

LEMMA AskedType ==
    ASSUME IInv, given < MaxCommands, NEW priority \in Priorities, NEW size \in Sizes
    PROVE  Asked(priority, size) \in Commands /\ given + 1 \in 0 .. MaxCommands
<1>1. given + 1 \in 1 .. MaxCommands
  BY SizesAssumption DEF IInv, SenderOK
<1> QED BY <1>1 DEF Asked, Commands, Ids

LEMMA SendOK ==
    ASSUME IInv, NEW priority \in Priorities, NEW size \in Sizes, Send(priority, size)
    PROVE  IInv'
<1> DEFINE command == Asked(priority, size)
<1>1. command \in Commands /\ given' \in 0 .. MaxCommands /\ UNCHANGED receiverVars
  BY AskedType DEF Send
<1>2. BuffersOK(CopyPacket(command), OffsetsWith(command))
  BY <1>1, Copied DEF IInv, SenderOK
<1>3. CASE priority = "high" /\ shareNextHighPriorityMessage
  <2>1. SendBuffered(CopyPacket(command), OffsetsWith(command)) /\ shareNextHighPriorityMessage' = FALSE
    BY <1>3 DEF Send, Asked
  <2> HIDE DEF command
  <2> QED BY <1>1, <1>2, <2>1, SendBufferedOK
<1>4. CASE ~ (priority = "high" /\ shareNextHighPriorityMessage)
  <2>1. /\ buffer' = CopyPacket(command)
        /\ dwNextWriteOffset' = OffsetsWith(command)
        /\ UNCHANGED <<shareNextHighPriorityMessage, stream>>
    BY <1>4, Zenon DEF Send, Asked
  <2>2. WireOK' /\ ReceiverOK'
    BY <1>1, <2>1 DEF IInv, WireOK, ReceiverOK, receiverVars
  <2>3. SenderOK'
    <3> HIDE DEF command
    <3> QED BY <1>1, <1>2, <2>1 DEF IInv, SenderOK
  <2> QED BY <2>2, <2>3 DEF IInv
<1> QED BY <1>3, <1>4

LEMMA TurnsReceivedOK ==
    ASSUME IInv, TurnsReceived
    PROVE  IInv'
<1>1. CASE SendBuffered(buffer, dwNextWriteOffset) /\ UNCHANGED shareNextHighPriorityMessage
  BY <1>1, SendBufferedOK DEF TurnsReceived, IInv, SenderOK
<1>2. CASE /\ shareNextHighPriorityMessage' = TRUE
           /\ UNCHANGED <<buffer, dwNextWriteOffset, stream>>
  BY <1>2 DEF TurnsReceived, IInv, SenderOK, WireOK, ReceiverOK, receiverVars
<1> QED BY <1>1, <1>2 DEF TurnsReceived, Share

--------------------------------------------------------------------------------
(* What the receiver does.                                                     *)

LEMMA BytesCut ==
    \A s \in Seq(BytesType) : \A n \in 0 .. Len(s) :
        /\ SubSeq(s, 1, n) \in Seq(BytesType) /\ Len(SubSeq(s, 1, n)) = n
        /\ SubSeq(s, n + 1, Len(s)) \in Seq(BytesType)
        /\ s = SubSeq(s, 1, n) \o SubSeq(s, n + 1, Len(s))
  BY Cut, Zenon

LEMMA BytesPrefix ==
    \A a, b, x, y \in Seq(BytesType) : Len(a) = Len(b) /\ a \o x = b \o y => a = b /\ x = y
  BY PrefixUnique, Zenon

\* Bytes that are received stay in their order.
LEMMA Written ==
    ASSUME WireOK, NEW count \in 1 .. Len(stream), Write(count)
    PROVE  WireOK' /\ buffer_deque' \o stream' = buffer_deque \o stream
<1> DEFINE first == SubSeq(stream, 1, count)
           rest == SubSeq(stream, count + 1, Len(stream))
<1>1. /\ stream \in Seq(BytesType) /\ buffer_deque \in Seq(BytesType)
      /\ nextsize \in 0 .. MsgSize + 1
      /\ FramedAs(nextsize, buffer_deque \o stream)
  BY DEF WireOK
<1>2. /\ first \in Seq(BytesType) /\ rest \in Seq(BytesType) /\ stream = first \o rest
  <2>1. count \in 0 .. Len(stream)
    BY <1>1
  <2> QED BY <1>1, <2>1, BytesCut, Zenon
<1>3. buffer_deque' = buffer_deque \o first /\ stream' = rest /\ nextsize' = nextsize
  BY DEF Write
<1> HIDE DEF first, rest
<1>4. buffer_deque' \in Seq(BytesType) /\ stream' \in Seq(BytesType)
  BY <1>1, <1>2, <1>3, BytesConcat
<1>5. buffer_deque' \o stream' = buffer_deque \o stream
  <2>1. (buffer_deque \o first) \o rest = buffer_deque \o (first \o rest)
    BY <1>1, <1>2, BytesAssociate, Zenon
  <2> QED BY <1>2, <1>3, <2>1, Zenon
<1> QED BY <1>1, <1>3, <1>4, <1>5 DEF WireOK

\* What is read first, and what is behind it.
ReadWell(n, part, rest) ==
    /\ Read(n) = part
    /\ Unread(n) \in Seq(BytesType)
    /\ Unread(n) \o stream = rest
    /\ buffer_deque = part \o Unread(n)

LEMMA Front ==
    ASSUME WireOK, NEW part \in Seq(BytesType), NEW rest \in Seq(BytesType), NEW n,
           n = Len(part), Len(buffer_deque) >= n, buffer_deque \o stream = part \o rest
    PROVE  ReadWell(n, part, rest)
<1>1. stream \in Seq(BytesType) /\ buffer_deque \in Seq(BytesType)
  BY DEF WireOK
<1>2. n \in 0 .. Len(buffer_deque)
  OBVIOUS
<1>3. /\ Read(n) \in Seq(BytesType) /\ Len(Read(n)) = n
      /\ Unread(n) \in Seq(BytesType)
      /\ buffer_deque = Read(n) \o Unread(n)
  BY <1>1, <1>2, BytesCut, Zenon DEF Read, Unread
<1>4. Read(n) \o (Unread(n) \o stream) = part \o rest
  <2>1. (Read(n) \o Unread(n)) \o stream = Read(n) \o (Unread(n) \o stream)
    <3>1. Read(n) \in Seq(BytesType) /\ Unread(n) \in Seq(BytesType)
      BY <1>3
    <3>2. stream \in Seq(BytesType)
      BY <1>1
    <3> QED BY ONLY <3>1, <3>2, BytesAssociate, Zenon
  <2>2. (Read(n) \o Unread(n)) \o stream = part \o rest
    BY <1>3, Zenon
  <2> QED BY <2>1, <2>2, Zenon
<1>5. Unread(n) \o stream \in Seq(BytesType)
  BY <1>1, <1>3, BytesConcat, Zenon
<1>6. Read(n) = part /\ Unread(n) \o stream = rest
  BY <1>3, <1>4, <1>5, BytesPrefix, ZenonT(40)
<1>7. buffer_deque = part \o Unread(n)
  BY <1>3, <1>6, Zenon
<1> QED BY <1>3, <1>6, <1>7, Zenon DEF ReadWell

\* The size that is read is the size of the frame that follows.
LEMMA SizeRead ==
    ASSUME WireOK, ReadSize
    PROVE  /\ WireOK'
           /\ \E payload \in Payloads : buffer_deque = SizeOf(payload) \o buffer_deque'
<1>1. /\ stream \in Seq(BytesType) /\ buffer_deque \in Seq(BytesType)
      /\ FramedAs(0, buffer_deque \o stream)
      /\ Len(buffer_deque) >= SizeBytes
      /\ nextsize' = LoadSize(Read(SizeBytes))
      /\ buffer_deque' = Unread(SizeBytes)
      /\ stream' = stream
  BY DEF WireOK, ReadSize, SizeComplete
<1>2. buffer_deque \o stream \in Seq(BytesType) /\ Len(buffer_deque \o stream) >= SizeBytes
  <2>1. /\ buffer_deque \o stream \in Seq(BytesType)
        /\ Len(buffer_deque \o stream) = Len(buffer_deque) + Len(stream)
    BY <1>1, BytesConcat, Zenon
  <2>2. Len(buffer_deque) \in Nat /\ Len(stream) \in Nat
    BY <1>1
  <2> QED BY <1>1, <2>1, <2>2 DEF SizeBytes
<1>3. PICK payload \in Payloads, rest \in Seq(BytesType) :
          buffer_deque \o stream = SizeOf(payload) \o rest /\ FramedAs(Len(payload), rest)
  BY <1>1, <1>2, FramedSize
<1>4. /\ SizeOf(payload) \in Seq(BytesType) /\ Len(SizeOf(payload)) = SizeBytes
      /\ LoadSize(SizeOf(payload)) = Len(payload)
  BY FrameFacts
<1>5. /\ Read(SizeBytes) = SizeOf(payload)
      /\ Unread(SizeBytes) \in Seq(BytesType)
      /\ Unread(SizeBytes) \o stream = rest
      /\ buffer_deque = SizeOf(payload) \o Unread(SizeBytes)
  <2>1. SizeBytes = Len(SizeOf(payload)) /\ Len(buffer_deque) >= SizeBytes
    BY <1>1, <1>4
  <2>2. ReadWell(SizeBytes, SizeOf(payload), rest)
    BY <1>3, <1>4, <2>1, Front
  <2> QED BY <2>2 DEF ReadWell
<1>6. nextsize' = Len(payload) /\ Len(payload) \in 0 .. MsgSize + 1
  BY <1>1, <1>4, <1>5, PayloadsType
<1>7. FramedAs(nextsize', buffer_deque' \o stream')
  BY <1>1, <1>3, <1>5, <1>6
<1> QED BY <1>1, <1>5, <1>6, <1>7 DEF WireOK

\* What is read is the whole content of a packet.
LEMMA PacketRead ==
    ASSUME WireOK, ReadPacket
    PROVE  /\ WireOK'
           /\ \E payload \in Payloads :
                  /\ packets' = Append(packets, payload)
                  /\ buffer_deque = payload \o buffer_deque'
<1>1. /\ stream \in Seq(BytesType) /\ buffer_deque \in Seq(BytesType)
      /\ nextsize # 0
      /\ FramedAs(nextsize, buffer_deque \o stream)
      /\ Len(buffer_deque) >= nextsize
      /\ packets' = Append(packets, Read(nextsize))
      /\ buffer_deque' = Unread(nextsize)
      /\ nextsize' = 0
      /\ stream' = stream
  BY DEF WireOK, ReadPacket, FrameComplete
<1>2. PICK payload \in Payloads, rest \in Seq(BytesType) :
          /\ nextsize = Len(payload)
          /\ buffer_deque \o stream = payload \o rest
          /\ FramedAs(0, rest)
  BY <1>1, FramedPayload
<1>3. payload \in Seq(BytesType)
  BY PayloadsType
<1>4. /\ Read(nextsize) = payload
      /\ Unread(nextsize) \in Seq(BytesType)
      /\ Unread(nextsize) \o stream = rest
      /\ buffer_deque = payload \o Unread(nextsize)
  <2>1. ReadWell(nextsize, payload, rest)
    BY <1>1, <1>2, <1>3, Front
  <2> QED BY <2>1 DEF ReadWell
<1>5. 0 \in 0 .. MsgSize + 1
  BY SizesAssumption
<1>6. FramedAs(nextsize', buffer_deque' \o stream')
  BY <1>1, <1>2, <1>4
<1> QED BY <1>1, <1>4, <1>5, <1>6 DEF WireOK

\* The first packet and those behind it.
LEMMA PacketTaken ==
    ASSUME ReceiverOK, HandlePacket
    PROVE  /\ Head(packets) \in Payloads
           /\ packets' \in Seq(Payloads)
           /\ packets = <<Head(packets)>> \o packets'
  BY DEF ReceiverOK, HandlePacket

LEMMA HandledOK ==
    ASSUME IInv, HandlePacket
    PROVE  IInv'
<1>1. SenderOK' /\ WireOK'
  BY DEF IInv, SenderOK, WireOK, HandlePacket, senderVars
<1>2. packets' \in Seq(Payloads) /\ Head(packets) \in Seq(BytesType)
  BY PacketTaken, PayloadsType DEF IInv
<1>3. handled' \in [Priorities -> Seq(Commands)]
  <2>1. ASSUME NEW priority \in Priorities
        PROVE  handled[priority] \o OfPriority(CommandsIn(Head(packets)), priority) \in Seq(Commands)
    <3>1. CommandsIn(Head(packets)) \in Seq(Commands)
      BY <1>2, CommandsInType
    <3>2. OfPriority(CommandsIn(Head(packets)), priority) \in Seq(Commands)
      BY <3>1, OfPriorityConcat
    <3>3. handled[priority] \in Seq(Commands)
      BY DEF IInv, ReceiverOK
    <3> QED BY <3>2, <3>3
  <2> QED BY <2>1 DEF HandlePacket
<1> QED BY <1>1, <1>2, <1>3 DEF IInv, ReceiverOK

LEMMA IInvStep == IInv /\ [Next]_vars => IInv'
<1> SUFFICES ASSUME IInv, [Next]_vars PROVE IInv'
  OBVIOUS
<1>1. ASSUME NEW priority \in Priorities, NEW size \in Sizes, Send(priority, size)
      PROVE  IInv'
  BY <1>1, SendOK
<1>2. CASE TurnsReceived
  BY <1>2, TurnsReceivedOK
<1>3. ASSUME NEW count \in 1 .. Len(stream), Write(count) PROVE IInv'
  <2>1. WireOK'
    BY <1>3, Written DEF IInv
  <2>2. SenderOK' /\ ReceiverOK'
    BY <1>3 DEF IInv, SenderOK, ReceiverOK, Write, senderVars
  <2> QED BY <2>1, <2>2 DEF IInv
<1>4. CASE ReadSize
  <2>1. WireOK'
    BY <1>4, SizeRead DEF IInv
  <2>2. SenderOK' /\ ReceiverOK'
    BY <1>4 DEF IInv, SenderOK, ReceiverOK, ReadSize, senderVars
  <2> QED BY <2>1, <2>2 DEF IInv
<1>5. CASE ReadPacket
  <2>1. WireOK'
    BY <1>5, PacketRead DEF IInv
  <2>2. packets' \in Seq(Payloads)
    BY <1>5, PacketRead, SMTT(40) DEF IInv, ReceiverOK
  <2>3. SenderOK' /\ ReceiverOK'
    BY <1>5, <2>2 DEF IInv, SenderOK, ReceiverOK, ReadPacket, senderVars
  <2> QED BY <2>1, <2>3 DEF IInv
<1>6. CASE HandlePacket
  BY <1>6, HandledOK
<1>7. CASE UNCHANGED vars
  BY <1>7 DEF IInv, SenderOK, WireOK, ReceiverOK, vars, senderVars, receiverVars
<1> QED BY <1>1, <1>2, <1>3, <1>4, <1>5, <1>6, <1>7 DEF Next

--------------------------------------------------------------------------------
(* Two queues.                                                                 *)

\* The commands of a priority that some bytes carry.
Carried(bytes, priority) == OfPriority(CommandsIn(bytes), priority)

LEMMA CarriedConcat ==
    \A s, t \in Seq(BytesType) : \A priority :
        /\ Carried(s \o t, priority) = Carried(s, priority) \o Carried(t, priority)
        /\ Carried(s, priority) \in Seq(Commands)
<1> SUFFICES ASSUME NEW s \in Seq(BytesType), NEW t \in Seq(BytesType), NEW priority
             PROVE  /\ Carried(s \o t, priority) = Carried(s, priority) \o Carried(t, priority)
                    /\ Carried(s, priority) \in Seq(Commands)
  OBVIOUS
<1> DEFINE a == CommandsIn(s)
           b == CommandsIn(t)
<1>1. a \in Seq(Commands) /\ b \in Seq(Commands)
  BY CommandsInType
<1>2. CommandsIn(s \o t) = a \o b
  BY CommandsInConcat
<1>3. /\ OfPriority(a \o b, priority) = OfPriority(a, priority) \o OfPriority(b, priority)
      /\ OfPriority(a, priority) \in Seq(Commands)
  <2> HIDE DEF a, b
  <2> QED BY <1>1, OfPriorityConcat
<1> QED BY <1>2, <1>3, Zenon DEF Carried

LEMMA CarriedNothing ==
    \A priority : /\ Carried(<<>>, priority) = <<>>
                  /\ \A payload \in Payloads : Carried(SizeOf(payload), priority) = <<>>
<1>1. \A priority : OfPriority(<<>>, priority) = <<>>
  BY AmongEmpty, OfPriorityAmong
<1>2. \A payload \in Payloads : CommandsIn(SizeOf(payload)) = <<>>
  BY FrameFacts, CommandsInSizes
<1> QED BY <1>1, <1>2, CommandsInEmpty DEF Carried

LEMMA CommandsConcat ==
    \A s, t \in Seq(Commands) :
        /\ s \o t \in Seq(Commands)
        /\ <<>> \o s = s
        /\ Len(s) \in 0 .. Len(s \o t)
        /\ SubSeq(s \o t, 1, Len(s)) = s
        /\ SubSeq(s \o t, Len(s) + 1, Len(s \o t)) = t
<1> SUFFICES ASSUME NEW s \in Seq(Commands), NEW t \in Seq(Commands)
             PROVE  /\ s \o t \in Seq(Commands)
                    /\ <<>> \o s = s
                    /\ Len(s) \in 0 .. Len(s \o t)
                    /\ SubSeq(s \o t, 1, Len(s)) = s
                    /\ SubSeq(s \o t, Len(s) + 1, Len(s \o t)) = t
  OBVIOUS
<1> DEFINE u == s \o t
           n == Len(s)
<1>1. u \in Seq(Commands) /\ n \in 0 .. Len(u) /\ <<>> \o s = s
  OBVIOUS
<1>2. \A S : \A x \in Seq(S) : \A m \in 0 .. Len(x) :
          /\ SubSeq(x, 1, m) \in Seq(S) /\ Len(SubSeq(x, 1, m)) = m
          /\ SubSeq(x, m + 1, Len(x)) \in Seq(S)
          /\ x = SubSeq(x, 1, m) \o SubSeq(x, m + 1, Len(x))
  BY Cut, Zenon
<1>3. /\ SubSeq(u, 1, n) \in Seq(Commands) /\ Len(SubSeq(u, 1, n)) = n
      /\ SubSeq(u, n + 1, Len(u)) \in Seq(Commands)
      /\ u = SubSeq(u, 1, n) \o SubSeq(u, n + 1, Len(u))
  <2> HIDE DEF u, n
  <2> QED BY ONLY <1>1, <1>2, Zenon
<1>4. \A a, b, x, y \in Seq(Commands) : Len(a) = Len(b) /\ a \o x = b \o y => a = b /\ x = y
  BY PrefixUnique, Zenon
<1>5. SubSeq(u, 1, n) = s /\ SubSeq(u, n + 1, Len(u)) = t
  <2> DEFINE a == SubSeq(u, 1, n)
             b == SubSeq(u, n + 1, Len(u))
  <2>1. /\ a \in Seq(Commands) /\ b \in Seq(Commands)
        /\ Len(a) = Len(s) /\ a \o b = s \o t
    BY <1>3, Zenon
  <2> HIDE DEF a, b
  <2>2. a = s /\ b = t
    BY <1>4, <2>1, Zenon
  <2> QED BY <2>2, Zenon DEF a, b
<1> QED BY <1>1, <1>5

LEMMA CommandsAssociate ==
    /\ \A s, t, u \in Seq(Commands) : (s \o t) \o u = s \o (t \o u)
    /\ \A s, t \in Seq(Commands) : \A x \in Commands : Append(s \o t, x) = s \o Append(t, x)
<1>1. \A s, t, u \in Seq(Commands) : (s \o t) \o u = s \o (t \o u)
  BY ONLY ConcatAssociates
<1>2. \A x \in Commands : \A s, t \in Seq(Commands) : Append(s \o t, x) = s \o Append(t, x)
  BY AppendBehind, Zenon
<1> QED BY <1>1, <1>2

\* What is underway of a priority, from the packets that were received to the buffer.
LEMMA UnderwayParts ==
    ASSUME IInv, NEW priority \in Priorities
    PROVE  /\ Joined(packets) \in Seq(BytesType)
           /\ Carried(Joined(packets), priority) \in Seq(Commands)
           /\ Carried(buffer_deque, priority) \in Seq(Commands)
           /\ Carried(stream, priority) \in Seq(Commands)
           /\ buffer[priority] \in Seq(Commands)
           /\ Underway(priority) =
                  ((Carried(Joined(packets), priority) \o Carried(buffer_deque, priority))
                      \o Carried(stream, priority)) \o buffer[priority]
<1>1. packets \in Seq(Seq(BytesType))
  BY PayloadsAreBytes, SeqMonotonic DEF IInv, ReceiverOK
<1>2. Joined(packets) \in Seq(BytesType)
  BY <1>1, JoinedType
<1>3. stream \in Seq(BytesType) /\ buffer_deque \in Seq(BytesType)
  BY DEF IInv, WireOK
<1>4. buffer[priority] \in Seq(Commands)
  BY DEF IInv, SenderOK, BuffersOK
<1>5. Joined(packets) \o buffer_deque \in Seq(BytesType)
  BY <1>2, <1>3, BytesConcat, Zenon
<1>6. Carried((Joined(packets) \o buffer_deque) \o stream, priority)
          = (Carried(Joined(packets), priority) \o Carried(buffer_deque, priority))
                \o Carried(stream, priority)
  <2>1. Carried((Joined(packets) \o buffer_deque) \o stream, priority)
            = Carried(Joined(packets) \o buffer_deque, priority) \o Carried(stream, priority)
    BY <1>3, <1>5, CarriedConcat, Zenon
  <2>2. Carried(Joined(packets) \o buffer_deque, priority)
            = Carried(Joined(packets), priority) \o Carried(buffer_deque, priority)
    BY <1>2, <1>3, CarriedConcat, Zenon
  <2> QED BY <2>1, <2>2, Zenon
<1>7. /\ Carried(Joined(packets), priority) \in Seq(Commands)
      /\ Carried(buffer_deque, priority) \in Seq(Commands)
      /\ Carried(stream, priority) \in Seq(Commands)
  BY <1>2, <1>3, CarriedConcat, Zenon
<1>8. Underway(priority)
          = Carried((Joined(packets) \o buffer_deque) \o stream, priority) \o buffer[priority]
  BY DEF Underway, Carried
<1> QED BY <1>2, <1>4, <1>6, <1>7, <1>8, Zenon

\* What is underway on the wire, and in the buffer.
OnWire(priority) ==
    (Carried(Joined(packets), priority) \o Carried(buffer_deque, priority))
        \o Carried(stream, priority)

LEMMA UnderwayIsOnWire ==
    ASSUME IInv, NEW priority \in Priorities
    PROVE  OnWire(priority) \in Seq(Commands) /\ Underway(priority) = OnWire(priority) \o buffer[priority]
<1>1. OnWire(priority) \in Seq(Commands)
  BY UnderwayParts, CommandsConcat, Zenon DEF OnWire
<1> QED BY <1>1, UnderwayParts, Zenon DEF OnWire

UnderwaySplit ==
    \A priority \in Priorities :
        /\ OnWire(priority) \in Seq(Commands)
        /\ Underway(priority) = OnWire(priority) \o buffer[priority]

LEMMA IsSplit == IInv => UnderwaySplit
  BY UnderwayIsOnWire, Zenon DEF UnderwaySplit

LEMMA IsSplitThen == IInv' => UnderwaySplit'
  BY IsSplit, PTL

--------------------------------------------------------------------------------
(* What each step does to the queues.                                          *)

\* Nothing but the buffers, with what a packet takes out of them, has changed.
Forwarded(b) ==
    /\ handled' = handled
    /\ \A priority \in Priorities : Underway(priority)' = OnWire(priority) \o b[priority]

\* What is taken out of the buffers is in the socket.
LEMMA SentForwards ==
    ASSUME IInv, IInv', NEW b, NEW o, BuffersOK(b, o), SendBuffered(b, o), UNCHANGED receiverVars
    PROVE  Forwarded(b)
<1>1. PICK frame \in Frames :
          /\ stream' = stream \o frame
          /\ \A priority \in Priorities :
                 OfPriority(CommandsIn(frame), priority) \o buffer'[priority] = b[priority]
  BY Sent
<1>2. frame \in Seq(BytesType) /\ stream \in Seq(BytesType)
  BY FramesAreBytes DEF IInv, WireOK
<1>3. UNCHANGED <<buffer_deque, packets, handled>>
  BY DEF receiverVars
<1>4. ASSUME NEW priority \in Priorities
      PROVE  Underway(priority)' = OnWire(priority) \o b[priority]
  <2> DEFINE received == Carried(Joined(packets), priority) \o Carried(buffer_deque, priority)
             sent == Carried(stream, priority)
             c == Carried(frame, priority)
             rest == buffer'[priority]
  <2>1. Carried(stream', priority) = sent \o c /\ c \in Seq(Commands)
    BY <1>1, <1>2, CarriedConcat, Zenon
  <2>2. received \in Seq(Commands) /\ sent \in Seq(Commands)
    BY UnderwayParts, CommandsConcat, Zenon
  <2>3. rest \in Seq(Commands)
    BY DEF IInv, SenderOK, BuffersOK
  <2>4. OnWire(priority)' = received \o (sent \o c)
    BY <1>3, <2>1, Zenon DEF OnWire
  <2>5. c \o rest = b[priority]
    BY <1>1, Zenon DEF Carried
  <2>6. OnWire(priority) = received \o sent /\ OnWire(priority) \in Seq(Commands)
    BY UnderwayIsOnWire, Zenon DEF OnWire
  <2>7. Underway(priority)' = OnWire(priority)' \o rest
    BY IsSplitThen, Zenon DEF UnderwaySplit
  <2> HIDE DEF received, sent, c, rest
  <2>8. received \o (sent \o c) = (received \o sent) \o c
    BY <2>1, <2>2, CommandsAssociate, ZenonT(40)
  <2>9. (OnWire(priority) \o c) \o rest = OnWire(priority) \o (c \o rest)
    BY <2>1, <2>3, <2>6, CommandsAssociate, ZenonT(40)
  <2> QED BY <2>4, <2>5, <2>6, <2>7, <2>8, <2>9, Zenon
<1> QED BY <1>3, <1>4 DEF Forwarded

LEMMA UnsentForwards ==
    ASSUME IInv', UNCHANGED <<stream, receiverVars>>
    PROVE  Forwarded(buffer')
<1>1. UNCHANGED <<stream, buffer_deque, packets, handled>>
  BY DEF receiverVars
<1>2. \A priority : OnWire(priority)' = OnWire(priority)
  BY <1>1, Zenon DEF OnWire
<1>3. \A priority \in Priorities : Underway(priority)' = OnWire(priority)' \o buffer'[priority]
  BY IsSplitThen, Zenon DEF UnderwaySplit
<1> QED BY <1>1, <1>2, <1>3, Zenon DEF Forwarded

\* What was on the wire still is, if the same commands are behind those that were read.
LEMMA WireForwards ==
    ASSUME IInv', UNCHANGED <<buffer, handled>>,
           \A priority \in Priorities : OnWire(priority)' = OnWire(priority)
    PROVE  Forwarded(buffer)
<1>1. \A priority \in Priorities : Underway(priority)' = OnWire(priority)' \o buffer'[priority]
  BY IsSplitThen, Zenon DEF UnderwaySplit
<1> QED BY <1>1, Zenon DEF Forwarded

LEMMA WriteForwards ==
    ASSUME IInv, IInv', NEW count \in 1 .. Len(stream), Write(count)
    PROVE  Forwarded(buffer)
<1>1. buffer_deque' \o stream' = buffer_deque \o stream
  BY Written DEF IInv
<1>2. /\ stream \in Seq(BytesType) /\ buffer_deque \in Seq(BytesType)
      /\ stream' \in Seq(BytesType) /\ buffer_deque' \in Seq(BytesType)
  BY DEF IInv, WireOK
<1>3. UNCHANGED <<buffer, handled, packets>>
  BY DEF Write, senderVars
<1>4. ASSUME NEW priority \in Priorities
      PROVE  OnWire(priority)' = OnWire(priority)
  <2> DEFINE j == Carried(Joined(packets), priority)
             d == Carried(buffer_deque, priority)
             s == Carried(stream, priority)
             dd == Carried(buffer_deque', priority)
             ss == Carried(stream', priority)
  <2>1. j \in Seq(Commands)
    BY UnderwayParts
  <2>2. /\ Carried(buffer_deque \o stream, priority) = d \o s
        /\ d \in Seq(Commands) /\ s \in Seq(Commands)
    BY <1>2, CarriedConcat, ZenonT(40)
  <2>3. /\ Carried(buffer_deque' \o stream', priority) = dd \o ss
        /\ dd \in Seq(Commands) /\ ss \in Seq(Commands)
    BY <1>2, CarriedConcat, Zenon
  <2>4. d \o s = dd \o ss
    BY <1>1, <2>2, <2>3, Zenon
  <2>5. OnWire(priority) = (j \o d) \o s /\ OnWire(priority)' = (j \o dd) \o ss
    BY <1>3, Zenon DEF OnWire
  <2> HIDE DEF j, d, s, dd, ss
  <2>6. (j \o d) \o s = j \o (d \o s) /\ (j \o dd) \o ss = j \o (dd \o ss)
    BY <2>1, <2>2, <2>3, CommandsAssociate, ZenonT(40)
  <2> QED BY <2>4, <2>5, <2>6, Zenon
<1> QED BY <1>3, <1>4, WireForwards, Zenon

LEMMA SizeForwards ==
    ASSUME IInv, IInv', ReadSize
    PROVE  Forwarded(buffer)
<1>1. PICK payload \in Payloads : buffer_deque = SizeOf(payload) \o buffer_deque'
  BY SizeRead DEF IInv
<1>2. buffer_deque' \in Seq(BytesType) /\ SizeOf(payload) \in Seq(BytesType)
  BY FrameFacts DEF IInv, WireOK
<1>3. UNCHANGED <<buffer, handled, packets, stream>>
  BY DEF ReadSize, senderVars
<1>4. ASSUME NEW priority \in Priorities
      PROVE  Carried(buffer_deque, priority) = Carried(buffer_deque', priority)
  <2> DEFINE z == Carried(SizeOf(payload), priority)
             dd == Carried(buffer_deque', priority)
  <2>1. Carried(buffer_deque, priority) = z \o dd
    BY <1>1, <1>2, CarriedConcat, Zenon
  <2>2. z = <<>>
    BY CarriedNothing, Zenon
  <2>3. dd \in Seq(Commands)
    BY <1>2, CarriedConcat, Zenon
  <2> HIDE DEF z, dd
  <2>4. <<>> \o dd = dd
    BY <2>3, CommandsConcat, Zenon
  <2> QED BY <2>1, <2>2, <2>4, Zenon DEF dd
<1>5. \A priority \in Priorities : OnWire(priority)' = OnWire(priority)
  BY <1>3, <1>4, Zenon DEF OnWire
<1> QED BY <1>3, <1>5, WireForwards, Zenon

LEMMA PacketForwards ==
    ASSUME IInv, IInv', ReadPacket
    PROVE  Forwarded(buffer)
<1>1. PICK payload \in Payloads :
          packets' = Append(packets, payload) /\ buffer_deque = payload \o buffer_deque'
  BY PacketRead DEF IInv
<1>2. /\ buffer_deque' \in Seq(BytesType) /\ payload \in Seq(BytesType)
      /\ packets \in Seq(Seq(BytesType)) /\ Joined(packets) \in Seq(BytesType)
  <2>1. packets \in Seq(Seq(BytesType))
    BY PayloadsAreBytes, SeqMonotonic DEF IInv, ReceiverOK
  <2> QED BY <2>1, PayloadsType, JoinedType DEF IInv, WireOK
<1>3. Joined(packets') = Joined(packets) \o payload
  BY <1>1, <1>2, JoinedAppend
<1>4. UNCHANGED <<buffer, handled, stream>>
  BY DEF ReadPacket, senderVars
<1>5. ASSUME NEW priority \in Priorities
      PROVE  OnWire(priority)' = OnWire(priority)
  <2> DEFINE j == Carried(Joined(packets), priority)
             p == Carried(payload, priority)
             dd == Carried(buffer_deque', priority)
             s == Carried(stream, priority)
  <2>1. Carried(Joined(packets'), priority) = j \o p
    <3>1. Carried(Joined(packets) \o payload, priority) = j \o p
      BY <1>2, CarriedConcat, Zenon
    <3> QED BY <1>3, <3>1, Zenon
  <2>2. Carried(buffer_deque, priority) = p \o dd
    BY <1>1, <1>2, CarriedConcat, Zenon
  <2>3. j \in Seq(Commands) /\ p \in Seq(Commands) /\ dd \in Seq(Commands)
    BY <1>2, CarriedConcat, Zenon
  <2>4. OnWire(priority) = (j \o (p \o dd)) \o s /\ OnWire(priority)' = ((j \o p) \o dd) \o s
    BY <1>4, <2>1, <2>2, Zenon DEF OnWire
  <2> HIDE DEF j, p, dd, s
  <2>5. (j \o p) \o dd = j \o (p \o dd)
    BY <2>3, CommandsAssociate, ZenonT(40)
  <2> QED BY <2>4, <2>5, Zenon
<1> QED BY <1>4, <1>5, WireForwards, Zenon

\* A packet's commands leave the front of the queues.
LEMMA HandleTakes ==
    ASSUME IInv, IInv', HandlePacket, NEW priority \in Priorities
    PROVE  \E front \in Seq(Commands) :
               /\ handled'[priority] = handled[priority] \o front
               /\ Underway(priority) = front \o Underway(priority)'
               /\ Underway(priority)' \in Seq(Commands)
<1> DEFINE h == Head(packets)
           c == Carried(h, priority)
           jj == Carried(Joined(packets'), priority)
           d == Carried(buffer_deque, priority)
           s == Carried(stream, priority)
           b == buffer[priority]
<1>1. h \in Payloads /\ packets' \in Seq(Payloads) /\ packets = <<h>> \o packets'
  BY PacketTaken DEF IInv
<1>2. UNCHANGED <<buffer, stream, buffer_deque>>
  BY DEF HandlePacket, senderVars
<1>3. handled'[priority] = handled[priority] \o c
  BY DEF HandlePacket, Carried
<1>4. h \in Seq(BytesType)
  BY <1>1, PayloadsType
<1>5. Joined(packets) = h \o Joined(packets') /\ Joined(packets') \in Seq(BytesType)
  <2>1. <<h>> \in Seq(Seq(BytesType)) /\ packets' \in Seq(Seq(BytesType))
    <3> HIDE DEF h
    <3>1. packets' \in Seq(Seq(BytesType))
      BY <1>1, PayloadsAreBytes, SeqMonotonic
    <3> QED BY <1>4, <3>1
  <2> HIDE DEF h
  <2>2. Joined(<<h>> \o packets') = Joined(<<h>>) \o Joined(packets')
    BY <2>1, JoinedConcat
  <2>3. Joined(<<h>>) = h
    BY <1>4, JoinedSingle
  <2>4. Joined(packets') \in Seq(BytesType)
    BY <2>1, JoinedType
  <2> QED BY <1>1, <2>2, <2>3, <2>4, Zenon
<1>6. Carried(Joined(packets), priority) = c \o jj
  <2>1. Carried(h \o Joined(packets'), priority) = c \o jj
    BY <1>4, <1>5, CarriedConcat, Zenon
  <2> QED BY <1>5, <2>1, Zenon
<1>7. /\ c \in Seq(Commands) /\ jj \in Seq(Commands)
      /\ d \in Seq(Commands) /\ s \in Seq(Commands) /\ b \in Seq(Commands)
  BY <1>4, <1>5, CarriedConcat, UnderwayParts, Zenon
<1>8. Underway(priority) = (((c \o jj) \o d) \o s) \o b
  BY <1>6, UnderwayParts, Zenon
<1>9. Underway(priority)' = ((jj \o d) \o s) \o b
  BY <1>2, IsSplitThen, Zenon DEF UnderwaySplit, OnWire
<1> HIDE DEF c, jj, d, s, b, h
<1>10. jj \o d \in Seq(Commands) /\ (jj \o d) \o s \in Seq(Commands)
       /\ ((jj \o d) \o s) \o b \in Seq(Commands)
  BY <1>7, CommandsConcat, Zenon
<1>11. (c \o jj) \o d = c \o (jj \o d)
  BY <1>7, CommandsAssociate, ZenonT(40)
<1>12. (c \o (jj \o d)) \o s = c \o ((jj \o d) \o s)
  BY <1>7, <1>10, CommandsAssociate, ZenonT(40)
<1>13. (c \o ((jj \o d) \o s)) \o b = c \o (((jj \o d) \o s) \o b)
  BY <1>7, <1>10, CommandsAssociate, ZenonT(40)
<1> QED BY <1>3, <1>7, <1>8, <1>9, <1>10, <1>11, <1>12, <1>13, Zenon

--------------------------------------------------------------------------------
(* The theorems.                                                               *)

LEMMA QueuesInit == Init => Queues!Init
<1> SUFFICES ASSUME Init PROVE Queues!Init
  OBVIOUS
<1>1. \A priority \in Priorities : Underway(priority) = <<>>
  <2>1. packets = <<>> /\ buffer_deque = <<>> /\ stream = <<>>
        /\ \A priority \in Priorities : buffer[priority] = <<>>
    BY DEF Init
  <2>2. (<<>> \o <<>>) \o <<>> = <<>> /\ <<>> \o <<>> = <<>>
    OBVIOUS
  <2>3. Joined(packets) \o buffer_deque \o stream = <<>>
    BY <2>1, <2>2, JoinedEmpty, Zenon
  <2>4. \A priority \in Priorities : Underway(priority) = Carried(<<>>, priority) \o <<>>
    BY <2>1, <2>3, Zenon DEF Underway, Carried
  <2> QED BY <2>2, <2>4, CarriedNothing, Zenon
<1> QED BY <1>1 DEF Queues!Init, Init

\* A command, or none, is put behind those that wait.
LEMMA ForwardedQueues ==
    ASSUME IInv, NEW b, Forwarded(b),
           \/ b = buffer
           \/ \E command \in Commands :
                  b = [buffer EXCEPT ![command.priority] = Append(@, command)]
    PROVE  [Queues!Next]_Queues!vars
<1>1. /\ handled' = handled
      /\ \A priority \in Priorities : Underway(priority)' = OnWire(priority) \o b[priority]
  BY DEF Forwarded
<1>2. \A priority \in Priorities :
          /\ OnWire(priority) \in Seq(Commands)
          /\ Underway(priority) = OnWire(priority) \o buffer[priority]
  BY IsSplit DEF UnderwaySplit
<1>3. CASE b = buffer
  <2>1. \A priority \in Priorities : Underway(priority)' = Underway(priority)
    BY <1>1, <1>2, <1>3, Zenon
  <2> QED BY <1>1, <2>1 DEF Queues!vars
<1>4. ASSUME NEW command \in Commands,
             b = [buffer EXCEPT ![command.priority] = Append(@, command)]
      PROVE  Queues!Accept(command.priority, command)
  <2> DEFINE p == command.priority
  <2>1. p \in Priorities
    BY DEF Commands
  <2>2. buffer \in [Priorities -> Seq(Commands)]
    BY DEF IInv, SenderOK, BuffersOK
  <2>3. b[p] = Append(buffer[p], command) /\ \A q \in Priorities \ {p} : b[q] = buffer[q]
    BY <1>4, <2>1, <2>2
  <2>4. buffer[p] \in Seq(Commands)
    BY <2>1, <2>2
  <2> HIDE DEF p
  <2>5. Append(OnWire(p) \o buffer[p], command) = OnWire(p) \o Append(buffer[p], command)
    BY <1>2, <2>1, <2>4, CommandsAssociate, ZenonT(40)
  <2>6. Underway(p)' = Append(Underway(p), command)
    <3>1. Underway(p)' = OnWire(p) \o Append(buffer[p], command)
      BY <1>1, <2>1, <2>3, Zenon
    <3>2. Underway(p) = OnWire(p) \o buffer[p]
      BY <1>2, <2>1, Zenon
    <3> QED BY <2>5, <3>1, <3>2, Zenon
  <2>7. \A q \in Priorities \ {p} : Underway(q)' = Underway(q)
    BY <1>1, <1>2, <2>3, Zenon
  <2>8. [q \in Priorities |-> Underway(q)]'
            = [[q \in Priorities |-> Underway(q)] EXCEPT ![p] = Append(@, command)]
    <3> DEFINE w == [q \in Priorities |-> Underway(q)]
    <3>1. ASSUME NEW q \in Priorities
          PROVE  Underway(q)' = IF q = p THEN Append(w[p], command) ELSE w[q]
      BY <2>1, <2>6, <2>7
    <3> QED BY <2>1, <3>1
  <2> QED BY <1>1, <2>8 DEF Queues!Accept, p
<1>5. ASSUME NEW command \in Commands,
             b = [buffer EXCEPT ![command.priority] = Append(@, command)]
      PROVE  Queues!Next
  <2>1. command.priority \in Priorities
    BY DEF Commands
  <2> QED BY <1>4, <1>5, <2>1 DEF Queues!Next
<1> QED BY <1>3, <1>5

LEMMA HandleQueues ==
    ASSUME IInv, IInv', HandlePacket
    PROVE  Queues!Handle
<1> DEFINE w == [priority \in Priorities |-> Underway(priority)]
<1>1. ASSUME NEW priority \in Priorities
      PROVE  \E n \in 0 .. Len(w[priority]) :
                 /\ handled'[priority] = handled[priority] \o SubSeq(w[priority], 1, n)
                 /\ w'[priority] = SubSeq(w[priority], n + 1, Len(w[priority]))
  <2>1. w[priority] = Underway(priority) /\ w'[priority] = Underway(priority)'
    OBVIOUS
  <2> HIDE DEF w
  <2>2. PICK front \in Seq(Commands) :
            /\ handled'[priority] = handled[priority] \o front
            /\ w[priority] = front \o w'[priority]
            /\ w'[priority] \in Seq(Commands)
    BY <2>1, HandleTakes
  <2>3. /\ Len(front) \in 0 .. Len(w[priority])
        /\ SubSeq(w[priority], 1, Len(front)) = front
        /\ SubSeq(w[priority], Len(front) + 1, Len(w[priority])) = w'[priority]
    BY <2>2, CommandsConcat
  <2> QED BY <2>2, <2>3
<1> QED BY <1>1 DEF Queues!Handle

LEMMA QueuesStep == IInv /\ IInv' /\ [Next]_vars => [Queues!Next]_Queues!vars
<1> SUFFICES ASSUME IInv, IInv', [Next]_vars PROVE [Queues!Next]_Queues!vars
  OBVIOUS
<1>1. ASSUME NEW priority \in Priorities, NEW size \in Sizes, Send(priority, size)
      PROVE  [Queues!Next]_Queues!vars
  <2> DEFINE command == Asked(priority, size)
             b == CopyPacket(command)
  <2>1. command \in Commands /\ UNCHANGED receiverVars
    BY <1>1, AskedType DEF Send
  <2>2. BuffersOK(buffer, dwNextWriteOffset)
    BY DEF IInv, SenderOK
  <2>3. BuffersOK(b, OffsetsWith(command))
    <3> HIDE DEF command
    <3> QED BY <2>1, <2>2, Copied
  <2>4. b = buffer \/ b = [buffer EXCEPT ![command.priority] = Append(@, command)]
    <3> HIDE DEF command
    <3> QED BY <2>1, <2>2, Copied
  <2>5. \/ SendBuffered(b, OffsetsWith(command))
        \/ buffer' = b /\ UNCHANGED stream
    BY <1>1, Zenon DEF Send, Asked
  <2> HIDE DEF command, b
  <2>6. Forwarded(b)
    <3>1. CASE SendBuffered(b, OffsetsWith(command))
      BY <2>1, <2>3, <3>1, SentForwards
    <3>2. CASE buffer' = b /\ UNCHANGED stream
      BY <2>1, <3>2, UnsentForwards
    <3> QED BY <2>5, <3>1, <3>2
  <2> QED BY <2>1, <2>4, <2>6, ForwardedQueues
<1>2. CASE TurnsReceived
  <2>1. BuffersOK(buffer, dwNextWriteOffset) /\ UNCHANGED receiverVars
    BY <1>2 DEF IInv, SenderOK, TurnsReceived
  <2>2. \/ SendBuffered(buffer, dwNextWriteOffset)
        \/ UNCHANGED <<buffer, stream>>
    BY <1>2 DEF TurnsReceived, Share
  <2>3. Forwarded(buffer)
    BY <2>1, <2>2, SentForwards, UnsentForwards
  <2> QED BY <2>3, ForwardedQueues
<1>3. ASSUME NEW count \in 1 .. Len(stream), Write(count) PROVE [Queues!Next]_Queues!vars
  BY <1>3, WriteForwards, ForwardedQueues
<1>4. CASE ReadSize
  BY <1>4, SizeForwards, ForwardedQueues
<1>5. CASE ReadPacket
  BY <1>5, PacketForwards, ForwardedQueues
<1>6. CASE HandlePacket
  BY <1>6, HandleQueues DEF Queues!Next
<1>7. CASE UNCHANGED vars
  <2>1. \A priority \in Priorities : Underway(priority)' = Underway(priority)
    BY <1>7 DEF vars, senderVars, receiverVars, Underway
  <2> QED BY <1>7, <2>1 DEF Queues!vars, vars, receiverVars
<1> QED BY <1>1, <1>2, <1>3, <1>4, <1>5, <1>6, <1>7 DEF Next

\* After every call a buffer's write offset is right behind the commands that wait in it,
\* and leaves room for the final zero (CopyPacket, CopyBufferedPackets).
THEOREM TypeCorrect == Spec => []TypeOK
<1>1. IInv /\ [Next]_vars => IInv'
  BY IInvStep
<1>2. IInv => TypeOK
  BY IInvImplies
<1> QED BY IInvInit, <1>1, <1>2, PTL DEF Spec

\* However the socket cuts the frames into parts, what the frame_queue gives out is each
\* time the whole content of one packet, as NetSendHiPri has filled it: the header and
\* whole commands that fit into it.
THEOREM PacketsWhole == Spec => [](packets \in Seq(Payloads))
<1>1. IInv /\ [Next]_vars => IInv'
  BY IInvStep
<1>2. IInv => packets \in Seq(Payloads)
  BY IInvImplies
<1> QED BY IInvInit, <1>1, <1>2, PTL DEF Spec

\* Each of the two priorities is a queue from the buffer of the sender to the handler of
\* the receiver: a command that CopyPacket has accepted is handled once, whole, and in the
\* order of its priority, for any sizes of commands, buffers and packets.
THEOREM QueuesImplemented == Spec => ImplementsQueues
<1>1. IInv /\ [Next]_vars => IInv'
  BY IInvStep
<1>2. IInv /\ IInv' /\ [Next]_vars => [Queues!Next]_Queues!vars
  BY QueuesStep
<1>3. Init => Queues!Init
  BY QueuesInit
<1> QED BY IInvInit, <1>1, <1>2, <1>3, PTL DEF Spec, ImplementsQueues, Queues!Spec

\* A received turn leaves none of the commands with high priority in their buffer, if a
\* packet has room for all of them (multi_handle_delta, CopyBufferedPackets).
THEOREM PromptHighPriority == Spec => HighPriorityPrompt
<1> DEFINE Prompt == UNCHANGED <<given, receiverVars>> =>
                         \/ buffer'["high"] = <<>>
                         \/ TotalSize(buffer["high"]) > MsgSize
<1>1. ASSUME IInv, IInv', [Next]_vars
      PROVE  [Prompt]_vars
  <2> SUFFICES ASSUME Next, UNCHANGED <<given, receiverVars>>
               PROVE  buffer'["high"] = <<>> \/ TotalSize(buffer["high"]) > MsgSize
    BY <1>1
  <2>0. UNCHANGED <<given, buffer_deque, nextsize, packets, handled>>
    BY DEF receiverVars
  <2>1. /\ given \in Nat /\ buffer_deque \in Seq(BytesType)
        /\ packets \in Seq(Payloads) /\ packets \in Seq(Seq(BytesType))
    BY <1>1, PayloadsAreBytes, SeqMonotonic, SizesAssumption DEF IInv, SenderOK, WireOK, ReceiverOK
  <2>2. ASSUME NEW priority \in Priorities, NEW size \in Sizes, Send(priority, size)
        PROVE  FALSE
    BY <2>0, <2>1, <2>2 DEF Send
  <2>3. CASE TurnsReceived
    <3>1. BuffersOK(buffer, dwNextWriteOffset) /\ "high" \in Priorities
      BY <1>1 DEF IInv, SenderOK, Priorities
    <3>2. CASE SendBuffered(buffer, dwNextWriteOffset)
      <4>1. TotalSize(buffer["high"]) <= MsgSize => buffer'["high"] = <<>>
        BY <3>1, <3>2, Sent
      <4>2. TotalSize(buffer["high"]) \in Nat /\ MsgSize \in Nat
        BY <3>1, TotalSizeType, SizesAssumption DEF BuffersOK
      <4> QED BY <4>1, <4>2
    <3>3. CASE dwNextWriteOffset["high"] = 0 /\ UNCHANGED buffer
      <4>1. buffer["high"] \in Seq(Commands) /\ BufferedSize(buffer["high"]) = 0
        BY <3>1, <3>3 DEF BuffersOK
      <4>2. buffer["high"] = <<>>
        BY <4>1, BufferedSizeConcat
      <4> QED BY <3>3, <4>2
    <3> QED BY <2>3, <3>2, <3>3 DEF TurnsReceived, Share
  <2>4. ASSUME NEW count \in 1 .. Len(stream), Write(count)
        PROVE  FALSE
    <3> DEFINE first == SubSeq(stream, 1, count)
    <3>1. stream \in Seq(BytesType) /\ count \in 0 .. Len(stream) /\ count > 0
      BY <1>1 DEF IInv, WireOK
    <3>2. first \in Seq(BytesType) /\ Len(first) = count
      BY <3>1, BytesCut, Zenon
    <3>3. buffer_deque' = buffer_deque \o first
      BY <2>4 DEF Write
    <3> HIDE DEF first
    <3>4. Len(buffer_deque') = Len(buffer_deque) + count
      BY <2>1, <3>2, <3>3, BytesConcat, Zenon
    <3>5. Len(buffer_deque) \in Nat
      BY <2>1
    <3> QED BY <2>0, <3>1, <3>4, <3>5
  <2>5. CASE ReadSize
    <3>1. PICK payload \in Payloads : buffer_deque = SizeOf(payload) \o buffer_deque'
      BY <1>1, <2>5, SizeRead DEF IInv
    <3>2. SizeOf(payload) \in Seq(BytesType) /\ Len(SizeOf(payload)) = 2
      BY FrameFacts DEF SizeBytes
    <3>3. Len(buffer_deque) = 2 + Len(buffer_deque)
      <4>1. buffer_deque = SizeOf(payload) \o buffer_deque
        BY <2>0, <3>1, Zenon
      <4>2. Len(SizeOf(payload) \o buffer_deque) = Len(SizeOf(payload)) + Len(buffer_deque)
        BY <2>1, <3>2, BytesConcat, Zenon
      <4> QED BY <3>2, <4>1, <4>2, Zenon
    <3> QED BY <2>1, <3>3
  <2>6. CASE ReadPacket
    <3>1. PICK payload : packets' = Append(packets, payload)
      BY <2>6 DEF ReadPacket
    <3> QED BY <2>0, <2>1, <3>1
  <2>7. CASE HandlePacket
    BY <2>0, <2>1, <2>7 DEF HandlePacket
  <2> QED BY <1>1, <2>2, <2>3, <2>4, <2>5, <2>6, <2>7 DEF Next
<1>2. IInv /\ [Next]_vars => IInv'
  BY IInvStep
<1> QED BY IInvInit, <1>1, <1>2, PTL DEF Spec, HighPriorityPrompt

--------------------------------------------------------------------------------
(* NetThread: the two threads and the mutex MemCrit.                            *)

LEMMA ConstantTypes ==
    TurnsInTransit \in Nat \ {0} /\ NetUpdateRate \in Nat
<1>1. TurnsInTransit \in Nat \ {0}
  BY CapsAssumption DEF TurnsInTransit
<1>2. NetUpdateRate \in Nat
  BY CapsAssumption DEF NetUpdateRate
<1> QED BY <1>1, <1>2

(* The conjuncts of ThreadsTypeOK: Boolean variables, which only Zenon handles well, *)
(* control states, and numbers.                                               *)

BooleanTypes ==
    /\ nthread_should_run \in BOOLEAN
    /\ sgbThreadIsRunning \in BOOLEAN
    /\ Thread \in BOOLEAN
    /\ sgbTicsOutOfSync \in BOOLEAN
    /\ netResult \in BOOLEAN

PcTypes ==
    /\ mainPc \in {"menu", "resync", "loading", "play",
                   "cleanup", "unlock", "join"}
    /\ netPc \in {"none", "start", "lock", "check", "send", "fill", "deliver",
                  "receive", "unlock", "delay", "done"}

NumberTypes ==
    /\ gdwTurnsInTransit \in {0, TurnsInTransit}
    /\ curTurnsInTransit \in 0 .. TurnsInTransit + 1
    /\ turnTmp \in {0, 1}
    /\ inTransit \in 0 .. TurnsInTransit
    /\ turn_upper_bit \in {0, 1}
    /\ sgbPacketCountdown \in Int
    /\ sgbSyncCountdown \in Int
    /\ sinceReceive \in Nat
    /\ bitsAsked \in Nat
    /\ bitsSent \in Nat

-------------------------------------------------------------------------------
(* Who holds MemCrit.  ExclusiveTurns is not inductive: the holder must be     *)
(* known in every state, also while the main thread is loading or joining.     *)

MainHolds ==
    \/ mainPc \in {"resync", "play"}
    \/ mainPc \in {"cleanup", "unlock"} /\ ~ sgbThreadIsRunning

NetHolds == netPc \in {"check", "send", "fill", "deliver", "receive", "unlock"}

Holder ==
    /\ ~ (MainHolds /\ NetHolds)
    /\ MainHolds => MemCrit = "main" /\ MemCritCount = 1
    /\ NetHolds => MemCrit = "net" /\ MemCritCount = 1
    /\ ~ MainHolds /\ ~ NetHolds => MemCrit = "none" /\ MemCritCount = 0
    /\ badUnlock = FALSE

Flags ==
    /\ mainPc \in {"resync", "play"} => ~ sgbThreadIsRunning
    /\ mainPc = "loading" => sgbThreadIsRunning
    /\ mainPc = "menu" <=> ~ Thread
    /\ Thread <=> netPc # "none"

\* The network thread's sending loop counts what is in transit, though it asked for
\* that number only once: nobody else sends or receives meanwhile.  There is room for
\* the turn that it is about to send, also when gdwTurnsInTransit is cleared by then.
Loop ==
    /\ netPc = "fill" => curTurnsInTransit = inTransit
    /\ netPc = "deliver" => inTransit + 1 <= TurnsInTransit /\ curTurnsInTransit = inTransit + 1
                            /\ turnTmp = turn_upper_bit

\* The inductive invariant.
ThreadsInv == BooleanTypes /\ PcTypes /\ NumberTypes /\ Holder /\ Flags /\ Loop

LEMMA ThreadsInvType == ThreadsInv => ThreadsTypeOK
<1> SUFFICES ASSUME ThreadsInv PROVE ThreadsTypeOK
  OBVIOUS
<1>1. MemCrit \in Threads \cup {"none"} /\ MemCritCount \in Nat
  BY DEF ThreadsInv, Holder, Threads
<1>2. badUnlock \in BOOLEAN
  BY DEF ThreadsInv, Holder
<1> QED
  BY <1>1, <1>2, Zenon DEF ThreadsInv, BooleanTypes, PcTypes, NumberTypes, ThreadsTypeOK

LEMMA ThreadsInvInit == ThreadsInit => ThreadsInv
<1> SUFFICES ASSUME ThreadsInit PROVE ThreadsInv
  OBVIOUS
<1>1. BooleanTypes /\ PcTypes /\ Holder /\ Flags
  BY DEF ThreadsInit, BooleanTypes, PcTypes, Holder, Flags, MainHolds, NetHolds
<1>2. NumberTypes /\ Loop
  BY ConstantTypes DEF ThreadsInit, NumberTypes, Loop
<1> QED BY <1>1, <1>2 DEF ThreadsInv

\* What Lock and Unlock do when the mutex is not held twice.
LEMMA LockEffect ==
    ASSUME NEW t, t # "none", MemCrit = "none" => MemCritCount = 0, MemCrit # t, Lock(t)
    PROVE  MemCrit = "none" /\ MemCrit' = t /\ MemCritCount' = 1 /\ badUnlock' = badUnlock
BY DEF Lock

LEMMA UnlockEffect ==
    ASSUME NEW t, MemCrit = t, MemCritCount = 1, Unlock(t)
    PROVE  MemCrit' = "none" /\ MemCritCount' = 0 /\ badUnlock' = badUnlock
BY DEF Unlock

\* The two helpers that touch the turn state keep its types.
LEMMA SendTurnsType ==
    ASSUME NumberTypes, SendTurns
    PROVE  /\ gdwTurnsInTransit' \in {0, TurnsInTransit}
           /\ inTransit' \in 0 .. TurnsInTransit
           /\ turn_upper_bit' \in {0, 1}
           /\ bitsAsked' \in Nat
           /\ bitsSent' \in Nat
           /\ UNCHANGED loopVars
BY ConstantTypes DEF NumberTypes, SendTurns

LEMMA RecvTurnsType ==
    ASSUME NumberTypes, NEW result \in BOOLEAN, RecvTurns(result)
    PROVE  /\ sgbPacketCountdown' \in Int
           /\ sgbSyncCountdown' \in Int
           /\ sinceReceive' \in Nat
           /\ inTransit' \in 0 .. TurnsInTransit
<1>1. sgbPacketCountdown' \in Int /\ sgbSyncCountdown' \in Int
  BY ConstantTypes DEF NumberTypes, RecvTurns, SyncPeriod
<1>2. sinceReceive' \in Nat /\ inTransit' \in 0 .. TurnsInTransit
  BY ConstantTypes DEF NumberTypes, RecvTurns
<1> QED BY <1>1, <1>2

LEMMA RecvTurnsBoolean ==
    ASSUME sgbTicsOutOfSync \in BOOLEAN, NEW result \in BOOLEAN, RecvTurns(result)
    PROVE  sgbTicsOutOfSync' \in BOOLEAN
BY Zenon DEF RecvTurns

-------------------------------------------------------------------------------

\* Numbers keep their types in every step.
LEMMA NumberStep == ASSUME NumberTypes, Loop, [ThreadsNext]_threadVars PROVE NumberTypes'
<1> USE ConstantTypes DEF NumberTypes, turnVars, tickVars, loopVars
<1>1. ASSUME NEW b \in {0, 1}, nthread_start(b) PROVE NumberTypes'
  BY <1>1 DEF nthread_start
<1>2. CASE MainSend
  BY <1>2, SendTurnsType DEF MainSend
<1>3. CASE MainReceive
  BY <1>3, RecvTurnsType DEF MainReceive
<1>4. CASE nthread_set_turn_upper_bit
  BY <1>4 DEF nthread_set_turn_upper_bit
<1>5. CASE LendMutex
  BY <1>5 DEF LendMutex
<1>6. CASE TakeMutexBack
  BY <1>6 DEF TakeMutexBack
<1>7. CASE StopThread
  BY <1>7 DEF StopThread
<1>8. CASE ClearTransit
  BY <1>8 DEF ClearTransit
<1>9. CASE ReleaseForJoin
  BY <1>9 DEF ReleaseForJoin
<1>10. CASE Join
  BY <1>10 DEF Join
<1>11. CASE NetStart
  BY <1>11 DEF NetStart
<1>12. CASE NetLock
  BY <1>12 DEF NetLock
<1>13. CASE NetCheck
  BY <1>13 DEF NetCheck
<1>14. CASE NetSend
  BY <1>14 DEF NetSend
<1>15. CASE NetReceive
  BY <1>15, RecvTurnsType DEF NetReceive
<1>16. CASE NetUnlock
  BY <1>16 DEF NetUnlock
<1>17. CASE NetDelay
  BY <1>17 DEF NetDelay
<1>18. CASE UNCHANGED threadVars
  BY <1>18 DEF threadVars
<1>19. CASE NetFill
  BY <1>19 DEF NetFill, Loop
<1>20. CASE NetDeliver
  BY <1>20 DEF NetDeliver, Loop
<1> QED
  BY <1>1, <1>2, <1>3, <1>4, <1>5, <1>6, <1>7, <1>8, <1>9, <1>10, <1>11,
     <1>12, <1>13, <1>14, <1>15, <1>16, <1>17, <1>18, <1>19, <1>20 DEF ThreadsNext, Main, Net

\* Booleans and control states keep their types, and the holder of MemCrit and
\* the flags stay in step with the control states.
LEMMA ControlStep ==
    ASSUME ThreadsInv, [ThreadsNext]_threadVars
    PROVE  (BooleanTypes /\ PcTypes /\ Holder /\ Flags)'
<1> USE DEF ThreadsInv, BooleanTypes, PcTypes, Holder, Flags, MainHolds, NetHolds,
           mutexVars, flagVars, turnVars, tickVars
<1> DEFINE Control == BooleanTypes /\ PcTypes /\ Holder /\ Flags
<1>1. ASSUME NEW b \in {0, 1}, nthread_start(b) PROVE Control'
  <2>1. MemCrit' = "main" /\ MemCritCount' = 1 /\ badUnlock' = badUnlock
    BY <1>1, LockEffect DEF nthread_start
  <2> QED BY <1>1, <2>1, Zenon DEF nthread_start
<1>2. CASE MainSend
  BY <1>2, Zenon DEF MainSend
<1>3. CASE MainReceive
  BY <1>3, RecvTurnsBoolean, Zenon DEF MainReceive
<1>4. CASE nthread_set_turn_upper_bit
  BY <1>4, Zenon DEF nthread_set_turn_upper_bit
<1>5. CASE LendMutex
  <2>1. MemCrit' = "none" /\ MemCritCount' = 0 /\ badUnlock' = badUnlock
    BY <1>5, UnlockEffect DEF LendMutex
  <2> QED BY <1>5, <2>1, Zenon DEF LendMutex
<1>6. CASE TakeMutexBack
  <2>1. MemCrit = "none" /\ MemCrit' = "main" /\ MemCritCount' = 1 /\ badUnlock' = badUnlock
    BY <1>6, LockEffect DEF TakeMutexBack
  <2> QED BY <1>6, <2>1, Zenon DEF TakeMutexBack
<1>7. CASE StopThread
  BY <1>7, Zenon DEF StopThread
<1>8. CASE ClearTransit
  BY <1>8, Zenon DEF ClearTransit
<1>9. CASE ReleaseForJoin
  <2>1. ~ sgbThreadIsRunning => MemCrit' = "none" /\ MemCritCount' = 0 /\ badUnlock' = badUnlock
    BY <1>9, UnlockEffect DEF ReleaseForJoin
  <2> QED BY <1>9, <2>1, Zenon DEF ReleaseForJoin
<1>10. CASE Join
  BY <1>10, Zenon DEF Join
<1>11. CASE NetStart
  BY <1>11, Zenon DEF NetStart
<1>12. CASE NetLock
  <2>1. MemCrit = "none" /\ MemCrit' = "net" /\ MemCritCount' = 1 /\ badUnlock' = badUnlock
    BY <1>12, LockEffect DEF NetLock
  <2> QED BY <1>12, <2>1, Zenon DEF NetLock
<1>13. CASE NetCheck
  <2>1. ~ nthread_should_run => MemCrit' = "none" /\ MemCritCount' = 0 /\ badUnlock' = badUnlock
    BY <1>13, UnlockEffect DEF NetCheck
  <2> QED BY <1>13, <2>1, Zenon DEF NetCheck
<1>14. CASE NetSend
  BY <1>14, Zenon DEF NetSend
<1>15. CASE NetReceive
  BY <1>15, RecvTurnsBoolean, Zenon DEF NetReceive
<1>16. CASE NetUnlock
  <2>1. MemCrit' = "none" /\ MemCritCount' = 0 /\ badUnlock' = badUnlock
    BY <1>16, UnlockEffect DEF NetUnlock
  <2> QED BY <1>16, <2>1, Zenon DEF NetUnlock
<1>17. CASE NetDelay
  BY <1>17, Zenon DEF NetDelay
<1>18. CASE UNCHANGED threadVars
  BY <1>18, Zenon DEF threadVars
<1>19. CASE NetFill
  BY <1>19, Zenon DEF NetFill
<1>20. CASE NetDeliver
  BY <1>20, Zenon DEF NetDeliver
<1> QED
  BY <1>1, <1>2, <1>3, <1>4, <1>5, <1>6, <1>7, <1>8, <1>9, <1>10, <1>11,
     <1>12, <1>13, <1>14, <1>15, <1>16, <1>17, <1>18, <1>19, <1>20, Zenon DEF ThreadsNext,
     Main, Net

\* While the network thread is in its sending loop the main thread does not exchange turns.
LEMMA LoopStep == ASSUME ThreadsInv, [ThreadsNext]_threadVars PROVE Loop'
<1> USE DEF ThreadsInv, NumberTypes, Holder, Flags, MainHolds, NetHolds, Loop
<1>1. CASE \/ \E b \in {0, 1} : nthread_start(b)
           \/ MainSend \/ MainReceive \/ nthread_set_turn_upper_bit
  <2>1. netPc' \notin {"fill", "deliver"}
    BY <1>1, Zenon DEF nthread_start, MainSend, MainReceive, nthread_set_turn_upper_bit
  <2> QED BY <2>1
<1>2. CASE netPc' \notin {"fill", "deliver"}
  BY <1>2
<1>3. CASE NetStart \/ NetLock \/ NetCheck \/ NetReceive \/ NetUnlock \/ NetDelay \/ Join
  <2>1. netPc' \notin {"fill", "deliver"}
    BY <1>3 DEF NetStart, NetLock, NetCheck, NetReceive, NetUnlock, NetDelay, Join
  <2> QED BY <1>2, <2>1
<1>4. CASE UNCHANGED <<netPc, inTransit, turn_upper_bit, loopVars>>
  BY <1>4 DEF loopVars
<1>5. CASE LendMutex \/ TakeMutexBack \/ StopThread \/ ClearTransit \/ ReleaseForJoin
           \/ UNCHANGED threadVars
  <2>1. UNCHANGED <<netPc, inTransit, turn_upper_bit, loopVars>>
    BY <1>5 DEF LendMutex, TakeMutexBack, StopThread, ClearTransit, ReleaseForJoin, threadVars,
                turnVars
  <2> QED BY <1>4, <2>1
<1>6. CASE NetSend
  BY <1>6 DEF NetSend
<1>7. CASE NetFill
  BY <1>7, ConstantTypes DEF NetFill
<1>8. CASE NetDeliver
  BY <1>8 DEF NetDeliver, loopVars
<1> QED BY <1>1, <1>3, <1>5, <1>6, <1>7, <1>8, Zenon DEF ThreadsNext, Main, Net

LEMMA ThreadsInvStep == ThreadsInv /\ [ThreadsNext]_threadVars => ThreadsInv'
BY NumberStep, ControlStep, LoopStep DEF ThreadsInv

\* No step of either thread leaves the types, whatever the capabilities are: at no moment
\* are more turns in transit than the window that nthread_start computes, also when
\* nthread_cleanup clears gdwTurnsInTransit in the middle of the other thread's loop.
THEOREM ThreadsTypeCorrect == ThreadsSpec => []ThreadsTypeOK
<1>1. ThreadsInv => ThreadsTypeOK
  BY ThreadsInvType
<1> QED BY <1>1, ThreadsInvInit, ThreadsInvStep, PTL DEF ThreadsSpec

\* The main thread and the network thread never exchange turns at the same time,
\* so nthread.cpp's counters and the turn queues have one writer at any moment.
THEOREM MutualExclusion == ThreadsSpec => []ExclusiveTurns
<1>1. ThreadsInv => ExclusiveTurns
  BY Zenon DEF ThreadsInv, Holder, MainHolds, NetHolds, ExclusiveTurns
<1> QED BY <1>1, ThreadsInvInit, ThreadsInvStep, PTL DEF ThreadsSpec

\* No thread ever unlocks MemCrit without owning it, from wherever the main thread
\* calls nthread_ignore_mutex and nthread_cleanup.
THEOREM UnlocksBalanced == ThreadsSpec => []UnlocksBalance
<1>1. ThreadsInv => UnlocksBalance
  BY Zenon DEF ThreadsInv, Holder, UnlocksBalance
<1> QED BY <1>1, ThreadsInvInit, ThreadsInvStep, PTL DEF ThreadsSpec

\* Whenever the main thread is back in the menu the thread is gone and MemCrit is
\* free, and nthread_cleanup never joins the thread with MemCrit held.
THEOREM Quiescent == ThreadsSpec => []QuiescentAfterJoin
<1>1. ThreadsInv => QuiescentAfterJoin
  BY Zenon DEF ThreadsInv, Holder, Flags, MainHolds, NetHolds, QuiescentAfterJoin
<1> QED BY <1>1, ThreadsInvInit, ThreadsInvStep, PTL DEF ThreadsSpec

-------------------------------------------------------------------------------

\* The upper bit that was asked for moves from turn_upper_bit to a turn, or stays.
LEMMA UpperBitStep ==
    ASSUME NumberTypes, Loop, UpperBitOnce, [ThreadsNext]_threadVars
    PROVE  UpperBitOnce'
<1> USE DEF UpperBitOnce, NumberTypes, turnVars
<1>1. ASSUME NEW b \in {0, 1}, nthread_start(b) PROVE UpperBitOnce'
  BY <1>1 DEF nthread_start
<1>2. CASE MainSend
  BY <1>2 DEF MainSend, SendTurns
<1>3. CASE MainReceive
  BY <1>3 DEF MainReceive
<1>4. CASE nthread_set_turn_upper_bit
  BY <1>4 DEF nthread_set_turn_upper_bit
<1>5. CASE NetSend \/ NetFill
  BY <1>5 DEF NetSend, NetFill
<1>6. CASE NetReceive
  BY <1>6 DEF NetReceive
<1>7. CASE ClearTransit
  BY <1>7 DEF ClearTransit
<1>9. CASE NetDeliver
  BY <1>9 DEF NetDeliver, Loop
<1>8. CASE \/ LendMutex \/ TakeMutexBack \/ StopThread \/ ReleaseForJoin \/ Join
           \/ NetStart \/ NetLock \/ NetCheck \/ NetUnlock \/ NetDelay
           \/ UNCHANGED threadVars
  BY <1>8 DEF LendMutex, TakeMutexBack, StopThread, ReleaseForJoin, Join, NetStart,
              NetLock, NetCheck, NetUnlock, NetDelay, threadVars
<1> QED
  BY <1>1, <1>2, <1>3, <1>4, <1>5, <1>6, <1>7, <1>8, <1>9, Zenon DEF ThreadsNext, Main, Net

\* A request for the game state is sent exactly once: no tick of either thread, and
\* no hand-over of the exchange between them, loses the upper bit or sends it twice.
THEOREM UpperBitSentOnce == ThreadsSpec => []UpperBitOnce
<1>1. ThreadsInit => UpperBitOnce
  BY DEF ThreadsInit, UpperBitOnce
<1>2. ThreadsInv /\ UpperBitOnce /\ [ThreadsNext]_threadVars => UpperBitOnce'
  BY UpperBitStep DEF ThreadsInv
<1> QED BY <1>1, <1>2, ThreadsInvInit, ThreadsInvStep, PTL DEF ThreadsSpec
-------------------------------------------------------------------------------
(* The countdowns of nthread_recv_turns.  ReceiveCadence is not inductive: the  *)
(* countdowns must be known to be positive, or the next tick could skip one.    *)

OutOfSync == sgbPacketCountdown = 1 /\ sgbSyncCountdown = 1

\* The ticks that are left before the next receive, and those since the last one.
Due ==
    sinceReceive + (sgbSyncCountdown - 1) * NetUpdateRate + sgbPacketCountdown
        = SyncPeriod * NetUpdateRate

Counts == sgbPacketCountdown >= 1 /\ sgbSyncCountdown \in 1 .. SyncPeriod

CadenceInv == netPc # "none" => Counts /\ (OutOfSync \/ (sgbTicsOutOfSync /\ Due))

LEMMA RatePositive == NetUpdateRate \in Nat \ {0}
<1>1. CASE TurnsSecCap <= 20 /\ TurnsSecCap # 0
  <2>1. TurnsSecCap \in 1 .. 20
    BY <1>1, CapsAssumption
  <2>2. 20 \div TurnsSecCap \in Nat \ {0}
    BY <2>1
  <2> QED BY <1>1, <2>2 DEF NetUpdateRate
<1>2. CASE ~ (TurnsSecCap <= 20 /\ TurnsSecCap # 0)
  BY <1>2 DEF NetUpdateRate
<1> QED BY <1>1, <1>2

\* A call that makes no attempt takes one from what is left.
LEMMA CountdownStep ==
    ASSUME NumberTypes, Counts, ~ OutOfSync, NEW result \in BOOLEAN, RecvTurns(result),
           sinceReceive' = sinceReceive + 1
    PROVE  Counts' /\ (Due => Due')
<1> DEFINE R == NetUpdateRate
<1>1. R \in Nat \ {0}
  BY RatePositive
<1>2. CASE sgbPacketCountdown - 1 > 0
  <2>1. sgbPacketCountdown' = sgbPacketCountdown - 1 /\ sgbSyncCountdown' = sgbSyncCountdown
    BY <1>2 DEF RecvTurns, NumberTypes
  <2>2. DEFINE rest == (sgbSyncCountdown - 1) * R
  <2>3. rest \in Int
    BY <1>1 DEF NumberTypes
  <2>4. rest' = rest
    BY <2>1
  <2> HIDE DEF rest
  <2> QED
    BY <1>2, <2>1, <2>3, <2>4 DEF Counts, NumberTypes, SyncPeriod, Due, rest
<1>3. CASE sgbPacketCountdown - 1 <= 0
  <2>1. sgbPacketCountdown = 1 /\ sgbSyncCountdown # 1
    BY <1>3 DEF Counts, OutOfSync, NumberTypes
  <2>2. sgbPacketCountdown' = R /\ sgbSyncCountdown' = sgbSyncCountdown - 1
    BY <2>1 DEF RecvTurns, NumberTypes
  <2> QED
    BY <1>1, <2>1, <2>2 DEF Counts, NumberTypes, SyncPeriod, Due
<1> QED BY <1>2, <1>3 DEF NumberTypes

\* Whatever a call of nthread_recv_turns does, the countdowns stay in step.
LEMMA RecvTurnsCadence ==
    ASSUME NumberTypes, sgbTicsOutOfSync \in BOOLEAN, Counts,
           OutOfSync \/ (sgbTicsOutOfSync /\ Due),
           NEW result \in BOOLEAN, RecvTurns(result)
    PROVE  Counts' /\ (OutOfSync' \/ (sgbTicsOutOfSync' /\ Due'))
<1>1. CASE sinceReceive' = sinceReceive + 1 /\ sgbTicsOutOfSync' = sgbTicsOutOfSync /\ ~ OutOfSync
  <2>1. Counts' /\ (Due => Due')
    BY <1>1, CountdownStep
  <2> QED BY <1>1, <2>1, Zenon
<1>2. CASE sgbSyncCountdown' = 1 /\ sgbPacketCountdown' = 1
  BY <1>2 DEF Counts, OutOfSync, SyncPeriod
<1>3. CASE /\ sgbSyncCountdown' = SyncPeriod /\ sgbPacketCountdown' = NetUpdateRate
           /\ sinceReceive' = 0 /\ sgbTicsOutOfSync' = TRUE
  <2>1. Counts' /\ Due'
    BY <1>3, RatePositive DEF Counts, Due, SyncPeriod
  <2> QED BY <1>3, <2>1, Zenon
<1>4. OutOfSync => ~ (sgbPacketCountdown - 1 > 0) /\ sgbSyncCountdown - 1 = 0
  BY DEF OutOfSync
<1> QED BY <1>1, <1>2, <1>3, <1>4, Zenon DEF RecvTurns

LEMMA CadenceStep ==
    ASSUME ThreadsInv, CadenceInv, [ThreadsNext]_threadVars
    PROVE  CadenceInv'
<1> USE DEF ThreadsInv, BooleanTypes, Flags
<1>1. ASSUME NEW b \in {0, 1}, nthread_start(b) PROVE CadenceInv'
  BY <1>1 DEF nthread_start, CadenceInv, Counts, OutOfSync, SyncPeriod
<1>2. CASE MainReceive
  <2>1. netPc # "none"
    BY <1>2, Zenon DEF MainReceive
  <2>2. PICK result \in BOOLEAN : RecvTurns(result)
    BY <1>2 DEF MainReceive
  <2>3. Counts' /\ (OutOfSync' \/ (sgbTicsOutOfSync' /\ Due'))
    BY <2>1, <2>2, RecvTurnsCadence, Zenon DEF CadenceInv
  <2> QED BY <2>3, Zenon DEF CadenceInv
<1>3. CASE NetReceive
  <2>1. netPc # "none"
    BY <1>3, Zenon DEF NetReceive
  <2>2. PICK result \in BOOLEAN : RecvTurns(result)
    BY <1>3 DEF NetReceive
  <2>3. Counts' /\ (OutOfSync' \/ (sgbTicsOutOfSync' /\ Due'))
    BY <2>1, <2>2, RecvTurnsCadence, Zenon DEF CadenceInv
  <2> QED BY <2>3, Zenon DEF CadenceInv
<1>4. CASE Join
  BY <1>4, Zenon DEF Join, CadenceInv
<1>5. CASE UNCHANGED tickVars /\ (netPc' # "none" => netPc # "none")
  BY <1>5, Zenon DEF tickVars, CadenceInv, Counts, OutOfSync, Due
<1>6. CASE MainSend \/ nthread_set_turn_upper_bit \/ LendMutex \/ TakeMutexBack \/ StopThread
           \/ ClearTransit \/ ReleaseForJoin
  BY <1>5, <1>6, Zenon DEF MainSend, nthread_set_turn_upper_bit, LendMutex, TakeMutexBack,
                           StopThread, ClearTransit, ReleaseForJoin
<1>7. CASE NetStart \/ NetLock \/ NetCheck \/ NetSend \/ NetFill \/ NetDeliver
           \/ NetUnlock \/ NetDelay
  BY <1>5, <1>7, Zenon DEF NetStart, NetLock, NetCheck, NetSend, NetFill, NetDeliver, NetUnlock, NetDelay
<1>8. CASE UNCHANGED threadVars
  BY <1>5, <1>8, Zenon DEF threadVars
<1> QED
  BY <1>1, <1>2, <1>3, <1>4, <1>6, <1>7, <1>8, Zenon DEF ThreadsNext, Main, Net

\* Whichever thread ticks, and however often turns are late: while they are in time they
\* are received exactly every SyncPeriod * NetUpdateRate ticks, and at every tick else.
THEOREM CadenceKept == ThreadsSpec => []ReceiveCadence
<1>1. ThreadsInit => CadenceInv
  BY DEF ThreadsInit, CadenceInv
<1>2. CadenceInv => ReceiveCadence
  BY Zenon DEF CadenceInv, OutOfSync, Due, ReceiveCadence
<1> QED BY <1>1, <1>2, CadenceStep, ThreadsInvInit, ThreadsInvStep, PTL DEF ThreadsSpec
================================================================================
