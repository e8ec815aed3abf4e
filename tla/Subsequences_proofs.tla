-------------------------- MODULE Subsequences_proofs --------------------------
(***************************************************************************)
(* Lemmas on sequences that several components need: induction on numbers  *)
(* and on sequences, functions that go through a sequence, what Among does *)
(* to a sequence that is put together, and where sequences are cut.        *)
(***************************************************************************)
EXTENDS Subsequences, Integers, SequenceTheorems, WellFoundedInduction, TLAPS

\* Induction on the natural numbers, as a fact about sets.
LEMMA Induct ==
    ASSUME NEW S, 0 \in S, \A n \in Nat : n \in S => n + 1 \in S
    PROVE  Nat \subseteq S
<1> SUFFICES ASSUME Nat \ S # {} PROVE FALSE
  OBVIOUS
<1>1. \E x \in Nat \ S : \A y \in Nat \ S : <<y, x>> \notin OpToRel(<, Nat)
  BY NatLessThanWellFounded, WFMin
<1>2. PICK x \in Nat \ S : \A y \in Nat \ S : ~ (y < x)
  BY <1>1 DEF OpToRel
<1>3. x - 1 \in Nat /\ x - 1 < x /\ (x - 1) + 1 = x
  BY <1>2
<1> QED BY <1>2, <1>3

\* Induction on sequences: what holds of the empty one, and of a longer one if it does of
\* the one without its last element, holds of all.
LEMMA SeqInduct ==
    ASSUME NEW S, NEW P, <<>> \in P,
           \A s \in Seq(S), x \in S : s \in P => Append(s, x) \in P
    PROVE  Seq(S) \subseteq P
<1> DEFINE Ns == {n \in Nat : \A s \in Seq(S) : Len(s) = n => s \in P}
<1>1. 0 \in Ns
  <2>1. \A s \in Seq(S) : Len(s) = 0 => s = <<>>
    OBVIOUS
  <2> QED BY <2>1
<1>2. ASSUME NEW n \in Nat, n \in Ns PROVE n + 1 \in Ns
  <2> SUFFICES ASSUME NEW s \in Seq(S), Len(s) = n + 1 PROVE s \in P
    OBVIOUS
  <2>1. s # <<>>
    OBVIOUS
  <2>2. PICK t \in Seq(S), x \in S : s = Append(t, x)
    BY <2>1, SequenceEmptyOrAppend
  <2>3. Len(t) = n
    BY <2>2
  <2>4. t \in P
    BY <1>2, <2>3
  <2> QED BY <2>2, <2>4
<1>3. \A n \in Nat : n \in Ns
  <2> HIDE DEF Ns
  <2> QED BY <1>1, <1>2, Induct
<1> QED BY <1>3

--------------------------------------------------------------------------------
(* Functions that go through a sequence.  Their values follow one another by   *)
(* a step for each element.                                                    *)

RunBy(f, base, step, n) ==
    [i \in 0 .. n |-> IF i = 0 THEN base ELSE step[i][f[i - 1]]]

\* There is such a function for any number of steps.
LEMMA Runs ==
    ASSUME NEW A, NEW base \in A, NEW m \in Nat, NEW step \in [1 .. m -> [A -> A]]
    PROVE  \E f \in [0 .. m -> A] : f = RunBy(f, base, step, m)
<1> DEFINE Ns == {n \in Nat : n <= m => \E f \in [0 .. n -> A] : f = RunBy(f, base, step, n)}
<1>1. 0 \in Ns
  <2> DEFINE f == [i \in 0 .. 0 |-> base]
  <2>1. f \in [0 .. 0 -> A] /\ f = RunBy(f, base, step, 0)
    BY DEF RunBy
  <2> QED BY <2>1
<1>2. ASSUME NEW n \in Nat, n \in Ns PROVE n + 1 \in Ns
  <2> SUFFICES ASSUME n + 1 <= m
               PROVE  \E f \in [0 .. n + 1 -> A] : f = RunBy(f, base, step, n + 1)
    OBVIOUS
  <2>1. PICK f \in [0 .. n -> A] : f = RunBy(f, base, step, n)
    BY <1>2
  <2> DEFINE g == [i \in 0 .. n + 1 |-> IF i <= n THEN f[i] ELSE step[n + 1][f[n]]]
             h == RunBy(g, base, step, n + 1)
  <2>2. step[n + 1] \in [A -> A] /\ f[n] \in A
    OBVIOUS
  <2>3. g \in [0 .. n + 1 -> A]
    BY <2>2
  <2>4. ASSUME NEW i \in 0 .. n + 1 PROVE g[i] = h[i]
    <3>1. h[i] = IF i = 0 THEN base ELSE step[i][g[i - 1]]
      BY DEF RunBy
    <3>2. CASE i <= n
      <4>1. RunBy(f, base, step, n)[i] = IF i = 0 THEN base ELSE step[i][f[i - 1]]
        BY <3>2 DEF RunBy
      <4>2. g[i] = f[i] /\ (i # 0 => g[i - 1] = f[i - 1])
        BY <3>2
      <4> QED BY <3>1, <4>1, <4>2, <2>1
    <3>3. CASE i = n + 1
      BY <3>1, <3>3
    <3> QED BY <3>2, <3>3
  <2>5. h = [i \in 0 .. n + 1 |-> h[i]] /\ g = [i \in 0 .. n + 1 |-> g[i]]
    BY DEF RunBy
  <2>6. g = h
    <3> HIDE DEF g, h
    <3> QED BY <2>4, <2>5
  <2> QED BY <2>3, <2>6
<1>3. m \in Ns
  <2> HIDE DEF Ns
  <2> QED BY <1>1, <1>2, Induct
<1> QED BY <1>3

\* Two functions that start alike and whose steps keep them alike are alike.
LEMMA Alike ==
    ASSUME NEW m \in Nat, NEW f, NEW g, f[0] = g[0],
           \A i \in 1 .. m : f[i - 1] = g[i - 1] => f[i] = g[i]
    PROVE  f[m] = g[m]
<1> DEFINE Ns == {n \in Nat : n <= m => f[n] = g[n]}
<1>1. 0 \in Ns
  OBVIOUS
<1>2. ASSUME NEW n \in Nat, n \in Ns PROVE n + 1 \in Ns
  <2> SUFFICES ASSUME n + 1 <= m PROVE f[n + 1] = g[n + 1]
    OBVIOUS
  <2>1. n + 1 \in 1 .. m /\ (n + 1) - 1 = n /\ f[n] = g[n]
    BY <1>2
  <2>2. f[(n + 1) - 1] = g[(n + 1) - 1] => f[n + 1] = g[n + 1]
    BY <2>1
  <2> QED BY <2>1, <2>2
<1>3. m \in Ns
  <2> HIDE DEF Ns
  <2> QED BY <1>1, <1>2, Induct
<1> QED BY <1>3

LEMMA AppendBehind ==
    ASSUME NEW S
    PROVE  \A x \in S : \A s, t \in Seq(S) : Append(s \o t, x) = s \o Append(t, x)
  OBVIOUS

LEMMA ConcatAssociates ==
    ASSUME NEW S
    PROVE  \A s, t, u \in Seq(S) : (s \o t) \o u = s \o (t \o u)
  OBVIOUS

--------------------------------------------------------------------------------
(* Among: the elements of a sequence that are in a set.                        *)

AmongBy(f, seq, set, n) ==
    [i \in 0 .. n |->
        IF i = 0 THEN <<>>
        ELSE IF seq[i] \in set THEN Append(f[i - 1], seq[i]) ELSE f[i - 1]]

LEMMA AmongExists ==
    ASSUME NEW S, NEW seq \in Seq(S), NEW set
    PROVE  \E f : f = AmongBy(f, seq, set, Len(seq))
<1> DEFINE m == Len(seq)
           step == [i \in 1 .. m |-> [a \in Seq(S) |->
                       IF seq[i] \in set THEN Append(a, seq[i]) ELSE a]]
<1>1. m \in Nat /\ <<>> \in Seq(S)
  OBVIOUS
<1>2. step \in [1 .. m -> [Seq(S) -> Seq(S)]]
  OBVIOUS
<1>3. \E f \in [0 .. m -> Seq(S)] : f = RunBy(f, <<>>, step, m)
  <2> HIDE DEF m, step
  <2> QED BY <1>1, <1>2, Runs, ZenonT(40)
<1>4. PICK f \in [0 .. m -> Seq(S)] : f = RunBy(f, <<>>, step, m)
  BY <1>3
<1> DEFINE h == AmongBy(f, seq, set, m)
<1>5. ASSUME NEW i \in 0 .. m PROVE f[i] = h[i]
  <2>1. f[i] = IF i = 0 THEN <<>> ELSE step[i][f[i - 1]]
    <3>1. f[i] = RunBy(f, <<>>, step, m)[i]
      BY <1>4
    <3> HIDE DEF step, m
    <3> QED BY <3>1 DEF RunBy
  <2>2. CASE i = 0
    BY <2>1, <2>2 DEF AmongBy
  <2>3. CASE i # 0
    <3>1. i \in 1 .. m /\ f[i - 1] \in Seq(S)
      BY <2>3
    <3>2. step[i][f[i - 1]] = IF seq[i] \in set THEN Append(f[i - 1], seq[i]) ELSE f[i - 1]
      BY <3>1
    <3> HIDE DEF step
    <3> QED BY <2>1, <2>3, <3>2 DEF AmongBy
  <2> QED BY <2>2, <2>3
<1>6. f = [i \in 0 .. m |-> f[i]] /\ h = [i \in 0 .. m |-> h[i]]
  BY DEF AmongBy
<1>7. f = h
  <2> HIDE DEF h, m
  <2> QED BY <1>5, <1>6
<1> QED BY <1>7

\* The elements so far, one after the other.
LEMMA AmongRun ==
    ASSUME NEW S, NEW seq \in Seq(S), NEW set
    PROVE  \E f : /\ Among(seq, set) = f[Len(seq)]
                  /\ f[0] = <<>>
                  /\ \A i \in 1 .. Len(seq) :
                         f[i] = IF seq[i] \in set THEN Append(f[i - 1], seq[i]) ELSE f[i - 1]
<1> DEFINE f == CHOOSE f : f = AmongBy(f, seq, set, Len(seq))
           h == AmongBy(f, seq, set, Len(seq))
<1>1. f = h
  BY AmongExists
<1>2. Among(seq, set) = f[Len(seq)]
  BY DEF Among, AmongBy
<1>3. h[0] = <<>> /\ \A i \in 1 .. Len(seq) :
                         h[i] = IF seq[i] \in set THEN Append(f[i - 1], seq[i]) ELSE f[i - 1]
  BY DEF AmongBy
<1> HIDE DEF f, h
<1> QED BY <1>1, <1>2, <1>3

LEMMA AmongEmpty ==
    ASSUME NEW set
    PROVE  Among(<<>>, set) = <<>>
<1>1. ASSUME NEW e \in Seq(set), Len(e) = 0 PROVE Among(e, set) = <<>>
  <2>1. PICK f : Among(e, set) = f[Len(e)] /\ f[0] = <<>>
    BY AmongRun
  <2> QED BY <1>1, <2>1
<1>2. <<>> \in Seq(set) /\ Len(<<>>) = 0
  OBVIOUS
<1> QED BY <1>1, <1>2, Zenon

LEMMA AmongAppend ==
    ASSUME NEW S, NEW seq \in Seq(S), NEW x \in S, NEW set
    PROVE  Among(Append(seq, x), set) =
               IF x \in set THEN Append(Among(seq, set), x) ELSE Among(seq, set)
<1> DEFINE m == Len(seq)
           long == Append(seq, x)
<1>1. PICK f : /\ Among(seq, set) = f[m]
               /\ f[0] = <<>>
               /\ \A i \in 1 .. m :
                      f[i] = IF seq[i] \in set THEN Append(f[i - 1], seq[i]) ELSE f[i - 1]
  BY AmongRun
<1>2. long \in Seq(S) /\ Len(long) = m + 1 /\ m \in Nat /\ long[m + 1] = x
  OBVIOUS
<1>3. PICK g : /\ Among(long, set) = g[m + 1]
               /\ g[0] = <<>>
               /\ \A i \in 1 .. m + 1 :
                      g[i] = IF long[i] \in set THEN Append(g[i - 1], long[i]) ELSE g[i - 1]
  <2> HIDE DEF long
  <2> QED BY <1>2, AmongRun
<1>4. \A i \in 1 .. m : long[i] = seq[i]
  OBVIOUS
<1>5. g[m + 1] = IF x \in set THEN Append(g[m], x) ELSE g[m]
  <2>1. m + 1 \in 1 .. m + 1 /\ (m + 1) - 1 = m
    BY <1>2
  <2> HIDE DEF long, m
  <2> QED BY <1>2, <1>3, <2>1
<1>6. \A i \in 1 .. m : g[i - 1] = f[i - 1] => g[i] = f[i]
  <2> SUFFICES ASSUME NEW i \in 1 .. m, g[i - 1] = f[i - 1] PROVE g[i] = f[i]
    OBVIOUS
  <2>1. i \in 1 .. m + 1 /\ long[i] = seq[i]
    BY <1>2, <1>4
  <2> HIDE DEF long, m
  <2> QED BY <1>1, <1>3, <2>1
<1>7. g[m] = f[m]
  <2> HIDE DEF long, m
  <2> QED BY <1>1, <1>2, <1>3, <1>6, Alike, SMTT(40)
<1> QED BY <1>1, <1>3, <1>5, <1>7

\* What is taken out is of the sequence and of the set.
LEMMA AmongType ==
    ASSUME NEW S, NEW seq \in Seq(S), NEW set
    PROVE  Among(seq, set) \in Seq(S \cap set) /\ Among(seq, set) \in Seq(S)
<1> DEFINE P == {s \in Seq(S) : Among(s, set) \in Seq(S \cap set)}
<1>1. <<>> \in P
  <2>1. <<>> \in Seq(S \cap set) /\ <<>> \in Seq(S)
    OBVIOUS
  <2> QED BY <2>1, AmongEmpty
<1>2. ASSUME NEW s \in Seq(S), NEW x \in S, s \in P PROVE Append(s, x) \in P
  <2>1. Among(Append(s, x), set) = IF x \in set THEN Append(Among(s, set), x) ELSE Among(s, set)
    BY AmongAppend
  <2>2. Among(s, set) \in Seq(S \cap set)
    BY <1>2
  <2>3. Append(s, x) \in Seq(S)
    OBVIOUS
  <2> QED BY <2>1, <2>2, <2>3, SMTT(40)
<1>3. Seq(S) \subseteq P
  <2> HIDE DEF P
  <2> QED BY <1>1, <1>2, SeqInduct
<1>4. Among(seq, set) \in Seq(S \cap set)
  BY <1>3
<1> QED BY <1>4, SeqMonotonic

\* What is taken out of two sequences, one behind the other.
LEMMA AmongConcat ==
    ASSUME NEW S, NEW seq \in Seq(S), NEW more \in Seq(S), NEW set
    PROVE  Among(seq \o more, set) = Among(seq, set) \o Among(more, set)
<1> DEFINE P == {s \in Seq(S) : Among(seq \o s, set) = Among(seq, set) \o Among(s, set)}
<1>0. Among(seq, set) \in Seq(S)
  BY AmongType
<1>1. <<>> \in P
  <2>1. <<>> \in Seq(S) /\ seq \o <<>> = seq /\ Among(seq, set) \o <<>> = Among(seq, set)
    BY <1>0
  <2> QED BY <2>1, AmongEmpty
<1>2. ASSUME NEW s \in Seq(S), NEW x \in S, s \in P PROVE Append(s, x) \in P
  <2>1. Among(Append(s, x), set) = IF x \in set THEN Append(Among(s, set), x) ELSE Among(s, set)
    BY AmongAppend
  <2>2. seq \o s \in Seq(S) /\ seq \o Append(s, x) = Append(seq \o s, x) /\ Append(s, x) \in Seq(S)
    OBVIOUS
  <2>3. Among(Append(seq \o s, x), set) =
            IF x \in set THEN Append(Among(seq \o s, set), x) ELSE Among(seq \o s, set)
    BY <2>2, AmongAppend
  <2>4. Among(seq \o s, set) = Among(seq, set) \o Among(s, set)
    BY <1>2
  <2>5. Among(s, set) \in Seq(S)
    BY AmongType
  <2>6. Append(Among(seq, set) \o Among(s, set), x) = Among(seq, set) \o Append(Among(s, set), x)
    <3>1. \A y \in S : \A t, u \in Seq(S) : Append(t \o u, y) = t \o Append(u, y)
      BY ONLY AppendBehind, Zenon
    <3> QED BY <1>0, <2>5, <3>1
  <2> QED BY <2>1, <2>2, <2>3, <2>4, <2>6
<1>3. Seq(S) \subseteq P
  <2> HIDE DEF P
  <2> QED BY <1>1, <1>2, SeqInduct
<1> QED BY <1>3

\* What is taken out of what was taken out.
LEMMA AmongTwice ==
    ASSUME NEW S, NEW seq \in Seq(S), NEW set, NEW wider, S \cap set \subseteq wider
    PROVE  Among(Among(seq, wider), set) = Among(seq, set)
<1> DEFINE P == {s \in Seq(S) : Among(Among(s, wider), set) = Among(s, set)}
<1>1. <<>> \in P
  <2>1. <<>> \in Seq(S)
    OBVIOUS
  <2> QED BY <2>1, AmongEmpty
<1>2. ASSUME NEW s \in Seq(S), NEW x \in S, s \in P PROVE Append(s, x) \in P
  <2>1. Among(Append(s, x), set) = IF x \in set THEN Append(Among(s, set), x) ELSE Among(s, set)
    BY AmongAppend
  <2>2. Among(Append(s, x), wider) = IF x \in wider THEN Append(Among(s, wider), x) ELSE Among(s, wider)
    BY AmongAppend
  <2>3. Among(s, wider) \in Seq(S)
    BY AmongType
  <2>4. Among(Append(Among(s, wider), x), set) =
            IF x \in set THEN Append(Among(Among(s, wider), set), x) ELSE Among(Among(s, wider), set)
    BY <2>3, AmongAppend
  <2>5. Among(Among(s, wider), set) = Among(s, set)
    BY <1>2
  <2>6. Append(s, x) \in Seq(S)
    OBVIOUS
  <2> QED BY <2>1, <2>2, <2>4, <2>5, <2>6
<1>3. Seq(S) \subseteq P
  <2> HIDE DEF P
  <2> QED BY <1>1, <1>2, SeqInduct
<1> QED BY <1>3

LEMMA AmongAll ==
    ASSUME NEW set, NEW seq \in Seq(set)
    PROVE  Among(seq, set) = seq
<1> DEFINE P == {s \in Seq(set) : Among(s, set) = s}
<1>1. <<>> \in P
  <2>1. <<>> \in Seq(set)
    OBVIOUS
  <2> QED BY <2>1, AmongEmpty
<1>2. ASSUME NEW s \in Seq(set), NEW x \in set, s \in P PROVE Append(s, x) \in P
  <2>1. Among(Append(s, x), set) = Append(Among(s, set), x)
    BY AmongAppend
  <2>2. Append(s, x) \in Seq(set)
    OBVIOUS
  <2> QED BY <1>2, <2>1, <2>2
<1>3. Seq(set) \subseteq P
  <2> HIDE DEF P
  <2> QED BY <1>1, <1>2, SeqInduct
<1> QED BY <1>3

LEMMA AmongNone ==
    ASSUME NEW S, NEW seq \in Seq(S), NEW set, S \cap set = {}
    PROVE  Among(seq, set) = <<>>
<1>1. Among(seq, set) \in Seq({})
  BY AmongType
<1> QED BY <1>1

--------------------------------------------------------------------------------
(* Where a sequence is cut.                                                    *)

LEMMA Cut ==
    ASSUME NEW S
    PROVE  \A s \in Seq(S) : \A n \in 0 .. Len(s) :
               /\ SubSeq(s, 1, n) \in Seq(S) /\ Len(SubSeq(s, 1, n)) = n
               /\ SubSeq(s, n + 1, Len(s)) \in Seq(S)
               /\ Len(SubSeq(s, n + 1, Len(s))) = Len(s) - n
               /\ s = SubSeq(s, 1, n) \o SubSeq(s, n + 1, Len(s))
<1> TAKE s \in Seq(S)
<1> TAKE n \in 0 .. Len(s)
<1>1. SubSeq(s, 1, n) \in Seq(S) /\ Len(SubSeq(s, 1, n)) = n
  OBVIOUS
<1>2. SubSeq(s, n + 1, Len(s)) \in Seq(S) /\ Len(SubSeq(s, n + 1, Len(s))) = Len(s) - n
  OBVIOUS
<1>3. s = SubSeq(s, 1, n) \o SubSeq(s, n + 1, Len(s))
  <2>1. 1 \in 1 .. Len(s) + 1 /\ n \in 1 - 1 .. Len(s) /\ Len(s) \in n .. Len(s)
    OBVIOUS
  <2>2. SubSeq(s, 1, n) \o SubSeq(s, n + 1, Len(s)) = SubSeq(s, 1, Len(s))
    BY ONLY <2>1, ConcatAdjacentSubSeq, Zenon
  <2>3. SubSeq(s, 1, Len(s)) = s
    OBVIOUS
  <2> QED BY <2>2, <2>3, Zenon
<1> QED BY <1>1, <1>2, <1>3

LEMMA Element ==
    ASSUME NEW S
    PROVE  \A s, t \in Seq(S) : \A i \in 1 .. Len(s) : (s \o t)[i] = s[i]
  OBVIOUS

\* What is in the set is kept.
LEMMA AmongKeeps ==
    ASSUME NEW S, NEW seq \in Seq(S), NEW set, NEW i \in 1 .. Len(seq), seq[i] \in set
    PROVE  \E j \in 1 .. Len(Among(seq, set)) : Among(seq, set)[j] = seq[i]
<1> DEFINE a == SubSeq(seq, 1, i - 1)
           b == SubSeq(seq, i + 1, Len(seq))
           x == seq[i]
<1>1. a \in Seq(S) /\ b \in Seq(S) /\ x \in S /\ x \in set /\ seq = Append(a, x) \o b
  <2>1. i \in 0 .. Len(seq)
    OBVIOUS
  <2>2. SubSeq(seq, 1, i) \in Seq(S) /\ b \in Seq(S) /\ seq = SubSeq(seq, 1, i) \o b
    BY <2>1, Cut
  <2>3. a \in Seq(S) /\ x \in S /\ SubSeq(seq, 1, i) = Append(a, x)
    OBVIOUS
  <2> QED BY <2>2, <2>3
<1> HIDE DEF a, b, x
<1>2. Among(Append(a, x), set) = Append(Among(a, set), x)
  <2>1. Among(Append(a, x), set) = IF x \in set THEN Append(Among(a, set), x) ELSE Among(a, set)
    BY <1>1, AmongAppend
  <2> QED BY <1>1, <2>1
<1>3. Append(a, x) \in Seq(S) /\ Among(a, set) \in Seq(S) /\ Among(b, set) \in Seq(S)
  <2>1. \A s \in Seq(S) : Among(s, set) \in Seq(S)
    BY AmongType
  <2> QED BY <1>1, <2>1
<1>4. Among(seq, set) = Append(Among(a, set), x) \o Among(b, set)
  <2>1. \A s, t \in Seq(S) : Among(s \o t, set) = Among(s, set) \o Among(t, set)
    BY AmongConcat
  <2>2. Among(Append(a, x) \o b, set) = Among(Append(a, x), set) \o Among(b, set)
    BY <1>1, <1>3, <2>1, Zenon
  <2> QED BY <1>1, <1>2, <2>2, Zenon
<1> DEFINE n == Len(Among(a, set)) + 1
<1>5. /\ n \in 1 .. Len(Append(Among(a, set), x) \o Among(b, set))
      /\ (Append(Among(a, set), x) \o Among(b, set))[n] = x
  <2> DEFINE s == Among(a, set)
             t == Among(b, set)
  <2>1. s \in Seq(S) /\ t \in Seq(S) /\ x \in S
    BY <1>1, <1>3
  <2> HIDE DEF s, t
  <2>2. Len(s) + 1 \in 1 .. Len(Append(s, x) \o t) /\ (Append(s, x) \o t)[Len(s) + 1] = x
    BY <2>1
  <2> QED BY <2>2 DEF s, t
<1> HIDE DEF n
<1> QED BY <1>4, <1>5, Zenon DEF x

LEMMA PrefixUnique ==
    ASSUME NEW S
    PROVE  \A a, b, x, y \in Seq(S) : Len(a) = Len(b) /\ a \o x = b \o y => a = b /\ x = y
<1> SUFFICES ASSUME NEW a \in Seq(S), NEW b \in Seq(S), NEW x \in Seq(S), NEW y \in Seq(S),
                    Len(a) = Len(b), a \o x = b \o y
             PROVE  a = b /\ x = y
  OBVIOUS
<1>1. a = b
  <2>1. ASSUME NEW i \in 1 .. Len(a) PROVE (a \o x)[i] = a[i]
    BY Element, Zenon
  <2>2. ASSUME NEW i \in 1 .. Len(b) PROVE (b \o y)[i] = b[i]
    BY Element, Zenon
  <2>3. \A i \in 1 .. Len(a) : a[i] = b[i]
    BY <2>1, <2>2, Zenon
  <2> QED BY <2>3, SeqEqual
<1>2. a \o x = a \o y
  BY <1>1, Zenon
<1>3. x = y
  BY <1>2, ConcatSimplifications, Zenon
<1> QED BY <1>1, <1>3
================================================================================
