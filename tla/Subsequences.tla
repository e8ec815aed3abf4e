------------------------------ MODULE Subsequences ------------------------------
(***************************************************************************)
(* The elements of a sequence that are in a set: messages of one player in *)
(* a queue, for instance.  It is what SelectSeq gives, as a function that  *)
(* goes through the sequence, which can be reasoned about.                 *)
(***************************************************************************)
EXTENDS Naturals, Sequences

Among(seq, set) ==
    LET among[n \in 0 .. Len(seq)] ==
            IF n = 0 THEN <<>>
            ELSE IF seq[n] \in set THEN Append(among[n - 1], seq[n]) ELSE among[n - 1]
    IN  among[Len(seq)]
===============================================================================
