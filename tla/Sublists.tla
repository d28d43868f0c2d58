------------------------------- MODULE Sublists -------------------------------
(***************************************************************************)
(* The elements of a sequence that are in a set, in their order: SelectSeq *)
(* for a set, by a recursive function, which can be reasoned about.        *)
(***************************************************************************)
EXTENDS Naturals, Sequences

OnlyIn(seq, S) ==
    LET upto[n \in 0 .. Len(seq)] ==
            IF n = 0 THEN <<>> ELSE IF seq[n] \in S THEN Append(upto[n - 1], seq[n]) ELSE upto[n - 1]
    IN upto[Len(seq)]
===============================================================================
