------------------------------- MODULE Filters -------------------------------
(* filter of arrays. It is written out as a recursive function, and not with  *)
(* SelectSeq, because the provers know nothing of that one.                   *)
EXTENDS Integers, Sequences

\* The elements of seq that are in S, in their order.
Kept(seq, S) ==
    LET kept[i \in 0..Len(seq)] ==
            IF i = 0 THEN << >>
            ELSE IF seq[i] \in S THEN Append(kept[i - 1], seq[i])
            ELSE kept[i - 1]
    IN  kept[Len(seq)]
=============================================================================
