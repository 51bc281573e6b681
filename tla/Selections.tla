----------------------------- MODULE Selections -----------------------------
(***************************************************************************)
(* The part of a sequence that passes a test, like SelectSeq, as a loop    *)
(* over the positions.                                                     *)
(***************************************************************************)
EXTENDS Integers, Sequences

\* The elements of s at the positions I.
PickSeq(s, I) ==
    LET upto[i \in 0 .. Len(s)] == IF i = 0 THEN <<>>
                                   ELSE IF i \in I THEN Append(upto[i - 1], s[i])
                                   ELSE upto[i - 1]
    IN upto[Len(s)]

Select(s, Test(_)) == PickSeq(s, {i \in DOMAIN s : Test(s[i])})
=============================================================================
