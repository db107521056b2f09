---------------------------- MODULE Subsequences ----------------------------
(***************************************************************************)
(* The elements of a sequence at chosen indices, in their order: what      *)
(* SelectSeq gives for a test, here for a set of indices, which a proof    *)
(* can reason about.                                                       *)
(***************************************************************************)
EXTENDS Naturals, Sequences

\* For every n, what is picked from the first n elements
Taken(s, I) ==
    LET taken[n \in 0 .. Len(s)] ==
            IF n = 0 THEN <<>>
            ELSE IF n \in I THEN Append(taken[n - 1], s[n])
            ELSE taken[n - 1]
    IN  taken

Picked(s, I) == Taken(s, I)[Len(s)]
=============================================================================
