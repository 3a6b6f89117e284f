----------------------------- MODULE Subsequences -----------------------------
(***************************************************************************)
(* What std::erase_if and LINQ's Where make of a list.                     *)
(***************************************************************************)
EXTENDS Naturals, Sequences

\* The elements of s that are in T, in the order of s.
Among(s, T) ==
    LET taken[n \in 0..Len(s)] ==
            IF n = 0 THEN <<>>
            ELSE IF s[n] \in T THEN Append(taken[n - 1], s[n]) ELSE taken[n - 1] IN
    taken[Len(s)]

=============================================================================
