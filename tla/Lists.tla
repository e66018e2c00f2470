------------------------------- MODULE Lists -------------------------------
(***************************************************************************)
(* What a query makes of the rows of a table.                              *)
(***************************************************************************)
EXTENDS Naturals, Sequences

\* The members of s that are in S, in the order they have in s.
Within(s, S) ==
    LET within[n \in 0..Len(s)] ==
            IF n = 0 THEN << >>
            ELSE IF s[n] \in S THEN Append(within[n - 1], s[n]) ELSE within[n - 1]
    IN  within[Len(s)]
============================================================================
