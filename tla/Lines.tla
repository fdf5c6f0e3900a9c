------------------------------- MODULE Lines -------------------------------
(***************************************************************************)
(* How memory.rs reads a file of lines: from the first to the last, it     *)
(* keeps those it understands and skips the others.                        *)
(***************************************************************************)
EXTENDS Integers, Sequences

\* The loop over text.lines(): the elements of s with a number in K, in their order.
Select(s, K) ==
  LET F[n \in 0..Len(s)] ==
        IF n = 0 THEN <<>> ELSE IF n \in K THEN Append(F[n - 1], s[n]) ELSE F[n - 1]
  IN  F[Len(s)]
=============================================================================
