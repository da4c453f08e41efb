---------------------------- MODULE Subsequences ----------------------------
(***************************************************************************)
(* The part of a sequence that is at a set of positions, in its order, and *)
(* its reversal.                                                           *)
(***************************************************************************)
EXTENDS Integers, Sequences

Subsequence(s, K) ==
  LET upto[n \in 0 .. Len(s)] ==
        IF n = 0 THEN <<>>
        ELSE IF n \in K THEN Append(upto[n - 1], s[n]) ELSE upto[n - 1]
  IN  upto[Len(s)]

(* The same elements from the last to the first.                           *)
Backward(s) == [k \in 1 .. Len(s) |-> s[Len(s) + 1 - k]]
=============================================================================
