---------------------------- MODULE Subsequence ----------------------------
(***************************************************************************)
(* The part of a sequence that lies in a set.  It is SelectSeq with a set  *)
(* for the test, written as a recursive function so that what it computes  *)
(* can be proved (RecursionProofs).                                        *)
(***************************************************************************)
EXTENDS Naturals, Sequences

Only(s, S) ==
    LET f[i \in 0..Len(s)] ==
          IF i = 0 THEN << >>
          ELSE IF s[i] \in S THEN Append(f[i - 1], s[i]) ELSE f[i - 1]
    IN  f[Len(s)]
=============================================================================
