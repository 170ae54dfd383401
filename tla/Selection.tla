----------------------------- MODULE Selection -----------------------------
(***************************************************************************)
(* What SelectSeq does, as a function of a set: the filters of the models  *)
(* that are proved about, since provers cannot look inside SelectSeq.      *)
(***************************************************************************)
EXTENDS Naturals, Sequences

\* The elements of s that are in S, in their order.
Only(s, S) ==
  LET upTo[k \in 0 .. Len(s)] ==
        IF k = 0 THEN << >>
        ELSE IF s[k] \in S THEN Append(upTo[k - 1], s[k]) ELSE upTo[k - 1]
  IN  upTo[Len(s)]
=============================================================================
