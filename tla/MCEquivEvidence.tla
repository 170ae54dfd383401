-------------------------- MODULE MCEquivEvidence --------------------------
(***************************************************************************)
(* One program with two lifted functions, a decompiled and a binary pair;  *)
(* two contents an artifact may have, one body that is no faithful lift,   *)
(* one that Z3 cannot decide and one that is not there.                    *)
(***************************************************************************)
EXTENDS EquivEvidence, TLC

CONSTANTS p, l1, l2, t, r, h1, h2, bad, odd, gone

MCOwner == [n \in Pairs |-> p]
MCKind == l1 :> "lift" @@ l2 :> "lift" @@ t :> "tree" @@ r :> "rel"
MCPath == l1 :> "f" @@ l2 :> "g" @@ t :> "f" @@ r :> "f"
MCOutcomes == l1 :> {h1, h2, gone} @@ l2 :> {h1, bad} @@ t :> {h1, h2, bad} @@ r :> {h1, bad, odd}
MCAnswer == h1 :> "yes" @@ h2 :> "yes" @@ bad :> "no" @@ odd :> "unknown" @@ gone :> "gone"
=============================================================================
