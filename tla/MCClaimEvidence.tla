-------------------------- MODULE MCClaimEvidence --------------------------
(***************************************************************************)
(* Instances of ClaimEvidence for TLC: a three-bit integer type, one or    *)
(* two functions, and a few bodies and predicates around the interesting   *)
(* bounds.  What the users of a history do is its policy.                  *)
(***************************************************************************)
EXTENDS ClaimEvidence, TLC

CONSTANTS f, g

Const(k) == [form |-> "const", n |-> k, callee |-> None]
StepBy(k) == [form |-> "step", n |-> k, callee |-> None]
CallOf(h, k) == [form |-> "call", n |-> k, callee |-> h]

AtLeast(k) == [scope |-> "return", lo |-> k, hi |-> 5]
Param(k) == [scope |-> "param", lo |-> k, hi |-> 3]

MCMinInt == -4
MCMaxInt == 3
MCSmtInts == -6 .. 5

\* A leaf that is edited and a caller of it; no sum leaves the type.
MCBodies == f :> {StepBy(0), CallOf(g, 0)} @@ g :> {Const(2), Const(-2)}
MCPreds == {AtLeast(1), AtLeast(-1), Param(1)}
MCPolicies == {{"edit", "vain"}, {"edit", "lose"}, {"axiom", "relax"}, {"upgrade"}, {"cite"}}

\* An edit of the body, then relax and prove again, claim by claim.
MCLeafBodies == f :> {Const(2), Const(-2)}
MCRepairPolicies == {{"edit", "relax"}}
=============================================================================
