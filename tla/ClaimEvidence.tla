--------------------------- MODULE ClaimEvidence ---------------------------
(***************************************************************************)
(* Claims on functions and the evidence kept for them: `quod claim add`,   *)
(* `claim relax`, `claim prove` and `claim verify`, interleaved with edits *)
(* of the functions, upgrades of quod and losses of artifact files.        *)
(*                                                                         *)
(* Each command holds the program lock from load to save, and ProgramStore *)
(* shows that such a command is atomic, so each is one action here, except *)
(* for `claim prove`: it writes an artifact first and saves the program    *)
(* afterwards, and may die in between.                                     *)
(*                                                                         *)
(* A function takes one parameter x and returns an integer.  An SMT        *)
(* problem is the record of everything goal_smt_lib prints, and a sha256   *)
(* of it is the problem itself.  Z3 is the definition of `unsat`, with the *)
(* integers it may choose from cut to SmtInts.  What the compiled function *)
(* does is Returned, in two's complement on MinInt .. MaxInt.              *)
(***************************************************************************)
EXTENDS Integers, Sequences, FiniteSets, SequencesExt

CONSTANTS
    Fns,            \* the functions of the program
    Bodies,         \* Bodies[f]: the bodies an edit may give f
    Preds,          \* the predicates users ask for
    Versions,       \* builds of quod, Dirty among them
    Dirty,          \* a checkout with no identifiable version
    MinInt, MaxInt, \* the range of the parameter and the return type
    SmtInts,        \* the integers Z3 may take an unknown call result from
    Policies,       \* what the users of one history do besides add and prove
    MaxClaims,      \* bound: claims on one function
    MaxFiles,       \* bound: artifacts on the disk at once
    MaxLost,        \* bound: artifacts lost in one history
    MaxCited,       \* bound: claims somebody added by hand other than as axioms
    None            \* no callee, no evidence, no stamp, no proof under way

ASSUME EvidenceAssumption ==
    /\ IsFiniteSet(Fns)
    /\ MinInt \in Int /\ MaxInt \in Int /\ MinInt <= 0 /\ 0 <= MaxInt
    /\ MinInt .. MaxInt \subseteq SmtInts
    /\ Dirty \in Versions
    /\ None \notin Versions
    /\ {MaxClaims, MaxFiles, MaxLost, MaxCited} \subseteq Nat

VARIABLES
    body,       \* body[f]: its current body
    claims,     \* claims[f]: its stored claims, oldest first; `asserted` in a
                \* claim is history: claim add stored it, not claim prove
    proving,    \* the proof whose artifact is written and whose claim is not
    disk,       \* the .smt2 artifacts under proofs/
    lost,       \* artifacts somebody deleted or damaged (history)
    stamp,      \* Program.quod_version
    running,    \* the quod that would run now
    policy      \* what this history's users do

vars == <<body, claims, proving, disk, lost, stamp, running, policy>>

Universe == MinInt .. MaxInt

\* LLVM's add: no nsw flag, so the sum wraps.
Wrap(v) == ((v - MinInt) % (MaxInt - MinInt + 1)) + MinInt

-----------------------------------------------------------------------------
\* predicate_to_smt: a bound on the parameter, a bound on the result, or
\* (`claim add --predicate`) a result no smaller than the parameter.
Holds(p, x, r) ==
    CASE p.scope = "param" -> p.lo <= x /\ x <= p.hi
      [] p.scope = "return" -> p.lo <= r /\ r <= p.hi
      [] p.scope = "relative" -> r >= x

UsesReturn(p) == p.scope # "param"

\* What a body gives back on x, given what its callees do: nothing when it does
\* not return.
Result(b, x, calls) ==
    CASE b.form = "const" -> {b.n}
      [] b.form = "step" -> {IF x < 0 THEN -1 ELSE Wrap(x + b.n)}
      [] b.form = "call" -> calls[b.callee][Wrap(x + b.n)]

\* What the functions of a compiled program give back: run[d] in runs at most
\* d - 1 calls deep.  One that goes deeper than there are functions never returns.
Runs(program) ==
    LET run[d \in 0 .. Cardinality(Fns)] ==
            IF d = 0 THEN [f \in Fns |-> [x \in Universe |-> {}]]
            ELSE [f \in Fns |-> [x \in Universe |-> Result(program[f], x, run[d - 1])]]
    IN  run

Returned(f, x) == Runs(body)[Cardinality(Fns)][f][x]

\* The result terms Z3 considers: exact integers, or for a call any integer
\* that satisfies the callee's return claims.  Those are asserted as they
\* are written, so their x is read as the x of the caller.
SmtReturns(problem, x) ==
    LET b == problem.body IN
    CASE b.form = "const" -> {b.n}
      [] b.form = "step" -> {IF x < 0 THEN -1 ELSE x + b.n}
      [] b.form = "call" -> {r \in SmtInts : \A c \in problem.facts : Holds(c, x, r)}

\* `unsat`: no input in the type's universe satisfies the hypotheses and not
\* the goal.
Unsat(problem) ==
    \A x \in Universe : \A r \in SmtReturns(problem, x) :
        (\A i \in DOMAIN problem.hyps : Holds(problem.hyps[i], x, r))
            => Holds(problem.goal, x, r)

-----------------------------------------------------------------------------
PredsOf(cs) == [i \in DOMAIN cs |-> cs[i].pred]

\* Mutant: the claim is a hypothesis of its own re-check.
OthersAndItself(f, i) == claims[f]

\* The claims of f without the one under verification.
Others(f, i) == RemoveAt(claims[f], i)

\* _build_fn_return_claims_index, for the one call a body makes.
CalleeFacts(b) ==
    IF b.form # "call" THEN {}
    ELSE {p \in {claims[b.callee][i].pred : i \in DOMAIN claims[b.callee]} :
            UsesReturn(p)}

\* goal_smt_lib: the text of the problem, for a goal under some hypotheses.  Of
\* the goal it prints the regime, too; of a hypothesis the predicate only.
Problem(f, goal, regime, hyps) ==
    [fn |-> f, body |-> body[f], goal |-> goal, regime |-> regime,
     hyps |-> PredsOf(hyps), facts |-> CalleeFacts(body[f])]

\* A manual or derived justification, and one by Z3: the file (its path and
\* artifact_hash) and the problem that body_smt_hash is the hash of.
Signed == [kind |-> "signed"]
ByZ3(file, problem) == [kind |-> "z3", file |-> file, body |-> problem]

\* What claim verify looks at: every claim that has a justification.
Pinned == {c \in UNION {{claims[f][i] : i \in DOMAIN claims[f]} : f \in Fns} :
                c.evidence # None}

\* check_program_version: pins need a stamp, and the stamp is the running quod.
VersionOk == \/ Pinned = {}
             \/ stamp # None /\ stamp # Dirty /\ stamp = running

\* Mutant: the artifact is checked, not that it is still about this body.
ClaimOkDrifted(f, i) == LET e == claims[f][i].evidence IN
                        e.kind = "z3" => e.file \in disk /\ Unsat(e.file)

\* _verify_justification, in its order: body drift, file, tamper, Z3 again.  That
\* the two hashes are of one text is not looked at.
ClaimOk(f, i) == LET c == claims[f][i] IN
                 c.evidence.kind = "z3" =>
                     /\ c.evidence.body = Problem(f, c.pred, c.regime, Others(f, i))
                     /\ c.evidence.file \in disk
                     /\ Unsat(c.evidence.file)

\* `quod claim verify` exits 0.
VerifyPasses ==
    /\ VersionOk
    /\ \A f \in Fns : \A i \in DOMAIN claims[f] :
          claims[f][i].evidence # None => ClaimOk(f, i)

-----------------------------------------------------------------------------
Init ==
    /\ body \in {b \in [Fns -> UNION {Bodies[f] : f \in Fns}] :
                    \A f \in Fns : b[f] \in Bodies[f]}
    /\ claims = [f \in Fns |-> <<>>]
    /\ proving = None
    /\ disk = {}
    /\ lost = {}
    /\ stamp = None
    /\ running \in Versions
    /\ policy \in Policies

HasPred(f, p) == \E i \in DOMAIN claims[f] : claims[f][i].pred = p

\* Mutant: the predicates already there are not looked at.
AddClaimAgain(f, c) ==
    /\ Len(claims[f]) < MaxClaims
    /\ claims' = [claims EXCEPT ![f] = Append(@, c)]

\* add_claim refuses a predicate the function already carries.
AddClaim(f, c) ==
    /\ ~HasPred(f, c.pred)
    /\ Len(claims[f]) < MaxClaims
    /\ claims' = [claims EXCEPT ![f] = Append(@, c)]

\* The file is named after the function and the hash: one file per problem.
WriteArtifact(problem) == /\ disk' = disk \cup {problem}
                          /\ Cardinality(disk') <= MaxFiles

\* What `claim add --justification` may cite: a signature, or any artifact and
\* any problem somebody has seen.  A file need only exist when its hash is left
\* out, so one that is lost, or was never written, can be cited by its hash.
Citations(f, p, regime) ==
    LET seen == disk \cup lost \cup {Problem(f, p, regime, claims[f])}
    IN  {None, Signed} \cup {ByZ3(file, problem) : file \in seen, problem \in seen}

\* The claims added by hand that are not axioms without a justification.
Cited(f) == {i \in DOMAIN claims[f] :
                /\ claims[f][i].asserted
                /\ claims[f][i].regime = "witness" \/ claims[f][i].evidence # None}

\* `claim add`: an axiom without a justification, or whatever --regime and
\* --justification say; nothing is checked.
ClaimAdd(f, p) ==
    /\ proving = None
    /\ \E regime \in {"axiom", "witness"} : \E e \in Citations(f, p, regime) :
          /\ \/ regime = "axiom" /\ e = None /\ "axiom" \in policy
             \/ /\ regime = "witness" \/ e # None
                /\ "cite" \in policy
                /\ \A g \in Fns : Cardinality(Cited(g)) < MaxCited
          /\ AddClaim(f, [pred |-> p, regime |-> regime, evidence |-> e, asserted |-> TRUE])
    /\ UNCHANGED <<body, proving, disk, lost, stamp, running, policy>>

\* `claim relax`: drop the claim with this predicate, whatever rests on it.
ClaimRelax(f, p) ==
    /\ proving = None
    /\ \E i \in DOMAIN claims[f] :
          /\ claims[f][i].pred = p
          /\ (IF claims[f][i].asserted THEN "retract" ELSE "relax") \in policy
          /\ claims' = [claims EXCEPT ![f] = RemoveAt(@, i)]
    /\ UNCHANGED <<body, proving, disk, lost, stamp, running, policy>>

\* What `claim prove` stores: both hashes are of the text Z3 was given.
ProvedClaim(p, problem) ==
    [pred |-> p, regime |-> "witness", evidence |-> ByZ3(problem, problem), asserted |-> FALSE]

\* Mutant: the claim is saved before its artifact is written.
ProveSavesFirst(f, p) ==
    LET problem == Problem(f, p, "witness", claims[f]) IN
    /\ proving = None
    /\ Unsat(problem)
    /\ AddClaim(f, ProvedClaim(p, problem))
    /\ stamp' = running
    /\ UNCHANGED <<body, proving, disk, lost, running, policy>>

\* `claim prove`, up to the artifact: every stored claim of f is a hypothesis,
\* whatever its regime and whether or not it still verifies.  The file is there
\* whatever Z3 said; on sat and unknown the command ends.
ProveWrites(f, p) ==
    LET problem == Problem(f, p, "witness", claims[f]) IN
    /\ proving = None
    /\ (Unsat(problem) /\ ~HasPred(f, p)) \/ "vain" \in policy
    /\ WriteArtifact(problem)
    /\ proving' = IF Unsat(problem) THEN [fn |-> f, pred |-> p, problem |-> problem] ELSE None
    /\ UNCHANGED <<body, claims, lost, stamp, running, policy>>

\* ... and from there on: the claim is stored and the whole program stamped.
ProveSaves ==
    /\ proving # None
    /\ AddClaim(proving.fn, ProvedClaim(proving.pred, proving.problem))
    /\ stamp' = running
    /\ proving' = None
    /\ UNCHANGED <<body, disk, lost, running, policy>>

\* The predicate is already there, or the command is killed: the file stays,
\* the program does not change.
ProveDies ==
    /\ proving # None
    /\ "vain" \in policy
    /\ proving' = None
    /\ UNCHANGED <<body, claims, disk, lost, stamp, running, policy>>

\* `fn` and `stmt` commands: the claims of the function stay as they are.
EditBody(f, b) ==
    /\ proving = None
    /\ "edit" \in policy
    /\ body' = [body EXCEPT ![f] = b]
    /\ UNCHANGED <<claims, proving, disk, lost, stamp, running, policy>>

\* git clean, a merge, an editor: no lock keeps them out.
LoseArtifact(a) ==
    /\ "lose" \in policy
    /\ disk' = disk \ {a}
    /\ lost' = lost \cup {a}
    /\ Cardinality(lost') <= MaxLost
    /\ UNCHANGED <<body, claims, proving, stamp, running, policy>>

\* Another build of quod is checked out.
Upgrade(v) ==
    /\ "upgrade" \in policy
    /\ running' = v
    /\ UNCHANGED <<body, claims, proving, disk, lost, stamp, policy>>

Next ==
    \/ \E f \in Fns, p \in Preds :
          ClaimAdd(f, p) \/ ClaimRelax(f, p) \/ ProveWrites(f, p)
    \/ ProveSaves
    \/ ProveDies
    \/ \E f \in Fns : \E b \in Bodies[f] : EditBody(f, b)
    \/ \E a \in disk : LoseArtifact(a)
    \/ \E v \in Versions : Upgrade(v)

Spec == Init /\ [][Next]_vars

-----------------------------------------------------------------------------
\* A claim list carries each predicate once, and what claim prove stored has its
\* evidence: justifications.py:25, both hashes are "sha256 of the same bytes".
TypeOK ==
    /\ \A f \in Fns : body[f] \in Bodies[f]
    /\ stamp \in Versions \cup {None}
    /\ running \in Versions
    /\ \A f \in Fns :
          /\ Len(claims[f]) <= MaxClaims
          /\ \A i, j \in DOMAIN claims[f] :
                claims[f][i].pred = claims[f][j].pred => i = j
          /\ \A i \in DOMAIN claims[f] :
                LET c == claims[f][i] IN
                ~c.asserted => c = ProvedClaim(c.pred, c.evidence.file)

\* The inputs f is meant to be called with.
Inputs(f) == {x \in Universe :
                \A i \in DOMAIN claims[f] :
                    LET c == claims[f][i] IN
                    c.asserted /\ c.pred.scope = "param" => Holds(c.pred, x, 0)}

True(f, p) == \A x \in Inputs(f) : \A r \in Returned(f, x) : Holds(p, x, r)

\* What the users added by hand, under whichever regime, is so, at every call too.
AssertionsHold ==
    \A f \in Fns :
        /\ \A i \in DOMAIN claims[f] :
              claims[f][i].asserted => True(f, claims[f][i].pred)
        /\ body[f].form = "call" =>
              \A x \in Inputs(f) : Wrap(x + body[f].n) \in Inputs(body[f].callee)

\* README.md:90, GUIDE.md:35: a witness is proven.  When `claim verify` passes
\* and what the users added by hand is true, every claim that `claim prove` stored
\* is true of the compiled function (it is lowered to llvm.assume, so a false one
\* is undefined behaviour).  A witness added by hand is taken at the user's word:
\* without a justification claim verify skips it (cli/claim.py:416).
VerifiedProgramIsSound ==
    VerifyPasses /\ AssertionsHold =>
        \A f \in Fns : \A i \in DOMAIN claims[f] :
            ~claims[f][i].asserted => True(f, claims[f][i].pred)

\* The newest claim of f is one claim prove stored, and verifies, unless its
\* artifact was taken away since it was written.
LastVerifies(f) == LET i == Len(claims[f]) IN
                   ~claims[f][i].asserted =>
                       ClaimOk(f, i) \/ claims[f][i].evidence.file \in lost

\* test_claim_verify_body_drift.py:73, "prove + immediately verify: both hashes
\* match, verify passes": the claim a command has just proved passes verification.
FreshProofVerifies ==
    [][\A f \in Fns : Len(claims'[f]) > Len(claims[f]) => LastVerifies(f)']_vars

\* A proved claim has its artifact beside the program unless somebody took it
\* away: a `claim prove` that fails or dies on the way pins nothing.
PinsHaveArtifacts == \A c \in Pinned : ~c.asserted => c.evidence.file \in disk \cup lost
=============================================================================
