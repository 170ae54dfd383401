------------------------- MODULE ClaimEvidenceProofs -------------------------
(***************************************************************************)
(* Theorems about ClaimEvidence, for every program, history and range of   *)
(* integers.                                                               *)
(***************************************************************************)
EXTENDS ClaimEvidence, NatRecursion, SequenceTheorems, FiniteSetTheorems, TLAPS

-----------------------------------------------------------------------------
(* `claim relax` takes one claim out of the list: what is left was there.   *)
LEMMA RemoveAtIsASelection ==
    ASSUME NEW S, NEW s \in Seq(S), NEW i \in 1 .. Len(s)
    PROVE  /\ RemoveAt(s, i) \in Seq(S)
           /\ Len(RemoveAt(s, i)) = Len(s) - 1
           /\ \A k \in 1 .. Len(s) - 1 :
                 RemoveAt(s, i)[k] = s[IF k < i THEN k ELSE k + 1]
  <1> DEFINE u == SubSeq(s, 1, i - 1)
             v == SubSeq(s, i + 1, Len(s))
  <1>1. Len(s) \in Nat /\ \A j \in 1 .. Len(s) : s[j] \in S
    BY ElementOfSeq
  <1>2. /\ u \in Seq(S) /\ Len(u) = IF 1 <= i - 1 THEN i - 1 - 1 + 1 ELSE 0
        /\ \A k \in 1 .. i - 1 - 1 + 1 : u[k] = s[1 + k - 1]
    <2>1. \A j \in 1 .. i - 1 : s[j] \in S
      BY <1>1
    <2> QED
      BY <2>1, SubSeqProperties
  <1>3. /\ v \in Seq(S)
        /\ Len(v) = IF i + 1 <= Len(s) THEN Len(s) - (i + 1) + 1 ELSE 0
        /\ \A k \in 1 .. Len(s) - (i + 1) + 1 : v[k] = s[i + 1 + k - 1]
    <2>1. \A j \in i + 1 .. Len(s) : s[j] \in S
      BY <1>1
    <2> QED
      BY <1>1, <2>1, SubSeqProperties
  <1> HIDE DEF u, v
  <1>4. Len(u) = i - 1 /\ Len(v) = Len(s) - i
    BY <1>1, <1>2, <1>3
  <1>5. /\ u \o v \in Seq(S)
        /\ Len(u \o v) = Len(u) + Len(v)
        /\ \A k \in 1 .. Len(u) + Len(v) :
              (u \o v)[k] = IF k <= Len(u) THEN u[k] ELSE v[k - Len(u)]
    BY <1>2, <1>3, ConcatProperties
  <1>6. ASSUME NEW k \in 1 .. Len(s) - 1
        PROVE  (u \o v)[k] = s[IF k < i THEN k ELSE k + 1]
    <2>1. CASE k < i
      <3>1. (u \o v)[k] = u[k]
        BY <1>1, <1>4, <1>5, <2>1
      <3>2. k \in 1 .. i - 1 - 1 + 1 /\ 1 + k - 1 = k
        BY <1>1, <2>1
      <3> QED
        BY <3>1, <3>2, <1>2, <2>1
    <2>2. CASE ~(k < i)
      <3>1. (u \o v)[k] = v[k - (i - 1)]
        BY <1>1, <1>4, <1>5, <2>2
      <3>2. /\ k - (i - 1) \in 1 .. Len(s) - (i + 1) + 1
            /\ i + 1 + (k - (i - 1)) - 1 = k + 1
        BY <1>1, <2>2
      <3> QED
        BY <3>1, <3>2, <1>3, <2>2
    <2> QED
      BY <2>1, <2>2
  <1>7. RemoveAt(s, i) = u \o v
    BY DEF RemoveAt, u, v
  <1>8. Len(u \o v) = Len(s) - 1
    BY <1>1, <1>4, <1>5
  <1> QED
    BY <1>5, <1>6, <1>7, <1>8, Zenon

(* Without its newest claim the list is what it was before `claim prove`:   *)
(* verification rebuilds the problem from the claims the prover saw.        *)
LEMMA RemoveAtLast ==
    ASSUME NEW S, NEW s \in Seq(S), NEW e \in S
    PROVE  RemoveAt(Append(s, e), Len(Append(s, e))) = s
  <1> DEFINE a == Append(s, e)
  <1>1. /\ a \in Seq(S) /\ Len(a) = Len(s) + 1 /\ Len(s) \in Nat
        /\ \A k \in 1 .. Len(s) : a[k] = s[k]
    BY AppendProperties, LenProperties
  <1>2. /\ SubSeq(a, 1, Len(s)) \in Seq(S)
        /\ Len(SubSeq(a, 1, Len(s))) = Len(s)
        /\ \A k \in 1 .. Len(s) : SubSeq(a, 1, Len(s))[k] = s[k]
    <2> HIDE DEF a
    <2>1. \A k \in 1 .. Len(s) : a[k] \in S
      BY <1>1, ElementOfSeq
    <2> DEFINE u == SubSeq(a, 1, Len(s))
    <2>2. /\ u \in Seq(S)
          /\ Len(u) = IF 1 <= Len(s) THEN Len(s) - 1 + 1 ELSE 0
          /\ \A k \in 1 .. Len(s) - 1 + 1 : u[k] = a[1 + k - 1]
      BY <1>1, <2>1, SubSeqProperties
    <2> HIDE DEF u
    <2>3. u \in Seq(S) /\ Len(u) = Len(s)
      BY <1>1, <2>2
    <2>4. ASSUME NEW k \in 1 .. Len(s)
          PROVE  u[k] = s[k]
      <3>1. k \in 1 .. Len(s) - 1 + 1 /\ 1 + k - 1 = k
        BY <1>1
      <3> QED
        BY <1>1, <2>2, <3>1
    <2> QED
      BY <2>3, <2>4 DEF u
  <1>3. SubSeq(a, Len(a) + 1, Len(a)) = << >>
    BY <1>1, SubSeqEmpty
  <1>4. SubSeq(a, 1, Len(a) - 1) = s
    <2>1. Len(a) - 1 = Len(s)
      BY <1>1
    <2> QED
      BY <2>1, <1>2, SeqEqual
  <1> QED
    BY <1>3, <1>4, ConcatEmptySeq DEF RemoveAt

-----------------------------------------------------------------------------
AnyBody == UNION {Bodies[f] : f \in Fns}

Regimes == {"axiom", "witness"}

Problems == [fn : Fns, body : AnyBody, goal : Preds, regime : Regimes,
             hyps : Seq(Preds), facts : SUBSET Preds]

Evidence == {Signed} \cup {ByZ3(file, problem) : file \in Problems, problem \in Problems}

Claims == [pred : Preds, regime : Regimes, evidence : Evidence \cup {None},
           asserted : BOOLEAN]

(* The inductive strengthening: what is stored has its shape, and a body    *)
(* belongs to its function, so that whom a function may call is known.      *)
Shape ==
    /\ body \in [Fns -> AnyBody]
    /\ \A f \in Fns : body[f] \in Bodies[f]
    /\ claims \in [Fns -> Seq(Claims)]
    /\ proving \in [fn : Fns, pred : Preds, problem : Problems] \cup {None}
    /\ disk \subseteq Problems /\ lost \subseteq Problems
    /\ running \in Versions

(* The lock at work: while a proof waits to be saved, the problem it is of  *)
(* stays the one the stored program would give.                             *)
InProgress ==
    proving # None =>
        /\ proving.problem = Problem(proving.fn, proving.pred, "witness", claims[proving.fn])
        /\ Unsat(proving.problem)
        /\ proving.problem \in disk \cup lost

(* A body that calls, calls a function of the program (program validation). *)
CallsAreResolved ==
    \A f \in Fns : \A b \in Bodies[f] : b.form = "call" => b.callee \in Fns

(* No body calls the function it belongs to.                                *)
NoSelfCall ==
    \A f \in Fns : \A b \in Bodies[f] : b.form = "call" => b.callee # f

LEMMA PredsOfClaims ==
    ASSUME NEW s \in Seq(Claims)
    PROVE  PredsOf(s) \in Seq(Preds)
  <1>1. Len(s) \in Nat /\ DOMAIN s = 1 .. Len(s)
    BY LenProperties
  <1>2. \A i \in 1 .. Len(s) : s[i].pred \in Preds
    <2>1. \A i \in 1 .. Len(s) : s[i] \in Claims
      BY ElementOfSeq
    <2> QED
      BY <2>1 DEF Claims
  <1> QED
    BY <1>1, <1>2, IsASeq DEF PredsOf

LEMMA ProblemsAreProblems ==
    ASSUME Shape, CallsAreResolved, NEW f \in Fns, NEW p \in Preds, NEW w \in Regimes
    PROVE  Problem(f, p, w, claims[f]) \in Problems
  <1>1. claims[f] \in Seq(Claims) /\ body[f] \in AnyBody
    BY DEF Shape
  <1>2. PredsOf(claims[f]) \in Seq(Preds)
    BY <1>1, PredsOfClaims
  <1>3. CalleeFacts(body[f]) \in SUBSET Preds
    <2>1. CASE body[f].form # "call"
      BY <2>1 DEF CalleeFacts
    <2>2. CASE body[f].form = "call"
      <3> DEFINE g == body[f].callee
      <3>1. g \in Fns
        BY <2>2 DEF CallsAreResolved, Shape
      <3>2. claims[g] \in Seq(Claims)
        BY <3>1 DEF Shape
      <3>3. \A i \in DOMAIN claims[g] : claims[g][i].pred \in Preds
        <4> HIDE DEF g
        <4>1. \A i \in DOMAIN claims[g] : claims[g][i] \in Claims
          BY <3>2, ElementOfSeq, LenProperties
        <4> QED
          BY <4>1 DEF Claims
      <3> QED
        BY <2>2, <3>3 DEF CalleeFacts
    <2> QED
      BY <2>1, <2>2
  <1> QED
    BY <1>1, <1>2, <1>3 DEF Problem, Problems

(* What `claim add` may cite is evidence.                                   *)
LEMMA CitationsAreEvidence ==
    ASSUME Shape, CallsAreResolved, NEW f \in Fns, NEW p \in Preds, NEW w \in Regimes,
           NEW e \in Citations(f, p, w)
    PROVE  e \in Evidence \cup {None}
  <1> DEFINE seen == disk \cup lost \cup {Problem(f, p, w, claims[f])}
  <1>1. seen \subseteq Problems
    BY ProblemsAreProblems DEF Shape
  <1>2. e \in {None, Signed} \cup {ByZ3(file, problem) : file \in seen, problem \in seen}
    BY DEF Citations
  <1> HIDE DEF seen
  <1> QED
    BY <1>1, <1>2 DEF Evidence

(* What `claim add` stores is a claim, by the user's word.                  *)
LEMMA AddedClaimsAreClaims ==
    ASSUME Shape, CallsAreResolved, NEW f \in Fns, NEW p \in Preds, ClaimAdd(f, p)
    PROVE  /\ \E c \in Claims : c.asserted /\ c.pred = p /\ AddClaim(f, c)
           /\ UNCHANGED <<body, proving, disk, lost, stamp, running, policy>>
           /\ proving = None
  <1>1. PICK w \in Regimes : \E e \in Citations(f, p, w) :
           AddClaim(f, [pred |-> p, regime |-> w, evidence |-> e, asserted |-> TRUE])
    BY DEF ClaimAdd, Regimes
  <1>2. PICK e \in Citations(f, p, w) :
           AddClaim(f, [pred |-> p, regime |-> w, evidence |-> e, asserted |-> TRUE])
    BY <1>1
  <1> DEFINE c == [pred |-> p, regime |-> w, evidence |-> e, asserted |-> TRUE]
  <1>3. c \in Claims /\ c.asserted /\ c.pred = p
    BY CitationsAreEvidence DEF Claims
  <1>4. AddClaim(f, c)
    BY <1>2
  <1> HIDE DEF c
  <1>5. UNCHANGED <<body, proving, disk, lost, stamp, running, policy>> /\ proving = None
    BY DEF ClaimAdd
  <1> QED
    BY <1>3, <1>4, <1>5

(* What `claim prove` stores is a claim.                                    *)
LEMMA ProvedClaimsAreClaims ==
    ASSUME NEW p \in Preds, NEW problem \in Problems
    PROVE  ProvedClaim(p, problem) \in Claims
  <1>1. ByZ3(problem, problem) \in Evidence
    BY DEF Evidence
  <1> QED
    BY <1>1 DEF ProvedClaim, Claims, Regimes

(* Every step keeps the shape.                                              *)
LEMMA ShapeStep ==
    ASSUME Shape, CallsAreResolved, [Next]_vars
    PROVE  Shape'
  <1>1. ASSUME NEW f \in Fns, NEW c \in Claims, AddClaim(f, c),
               UNCHANGED <<body, disk, lost, running>>,
               proving' \in {proving, None}
        PROVE  Shape'
    <2>1. Append(claims[f], c) \in Seq(Claims)
      BY AppendProperties DEF Shape
    <2> QED
      BY <1>1, <2>1 DEF AddClaim, Shape
  <1>2. ASSUME NEW f \in Fns, NEW p \in Preds, ClaimAdd(f, p)
        PROVE  Shape'
    BY <1>1, <1>2, AddedClaimsAreClaims
  <1>3. ASSUME NEW f \in Fns, NEW p \in Preds, ClaimRelax(f, p)
        PROVE  Shape'
    <2>1. PICK i \in DOMAIN claims[f] :
                claims' = [claims EXCEPT ![f] = RemoveAt(@, i)]
      BY <1>3 DEF ClaimRelax
    <2>2. claims[f] \in Seq(Claims) /\ i \in 1 .. Len(claims[f])
      BY LenProperties DEF Shape
    <2>3. RemoveAt(claims[f], i) \in Seq(Claims)
      BY <2>2, RemoveAtIsASelection
    <2> QED
      BY <1>3, <2>1, <2>3 DEF ClaimRelax, Shape
  <1>4. ASSUME NEW f \in Fns, NEW p \in Preds, ProveWrites(f, p)
        PROVE  Shape'
    <2>1. PICK problem \in Problems : problem = Problem(f, p, "witness", claims[f])
      BY ProblemsAreProblems DEF Regimes
    <2>2. /\ disk' = disk \cup {problem}
          /\ proving' \in {None, [fn |-> f, pred |-> p, problem |-> problem]}
          /\ UNCHANGED <<body, claims, lost, running>>
      BY <1>4, <2>1 DEF ProveWrites, WriteArtifact
    <2> QED
      BY <2>2 DEF Shape
  <1>5. CASE ProveSaves
    <2>1. proving \in [fn : Fns, pred : Preds, problem : Problems]
      BY <1>5 DEF ProveSaves, Shape
    <2>2. ProvedClaim(proving.pred, proving.problem) \in Claims /\ proving.fn \in Fns
      BY <2>1, ProvedClaimsAreClaims
    <2> QED
      BY <1>1, <1>5, <2>2 DEF ProveSaves
  <1>6. CASE ProveDies
    BY <1>6 DEF ProveDies, Shape
  <1>7. ASSUME NEW f \in Fns, NEW b \in Bodies[f], EditBody(f, b)
        PROVE  Shape'
    BY <1>7 DEF EditBody, Shape, AnyBody
  <1>8. ASSUME NEW a \in disk, LoseArtifact(a)
        PROVE  Shape'
    BY <1>8 DEF LoseArtifact, Shape
  <1>9. ASSUME NEW v \in Versions, Upgrade(v)
        PROVE  Shape'
    BY <1>9 DEF Upgrade, Shape
  <1>10. CASE UNCHANGED vars
    BY <1>10 DEF vars, Shape
  <1> QED
    BY <1>2, <1>3, <1>4, <1>5, <1>6, <1>7, <1>8, <1>9, <1>10 DEF Next

LEMMA ShapeInit == Init => Shape
  <1> SUFFICES ASSUME Init PROVE Shape
    OBVIOUS
  <1>1. claims \in [Fns -> Seq(Claims)]
    BY EmptySeq DEF Init
  <1> QED
    BY <1>1 DEF Init, Shape, AnyBody

LEMMA InProgressInit == Init => InProgress
  BY DEF Init, InProgress

(* Nobody who could change the problem gets the lock while a proof waits.   *)
LEMMA InProgressStep ==
    ASSUME InProgress, [Next]_vars
    PROVE  InProgress'
  <1>1. ASSUME UNCHANGED <<body, claims, proving>>, (disk \cup lost) \subseteq (disk \cup lost)'
        PROVE  InProgress'
    <2> SUFFICES ASSUME proving # None
                 PROVE  /\ proving.problem =
                              Problem(proving.fn, proving.pred, "witness", claims[proving.fn])'
                        /\ Unsat(proving.problem)
                        /\ proving.problem \in (disk \cup lost)'
      BY <1>1 DEF InProgress
    <2>1. Problem(proving.fn, proving.pred, "witness", claims[proving.fn])' =
             Problem(proving.fn, proving.pred, "witness", claims[proving.fn])
      BY <1>1 DEF Problem, CalleeFacts
    <2> QED
      BY <1>1, <2>1 DEF InProgress
  <1>2. ASSUME proving' = None
        PROVE  InProgress'
    BY <1>2 DEF InProgress
  <1>3. ASSUME NEW f \in Fns, NEW p \in Preds, ClaimAdd(f, p)
        PROVE  InProgress'
    BY <1>2, <1>3 DEF ClaimAdd
  <1>4. ASSUME NEW f \in Fns, NEW p \in Preds, ClaimRelax(f, p)
        PROVE  InProgress'
    BY <1>2, <1>4 DEF ClaimRelax
  <1>5. ASSUME NEW f \in Fns, NEW p \in Preds, ProveWrites(f, p)
        PROVE  InProgress'
    <2> DEFINE problem == Problem(f, p, "witness", claims[f])
    <2>1. /\ disk' = disk \cup {problem} /\ UNCHANGED <<body, claims>>
          /\ proving' = IF Unsat(problem) THEN [fn |-> f, pred |-> p, problem |-> problem]
                                         ELSE None
      BY <1>5 DEF ProveWrites, WriteArtifact
    <2>2. problem = Problem(f, p, "witness", claims[f])'
      BY <2>1 DEF Problem, CalleeFacts
    <2> HIDE DEF problem
    <2>3. CASE Unsat(problem)
      <3>1. proving'.fn = f /\ proving'.pred = p /\ proving'.problem = problem
        BY <2>1, <2>3
      <3> QED
        BY <2>1, <2>2, <2>3, <3>1 DEF InProgress
    <2>4. CASE ~Unsat(problem)
      BY <1>2, <2>1, <2>4
    <2> QED
      BY <2>3, <2>4
  <1>6. CASE ProveSaves
    BY <1>2, <1>6 DEF ProveSaves
  <1>7. CASE ProveDies
    BY <1>2, <1>7 DEF ProveDies
  <1>8. ASSUME NEW f \in Fns, NEW b \in Bodies[f], EditBody(f, b)
        PROVE  InProgress'
    BY <1>2, <1>8 DEF EditBody
  <1>9. ASSUME NEW a \in disk, LoseArtifact(a)
        PROVE  InProgress'
    BY <1>1, <1>9 DEF LoseArtifact
  <1>10. ASSUME NEW v \in Versions, Upgrade(v)
         PROVE  InProgress'
    BY <1>1, <1>10 DEF Upgrade
  <1>11. CASE UNCHANGED vars
    BY <1>1, <1>11 DEF vars
  <1> QED
    BY <1>3, <1>4, <1>5, <1>6, <1>7, <1>8, <1>9, <1>10, <1>11 DEF Next

-----------------------------------------------------------------------------
(* The claim `claim prove` stores verifies in the state it stores it in:    *)
(* the callee's claims are facts of the problem, and only a function that   *)
(* calls itself has just changed them.  Its artifact is there unless it was *)
(* taken away since it was written.                                         *)
LEMMA ProvedClaimVerifies ==
    ASSUME Shape, InProgress, CallsAreResolved, NoSelfCall, ProveSaves,
           NEW f \in Fns, f = proving.fn
    PROVE  LastVerifies(f)'
  <1>1. proving \in [fn : Fns, pred : Preds, problem : Problems]
    BY DEF ProveSaves, Shape
  <1>2. PICK p \in Preds, problem \in Problems : p = proving.pred /\ problem = proving.problem
    BY <1>1
  <1> DEFINE c == ProvedClaim(p, problem)
  <1>3. /\ problem = Problem(f, p, "witness", claims[f])
        /\ Unsat(problem)
        /\ problem \in disk \cup lost
    BY <1>2 DEF ProveSaves, InProgress
  <1>4. /\ claims' = [claims EXCEPT ![f] = Append(@, c)]
        /\ body' = body /\ disk' = disk /\ lost' = lost
    BY <1>2 DEF ProveSaves, AddClaim
  <1>5. c \in Claims
    BY <1>2, ProvedClaimsAreClaims
  <1>6. /\ c.pred = p /\ c.regime = "witness" /\ ~c.asserted
        /\ c.evidence.kind = "z3" /\ c.evidence.file = problem /\ c.evidence.body = problem
    BY DEF ProvedClaim, ByZ3
  <1> HIDE DEF c
  <1>7. claims[f] \in Seq(Claims) /\ body[f] \in Bodies[f] /\ f \in DOMAIN claims
    BY <1>2 DEF Shape
  <1>8. claims'[f] = Append(claims[f], c)
    BY <1>4, <1>7
  <1>9. PICK last \in Nat : last = Len(claims'[f])
    BY <1>5, <1>7, <1>8, AppendProperties, LenProperties
  <1>10. claims'[f][last] = c
    BY <1>5, <1>7, <1>8, <1>9, AppendProperties
  <1>11. Others(f, last)' = claims[f]
    BY <1>5, <1>7, <1>8, <1>9, RemoveAtLast DEF Others
  <1>12. CalleeFacts(body[f])' = CalleeFacts(body[f])
    <2>1. CASE body[f].form # "call"
      BY <1>4, <2>1 DEF CalleeFacts
    <2>2. CASE body[f].form = "call"
      <3>1. body[f].callee # f
        BY <1>2, <1>7, <2>2 DEF NoSelfCall
      <3>2. claims'[body[f].callee] = claims[body[f].callee]
        BY <1>2, <1>4, <3>1, <2>2, <1>7 DEF Shape, CallsAreResolved
      <3> QED
        BY <1>4, <2>2, <3>2 DEF CalleeFacts
    <2> QED
      BY <2>1, <2>2
  <1>13. Problem(f, p, "witness", Others(f, last))' = problem
    BY <1>3, <1>4, <1>11, <1>12 DEF Problem
  <1>14. problem \in disk' => ClaimOk(f, last)'
    BY <1>3, <1>6, <1>10, <1>13, Zenon DEF ClaimOk
  <1>15. problem \in disk' \/ problem \in lost'
    BY <1>3, <1>4
  <1>16. ClaimOk(f, last)' \/ claims'[f][last].evidence.file \in lost'
    BY <1>6, <1>10, <1>14, <1>15
  <1> QED
    BY <1>9, <1>16 DEF LastVerifies

LEMMA FreshStep ==
    ASSUME Shape, InProgress, CallsAreResolved, NoSelfCall, [Next]_vars, NEW g \in Fns,
           Len(claims'[g]) > Len(claims[g])
    PROVE  LastVerifies(g)'
  <1>1. claims[g] \in Seq(Claims) /\ Len(claims[g]) \in Nat
    BY DEF Shape
  <1>2. claims'[g] # claims[g]
    BY <1>1
  <1>3. ASSUME NEW f \in Fns, NEW p \in Preds, ClaimAdd(f, p)
        PROVE  LastVerifies(g)'
    <2>1. PICK c \in Claims : c.asserted /\ AddClaim(f, c)
      BY <1>3, AddedClaimsAreClaims
    <2>2. claims'[g] = Append(claims[g], c)
      BY <1>2, <2>1 DEF AddClaim, Shape
    <2>3. claims'[g][Len(claims'[g])] = c
      BY <1>1, <2>2, AppendProperties
    <2> QED
      BY <2>1, <2>3 DEF LastVerifies
  <1>4. ASSUME NEW f \in Fns, NEW p \in Preds, ClaimRelax(f, p)
        PROVE  FALSE
    <2>1. PICK i \in DOMAIN claims[f] :
                claims' = [claims EXCEPT ![f] = RemoveAt(@, i)]
      BY <1>4 DEF ClaimRelax
    <2>2. claims'[g] = RemoveAt(claims[g], i) /\ i \in 1 .. Len(claims[g])
      BY <1>1, <1>2, <2>1, LenProperties DEF Shape
    <2>3. Len(claims'[g]) = Len(claims[g]) - 1
      BY <1>1, <2>2, RemoveAtIsASelection
    <2> QED
      BY <1>1, <2>3
  <1>5. ASSUME NEW f \in Fns, NEW p \in Preds, ProveWrites(f, p)
        PROVE  FALSE
    BY <1>2, <1>5 DEF ProveWrites
  <1>6. CASE ProveSaves
    <2>1. proving.fn = g
      BY <1>2, <1>6 DEF ProveSaves, AddClaim, Shape
    <2> QED
      BY <1>6, <2>1, ProvedClaimVerifies
  <1>7. CASE ProveDies
    BY <1>2, <1>7 DEF ProveDies
  <1>8. ASSUME NEW f \in Fns, NEW b \in Bodies[f], EditBody(f, b)
        PROVE  FALSE
    BY <1>2, <1>8 DEF EditBody
  <1>9. ASSUME NEW a \in disk, LoseArtifact(a)
        PROVE  FALSE
    BY <1>2, <1>9 DEF LoseArtifact
  <1>10. ASSUME NEW v \in Versions, Upgrade(v)
        PROVE  FALSE
    BY <1>2, <1>10 DEF Upgrade
  <1>11. CASE UNCHANGED vars
    BY <1>2, <1>11 DEF vars
  <1> QED
    BY <1>3, <1>4, <1>5, <1>6, <1>7, <1>8, <1>9, <1>10, <1>11 DEF Next

(* In a program without self-recursion, the claim `claim prove` has just    *)
(* stored passes `claim verify`: the problem rebuilt from the stored claims *)
(* is the problem that was proved, whatever happened between its artifact   *)
(* and the save.                                                            *)
THEOREM ProvedThenVerified ==
    ASSUME CallsAreResolved, NoSelfCall
    PROVE  Spec => FreshProofVerifies
  <1>1. Shape /\ InProgress /\ [Next]_vars => Shape' /\ InProgress'
    BY ShapeStep, InProgressStep
  <1>2. Shape /\ InProgress /\ [Next]_vars =>
            \A f \in Fns : Len(claims'[f]) > Len(claims[f]) => LastVerifies(f)'
    BY FreshStep
  <1> QED
    BY ShapeInit, InProgressInit, <1>1, <1>2, PTL DEF Spec, FreshProofVerifies

-----------------------------------------------------------------------------
(* A claim that `claim prove` stored has its artifact, or somebody took it.  *)
Backed(c) == c.evidence # None /\ ~c.asserted => c.evidence.file \in disk \cup lost

LEMMA PinsInit == Init => PinsHaveArtifacts
  BY DEF Init, PinsHaveArtifacts, Pinned

LEMMA PinsStep ==
    ASSUME Shape, InProgress, CallsAreResolved, PinsHaveArtifacts, [Next]_vars
    PROVE  PinsHaveArtifacts'
  <1>1. \A f \in Fns : \A i \in DOMAIN claims[f] : Backed(claims[f][i])
    BY DEF PinsHaveArtifacts, Pinned, Backed
  <1>2. SUFFICES ASSUME NEW g \in Fns, NEW j \in DOMAIN claims'[g]
                 PROVE  Backed(claims[g][j])'
    BY DEF PinsHaveArtifacts, Pinned, Backed
  <1>3. claims[g] \in Seq(Claims) /\ DOMAIN claims[g] = 1 .. Len(claims[g])
    BY LenProperties DEF Shape
  <1>4. ASSUME NEW c, Backed(c), (disk \cup lost) \subseteq (disk \cup lost)', c = claims'[g][j]
        PROVE  Backed(claims[g][j])'
    BY <1>4 DEF Backed
  <1>5. ASSUME UNCHANGED claims, (disk \cup lost) \subseteq (disk \cup lost)'
        PROVE  Backed(claims[g][j])'
    BY <1>1, <1>4, <1>5
  <1>6. ASSUME NEW f \in Fns, NEW c \in Claims, AddClaim(f, c), Backed(c),
               (disk \cup lost) \subseteq (disk \cup lost)'
        PROVE  Backed(claims[g][j])'
    <2>1. CASE g = f
      <3>1. claims'[g] = Append(claims[g], c)
        BY <1>6, <2>1 DEF AddClaim, Shape
      <3>2. /\ Len(claims'[g]) = Len(claims[g]) + 1
            /\ \A i \in 1 .. Len(claims[g]) : claims'[g][i] = claims[g][i]
            /\ claims'[g][Len(claims[g]) + 1] = c
        BY <1>3, <3>1, AppendProperties
      <3>3. j \in 1 .. Len(claims[g]) + 1 /\ Len(claims[g]) \in Nat
        BY <1>3, <3>1, <3>2, AppendProperties, LenProperties
      <3>4. CASE j \in 1 .. Len(claims[g])
        BY <1>1, <1>3, <1>4, <1>6, <3>2, <3>4
      <3>5. CASE j = Len(claims[g]) + 1
        BY <1>4, <1>6, <3>2, <3>5
      <3> QED
        BY <3>3, <3>4, <3>5
    <2>2. CASE g # f
      <3>1. claims'[g] = claims[g]
        BY <1>6, <2>2 DEF AddClaim, Shape
      <3> QED
        BY <1>1, <1>4, <1>6, <3>1
    <2> QED
      BY <2>1, <2>2
  <1>7. ASSUME NEW f \in Fns, NEW p \in Preds, ClaimAdd(f, p)
        PROVE  Backed(claims[g][j])'
    <2>1. PICK c \in Claims : c.asserted /\ AddClaim(f, c)
      BY <1>7, AddedClaimsAreClaims
    <2>2. Backed(c)
      BY <2>1 DEF Backed
    <2>3. disk' = disk /\ lost' = lost
      BY <1>7 DEF ClaimAdd
    <2> QED
      BY <1>6, <2>1, <2>2, <2>3
  <1>8. ASSUME NEW f \in Fns, NEW p \in Preds, ClaimRelax(f, p)
        PROVE  Backed(claims[g][j])'
    <2>1. PICK i \in DOMAIN claims[f] :
                claims' = [claims EXCEPT ![f] = RemoveAt(@, i)]
      BY <1>8 DEF ClaimRelax
    <2>2. disk' = disk /\ lost' = lost
      BY <1>8 DEF ClaimRelax
    <2>3. CASE g = f
      <3>1. claims'[g] = RemoveAt(claims[g], i) /\ i \in 1 .. Len(claims[g])
        BY <1>3, <2>1, <2>3 DEF Shape
      <3>2. /\ claims'[g] \in Seq(Claims)
            /\ Len(claims'[g]) = Len(claims[g]) - 1
            /\ \A k \in 1 .. Len(claims[g]) - 1 :
                  claims'[g][k] = claims[g][IF k < i THEN k ELSE k + 1]
        BY <1>3, <3>1, RemoveAtIsASelection
      <3>3. j \in 1 .. Len(claims[g]) - 1 /\ Len(claims[g]) \in Nat
        BY <1>3, <3>2, LenProperties
      <3> DEFINE k == IF j < i THEN j ELSE j + 1
      <3>4. k \in 1 .. Len(claims[g]) /\ claims'[g][j] = claims[g][k]
        BY <3>1, <3>2, <3>3
      <3> HIDE DEF k
      <3> QED
        BY <1>1, <1>3, <1>4, <2>2, <3>4
    <2>4. CASE g # f
      <3>1. claims'[g] = claims[g]
        BY <2>1, <2>4 DEF Shape
      <3> QED
        BY <1>1, <1>4, <2>2, <3>1
    <2> QED
      BY <2>3, <2>4
  <1>9. ASSUME NEW f \in Fns, NEW p \in Preds, ProveWrites(f, p)
        PROVE  Backed(claims[g][j])'
    BY <1>5, <1>9 DEF ProveWrites, WriteArtifact
  <1>10. CASE ProveSaves
    <2> DEFINE c == ProvedClaim(proving.pred, proving.problem)
    <2>1. proving \in [fn : Fns, pred : Preds, problem : Problems]
      BY <1>10 DEF ProveSaves, Shape
    <2>2. c \in Claims /\ proving.fn \in Fns
      BY <2>1, ProvedClaimsAreClaims
    <2>3. c.evidence.file = proving.problem
      BY DEF ProvedClaim, ByZ3
    <2>4. proving.problem \in disk \cup lost /\ disk' = disk /\ lost' = lost
      BY <1>10 DEF ProveSaves, InProgress
    <2>5. AddClaim(proving.fn, c)
      BY <1>10 DEF ProveSaves
    <2> HIDE DEF c
    <2>6. Backed(c)
      BY <2>3, <2>4 DEF Backed
    <2> QED
      BY <1>6, <2>2, <2>4, <2>5, <2>6
  <1>11. CASE ProveDies
    BY <1>5, <1>11 DEF ProveDies
  <1>12. ASSUME NEW f \in Fns, NEW b \in Bodies[f], EditBody(f, b)
         PROVE  Backed(claims[g][j])'
    BY <1>5, <1>12 DEF EditBody
  <1>13. ASSUME NEW a \in disk, LoseArtifact(a)
         PROVE  Backed(claims[g][j])'
    BY <1>5, <1>13 DEF LoseArtifact
  <1>14. ASSUME NEW v \in Versions, Upgrade(v)
         PROVE  Backed(claims[g][j])'
    BY <1>5, <1>14 DEF Upgrade
  <1>15. CASE UNCHANGED vars
    BY <1>5, <1>15 DEF vars
  <1> QED
    BY <1>7, <1>8, <1>9, <1>10, <1>11, <1>12, <1>13, <1>14, <1>15 DEF Next

(* Whatever fails or dies, a claim that `claim prove` stored has its        *)
(* artifact until somebody takes the file away: the file is written first,  *)
(* and the lock keeps the claim from being stored for another problem.      *)
THEOREM PinnedArtifactsExist ==
    ASSUME CallsAreResolved
    PROVE  Spec => []PinsHaveArtifacts
  <1> DEFINE IInv == Shape /\ InProgress /\ PinsHaveArtifacts
  <1>1. Init => IInv
    BY ShapeInit, InProgressInit, PinsInit
  <1>2. IInv /\ [Next]_vars => IInv'
    BY ShapeStep, InProgressStep, PinsStep
  <1>3. IInv => PinsHaveArtifacts
    OBVIOUS
  <1> QED
    BY <1>1, <1>2, <1>3, PTL DEF Spec

-----------------------------------------------------------------------------
(* What TypeOK asks of one claim, and of a list of them.                    *)
Earnt(c) == ~c.asserted => c = ProvedClaim(c.pred, c.evidence.file)

Once(cs) ==
    /\ Len(cs) <= MaxClaims
    /\ \A i, j \in DOMAIN cs : cs[i].pred = cs[j].pred => i = j
    /\ \A i \in DOMAIN cs : Earnt(cs[i])

LEMMA AppendKeepsOnce ==
    ASSUME NEW cs \in Seq(Claims), NEW c \in Claims, Once(cs),
           Len(cs) < MaxClaims,
           \A i \in DOMAIN cs : cs[i].pred # c.pred,
           Earnt(c)
    PROVE  Once(Append(cs, c))
  <1>1. Len(cs) \in Nat /\ DOMAIN cs = 1 .. Len(cs)
    BY LenProperties
  <1>2. PICK new \in Seq(Claims) : new = Append(cs, c)
    BY AppendProperties
  <1>3. /\ Len(new) = Len(cs) + 1
        /\ \A i \in 1 .. Len(cs) : new[i] = cs[i]
        /\ new[Len(cs) + 1] = c
        /\ DOMAIN new = 1 .. Len(cs) + 1
    BY <1>2, AppendProperties, LenProperties
  <1>4. Len(new) <= MaxClaims
    BY <1>1, <1>3, EvidenceAssumption
  <1>5. ASSUME NEW i \in DOMAIN new, NEW j \in DOMAIN new, new[i].pred = new[j].pred
        PROVE  i = j
    <2>1. CASE i \in 1 .. Len(cs) /\ j \in 1 .. Len(cs)
      BY <1>1, <1>3, <1>5, <2>1 DEF Once
    <2>2. CASE i \in 1 .. Len(cs) /\ j = Len(cs) + 1
      BY <1>1, <1>3, <1>5, <2>2
    <2>3. CASE i = Len(cs) + 1 /\ j \in 1 .. Len(cs)
      BY <1>1, <1>3, <1>5, <2>3
    <2> QED
      BY <1>1, <1>3, <2>1, <2>2, <2>3
  <1>6. ASSUME NEW i \in DOMAIN new
        PROVE  Earnt(new[i])
    <2>1. CASE i \in 1 .. Len(cs)
      BY <1>1, <1>3, <2>1 DEF Once
    <2>2. CASE i = Len(cs) + 1
      BY <1>3, <2>2
    <2> QED
      BY <1>1, <1>3, <2>1, <2>2
  <1> QED
    BY <1>2, <1>4, <1>5, <1>6 DEF Once

LEMMA RemoveKeepsOnce ==
    ASSUME NEW cs \in Seq(Claims), NEW n \in DOMAIN cs, Once(cs)
    PROVE  Once(RemoveAt(cs, n))
  <1>1. Len(cs) \in Nat /\ DOMAIN cs = 1 .. Len(cs)
    BY LenProperties
  <1>2. PICK new \in Seq(Claims) : new = RemoveAt(cs, n)
    BY <1>1, RemoveAtIsASelection
  <1>3. /\ Len(new) = Len(cs) - 1
        /\ DOMAIN new = 1 .. Len(cs) - 1
        /\ \A k \in 1 .. Len(cs) - 1 : new[k] = cs[IF k < n THEN k ELSE k + 1]
    BY <1>1, <1>2, RemoveAtIsASelection, LenProperties
  <1>4. Len(new) <= MaxClaims
    BY <1>1, <1>3, EvidenceAssumption DEF Once
  <1>5. ASSUME NEW i \in DOMAIN new, NEW j \in DOMAIN new, new[i].pred = new[j].pred
        PROVE  i = j
    <2> DEFINE at(k) == IF k < n THEN k ELSE k + 1
    <2>1. /\ at(i) \in DOMAIN cs /\ new[i] = cs[at(i)]
          /\ at(j) \in DOMAIN cs /\ new[j] = cs[at(j)]
      BY <1>1, <1>3
    <2>2. at(i) = at(j)
      <3> HIDE DEF at
      <3> QED
        BY <1>5, <2>1 DEF Once
    <2> QED
      BY <1>1, <1>3, <2>2
  <1>6. ASSUME NEW i \in DOMAIN new
        PROVE  Earnt(new[i])
    <2> DEFINE k == IF i < n THEN i ELSE i + 1
    <2>1. i \in 1 .. Len(cs) - 1
      BY <1>3
    <2>2. k \in DOMAIN cs
      BY <1>1, <2>1
    <2>3. new[i] = cs[k]
      BY <1>3, <2>1
    <2> HIDE DEF k
    <2> QED
      BY <2>2, <2>3 DEF Once
  <1> QED
    BY <1>2, <1>4, <1>5, <1>6 DEF Once

LEMMA TypeOKInit == Init => TypeOK
  <1> SUFFICES ASSUME Init PROVE TypeOK
    OBVIOUS
  <1>1. \A f \in Fns : claims[f] = << >>
    BY DEF Init
  <1>2. \A f \in Fns : Once(claims[f])
    BY <1>1, EmptySeq, EvidenceAssumption DEF Once
  <1> QED
    BY <1>2 DEF Init, TypeOK, Once, Earnt

LEMMA TypeOKStep ==
    ASSUME Shape, CallsAreResolved, TypeOK, [Next]_vars
    PROVE  TypeOK'
  <1>1. \A f \in Fns : Once(claims[f]) /\ claims[f] \in Seq(Claims)
    BY DEF TypeOK, Once, Earnt, Shape
  <1>2. ASSUME \A f \in Fns : Once(claims'[f]), stamp' \in Versions \cup {None}
        PROVE  TypeOK'
    BY <1>2, ShapeStep DEF TypeOK, Once, Earnt, Shape
  <1>3. ASSUME NEW f \in Fns, NEW c \in Claims, AddClaim(f, c), Earnt(c),
               stamp' \in Versions \cup {None}
        PROVE  TypeOK'
    <2>1. Once(Append(claims[f], c))
      BY <1>1, <1>3, AppendKeepsOnce DEF AddClaim, HasPred
    <2>2. \A g \in Fns : Once(claims'[g])
      BY <1>1, <1>3, <2>1 DEF AddClaim, Shape
    <2> QED
      BY <1>2, <1>3, <2>2
  <1>4. ASSUME NEW f \in Fns, NEW p \in Preds, ClaimAdd(f, p)
        PROVE  TypeOK'
    <2>1. PICK c \in Claims : c.asserted /\ AddClaim(f, c)
      BY <1>4, AddedClaimsAreClaims
    <2>2. Earnt(c)
      BY <2>1 DEF Earnt
    <2>3. stamp' \in Versions \cup {None}
      BY <1>4 DEF ClaimAdd, TypeOK
    <2> QED
      BY <1>3, <2>1, <2>2, <2>3
  <1>5. ASSUME NEW f \in Fns, NEW p \in Preds, ClaimRelax(f, p)
        PROVE  TypeOK'
    <2>1. PICK i \in DOMAIN claims[f] :
                claims' = [claims EXCEPT ![f] = RemoveAt(@, i)]
      BY <1>5 DEF ClaimRelax
    <2>2. Once(RemoveAt(claims[f], i))
      BY <1>1, RemoveKeepsOnce
    <2>3. \A g \in Fns : Once(claims'[g])
      BY <1>1, <2>1, <2>2 DEF Shape
    <2> QED
      BY <1>2, <1>5, <2>3 DEF ClaimRelax, TypeOK
  <1>6. ASSUME UNCHANGED <<claims, stamp>>
        PROVE  TypeOK'
    BY <1>1, <1>2, <1>6 DEF TypeOK
  <1>7. ASSUME NEW f \in Fns, NEW p \in Preds, ProveWrites(f, p)
        PROVE  TypeOK'
    BY <1>6, <1>7 DEF ProveWrites
  <1>8. CASE ProveSaves
    <2> DEFINE c == ProvedClaim(proving.pred, proving.problem)
    <2>1. proving \in [fn : Fns, pred : Preds, problem : Problems]
      BY <1>8 DEF ProveSaves, Shape
    <2>2. c \in Claims /\ proving.fn \in Fns
      BY <2>1, ProvedClaimsAreClaims
    <2>3. Earnt(c)
      BY DEF Earnt, ProvedClaim, ByZ3
    <2>4. AddClaim(proving.fn, c) /\ stamp' \in Versions \cup {None}
      BY <1>8 DEF ProveSaves, Shape
    <2> HIDE DEF c
    <2> QED
      BY <1>3, <2>2, <2>3, <2>4
  <1>9. CASE ProveDies
    BY <1>6, <1>9 DEF ProveDies
  <1>10. ASSUME NEW f \in Fns, NEW b \in Bodies[f], EditBody(f, b)
         PROVE  TypeOK'
    BY <1>6, <1>10 DEF EditBody
  <1>11. ASSUME NEW a \in disk, LoseArtifact(a)
         PROVE  TypeOK'
    BY <1>6, <1>11 DEF LoseArtifact
  <1>12. ASSUME NEW v \in Versions, Upgrade(v)
         PROVE  TypeOK'
    BY <1>6, <1>12 DEF Upgrade
  <1>13. CASE UNCHANGED vars
    BY <1>6, <1>13 DEF vars
  <1> QED
    BY <1>4, <1>5, <1>7, <1>8, <1>9, <1>10, <1>11, <1>12, <1>13 DEF Next

(* A function never carries a predicate twice, however its claims came, and  *)
(* what `claim prove` stored there has evidence whose two hashes are of one  *)
(* problem, which nothing afterwards takes apart.                            *)
THEOREM ClaimListsAreOnce ==
    ASSUME CallsAreResolved
    PROVE  Spec => []TypeOK
  <1>1. Shape /\ TypeOK /\ [Next]_vars => Shape' /\ TypeOK'
    BY ShapeStep, TypeOKStep
  <1> QED
    BY ShapeInit, TypeOKInit, <1>1, PTL DEF Spec
-----------------------------------------------------------------------------
(* What a verified proof is worth.  In claim problems Z3 adds without        *)
(* wrapping and reads the callee's claims with the caller's x: the theorem   *)
(* is about programs in which that makes no difference.                      *)

(* A sum of a body stays in its type, and a call whose claims relate the     *)
(* result to the parameter passes its own parameter on.                      *)
Plain(b) ==
    /\ b.form \in {"const", "step", "call"}
    /\ b.n \in Int
    /\ b.form = "const" => b.n \in Universe
    /\ b.form = "step" => \A x \in Universe : x >= 0 => x + b.n \in Universe
    /\ b.form = "call" => b.n = 0 \/ \A p \in Preds : p.scope # "relative"

PlainPrograms ==
    /\ \A f \in Fns : \A b \in Bodies[f] : Plain(b)
    /\ \A p \in Preds : p.scope \in {"param", "return", "relative"}

(* Nobody takes back what was added by hand, and nobody who edits bodies     *)
(* relaxes a claim.                                                          *)
CarefulUsers ==
    \A pol \in Policies : "retract" \notin pol /\ ("edit" \notin pol \/ "relax" \notin pol)

(* No evidence is not evidence.                                              *)
Evident == \A file, problem : ByZ3(file, problem) # None

LEMMA WrapIs ==
    ASSUME NEW v \in Int
    PROVE  Wrap(v) \in Universe /\ (v \in Universe => Wrap(v) = v)
  <1> DEFINE m == MaxInt - MinInt + 1
             u == v - MinInt
  <1>1. m \in Nat \ {0} /\ u \in Int /\ MinInt \in Int /\ MaxInt = m + MinInt - 1
    BY EvidenceAssumption
  <1>2. Wrap(v) = (u % m) + MinInt
    BY DEF Wrap
  <1>3. v \in Universe => u \in 0 .. m - 1
    BY EvidenceAssumption DEF Universe
  <1>4. v = u + MinInt
    BY EvidenceAssumption
  <1> HIDE DEF m, u
  <1>5. u % m \in 0 .. m - 1
    BY <1>1
  <1>6. u \in 0 .. m - 1 => u % m = u
    BY <1>1
  <1> QED
    BY <1>1, <1>2, <1>3, <1>4, <1>5, <1>6 DEF Universe

-----------------------------------------------------------------------------
Tables == [Fns -> [Universe -> SUBSET Universe]]

Nothing == [f \in Fns |-> [x \in Universe |-> {}]]

(* One more call than calls.                                                 *)
Deepen(program, calls) ==
    [f \in Fns |-> [x \in Universe |-> Result(program[f], x, calls)]]

(* A program whose bodies belong to its functions.                           *)
Written(program) == program \in [Fns -> AnyBody] /\ \A f \in Fns : program[f] \in Bodies[f]

LEMMA ResultsAre ==
    ASSUME CallsAreResolved, PlainPrograms, NEW program, Written(program),
           NEW calls \in Tables, NEW f \in Fns, NEW x \in Universe
    PROVE  Result(program[f], x, calls) \in SUBSET Universe
  <1> DEFINE b == program[f]
  <1>1. b \in Bodies[f]
    BY DEF Written
  <1>2. Plain(b) /\ (b.form = "call" => b.callee \in Fns)
    BY <1>1 DEF PlainPrograms, CallsAreResolved
  <1> HIDE DEF b
  <1>3. x \in Int /\ x + b.n \in Int /\ Wrap(x + b.n) \in Universe
    <2>1. x \in Int /\ x + b.n \in Int
      BY <1>2, EvidenceAssumption DEF Plain, Universe
    <2> QED
      BY <2>1, WrapIs
  <1>4. CASE b.form = "const"
    <2>1. Result(b, x, calls) = {b.n}
      BY <1>4 DEF Result
    <2> QED
      BY <1>2, <1>4, <2>1 DEF Plain, b
  <1>5. CASE b.form = "step"
    <2>1. Result(b, x, calls) = {IF x < 0 THEN -1 ELSE Wrap(x + b.n)}
      BY <1>5 DEF Result
    <2>2. x < 0 => -1 \in Universe
      BY EvidenceAssumption DEF Universe
    <2>3. Result(b, x, calls) \in SUBSET Universe
      BY <1>3, <2>1, <2>2
    <2> QED
      BY <2>3 DEF b
  <1>6. CASE b.form = "call"
    <2>1. Result(b, x, calls) = calls[b.callee][Wrap(x + b.n)]
      BY <1>6 DEF Result
    <2>2. calls[b.callee] \in [Universe -> SUBSET Universe]
      BY <1>2, <1>6 DEF Tables
    <2>3. Result(b, x, calls) \in SUBSET Universe
      BY <1>3, <2>1, <2>2
    <2> QED
      BY <2>3 DEF b
  <1>7. b.form \in {"const", "step", "call"}
    BY <1>2 DEF Plain
  <1> QED
    BY <1>4, <1>5, <1>6, <1>7

(* The runs of a program, one depth after the other.                         *)
LEMMA RunsAre ==
    ASSUME CallsAreResolved, PlainPrograms, NEW program, Written(program)
    PROVE  /\ Cardinality(Fns) \in Nat
           /\ \A d \in 0 .. Cardinality(Fns) : Runs(program)[d] \in Tables
           /\ Runs(program)[0] = Nothing
           /\ \A d \in 1 .. Cardinality(Fns) :
                 Runs(program)[d] = Deepen(program, Runs(program)[d - 1])
  <1> DEFINE n == Cardinality(Fns)
             Step(calls) == Deepen(program, calls)
             F == [k \in 1 .. n |-> [calls \in Tables |-> Step(calls)]]
  <1>1. n \in Nat
    BY EvidenceAssumption, FS_CardinalityType
  <1>2. Nothing \in Tables
    BY DEF Nothing, Tables
  <1>3. \A calls \in Tables : Step(calls) \in Tables
    BY ResultsAre DEF Deepen, Tables
  <1> HIDE DEF n, Step
  <1>4. F \in [1 .. n -> [Tables -> Tables]]
    BY <1>3
  <1>5. PICK g : IteratesTo(g, n, Tables, Nothing, F)
    <2> HIDE DEF F
    <2> QED
      BY <1>1, <1>2, <1>4, BoundedIterationExists
  <1>6. /\ g \in [0 .. n -> Tables] /\ g[0] = Nothing
        /\ \A k \in 1 .. n : g[k] = Step(g[k - 1])
    <2>1. \A k \in 1 .. n : k - 1 \in 0 .. n
      BY <1>1
    <2> QED
      BY <1>5, <2>1 DEF IteratesTo
  <1> HIDE DEF F
  <1>7. g = [d \in 0 .. n |-> IF d = 0 THEN Nothing ELSE Step(g[d - 1])]
    <2>1. \A d \in 0 .. n : d = 0 \/ d \in 1 .. n
      BY <1>1
    <2>2. 0 \notin 1 .. n
      OBVIOUS
    <2>3. \A d \in 0 .. n : g[d] = IF d = 0 THEN Nothing ELSE Step(g[d - 1])
      BY <1>6, <2>1, <2>2
    <2>4. g = [d \in 0 .. n |-> g[d]]
      BY <1>6
    <2> QED
      BY <2>3, <2>4
  <1> DEFINE run == CHOOSE run : run = [d \in 0 .. n |-> IF d = 0 THEN Nothing ELSE Step(run[d - 1])]
  <1>8. run = [d \in 0 .. n |-> IF d = 0 THEN Nothing ELSE Step(run[d - 1])]
    BY <1>7
  <1>9. Runs(program) = run
    BY DEF Runs, Step, n, Deepen, Nothing
  <1> HIDE DEF run
  <1>10. 0 \in 0 .. n /\ run[0] = Nothing
    BY <1>1, <1>8
  <1>11. \A d \in 1 .. n : run[d] = Step(run[d - 1])
    <2>1. \A d \in 1 .. n : d \in 0 .. n /\ d # 0
      BY <1>1
    <2> QED
      BY <1>8, <2>1
  <1>12. \A d \in 0 .. n : run[d] \in Tables
    <2> DEFINE S == {d \in Nat : d \in 0 .. n => run[d] \in Tables}
    <2>1. 0 \in S
      BY <1>2, <1>10
    <2>2. ASSUME NEW d \in Nat, d \in S
          PROVE  d + 1 \in S
      <3>1. CASE d + 1 \in 0 .. n
        <4>1. d \in 0 .. n /\ d + 1 \in 1 .. n /\ d + 1 - 1 = d
          BY <1>1, <3>1
        <4> QED
          BY <1>3, <1>11, <2>2, <4>1
      <3> QED
        BY <3>1
    <2> HIDE DEF S
    <2>3. Nat \subseteq S
      BY <2>1, <2>2, NatSetInduction
    <2> QED
      BY <1>1, <2>3 DEF S
  <1> QED
    BY <1>1, <1>9, <1>10, <1>11, <1>12 DEF n, Step

(* A deeper run gives back what a shallower one does.                        *)
LEMMA DeeperRunsKeep ==
    ASSUME CallsAreResolved, PlainPrograms, NEW program, Written(program),
           NEW d \in 0 .. Cardinality(Fns), NEW e \in d .. Cardinality(Fns),
           NEW f \in Fns, NEW x \in Universe
    PROVE  Runs(program)[d][f][x] \subseteq Runs(program)[e][f][x]
  <1> DEFINE n == Cardinality(Fns)
             run == Runs(program)
             Within(s, t) == \A h \in Fns : \A y \in Universe : s[h][y] \subseteq t[h][y]
  <1>1. /\ n \in Nat /\ run[0] = Nothing
        /\ \A k \in 0 .. n : run[k] \in Tables
        /\ \A k \in 1 .. n : run[k] = Deepen(program, run[k - 1])
    BY RunsAre
  <1>2. ASSUME NEW s \in Tables, NEW t \in Tables, Within(s, t)
        PROVE  Within(Deepen(program, s), Deepen(program, t))
    <2> SUFFICES ASSUME NEW h \in Fns, NEW y \in Universe
                 PROVE  Result(program[h], y, s) \subseteq Result(program[h], y, t)
      BY DEF Deepen
    <2> DEFINE b == program[h]
    <2>1. Plain(b) /\ (b.form = "call" => b.callee \in Fns)
      <3>1. b \in Bodies[h]
        BY DEF Written
      <3> QED
        BY <3>1 DEF PlainPrograms, CallsAreResolved
    <2> HIDE DEF b
    <2>2. CASE b.form = "const"
      <3>1. Result(b, y, s) = {b.n} /\ Result(b, y, t) = {b.n}
        BY <2>2 DEF Result
      <3> QED
        BY <3>1 DEF b
    <2>3. CASE b.form = "step"
      <3>1. /\ Result(b, y, s) = {IF y < 0 THEN -1 ELSE Wrap(y + b.n)}
            /\ Result(b, y, t) = {IF y < 0 THEN -1 ELSE Wrap(y + b.n)}
        BY <2>3 DEF Result
      <3> QED
        BY <3>1 DEF b
    <2>4. CASE b.form = "call"
      <3>1. Wrap(y + b.n) \in Universe
        <4>1. y + b.n \in Int
          BY <2>1, EvidenceAssumption DEF Plain, Universe
        <4> QED
          BY <4>1, WrapIs
      <3>2. /\ Result(b, y, s) = s[b.callee][Wrap(y + b.n)]
            /\ Result(b, y, t) = t[b.callee][Wrap(y + b.n)]
        BY <2>4 DEF Result
      <3>3. Result(b, y, s) \subseteq Result(b, y, t)
        BY <1>2, <2>1, <2>4, <3>1, <3>2
      <3> QED
        BY <3>3 DEF b
    <2> QED
      BY <2>1, <2>2, <2>3, <2>4 DEF Plain
  <1> HIDE DEF n, run
  <1>3. \A k \in 1 .. n : Within(run[k - 1], run[k])
    <2> DEFINE S == {k \in Nat : k + 1 \in 1 .. n => Within(run[k], run[k + 1])}
    <2>1. 0 \in S
      BY <1>1 DEF Nothing
    <2>2. ASSUME NEW k \in Nat, k \in S
          PROVE  k + 1 \in S
      <3> SUFFICES ASSUME k + 1 + 1 \in 1 .. n
                   PROVE  Within(run[k + 1], run[k + 1 + 1])
        OBVIOUS
      <3>1. k + 1 \in 1 .. n /\ k \in 0 .. n /\ k + 1 \in 0 .. n
        BY <1>1
      <3>2. Within(run[k], run[k + 1])
        BY <2>2, <3>1
      <3>3. run[k] \in Tables /\ run[k + 1] \in Tables
        BY <1>1, <3>1
      <3>4. run[k + 1] = Deepen(program, run[k]) /\ run[k + 1 + 1] = Deepen(program, run[k + 1])
        <4>1. k + 1 - 1 = k /\ k + 1 + 1 - 1 = k + 1
          OBVIOUS
        <4> QED
          BY <1>1, <3>1, <4>1
      <3> HIDE DEF Within
      <3> QED
        BY <1>2, <3>2, <3>3, <3>4
    <2> HIDE DEF S
    <2>3. Nat \subseteq S
      BY <2>1, <2>2, NatSetInduction
    <2>4. ASSUME NEW k \in 1 .. n
          PROVE  Within(run[k - 1], run[k])
      <3>1. k - 1 \in Nat /\ k - 1 + 1 = k
        OBVIOUS
      <3>2. k - 1 \in S
        BY <2>3, <3>1
      <3> HIDE DEF Within
      <3> QED
        BY <3>1, <3>2 DEF S
    <2> QED
      BY <2>4
  <1>4. Within(run[d], run[e])
    <2> DEFINE S == {k \in Nat : d + k \in d .. n => Within(run[d], run[d + k])}
    <2>1. 0 \in S
      BY DEF n
    <2>2. ASSUME NEW k \in Nat, k \in S
          PROVE  k + 1 \in S
      <3> SUFFICES ASSUME d + (k + 1) \in d .. n
                   PROVE  Within(run[d], run[d + (k + 1)])
        OBVIOUS
      <3>1. d + k \in d .. n /\ d + (k + 1) \in 1 .. n /\ d + (k + 1) - 1 = d + k
        BY <1>1 DEF n
      <3>2. Within(run[d + k], run[d + (k + 1)])
        <4> HIDE DEF Within
        <4> QED
          BY <1>3, <3>1
      <3>3. Within(run[d], run[d + k])
        <4> HIDE DEF Within
        <4> QED
          BY <2>2, <3>1
      <3> QED
        BY <3>2, <3>3
    <2> HIDE DEF S
    <2>3. Nat \subseteq S
      BY <2>1, <2>2, NatSetInduction
    <2>4. e - d \in Nat /\ d + (e - d) = e /\ e \in d .. n
      BY <1>1 DEF n
    <2>5. e - d \in S
      BY <2>3, <2>4
    <2> HIDE DEF Within
    <2> QED
      BY <2>4, <2>5 DEF S
  <1> QED
    BY <1>4 DEF run

-----------------------------------------------------------------------------
(* A predicate is true of what run gives back on the inputs in In.           *)
TrueOver(In, run, f, p) == \A x \in In[f] : \A r \in run[f][x] : Holds(p, x, r)

AllTrue(In, run, f) == \A i \in DOMAIN claims[f] : TrueOver(In, run, f, claims[f][i].pred)

(* Inside In, f calls nobody with an input outside In.                       *)
Closed(In, f) ==
    body[f].form = "call" => \A x \in In[f] : Wrap(x + body[f].n) \in In[body[f].callee]

AllInputs == [Fns -> SUBSET Universe]

(* What Z3 assumes of the result of a body covers what the compiled body     *)
(* gives back, as long as its callee's claims are true.                      *)
LEMMA ResultIsConsidered ==
    ASSUME Shape, CallsAreResolved, PlainPrograms,
           NEW f \in Fns, NEW p \in Preds, NEW w, NEW hyps,
           NEW In \in AllInputs, Closed(In, f), NEW calls \in Tables,
           body[f].form = "call" => AllTrue(In, calls, body[f].callee),
           NEW x \in In[f], NEW r \in Result(body[f], x, calls)
    PROVE  r \in SmtReturns(Problem(f, p, w, hyps), x)
  <1> DEFINE b == body[f]
             problem == Problem(f, p, w, hyps)
  <1>1. b \in Bodies[f] /\ Written(body)
    BY DEF Shape, Written
  <1>2. Plain(b) /\ (b.form = "call" => b.callee \in Fns)
    BY <1>1 DEF PlainPrograms, CallsAreResolved
  <1>3. x \in Universe /\ x \in Int /\ b.n \in Int
    BY <1>2, EvidenceAssumption DEF AllInputs, Universe, Plain
  <1>4. r \in Universe
    <2>1. Result(b, x, calls) \in SUBSET Universe
      BY <1>1, <1>3, ResultsAre
    <2> QED
      BY <2>1
  <1>5. problem.body = b /\ problem.facts = CalleeFacts(b)
    BY DEF Problem
  <1>6. r \in Result(b, x, calls)
    OBVIOUS
  <1>7. b.form = "call" => Closed(In, f) /\ AllTrue(In, calls, b.callee)
    OBVIOUS
  <1>8. b.form = "call" => \A y \in In[f] : Wrap(y + b.n) \in In[b.callee]
    BY DEF Closed
  <1> HIDE DEF b, problem
  <1>9. CASE b.form = "const"
    <2>1. r \in {b.n}
      BY <1>6, <1>9 DEF Result
    <2>2. SmtReturns(problem, x) = {b.n}
      BY <1>5, <1>9 DEF SmtReturns
    <2> QED
      BY <2>1, <2>2 DEF problem
  <1>10. CASE b.form = "step"
    <2>1. r = IF x < 0 THEN -1 ELSE Wrap(x + b.n)
      BY <1>6, <1>10 DEF Result
    <2>2. SmtReturns(problem, x) = {IF x < 0 THEN -1 ELSE x + b.n}
      BY <1>5, <1>10 DEF SmtReturns
    <2>3. x >= 0 => Wrap(x + b.n) = x + b.n
      <3>1. x >= 0 => x + b.n \in Universe
        BY <1>2, <1>3, <1>10 DEF Plain
      <3>2. x + b.n \in Int
        BY <1>3
      <3> QED
        BY <3>1, <3>2, WrapIs
    <2>4. r \in SmtReturns(problem, x)
      BY <1>3, <2>1, <2>2, <2>3
    <2> QED
      BY <2>4 DEF problem
  <1>11. CASE b.form = "call"
    <2> DEFINE g == b.callee
               y == Wrap(x + b.n)
    <2>1. g \in Fns /\ y \in In[g] /\ r \in calls[g][y]
      BY <1>2, <1>6, <1>8, <1>11 DEF Result
    <2>2. \A i \in DOMAIN claims[g] : Holds(claims[g][i].pred, y, r)
      BY <1>7, <1>11, <2>1 DEF AllTrue, TrueOver
    <2>3. SmtReturns(problem, x) = {q \in SmtInts : \A c \in CalleeFacts(b) : Holds(c, x, q)}
      BY <1>5, <1>11 DEF SmtReturns
    <2>4. r \in SmtInts
      BY <1>4, EvidenceAssumption DEF Universe
    <2>5. CalleeFacts(b) = {c \in {claims[g][i].pred : i \in DOMAIN claims[g]} : UsesReturn(c)}
      BY <1>11 DEF CalleeFacts
    <2>6. b.n = 0 => y = x
      BY <1>3, WrapIs
    <2>7. claims[g] \in Seq(Claims)
      BY <2>1 DEF Shape
    <2> HIDE DEF g, y
    <2>8. ASSUME NEW i \in DOMAIN claims[g], UsesReturn(claims[g][i].pred)
          PROVE  Holds(claims[g][i].pred, x, r)
      <3> DEFINE c == claims[g][i].pred
      <3>1. Holds(c, y, r)
        BY <2>2
      <3>2. c \in Preds
        <4>1. claims[g][i] \in Claims
          BY <2>7, ElementOfSeq, LenProperties
        <4> QED
          BY <4>1 DEF Claims
      <3>3. c.scope # "param"
        BY <2>8 DEF UsesReturn
      <3> HIDE DEF c
      <3>4. c.scope \in {"param", "return", "relative"}
        BY <3>2 DEF PlainPrograms
      <3>5. CASE c.scope = "return"
        <4>1. Holds(c, x, r)
          BY <3>1, <3>5 DEF Holds
        <4> QED
          BY <4>1 DEF c
      <3>6. CASE c.scope = "relative"
        <4>1. b.n = 0
          BY <1>2, <1>11, <3>2, <3>6 DEF Plain
        <4>2. Holds(c, x, r)
          BY <2>6, <3>1, <4>1
        <4> QED
          BY <4>2 DEF c
      <3> QED
        BY <3>3, <3>4, <3>5, <3>6
    <2>9. r \in SmtReturns(problem, x)
      BY <2>3, <2>4, <2>5, <2>8
    <2> QED
      BY <2>9 DEF problem
  <1> QED
    BY <1>2, <1>9, <1>10, <1>11 DEF Plain

(* `unsat` is worth this: what satisfies the hypotheses satisfies the goal.  *)
LEMMA ProblemIsSound ==
    ASSUME Shape, CallsAreResolved, PlainPrograms,
           NEW f \in Fns, NEW p \in Preds, NEW w, NEW hyps \in Seq(Claims),
           Unsat(Problem(f, p, w, hyps)),
           NEW In \in AllInputs, Closed(In, f), NEW calls \in Tables,
           body[f].form = "call" => AllTrue(In, calls, body[f].callee),
           NEW x \in In[f], NEW r \in Result(body[f], x, calls),
           \A i \in DOMAIN hyps : Holds(hyps[i].pred, x, r)
    PROVE  Holds(p, x, r)
  <1> DEFINE problem == Problem(f, p, w, hyps)
  <1>1. r \in SmtReturns(problem, x)
    BY ResultIsConsidered
  <1>2. problem.hyps = PredsOf(hyps) /\ problem.goal = p /\ Unsat(problem)
    BY DEF Problem
  <1>3. x \in Universe
    BY DEF AllInputs
  <1> HIDE DEF problem
  <1>4. \A i \in DOMAIN problem.hyps : Holds(problem.hyps[i], x, r)
    BY <1>2 DEF PredsOf
  <1> QED
    BY <1>1, <1>2, <1>3, <1>4 DEF Unsat

-----------------------------------------------------------------------------
(* What the compiled functions give back, and what they give back to a       *)
(* caller.                                                                   *)
Final == Runs(body)[Cardinality(Fns)]
Called == Runs(body)[Cardinality(Fns) - 1]

LEMMA FinalIs ==
    ASSUME Shape, CallsAreResolved, PlainPrograms, NEW f \in Fns
    PROVE  /\ Called \in Tables
           /\ \A x \in Universe : Final[f][x] = Result(body[f], x, Called)
           /\ \A g \in Fns : \A x \in Universe : Called[g][x] \subseteq Final[g][x]
  <1> DEFINE n == Cardinality(Fns)
  <1>1. Written(body)
    BY DEF Shape, Written
  <1>2. n \in Nat /\ n # 0
    BY EvidenceAssumption, FS_CardinalityType, FS_EmptySet
  <1>3. /\ \A d \in 0 .. n : Runs(body)[d] \in Tables
        /\ \A d \in 1 .. n : Runs(body)[d] = Deepen(body, Runs(body)[d - 1])
    BY <1>1, RunsAre
  <1>4. n - 1 \in 0 .. n /\ n \in 1 .. n /\ n \in n - 1 .. n
    BY <1>2
  <1>5. Called \in Tables /\ Final = Deepen(body, Called)
    BY <1>3, <1>4 DEF Called, Final
  <1>6. \A x \in Universe : Final[f][x] = Result(body[f], x, Called)
    BY <1>5 DEF Deepen
  <1>7. \A g \in Fns : \A x \in Universe : Called[g][x] \subseteq Final[g][x]
    BY <1>1, <1>4, DeeperRunsKeep DEF Called, Final
  <1> QED
    BY <1>5, <1>6, <1>7

(* The inputs in In are such that whatever was added by hand is true and no  *)
(* call leaves In.                                                           *)
AssertionsOver(In) ==
    \A f \in Fns :
        /\ \A i \in DOMAIN claims[f] :
              claims[f][i].asserted => TrueOver(In, Final, f, claims[f][i].pred)
        /\ Closed(In, f)

(* Without edits, every claim follows from those added by hand: whichever    *)
(* inputs they are true on, the proved claims are true on, too.              *)
Follows ==
    \A In \in AllInputs : AssertionsOver(In) => \A f \in Fns : AllTrue(In, Final, f)

(* Without `claim relax`, a proof has the claims before it as hypotheses.    *)
InOrder ==
    \A f \in Fns : \A i \in DOMAIN claims[f] :
        ~claims[f][i].asserted => Len(claims[f][i].evidence.body.hyps) = i - 1

(* The inductive strengthening of VerifiedProgramIsSound.                    *)
Earned ==
    /\ policy \in Policies
    /\ "edit" \notin policy => Follows
    /\ "edit" \in policy => InOrder

LEMMA AddKeepsFollows ==
    ASSUME Shape, CallsAreResolved, PlainPrograms, Follows,
           NEW f \in Fns, NEW c \in Claims, AddClaim(f, c), body' = body,
           c.asserted \/ Unsat(Problem(f, c.pred, "witness", claims[f]))
    PROVE  Follows'
  <1>1. claims[f] \in Seq(Claims) /\ Len(claims[f]) \in Nat /\ DOMAIN claims[f] = 1 .. Len(claims[f])
    BY LenProperties DEF Shape
  <1>2. /\ claims'[f] = Append(claims[f], c)
        /\ \A g \in Fns : g # f => claims'[g] = claims[g]
    BY DEF AddClaim, Shape
  <1>3. /\ DOMAIN claims'[f] = 1 .. Len(claims[f]) + 1
        /\ \A i \in DOMAIN claims[f] : claims'[f][i] = claims[f][i]
        /\ claims'[f][Len(claims[f]) + 1] = c
    <2>1. /\ Append(claims[f], c) \in Seq(Claims)
          /\ Len(Append(claims[f], c)) = Len(claims[f]) + 1
      BY <1>1, AppendProperties
    <2> QED
      BY <1>1, <1>2, <2>1, AppendProperties, LenProperties
  <1>4. \A g \in Fns : \A i \in DOMAIN claims[g] :
           i \in DOMAIN claims'[g] /\ claims'[g][i] = claims[g][i]
    BY <1>1, <1>2, <1>3
  <1>5. Final' = Final
    BY DEF Final
  <1>6. ASSUME NEW In \in AllInputs, AssertionsOver(In)'
        PROVE  \A g \in Fns : AllTrue(In, Final, g)' 
    <2>1. \A g \in Fns : Closed(In, g)
      BY <1>6 DEF AssertionsOver, Closed
    <2>2. \A g \in Fns : \A i \in DOMAIN claims'[g] :
             claims'[g][i].asserted => TrueOver(In, Final, g, claims'[g][i].pred)
      BY <1>5, <1>6 DEF AssertionsOver, TrueOver
    <2>3. AssertionsOver(In)
      BY <1>4, <2>1, <2>2 DEF AssertionsOver
    <2>4. \A g \in Fns : AllTrue(In, Final, g)
      BY <1>6, <2>3 DEF Follows
    <2>5. TrueOver(In, Final, f, c.pred)
      <3>1. CASE c.asserted
        BY <1>1, <1>3, <2>2, <3>1
      <3>2. CASE ~c.asserted
        <4> SUFFICES ASSUME NEW x \in In[f], NEW r \in Final[f][x]
                     PROVE  Holds(c.pred, x, r)
          BY DEF TrueOver
        <4>1. /\ Called \in Tables /\ x \in Universe
              /\ Final[f][x] = Result(body[f], x, Called)
              /\ \A g \in Fns : \A y \in Universe : Called[g][y] \subseteq Final[g][y]
          BY FinalIs DEF AllInputs
        <4>2. r \in Result(body[f], x, Called)
          BY <4>1
        <4>3. body[f].form = "call" => AllTrue(In, Called, body[f].callee)
          <5> SUFFICES ASSUME body[f].form = "call"
                       PROVE  AllTrue(In, Called, body[f].callee)
            OBVIOUS
          <5>1. body[f].callee \in Fns
            BY DEF Shape, CallsAreResolved
          <5>2. In[body[f].callee] \subseteq Universe
            BY <5>1 DEF AllInputs
          <5> QED
            BY <2>4, <4>1, <5>1, <5>2 DEF AllTrue, TrueOver
        <4>4. \A i \in DOMAIN claims[f] : Holds(claims[f][i].pred, x, r)
          BY <2>4 DEF AllTrue, TrueOver
        <4>5. c.pred \in Preds /\ Closed(In, f) /\ Unsat(Problem(f, c.pred, "witness", claims[f]))
          BY <2>1, <3>2 DEF Claims
        <4> HIDE DEF Called, Final
        <4> QED
          BY <1>1, <4>1, <4>2, <4>3, <4>4, <4>5, ProblemIsSound
      <3> QED
        BY <3>1, <3>2
    <2>6. ASSUME NEW g \in Fns, NEW i \in DOMAIN claims'[g]
          PROVE  TrueOver(In, Final, g, claims'[g][i].pred)
      <3>1. CASE i \in DOMAIN claims[g]
        BY <1>4, <2>4, <3>1 DEF AllTrue
      <3>2. CASE i \notin DOMAIN claims[g]
        <4>1. g = f /\ i = Len(claims[f]) + 1
          BY <1>1, <1>2, <1>3, <3>2
        <4> QED
          BY <1>3, <2>5, <4>1
      <3> QED
        BY <3>1, <3>2
    <2> QED
      BY <1>5, <2>6 DEF AllTrue, TrueOver
  <1> QED
    BY <1>6 DEF Follows

LEMMA RelaxKeepsFollows ==
    ASSUME Shape, Follows, NEW f \in Fns, NEW n \in DOMAIN claims[f],
           ~claims[f][n].asserted, body' = body,
           claims' = [claims EXCEPT ![f] = RemoveAt(@, n)]
    PROVE  Follows'
  <1>1. claims[f] \in Seq(Claims) /\ Len(claims[f]) \in Nat /\ DOMAIN claims[f] = 1 .. Len(claims[f])
    BY LenProperties DEF Shape
  <1>2. /\ claims'[f] = RemoveAt(claims[f], n)
        /\ \A g \in Fns : g # f => claims'[g] = claims[g]
    BY DEF Shape
  <1>3. /\ DOMAIN claims'[f] = 1 .. Len(claims[f]) - 1
        /\ \A k \in 1 .. Len(claims[f]) - 1 :
              claims'[f][k] = claims[f][IF k < n THEN k ELSE k + 1]
    <2>1. /\ RemoveAt(claims[f], n) \in Seq(Claims)
          /\ Len(RemoveAt(claims[f], n)) = Len(claims[f]) - 1
          /\ \A k \in 1 .. Len(claims[f]) - 1 :
                RemoveAt(claims[f], n)[k] = claims[f][IF k < n THEN k ELSE k + 1]
      BY <1>1, RemoveAtIsASelection
    <2> QED
      BY <1>2, <2>1, LenProperties
  <1>4. ASSUME NEW g \in Fns, NEW i \in DOMAIN claims'[g]
        PROVE  \E k \in DOMAIN claims[g] : claims'[g][i] = claims[g][k]
    <2>1. CASE g = f
      <3> DEFINE k == IF i < n THEN i ELSE i + 1
      <3>1. k \in DOMAIN claims[f]
        BY <1>1, <1>3, <2>1
      <3>2. claims'[f][i] = claims[f][k]
        BY <1>3, <2>1
      <3> QED
        BY <2>1, <3>1, <3>2
    <2> QED
      BY <1>2, <2>1
  <1>5. ASSUME NEW g \in Fns, NEW i \in DOMAIN claims[g], claims[g][i].asserted
        PROVE  \E k \in DOMAIN claims'[g] : claims'[g][k] = claims[g][i]
    <2>1. CASE g = f
      <3>1. i # n /\ i \in 1 .. Len(claims[f]) /\ n \in 1 .. Len(claims[f])
        BY <1>1, <1>5, <2>1
      <3> DEFINE k == IF i < n THEN i ELSE i - 1
      <3>2. k \in 1 .. Len(claims[f]) - 1 /\ (IF k < n THEN k ELSE k + 1) = i
        BY <1>1, <3>1
      <3>3. claims'[f][k] = claims[f][i]
        BY <1>3, <3>2
      <3> QED
        BY <1>3, <2>1, <3>2, <3>3
    <2> QED
      BY <1>2, <2>1
  <1>6. Final' = Final
    BY DEF Final
  <1>7. ASSUME NEW In \in AllInputs, AssertionsOver(In)'
        PROVE  \A g \in Fns : AllTrue(In, Final, g)'
    <2>1. \A g \in Fns : Closed(In, g)
      BY <1>7 DEF AssertionsOver, Closed
    <2>2. \A g \in Fns : \A k \in DOMAIN claims'[g] :
             claims'[g][k].asserted => TrueOver(In, Final, g, claims'[g][k].pred)
      BY <1>6, <1>7 DEF AssertionsOver, TrueOver
    <2>3. AssertionsOver(In)
      BY <1>5, <2>1, <2>2 DEF AssertionsOver
    <2>4. \A g \in Fns : AllTrue(In, Final, g)
      BY <1>7, <2>3 DEF Follows
    <2>5. \A g \in Fns : \A i \in DOMAIN claims'[g] : TrueOver(In, Final, g, claims'[g][i].pred)
      BY <1>4, <2>4 DEF AllTrue
    <2> QED
      BY <1>6, <2>5 DEF AllTrue, TrueOver
  <1> QED
    BY <1>7 DEF Follows

LEMMA AddKeepsOrder ==
    ASSUME Shape, InOrder, NEW f \in Fns, NEW c \in Claims, AddClaim(f, c),
           c.asserted \/ Len(c.evidence.body.hyps) = Len(claims[f])
    PROVE  InOrder'
  <1>1. claims[f] \in Seq(Claims) /\ Len(claims[f]) \in Nat /\ DOMAIN claims[f] = 1 .. Len(claims[f])
    BY LenProperties DEF Shape
  <1>2. /\ claims'[f] = Append(claims[f], c)
        /\ \A g \in Fns : g # f => claims'[g] = claims[g]
    BY DEF AddClaim, Shape
  <1>3. /\ DOMAIN claims'[f] = 1 .. Len(claims[f]) + 1
        /\ \A i \in DOMAIN claims[f] : claims'[f][i] = claims[f][i]
        /\ claims'[f][Len(claims[f]) + 1] = c
    <2>1. /\ Append(claims[f], c) \in Seq(Claims)
          /\ Len(Append(claims[f], c)) = Len(claims[f]) + 1
      BY <1>1, AppendProperties
    <2> QED
      BY <1>1, <1>2, <2>1, AppendProperties, LenProperties
  <1>4. SUFFICES ASSUME NEW g \in Fns, NEW i \in DOMAIN claims'[g], ~claims'[g][i].asserted
                 PROVE  Len(claims'[g][i].evidence.body.hyps) = i - 1
    BY DEF InOrder
  <1>5. CASE g # f
    BY <1>2, <1>4, <1>5 DEF InOrder
  <1>6. CASE g = f /\ i \in DOMAIN claims[f]
    BY <1>3, <1>4, <1>6 DEF InOrder
  <1>7. CASE g = f /\ i = Len(claims[f]) + 1
    BY <1>1, <1>3, <1>4, <1>7
  <1> QED
    BY <1>1, <1>3, <1>5, <1>6, <1>7

LEMMA EarnedInit == Init => Earned
  <1> SUFFICES ASSUME Init PROVE Earned
    OBVIOUS
  <1>1. policy \in Policies /\ \A f \in Fns : DOMAIN claims[f] = {}
    BY DEF Init
  <1> QED
    BY <1>1 DEF Earned, Follows, AllTrue, InOrder

LEMMA EarnedStep ==
    ASSUME Shape, InProgress, CallsAreResolved, PlainPrograms, CarefulUsers, Earned, [Next]_vars
    PROVE  Earned'
  <1>1. ASSUME NEW f \in Fns, NEW c \in Claims, AddClaim(f, c), UNCHANGED <<body, policy>>,
               c.asserted \/ /\ Unsat(Problem(f, c.pred, "witness", claims[f]))
                             /\ Len(c.evidence.body.hyps) = Len(claims[f])
        PROVE  Earned'
    BY <1>1, AddKeepsFollows, AddKeepsOrder DEF Earned
  <1>2. ASSUME UNCHANGED <<claims, policy>>, "edit" \in policy \/ body' = body
        PROVE  Earned'
    <2>1. CASE body' = body
      <3>1. Final' = Final
        BY <2>1 DEF Final
      <3> QED
        BY <1>2, <2>1, <3>1 DEF Earned, Follows, AssertionsOver, Closed, AllTrue, TrueOver, InOrder
    <2>2. CASE "edit" \in policy
      BY <1>2, <2>2 DEF Earned, InOrder
    <2> QED
      BY <1>2, <2>1, <2>2
  <1>3. ASSUME NEW f \in Fns, NEW p \in Preds, ClaimAdd(f, p)
        PROVE  Earned'
    <2>1. PICK c \in Claims : c.asserted /\ AddClaim(f, c)
      BY <1>3, AddedClaimsAreClaims
    <2>2. UNCHANGED <<body, policy>>
      BY <1>3 DEF ClaimAdd
    <2> QED
      BY <1>1, <2>1, <2>2
  <1>4. ASSUME NEW f \in Fns, NEW p \in Preds, ClaimRelax(f, p)
        PROVE  Earned'
    <2>1. PICK i \in DOMAIN claims[f] :
                /\ (IF claims[f][i].asserted THEN "retract" ELSE "relax") \in policy
                /\ claims' = [claims EXCEPT ![f] = RemoveAt(@, i)]
      BY <1>4 DEF ClaimRelax
    <2>2. "retract" \notin policy /\ ("edit" \notin policy \/ "relax" \notin policy)
      BY DEF CarefulUsers, Earned
    <2>3. ~claims[f][i].asserted /\ "edit" \notin policy
      BY <2>1, <2>2
    <2>4. UNCHANGED <<body, policy>>
      BY <1>4 DEF ClaimRelax
    <2>5. Follows'
      BY <2>1, <2>3, <2>4, RelaxKeepsFollows DEF Earned
    <2> QED
      BY <2>3, <2>4, <2>5 DEF Earned
  <1>5. ASSUME NEW f \in Fns, NEW p \in Preds, ProveWrites(f, p)
        PROVE  Earned'
    BY <1>2, <1>5 DEF ProveWrites
  <1>6. CASE ProveSaves
    <2> DEFINE f == proving.fn
               problem == proving.problem
               c == ProvedClaim(proving.pred, problem)
    <2>1. proving \in [fn : Fns, pred : Preds, problem : Problems]
      BY <1>6 DEF ProveSaves, Shape
    <2>2. f \in Fns /\ c \in Claims
      BY <2>1, ProvedClaimsAreClaims
    <2>3. AddClaim(f, c) /\ UNCHANGED <<body, policy>>
      BY <1>6 DEF ProveSaves
    <2>4. c.pred = proving.pred /\ c.evidence.body = problem
      BY DEF ProvedClaim, ByZ3
    <2>5. problem = Problem(f, proving.pred, "witness", claims[f]) /\ Unsat(problem)
      BY <1>6 DEF ProveSaves, InProgress
    <2> HIDE DEF c, f, problem
    <2>6. Len(problem.hyps) = Len(claims[f])
      <3>1. problem.hyps = PredsOf(claims[f])
        BY <2>5 DEF Problem
      <3>2. claims[f] \in Seq(Claims)
        BY <2>2 DEF Shape
      <3>3. PredsOf(claims[f]) \in Seq(Preds) /\ DOMAIN PredsOf(claims[f]) = DOMAIN claims[f]
        BY <3>2, PredsOfClaims DEF PredsOf
      <3> QED
        BY <3>1, <3>2, <3>3, LenProperties
    <2> QED
      BY <1>1, <2>2, <2>3, <2>4, <2>5, <2>6
  <1>7. CASE ProveDies
    BY <1>2, <1>7 DEF ProveDies
  <1>8. ASSUME NEW f \in Fns, NEW b \in Bodies[f], EditBody(f, b)
        PROVE  Earned'
    BY <1>2, <1>8 DEF EditBody
  <1>9. ASSUME NEW a \in disk, LoseArtifact(a)
        PROVE  Earned'
    BY <1>2, <1>9 DEF LoseArtifact
  <1>10. ASSUME NEW v \in Versions, Upgrade(v)
         PROVE  Earned'
    BY <1>2, <1>10 DEF Upgrade
  <1>11. CASE UNCHANGED vars
    BY <1>2, <1>11 DEF vars
  <1> QED
    BY <1>3, <1>4, <1>5, <1>6, <1>7, <1>8, <1>9, <1>10, <1>11 DEF Next

-----------------------------------------------------------------------------
(* When proofs come in order and the problem of a proved claim, rebuilt from *)
(* all other claims, is the one that was proved, it is the last claim.       *)
LEMMA WitnessesComeLast ==
    ASSUME Shape, InOrder, NEW f \in Fns, NEW i \in DOMAIN claims[f],
           ~claims[f][i].asserted, claims[f][i].evidence.kind = "z3", ClaimOk(f, i)
    PROVE  i = Len(claims[f])
  <1> DEFINE c == claims[f][i]
  <1>1. claims[f] \in Seq(Claims) /\ Len(claims[f]) \in Nat /\ i \in 1 .. Len(claims[f])
    BY LenProperties DEF Shape
  <1>2. Others(f, i) \in Seq(Claims) /\ Len(Others(f, i)) = Len(claims[f]) - 1
    BY <1>1, RemoveAtIsASelection DEF Others
  <1>3. c.evidence.body.hyps = PredsOf(Others(f, i))
    BY DEF ClaimOk, Problem
  <1>4. Len(PredsOf(Others(f, i))) = Len(Others(f, i))
    <2>1. PredsOf(Others(f, i)) \in Seq(Preds)
          /\ DOMAIN PredsOf(Others(f, i)) = DOMAIN Others(f, i)
      BY <1>2, PredsOfClaims DEF PredsOf
    <2> QED
      BY <1>2, <2>1, LenProperties
  <1>5. Len(c.evidence.body.hyps) = i - 1
    BY DEF InOrder
  <1> QED
    BY <1>1, <1>2, <1>3, <1>4, <1>5

(* Then a claim is true of the runs of each depth because those by hand are, *)
(* and because the callee's claims are true of runs one call less deep.      *)
LEMMA VerifiedInOrder ==
    ASSUME Shape, TypeOK, CallsAreResolved, PlainPrograms, InOrder, VerifyPasses,
           Evident, NEW In \in AllInputs, AssertionsOver(In)
    PROVE  \A f \in Fns : AllTrue(In, Final, f)
  <1> DEFINE n == Cardinality(Fns)
             run == Runs(body)
             S == {d \in Nat : d \in 0 .. n => \A f \in Fns : AllTrue(In, run[d], f)}
  <1>1. Written(body)
    BY DEF Shape, Written
  <1>2. /\ n \in Nat /\ run[0] = Nothing
        /\ \A d \in 0 .. n : run[d] \in Tables
        /\ \A d \in 1 .. n : run[d] = Deepen(body, run[d - 1])
    BY <1>1, RunsAre
  <1>3. Final = run[n]
    BY DEF Final
  <1>4. \A d \in 0 .. n : \A f \in Fns : \A x \in Universe : run[d][f][x] \subseteq run[n][f][x]
    <2>1. \A d \in 0 .. n : n \in d .. n
      BY <1>2
    <2> QED
      BY <1>1, <2>1, DeeperRunsKeep
  <1> HIDE DEF n, run
  <1>5. 0 \in S
    <2>1. \A f \in Fns : \A x \in In[f] : run[0][f][x] = {}
      BY <1>2 DEF Nothing, AllInputs
    <2> QED
      BY <2>1 DEF AllTrue, TrueOver
  <1>6. ASSUME NEW d \in Nat, d \in S
        PROVE  d + 1 \in S
    <2> SUFFICES ASSUME d + 1 \in 0 .. n, NEW f \in Fns, NEW i \in DOMAIN claims[f],
                        NEW x \in In[f], NEW r \in run[d + 1][f][x]
                 PROVE  Holds(claims[f][i].pred, x, r)
      BY DEF AllTrue, TrueOver
    <2>1. d \in 0 .. n /\ d + 1 \in 1 .. n /\ d + 1 - 1 = d
      BY <1>2
    <2>2. x \in Universe /\ r \in run[n][f][x]
      BY <1>4 DEF AllInputs
    <2>3. claims[f] \in Seq(Claims) /\ Len(claims[f]) \in Nat /\ DOMAIN claims[f] = 1 .. Len(claims[f])
      BY LenProperties DEF Shape
    <2>4. \A j \in DOMAIN claims[f] :
             /\ claims[f][j] \in Claims
             /\ ~claims[f][j].asserted =>
                   /\ claims[f][j].evidence.kind = "z3" /\ ClaimOk(f, j)
                   /\ claims[f][j].evidence.file = claims[f][j].evidence.body
      <3> TAKE j \in DOMAIN claims[f]
      <3> DEFINE c == claims[f][j]
      <3>1. c \in Claims
        BY <2>3, ElementOfSeq
      <3>2. ~c.asserted => c = ProvedClaim(c.pred, c.evidence.file)
        BY DEF TypeOK
      <3> HIDE DEF c
      <3>3. ~c.asserted => c.evidence = ByZ3(c.evidence.file, c.evidence.file)
        BY <3>2 DEF ProvedClaim
      <3>4. ~c.asserted => /\ c.evidence # None /\ c.evidence.kind = "z3"
                           /\ c.evidence.file = c.evidence.body
        BY <3>3 DEF Evident, ByZ3
      <3> QED
        BY <3>1, <3>4 DEF VerifyPasses, c
    <2>5. \A j \in DOMAIN claims[f] :
             claims[f][j].asserted => Holds(claims[f][j].pred, x, r)
      BY <1>3, <2>2 DEF AssertionsOver, TrueOver
    <2>6. CASE ~claims[f][i].asserted
      <3> DEFINE c == claims[f][i]
                 hyps == Others(f, i)
      <3>1. i = Len(claims[f])
        BY <2>4, <2>6, WitnessesComeLast
      <3>2. hyps \in Seq(Claims) /\ \A k \in DOMAIN hyps : Holds(hyps[k].pred, x, r)
        <4>1. /\ hyps \in Seq(Claims) /\ DOMAIN hyps = 1 .. Len(claims[f]) - 1
              /\ \A k \in 1 .. Len(claims[f]) - 1 : hyps[k] = claims[f][k]
          <5>1. /\ hyps \in Seq(Claims) /\ Len(hyps) = Len(claims[f]) - 1
                /\ \A k \in 1 .. Len(claims[f]) - 1 :
                      hyps[k] = claims[f][IF k < i THEN k ELSE k + 1]
            BY <2>3, RemoveAtIsASelection DEF Others
          <5> HIDE DEF hyps
          <5> QED
            BY <2>3, <3>1, <5>1, LenProperties
        <4>2. \A k \in 1 .. Len(claims[f]) - 1 :
                 k \in DOMAIN claims[f] /\ claims[f][k].asserted
          <5> TAKE k \in 1 .. Len(claims[f]) - 1
          <5>1. k \in DOMAIN claims[f] /\ k # Len(claims[f])
            BY <2>3
          <5> QED
            BY <2>4, <5>1, WitnessesComeLast
        <4> HIDE DEF hyps
        <4> QED
          BY <2>5, <4>1, <4>2
      <3>3. Unsat(Problem(f, c.pred, c.regime, hyps))
        <4>1. /\ c.evidence.body = Problem(f, c.pred, c.regime, hyps)
              /\ Unsat(c.evidence.file)
              /\ c.evidence.file = c.evidence.body
          BY <2>4, <2>6 DEF ClaimOk
        <4> QED
          BY <4>1, Zenon
      <3>4. r \in Result(body[f], x, run[d]) /\ run[d] \in Tables
        <4>1. run[d + 1][f][x] = Result(body[f], x, run[d])
          <5>1. run[d + 1] = Deepen(body, run[d])
            BY <1>2, <2>1
          <5> QED
            BY <2>2, <5>1 DEF Deepen
        <4> QED
          BY <1>2, <2>1, <4>1
      <3>5. Closed(In, f) /\ c.pred \in Preds
        BY <2>4 DEF AssertionsOver, Claims
      <3>6. body[f].form = "call" => AllTrue(In, run[d], body[f].callee)
        <4>1. body[f].form = "call" => body[f].callee \in Fns
          BY DEF Shape, CallsAreResolved
        <4> QED
          BY <1>6, <2>1, <4>1
      <3> HIDE DEF c, hyps, S
      <3>7. Holds(c.pred, x, r)
        BY <3>2, <3>3, <3>4, <3>5, <3>6, ProblemIsSound
      <3> QED
        BY <3>7 DEF c
    <2> QED
      BY <2>5, <2>6
  <1> HIDE DEF S
  <1>7. Nat \subseteq S
    BY <1>5, <1>6, NatSetInduction
  <1>8. n \in Nat /\ n \in 0 .. n
    BY <1>2
  <1> QED
    BY <1>3, <1>7, <1>8 DEF S

LEMMA SoundWhenVerified ==
    ASSUME Shape, TypeOK, CallsAreResolved, PlainPrograms, Evident, Earned
    PROVE  VerifiedProgramIsSound
  <1> SUFFICES ASSUME VerifyPasses, AssertionsHold, NEW f \in Fns, NEW i \in DOMAIN claims[f]
               PROVE  True(f, claims[f][i].pred)
    BY DEF VerifiedProgramIsSound
  <1> DEFINE In == [g \in Fns |-> Inputs(g)]
  <1>1. In \in AllInputs
    BY DEF AllInputs, Inputs
  <1>2. \A g \in Fns : \A p : True(g, p) <=> TrueOver(In, Final, g, p)
    BY DEF True, TrueOver, Returned, Final
  <1>3. \A g \in Fns : Closed(In, g)
    <2> TAKE g \in Fns
    <2>1. body[g].form = "call" => body[g].callee \in Fns
      BY DEF Shape, CallsAreResolved
    <2> QED
      BY <2>1 DEF AssertionsHold, Closed
  <1> HIDE DEF In
  <1>4. AssertionsOver(In)
    BY <1>2, <1>3 DEF AssertionsHold, AssertionsOver
  <1>5. CASE "edit" \in policy
    <2>1. AllTrue(In, Final, f)
      BY <1>1, <1>4, <1>5, VerifiedInOrder DEF Earned
    <2> QED
      BY <1>2, <2>1 DEF AllTrue
  <1>6. CASE "edit" \notin policy
    <2>1. AllTrue(In, Final, f)
      BY <1>1, <1>4, <1>6 DEF Earned, Follows
    <2> QED
      BY <1>2, <2>1 DEF AllTrue
  <1> QED
    BY <1>5, <1>6

(* `claim verify` keeps its promise: when it passes, and what the users      *)
(* added by hand is true, under whichever regime and with whatever they      *)
(* cited for it, every claim that `claim prove` stored is true of the        *)
(* compiled program, in every history whose users do not both edit bodies    *)
(* and relax claims (the run claim_repair shows what happens when they do).  *)
THEOREM VerifiedMeansTrue ==
    ASSUME CallsAreResolved, PlainPrograms, CarefulUsers, Evident
    PROVE  Spec => []VerifiedProgramIsSound
  <1> DEFINE IInv == Shape /\ InProgress /\ TypeOK /\ Earned
  <1>1. Init => IInv
    BY ShapeInit, InProgressInit, TypeOKInit, EarnedInit
  <1>2. IInv /\ [Next]_vars => IInv'
    BY ShapeStep, InProgressStep, TypeOKStep, EarnedStep
  <1>3. IInv => VerifiedProgramIsSound
    BY SoundWhenVerified
  <1> QED
    BY <1>1, <1>2, <1>3, PTL DEF Spec
=============================================================================
