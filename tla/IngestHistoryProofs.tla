------------------------ MODULE IngestHistoryProofs -------------------------
(***************************************************************************)
(* What a history of ingests keeps, whatever the translation of C comes to *)
(* and whatever a lift's walk records.                                     *)
(***************************************************************************)
EXTENDS IngestHistory, NatRecursion, SequenceTheorems, FiniteSetTheorems, TLAPS

-----------------------------------------------------------------------------
(* The fold over files.                                                    *)

(* g[k] is what the first k files of the list make of p.                    *)
IsFold(g, p, is, n) ==
    g = [k \in 0 .. n |-> IF k = 0 THEN {p} ELSE MergedInto(g[k - 1], is[k])]

(* The values of such a g.                                                  *)
LEMMA FoldAt ==
    ASSUME NEW g, NEW p, NEW is, NEW n \in Nat, IsFold(g, p, is, n)
    PROVE  g[0] = {p} /\ \A k \in 1 .. n : g[k] = MergedInto(g[k - 1], is[k])
  <1> DEFINE f == [k \in 0 .. n |-> IF k = 0 THEN {p} ELSE MergedInto(g[k - 1], is[k])]
  <1>1. g = f
    BY DEF IsFold
  <1>2. f[0] = {p} /\ \A k \in 1 .. n : f[k] = MergedInto(g[k - 1], is[k])
    OBVIOUS
  <1> HIDE DEF f
  <1>3. f[0] = {p} /\ \A k \in 1 .. n : g[k] = f[k] /\ f[k] = MergedInto(g[k - 1], is[k])
    BY <1>1, <1>2
  <1> QED
    BY <1>1, <1>3

(* There is such a g for every number of files.                             *)
LEMMA FoldExists ==
    ASSUME NEW p, NEW is, NEW n \in Nat
    PROVE  \E g : IsFold(g, p, is, n)
  <1> DEFINE S == {k \in Nat : \E g : IsFold(g, p, is, k)}
  <1>1. 0 \in S
    <2> DEFINE g == [k \in 0 .. 0 |-> {p}]
    <2>1. IsFold(g, p, is, 0)
      BY DEF IsFold
    <2> QED
      BY <2>1
  <1>2. ASSUME NEW k \in Nat, k \in S
        PROVE  k + 1 \in S
    <2>1. PICK g : IsFold(g, p, is, k)
      BY <1>2
    <2> DEFINE more == MergedInto(g[k], is[k + 1])
               h == [j \in 0 .. k + 1 |-> IF j = k + 1 THEN more ELSE g[j]]
               next(j) == MergedInto(h[j - 1], is[j])
    <2>2. DOMAIN h = 0 .. k + 1 /\ h = [j \in 0 .. k + 1 |-> h[j]]
      OBVIOUS
    <2>3. h[0] = {p}
      BY <2>1 DEF IsFold
    <2>4. ASSUME NEW j \in 1 .. k + 1
          PROVE  h[j] = next(j)
      <3>1. CASE j = k + 1
        <4>1. h[j - 1] = g[k]
          BY <3>1
        <4> QED
          BY <3>1, <4>1
      <3>2. CASE j # k + 1
        <4>1. j \in 1 .. k /\ j - 1 \in 0 .. k /\ j - 1 # k + 1 /\ j \in 0 .. k
          BY <3>2
        <4>2. h[j - 1] = g[j - 1] /\ h[j] = g[j]
          BY <4>1
        <4>3. g[j] = MergedInto(g[j - 1], is[j])
          BY <2>1, <4>1, FoldAt
        <4> QED
          BY <4>2, <4>3
      <3> QED
        BY <3>1, <3>2
    <2>5. h = [j \in 0 .. k + 1 |-> IF j = 0 THEN {p} ELSE next(j)]
      <3>1. \A j \in 0 .. k + 1 : j = 0 \/ j \in 1 .. k + 1
        OBVIOUS
      <3> HIDE DEF h, next
      <3> QED
        BY <2>2, <2>3, <2>4, <3>1
    <2>6. IsFold(h, p, is, k + 1)
      <3> HIDE DEF h
      <3> QED
        BY <2>5 DEF IsFold
    <2> QED
      BY <2>6
  <1> HIDE DEF S
  <1>3. n \in S
    BY <1>1, <1>2, NatSetInduction
  <1> QED
    BY <1>3 DEF S

(* Folded is the last of such a g, whose values are as its definition says. *)
Folds(g, p, is) ==
    /\ g[0] = {p}
    /\ \A k \in 1 .. Len(is) : g[k] = MergedInto(g[k - 1], is[k])
    /\ Folded(p, is) = g[Len(is)]
LEMMA FoldedIs ==
    ASSUME NEW p, NEW is, Len(is) \in Nat
    PROVE  \E g : Folds(g, p, is)
  <1> DEFINE g == CHOOSE g : IsFold(g, p, is, Len(is))
  <1>1. IsFold(g, p, is, Len(is))
    BY FoldExists
  <1>2. Folded(p, is) = g[Len(is)]
    BY DEF Folded, IsFold
  <1> HIDE DEF g
  <1>3. g[0] = {p} /\ \A k \in 1 .. Len(is) : g[k] = MergedInto(g[k - 1], is[k])
    BY <1>1, FoldAt
  <1> QED
    BY <1>2, <1>3 DEF Folds

(* What every list that a command folds is.                                 *)
IsEntry(is) ==
    /\ Len(is) \in Nat \ {0} /\ DOMAIN is = 1 .. Len(is)
    /\ \A k \in 1 .. Len(is) : is[k] \in DOMAIN project
    /\ \A j, k \in 1 .. Len(is) : is[j] = is[k] => j = k

(* Projects are sequences and the disk holds a version of each file.        *)
Sources ==
    /\ project \in Projects
    /\ \A i \in DOMAIN project : source[i] \in DOMAIN project[i].versions

LEMMA ProjectIsSequence ==
    ASSUME Sources
    PROVE  Len(project) \in Nat /\ DOMAIN project = 1 .. Len(project)
  BY ProjectsAssumption DEF Sources

(* The lists of the two commands are entries; that of `quod ingest` is the  *)
(* empty one for a project without files.                                   *)
LEMMA EntriesAreEntries ==
    ASSUME Sources, NEW is \in Entries, is # <<>>
    PROVE  IsEntry(is)
  <1>1. Len(project) \in Nat /\ DOMAIN project = 1 .. Len(project)
    BY ProjectIsSequence
  <1>2. CASE \E i \in DOMAIN project : is = <<i>>
    BY <1>2 DEF IsEntry
  <1>3. CASE is = [i \in DOMAIN project |-> i]
    <2>1. is \in Seq(1 .. Len(project)) /\ Len(is) = Len(project)
      BY <1>1, <1>3
    <2>2. Len(is) # 0
      BY <2>1
    <2> QED
      BY <1>1, <1>3, <2>1, <2>2 DEF IsEntry
  <1> QED
    BY <1>2, <1>3 DEF Entries

(* What is translated is a translation, and there is at most one.           *)
LEMMA TranslatedIs ==
    ASSUME Sources, NEW i \in DOMAIN project
    PROVE  /\ \A new \in Translated(i) : IsTranslation(new, project[i].versions[source[i]])
           /\ \A m, n \in Translated(i) : m = n
  BY ProjectsAssumption DEF Sources, Translated

(* A program a fold reaches is one more file merged into a program that the *)
(* fold reached before.                                                     *)
LEMMA FoldStep ==
    ASSUME NEW g, NEW p, NEW is, Folds(g, p, is), NEW k \in 1 .. Len(is), NEW q \in g[k]
    PROVE  \E r \in g[k - 1], new \in Translated(is[k]) : q = MergeProgram(r, new)
  BY DEF Folds, MergedInto

-----------------------------------------------------------------------------
(* What a program is.                                                      *)

IsProgram(p) ==
    p = [structured |-> p.structured, functions |-> p.functions, claims |-> p.claims,
         constants |-> p.constants, units |-> p.units, lifts |-> p.lifts,
         origin |-> p.origin, touched |-> p.touched]

(* A function has all of its layers, its claims and its origin.             *)
LayersFit(p) ==
    /\ DOMAIN p.functions = DOMAIN p.structured /\ DOMAIN p.claims = DOMAIN p.functions
    /\ DOMAIN p.origin = DOMAIN p.functions

(* Claims are about integers their function has.                            *)
ClaimsFit(p) == \A f \in DOMAIN p.functions : \A c \in p.claims[f] : TargetIn(c, p.functions[f])

(* A lift is of a function of the program, and was on trust from the start  *)
(* if it has no pin.                                                        *)
IsLift(l) ==
    /\ l = [fn |-> l.fn, pin |-> l.pin, own |-> l.own]
    /\ l.pin = {} => l.own = TRUE
LiftsFit(p) == \A l \in p.lifts : IsLift(l) /\ l.fn \in DOMAIN p.structured

(* Units are listed once for a file.                                        *)
UnitsFit(p) ==
    /\ Len(p.units) \in Nat /\ p.units \in Seq({p.units[i] : i \in 1 .. Len(p.units)})
    /\ \A i, j \in DOMAIN p.units : p.units[i].path = p.units[j].path => i = j

Fits(p) == IsProgram(p) /\ LayersFit(p) /\ ClaimsFit(p) /\ LiftsFit(p) /\ UnitsFit(p)

LEMMA OverIs ==
    ASSUME NEW new, NEW old
    PROVE  /\ DOMAIN Over(new, old) = DOMAIN new \cup DOMAIN old
           /\ \A x \in DOMAIN new : Over(new, old)[x] = new[x]
           /\ \A x \in DOMAIN old : x \notin DOMAIN new => Over(new, old)[x] = old[x]
  BY DEF Over

(* The claims a merge leaves on a function.                                 *)
ClaimsMerged(claims, p, new) ==
    /\ DOMAIN claims = DOMAIN new.claims \cup DOMAIN p.claims
    /\ \A f \in DOMAIN p.claims : f \notin DOMAIN new.claims => claims[f] = p.claims[f]
    /\ \A f \in DOMAIN new.claims : f \notin DOMAIN p.claims => claims[f] = {}
    /\ \A f \in DOMAIN new.claims : f \in DOMAIN p.claims =>
          claims[f] = ReconcileClaims(p.claims[f], new.functions[f])
LEMMA MergedClaims ==
    ASSUME NEW p, NEW new, NEW version, IsTranslation(new, version)
    PROVE  ClaimsMerged(MergeClaims(p, new), p, new)
  <1>1. \A f \in DOMAIN new.claims : new.claims[f] = {}
    BY DEF IsTranslation
  <1>2. DOMAIN MergeClaims(p, new) = DOMAIN new.claims \cup DOMAIN p.claims
    BY DEF MergeClaims
  <1>3. ASSUME NEW f \in DOMAIN p.claims, f \notin DOMAIN new.claims
        PROVE  MergeClaims(p, new)[f] = p.claims[f]
    BY <1>3 DEF MergeClaims
  <1>4. ASSUME NEW f \in DOMAIN new.claims, f \notin DOMAIN p.claims
        PROVE  MergeClaims(p, new)[f] = {}
    BY <1>1, <1>4 DEF MergeClaims
  <1>5. ASSUME NEW f \in DOMAIN new.claims, f \in DOMAIN p.claims
        PROVE  MergeClaims(p, new)[f] = ReconcileClaims(p.claims[f], new.functions[f])
    BY <1>1, <1>5 DEF MergeClaims
  <1> QED
    BY <1>2, <1>3, <1>4, <1>5 DEF ClaimsMerged

(* A merge of a translation leaves a program that fits.                     *)
LEMMA MergeFits ==
    ASSUME NEW p, NEW new, NEW version, IsTranslation(new, version), Fits(p)
    PROVE  Fits(MergeProgram(p, new))
  <1> DEFINE q == MergeProgram(p, new)
  <1>0. /\ q.structured = Over(new.structured, p.structured)
        /\ q.functions = Over(new.functions, p.functions)
        /\ q.claims = MergeClaims(p, new)
        /\ q.origin = Over(new.origin, p.origin)
        /\ q.lifts = p.lifts \cup new.lifts
        /\ q.units = IF new.units = {} THEN p.units
                     ELSE MergeUnit(p.units, CHOOSE u \in new.units : TRUE)
    BY DEF MergeProgram
  <1>1. IsProgram(q)
    BY DEF MergeProgram, IsProgram
  <1>2. /\ DOMAIN new.structured = DOMAIN new.functions /\ DOMAIN new.origin = DOMAIN new.functions
        /\ DOMAIN new.claims = DOMAIN new.functions
        /\ \A l \in new.lifts : \E f \in DOMAIN new.functions : l = OnTrust(f)
    BY DEF IsTranslation
  <1> HIDE DEF q
  <1>a. /\ DOMAIN q.structured = DOMAIN new.structured \cup DOMAIN p.structured
        /\ DOMAIN q.functions = DOMAIN new.functions \cup DOMAIN p.functions
        /\ DOMAIN q.origin = DOMAIN new.origin \cup DOMAIN p.origin
        /\ \A f \in DOMAIN new.functions : q.functions[f] = new.functions[f]
        /\ \A f \in DOMAIN p.functions : f \notin DOMAIN new.functions => q.functions[f] = p.functions[f]
    <2>1. DOMAIN q.structured = DOMAIN new.structured \cup DOMAIN p.structured
      BY <1>0 DEF Over
    <2>2. DOMAIN q.origin = DOMAIN new.origin \cup DOMAIN p.origin
      BY <1>0 DEF Over
    <2>3. /\ DOMAIN q.functions = DOMAIN new.functions \cup DOMAIN p.functions
          /\ \A f \in DOMAIN new.functions : q.functions[f] = new.functions[f]
          /\ \A f \in DOMAIN p.functions : f \notin DOMAIN new.functions => q.functions[f] = p.functions[f]
      BY <1>0 DEF Over
    <2> QED
      BY <2>1, <2>2, <2>3
  <1>b. ClaimsMerged(q.claims, p, new)
    <2>1. ClaimsMerged(MergeClaims(p, new), p, new)
      BY MergedClaims
    <2> QED
      BY <1>0, <2>1
  <1>3. LayersFit(q)
    BY <1>a, <1>b, <1>2 DEF LayersFit, Fits, ClaimsMerged
  <1>4. ClaimsFit(q)
    <2> SUFFICES ASSUME NEW f \in DOMAIN q.functions, NEW c \in q.claims[f]
                 PROVE  TargetIn(c, q.functions[f])
      BY DEF ClaimsFit
    <2>1. LayersFit(p) /\ ClaimsFit(p)
      BY DEF Fits
    <2>2. CASE f \in DOMAIN new.claims /\ f \in DOMAIN p.claims
      <3>1. c \in ReconcileClaims(p.claims[f], new.functions[f]) /\ q.functions[f] = new.functions[f]
        BY <1>a, <1>b, <1>2, <2>2 DEF ClaimsMerged
      <3> QED
        BY <3>1 DEF ReconcileClaims
    <2>3. CASE f \in DOMAIN new.claims /\ f \notin DOMAIN p.claims
      BY <1>b, <2>3 DEF ClaimsMerged
    <2>4. CASE f \notin DOMAIN new.claims
      <3>1. f \in DOMAIN p.functions /\ f \in DOMAIN p.claims
        BY <1>a, <1>2, <2>1, <2>4 DEF LayersFit
      <3>2. c \in p.claims[f] /\ q.functions[f] = p.functions[f]
        BY <1>a, <1>b, <1>2, <2>4, <3>1 DEF ClaimsMerged
      <3> QED
        BY <2>1, <3>1, <3>2 DEF ClaimsFit
    <2> QED
      BY <2>2, <2>3, <2>4
  <1>5. LiftsFit(q)
    <2> SUFFICES ASSUME NEW l \in q.lifts
                 PROVE  IsLift(l) /\ l.fn \in DOMAIN q.structured
      BY DEF LiftsFit
    <2>1. CASE l \in p.lifts
      BY <1>a, <2>1 DEF Fits, LiftsFit
    <2>2. CASE l \in new.lifts
      <3>1. PICK f \in DOMAIN new.functions : l = OnTrust(f)
        BY <1>2, <2>2
      <3>2. IsLift(l) /\ l.fn = f
        BY <3>1 DEF OnTrust, IsLift
      <3> QED
        BY <1>a, <1>2, <3>2
    <2> QED
      BY <1>0, <2>1, <2>2
  <1>6. UnitsFit(q)
    <2>1. CASE new.units = {}
      BY <1>0, <2>1 DEF UnitsFit, Fits
    <2>2. CASE new.units # {}
      <3> DEFINE u == CHOOSE u \in new.units : TRUE
                 s == p.units
      <3>1. q.units = MergeUnit(s, u)
        BY <1>0, <2>2
      <3> HIDE DEF u
      <3>2. /\ Len(s) \in Nat /\ s \in Seq({s[i] : i \in 1 .. Len(s)})
            /\ \A i, j \in DOMAIN s : s[i].path = s[j].path => i = j
        BY DEF Fits, UnitsFit
      <3> HIDE DEF s
      <3>3. PICK S : s \in Seq(S)
        BY <3>2
      <3>4. CASE \E i \in DOMAIN s : s[i].path = u.path
        <4> DEFINE t == [i \in DOMAIN s |-> IF s[i].path = u.path THEN u ELSE s[i]]
        <4>1. q.units = t
          BY <3>1, <3>4 DEF MergeUnit
        <4>2. t \in Seq(S \cup {u}) /\ DOMAIN t = DOMAIN s /\ DOMAIN s = 1 .. Len(s) /\ Len(t) = Len(s)
          BY <3>3
        <4>3. \A i, j \in DOMAIN t : t[i].path = t[j].path => i = j
          BY <3>2, <4>2
        <4> HIDE DEF t
        <4>4. t \in Seq({t[i] : i \in 1 .. Len(t)}) /\ Len(t) \in Nat
          BY <4>2
        <4> QED
          BY <4>1, <4>3, <4>4 DEF UnitsFit
      <3>5. CASE ~ \E i \in DOMAIN s : s[i].path = u.path
        <4> DEFINE t == Append(s, u)
        <4>1. q.units = t
          BY <3>1, <3>5 DEF MergeUnit
        <4>2. /\ t \in Seq(S \cup {u}) /\ Len(t) = Len(s) + 1 /\ DOMAIN t = 1 .. Len(s) + 1
              /\ DOMAIN s = 1 .. Len(s) /\ t[Len(s) + 1] = u
              /\ \A i \in DOMAIN s : t[i] = s[i]
          BY <3>3
        <4> HIDE DEF t
        <4>3. \A i, j \in DOMAIN t : t[i].path = t[j].path => i = j
          BY <3>2, <3>5, <4>2
        <4>4. t \in Seq({t[i] : i \in 1 .. Len(t)}) /\ Len(t) \in Nat
          BY <3>2, <4>2
        <4> QED
          BY <4>1, <4>3, <4>4 DEF UnitsFit
      <3> QED
        BY <3>4, <3>5
    <2> QED
      BY <2>1, <2>2
  <1> QED
    BY <1>1, <1>3, <1>4, <1>5, <1>6 DEF Fits, q

-----------------------------------------------------------------------------
(* What proving leaves.                                                    *)

Lifted(p) == {l.fn : l \in p.lifts}
WalksOf(p, f) == {Walk(p, x) : x \in CFnOf(p, f)}

OldLifts(p, f) ==
    LET all == {l \in p.lifts : l.fn = f}
        witness == {l \in all : l.pin # {}}
    IN  IF witness = {} THEN all ELSE witness
OldLift(p, f) == CHOOSE l \in OldLifts(p, f) : TRUE
NewLift(p, f) ==
    IF WalksOf(p, f) \subseteq {OldLift(p, f).pin} THEN OldLift(p, f)
    ELSE [fn |-> f, pin |-> UNION WalksOf(p, f), own |-> f \notin p.touched]

Pinned(p) == [p EXCEPT !.lifts = {NewLift(p, f) : f \in Lifted(p)}]
Diverges(p) == \E f \in Lifted(p) : {} \in WalksOf(p, f)

(* Proving in these terms.                                                  *)
LEMMA ProveLiftsIs ==
    ASSUME NEW p
    PROVE  ProveLifts(p) = IF Diverges(p) THEN {} ELSE {Pinned(p)}
  <1> DEFINE walks == [f \in {l.fn : l \in p.lifts} |-> {Walk(p, x) : x \in CFnOf(p, f)}]
  <1>1. DOMAIN walks = Lifted(p) /\ \A f \in Lifted(p) : walks[f] = WalksOf(p, f)
    BY DEF Lifted, WalksOf
  <1>2. \A f : Repin(p, f, WalksOf(p, f)) = {NewLift(p, f)}
    BY DEF Repin, NewLift, OldLift, OldLifts
  <1>3. ProveLifts(p) =
          IF \E f \in DOMAIN walks : {} \in walks[f] THEN {}
          ELSE {[p EXCEPT !.lifts = UNION {Repin(p, f, walks[f]) : f \in DOMAIN walks}]}
    BY DEF ProveLifts
  <1> HIDE DEF walks
  <1>4. (\E f \in DOMAIN walks : {} \in walks[f]) <=> Diverges(p)
    BY <1>1 DEF Diverges
  <1>5. UNION {Repin(p, f, walks[f]) : f \in DOMAIN walks} = {NewLift(p, f) : f \in Lifted(p)}
    <2>1. \A f \in DOMAIN walks : Repin(p, f, walks[f]) = {NewLift(p, f)}
      BY <1>1, <1>2
    <2> QED
      BY <1>1, <2>1
  <1> QED
    BY <1>3, <1>4, <1>5 DEF Pinned

(* At most one C function counts for a name, so there is at most one walk.  *)
LEMMA OneWalk ==
    ASSUME NEW p, NEW f, NEW a \in WalksOf(p, f), NEW b \in WalksOf(p, f)
    PROVE  a = b
  BY DEF WalksOf, CFnOf

(* The lift of a function that did not diverge: its pin is what the walk    *)
(* records, and it has none when there is nothing to walk.                  *)
LEMMA NewLiftIs ==
    ASSUME NEW p, Fits(p), NEW f \in Lifted(p), {} \notin WalksOf(p, f)
    PROVE  LET l == NewLift(p, f)
           IN  /\ l.fn = f /\ IsLift(l)
               /\ WalksOf(p, f) \subseteq {l.pin}
               /\ l.pin = {} => WalksOf(p, f) = {}
  <1> DEFINE old == OldLift(p, f)
             w == WalksOf(p, f)
  <1>1. old \in p.lifts /\ old.fn = f
    <2>1. \E l \in p.lifts : l.fn = f
      BY DEF Lifted
    <2> QED
      BY <2>1 DEF OldLift, OldLifts
  <1>2. IsLift(old)
    BY <1>1 DEF Fits, LiftsFit
  <1>3. \A a, b \in w : a = b
    BY OneWalk
  <1>4. {} \notin w
    OBVIOUS
  <1>5. NewLift(p, f) = IF w \subseteq {old.pin} THEN old
                        ELSE [fn |-> f, pin |-> UNION w, own |-> f \notin p.touched]
    BY DEF NewLift
  <1> HIDE DEF old, w
  <1>6. CASE w \subseteq {old.pin}
    <2>1. NewLift(p, f) = old
      BY <1>5, <1>6
    <2> QED
      BY <1>1, <1>2, <1>4, <1>6, <2>1 DEF w
  <1>7. CASE ~ (w \subseteq {old.pin})
    <2> DEFINE l == [fn |-> f, pin |-> UNION w, own |-> f \notin p.touched]
    <2>1. NewLift(p, f) = l
      BY <1>5, <1>7
    <2>2. PICK a \in w : w = {a}
      BY <1>3, <1>7
    <2>3. UNION w = a /\ a # {}
      BY <1>4, <2>2
    <2>4. l.fn = f /\ l.pin = a /\ l = [fn |-> l.fn, pin |-> l.pin, own |-> l.own]
      BY <2>3
    <2> HIDE DEF l
    <2>5. l.fn = f /\ IsLift(l) /\ w \subseteq {l.pin} /\ l.pin # {}
      BY <2>2, <2>3, <2>4 DEF IsLift
    <2> QED
      BY <2>1, <2>5 DEF w
  <1> QED
    BY <1>6, <1>7

(* Proving keeps a program that fits so, with each function's lift listed   *)
(* once.                                                                    *)
LiftedOnce(p) == \A k, l \in p.lifts : k.fn = l.fn => k = l
LEMMA ProvedFits ==
    ASSUME NEW p, Fits(p), NEW q \in ProveLifts(p)
    PROVE  /\ q = [p EXCEPT !.lifts = {NewLift(p, f) : f \in Lifted(p)}]
           /\ \A f \in Lifted(p) : {} \notin WalksOf(p, f)
           /\ Fits(q) /\ LiftedOnce(q)
  <1>1. ~ Diverges(p) /\ q = Pinned(p)
    BY ProveLiftsIs
  <1>2. \A f \in Lifted(p) : {} \notin WalksOf(p, f)
    BY <1>1 DEF Diverges
  <1>3. \A f \in Lifted(p) : NewLift(p, f).fn = f /\ IsLift(NewLift(p, f))
    BY <1>2, NewLiftIs
  <1>4. IsProgram(p)
    BY DEF Fits
  <1>5. /\ q.structured = p.structured /\ q.functions = p.functions /\ q.claims = p.claims
        /\ q.units = p.units /\ q.origin = p.origin
        /\ q.lifts = {NewLift(p, f) : f \in Lifted(p)} /\ IsProgram(q)
    BY <1>1, <1>4 DEF Pinned, IsProgram
  <1>6. \A f \in Lifted(p) : f \in DOMAIN p.structured
    BY DEF Fits, LiftsFit, Lifted
  <1>7. LiftsFit(q) /\ LiftedOnce(q)
    BY <1>3, <1>5, <1>6 DEF LiftsFit, LiftedOnce
  <1>8. LayersFit(q) /\ ClaimsFit(q) /\ UnitsFit(q)
    BY <1>5 DEF Fits, LayersFit, ClaimsFit, UnitsFit
  <1> QED
    BY <1>1, <1>2, <1>5, <1>7, <1>8 DEF Fits, Pinned

(* Every program a fold reaches fits.                                       *)
LEMMA FoldFits ==
    ASSUME Sources, NEW p, Fits(p), NEW is, IsEntry(is), NEW g, Folds(g, p, is)
    PROVE  \A k \in 0 .. Len(is) : \A q \in g[k] : Fits(q)
  <1> DEFINE S == {k \in Nat : k <= Len(is) => \A q \in g[k] : Fits(q)}
  <1>1. 0 \in S
    BY DEF Folds
  <1>2. ASSUME NEW k \in Nat, k \in S
        PROVE  k + 1 \in S
    <2> SUFFICES ASSUME k + 1 <= Len(is), NEW q \in g[k + 1]
                 PROVE  Fits(q)
      OBVIOUS
    <2>1. k + 1 \in 1 .. Len(is) /\ k + 1 - 1 = k /\ k <= Len(is)
      BY DEF IsEntry
    <2>2. PICK r \in g[k], new \in Translated(is[k + 1]) : q = MergeProgram(r, new)
      BY <2>1, FoldStep
    <2>3. is[k + 1] \in DOMAIN project
      BY <2>1 DEF IsEntry
    <2>4. IsTranslation(new, project[is[k + 1]].versions[source[is[k + 1]]])
      BY <2>2, <2>3, TranslatedIs
    <2>5. Fits(r)
      BY <1>2, <2>1, <2>2
    <2> QED
      BY <2>2, <2>4, <2>5, MergeFits
  <1> HIDE DEF S
  <1>3. Nat \subseteq S
    BY <1>1, <1>2, NatSetInduction
  <1> QED
    BY <1>3 DEF S, IsEntry

(* So does every program a command's fold comes to.                         *)
LEMMA FoldedFits ==
    ASSUME Sources, NEW p, Fits(p), NEW is \in Entries, NEW q \in Folded(p, is)
    PROVE  Fits(q)
  <1>1. CASE is = <<>>
    <2>1. Len(is) = 0 /\ Len(is) \in Nat
      BY <1>1
    <2>2. PICK g : Folds(g, p, is)
      BY <2>1, FoldedIs
    <2>3. q = p
      BY <2>1, <2>2 DEF Folds
    <2> QED
      BY <2>3
  <1>2. CASE is # <<>>
    <2>1. IsEntry(is)
      BY <1>2, EntriesAreEntries
    <2>2. PICK g : Folds(g, p, is)
      BY <2>1, FoldedIs DEF IsEntry
    <2>3. q \in g[Len(is)] /\ Len(is) \in 0 .. Len(is)
      BY <2>1, <2>2 DEF Folds, IsEntry
    <2> QED
      BY <2>1, <2>2, <2>3, FoldFits
  <1> QED
    BY <1>1, <1>2

-----------------------------------------------------------------------------
(* Type correctness.                                                       *)

IInv == Sources /\ Fits(program) /\ LiftedOnce(program)

(* The invariant is stronger than what the runs check: programs are records *)
(* of a program's fields, their units are a sequence, and a lift with no    *)
(* pin is on trust.                                                         *)
LEMMA IInvTypeOK == IInv => TypeOK
  BY DEF IInv, Fits, Sources, LayersFit, ClaimsFit, LiftsFit, UnitsFit, LiftedOnce, TypeOK

(* An empty program fits, and the disk holds version 1 of each file.        *)
LEMMA InitIInv == Init => IInv
  <1> SUFFICES ASSUME Init
               PROVE  IInv
    OBVIOUS
  <1>1. Sources
    BY ProjectsAssumption DEF Init, Sources
  <1>2. Fits(EmptyProgram) /\ LiftedOnce(EmptyProgram)
    BY DEF EmptyProgram, Fits, IsProgram, LayersFit, ClaimsFit, LiftsFit, UnitsFit, LiftedOnce
  <1> QED
    BY <1>1, <1>2 DEF Init, IInv

(* No command and no edit breaks it.                                        *)
LEMMA NextIInv == IInv /\ [Next]_vars => IInv'
  <1> SUFFICES ASSUME IInv, [Next]_vars
               PROVE  IInv'
    OBVIOUS
  <1>0. Sources /\ Fits(program) /\ LiftedOnce(program)
    BY DEF IInv
  <1>a. ASSUME UNCHANGED <<project, source, program>>
        PROVE  IInv'
    BY <1>0, <1>a DEF IInv, Sources, LiftedOnce
  <1>b. ASSUME UNCHANGED <<project, source>>, Fits(program'), LiftedOnce(program')
        PROVE  IInv'
    BY <1>0, <1>b DEF IInv, Sources
  <1>1. ASSUME NEW is \in Entries, Ingest(is)
        PROVE  IInv'
    <2>1. PICK merged \in Folded(program, is) : program' \in ProveLifts(merged)
      BY <1>1 DEF Ingest
    <2>2. Fits(merged)
      BY <1>0, <2>1, FoldedFits
    <2>3. Fits(program') /\ LiftedOnce(program')
      BY <2>1, <2>2, ProvedFits
    <2> QED
      BY <1>1, <1>b, <2>3 DEF Ingest, Ended
  <1>2. ASSUME NEW is \in Entries, IngestRefused(is) \/ IngestUnproved(is)
        PROVE  IInv'
    BY <1>2, <1>a DEF IngestRefused, IngestUnproved, Ended
  <1>3. ASSUME ProveBump
        PROVE  IInv'
    <2>1. Fits(program') /\ LiftedOnce(program')
      BY <1>0, <1>3, ProvedFits DEF ProveBump
    <2> QED
      BY <1>3, <1>b, <2>1 DEF ProveBump, Ended
  <1>4. ASSUME ProveFails
        PROVE  IInv'
    BY <1>4, <1>a DEF ProveFails, Ended
  <1>5. ASSUME NEW f \in DOMAIN program.functions, NEW c, ClaimAdd(f, c)
        PROVE  IInv'
    <2> DEFINE p == program
               q == program'
    <2>1. q = [p EXCEPT !.claims[f] = @ \cup {c}] /\ TargetIn(c, p.functions[f])
      BY <1>5 DEF ClaimAdd
    <2>2. IsProgram(p) /\ LayersFit(p) /\ ClaimsFit(p)
      BY <1>0 DEF Fits
    <2>3. /\ q.structured = p.structured /\ q.functions = p.functions /\ q.units = p.units
          /\ q.origin = p.origin /\ q.lifts = p.lifts /\ IsProgram(q)
          /\ q.claims = [p.claims EXCEPT ![f] = @ \cup {c}]
      BY <2>1, <2>2 DEF IsProgram
    <2>4. /\ f \in DOMAIN p.claims /\ DOMAIN q.claims = DOMAIN p.claims
          /\ q.claims[f] = p.claims[f] \cup {c}
          /\ \A h \in DOMAIN p.claims : h # f => q.claims[h] = p.claims[h]
      BY <2>2, <2>3 DEF LayersFit
    <2>5. UnitsFit(p) /\ LiftsFit(p)
      BY <1>0 DEF Fits
    <2>d. UNCHANGED <<project, source>>
      BY <1>5 DEF ClaimAdd, Ended
    <2>f. LiftedOnce(p)
      BY <1>0
    <2> HIDE DEF p, q
    <2>6. LayersFit(q) /\ UnitsFit(q) /\ LiftsFit(q) /\ LiftedOnce(q)
      BY <2>2, <2>3, <2>4, <2>5, <2>f DEF LayersFit, UnitsFit, LiftsFit, LiftedOnce
    <2>7. ClaimsFit(q)
      <3> SUFFICES ASSUME NEW h \in DOMAIN q.functions, NEW d \in q.claims[h]
                   PROVE  TargetIn(d, q.functions[h])
        BY DEF ClaimsFit
      <3>1. CASE h = f
        BY <2>1, <2>2, <2>3, <2>4, <3>1 DEF ClaimsFit
      <3>2. CASE h # f
        BY <2>2, <2>3, <2>4, <3>2 DEF ClaimsFit, LayersFit
      <3> QED
        BY <3>1, <3>2
    <2>8. Fits(q) /\ LiftedOnce(q)
      BY <2>3, <2>6, <2>7 DEF Fits
    <2> QED
      BY <1>b, <2>8, <2>d DEF q
  <1>6. ASSUME NEW i \in DOMAIN project, NEW v \in DOMAIN project[i].versions, EditSource(i, v)
        PROVE  IInv'
    <2>1. project' = project /\ program' = program /\ source' = [source EXCEPT ![i] = v]
      BY <1>6 DEF EditSource, Edited
    <2>2. \A j \in DOMAIN project : source'[j] \in DOMAIN project[j].versions
      BY <1>0, <2>1 DEF Sources
    <2> QED
      BY <1>0, <2>1, <2>2 DEF IInv, Sources
  <1>7. ASSUME NEW i \in DOMAIN project, NEW v \in DOMAIN project[i].versions, HandEdit(i, v)
        PROVE  IInv'
    <2> DEFINE p == program
               q == program'
    <2>1. PICK f, b : q = [p EXCEPT !.structured[f] = b, !.touched = @ \cup {f}]
      BY <1>7 DEF HandEdit
    <2>2. IsProgram(p)
      BY <1>0 DEF Fits
    <2>3. /\ q.functions = p.functions /\ q.units = p.units /\ q.claims = p.claims
          /\ q.origin = p.origin /\ q.lifts = p.lifts /\ IsProgram(q)
          /\ DOMAIN q.structured = DOMAIN p.structured
      BY <2>1, <2>2 DEF IsProgram
    <2>5. LayersFit(p) /\ ClaimsFit(p) /\ LiftsFit(p) /\ UnitsFit(p) /\ LiftedOnce(p)
      BY <1>0 DEF Fits
    <2>d. UNCHANGED <<project, source>>
      BY <1>7 DEF HandEdit, Edited
    <2> HIDE DEF p, q
    <2>6. Fits(q) /\ LiftedOnce(q)
      BY <2>3, <2>5 DEF Fits, LayersFit, ClaimsFit, UnitsFit, LiftsFit, LiftedOnce
    <2> QED
      BY <1>b, <2>6, <2>d DEF q
  <1>8. ASSUME UNCHANGED vars
        PROVE  IInv'
    BY <1>8, <1>a DEF vars
  <1> QED
    BY <1>1, <1>2, <1>3, <1>4, <1>5, <1>6, <1>7, <1>8 DEF Next

(* In every history of ingests, a function has all of its layers and claims *)
(* about integers it has, and a lift is listed once.                        *)
THEOREM IngestTypeOK == Spec => []TypeOK
  <1>1. Spec => []IInv
    BY InitIInv, NextIInv, PTL DEF Spec
  <1> QED
    BY <1>1, IInvTypeOK, PTL

-----------------------------------------------------------------------------
(* Claims.                                                                 *)

(* Of the claims on f in p, q has those whose target is there.              *)
ClaimsKept(p, q, f) == \A c \in p.claims[f] : c \in q.claims[f] \/ ~TargetIn(c, q.functions[f])
FunctionKept(p, q, f) == q.claims[f] = p.claims[f] /\ q.functions[f] = p.functions[f]

(* The names a translation has are those its file defines.                  *)
LEMMA TranslatedNames ==
    ASSUME Sources, NEW i \in DOMAIN project, NEW new \in Translated(i), NEW f
    PROVE  /\ f \in DOMAIN new.functions <=> i \in Definers(f)
           /\ DOMAIN new.claims = DOMAIN new.functions
           /\ DOMAIN new.structured = DOMAIN new.functions
  <1> DEFINE version == project[i].versions[source[i]]
             names == {version.fns[j].name : j \in DOMAIN version.fns}
  <1>1. IsTranslation(new, version)
    BY TranslatedIs
  <1>2. /\ names = DOMAIN new.functions /\ DOMAIN new.claims = DOMAIN new.functions
        /\ DOMAIN new.structured = DOMAIN new.functions
    BY <1>1 DEF IsTranslation
  <1>3. f \in names <=> \E c \in Range(version.fns) : c.name = f
    BY DEF Range
  <1>4. i \in Definers(f) <=> \E c \in Range(version.fns) : c.name = f
    BY DEF Definers
  <1> QED
    BY <1>2, <1>3, <1>4

(* Of a set with at most one element, any two are the same.                 *)
LEMMA AtMostOne ==
    ASSUME NEW S, IsFiniteSet(S), Cardinality(S) <= 1, NEW a \in S, NEW b \in S
    PROVE  a = b
  <1> SUFFICES ASSUME a # b
               PROVE  FALSE
    OBVIOUS
  <1>1. Cardinality({a}) = 1 /\ IsFiniteSet({a})
    BY FS_Singleton
  <1>2. IsFiniteSet({a} \cup {b}) /\ Cardinality({a} \cup {b}) = 2
    <2>1. b \notin {a}
      OBVIOUS
    <2>2. IsFiniteSet({a} \cup {b}) /\ (b \notin {a} => Cardinality({a} \cup {b}) = Cardinality({a}) + 1)
      BY <1>1, FS_AddElement
    <2> QED
      BY <1>1, <2>1, <2>2
  <1>3. Cardinality({a} \cup {b}) <= Cardinality(S)
    BY <1>2, FS_Subset
  <1>4. Cardinality(S) \in Nat
    BY FS_CardinalityType
  <1> QED
    BY <1>2, <1>3, <1>4

LEMMA OneDefiner ==
    ASSUME Sources, NEW f, Cardinality(Definers(f)) <= 1,
           NEW i \in Definers(f), NEW j \in Definers(f)
    PROVE  i = j
  <1>1. Len(project) \in Nat /\ DOMAIN project = 1 .. Len(project)
    BY ProjectIsSequence
  <1>2. IsFiniteSet(1 .. Len(project)) /\ Definers(f) \subseteq 1 .. Len(project)
    BY <1>1, FS_Interval DEF Definers
  <1>3. IsFiniteSet(Definers(f))
    BY <1>2, FS_Subset
  <1> QED
    BY <1>3, AtMostOne

(* Merging a file without f leaves f alone; merging the one with f drops    *)
(* the claims whose target is gone.                                         *)
LEMMA MergeKeeps ==
    ASSUME NEW p, Fits(p), Sources, NEW i \in DOMAIN project, NEW new \in Translated(i),
           NEW f \in DOMAIN p.claims
    PROVE  LET q == MergeProgram(p, new)
           IN  /\ f \in DOMAIN q.claims
               /\ i \notin Definers(f) => FunctionKept(p, q, f)
               /\ ClaimsKept(p, q, f)
  <1> DEFINE q == MergeProgram(p, new)
             version == project[i].versions[source[i]]
  <1>1. IsTranslation(new, version)
    BY TranslatedIs
  <1>2. /\ f \in DOMAIN new.functions <=> i \in Definers(f)
        /\ DOMAIN new.claims = DOMAIN new.functions
    BY TranslatedNames
  <1>3. q.claims = MergeClaims(p, new) /\ q.functions = Over(new.functions, p.functions)
    BY DEF MergeProgram
  <1> HIDE DEF q, version
  <1>4. ClaimsMerged(q.claims, p, new)
    BY <1>1, <1>3, MergedClaims
  <1>5. f \in DOMAIN p.functions
    BY DEF Fits, LayersFit
  <1>6. f \in DOMAIN q.claims
    BY <1>4 DEF ClaimsMerged
  <1>7. CASE f \in DOMAIN new.functions
    <2>1. q.functions[f] = new.functions[f]
      BY <1>3, <1>7 DEF Over
    <2>2. q.claims[f] = ReconcileClaims(p.claims[f], new.functions[f])
      BY <1>2, <1>4, <1>7 DEF ClaimsMerged
    <2>3. ClaimsKept(p, q, f)
      BY <2>1, <2>2 DEF ClaimsKept, ReconcileClaims
    <2> QED
      BY <1>2, <1>6, <1>7, <2>3 DEF q
  <1>8. CASE f \notin DOMAIN new.functions
    <2>1. q.functions[f] = p.functions[f]
      BY <1>3, <1>5, <1>8 DEF Over
    <2>2. q.claims[f] = p.claims[f]
      BY <1>2, <1>4, <1>8 DEF ClaimsMerged
    <2>3. FunctionKept(p, q, f) /\ ClaimsKept(p, q, f)
      BY <2>1, <2>2 DEF FunctionKept, ClaimsKept
    <2> QED
      BY <1>6, <2>3 DEF q
  <1> QED
    BY <1>7, <1>8

(* A fold that meets at most one file with f keeps the claims on f: before  *)
(* that file f is as it was, and after it nothing changes f.                *)
LEMMA FoldKeeps ==
    ASSUME Sources, NEW p, Fits(p), NEW is, IsEntry(is), NEW g, Folds(g, p, is),
           NEW f \in DOMAIN p.claims, Cardinality(Definers(f)) <= 1
    PROVE  \A k \in 0 .. Len(is) : \A q \in g[k] : f \in DOMAIN q.claims /\ ClaimsKept(p, q, f)
  <1> DEFINE Met(k) == \E j \in 1 .. k : is[j] \in Definers(f)
             Kept(q, k) == /\ f \in DOMAIN q.claims /\ ClaimsKept(p, q, f)
                           /\ ~Met(k) => FunctionKept(p, q, f)
             S == {k \in Nat : k <= Len(is) => \A q \in g[k] : Kept(q, k)}
  <1>1. 0 \in S
    BY DEF Folds, ClaimsKept, FunctionKept
  <1>2. ASSUME NEW k \in Nat, k \in S
        PROVE  k + 1 \in S
    <2> SUFFICES ASSUME k + 1 <= Len(is), NEW q \in g[k + 1]
                 PROVE  Kept(q, k + 1)
      OBVIOUS
    <2> DEFINE i == is[k + 1]
    <2>1. k + 1 \in 1 .. Len(is) /\ k + 1 - 1 = k /\ k <= Len(is) /\ k \in 0 .. Len(is)
      BY DEF IsEntry
    <2>2. PICK r \in g[k], new \in Translated(i) : q = MergeProgram(r, new)
      BY <2>1, FoldStep
    <2>3. i \in DOMAIN project /\ \A j \in 1 .. k : is[j] # i
      BY <2>1 DEF IsEntry
    <2>4. Kept(r, k)
      BY <1>2, <2>1, <2>2
    <2>5. Fits(r)
      BY <2>1, <2>2, FoldFits
    <2>6. Met(k + 1) <=> Met(k) \/ i \in Definers(f)
      BY <2>1
    <2>7. f \in DOMAIN r.claims
      BY <2>4
    <2>8. i \in Definers(f) => ~Met(k)
      BY <2>3, OneDefiner
    <2> HIDE DEF Met, i
    <2>9. /\ f \in DOMAIN q.claims /\ ClaimsKept(r, q, f)
          /\ i \notin Definers(f) => FunctionKept(r, q, f)
      BY <2>2, <2>3, <2>5, <2>7, MergeKeeps
    <2>10. CASE i \in Definers(f)
      <3>1. FunctionKept(p, r, f) /\ Met(k + 1)
        BY <2>4, <2>6, <2>8, <2>10
      <3> QED
        BY <2>9, <3>1 DEF FunctionKept, ClaimsKept
    <2>11. CASE i \notin Definers(f)
      BY <2>4, <2>6, <2>9, <2>11 DEF FunctionKept, ClaimsKept
    <2> QED
      BY <2>10, <2>11
  <1> HIDE DEF S
  <1>3. Nat \subseteq S
    BY <1>1, <1>2, NatSetInduction
  <1> QED
    BY <1>3 DEF S, IsEntry

(* So does a command's fold.                                                *)
LEMMA FoldedKeeps ==
    ASSUME Sources, NEW p, Fits(p), NEW is \in Entries, NEW q \in Folded(p, is),
           NEW f \in DOMAIN p.claims, Cardinality(Definers(f)) <= 1
    PROVE  ClaimsKept(p, q, f)
  <1>1. CASE is = <<>>
    <2>1. Len(is) = 0 /\ Len(is) \in Nat
      BY <1>1
    <2>2. PICK g : Folds(g, p, is)
      BY <2>1, FoldedIs
    <2>3. q = p
      BY <2>1, <2>2 DEF Folds
    <2> QED
      BY <2>3 DEF ClaimsKept
  <1>2. CASE is # <<>>
    <2>1. IsEntry(is)
      BY <1>2, EntriesAreEntries
    <2>2. PICK g : Folds(g, p, is)
      BY <2>1, FoldedIs DEF IsEntry
    <2>3. q \in g[Len(is)] /\ Len(is) \in 0 .. Len(is)
      BY <2>1, <2>2 DEF Folds, IsEntry
    <2> QED
      BY <2>1, <2>2, <2>3, FoldKeeps
  <1> QED
    BY <1>1, <1>2

(* What users said of a function that one file at most defines stays said   *)
(* as long as the function has what it was about, whichever command runs.   *)
ClaimsStay ==
    \A f \in DOMAIN program.claims : Cardinality(Definers(f)) <= 1 => ClaimsKept(program, program', f)
LEMMA NextKeepsClaims == IInv /\ [Next]_vars => ClaimsStay
  <1> SUFFICES ASSUME IInv, [Next]_vars, NEW f \in DOMAIN program.claims,
                      Cardinality(Definers(f)) <= 1
               PROVE  ClaimsKept(program, program', f)
    BY DEF ClaimsStay
  <1>0. Sources /\ Fits(program)
    BY DEF IInv
  <1>a. program' = program => ClaimsKept(program, program', f)
    BY DEF ClaimsKept
  <1>1. ASSUME NEW is \in Entries, Ingest(is)
        PROVE  ClaimsKept(program, program', f)
    <2>1. PICK merged \in Folded(program, is) : program' \in ProveLifts(merged)
      BY <1>1 DEF Ingest
    <2>2. Fits(merged) /\ ClaimsKept(program, merged, f)
      BY <1>0, <2>1, FoldedFits, FoldedKeeps
    <2>3. program' = [merged EXCEPT !.lifts = {NewLift(merged, h) : h \in Lifted(merged)}]
      BY <2>1, <2>2, ProvedFits
    <2>4. program'.claims = merged.claims /\ program'.functions = merged.functions
      BY <2>2, <2>3 DEF Fits, IsProgram
    <2> QED
      BY <2>2, <2>4 DEF ClaimsKept
  <1>2. ASSUME NEW is \in Entries, IngestRefused(is) \/ IngestUnproved(is)
        PROVE  ClaimsKept(program, program', f)
    BY <1>2, <1>a DEF IngestRefused, IngestUnproved
  <1>3. ASSUME ProveBump
        PROVE  ClaimsKept(program, program', f)
    <2>1. program' = [program EXCEPT !.lifts = {NewLift(program, h) : h \in Lifted(program)}]
      BY <1>0, <1>3, ProvedFits DEF ProveBump
    <2>2. program'.claims = program.claims /\ program'.functions = program.functions
      BY <1>0, <2>1 DEF Fits, IsProgram
    <2> QED
      BY <2>2 DEF ClaimsKept
  <1>4. ASSUME ProveFails
        PROVE  ClaimsKept(program, program', f)
    BY <1>4, <1>a DEF ProveFails
  <1>5. ASSUME NEW h \in DOMAIN program.functions, NEW c, ClaimAdd(h, c)
        PROVE  ClaimsKept(program, program', f)
    <2>1. program' = [program EXCEPT !.claims[h] = @ \cup {c}]
      BY <1>5 DEF ClaimAdd
    <2>2. program'.claims = [program.claims EXCEPT ![h] = @ \cup {c}]
      BY <1>0, <2>1 DEF Fits, IsProgram
    <2>3. program.claims[f] \subseteq program'.claims[f]
      BY <2>2
    <2> QED
      BY <2>3 DEF ClaimsKept
  <1>6. ASSUME NEW i \in DOMAIN project, NEW v \in DOMAIN project[i].versions, EditSource(i, v)
        PROVE  ClaimsKept(program, program', f)
    BY <1>6, <1>a DEF EditSource
  <1>7. ASSUME NEW i \in DOMAIN project, NEW v \in DOMAIN project[i].versions, HandEdit(i, v)
        PROVE  ClaimsKept(program, program', f)
    <2>1. PICK h, b : program' = [program EXCEPT !.structured[h] = b, !.touched = @ \cup {h}]
      BY <1>7 DEF HandEdit
    <2>2. program'.claims = program.claims /\ program'.functions = program.functions
      BY <1>0, <2>1 DEF Fits, IsProgram
    <2> QED
      BY <2>2 DEF ClaimsKept
  <1>8. ASSUME UNCHANGED vars
        PROVE  ClaimsKept(program, program', f)
    BY <1>8, <1>a DEF vars
  <1> QED
    BY <1>1, <1>2, <1>3, <1>4, <1>5, <1>6, <1>7, <1>8 DEF Next

(* Ingests, proofs and edits never lose a claim whose target lives on.      *)
THEOREM IngestKeepsClaims == Spec => ClaimsOutliveIngests
  <1>1. Spec => []IInv
    BY InitIInv, NextIInv, PTL DEF Spec
  <1>2. IInv /\ [Next]_vars => [ClaimsStay]_vars
    BY NextKeepsClaims
  <1>3. ClaimsStay <=> \A f \in DOMAIN program.claims : Cardinality(Definers(f)) <= 1 =>
                          \A c \in program.claims[f] :
                             c \in program'.claims[f] \/ ~TargetIn(c, program'.functions[f])
    BY DEF ClaimsStay, ClaimsKept
  <1> QED
    BY <1>1, <1>2, <1>3, PTL DEF Spec, ClaimsOutliveIngests

-----------------------------------------------------------------------------
(* To ingest again changes nothing.  While the files are merged again into  *)
(* the program P that an ingest left, each part of the program has at every *)
(* point what P has of it or what the first ingest had of it after the same *)
(* files; at the end that is P.                                             *)

IsMap(m) == m = [x \in DOMAIN m |-> m[x]]
Mapped(p) ==
    /\ IsMap(p.structured) /\ IsMap(p.functions) /\ IsMap(p.origin) /\ IsMap(p.constants)
    /\ IsMap(p.claims)

FollowsIn(a, b, c) ==
    /\ IsMap(b) /\ DOMAIN b = DOMAIN c
    /\ \A x \in DOMAIN c : b[x] = c[x] \/ (x \in DOMAIN a /\ b[x] = a[x])

LEMMA OverFollows ==
    ASSUME NEW a, NEW b, NEW c, NEW m, FollowsIn(a, b, c), DOMAIN m \subseteq DOMAIN c
    PROVE  FollowsIn(Over(m, a), Over(m, b), c)
  <1>1. DOMAIN b = DOMAIN c /\ \A x \in DOMAIN c : b[x] = c[x] \/ (x \in DOMAIN a /\ b[x] = a[x])
    BY DEF FollowsIn
  <1> DEFINE d == Over(m, a)
             e == Over(m, b)
  <1>2. /\ DOMAIN d = DOMAIN m \cup DOMAIN a
        /\ \A x \in DOMAIN d : d[x] = IF x \in DOMAIN m THEN m[x] ELSE a[x]
    BY DEF Over
  <1>3. /\ DOMAIN e = DOMAIN m \cup DOMAIN b /\ IsMap(e)
        /\ \A x \in DOMAIN e : e[x] = IF x \in DOMAIN m THEN m[x] ELSE b[x]
    BY DEF Over, IsMap
  <1> HIDE DEF d, e
  <1>4. DOMAIN e = DOMAIN c
    BY <1>1, <1>3
  <1>5. \A x \in DOMAIN c : e[x] = c[x] \/ (x \in DOMAIN d /\ e[x] = d[x])
    BY <1>1, <1>2, <1>3, <1>4
  <1>6. FollowsIn(d, e, c)
    BY <1>3, <1>4, <1>5 DEF FollowsIn
  <1> QED
    BY <1>6 DEF d, e

(* What follows what c itself had of it is c.                               *)
LEMMA FollowedIs ==
    ASSUME NEW b, NEW c, IsMap(c), FollowsIn(c, b, c)
    PROVE  b = c
  <1>1. b = [x \in DOMAIN b |-> b[x]] /\ c = [x \in DOMAIN c |-> c[x]]
    BY DEF FollowsIn, IsMap
  <1>2. DOMAIN b = DOMAIN c /\ \A x \in DOMAIN c : b[x] = c[x]
    BY DEF FollowsIn
  <1>3. [x \in DOMAIN b |-> b[x]] = [x \in DOMAIN c |-> c[x]]
    BY <1>2
  <1> QED
    BY <1>1, <1>3

(* A unit of a path takes the place of the one of that path, or is added.   *)
UnitMerged(t, s, u) ==
    /\ \E j \in DOMAIN t : t[j] = u
    /\ \A j \in DOMAIN s : s[j].path # u.path => j \in DOMAIN t /\ t[j] = s[j]
    /\ \A j \in DOMAIN s : \E i \in DOMAIN t : t[i].path = s[j].path
LEMMA MergeUnitIs ==
    ASSUME NEW s, NEW S, s \in Seq(S), NEW u
    PROVE  UnitMerged(MergeUnit(s, u), s, u)
  <1>1. CASE \E i \in DOMAIN s : s[i].path = u.path
    <2> DEFINE t == [i \in DOMAIN s |-> IF s[i].path = u.path THEN u ELSE s[i]]
    <2>1. MergeUnit(s, u) = t
      BY <1>1 DEF MergeUnit
    <2>2. /\ \E j \in DOMAIN t : t[j] = u
          /\ \A j \in DOMAIN s : s[j].path # u.path => j \in DOMAIN t /\ t[j] = s[j]
          /\ \A j \in DOMAIN s : j \in DOMAIN t /\ t[j].path = s[j].path
      BY <1>1
    <2> HIDE DEF t
    <2> QED
      BY <2>1, <2>2 DEF UnitMerged
  <1>2. CASE ~ \E i \in DOMAIN s : s[i].path = u.path
    <2> DEFINE t == Append(s, u)
    <2>1. MergeUnit(s, u) = t
      BY <1>2 DEF MergeUnit
    <2>2. /\ DOMAIN t = 1 .. Len(s) + 1 /\ DOMAIN s = 1 .. Len(s) /\ t[Len(s) + 1] = u
          /\ \A i \in DOMAIN s : t[i] = s[i]
          /\ Len(s) \in Nat
      BY DEF t
    <2> HIDE DEF t
    <2>3. /\ \E j \in DOMAIN t : t[j] = u
          /\ \A j \in DOMAIN s : j \in DOMAIN t /\ t[j] = s[j]
      BY <2>2
    <2> QED
      BY <2>1, <2>3 DEF UnitMerged
  <1> QED
    BY <1>1, <1>2

UnitsFollow(a, b, c) ==
    /\ IsMap(b) /\ DOMAIN b = DOMAIN c
    /\ \A i \in DOMAIN c : b[i].path = c[i].path /\ (b[i] = c[i] \/ \E j \in DOMAIN a : a[j] = b[i])

LEMMA MergeUnitFollows ==
    ASSUME NEW a, NEW S, a \in Seq(S), NEW b, NEW c, UnitsFollow(a, b, c),
           NEW u, \E i \in DOMAIN c : c[i].path = u.path
    PROVE  UnitsFollow(MergeUnit(a, u), MergeUnit(b, u), c)
  <1> DEFINE d == MergeUnit(a, u)
             e == [i \in DOMAIN b |-> IF b[i].path = u.path THEN u ELSE b[i]]
  <1>1. /\ DOMAIN b = DOMAIN c
        /\ \A i \in DOMAIN c : b[i].path = c[i].path /\ (b[i] = c[i] \/ \E j \in DOMAIN a : a[j] = b[i])
    BY DEF UnitsFollow
  <1>2. MergeUnit(b, u) = e
    BY <1>1 DEF MergeUnit
  <1>3. /\ \E j \in DOMAIN d : d[j] = u
        /\ \A j \in DOMAIN a : a[j].path # u.path => j \in DOMAIN d /\ d[j] = a[j]
    <2>1. UnitMerged(d, a, u)
      BY MergeUnitIs
    <2> QED
      BY <2>1 DEF UnitMerged
  <1>4. /\ IsMap(e) /\ DOMAIN e = DOMAIN b
        /\ \A i \in DOMAIN b : e[i] = IF b[i].path = u.path THEN u ELSE b[i]
    BY DEF IsMap
  <1> HIDE DEF d, e
  <1>5. ASSUME NEW i \in DOMAIN c
        PROVE  e[i].path = c[i].path /\ (e[i] = c[i] \/ \E j \in DOMAIN d : d[j] = e[i])
    <2>1. CASE b[i].path = u.path
      BY <1>1, <1>3, <1>4, <2>1
    <2>2. CASE b[i].path # u.path
      BY <1>1, <1>3, <1>4, <2>2
    <2> QED
      BY <2>1, <2>2
  <1>6. UnitsFollow(d, e, c)
    BY <1>1, <1>4, <1>5 DEF UnitsFollow
  <1> QED
    BY <1>2, <1>6 DEF d

(* Of units that are listed once for a path, what follows c's own is c.     *)
LEMMA FollowedUnitsAre ==
    ASSUME NEW b, NEW c, IsMap(c), UnitsFollow(c, b, c),
           \A i, j \in DOMAIN c : c[i].path = c[j].path => i = j
    PROVE  b = c
  <1>1. b = [x \in DOMAIN b |-> b[x]] /\ c = [x \in DOMAIN c |-> c[x]]
    BY DEF UnitsFollow, IsMap
  <1>2. DOMAIN b = DOMAIN c /\ \A x \in DOMAIN c : b[x] = c[x]
    BY DEF UnitsFollow
  <1>3. [x \in DOMAIN b |-> b[x]] = [x \in DOMAIN c |-> c[x]]
    BY <1>2
  <1> QED
    BY <1>1, <1>3

(* What merging more files leaves of a program: its names, its paths and    *)
(* its lifted functions; claims and edits of layer B only go away.          *)
Grows(q, s) ==
    /\ DOMAIN q.structured \subseteq DOMAIN s.structured
    /\ DOMAIN q.functions \subseteq DOMAIN s.functions
    /\ DOMAIN q.origin \subseteq DOMAIN s.origin
    /\ DOMAIN q.constants \subseteq DOMAIN s.constants
    /\ DOMAIN q.claims \subseteq DOMAIN s.claims
    /\ \A f \in DOMAIN q.claims : s.claims[f] \subseteq q.claims[f]
    /\ s.touched \subseteq q.touched
    /\ Lifted(q) \subseteq Lifted(s)
    /\ \A i \in DOMAIN q.units : \E j \in DOMAIN s.units : s.units[j].path = q.units[i].path

LEMMA GrowsSelf == \A q : Grows(q, q)
  BY DEF Grows

LEMMA GrowsOn ==
    ASSUME NEW q, NEW r, NEW s, Grows(q, r), Grows(r, s)
    PROVE  Grows(q, s)
  <1>1. /\ DOMAIN q.structured \subseteq DOMAIN s.structured
        /\ DOMAIN q.functions \subseteq DOMAIN s.functions
        /\ DOMAIN q.origin \subseteq DOMAIN s.origin
        /\ DOMAIN q.constants \subseteq DOMAIN s.constants
        /\ DOMAIN q.claims \subseteq DOMAIN s.claims
        /\ s.touched \subseteq q.touched /\ Lifted(q) \subseteq Lifted(s)
    BY DEF Grows
  <1>2. \A f \in DOMAIN q.claims : s.claims[f] \subseteq q.claims[f]
    BY DEF Grows
  <1>3. \A i \in DOMAIN q.units : \E j \in DOMAIN s.units : s.units[j].path = q.units[i].path
    <2> TAKE i \in DOMAIN q.units
    <2>1. PICK k \in DOMAIN r.units : r.units[k].path = q.units[i].path
      BY DEF Grows
    <2>2. PICK j \in DOMAIN s.units : s.units[j].path = r.units[k].path
      BY DEF Grows
    <2> QED
      BY <2>1, <2>2
  <1> QED
    BY <1>1, <1>2, <1>3 DEF Grows

(* That a translation was merged into s at some point.                      *)
UnitOf(new) == CHOOSE u \in new.units : TRUE
TookIn(s, new) ==
    /\ DOMAIN new.structured \subseteq DOMAIN s.structured
    /\ DOMAIN new.functions \subseteq DOMAIN s.functions
    /\ DOMAIN new.origin \subseteq DOMAIN s.origin
    /\ DOMAIN new.constants \subseteq DOMAIN s.constants
    /\ DOMAIN new.claims \subseteq DOMAIN s.claims
    /\ \A f \in DOMAIN new.claims : \A c \in s.claims[f] : TargetIn(c, new.functions[f])
    /\ s.touched \cap DOMAIN new.structured = {}
    /\ \A l \in new.lifts : l.fn \in Lifted(s)
    /\ new.units # {} => \E j \in DOMAIN s.units : s.units[j].path = UnitOf(new).path

LEMMA StillTookIn ==
    ASSUME NEW q, NEW s, NEW new, TookIn(q, new), Grows(q, s)
    PROVE  TookIn(s, new)
  <1>1. /\ DOMAIN new.structured \subseteq DOMAIN s.structured
        /\ DOMAIN new.functions \subseteq DOMAIN s.functions
        /\ DOMAIN new.origin \subseteq DOMAIN s.origin
        /\ DOMAIN new.constants \subseteq DOMAIN s.constants
        /\ DOMAIN new.claims \subseteq DOMAIN s.claims
        /\ s.touched \cap DOMAIN new.structured = {}
        /\ \A l \in new.lifts : l.fn \in Lifted(s)
    BY DEF Grows, TookIn
  <1>2. \A f \in DOMAIN new.claims : s.claims[f] \subseteq q.claims[f]
    BY DEF Grows, TookIn
  <1>3. \A f \in DOMAIN new.claims : \A c \in s.claims[f] : TargetIn(c, new.functions[f])
    BY <1>2 DEF TookIn
  <1>4. new.units # {} => \E j \in DOMAIN s.units : s.units[j].path = UnitOf(new).path
    <2> SUFFICES ASSUME new.units # {}
                 PROVE  \E j \in DOMAIN s.units : s.units[j].path = UnitOf(new).path
      OBVIOUS
    <2>1. PICK k \in DOMAIN q.units : q.units[k].path = UnitOf(new).path
      BY DEF TookIn
    <2>2. PICK j \in DOMAIN s.units : s.units[j].path = q.units[k].path
      BY DEF Grows
    <2> QED
      BY <2>1, <2>2
  <1> QED
    BY <1>1, <1>3, <1>4 DEF TookIn

(* A merge does both, and leaves functions and records.                     *)
LEMMA MergeGrows ==
    ASSUME NEW p, Fits(p), NEW new, NEW version, IsTranslation(new, version)
    PROVE  LET q == MergeProgram(p, new)
           IN  Grows(p, q) /\ TookIn(q, new) /\ Mapped(q)
  <1> DEFINE q == MergeProgram(p, new)
  <1>0. /\ q.structured = Over(new.structured, p.structured)
        /\ q.functions = Over(new.functions, p.functions)
        /\ q.origin = Over(new.origin, p.origin)
        /\ q.constants = Over(new.constants, p.constants)
        /\ q.claims = MergeClaims(p, new)
        /\ q.lifts = p.lifts \cup new.lifts
        /\ q.touched = p.touched \ DOMAIN new.structured
        /\ q.units = IF new.units = {} THEN p.units ELSE MergeUnit(p.units, UnitOf(new))
    BY DEF MergeProgram, UnitOf
  <1>1. Fits(q)
    BY MergeFits
  <1>2. DOMAIN new.claims = DOMAIN new.functions
    BY DEF IsTranslation
  <1> HIDE DEF q
  <1>3. /\ DOMAIN q.structured = DOMAIN new.structured \cup DOMAIN p.structured
        /\ DOMAIN q.origin = DOMAIN new.origin \cup DOMAIN p.origin
        /\ DOMAIN q.constants = DOMAIN new.constants \cup DOMAIN p.constants
        /\ IsMap(q.structured) /\ IsMap(q.origin) /\ IsMap(q.constants)
    <2>1. DOMAIN q.structured = DOMAIN new.structured \cup DOMAIN p.structured /\ IsMap(q.structured)
      BY <1>0 DEF Over, IsMap
    <2>2. DOMAIN q.origin = DOMAIN new.origin \cup DOMAIN p.origin /\ IsMap(q.origin)
      BY <1>0 DEF Over, IsMap
    <2>3. DOMAIN q.constants = DOMAIN new.constants \cup DOMAIN p.constants /\ IsMap(q.constants)
      BY <1>0 DEF Over, IsMap
    <2> QED
      BY <2>1, <2>2, <2>3
  <1>4. /\ DOMAIN q.functions = DOMAIN new.functions \cup DOMAIN p.functions
        /\ \A f \in DOMAIN new.functions : q.functions[f] = new.functions[f]
        /\ IsMap(q.functions)
    BY <1>0 DEF Over, IsMap
  <1>5. ClaimsMerged(q.claims, p, new)
    BY <1>0, MergedClaims
  <1>6. IsMap(q.claims)
    BY <1>0 DEF MergeClaims, IsMap
  <1>7. \A f \in DOMAIN p.claims : q.claims[f] \subseteq p.claims[f]
    <2> TAKE f \in DOMAIN p.claims
    <2>1. q.claims[f] = p.claims[f] \/ q.claims[f] = ReconcileClaims(p.claims[f], new.functions[f])
      BY <1>5 DEF ClaimsMerged
    <2> QED
      BY <2>1 DEF ReconcileClaims
  <1>8. \A f \in DOMAIN new.claims : \A c \in q.claims[f] : TargetIn(c, new.functions[f])
    <2> TAKE f \in DOMAIN new.claims
    <2> TAKE c \in q.claims[f]
    <2>1. f \in DOMAIN q.functions /\ q.functions[f] = new.functions[f]
      BY <1>2, <1>4
    <2> QED
      BY <1>1, <2>1 DEF Fits, ClaimsFit
  <1>9. /\ \A i \in DOMAIN p.units : \E j \in DOMAIN q.units : q.units[j].path = p.units[i].path
        /\ new.units # {} => \E j \in DOMAIN q.units : q.units[j].path = UnitOf(new).path
    <2>1. CASE new.units = {}
      BY <1>0, <2>1
    <2>2. CASE new.units # {}
      <3> DEFINE old == p.units
                 u == UnitOf(new)
                 t == MergeUnit(old, u)
      <3>1. old \in Seq({old[i] : i \in 1 .. Len(old)})
        BY DEF Fits, UnitsFit
      <3>2. q.units = t
        BY <1>0, <2>2
      <3> HIDE DEF old, u
      <3>3. PICK S : old \in Seq(S)
        BY <3>1
      <3>4. UnitMerged(t, old, u)
        BY <3>3, MergeUnitIs
      <3> HIDE DEF t
      <3> QED
        BY <3>2, <3>4 DEF UnitMerged, old, u
    <2> QED
      BY <2>1, <2>2
  <1>10. Lifted(p) \subseteq Lifted(q) /\ \A l \in new.lifts : l.fn \in Lifted(q)
    BY <1>0 DEF Lifted
  <1>11. Grows(p, q)
    BY <1>0, <1>3, <1>4, <1>5, <1>7, <1>9, <1>10 DEF Grows, ClaimsMerged
  <1>12. TookIn(q, new)
    BY <1>0, <1>3, <1>4, <1>5, <1>8, <1>9, <1>10 DEF TookIn, ClaimsMerged
  <1> QED
    BY <1>3, <1>4, <1>6, <1>11, <1>12 DEF Mapped, q

(* r, of the second ingest, follows q, of the first one.                    *)
Follows(q, r, P) ==
    /\ IsProgram(r)
    /\ FollowsIn(q.structured, r.structured, P.structured)
    /\ FollowsIn(q.functions, r.functions, P.functions)
    /\ FollowsIn(q.origin, r.origin, P.origin)
    /\ FollowsIn(q.constants, r.constants, P.constants)
    /\ r.claims = P.claims /\ r.touched = P.touched
    /\ UnitsFollow(q.units, r.units, P.units)
    /\ P.lifts \subseteq r.lifts
    /\ \A l \in r.lifts : l \in P.lifts \/ (l.fn \in Lifted(P) /\ l = OnTrust(l.fn))

LEMMA MergeFollows ==
    ASSUME NEW P, NEW q, Fits(q), NEW r, Follows(q, r, P), IsMap(P.claims),
           NEW new, NEW version, IsTranslation(new, version), TookIn(P, new)
    PROVE  Follows(MergeProgram(q, new), MergeProgram(r, new), P)
  <1> DEFINE d == MergeProgram(q, new)
             e == MergeProgram(r, new)
  <1>1. /\ d.structured = Over(new.structured, q.structured)
        /\ d.functions = Over(new.functions, q.functions)
        /\ d.origin = Over(new.origin, q.origin)
        /\ d.constants = Over(new.constants, q.constants)
        /\ d.units = IF new.units = {} THEN q.units ELSE MergeUnit(q.units, UnitOf(new))
    BY DEF MergeProgram, UnitOf
  <1>2. /\ e.structured = Over(new.structured, r.structured)
        /\ e.functions = Over(new.functions, r.functions)
        /\ e.origin = Over(new.origin, r.origin)
        /\ e.constants = Over(new.constants, r.constants)
        /\ e.claims = MergeClaims(r, new)
        /\ e.lifts = r.lifts \cup new.lifts
        /\ e.touched = r.touched \ DOMAIN new.structured
        /\ e.units = IF new.units = {} THEN r.units ELSE MergeUnit(r.units, UnitOf(new))
        /\ IsProgram(e)
    BY DEF MergeProgram, UnitOf, IsProgram
  <1> HIDE DEF d, e
  <1>3. /\ DOMAIN new.structured \subseteq DOMAIN P.structured
        /\ DOMAIN new.functions \subseteq DOMAIN P.functions
        /\ DOMAIN new.origin \subseteq DOMAIN P.origin
        /\ DOMAIN new.constants \subseteq DOMAIN P.constants
        /\ DOMAIN new.claims \subseteq DOMAIN P.claims
    BY DEF TookIn
  <1>4. FollowsIn(d.structured, e.structured, P.structured)
    <2>1. FollowsIn(q.structured, r.structured, P.structured)
      BY DEF Follows
    <2> QED
      BY <1>1, <1>2, <1>3, <2>1, OverFollows
  <1>5. FollowsIn(d.functions, e.functions, P.functions)
    <2>1. FollowsIn(q.functions, r.functions, P.functions)
      BY DEF Follows
    <2> QED
      BY <1>1, <1>2, <1>3, <2>1, OverFollows
  <1>6. FollowsIn(d.origin, e.origin, P.origin)
    <2>1. FollowsIn(q.origin, r.origin, P.origin)
      BY DEF Follows
    <2> QED
      BY <1>1, <1>2, <1>3, <2>1, OverFollows
  <1>7. FollowsIn(d.constants, e.constants, P.constants)
    <2>1. FollowsIn(q.constants, r.constants, P.constants)
      BY DEF Follows
    <2> QED
      BY <1>1, <1>2, <1>3, <2>1, OverFollows
  <1>8. e.claims = P.claims
    <2>1. ClaimsMerged(e.claims, r, new)
      BY <1>2, MergedClaims
    <2>2. r.claims = P.claims
      BY DEF Follows
    <2>3. DOMAIN e.claims = DOMAIN P.claims
      BY <1>3, <2>1, <2>2 DEF ClaimsMerged
    <2>4. \A f \in DOMAIN P.claims : e.claims[f] = P.claims[f]
      <3> TAKE f \in DOMAIN P.claims
      <3>1. CASE f \in DOMAIN new.claims
        <4>1. e.claims[f] = ReconcileClaims(P.claims[f], new.functions[f])
          BY <2>1, <2>2, <3>1 DEF ClaimsMerged
        <4>2. \A c \in P.claims[f] : TargetIn(c, new.functions[f])
          BY <3>1 DEF TookIn
        <4> QED
          BY <4>1, <4>2 DEF ReconcileClaims
      <3>2. CASE f \notin DOMAIN new.claims
        BY <2>1, <2>2, <3>2 DEF ClaimsMerged
      <3> QED
        BY <3>1, <3>2
    <2>5. IsMap(e.claims)
      BY <1>2 DEF MergeClaims, IsMap
    <2>6. FollowsIn(P.claims, e.claims, P.claims)
      BY <2>3, <2>4, <2>5 DEF FollowsIn
    <2> QED
      BY <2>6, FollowedIs
  <1>9. e.touched = P.touched
    <2>1. P.touched \cap DOMAIN new.structured = {} /\ r.touched = P.touched
      BY DEF TookIn, Follows
    <2> QED
      BY <1>2, <2>1
  <1>10. UnitsFollow(d.units, e.units, P.units)
    <2>1. UnitsFollow(q.units, r.units, P.units)
      BY DEF Follows
    <2>2. CASE new.units = {}
      BY <1>1, <1>2, <2>1, <2>2
    <2>3. CASE new.units # {}
      <3>1. \E i \in DOMAIN P.units : P.units[i].path = UnitOf(new).path
        BY <2>3 DEF TookIn
      <3>2. q.units \in Seq({q.units[i] : i \in 1 .. Len(q.units)})
        BY DEF Fits, UnitsFit
      <3>3. UnitsFollow(MergeUnit(q.units, UnitOf(new)), MergeUnit(r.units, UnitOf(new)), P.units)
        BY <2>1, <3>1, <3>2, MergeUnitFollows
      <3> QED
        BY <1>1, <1>2, <2>3, <3>3
    <2> QED
      BY <2>2, <2>3
  <1>11. P.lifts \subseteq e.lifts
    BY <1>2 DEF Follows
  <1>12. \A l \in e.lifts : l \in P.lifts \/ (l.fn \in Lifted(P) /\ l = OnTrust(l.fn))
    <2> TAKE l \in e.lifts
    <2>1. CASE l \in r.lifts
      BY <2>1 DEF Follows
    <2>2. CASE l \in new.lifts
      <3>1. PICK f : l = OnTrust(f)
        BY <2>2 DEF IsTranslation
      <3>2. l.fn = f
        BY <3>1 DEF OnTrust
      <3>3. l.fn \in Lifted(P)
        BY <2>2 DEF TookIn
      <3> QED
        BY <3>1, <3>2, <3>3
    <2> QED
      BY <1>2, <2>1, <2>2
  <1>13. Follows(d, e, P)
    BY <1>2, <1>4, <1>5, <1>6, <1>7, <1>8, <1>9, <1>10, <1>11, <1>12 DEF Follows
  <1> QED
    BY <1>13 DEF d, e

(* After any number of files there is at most one program.                  *)
Single(S) == \A q, s \in S : q = s
LEMMA FoldIsOne ==
    ASSUME Sources, NEW p, NEW is, IsEntry(is), NEW g, Folds(g, p, is)
    PROVE  \A k \in 0 .. Len(is) : Single(g[k])
  <1> DEFINE S == {k \in Nat : k <= Len(is) => Single(g[k])}
  <1>1. 0 \in S
    BY DEF Folds, Single
  <1>2. ASSUME NEW k \in Nat, k \in S
        PROVE  k + 1 \in S
    <2> SUFFICES ASSUME k + 1 <= Len(is), NEW q \in g[k + 1], NEW s \in g[k + 1]
                 PROVE  q = s
      BY DEF Single
    <2>1. k + 1 \in 1 .. Len(is) /\ k + 1 - 1 = k /\ k <= Len(is)
      BY DEF IsEntry
    <2>2. PICK q0 \in g[k], m \in Translated(is[k + 1]) : q = MergeProgram(q0, m)
      BY <2>1, FoldStep
    <2>3. PICK s0 \in g[k], n \in Translated(is[k + 1]) : s = MergeProgram(s0, n)
      BY <2>1, FoldStep
    <2>4. is[k + 1] \in DOMAIN project
      BY <2>1 DEF IsEntry
    <2>5. m = n
      BY <2>2, <2>3, <2>4, TranslatedIs
    <2>6. q0 = s0
      BY <1>2, <2>1, <2>2, <2>3 DEF Single
    <2> QED
      BY <2>2, <2>3, <2>5, <2>6
  <1> HIDE DEF S
  <1>3. Nat \subseteq S
    BY <1>1, <1>2, NatSetInduction
  <1> QED
    BY <1>3 DEF S, IsEntry

(* Nor does a later one lose what an earlier one had.                       *)
LEMMA FoldGrows ==
    ASSUME Sources, NEW p, Fits(p), NEW is, IsEntry(is), NEW g, Folds(g, p, is)
    PROVE  \A k \in 0 .. Len(is) : \A s \in g[k] : \A j \in 0 .. k : \A q \in g[j] : Grows(q, s)
  <1> DEFINE S == {k \in Nat : k <= Len(is) =>
                       \A s \in g[k] : \A j \in 0 .. k : \A q \in g[j] : Grows(q, s)}
  <1>0. \A k \in 0 .. Len(is) : Single(g[k])
    BY FoldIsOne
  <1>1. 0 \in S
    BY GrowsSelf DEF Folds
  <1>2. ASSUME NEW k \in Nat, k \in S
        PROVE  k + 1 \in S
    <2> SUFFICES ASSUME k + 1 <= Len(is), NEW s \in g[k + 1],
                        NEW j \in 0 .. k + 1, NEW q \in g[j]
                 PROVE  Grows(q, s)
      OBVIOUS
    <2>1. /\ k + 1 \in 1 .. Len(is) /\ k + 1 - 1 = k /\ k <= Len(is)
          /\ k \in 0 .. Len(is) /\ k + 1 \in 0 .. Len(is)
      BY DEF IsEntry
    <2>2. PICK r \in g[k], new \in Translated(is[k + 1]) : s = MergeProgram(r, new)
      BY <2>1, FoldStep
    <2>3. is[k + 1] \in DOMAIN project
      BY <2>1 DEF IsEntry
    <2>4. IsTranslation(new, project[is[k + 1]].versions[source[is[k + 1]]])
      BY <2>2, <2>3, TranslatedIs
    <2>5. Fits(r)
      BY <2>1, <2>2, FoldFits
    <2>6. Grows(r, s)
      BY <2>2, <2>4, <2>5, MergeGrows
    <2>7. CASE j = k + 1
      <3>1. Single(g[k + 1])
        BY <1>0, <2>1
      <3>2. q = s
        BY <2>7, <3>1 DEF Single
      <3> QED
        BY <3>2, GrowsSelf
    <2>8. CASE j # k + 1
      <3>1. j \in 0 .. k
        BY <2>8
      <3>2. Grows(q, r)
        BY <1>2, <2>1, <2>2, <3>1
      <3> QED
        BY <2>6, <3>2, GrowsOn
    <2> QED
      BY <2>7, <2>8
  <1> HIDE DEF S
  <1>3. Nat \subseteq S
    BY <1>1, <1>2, NatSetInduction
  <1> QED
    BY <1>3 DEF S, IsEntry

(* What a fold merged, and into which programs it merged it.                *)
LEMMA FoldTookIn ==
    ASSUME Sources, NEW p, Fits(p), NEW is, IsEntry(is), NEW g, Folds(g, p, is),
           NEW s \in g[Len(is)], NEW k \in 1 .. Len(is), NEW q \in g[k]
    PROVE  /\ Mapped(s)
           /\ \E r \in g[k - 1], new \in Translated(is[k]) :
                 q = MergeProgram(r, new) /\ Fits(r) /\ TookIn(s, new)
  <1>1. /\ k - 1 \in 0 .. Len(is) /\ k \in 0 .. Len(is)
        /\ Len(is) \in 0 .. Len(is) /\ k \in 0 .. Len(is)
        /\ Len(is) \in 1 .. Len(is) /\ Len(is) - 1 \in 0 .. Len(is)
    BY DEF IsEntry
  <1>2. PICK r \in g[k - 1], new \in Translated(is[k]) : q = MergeProgram(r, new)
    BY FoldStep
  <1>3. is[k] \in DOMAIN project /\ is[Len(is)] \in DOMAIN project
    BY <1>1 DEF IsEntry
  <1>4. IsTranslation(new, project[is[k]].versions[source[is[k]]])
    BY <1>2, <1>3, TranslatedIs
  <1>5. Fits(r)
    BY <1>1, <1>2, FoldFits
  <1>6. TookIn(q, new)
    BY <1>2, <1>4, <1>5, MergeGrows
  <1>7. Grows(q, s)
    BY <1>1, FoldGrows
  <1>8. TookIn(s, new)
    BY <1>6, <1>7, StillTookIn
  <1>9. Mapped(s)
    <2>1. PICK t \in g[Len(is) - 1], m \in Translated(is[Len(is)]) : s = MergeProgram(t, m)
      BY <1>1, FoldStep
    <2>2. IsTranslation(m, project[is[Len(is)]].versions[source[is[Len(is)]]])
      BY <1>3, <2>1, TranslatedIs
    <2>3. Fits(t)
      BY <1>1, <2>1, FoldFits
    <2> QED
      BY <2>1, <2>2, <2>3, MergeGrows
  <1> QED
    BY <1>2, <1>5, <1>8, <1>9

(* The program an ingest leaves has everything of the one it merged but the *)
(* lifts, and lifts of the same functions.                                  *)
SameButLifts(P, m) ==
    /\ P.structured = m.structured /\ P.functions = m.functions /\ P.claims = m.claims
    /\ P.constants = m.constants /\ P.units = m.units /\ P.origin = m.origin
    /\ P.touched = m.touched /\ Lifted(P) = Lifted(m) /\ IsProgram(P)
LEMMA ProvedIs ==
    ASSUME NEW m, Fits(m), NEW P \in ProveLifts(m)
    PROVE  SameButLifts(P, m) /\ P.lifts = {NewLift(m, f) : f \in Lifted(m)}
  <1>1. /\ P = [m EXCEPT !.lifts = {NewLift(m, f) : f \in Lifted(m)}]
        /\ \A f \in Lifted(m) : {} \notin WalksOf(m, f)
    BY ProvedFits
  <1>2. IsProgram(m)
    BY DEF Fits
  <1>3. /\ P.structured = m.structured /\ P.functions = m.functions /\ P.claims = m.claims
        /\ P.constants = m.constants /\ P.units = m.units /\ P.origin = m.origin
        /\ P.touched = m.touched /\ IsProgram(P)
        /\ P.lifts = {NewLift(m, f) : f \in Lifted(m)}
    BY <1>1, <1>2 DEF IsProgram
  <1>4. \A f \in Lifted(m) : NewLift(m, f).fn = f
    BY <1>1, NewLiftIs
  <1>5. Lifted(P) = Lifted(m)
    BY <1>3, <1>4 DEF Lifted
  <1> QED
    BY <1>3, <1>5 DEF SameButLifts

(* The second ingest follows the first, file by file.                       *)
LEMMA FoldFollows ==
    ASSUME Sources, NEW p, Fits(p), NEW is, IsEntry(is), NEW g, Folds(g, p, is),
           NEW m \in g[Len(is)], Fits(m), NEW P \in ProveLifts(m), NEW h, Folds(h, P, is)
    PROVE  \A k \in 0 .. Len(is) : \A q \in g[k], r \in h[k] : Follows(q, r, P)
  <1>0. SameButLifts(P, m)
    BY ProvedIs
  <1>m. Mapped(m) /\ UnitsFit(m)
    <2>1. Len(is) \in 1 .. Len(is)
      BY DEF IsEntry
    <2> QED
      BY <2>1, FoldTookIn DEF Fits
  <1>p. Mapped(P) /\ IsMap(P.units)
    <2>1. IsMap(m.units)
      <3> DEFINE s == m.units
      <3>1. s \in Seq({s[i] : i \in 1 .. Len(s)})
        BY <1>m DEF UnitsFit
      <3> HIDE DEF s
      <3>2. IsMap(s)
        BY <3>1 DEF IsMap
      <3> QED
        BY <3>2 DEF s
    <2> QED
      BY <1>0, <1>m, <2>1 DEF SameButLifts, Mapped
  <1> DEFINE S == {k \in Nat : k <= Len(is) => \A q \in g[k], r \in h[k] : Follows(q, r, P)}
  <1>1. 0 \in S
    <2>1. \A a, c : IsMap(c) => FollowsIn(a, c, c)
      BY DEF FollowsIn
    <2>2. \A a, c : IsMap(c) => UnitsFollow(a, c, c)
      BY DEF UnitsFollow
    <2>3. Follows(p, P, P)
      BY <1>0, <1>p, <2>1, <2>2 DEF Follows, SameButLifts, Mapped
    <2> QED
      BY <2>3 DEF Folds
  <1>2. ASSUME NEW k \in Nat, k \in S
        PROVE  k + 1 \in S
    <2> SUFFICES ASSUME k + 1 <= Len(is), NEW q \in g[k + 1], NEW r \in h[k + 1]
                 PROVE  Follows(q, r, P)
      OBVIOUS
    <2>1. /\ k + 1 \in 1 .. Len(is) /\ k + 1 - 1 = k /\ k <= Len(is)
      BY DEF IsEntry
    <2>2. PICK q0 \in g[k], new \in Translated(is[k + 1]) :
             q = MergeProgram(q0, new) /\ Fits(q0) /\ TookIn(m, new)
      BY <2>1, FoldTookIn
    <2>3. PICK r0 \in h[k], n \in Translated(is[k + 1]) : r = MergeProgram(r0, n)
      BY <2>1, FoldStep
    <2>4. is[k + 1] \in DOMAIN project
      BY <2>1 DEF IsEntry
    <2>5. n = new /\ IsTranslation(new, project[is[k + 1]].versions[source[is[k + 1]]])
      BY <2>2, <2>3, <2>4, TranslatedIs
    <2>6. Follows(q0, r0, P)
      BY <1>2, <2>1, <2>2, <2>3
    <2>7. TookIn(P, new)
      BY <1>0, <2>2 DEF SameButLifts, TookIn
    <2>8. IsMap(P.claims)
      BY <1>p DEF Mapped
    <2> QED
      BY <2>2, <2>3, <2>5, <2>6, <2>7, <2>8, MergeFollows
  <1> HIDE DEF S
  <1>3. Nat \subseteq S
    BY <1>1, <1>2, NatSetInduction
  <1> QED
    BY <1>3 DEF S, IsEntry

(* It is refused nowhere, for each file was translated the first time.      *)
LEMMA FoldGoesOn ==
    ASSUME NEW p, NEW P, NEW is, IsEntry(is), NEW g, Folds(g, p, is), NEW h, Folds(h, P, is)
    PROVE  \A k \in 0 .. Len(is) : g[k] # {} => h[k] # {}
  <1> DEFINE S == {k \in Nat : k <= Len(is) => (g[k] # {} => h[k] # {})}
  <1>1. 0 \in S
    BY DEF Folds
  <1>2. ASSUME NEW k \in Nat, k \in S
        PROVE  k + 1 \in S
    <2> SUFFICES ASSUME k + 1 <= Len(is), NEW q \in g[k + 1]
                 PROVE  h[k + 1] # {}
      OBVIOUS
    <2>1. /\ k + 1 \in 1 .. Len(is) /\ k + 1 - 1 = k /\ k <= Len(is)
      BY DEF IsEntry
    <2>2. PICK q0 \in g[k], new \in Translated(is[k + 1]) : q = MergeProgram(q0, new)
      BY <2>1, FoldStep
    <2>3. PICK r0 : r0 \in h[k]
      BY <1>2, <2>1, <2>2
    <2>4. h[k + 1] = MergedInto(h[k], is[k + 1])
      BY <2>1 DEF Folds
    <2>5. MergeProgram(r0, new) \in MergedInto(h[k], is[k + 1])
      BY <2>2, <2>3 DEF MergedInto
    <2> QED
      BY <2>4, <2>5
  <1> HIDE DEF S
  <1>3. Nat \subseteq S
    BY <1>1, <1>2, NatSetInduction
  <1> QED
    BY <1>3 DEF S, IsEntry

(* At the end of the second ingest, proving gives each lift back as it was. *)
LEMMA ProvedAgain ==
    ASSUME NEW m, Fits(m), Mapped(m), NEW P \in ProveLifts(m), NEW r, Follows(m, r, P)
    PROVE  ProveLifts(r) = {P}
  <1>0. SameButLifts(P, m) /\ P.lifts = {NewLift(m, f) : f \in Lifted(m)}
    BY ProvedIs
  <1>1. \A f \in Lifted(m) : {} \notin WalksOf(m, f)
    BY ProvedFits
  <1>2. r.structured = P.structured
    <2>1. FollowsIn(m.structured, r.structured, m.structured) /\ IsMap(m.structured)
      BY <1>0 DEF Follows, SameButLifts, Mapped
    <2> QED
      BY <1>0, <2>1, FollowedIs DEF SameButLifts
  <1>3. r.functions = P.functions
    <2>1. FollowsIn(m.functions, r.functions, m.functions) /\ IsMap(m.functions)
      BY <1>0 DEF Follows, SameButLifts, Mapped
    <2> QED
      BY <1>0, <2>1, FollowedIs DEF SameButLifts
  <1>4. r.origin = P.origin
    <2>1. FollowsIn(m.origin, r.origin, m.origin) /\ IsMap(m.origin)
      BY <1>0 DEF Follows, SameButLifts, Mapped
    <2> QED
      BY <1>0, <2>1, FollowedIs DEF SameButLifts
  <1>5. r.constants = P.constants
    <2>1. FollowsIn(m.constants, r.constants, m.constants) /\ IsMap(m.constants)
      BY <1>0 DEF Follows, SameButLifts, Mapped
    <2> QED
      BY <1>0, <2>1, FollowedIs DEF SameButLifts
  <1>6. r.units = P.units
    <2> DEFINE s == m.units
    <2>1. /\ s \in Seq({s[i] : i \in 1 .. Len(s)})
          /\ \A i, j \in DOMAIN s : s[i].path = s[j].path => i = j
      BY DEF Fits, UnitsFit
    <2>2. UnitsFollow(s, r.units, s)
      BY <1>0 DEF Follows, SameButLifts
    <2>3. P.units = s
      BY <1>0 DEF SameButLifts
    <2> HIDE DEF s
    <2>4. IsMap(s)
      BY <2>1 DEF IsMap
    <2> QED
      BY <2>1, <2>2, <2>3, <2>4, FollowedUnitsAre
  <1>7. /\ r.claims = P.claims /\ r.touched = P.touched /\ IsProgram(r) /\ IsProgram(P)
        /\ P.lifts \subseteq r.lifts
        /\ \A l \in r.lifts : l \in P.lifts \/ (l.fn \in Lifted(P) /\ l = OnTrust(l.fn))
    BY <1>0 DEF Follows, SameButLifts
  <1>8. Lifted(r) = Lifted(m)
    <2>1. Lifted(r) = Lifted(P)
      BY <1>7 DEF Lifted
    <2> QED
      BY <1>0, <2>1 DEF SameButLifts
  <1>9. \A f : WalksOf(r, f) = WalksOf(m, f)
    <2>1. r.units = m.units /\ r.constants = m.constants /\ r.structured = m.structured
      BY <1>0, <1>2, <1>5, <1>6 DEF SameButLifts
    <2>2. \A f : CFnOf(r, f) = CFnOf(m, f)
      BY <2>1 DEF CFnOf
    <2>3. \A x : Walk(r, x) = Walk(m, x)
      BY <2>1 DEF Walk
    <2> QED
      BY <2>2, <2>3 DEF WalksOf
  <1>10. ~ Diverges(r)
    BY <1>1, <1>8, <1>9 DEF Diverges
  <1>11. ASSUME NEW f \in Lifted(m)
         PROVE  NewLift(r, f) = NewLift(m, f)
    <2> DEFINE l == NewLift(m, f)
               w == WalksOf(m, f)
    <2>1. /\ l.fn = f /\ IsLift(l) /\ w \subseteq {l.pin}
          /\ l.pin = {} => w = {}
      BY <1>1, <1>11, NewLiftIs
    <2>2. l \in P.lifts
      BY <1>0
    <2>3. \A k \in P.lifts : k.fn = f => k = l
      <3> TAKE k \in P.lifts
      <3>1. PICK e \in Lifted(m) : k = NewLift(m, e)
        BY <1>0
      <3>2. k.fn = e
        BY <1>1, <3>1, NewLiftIs
      <3> QED
        BY <3>1, <3>2
    <2> HIDE DEF l, w
    <2>4. l \in r.lifts /\ \A k \in r.lifts : k.fn = f => k = l \/ k = OnTrust(f)
      BY <1>7, <2>2, <2>3
    <2>5. OldLift(r, f) = l
      <3>1. CASE l.pin = {}
        <4>1. l = OnTrust(f)
          BY <2>1, <3>1 DEF IsLift, OnTrust
        <4>2. OldLifts(r, f) = {l}
          BY <2>1, <2>4, <3>1, <4>1 DEF OldLifts
        <4> QED
          BY <4>2 DEF OldLift
      <3>2. CASE l.pin # {}
        <4>1. OnTrust(f).pin = {}
          BY DEF OnTrust
        <4>2. {k \in {k \in r.lifts : k.fn = f} : k.pin # {}} = {l}
          BY <2>1, <2>4, <3>2, <4>1
        <4>3. OldLifts(r, f) = {l}
          BY <4>2 DEF OldLifts
        <4> QED
          BY <4>3 DEF OldLift
      <3> QED
        BY <3>1, <3>2
    <2>6. WalksOf(r, f) = w
      BY <1>9 DEF w
    <2> QED
      BY <2>1, <2>5, <2>6 DEF NewLift, l
  <1>12. {NewLift(r, f) : f \in Lifted(r)} = P.lifts
    BY <1>0, <1>8, <1>11
  <1>13. Pinned(r) = P
    <2> DEFINE z == Pinned(r)
    <2>1. /\ z.structured = r.structured /\ z.functions = r.functions /\ z.claims = r.claims
          /\ z.constants = r.constants /\ z.units = r.units /\ z.origin = r.origin
          /\ z.touched = r.touched /\ z.lifts = P.lifts /\ IsProgram(z)
      BY <1>7, <1>12 DEF Pinned, IsProgram
    <2> HIDE DEF z
    <2>2. z = P
      BY <1>2, <1>3, <1>4, <1>5, <1>6, <1>7, <2>1 DEF IsProgram
    <2> QED
      BY <2>2 DEF z
  <1> QED
    BY <1>10, <1>13, ProveLiftsIs

(* To ingest what an ingest just did, leaves the program as it is.          *)
LEMMA FoldedAgain ==
    ASSUME Sources, NEW p, Fits(p), NEW is, IsEntry(is), NEW m \in Folded(p, is),
           NEW P \in ProveLifts(m)
    PROVE  UNION {ProveLifts(r) : r \in Folded(P, is)} = {P}
  <1>1. Len(is) \in Nat /\ Len(is) \in 0 .. Len(is) /\ Len(is) \in 1 .. Len(is)
    BY DEF IsEntry
  <1>2. PICK g : Folds(g, p, is)
    BY <1>1, FoldedIs
  <1>3. PICK h : Folds(h, P, is)
    BY <1>1, FoldedIs
  <1>4. m \in g[Len(is)] /\ Folded(P, is) = h[Len(is)]
    BY <1>2, <1>3 DEF Folds
  <1>5. Fits(m)
    BY <1>1, <1>2, <1>4, FoldFits
  <1>6. Mapped(m)
    BY <1>1, <1>2, <1>4, FoldTookIn
  <1>7. \A k \in 0 .. Len(is) : \A q \in g[k], r \in h[k] : Follows(q, r, P)
    BY <1>2, <1>3, <1>4, <1>5, FoldFollows
  <1>8. h[Len(is)] # {}
    <2>1. \A k \in 0 .. Len(is) : g[k] # {} => h[k] # {}
      BY <1>2, <1>3, FoldGoesOn
    <2> QED
      BY <1>1, <1>4, <2>1
  <1>9. \A r \in h[Len(is)] : ProveLifts(r) = {P}
    <2> TAKE r \in h[Len(is)]
    <2>1. Follows(m, r, P)
      BY <1>1, <1>4, <1>7
    <2> QED
      BY <1>5, <1>6, <2>1, ProvedAgain
  <1> QED
    BY <1>4, <1>8, <1>9

(* The two commands fold the same files in the same order.                  *)
LEMMA SameEntry ==
    ASSUME Sources, NEW is \in Entries, NEW js \in Entries, Range(is) = Range(js), Range(is) # {}
    PROVE  is = js /\ IsEntry(is)
  <1> DEFINE all == [i \in DOMAIN project |-> i]
  <1>1. Len(project) \in Nat /\ DOMAIN project = 1 .. Len(project)
    BY ProjectIsSequence
  <1>2. \A i : Range(<<i>>) = {i}
    BY DEF Range
  <1>3. Range(all) = DOMAIN project
    BY DEF Range
  <1>4. ASSUME NEW i \in DOMAIN project, Range(<<i>>) = Range(all)
        PROVE  <<i>> = all
    <2>1. {i} = 1 .. Len(project)
      BY <1>1, <1>2, <1>3, <1>4
    <2>2. i = 1 /\ Len(project) = 1
      <3>1. i \in 1 .. Len(project)
        BY <2>1
      <3>2. 1 \in 1 .. Len(project) /\ Len(project) \in 1 .. Len(project)
        BY <1>1, <3>1
      <3>3. 1 \in {i} /\ Len(project) \in {i}
        BY <2>1, <3>2
      <3> QED
        BY <3>3
    <2>3. all = [x \in 1 .. 1 |-> x]
      BY <1>1, <2>2
    <2> QED
      BY <2>2, <2>3
  <1>5. \A i, j : Range(<<i>>) = Range(<<j>>) => <<i>> = <<j>>
    <2> TAKE i, j
    <2> HAVE Range(<<i>>) = Range(<<j>>)
    <2>1. {i} = {j}
      BY <1>2
    <2>2. i = j
      BY <2>1
    <2> QED
      BY <2>2
  <1>6. /\ is = all \/ \E i \in DOMAIN project : is = <<i>>
        /\ js = all \/ \E i \in DOMAIN project : js = <<i>>
    BY DEF Entries
  <1>7. is # <<>>
    BY DEF Range
  <1>8. IsEntry(is)
    BY <1>7, EntriesAreEntries
  <1> HIDE DEF all
  <1> QED
    BY <1>4, <1>5, <1>6, <1>8

(* To ingest again, with sources and program as they were left by an        *)
(* ingest, changes nothing.                                                 *)
LEMMA NextReingests == IInv /\ ReingestIsNoOp /\ [Next]_vars => ReingestIsNoOp'
  <1> SUFFICES ASSUME IInv, ReingestIsNoOp, [Next]_vars
               PROVE  ReingestIsNoOp'
    OBVIOUS
  <1>0. Sources /\ Fits(program)
    BY DEF IInv
  <1>a. ASSUME last'.files = {} \/ last'.exit # "ok"
        PROVE  ReingestIsNoOp'
    BY <1>a DEF ReingestIsNoOp
  <1>1. ASSUME NEW is \in Entries, Ingest(is)
        PROVE  ReingestIsNoOp'
    <2>1. PICK m \in Folded(program, is) : program' \in ProveLifts(m)
      BY <1>1 DEF Ingest
    <2>2. project' = project /\ source' = source /\ last' = [files |-> Range(is), exit |-> "ok"]
      BY <1>1 DEF Ingest, Ended
    <2>3. last'.files = Range(is) /\ last'.exit = "ok"
      BY <2>2
    <2>4. Entries' = Entries
      BY <2>2 DEF Entries
    <2>5. \A js : Folded(program, js)' = Folded(program', js)
      BY <2>2 DEF Folded, MergedInto, Translated
    <2> SUFFICES ASSUME NEW js \in Entries, Range(js) = Range(is), Range(is) # {}
                 PROVE  UNION {ProveLifts(r) : r \in Folded(program', js)} = {program'}
      BY <2>3, <2>4, <2>5 DEF ReingestIsNoOp
    <2>6. js = is /\ IsEntry(is)
      BY <1>0, SameEntry
    <2> QED
      BY <1>0, <2>1, <2>6, FoldedAgain
  <1>2. ASSUME NEW is \in Entries, IngestRefused(is) \/ IngestUnproved(is)
        PROVE  ReingestIsNoOp'
    BY <1>2, <1>a DEF IngestRefused, IngestUnproved, Ended
  <1>3. ASSUME ProveBump \/ ProveFails
        PROVE  ReingestIsNoOp'
    BY <1>3, <1>a DEF ProveBump, ProveFails, Ended
  <1>4. ASSUME NEW f, NEW c, ClaimAdd(f, c)
        PROVE  ReingestIsNoOp'
    BY <1>4, <1>a DEF ClaimAdd, Ended
  <1>5. ASSUME NEW i, NEW v, EditSource(i, v)
        PROVE  ReingestIsNoOp'
    BY <1>5, <1>a DEF EditSource, Edited
  <1>6. ASSUME NEW i, NEW v, HandEdit(i, v)
        PROVE  ReingestIsNoOp'
    BY <1>6, <1>a DEF HandEdit, Edited
  <1>7. ASSUME UNCHANGED vars
        PROVE  ReingestIsNoOp'
    <2>1. project' = project /\ source' = source /\ last' = last /\ program' = program
      BY <1>7 DEF vars
    <2>2. Entries' = Entries
      BY <2>1 DEF Entries
    <2>3. \A js : Folded(program, js)' = Folded(program, js)
      BY <2>1 DEF Folded, MergedInto, Translated
    <2> QED
      BY <2>1, <2>2, <2>3 DEF ReingestIsNoOp
  <1> QED
    BY <1>1, <1>2, <1>3, <1>4, <1>5, <1>6, <1>7 DEF Next

(* In every history, an ingest that ended well leaves nothing to ingest.    *)
THEOREM IngestIsIdempotent == Spec => []ReingestIsNoOp
  <1>1. Spec => []IInv
    BY InitIInv, NextIInv, PTL DEF Spec
  <1>2. Init => ReingestIsNoOp
    BY DEF Init, ReingestIsNoOp
  <1> QED
    BY <1>1, <1>2, NextReingests, PTL DEF Spec

=============================================================================
