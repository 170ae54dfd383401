---------------------------- MODULE IngestHistory ----------------------------
(***************************************************************************)
(* Ingesting C into a program, over its history: the source files change,  *)
(* `quod ingest c` and `quod ingest` translate them again and fold the     *)
(* result into what the program holds (driver.py, merge.py), the lifts are *)
(* proved (lift_check.py), and people add claims to functions and edit     *)
(* program.json by hand.                                                   *)
(*                                                                         *)
(* What a translation of a file comes to, and what a walk of a lift        *)
(* records, are parameters here; CIngest gives them.                       *)
(*                                                                         *)
(* Each command holds the program lock from load to save, and ProgramStore *)
(* shows that such a command is atomic, so each is one action here.  What  *)
(* becomes of artifact files is the subject of EquivEvidence.              *)
(***************************************************************************)
EXTENDS Naturals, FiniteSets, SequencesExt

CONSTANTS
    Projects,           \* each a sequence of files: [name, stem, versions]
    Ingested(_, _),     \* what a file comes to in a version: one program, or none
    Recorded(_, _, _),  \* the record of a walk of layers A and B: one, or none
    MaxEdits,           \* bound: edits of sources and of program.json in a history
    MaxClaims           \* bound: claims in the program at once

\* A version is its functions, in order, and its string literals, in the
\* order in which they are first met.
Version(fns, texts) == [fns |-> fns, texts |-> texts]
File(name, stem, versions) == [name |-> name, stem |-> stem, versions |-> versions]

\* Lifts are taken on trust at first, with no pin.
OnTrust(f) == [fn |-> f, pin |-> {}, own |-> TRUE]

\* A translation has every function of the file in each layer, nobody's claims
\* and lifts on trust; translating again gives the same.
IsTranslation(new, version) ==
    LET names == {version.fns[i].name : i \in DOMAIN version.fns}
    IN  /\ names = DOMAIN new.structured /\ names = DOMAIN new.functions
        /\ names = DOMAIN new.origin /\ new.claims = [f \in names |-> {}]
        /\ new.lifts \subseteq {OnTrust(f) : f \in names}

ASSUME BoundsAssumption == {MaxEdits, MaxClaims} \subseteq Nat
ASSUME ProjectsAssumption == \A p \in Projects :
    /\ p \in Seq(Range(p))
    /\ \A i \in DOMAIN p :
          /\ 1 \in DOMAIN p[i].versions
          /\ \A v \in DOMAIN p[i].versions :
                /\ \A new \in Ingested(p[i], p[i].versions[v]) : IsTranslation(new, p[i].versions[v])
                /\ \A m, n \in Ingested(p[i], p[i].versions[v]) : m = n

VARIABLES
    project,    \* the files of this history
    source,     \* source[i]: the version of file i that is on the disk
    program,    \* program.json
    last,       \* the command just run: the files it ingested, and how it ended
    edits       \* edits so far

vars == <<project, source, program, last, edits>>

\* Of these, program.json does not hold: origin[f], the C function layer C of f
\* was made from; c, the source of a function of a unit; touched, the functions
\* whose layer B was edited since it was translated; and own, that a lift was
\* pinned to layer B as it was translated.
EmptyProgram ==
    [structured |-> <<>>, functions |-> <<>>, claims |-> <<>>, constants |-> <<>>,
     units |-> <<>>, lifts |-> {}, origin |-> <<>>, touched |-> {}]

Init ==
    /\ project \in Projects
    /\ source = [i \in DOMAIN project |-> 1]
    /\ program = EmptyProgram
    /\ last = [files |-> {}, exit |-> "ok"]
    /\ edits = 0

-----------------------------------------------------------------------------
(* Merging.                                                                *)

ClaimableTypes == {"i1", "i8", "u8", "i32", "u32", "i64", "u64"}

\* What a claim is about is still there and still an integer.
TargetIn(c, fn) ==
    IF c.on = "return" THEN fn.result \in ClaimableTypes
    ELSE \E i \in DOMAIN fn.params : fn.params[i].name = c.on /\ fn.params[i].type \in ClaimableTypes

\* Mutant: nobody's claims are lost.
KeepClaims(claims, fn) == claims

\* Mutant: a new function has the claims it came with.
DropClaims(claims, fn) == {}

ReconcileClaims(claims, fn) == {c \in claims : TargetIn(c, fn)}

\* Mutant: a unit is added at the end, whatever was there.
AddUnit(units, unit) == Append(units, unit)

\* Keyed by the file's name; a new version takes the place of the old one.
MergeUnit(units, unit) ==
    IF \E i \in DOMAIN units : units[i].path = unit.path
      THEN [i \in DOMAIN units |-> IF units[i].path = unit.path THEN unit ELSE units[i]]
      ELSE Append(units, unit)

\* By name, the new ones win.
Over(new, old) ==
    [x \in DOMAIN new \cup DOMAIN old |-> IF x \in DOMAIN new THEN new[x] ELSE old[x]]

\* Claims go over to a new function where their target lives on.
MergeClaims(old, new) ==
    [f \in DOMAIN new.claims \cup DOMAIN old.claims |->
        CASE f \notin DOMAIN new.claims -> old.claims[f]
          [] f \notin DOMAIN old.claims -> new.claims[f]
          [] OTHER -> new.claims[f] \cup ReconcileClaims(old.claims[f], new.functions[f])]

MergeProgram(old, new) ==
    [structured |-> Over(new.structured, old.structured),
     functions |-> Over(new.functions, old.functions),
     claims |-> MergeClaims(old, new),
     constants |-> Over(new.constants, old.constants),
     units |-> IF new.units = {} THEN old.units ELSE MergeUnit(old.units, CHOOSE u \in new.units : TRUE),
     lifts |-> old.lifts \cup new.lifts,
     origin |-> Over(new.origin, old.origin),
     touched |-> old.touched \ DOMAIN new.structured]

-----------------------------------------------------------------------------
(* Proving.                                                                *)

\* Ids are made from names: of two C functions of one name, the last counts.
Named(units, f) ==
    SelectSeq(FlattenSeq([i \in DOMAIN units |-> units[i].fns]), LAMBDA x : x.a.name = f)
CFnOf(p, f) == IF Named(p.units, f) = <<>> THEN {} ELSE {Last(Named(p.units, f))}

Walk(p, x) == Recorded(p.constants, x.a, p.structured[x.a.name])

\* A witness goes before a claim on trust.  A lift without a C function stays
\* as it is, and so does one whose record is the one pinned.
Repin(p, f, walks) ==
    LET all == {l \in p.lifts : l.fn = f}
        witness == {l \in all : l.pin # {}}
        old == CHOOSE l \in IF witness = {} THEN all ELSE witness : TRUE
    IN  {IF walks \subseteq {old.pin} THEN old
         ELSE [fn |-> f, pin |-> UNION walks, own |-> f \notin p.touched]}

\* Every lift of the program is checked again: one that diverges fails them
\* all.
ProveLifts(p) ==
    LET walks == [f \in {l.fn : l \in p.lifts} |-> {Walk(p, x) : x \in CFnOf(p, f)}]
    IN  IF \E f \in DOMAIN walks : {} \in walks[f] THEN {}
        ELSE {[p EXCEPT !.lifts = UNION {Repin(p, f, walks[f]) : f \in DOMAIN walks}]}

-----------------------------------------------------------------------------
(* Commands.                                                               *)

\* The files are translated and merged one after the other: nothing when one
\* is refused.
Translated(i) == Ingested(project[i], project[i].versions[source[i]])
MergedInto(ps, i) == {MergeProgram(p, new) : p \in ps, new \in Translated(i)}
Folded(p, is) ==
    LET upTo[k \in 0 .. Len(is)] == IF k = 0 THEN {p} ELSE MergedInto(upTo[k - 1], is[k])
    IN  upTo[Len(is)]

Ended(is, exit) ==
    /\ last' = [files |-> is, exit |-> exit]
    /\ UNCHANGED <<project, source, edits>>

\* `quod ingest c` has one file, `quod ingest` all of them.
Ingest(is) ==
    \E merged \in Folded(program, is) :
        /\ program' \in ProveLifts(merged)
        /\ Ended(Range(is), "ok")

\* exit 1, with nothing saved.
IngestRefused(is) ==
    /\ Folded(program, is) = {}
    /\ UNCHANGED program
    /\ Ended(Range(is), "refused")

IngestUnproved(is) ==
    /\ \E merged \in Folded(program, is) : ProveLifts(merged) = {}
    /\ UNCHANGED program
    /\ Ended(Range(is), "unproved")

\* `quod equiv prove --bump`.
ProveBump ==
    /\ program.lifts # {}
    /\ program' \in ProveLifts(program)
    /\ Ended({}, "ok")

ProveFails ==
    /\ ProveLifts(program) = {}
    /\ UNCHANGED program
    /\ Ended({}, "unproved")

ClaimCount(claims) == FoldSet(LAMBDA f, n : n + Cardinality(claims[f]), 0, DOMAIN claims)

\* `quod claim add`: a bound on a parameter or on the result.
ClaimAdd(f, c) ==
    /\ TargetIn(c, program.functions[f])
    /\ ClaimCount(program.claims) < MaxClaims
    /\ program' = [program EXCEPT !.claims[f] = @ \cup {c}]
    /\ Ended({}, "ok")

Edited ==
    /\ edits < MaxEdits
    /\ edits' = edits + 1
    /\ last' = [files |-> {}, exit |-> "ok"]
    /\ UNCHANGED project

EditSource(i, v) ==
    /\ v # source[i]
    /\ source' = [source EXCEPT ![i] = v]
    /\ Edited
    /\ UNCHANGED program

\* program.json is edited: one layer B function becomes what some version of
\* a file would have made it, as when a merge takes it from another branch.
HandEdit(i, v) ==
    /\ Edited
    /\ \E new \in Ingested(project[i], project[i].versions[v]) :
          \E f \in DOMAIN new.structured \cap DOMAIN program.structured :
             /\ new.structured[f] # program.structured[f]
             /\ program' = [program EXCEPT !.structured[f] = new.structured[f], !.touched = @ \cup {f}]
    /\ UNCHANGED source

Entries == {<<i>> : i \in DOMAIN project} \cup {[i \in DOMAIN project |-> i]}

Next ==
    \/ \E is \in Entries : Ingest(is) \/ IngestRefused(is) \/ IngestUnproved(is)
    \/ ProveBump
    \/ ProveFails
    \/ \E f \in DOMAIN program.functions :
          \E x \in {program.functions[f].params[i].name : i \in DOMAIN program.functions[f].params} \cup {"return"} :
             ClaimAdd(f, [on |-> x])
    \/ \E i \in DOMAIN project : \E v \in DOMAIN project[i].versions :
          EditSource(i, v) \/ HandEdit(i, v)

Spec == Init /\ [][Next]_vars

-----------------------------------------------------------------------------
(* Properties.                                                             *)

\* merge.py:1-32: what the parts of a program say of one another.  A function
\* has all of its layers and its claims are about integers it has; a lift is
\* listed once; every string a lifted function names is there, for its walk
\* found it.
TypeOK ==
    LET p == program IN
    /\ project \in Projects
    /\ \A i \in DOMAIN project : source[i] \in DOMAIN project[i].versions
    /\ DOMAIN p.functions = DOMAIN p.structured /\ DOMAIN p.claims = DOMAIN p.functions
    /\ DOMAIN p.origin = DOMAIN p.functions
    /\ \A f \in DOMAIN p.functions : \A c \in p.claims[f] : TargetIn(c, p.functions[f])
    /\ \A l \in p.lifts : l.fn \in DOMAIN p.structured
    /\ \A k, l \in p.lifts : k.fn = l.fn => k = l
    /\ \A i, j \in DOMAIN p.units : p.units[i].path = p.units[j].path => i = j

\* merge.py:29-30: to ingest again, with sources and program as they were left
\* by an ingest, changes nothing.
ReingestIsNoOp ==
    last.files # {} /\ last.exit = "ok" =>
        \A is \in Entries :
            Range(is) = last.files => UNION {ProveLifts(m) : m \in Folded(program, is)} = {program}

\* merge.py:11-19: what users said of a function stays said as long as the
\* function has what it was about, whichever command ran.  (Of a name that two
\* files define, `quod ingest` merges one after the other.)
Definers(f) == {i \in DOMAIN project : \E c \in Range(project[i].versions[source[i]].fns) : c.name = f}
ClaimsOutliveIngests ==
    [][\A f \in DOMAIN program.claims : Cardinality(Definers(f)) <= 1 =>
          \A c \in program.claims[f] :
             c \in program'.claims[f] \/ ~TargetIn(c, program'.functions[f])]_vars

\* driver.py:296-301: a file that layer B can translate is ingested, whether
\* or not all of it has a layer A.
TranslatedFilesAreIngested == last.exit # "unproved"
=============================================================================
