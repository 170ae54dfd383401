--------------------------- MODULE EquivEvidence ---------------------------
(***************************************************************************)
(* Evidence for the program-level equivalences of ingested C and binaries: *)
(* `quod ingest c` and `quod equiv prove --bump`, step by step, with the   *)
(* artifact files they write before they save the program.                 *)
(*                                                                         *)
(* A pair is one of three kinds, each with a pass of its own:              *)
(*   "lift"  a C function and the quod function lifted from it             *)
(*           (lift_check.prove_lifts);                                     *)
(*   "tree"  a C function and one decompiled from a binary                 *)
(*           (binary_decompile_walk.prove_decompile_lifts);                *)
(*   "rel"   a quod function and a binary one, in SMT                      *)
(*           (binary_relational, _bump_bin_relational).                    *)
(*                                                                         *)
(* live[n] is what a check of pair n would record now: the bytes of its    *)
(* artifact, identified with their sha256.  Answer says how it ends.       *)
(*                                                                         *)
(* Bodies change and files are lost between commands: what becomes of      *)
(* an edit made while --bump runs without the program lock is the subject  *)
(* of ProgramStore.                                                        *)
(***************************************************************************)
EXTENDS Naturals, FiniteSets

CONSTANTS
    Programs,       \* the [[program]] entries of one quod.toml
    Pairs,          \* the pairs of all of them
    Owner,          \* Owner[n]: the program pair n belongs to
    Kind,           \* Kind[n]
    Path,           \* Path[n]: the file stem, the C function's name
    Shapes,         \* artifacts a check may come to
    Outcomes,       \* Outcomes[n]: those a check of pair n may come to
    Answer,         \* Answer[s]: "yes", "no", (Z3 only) "unknown", or
                    \* "gone": an endpoint is, or the encoder refuses it
    MaxEdits        \* bound: edits of function bodies

Kinds == {"lift", "tree", "rel"}

ASSUME PairsAssumption ==
    /\ Owner \in [Pairs -> Programs]
    /\ Kind \in [Pairs -> Kinds]
    /\ DOMAIN Path = Pairs
    /\ Outcomes \in [Pairs -> SUBSET Shapes]
    /\ Answer \in [Shapes -> {"yes", "no", "unknown", "gone"}]
    /\ {"none", "axiom"} \cap Shapes = {}

VARIABLES
    live,       \* live[n]: what checking the saved bodies of n comes to
    pin,        \* pin[n]: "none", "axiom", or the hash the witness pins
    files,      \* <<kind, stem, content>> of the artifacts under proofs/
    pass,       \* pass[p]: where the command on p is: "idle", a kind, "save"
    dry,        \* dry[p]: it runs with --no-write-proofs
    mem,        \* mem[p]: its in-memory pins and bodies
    todo,       \* todo[p]: pairs its pass still has to check
    wrote,      \* wrote[p]: pairs whose pin and file it has both renewed
    unsettled,  \* pairs whose file is not the work of whoever saved the pin
    edits       \* edits so far

vars == <<live, pin, files, pass, dry, mem, todo, wrote, unsettled, edits>>

Of(p, k) == {n \in Pairs : Owner[n] = p /\ Kind[n] = k}

Pins == {"none", "axiom"} \cup Shapes

\* What an idle command has in memory.
Nothing == [pin |-> <<>>, live |-> <<>>, ingest |-> FALSE]

Init ==
    /\ live \in {l \in [Pairs -> Shapes] : \A n \in Pairs : l[n] \in Outcomes[n]}
    /\ pin = [n \in Pairs |-> IF Kind[n] = "lift" THEN "axiom" ELSE "none"]
    /\ files = {}
    /\ pass = [p \in Programs |-> "idle"]
    /\ dry = [p \in Programs |-> FALSE]
    /\ mem = [p \in Programs |-> Nothing]
    /\ todo = [p \in Programs |-> {}]
    /\ wrote = [p \in Programs |-> {}]
    /\ unsettled = {}
    /\ edits = 0

-----------------------------------------------------------------------------
\* A lift or tree artifact has one path per function; an SMT problem has its
\* hash in its name.
Artifact(n, s) == <<Kind[n], Path[n], s>>

Written(n, s) ==
    IF Kind[n] = "rel" THEN files \cup {Artifact(n, s)}
    ELSE {a \in files : a[1] # Kind[n] \/ a[2] # Path[n]} \cup {Artifact(n, s)}

\* A witness verifies: the pinned file exists and hashes to the pin.
Verifies(n) == pin[n] \in Shapes => Artifact(n, pin[n]) \in files

\* A body is edited, or program.json by hand.
Edit(n, s) ==
    /\ pass[Owner[n]] = "idle"
    /\ edits < MaxEdits
    /\ edits' = edits + 1
    /\ live' = [live EXCEPT ![n] = s]
    /\ UNCHANGED <<pin, files, pass, dry, mem, todo, wrote, unsettled>>

\* git clean or a merge, between commands as well.
Lose(a) ==
    /\ \A p \in Programs : pass[p] = "idle"
    /\ files' = files \ {a}
    /\ unsettled' = unsettled \cup {n \in Pairs : Kind[n] = a[1] /\ Path[n] = a[2]}
    /\ UNCHANGED <<live, pin, pass, dry, mem, todo, wrote, edits>>

-----------------------------------------------------------------------------
\* A command loads the program; `ingest` under the lock and after it has merged
\* newly lifted bodies, --bump without.  Lifts are checked first.
Begin(p, ingest, d, newLive) ==
    /\ pass[p] = "idle"
    /\ pass' = [pass EXCEPT ![p] = "lift"]
    /\ dry' = [dry EXCEPT ![p] = d]
    /\ mem' = [mem EXCEPT ![p] = [pin |-> pin, live |-> newLive, ingest |-> ingest]]
    /\ todo' = [todo EXCEPT ![p] = Of(p, "lift")]
    /\ UNCHANGED <<live, pin, files, wrote, unsettled>>

Bump(p, d) == /\ Begin(p, FALSE, d, live)
              /\ UNCHANGED edits

\* merge_program keeps the witness of a pair beside the ingester's new axiom,
\* and prove_lifts prefers it.
Ingest(p, n, s) == /\ n \in Of(p, "lift")
                   /\ edits < MaxEdits
                   /\ edits' = edits + 1
                   /\ Begin(p, TRUE, FALSE, [live EXCEPT ![n] = s])

CheckedOff(p, n) == todo' = [todo EXCEPT ![p] = @ \ {n}]

Pinned(p, n, s) == mem' = [mem EXCEPT ![p].pin[n] = s]

SameFile(n) == {m \in Pairs : Kind[m] = Kind[n] /\ Path[m] = Path[n]}

\* Mutant: the directory is made and the artifact left to a later pass.
RenewUnwritten(p, n, s) ==
    /\ Pinned(p, n, s)
    /\ wrote' = [wrote EXCEPT ![p] = @ \cup {n}]
    /\ unsettled' = unsettled \cup {n}
    /\ UNCHANGED files

\* Write the artifact, unless dry, and pin it.
Renew(p, n, s) ==
    /\ files' = IF dry[p] THEN files ELSE Written(n, s)
    /\ Pinned(p, n, s)
    /\ wrote' = IF dry[p] THEN wrote ELSE [wrote EXCEPT ![p] = @ \cup {n}]
    /\ unsettled' = unsettled \cup (IF dry[p] THEN {n} ELSE SameFile(n))

\* Mutant: a witness is current when there is one.
RepinOnce(p, n, s) ==
    \/ /\ mem[p].pin[n] \in Shapes
       /\ UNCHANGED <<files, mem, wrote, unsettled>>
    \/ /\ mem[p].pin[n] \notin Shapes
       /\ Renew(p, n, s)

\* A walk that succeeds: a pin that is current stays, and its file is not
\* looked at.
Repin(p, n, s) ==
    \/ /\ mem[p].pin[n] = s
       /\ UNCHANGED <<files, mem, wrote, unsettled>>
    \/ /\ mem[p].pin[n] # s
       /\ Renew(p, n, s)

\* The lift and tree passes.  A tree pair that is refuted is only reported; a
\* pair whose function is gone passes through.
CheckWalk(p, n) ==
    LET s == mem[p].live[n] IN
    /\ pass[p] \in {"lift", "tree"}
    /\ n \in todo[p]
    /\ \/ /\ Answer[s] = "yes"
          /\ Repin(p, n, s)
       \/ /\ Answer[s] = "gone" \/ (Answer[s] # "yes" /\ pass[p] = "tree")
          /\ UNCHANGED <<files, mem, wrote, unsettled>>
    /\ CheckedOff(p, n)
    /\ UNCHANGED <<live, pin, pass, dry, edits>>

\* A lift that is refuted raises LiftCheckError: exit 1, nothing saved, what
\* earlier pairs wrote stays written.
LiftCheckError(p, n) ==
    /\ pass[p] = "lift"
    /\ n \in todo[p]
    /\ Answer[mem[p].live[n]] \notin {"yes", "gone"}
    /\ pass' = [pass EXCEPT ![p] = "idle"]
    /\ mem' = [mem EXCEPT ![p] = Nothing]
    /\ todo' = [todo EXCEPT ![p] = {}]
    /\ wrote' = [wrote EXCEPT ![p] = {}]
    /\ UNCHANGED <<live, pin, files, dry, unsettled, edits>>

\* The relational pass: the problem is written whatever Z3 says, and unlinked
\* again on a dry run that proves; a refuted witness is dropped.
CheckRel(p, n) ==
    LET s == mem[p].live[n] IN
    /\ pass[p] = "rel"
    /\ n \in todo[p]
    /\ \/ /\ Answer[s] = "yes"
          /\ Pinned(p, n, s)
          /\ \/ /\ dry[p]
                /\ files' = files \ {Artifact(n, s)}
                /\ unsettled' = unsettled \cup {n}
                /\ UNCHANGED wrote
             \/ /\ ~dry[p]
                /\ files' = Written(n, s)
                /\ wrote' = [wrote EXCEPT ![p] = @ \cup {n}]
                /\ UNCHANGED unsettled
       \/ /\ Answer[s] = "no"
          /\ Pinned(p, n, "none")
          /\ files' = Written(n, s)
          /\ UNCHANGED <<wrote, unsettled>>
       \/ /\ Answer[s] = "unknown"
          /\ files' = Written(n, s)
          /\ UNCHANGED <<mem, wrote, unsettled>>
       \/ /\ Answer[s] = "gone"
          /\ UNCHANGED <<files, mem, wrote, unsettled>>
    /\ CheckedOff(p, n)
    /\ UNCHANGED <<live, pin, pass, dry, edits>>

\* The next pass of --bump; an ingest only lifts.
NextPass(p) ==
    /\ pass[p] \in Kinds
    /\ todo[p] = {}
    /\ LET next == CASE mem[p].ingest -> "save"
                     [] ~mem[p].ingest /\ pass[p] = "lift" -> "tree"
                     [] ~mem[p].ingest /\ pass[p] = "tree" -> "rel"
                     [] ~mem[p].ingest /\ pass[p] = "rel" -> "save"
       IN /\ pass' = [pass EXCEPT ![p] = next]
          /\ todo' = [todo EXCEPT ![p] = Of(p, next)]
    /\ UNCHANGED <<live, pin, files, dry, mem, wrote, unsettled, edits>>

\* stamp_quod_version and save_program.
Save(p) ==
    /\ pass[p] = "save"
    /\ pin' = [n \in Pairs |-> IF Owner[n] = p THEN mem[p].pin[n] ELSE pin[n]]
    /\ live' = [n \in Pairs |-> IF Owner[n] = p THEN mem[p].live[n] ELSE live[n]]
    /\ unsettled' = unsettled \ wrote[p]
    /\ pass' = [pass EXCEPT ![p] = "idle"]
    /\ mem' = [mem EXCEPT ![p] = Nothing]
    /\ wrote' = [wrote EXCEPT ![p] = {}]
    /\ UNCHANGED <<files, dry, todo, edits>>

\* Ctrl-C, or Z3 running into its time limit, which nothing catches.
Kill(p) ==
    /\ pass[p] # "idle"
    /\ pass' = [pass EXCEPT ![p] = "idle"]
    /\ mem' = [mem EXCEPT ![p] = Nothing]
    /\ todo' = [todo EXCEPT ![p] = {}]
    /\ wrote' = [wrote EXCEPT ![p] = {}]
    /\ UNCHANGED <<live, pin, files, dry, unsettled, edits>>

Next ==
    \/ \E n \in Pairs : \E s \in Outcomes[n] : Edit(n, s)
    \/ \E a \in files : Lose(a)
    \/ \E p \in Programs :
          \/ \E d \in BOOLEAN : Bump(p, d)
          \/ \E n \in Pairs : \E s \in Outcomes[n] : Ingest(p, n, s)
          \/ \E n \in Pairs : CheckWalk(p, n) \/ LiftCheckError(p, n) \/ CheckRel(p, n)
          \/ NextPass(p) \/ Save(p) \/ Kill(p)

Spec == Init /\ [][Next]_vars

-----------------------------------------------------------------------------
\* equiv.py:65-76, lift_check.py:1563-1566: a command that writes artifacts and
\* saves leaves no lift pinned to anything but its bodies, while they are there; a
\* bump pins each decompiled pair that the walk accepts to these bodies, and leaves
\* a relational witness only where Z3 proved these very bodies or could not tell.
\* Out of it: dry runs, which re-pin as well, and the witness of a decompiled pair
\* that the walk refutes, which stays.
BumpRepins ==
    [][\A p \in Programs : Save(p) /\ ~dry[p] =>
          \A n \in Pairs : Owner[n] = p =>
             /\ Kind[n] = "lift" => \/ pin'[n] = live'[n]
                                   \/ Answer[live'[n]] = "gone"
             /\ Kind[n] = "tree" /\ ~mem[p].ingest /\ Answer[live'[n]] = "yes" =>
                   pin'[n] = live'[n]
             /\ Kind[n] = "rel" /\ ~mem[p].ingest =>
                   \/ pin'[n] \in {"none", live'[n]}
                   \/ Answer[live'[n]] \in {"unknown", "gone"}]_vars

\* The artifact a saved witness pins is on disk, with that content, whatever
\* commands failed, were killed or ran dry on the way, unless the file or the
\* pin was last written by one that did not finish both.
EvidenceIntact ==
    \A n \in Pairs : n \notin unsettled => Verifies(n)
=============================================================================
