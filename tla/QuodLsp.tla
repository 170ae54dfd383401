------------------------------ MODULE QuodLsp ------------------------------
(***************************************************************************)
(* The language server behind qui (src/quod/lsp.py): the projects it has   *)
(* open and the one active program, as operators on a record.  tomls[r] is *)
(* what the project file of root r holds: `named` says that it has a name  *)
(* (all that qui reads), `specs` the programs it lists, None when          *)
(* load_config refuses it.  disk[f] is the content of a program file, None *)
(* when load_program refuses it.                                           *)
(*                                                                         *)
(* Of a content the clients see: how many categories of its outline are    *)
(* not empty (cats), the views its shape allows in their order (views),    *)
(* and per view the rows of its lift trace, 0 when the printer has no case *)
(* for a statement or expression in it and the request fails.              *)
(***************************************************************************)
EXTENDS Naturals, Sequences, SequencesExt, Selection

CONSTANTS Roots, Files, None

Started == [up |-> TRUE, projects |-> << >>, active |-> None]

Opened(s, r) == \E i \in DOMAIN s.projects : s.projects[i].root = r

AddProject(s, r, tomls) ==
  IF Opened(s, r) \/ tomls[r].specs = None THEN s
  ELSE [s EXCEPT !.projects = Append(@, [root |-> r, specs |-> tomls[r].specs])]

RemoveProject(s, r) ==
  [s EXCEPT !.projects = Only(@, {p \in Range(@) : p.root # r}),
            !.active = IF @ # None /\ @.root = r THEN None ELSE @]

ProgramsPayload(s) ==
  LET listed(p) == [i \in DOMAIN p.specs |->
                      [root |-> p.root, name |-> p.specs[i].name, file |-> p.specs[i].file]]
  IN  FlattenSeq([i \in DOMAIN s.projects |-> listed(s.projects[i])])

\* The file that {projectPath, name} resolves to, None when the request is refused.
SpecFile(s, r, name) ==
  LET hits == Only(ProgramsPayload(s), [root : {r}, name : {name}, file : Files])
  IN  IF hits = << >> THEN None ELSE Head(hits).file

\* The label of a program is its name, that of a standalone file the file.
SetActiveRouted(s, r, name, disk) ==
  [s EXCEPT !.active = [root |-> r, label |-> name, content |-> disk[SpecFile(s, r, name)]]]

SetActiveStandalone(s, f, disk) ==
  [s EXCEPT !.active = [root |-> None, label |-> f, content |-> disk[f]]]

Outline(s) == IF s.active = None THEN 0 ELSE s.active.content.cats
Shape(s) == IF s.active = None THEN << >> ELSE s.active.content.views
TraceRows(s, view) == IF s.active = None THEN 1 ELSE s.active.content.rows[view]
=============================================================================
