---------------------------- MODULE ProgramEdits ----------------------------
(***************************************************************************)
(* One edit of a quod program, as every mutating command performs it: the  *)
(* guard of an editor.py mutator, the new program it returns, and the      *)
(* validation save_program runs before it touches the disk.  A program is  *)
(* the set of its top-level nodes; which sets of nodes the InputProgram    *)
(* validators accept (no duplicate names, no by-value struct cycle, no     *)
(* stored lattice claim) is the constant ValidPrograms.                    *)
(***************************************************************************)
CONSTANTS
    Node,           \* constants, structs, enums, externs, functions, ...
    ValidPrograms,  \* what InputProgram.model_validate accepts
    Evidence        \* the node `equiv prove --bump` adds: a pinned witness

ASSUME ProgramsAssumption ==
    /\ ValidPrograms \subseteq SUBSET Node
    /\ Evidence \in Node

EditKinds == {"add", "remove"}

Op == [kind : EditKinds \cup {"bump"}, node : Node]

Bump == [kind |-> "bump", node |-> Evidence]

\* What editor.py makes of program s: append the node, drop it, or (bump)
\* put the new witness in place of whatever it replaces.
Apply(o, s) == IF o.kind = "remove" THEN s \ {o.node} ELSE s \cup {o.node}

\* Mutant: save_program without its model_validate.
LegalUnvalidated(o, s) == /\ o.kind = "add" => o.node \notin s
                          /\ o.kind = "remove" => o.node \in s

\* The mutator raises on a name that is already, or not yet, declared, and
\* save_program raises when the result does not validate.
Legal(o, s) == /\ o.kind = "add" => o.node \notin s
               /\ o.kind = "remove" => o.node \in s
               /\ Apply(o, s) \in ValidPrograms
=============================================================================
