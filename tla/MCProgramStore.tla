--------------------------- MODULE MCProgramStore ---------------------------
(***************************************************************************)
(* Instances of ProgramStore for TLC: which invocations share the checkout *)
(* is set by each .cfg; the programs are sets over three nodes, of which   *)
(* two must not be declared together (two structs that would contain each  *)
(* other), so that an edit can be legal when it is typed and illegal when  *)
(* it is applied.                                                          *)
(***************************************************************************)
EXTENDS ProgramStore

CONSTANTS n1, n2, ev

MCNode == {n1, n2, ev}
MCValidPrograms == {{}, {n1}, {n2}, {ev}, {n1, ev}, {n2, ev}}
MCStarts == {{}, {n1}}
MCStartsFresh == {None, {n1}}
MCTemplate == {n2}
=============================================================================
