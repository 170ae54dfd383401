---------------------------- MODULE MCQuiSession ----------------------------
(***************************************************************************)
(* An instance of QuiSession: one project whose program a standalone file  *)
(* can also be, one project without programs, contents with and without    *)
(* units, whose C the trace printer cannot print.                          *)
(***************************************************************************)
EXTENDS QuiSession

CONSTANTS r1, r2, f1, p1

Rich == [cats |-> 1, views |-> << "c", "bin" >>, rows |-> [c |-> 0, bin |-> 2]]
Plain == [cats |-> 2, views |-> << >>, rows |-> [c |-> 1, bin |-> 1]]

MCContents == {Rich, Plain}
Listed == [named |-> TRUE, specs |-> << [name |-> p1, file |-> f1] >>]
Refused == [named |-> TRUE, specs |-> None]
MCTomls == [r \in Roots |-> IF r = r1 THEN {Listed} ELSE {Listed, Refused}]
MCSessions == { << >>, << f1 >>, << r1, f1 >> , << r2, r1 >> }
MCFilters == { {f1} }
=============================================================================
