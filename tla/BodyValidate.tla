---------------------------- MODULE BodyValidate ----------------------------
(***************************************************************************)
(* The checks validate.py makes of one function body that its control flow *)
(* depends on: the scope of locals, loops around break and continue, the   *)
(* form of return, and the forward must-initialise analysis.  The answer   *)
(* is a set of diagnostic codes; a body is accepted when it is empty.      *)
(* Checks of types, fields and variants are left out.                      *)
(***************************************************************************)
EXTENDS Statements, SequencesExt

LOCAL SetMap(S, Op(_)) == UNION {Op(x) : x \in S}

-----------------------------------------------------------------------------
(* The pre-pass over declarations.  It looks into every block but those of *)
(* a do-while.                                                             *)

Declare(acc, params, x, shadows, twice) ==
    CASE x \in params -> [acc EXCEPT !.codes = @ \cup {shadows}]
      [] x \in acc.locals -> [acc EXCEPT !.codes = @ \cup {twice}]
      [] OTHER -> [acc EXCEPT !.locals = @ \cup {x}]

RECURSIVE CollectLocals(_, _, _)
CollectLocals(params, stmts, acc) ==
    IF stmts = <<>> THEN acc
    ELSE LET s == Head(stmts)
             own == CASE s.kind \in {"let", "with_arena"} ->
                           Declare(acc, params, s.name, "LOCAL_SHADOWS_PARAM", "LOCAL_DECLARED_TWICE")
                      [] s.kind = "for" ->
                           Declare(acc, params, s.var, "FOR_VAR_CONFLICT", "FOR_VAR_CONFLICT")
                      [] OTHER -> acc
             Walked == IF s.kind \in {"do_while", "c.for_general"} THEN <<>> ELSE Blocks(s)
             inner == FoldLeft(LAMBDA a, b : CollectLocals(params, b, a), own, Walked)
         IN  CollectLocals(params, Tail(stmts), inner)

-----------------------------------------------------------------------------
(* The main walk.  A scope holds the names in scope, the number of         *)
(* enclosing loops and whether the function returns void.                  *)

RECURSIVE CheckExpr(_, _)
CheckExpr(names, e) ==
    CASE e.kind = "ref" -> IF e.name \in names THEN {} ELSE {"UNDECLARED_LOCAL"}
      [] e.kind = "call" -> SetMap(ToSet(e.args), LAMBDA a : CheckExpr(names, a))
      [] e.kind = "and" -> CheckExpr(names, e.lhs) \cup CheckExpr(names, e.rhs)
      [] e.kind = "try" -> CheckExpr(names, e.value)
      [] OTHER -> {}

\* The expressions a statement evaluates itself.
Exprs(s) ==
    CASE s.kind \in {"return_expr", "expr_stmt", "assign", "field_set"} -> {s.value}
      [] s.kind = "let" -> {s.init}
      [] s.kind \in {"if", "while", "do_while"} -> {s.cond}
      [] s.kind = "for" -> {s.lo, s.hi}
      [] s.kind = "store" -> {s.ptr, s.value}
      [] s.kind = "with_arena" -> {s.capacity}
      [] s.kind = "match" -> {s.scrutinee}
      [] OTHER -> {}

\* Mutant: an arena counts as a loop.
IsLoopOrArena(s) == s.kind \in {"while", "do_while", "for", "with_arena"}

IsLoop(s) == s.kind \in {"while", "do_while", "for"}

\* The codes of one statement and of the statements in it.
RECURSIVE CheckStmt(_, _)
CheckStmt(scope, s) ==
    LET Own ==
          (IF s.kind = "return_expr" /\ scope.void THEN {"RETURN_EXPR_VOID"} ELSE {})
          \cup (IF s.kind = "return" /\ ~scope.void THEN {"BARE_RETURN_NON_VOID"} ELSE {})
          \cup (IF s.kind = "assign" /\ s.name \notin scope.names
                  THEN {"ASSIGN_UNDECLARED_LOCAL"} ELSE {})
          \cup (IF s.kind = "field_set" /\ s.name \notin scope.names
                  THEN {"FIELDSET_UNDECLARED_LOCAL"} ELSE {})
          \cup (IF s.kind = "break" /\ scope.depth = 0 THEN {"BREAK_OUTSIDE_LOOP"} ELSE {})
          \cup (IF s.kind = "continue" /\ scope.depth = 0 THEN {"CONTINUE_OUTSIDE_LOOP"} ELSE {})
        Deeper == IF IsLoop(s) THEN [scope EXCEPT !.depth = @ + 1] ELSE scope
        CheckBody(b, sc) == SetMap(ToSet(b), LAMBDA t : CheckStmt(sc, t))
        Inner ==
          CASE s.kind = "match" ->
                 SetMap(ToSet(s.arms),
                        LAMBDA a : CheckBody(a.body, [scope EXCEPT !.names = @ \cup ToSet(a.bindings)]))
            [] s.kind = "c.for_general" -> {}
            [] OTHER -> SetMap(ToSet(Blocks(s)), LAMBDA b : CheckBody(b, Deeper))
    IN  Own \cup SetMap(Exprs(s), LAMBDA e : CheckExpr(scope.names, e)) \cup Inner

-----------------------------------------------------------------------------
(* Definite initialisation.  An outcome says whether control falls through *)
(* a statement, which names are then defined, and which declared names     *)
(* were read before that.                                                  *)

Falls(def, bad) == [falls |-> TRUE, def |-> def, bad |-> bad]
Leaves(bad) == [falls |-> FALSE, def |-> {}, bad |-> bad]

\* The names an expression reads, as the analysis sees them: it has no case
\* for Not.
RECURSIVE ExprReads(_)
ExprReads(e) ==
    CASE e.kind = "ref" -> {e.name}
      [] e.kind = "call" -> SetMap(ToSet(e.args), ExprReads)
      [] e.kind = "and" -> ExprReads(e.lhs) \cup ExprReads(e.rhs)
      [] e.kind = "try" -> ExprReads(e.value)
      [] OTHER -> {}

\* Mutant: one branch is enough.
MergeAny(outcomes) ==
    LET through == {o \in outcomes : o.falls}
        bad == UNION {o.bad : o \in outcomes}
    IN  IF through = {} THEN Leaves(bad) ELSE Falls(UNION {o.def : o \in through}, bad)

\* Mutant: a branch that leaves counts as one that defines nothing.
MergeAll(outcomes) ==
    LET bad == UNION {o.bad : o \in outcomes}
    IN  IF \A o \in outcomes : ~o.falls THEN Leaves(bad)
        ELSE Falls({x \in UNION {o.def : o \in outcomes} : \A o \in outcomes : x \in o.def}, bad)

\* After branches: what every branch that falls through defines.
Merge(outcomes) ==
    LET through == {o \in outcomes : o.falls}
        bad == UNION {o.bad : o \in outcomes}
    IN  IF through = {} THEN Leaves(bad)
        ELSE Falls({x \in UNION {o.def : o \in through} : \A o \in through : x \in o.def}, bad)

Flagging(o, bad) == [o EXCEPT !.bad = @ \cup bad]

RECURSIVE InitBody(_, _, _)
RECURSIVE InitStmt(_, _, _)
InitBody(locals, stmts, def) ==
    IF stmts = <<>> THEN Falls(def, {})
    ELSE LET o == InitStmt(locals, Head(stmts), def)
         IN  IF o.falls THEN Flagging(InitBody(locals, Tail(stmts), o.def), o.bad) ELSE o

InitStmt(locals, s, def) ==
    LET Unset(e, d) == (ExprReads(e) \cap locals) \ d
        bad == UNION {Unset(e, def) : e \in Exprs(s)}
        Body(b, d) == InitBody(locals, b, d)
    IN  CASE s.kind = "let" -> Falls(IF s.init = NoInit THEN def ELSE def \cup {s.name}, bad)
          [] s.kind = "assign" -> Falls(def \cup {s.name}, bad)
          [] s.kind \in {"return_expr", "return", "unreachable", "break", "continue"} -> Leaves(bad)
          [] s.kind = "if" -> Flagging(Merge({Body(s.then, def), Body(s.else, def)}), bad)
          [] s.kind = "while" -> Falls(def, bad \cup Body(s.body, def).bad)
          [] s.kind = "do_while" ->
               LET after == Body(s.body, def)
               IN  IF after.falls
                     THEN Falls(after.def, after.bad \cup Unset(s.cond, after.def))
                     ELSE Falls(def, after.bad)
          [] s.kind = "for" -> Falls(def, bad \cup Body(s.body, def \cup {s.var}).bad)
          [] s.kind = "match" ->
               Flagging(Merge({Body(a.body, def \cup ToSet(a.bindings)) : a \in ToSet(s.arms)}), bad)
          [] s.kind = "with_arena" -> Falls(def, bad \cup Body(s.body, def \cup {s.name}).bad)
          [] OTHER -> Falls(def, bad)

-----------------------------------------------------------------------------
Validate(fn) ==
    LET declared == CollectLocals(fn.params, fn.body, [locals |-> {}, codes |-> {}])
        scope == [names |-> declared.locals \cup fn.params, depth |-> 0, void |-> fn.void]
    IN  declared.codes
        \cup SetMap(ToSet(fn.body), LAMBDA s : CheckStmt(scope, s))
        \cup (IF InitBody(declared.locals, fn.body, fn.params).bad # {}
                THEN {"READ_OF_UNINIT_LOCAL"} ELSE {})
=============================================================================
