------------------------------- MODULE CBodyB -------------------------------
(***************************************************************************)
(* The translation of C statements and functions into layer B: a           *)
(* transcription but for switch, which becomes a chain of ifs, for, which  *)
(* stays a node of the C family, and the comparison returned as an int.    *)
(* A result is the statements and the environment after them.              *)
(***************************************************************************)
EXTENDS CLayerB

Out(stmts, env) == [stmts |-> stmts, env |-> env]

RECURSIVE Stmts(_, _)
\* A block: locals declared in it stay known after it.
BlockB(env, body) ==
    FoldLeft(LAMBDA acc, c : UNION {{Out(o.stmts \o p.stmts, p.env) : p \in Stmts(o.env, c)} : o \in acc},
             {Out(<<>>, env)}, body)

\* A position that takes one statement, or none.
Slot(env, c) ==
    IF c = None THEN {Out(<<>>, env)} ELSE {o \in Stmts(env, c) : Len(o.stmts) = 1}

-----------------------------------------------------------------------------
(* switch.                                                                 *)

\* A label and the labels stacked on it, down to the statement.
RECURSIVE CaseGroup(_, _)
CaseGroup(item, values) ==
    CASE item.kind = "CASE_STMT" -> CaseGroup(item.first, Append(values, item.value))
      [] item.kind = "DEFAULT_STMT" -> {}
      [] OTHER -> {[kind |-> "case", values |-> values, body |-> <<item>>]}

ParseSwitchGroups(items) ==
    FoldLeft(LAMBDA acc, c : UNION {
                 CASE c.kind = "CASE_STMT" -> {Append(gs, g) : g \in CaseGroup(c, <<>>)}
                   [] c.kind = "DEFAULT_STMT" ->
                        IF c.first.kind = "CASE_STMT" THEN {}
                        ELSE {Append(gs, [kind |-> "default", values |-> <<>>, body |-> <<c.first>>])}
                   [] OTHER -> IF gs = <<>> THEN {}
                               ELSE {[gs EXCEPT ![Len(gs)].body = Append(@, c)]} : gs \in acc},
             {<<>>}, items)

RECURSIVE HasBreak(_)
HasBreak(c) ==
    LET AnyBreak(b) == \E i \in DOMAIN b : HasBreak(b[i])
    IN  CASE c.kind = "BREAK_STMT" -> TRUE
          [] c.kind = "IF_STMT" -> AnyBreak(c.then) \/ AnyBreak(c.else)
          [] c.kind \in {"WHILE_STMT", "DO_STMT", "FOR_STMT", "COMPOUND_STMT"} -> AnyBreak(c.body)
          [] c.kind = "SWITCH_STMT" -> AnyBreak(c.items)
          [] c.kind \in {"CASE_STMT", "DEFAULT_STMT"} -> HasBreak(c.first)
          [] OTHER -> FALSE

\* Each group ends in a break or a return and has no other break.
CheckSwitchBody(body) ==
    /\ Last(body).kind \in {"BREAK_STMT", "RETURN_STMT"}
    /\ \A i \in DOMAIN Front(body) : ~HasBreak(body[i])

\* The group without the break it ends in, translated before its values.
SwitchGroup(env, g) ==
    LET body == IF Last(g.body).kind = "BREAK_STMT" THEN Front(g.body) ELSE g.body
    IN  {[kind |-> g.kind, values |-> vs, stmts |-> o.stmts, env |-> o.env] :
           o \in BlockB(env, body), vs \in Picks([i \in DOMAIN g.values |-> Expr(env, g.values[i])])}

EqOrChain(scrutinee, values) ==
    FoldLeft(LAMBDA c, v : ShortCircuitOr(c, BinOp("eq", scrutinee, v)),
             BinOp("eq", scrutinee, Head(values)), Tail(values))

\* The scrutinee is repeated in every test.  Without a case only the first
\* statement of the default is left.
SwitchChain(scrutinee, groups) ==
    LET IsDefault(g) == g.kind = "default"
        defaults == SelectSeq(groups, IsDefault)
        IsCase(g) == g.kind = "case"
        chain == FoldRight(LAMBDA g, rest : <<If(EqOrChain(scrutinee, g.values), g.stmts, rest)>>,
                           SelectSeq(groups, IsCase),
                           IF defaults = <<>> THEN <<>> ELSE Last(defaults).stmts)
    IN  IF chain = <<>> THEN ExprStmt(scrutinee) ELSE Head(chain)

SwitchStmt(env, c) ==
    UNION {UNION {
        LET translated ==
              FoldLeft(LAMBDA acc, g : UNION {{Append(ts, t) : t \in
                                   SwitchGroup(IF ts = <<>> THEN env ELSE Last(ts).env, g)} : ts \in acc},
                       {<<>>}, groups)
        IN  IF \E i \in DOMAIN groups : ~CheckSwitchBody(groups[i].body) THEN {}
            ELSE {Out(<<SwitchChain(e, ts)>>, IF ts = <<>> THEN env ELSE Last(ts).env) : ts \in translated} :
          groups \in ParseSwitchGroups(c.items)} : e \in Expr(env, c.cond)}

-----------------------------------------------------------------------------
(* Declarations, assignments, returns.                                     *)

DeclStmt(env, c) ==
    FoldLeft(LAMBDA acc, d : UNION {
                 {Out(Append(o.stmts, LetTyped(d.name, q, e)), [o.env EXCEPT !.locals = @ \cup {d.name}]) :
                    q \in LocalType(d.type),
                    e \in IF d.init = None THEN {NoInit} ELSE Expr(o.env, d.init)} : o \in acc},
             {Out(<<>>, env)}, c.decls)

\* The token `==` anywhere in an assignment hides that it is one.
RECURSIVE MentionsEq(_)
MentionsEq(c) ==
    CASE c.kind \in {"UNEXPOSED_EXPR", "CSTYLE_CAST_EXPR", "UNARY_OPERATOR"} -> MentionsEq(c.inner)
      [] c.kind = "BINARY_OPERATOR" -> c.op = "==" \/ MentionsEq(c.lhs) \/ MentionsEq(c.rhs)
      [] c.kind = "CALL_EXPR" -> \E i \in DOMAIN c.args : MentionsEq(c.args[i])
      [] c.kind = "INIT_LIST_EXPR" -> \E i \in DOMAIN c.items : MentionsEq(c.items[i])
      [] c.kind = "MEMBER_REF_EXPR" -> MentionsEq(c.base)
      [] c.kind = "ARRAY_SUBSCRIPT_EXPR" -> MentionsEq(c.base) \/ MentionsEq(c.index)
      [] c.kind = "CONDITIONAL_OPERATOR" -> MentionsEq(c.cond) \/ MentionsEq(c.then) \/ MentionsEq(c.else)
      [] OTHER -> FALSE

IsLocal(env, l) == l.kind = "DECL_REF_EXPR" /\ l.name \in env.locals

AssignStmt(env, c) ==
    LET l == c.lhs
        values == Expr(env, c.rhs)
        base == Unwrap(l.base)
    IN  CASE MentionsEq(c.lhs) \/ MentionsEq(c.rhs) -> {}
          [] l.kind = "UNARY_OPERATOR" ->
               IF l.op # "*" \/ l.type = CVoid THEN {}
               ELSE {Store(p, v) : p \in Expr(env, l.inner), v \in values}
          [] l.kind = "MEMBER_REF_EXPR" ->
               {StoreField(p, s, l.name, v) : v \in values, p \in Expr(env, base), s \in PointedStruct(base)}
          [] l.kind = "ARRAY_SUBSCRIPT_EXPR" ->
               {Store(p, v) : v \in values, p \in ElementAddress(env, l.base, l.index)}
          [] OTHER -> IF IsLocal(env, l) THEN {Assign(l.name, v) : v \in values} ELSE {}

\* Pointers take this path too: their right operand is added as it is.
CompoundAssign(env, c) ==
    IF ~IsLocal(env, c.lhs) THEN {}
    ELSE {Assign(c.lhs.name, BinOp(op, LocalRef(c.lhs.name), v)) :
            op \in IntOp(c.op, c.lhs.type), v \in Expr(env, c.rhs)}

\* A literal of pointer type cannot be made.
IncrementStmt(env, c) ==
    IF ~IsLocal(env, c.lhs) THEN {}
    ELSE {Assign(c.lhs.name, BinOp(IF c.op = "++" THEN "add" ELSE "sub",
                                   LocalRef(c.lhs.name), IntLit(q, 1))) : q \in IntTypeFor(c.lhs.type)}

ReturnStmt(env, c) ==
    IF c.value = None THEN (IF env.void THEN {Return} ELSE {})
    ELSE {IF IsI1Typed(e) THEN If(e, <<ReturnExpr(IntLit("i32", 1))>>, <<ReturnExpr(IntLit("i32", 0))>>)
          ELSE ReturnExpr(e) : e \in Expr(env, c.value)}

One(env, stmts) == {Out(<<s>>, env) : s \in stmts}

Stmts(env, c) ==
    CASE c.kind = "RETURN_STMT" -> One(env, ReturnStmt(env, c))
      [] c.kind = "IF_STMT" ->
           UNION {UNION {{Out(<<If(e, t.stmts, f.stmts)>>, f.env) : f \in BlockB(t.env, c.else)} :
                           t \in BlockB(env, c.then)} : e \in Expr(env, c.cond)}
      [] c.kind = "WHILE_STMT" ->
           {Out(<<While(e, b.stmts)>>, b.env) : e \in Expr(env, c.cond), b \in BlockB(env, c.body)}
      [] c.kind = "DO_STMT" ->
           UNION {{Out(<<DoWhile(b.stmts, e)>>, b.env) : e \in Expr(b.env, c.cond)} : b \in BlockB(env, c.body)}
      [] c.kind = "FOR_STMT" ->
           UNION {UNION {{Out(<<CStyleFor(i.stmts, e, n.stmts, b.stmts)>>, b.env) :
                            e \in IF c.cond = None THEN {NoInit} ELSE Expr(i.env, c.cond),
                            b \in BlockB(n.env, c.body)} :
                      n \in Slot(i.env, c.inc)} : i \in Slot(env, c.init)}
      [] c.kind = "DECL_STMT" -> DeclStmt(env, c)
      [] c.kind = "ASSIGN" -> One(env, AssignStmt(env, c))
      [] c.kind = "COMPOUND_ASSIGNMENT_OPERATOR" -> One(env, CompoundAssign(env, c))
      [] c.kind = "INCREMENT" -> One(env, IncrementStmt(env, c))
      [] c.kind = "EXPRESSION" ->
           IF c.value.kind \in {"CALL_EXPR", "BINARY_OPERATOR"}
             THEN One(env, {ExprStmt(e) : e \in Expr(env, c.value)}) ELSE {}
      [] c.kind = "BREAK_STMT" -> One(env, {Break})
      [] c.kind = "CONTINUE_STMT" -> One(env, {Continue})
      [] c.kind = "SWITCH_STMT" -> SwitchStmt(env, c)
      [] OTHER -> {}

-----------------------------------------------------------------------------
(* Functions.                                                              *)

\* What a body that can fall through ends in.
FallThrough(fn) ==
    CASE fn.result = CVoid -> Return
      [] fn.name = "main" -> ReturnExpr(IntLit("i32", 0))
      [] OTHER -> Unreachable

\* strings names the texts of the file.
TranslateFunction(fn, strings) ==
    LET env == [params |-> {fn.params[i].name : i \in DOMAIN fn.params}, locals |-> {},
                void |-> fn.result = CVoid, strings |-> strings]
        types == Picks([i \in DOMAIN fn.params |-> LocalType(fn.params[i].type)])
    IN  {[name |-> fn.name, result |-> r,
          params |-> [i \in DOMAIN ts |-> [name |-> fn.params[i].name, type |-> ts[i]]],
          body |-> IF BodyAlwaysTerminates(o.stmts) THEN o.stmts ELSE Append(o.stmts, FallThrough(fn))] :
           r \in ReturnType(fn.result), ts \in types, o \in BlockB(env, fn.body)}
=============================================================================
