------------------------------ MODULE CLayerA -------------------------------
(***************************************************************************)
(* The other translation of the same source, layer A (ingest/c/layer_a.py):*)
(* nodes of the shape of the source, against which a translation to layer  *)
(* B is checked.  Names are not resolved, the conversions C inserts are    *)
(* dropped and types keep their C form.  It takes less of C than layer B,  *)
(* and some that layer B refuses.                                          *)
(***************************************************************************)
EXTENDS CBodyB

NoValue == [kind |-> "none"]

CIntLit(q, n) == [kind |-> "c.int_lit", type |-> q, value |-> n]
CFloatLit(n) == [kind |-> "c.float_lit", value |-> n]
CVarRef(x) == [kind |-> "c.var_ref", name |-> x]
CBinOp(op, l, r) == [kind |-> "c.binop", op |-> op, lhs |-> l, rhs |-> r]
CUnary(op, e) == [kind |-> "c.unary", op |-> op, value |-> e]
CCast(t, e) == [kind |-> "c.cast", target |-> t, value |-> e]
CCall(f, args) == [kind |-> "c.call", fn |-> f, args |-> args]
CSubscript(b, i, t) == [kind |-> "c.subscript", base |-> b, index |-> i, type |-> t]

-----------------------------------------------------------------------------
(* Expressions.                                                            *)

RECURSIVE ExprA(_)

NegatedA(e) ==
    CASE e.kind = "c.int_lit" -> CIntLit(e.type, -e.value)
      [] e.kind = "c.float_lit" -> CFloatLit(-e.value)
      [] OTHER -> CUnary("-", e)
UnaryA(c) ==
    LET sub == Unwrap(c.inner)
    IN  IF c.op = "&"
          THEN IF sub.kind # "ARRAY_SUBSCRIPT_EXPR" THEN {}
               ELSE {[kind |-> "c.address_of", base |-> b, index |-> i] : b \in ExprA(sub.base), i \in ExprA(sub.index)}
        ELSE {CASE c.op = "-" -> NegatedA(e)
                [] c.op = "+" -> e
                [] c.op = "*" -> [kind |-> "c.deref", operand |-> e, type |-> c.type]
                [] OTHER -> CUnary(c.op, e) : e \in ExprA(c.inner)}

MemberA(c) ==
    LET base == Unwrap(c.base)
    IN  IF base.type.kind = "POINTER"
          THEN {[kind |-> "c.arrow", ptr |-> p, struct |-> s, name |-> c.name] :
                  p \in ExprA(base), s \in PointedStruct(base)}
          ELSE {[kind |-> "c.field", value |-> e, name |-> c.name] : e \in ExprA(base)}
InitListA(c) ==
    IF c.type.kind # "RECORD" \/ Len(c.items) > Len(Structs[c.type.name]) THEN {}
    ELSE {[kind |-> "c.struct_init", struct |-> c.type.name,
           fields |-> [i \in DOMAIN es |-> [name |-> Structs[c.type.name][i].name, value |-> es[i]]]] :
            es \in Picks([i \in DOMAIN c.items |-> ExprA(c.items[i])])}

ExprA(cursor) ==
    LET c == Unwrap(cursor)
    IN  CASE c.kind = "INTEGER_LITERAL" -> {CIntLit(q, c.value) : q \in IntTypeFor(c.type)}
          [] c.kind = "FLOATING_LITERAL" -> {CFloatLit(c.value)}
          [] c.kind = "STRING_LITERAL" -> {[kind |-> "c.string_lit", value |-> c.value]}
          [] c.kind = "ENUM_CONSTANT" -> {[kind |-> "c.enum_const", value |-> c.value]}
          [] c.kind = "DECL_REF_EXPR" -> {CVarRef(c.name)}
          [] c.kind = "CSTYLE_CAST_EXPR" -> {CCast(c.type, e) : e \in ExprA(c.inner)}
          [] c.kind = "UNARY_OPERATOR" -> UnaryA(c)
          [] c.kind = "BINARY_OPERATOR" -> {CBinOp(c.op, l, r) : l \in ExprA(c.lhs), r \in ExprA(c.rhs)}
          [] c.kind = "CALL_EXPR" ->
               IF c.fn \in FenvApi THEN {}
               ELSE {CCall(c.fn, args) : args \in Picks([i \in DOMAIN c.args |-> ExprA(c.args[i])])}
          [] c.kind = "MEMBER_REF_EXPR" -> MemberA(c)
          [] c.kind = "INIT_LIST_EXPR" -> InitListA(c)
          [] c.kind = "ARRAY_SUBSCRIPT_EXPR" ->
               {CSubscript(b, i, c.type) : b \in ExprA(c.base), i \in ExprA(c.index)}
          [] c.kind = "CONDITIONAL_OPERATOR" ->
               {[kind |-> "c.ternary", cond |-> e, then |-> a, else |-> b] :
                  e \in ExprA(c.cond), a \in ExprA(c.then), b \in ExprA(c.else)}
          [] OTHER -> {}

-----------------------------------------------------------------------------
(* Statements.                                                             *)

RECURSIVE StmtA(_)
BodyA(stmts) == Picks([i \in DOMAIN stmts |-> StmtA(stmts[i])])

\* A slot of a for: a compound assignment is not taken.
ForSlotA(c) ==
    IF c = None THEN {NoValue}
    ELSE {s \in StmtA(c) : s.kind \in {"c.var_decl", "c.assign", "c.increment"}}

DeclA(c) ==
    LET decls == Picks([i \in DOMAIN c.decls |->
                   {[kind |-> "c.var_decl", name |-> c.decls[i].name, type |-> c.decls[i].type, init |-> e] :
                      e \in IF c.decls[i].init = None THEN {NoValue} ELSE ExprA(c.decls[i].init)}])
    IN  {IF Len(ds) = 1 THEN ds[1] ELSE [kind |-> "c.multi_var_decl", decls |-> ds] : ds \in decls}

AssignA(c) ==
    LET l == c.lhs
        base == Unwrap(l.base)
    IN  CASE MentionsEq(c.lhs) \/ MentionsEq(c.rhs) -> {}
          [] l.kind = "UNARY_OPERATOR" ->
               IF l.op # "*" THEN {}
               ELSE {[kind |-> "c.deref_store", operand |-> p, value |-> v] : p \in ExprA(l.inner), v \in ExprA(c.rhs)}
          [] l.kind = "MEMBER_REF_EXPR" ->
               {[kind |-> "c.arrow_store", ptr |-> p, struct |-> s, name |-> l.name, value |-> v] :
                  p \in ExprA(base), s \in PointedStruct(base), v \in ExprA(c.rhs)}
          [] l.kind = "ARRAY_SUBSCRIPT_EXPR" ->
               {[kind |-> "c.subscript_store", base |-> b, index |-> i, value |-> v] :
                  b \in ExprA(l.base), i \in ExprA(l.index), v \in ExprA(c.rhs)}
          [] OTHER -> {[kind |-> "c.assign", target |-> l.name, value |-> v] : v \in ExprA(c.rhs)}

\* Labels group the statements after them as in layer B, without its checks
\* of where a break may stand.
SwitchA(c) ==
    LET Trim(b) == IF Last(b).kind = "BREAK_STMT" THEN Front(b) ELSE b
        GroupA(g) == {[kind |-> g.kind, values |-> vs, body |-> b] :
                        b \in BodyA(Trim(g.body)), vs \in Picks([i \in DOMAIN g.values |-> ExprA(g.values[i])])}
        IsCase(g) == g.kind = "case"
        IsDefault(g) == g.kind = "default"
        DefaultBody(gs) == IF SelectSeq(gs, IsDefault) = <<>> THEN <<>> ELSE Last(SelectSeq(gs, IsDefault)).body
    IN  UNION {{[kind |-> "c.switch", scrutinee |-> e, cases |-> SelectSeq(gs, IsCase), default |-> DefaultBody(gs)] :
                  e \in ExprA(c.cond), gs \in Picks([i \in DOMAIN groups |-> GroupA(groups[i])])} :
                groups \in ParseSwitchGroups(c.items)}

IsNameRef(l) == l.kind = "DECL_REF_EXPR"

StmtA(c) ==
    CASE c.kind = "RETURN_STMT" ->
           {[kind |-> "c.return", value |-> e] : e \in IF c.value = None THEN {NoValue} ELSE ExprA(c.value)}
      [] c.kind = "IF_STMT" ->
           {[kind |-> "c.if", cond |-> e, then |-> t, else |-> f] :
              e \in ExprA(c.cond), t \in BodyA(c.then), f \in BodyA(c.else)}
      [] c.kind = "WHILE_STMT" ->
           {[kind |-> "c.while", cond |-> e, body |-> b] : e \in ExprA(c.cond), b \in BodyA(c.body)}
      [] c.kind = "DO_STMT" ->
           {[kind |-> "c.do_while", cond |-> e, body |-> b] : e \in ExprA(c.cond), b \in BodyA(c.body)}
      [] c.kind = "FOR_STMT" ->
           {[kind |-> "c.for", init |-> i, cond |-> e, inc |-> n, body |-> b] :
              i \in ForSlotA(c.init), e \in IF c.cond = None THEN {NoValue} ELSE ExprA(c.cond),
              n \in ForSlotA(c.inc), b \in BodyA(c.body)}
      [] c.kind = "DECL_STMT" -> DeclA(c)
      [] c.kind = "ASSIGN" -> AssignA(c)
      [] c.kind = "COMPOUND_ASSIGNMENT_OPERATOR" ->
           IF ~IsNameRef(c.lhs) THEN {}
           ELSE {[kind |-> "c.compound_assign", target |-> c.lhs.name, op |-> c.op, value |-> v] : v \in ExprA(c.rhs)}
      [] c.kind = "INCREMENT" ->
           IF ~IsNameRef(c.lhs) THEN {}
           ELSE {[kind |-> "c.increment", target |-> c.lhs.name, op |-> c.op]}
      [] c.kind = "EXPRESSION" ->
           IF c.value.kind # "CALL_EXPR" THEN {}
           ELSE {[kind |-> "c.expr_stmt", value |-> e] : e \in ExprA(c.value)}
      [] c.kind = "BREAK_STMT" -> {[kind |-> "c.break"]}
      [] c.kind = "CONTINUE_STMT" -> {[kind |-> "c.continue"]}
      [] c.kind = "SWITCH_STMT" -> SwitchA(c)
      [] OTHER -> {}

\* A CFn; its id is made from its name.
TranslateFunctionA(fn) ==
    {[name |-> fn.name, params |-> fn.params, result |-> fn.result, body |-> b] : b \in BodyA(fn.body)}
=============================================================================
