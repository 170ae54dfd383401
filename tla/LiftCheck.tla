----------------------------- MODULE LiftCheck ------------------------------
(***************************************************************************)
(* The lift check (lift_check.py): layers A and B of a function are walked *)
(* in lockstep, a rule for each construct.  A walk returns the set of the  *)
(* records it makes: one, whose hash is the witness of the translation, or *)
(* none when the two diverge.  What a rule leaves out of its record is     *)
(* what an edit can change without being seen.                             *)
(***************************************************************************)
EXTENDS CLayerA

Rule(r, facts, parts) == {<<r, facts, p>> : p \in parts}
Leaf(r, facts) == {<<r, facts>>}
Pair(S, P) == {<<x, y>> : x \in S, y \in P}
Triple(S, P, Q) == {<<x, y, z>> : x \in S, y \in P, z \in Q}
IsIntLit(b, n) == b.kind = "int_lit" /\ b.value = n

\* A pointer goes with i8_ptr whatever it points at, a structure with its
\* name, the others by a table.
ValueTypesMatch(t, q) ==
    CASE t.kind = "POINTER" -> q = "i8_ptr"
      [] t.kind = "RECORD" -> t.name \in DOMAIN Structs /\ q = t.name
      [] OTHER -> q \in ReturnType(t)

UnsignedB == {"udiv", "urem", "ult", "ule", "ugt", "uge", "lshr"}
FloatB == {FloatOps[k] : k \in DOMAIN FloatOps}
\* The table is chosen by the operator found in layer B.
OpsMatch(tok, op) ==
    LET table == CASE op \in FloatB -> FloatOps [] op \in UnsignedB -> UnsignedOps [] OTHER -> SignedOps
    IN  tok \in DOMAIN table /\ table[tok] = op

IsI1TypedA(a) ==
    \/ a.kind = "c.binop" /\ a.op \in Relations \cup {"&&", "||"}
    \/ a.kind = "c.unary" /\ a.op = "!"

-----------------------------------------------------------------------------
(* Expressions.  consts maps the names of the program's string constants   *)
(* to their texts.                                                         *)

RECURSIVE CheckA(_, _, _)
CheckAll(consts, as, bs) ==
    IF Len(as) # Len(bs) THEN {} ELSE Picks([i \in DOMAIN as |-> CheckA(consts, as[i], bs[i])])

\* Any multiple of the index is taken for its scaling; the stride is recorded.
RECURSIVE CheckOffset(_, _, _)
CheckOffset(consts, a, b) ==
    CASE b.kind = "int_lit" ->
           IF b.type = "i64" /\ a.kind = "c.int_lit"
              /\ (a.value = b.value \/ (a.value # 0 /\ b.value % a.value = 0 /\ (a.value > 0) = (b.value > 0)))
             THEN Leaf("offset_lit", <<a.value, b.value>>) ELSE {}
      [] b.kind = "cast" ->
           IF b.target = "i64" THEN Rule("offset_cast", <<>>, CheckA(consts, a, b.value)) ELSE {}
      [] b.kind = "binop" ->
           IF b.op = "mul" /\ b.rhs.kind = "int_lit" /\ b.rhs.type = "i64"
             THEN Rule("offset_mul", b.rhs.value, CheckOffset(consts, a, b.lhs)) ELSE {}
      [] OTHER -> {}

\* Base and index against an offset pointer, in the order of the source.
CheckPtrOffset(consts, base, index, b) ==
    IF b.kind # "ptr_offset" THEN {}
    ELSE Pair(CheckA(consts, base, b.base), CheckOffset(consts, index, b.offset))

\* Mutant: a conversion is passed over without a record.
CheckCastSilently(consts, a, b) == CheckA(consts, a, b.value)

\* A cast in the source, or one that C inserted.
CheckCast(consts, a, b) ==
    IF a.kind = "c.cast" /\ "name" \notin DOMAIN a.target /\ b.target \in ScalarType(a.target) /\ a.target.kind # "POINTER"
      THEN Rule("cast_explicit", b.target, CheckA(consts, a.value, b.value))
      ELSE Rule("cast_implicit", b.target, CheckA(consts, a, b.value))

CheckBinOp(consts, a, b) ==
    CASE a.op \in {"&&", "||"} ->
           IF b.kind # (IF a.op = "&&" THEN "and" ELSE "or") THEN {}
           ELSE Rule(a.op, <<>>, Pair(CheckA(consts, a.lhs, b.lhs), CheckA(consts, a.rhs, b.rhs)))
      [] a.op = "+" /\ b.kind = "ptr_offset" ->
           Rule("pointer_arith", <<>>, CheckPtrOffset(consts, a.lhs, a.rhs, b))
      [] OTHER ->
           IF b.kind # "binop" \/ ~OpsMatch(a.op, b.op) THEN {}
           ELSE Rule("binop", <<a.op, b.op>>, Pair(CheckA(consts, a.lhs, b.lhs), CheckA(consts, a.rhs, b.rhs)))

\* The type of the literal is not looked at.
CheckUnary(consts, a, b) ==
    CASE b.kind # "binop" -> {}
      [] a.op = "-" /\ b.kind = "binop" ->
           IF b.op = "sub" /\ IsIntLit(b.lhs, 0) THEN Rule("neg", <<>>, CheckA(consts, a.value, b.rhs)) ELSE {}
      [] a.op = "!" /\ b.kind = "binop" ->
           IF b.op = "eq" /\ IsIntLit(b.rhs, 0) THEN Rule("not", <<>>, CheckA(consts, a.value, b.lhs)) ELSE {}
      [] OTHER ->
           IF b.op = "xor" /\ IsIntLit(b.rhs, -1) THEN Rule("flip", <<>>, CheckA(consts, a.value, b.lhs)) ELSE {}

\* The condition as it is, or widened to a comparison with 0.
CheckTernary(consts, a, b) ==
    LET direct == CheckA(consts, a.cond, b.cond)
        widened ==
          IF b.cond.kind = "binop" /\ b.cond.op = "ne" /\ IsIntLit(b.cond.rhs, 0) /\ ~IsI1TypedA(a.cond)
            THEN Rule("widened", <<>>, CheckA(consts, a.cond, b.cond.lhs)) ELSE {}
    IN  Rule("ternary", <<>>, Triple(IF direct # {} THEN direct ELSE widened,
                                     CheckA(consts, a.then, b.then), CheckA(consts, a.else, b.else)))

SameText(consts, a, b) == b.name \in DOMAIN consts /\ consts[b.name] = a.value

CheckA(consts, a, b) ==
    IF b.kind = "cast" THEN CheckCast(consts, a, b)
    ELSE CASE a.kind = "c.int_lit" ->
           IF IsIntLit(b, a.value) /\ a.type = b.type THEN Leaf("int", <<b.type, a.value>>) ELSE {}
      [] a.kind = "c.float_lit" ->
           IF b.kind = "float_lit" /\ a.value = b.value THEN Leaf("float", a.value) ELSE {}
      [] a.kind = "c.enum_const" ->
           IF IsIntLit(b, a.value) /\ b.type = "i32" THEN Leaf("enum", a.value) ELSE {}
      [] a.kind = "c.var_ref" ->
           IF b.kind \in {"param", "ref"} /\ a.name = b.name THEN Leaf(b.kind, a.name) ELSE {}
      [] a.kind = "c.binop" -> CheckBinOp(consts, a, b)
      [] a.kind = "c.string_lit" ->
           IF b.kind = "string_ref" /\ SameText(consts, a, b) THEN Leaf("string", <<a.value, b.name>>) ELSE {}
      [] a.kind = "c.call" ->
           IF b.kind = "call" /\ a.fn = b.fn THEN Rule("call", a.fn, CheckAll(consts, a.args, b.args)) ELSE {}
      [] a.kind = "c.ternary" -> IF b.kind = "if_expr" THEN CheckTernary(consts, a, b) ELSE {}
      [] a.kind = "c.unary" -> CheckUnary(consts, a, b)
      [] a.kind = "c.address_of" -> Rule("address_of", <<>>, CheckPtrOffset(consts, a.base, a.index, b))
      [] a.kind = "c.subscript" ->
           IF b.kind = "load" /\ ValueTypesMatch(a.type, b.type)
             THEN Rule("subscript", a.type, CheckPtrOffset(consts, a.base, a.index, b.ptr)) ELSE {}
      [] a.kind = "c.deref" ->
           IF b.kind = "load" /\ ValueTypesMatch(a.type, b.type)
             THEN Rule("deref", a.type, CheckA(consts, a.operand, b.ptr)) ELSE {}
      [] a.kind = "c.field" ->
           IF b.kind = "field_read" /\ a.name = b.name THEN Rule("field", a.name, CheckA(consts, a.value, b.value)) ELSE {}
      [] a.kind = "c.arrow" ->
           IF b.kind = "load_field" /\ <<a.struct, a.name>> = <<b.struct, b.name>>
             THEN Rule("arrow", <<a.struct, a.name>>, CheckA(consts, a.ptr, b.ptr)) ELSE {}
      [] a.kind = "c.struct_init" ->
           IF b.kind = "struct_init" /\ a.struct = b.struct /\ Len(a.fields) = Len(b.fields)
              /\ \A i \in DOMAIN a.fields : a.fields[i].name = b.fields[i].name
             THEN Rule("struct_init", a.struct, Picks([i \in DOMAIN a.fields |-> CheckA(consts, a.fields[i].value, b.fields[i].value)]))
             ELSE {}
      [] OTHER -> {}

-----------------------------------------------------------------------------
(* Statements.                                                             *)

RECURSIVE CheckStmtA(_, _, _)

\* Declarations of several names stand for as many lets.
CheckBlock(consts, as, bs) ==
    LET flat == FlattenSeq([i \in DOMAIN as |-> IF as[i].kind = "c.multi_var_decl" THEN as[i].decls ELSE <<as[i]>>])
    IN  IF Len(flat) # Len(bs) THEN {} ELSE Picks([i \in DOMAIN bs |-> CheckStmtA(consts, flat[i], bs[i])])

\* The end the translation added to a body is not compared.
IsFallThrough(b) ==
    \/ b.kind \in {"unreachable", "return"}
    \/ b.kind = "return_expr" /\ IsIntLit(b.value, 0)
RECURSIVE StripFallThrough(_, _)
StripFallThrough(bs, n) ==
    IF Len(bs) > n /\ IsFallThrough(Last(bs)) THEN StripFallThrough(Front(bs), n) ELSE bs

\* The values of a case against a chain of comparisons.  That they match is
\* checked; how is not recorded.
RECURSIVE Disjuncts(_)
Disjuncts(b) == IF b.kind = "or" THEN Disjuncts(b.lhs) \o Disjuncts(b.rhs) ELSE <<b>>
CaseMatches(consts, scrutinee, values, cond) ==
    LET eqs == IF Len(values) = 1 THEN <<cond>> ELSE Disjuncts(cond)
    IN  /\ Len(eqs) = Len(values)
        /\ \A i \in DOMAIN eqs : /\ eqs[i].kind = "binop" /\ eqs[i].op = "eq"
                                 /\ CheckA(consts, scrutinee, eqs[i].lhs) # {}
                                 /\ CheckA(consts, values[i], eqs[i].rhs) # {}

\* The chain of ifs, case by case; the else of the last, or of the first that
\* is empty, is the default.
RECURSIVE CheckChain(_, _, _, _)
CheckChain(consts, a, i, b) ==
    IF ~CaseMatches(consts, a.scrutinee, a.cases[i].values, b.cond) THEN {}
    ELSE LET body == CheckBlock(consts, a.cases[i].body, b.then)
             rest == CASE b.else = <<>> \/ i = Len(a.cases) ->
                            Rule("default", <<>>, CheckBlock(consts, a.default, b.else))
                       [] Len(b.else) = 1 /\ b.else[1].kind = "if" -> CheckChain(consts, a, i + 1, b.else[1])
                       [] OTHER -> {}
         IN  Rule("case", Len(a.cases[i].values), Pair(body, rest))
CheckSwitch(consts, a, b) ==
    CASE b.kind # "if" -> {}
      [] b.kind = "if" /\ a.cases = <<>> -> Rule("switch", <<>>, CheckBlock(consts, a.default, b.else))
      [] OTHER -> Rule("switch", <<>>, CheckChain(consts, a, 1, b))

\* What the two branches of the if return is not looked at.
CheckReturn(consts, a, b) ==
    CASE a.value = NoValue -> IF b.kind = "return" THEN Leaf("return", <<>>) ELSE {}
      [] b.kind = "return_expr" -> Rule("return_expr", <<>>, CheckA(consts, a.value, b.value))
      [] b.kind = "if" /\ IsI1TypedA(a.value) -> Rule("i1_widen", <<>>, CheckA(consts, a.value, b.cond))
      [] OTHER -> {}

\* x = x op e, and its special case for ++ and --.  Only the signed operators
\* are known.
CheckUpdate(consts, a, b) ==
    LET tok == IF a.kind = "c.increment" THEN (IF a.op = "++" THEN "+" ELSE "-") ELSE a.op
        v == b.value
    IN  IF ~(/\ b.kind = "assign" /\ b.name = a.target
             /\ v.kind = "binop" /\ v.op = SignedOps[tok]
             /\ v.lhs = LocalRef(a.target)) THEN {}
        ELSE IF a.kind = "c.compound_assign"
          THEN Rule("compound_assign", <<a.target, a.op>>, CheckA(consts, a.value, v.rhs))
        ELSE IF IsIntLit(v.rhs, 1) THEN Leaf("increment", <<a.target, a.op>>) ELSE {}

CheckDecl(consts, a, b) ==
    IF ~(b.kind = "let" /\ a.name = b.name /\ ValueTypesMatch(a.type, b.type)) THEN {}
    ELSE IF NoInit \in {a.init, b.init}
      THEN (IF a.init = b.init THEN Leaf("var_decl", a.name) ELSE {})
    ELSE Rule("var_decl", a.name, CheckA(consts, a.init, b.init))

\* Something that may be absent, from both sides.
Slots(a, absent, S) ==
    CASE a = NoValue -> IF absent THEN {"absent"} ELSE {}
      [] OTHER -> IF absent THEN {} ELSE S

CheckStmtA(consts, a, b) ==
    CASE a.kind = "c.var_decl" -> CheckDecl(consts, a, b)
      [] a.kind = "c.assign" ->
           IF b.kind = "assign" /\ a.target = b.name THEN Rule("assign", a.target, CheckA(consts, a.value, b.value)) ELSE {}
      [] a.kind \in {"c.compound_assign", "c.increment"} -> CheckUpdate(consts, a, b)
      [] a.kind = "c.return" -> CheckReturn(consts, a, b)
      [] a.kind = "c.for" ->
           IF b.kind # "c.for_general" THEN {}
           ELSE Rule("for", <<>>,
                  Pair(Triple(Slots(a.init, b.init = <<>>, CheckStmtA(consts, a.init, b.init[1])),
                              Slots(a.cond, b.cond = NoInit, CheckA(consts, a.cond, b.cond)),
                              Slots(a.inc, b.inc = <<>>, CheckStmtA(consts, a.inc, b.inc[1]))),
                       CheckBlock(consts, a.body, b.body)))
      [] a.kind = "c.if" ->
           IF b.kind # "if" THEN {}
           ELSE Rule("if", <<>>, Triple(CheckA(consts, a.cond, b.cond), CheckBlock(consts, a.then, b.then),
                                        CheckBlock(consts, a.else, b.else)))
      [] a.kind \in {"c.while", "c.do_while"} ->
           IF b.kind # (IF a.kind = "c.while" THEN "while" ELSE "do_while") THEN {}
           ELSE Rule(a.kind, <<>>, Pair(CheckA(consts, a.cond, b.cond), CheckBlock(consts, a.body, b.body)))
      [] a.kind = "c.switch" -> CheckSwitch(consts, a, b)
      [] a.kind = "c.expr_stmt" ->
           IF b.kind # "expr_stmt" THEN {} ELSE Rule("expr_stmt", <<>>, CheckA(consts, a.value, b.value))
      [] a.kind = "c.deref_store" ->
           IF b.kind # "store" THEN {}
           ELSE Rule("deref_store", <<>>, Pair(CheckA(consts, a.operand, b.ptr), CheckA(consts, a.value, b.value)))
      [] a.kind = "c.subscript_store" ->
           IF b.kind # "store" THEN {}
           ELSE Rule("subscript_store", <<>>,
                     Pair(CheckPtrOffset(consts, a.base, a.index, b.ptr), CheckA(consts, a.value, b.value)))
      [] a.kind = "c.arrow_store" ->
           IF b.kind = "store_field" /\ <<a.struct, a.name>> = <<b.struct, b.name>>
             THEN Rule("arrow_store", <<a.struct, a.name>>,
                       Pair(CheckA(consts, a.ptr, b.ptr), CheckA(consts, a.value, b.value)))
             ELSE {}
      [] OTHER -> IF a.kind \in {"c.break", "c.continue"} /\ b.kind = (IF a.kind = "c.break" THEN "break" ELSE "continue")
                    THEN Leaf(b.kind, <<>>) ELSE {}

-----------------------------------------------------------------------------
(* The record of a pair.                                                   *)
WalkLift(consts, cfn, fn) ==
    IF /\ cfn.name = fn.name
       /\ Len(cfn.params) = Len(fn.params)
       /\ \A i \in DOMAIN cfn.params : /\ cfn.params[i].name = fn.params[i].name
                                       /\ ValueTypesMatch(cfn.params[i].type, fn.params[i].type)
       /\ ValueTypesMatch(cfn.result, fn.result)
      THEN LET expected == FoldLeft(LAMBDA n, s : n + (IF s.kind = "c.multi_var_decl" THEN Len(s.decls) ELSE 1), 0, cfn.body)
           IN  Rule(cfn.name, <<cfn.params, cfn.result>>,
                    CheckBlock(consts, cfn.body, StripFallThrough(fn.body, expected)))
      ELSE {}
=============================================================================
