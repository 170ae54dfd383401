--------------------------- MODULE QuodSemantics ----------------------------
(***************************************************************************)
(* What a layer B or layer C function does once it is built: the lowering  *)
(* of its expressions to LLVM (lower/expr.py) and the running of the       *)
(* result.  A value knows its LLVM type and nothing of its sign.  A type   *)
(* error, which the build reports, stops a run as "refused".               *)
(***************************************************************************)
EXTENDS CLayerB, CMachine, BodyValidate

QuodWidth == [i1 |-> 1, i8 |-> 2, u8 |-> 2, i32 |-> 3, u32 |-> 3, i64 |-> 5, u64 |-> 5]
IsQuodInt(q) == q \in DOMAIN QuodWidth

OfType(q, v) ==
    CASE IsQuodInt(q) -> Bits(QuodWidth[q], v)
      [] q = "i8_ptr" -> Addr(v)
      [] q = "f64" -> Flt(v)
      [] OTHER -> Agg(q, v)
HasType(v, q) == SameType(v, OfType(q, 0)) \/ (q = "i8_ptr" /\ v.ty = "text")
FieldQuodType(s, x) ==
    LET f == CHOOSE f \in {Structs[s][i] : i \in DOMAIN Structs[s]} : f.name = x
    IN  CHOOSE q \in ScalarType(f.type) : TRUE

\* A bare literal takes the width of where it goes.
CoerceIntLit(e, q) ==
    IF e.kind = "int_lit" /\ IsQuodInt(q) /\ QuodWidth[q] # QuodWidth[e.type] THEN IntLit(q, e.value) ELSE e

-----------------------------------------------------------------------------
(* The quod type a cast starts from, recovered from its operand.           *)

RECURSIVE QuodTypeOf(_, _)
QuodTypeOf(types, e) ==
    CASE e.kind \in {"int_lit", "load"} -> e.type
      [] e.kind \in {"param", "ref"} -> types[e.name]
      [] e.kind = "cast" -> e.target
      [] e.kind = "float_lit" -> "f64"
      [] e.kind = "fneg" -> QuodTypeOf(types, e.operand)
      [] e.kind = "binop" -> IF e.op \in I1Ops THEN "i1" ELSE QuodTypeOf(types, e.lhs)
      [] e.kind \in {"and", "or"} -> "i1"
      [] e.kind = "if_expr" -> QuodTypeOf(types, e.then)
      [] e.kind = "call" -> (CHOOSE s \in ExternSignature(e.fn) : TRUE).result
      [] e.kind = "load_field" -> FieldQuodType(e.struct, e.name)
      [] e.kind = "field_read" -> FieldQuodType(QuodTypeOf(types, e.value), e.name)
      [] OTHER -> "unknown"

\* sext or zext by the source's sign, trunc; saturating from a float.
Saturate(q, n) ==
    LET lo == IF SignedType(q) THEN -(2^(QuodWidth[q] - 1)) ELSE 0
        hi == lo + 2^QuodWidth[q] - 1
    IN  IF n < lo THEN lo ELSE IF n > hi THEN hi ELSE n
LowerCast(s, from, to) ==
    LET n == IF SignedType(from) THEN ToSigned(QuodWidth[from], s.v.v) ELSE s.v.v
    IN  CASE IsQuodInt(from) /\ (IsQuodInt(to) \/ to = "f64") ->
               IF HasType(s.v, from) THEN [s EXCEPT !.v = OfType(to, n)] ELSE Stop(s, "refused")
          [] from = "f64" /\ IsQuodInt(to) -> [s EXCEPT !.v = OfType(to, Saturate(to, @.v))]
          [] from = "f64" /\ to = "f64" -> s
          [] OTHER -> Stop(s, "refused")

-----------------------------------------------------------------------------
(* Instructions.  Empty where they trap or give poison.                    *)

QuotientOf(x, y) ==
    LET q == (IF x < 0 THEN -x ELSE x) \div (IF y < 0 THEN -y ELSE y)
    IN  IF (x < 0) = (y < 0) THEN q ELSE -q

Instr(op, w, x, y) ==
    LET sx == ToSigned(w, x)
        sy == ToSigned(w, y)
    IN  CASE op = "add" -> {x + y} [] op = "sub" -> {x - y} [] op = "mul" -> {x * y}
          [] op = "udiv" /\ y # 0 -> {x \div y} [] op = "urem" /\ y # 0 -> {x % y}
          [] op = "sdiv" /\ y # 0 -> {QuotientOf(sx, sy)} \cap -(2^(w - 1)) .. 2^(w - 1) - 1
          [] op = "srem" /\ y # 0 -> {sx - sy * QuotientOf(sx, sy)}
          [] op = "and" -> {BitAnd(x, y)} [] op = "or" -> {BitOr(x, y)} [] op = "xor" -> {BitXor(x, y)}
          [] op = "shl" /\ y < w -> {x * 2^y}
          [] op = "lshr" /\ y < w -> {x \div 2^y}
          [] op = "ashr" /\ y < w -> {sx \div 2^y}
          [] OTHER -> {}
Holds(op, x, y) ==
    CASE op \in {"slt", "ult", "flt"} -> x < y [] op \in {"sle", "ule", "fle"} -> x <= y
      [] op \in {"sgt", "ugt", "fgt"} -> x > y [] op \in {"sge", "uge", "fge"} -> x >= y
      [] op \in {"eq", "feq"} -> x = y [] OTHER -> x # y
FloatResult(op, x, y) ==
    CASE op = "fadd" -> {x + y} [] op = "fsub" -> {x - y} [] op = "fmul" -> {x * y} [] OTHER -> {}
SignedCompares == {"slt", "sle", "sgt", "sge"}

\* Operands must have one type.  A pointer and an i64 are added as a GEP.
LowerBinOp(s, op, a, b) ==
    LET isFloat == op \in {FloatOps[k] : k \in DOMAIN FloatOps}
        sgn(v) == IF op \in SignedCompares THEN ToSigned(v.w, v.v) ELSE v.v
        r == IF isFloat THEN FloatResult(op, a.v, b.v) ELSE Instr(op, a.w, a.v, b.v)
    IN  CASE op = "add" /\ a.ty = "ptr" /\ HasType(b, "i64") ->
               [s EXCEPT !.v = Addr(a.v + ToSigned(b.w, b.v))]
          [] ~SameType(a, b) \/ (a.ty # "int" /\ ~isFloat /\ op \notin I1Ops) \/ (a.ty # "float" /\ isFloat) ->
               Stop(s, "refused")
          [] op \in I1Ops -> [s EXCEPT !.v = Bits(1, IF Holds(op, IF a.ty = "int" THEN sgn(a) ELSE a.v,
                                                              IF a.ty = "int" THEN sgn(b) ELSE b.v)
                                                     THEN 1 ELSE 0)]
          [] r = {} -> Stop(s, "ub")
          [] OTHER -> LET n == CHOOSE x \in r : TRUE
                      IN  [s EXCEPT !.v = IF isFloat THEN Flt(n) ELSE Bits(a.w, n)]

-----------------------------------------------------------------------------
(* Expressions.  c is the function's context: types names the quod types   *)
(* of parameters and locals, constants the texts.                          *)

AndThen(s, F(_)) == IF Running(s) THEN F(s) ELSE s
Expect(s, q) == IF Running(s) /\ ~HasType(s.v, q) THEN Stop(s, "refused") ELSE s

RECURSIVE RunExpr(_, _, _)
RunExprs(c, s, es, types) ==
    FoldLeft(LAMBDA acc, i : AndThen(acc, LAMBDA a :
                 [Expect(RunExpr(c, a, CoerceIntLit(es[i], types[i])), types[i]) EXCEPT !.v = Append(a.v, @)]),
             [s EXCEPT !.v = <<>>], [i \in DOMAIN es |-> i])

RunExpr(c, s, e) ==
    LET Go(t) == RunExpr(c, s, t)
    IN
    CASE e.kind = "int_lit" -> [s EXCEPT !.v = OfType(e.type, e.value)]
      [] e.kind = "lit" -> [s EXCEPT !.v = Bits(1, 1)]
      [] e.kind = "float_lit" -> [s EXCEPT !.v = Flt(e.value)]
      [] e.kind = "string_ref" -> [s EXCEPT !.v = Str(c.constants[e.name])]
      [] e.kind = "param" -> [s EXCEPT !.v = c.args[e.name]]
      [] e.kind = "ref" ->
           IF e.name \in DOMAIN s.vars THEN [s EXCEPT !.v = s.vars[e.name]] ELSE Stop(s, "refused")
      [] e.kind = "fneg" -> AndThen(Go(e.operand), LAMBDA a :
             IF a.v.ty = "float" THEN [a EXCEPT !.v = Flt(-@.v)] ELSE Stop(a, "refused"))
      [] e.kind = "binop" ->
           AndThen(Go(e.lhs), LAMBDA a : AndThen(RunExpr(c, a, e.rhs), LAMBDA b :
             LowerBinOp(b, e.op, a.v, b.v)))
      [] e.kind \in {"and", "or"} ->
           AndThen(Expect(Go(e.lhs), "i1"), LAMBDA a :
             IF (a.v.v = 1) = (e.kind = "or") THEN a ELSE Expect(RunExpr(c, a, e.rhs), "i1"))
      [] e.kind = "if_expr" ->
           AndThen(Expect(Go(e.cond), "i1"), LAMBDA a :
             LET taken == RunExpr(c, a, IF a.v.v = 1 THEN e.then ELSE e.else)
                 other == RunExpr(c, a, IF a.v.v = 1 THEN e.else ELSE e.then)
             IN  IF Running(taken) /\ Running(other) /\ ~SameType(taken.v, other.v)
                   THEN Stop(taken, "refused") ELSE taken)
      [] e.kind = "cast" ->
           AndThen(Go(e.value), LAMBDA a : LowerCast(a, QuodTypeOf(c.types, e.value), e.target))
      [] e.kind = "call" ->
           LET sig == CHOOSE x \in ExternSignature(e.fn) : TRUE
           IN  AndThen(RunExprs(c, s, e.args, sig.params), LAMBDA a :
                 LET r == DoCall(a, e.fn, a.v)
                 IN  [r EXCEPT !.v = IF sig.result = "void" THEN Addr(0) ELSE OfType(sig.result, @)])
      [] e.kind = "struct_init" ->
           LET names == {Structs[e.struct][i].name : i \in DOMAIN Structs[e.struct]}
               given == [i \in DOMAIN e.fields |-> e.fields[i].name]
               values == [i \in DOMAIN e.fields |-> e.fields[i].value]
               types == [i \in DOMAIN given |-> FieldQuodType(e.struct, given[i])]
           IN  IF ToSet(given) # names THEN Stop(s, "refused")
               ELSE AndThen(RunExprs(c, s, values, types), LAMBDA a :
                      [a EXCEPT !.v = Agg(e.struct,
                         [x \in names |-> a.v[CHOOSE i \in DOMAIN given : given[i] = x]])])
      [] e.kind = "field_read" -> AndThen(Go(e.value), LAMBDA a : [a EXCEPT !.v = @.v[e.name]])
      [] e.kind = "load_field" ->
           AndThen(Expect(Go(e.ptr), "i8_ptr"), LAMBDA a : ReadCell(a, <<a.v.v, e.name>>))
      [] e.kind = "ptr_offset" ->
           AndThen(Expect(Go(e.base), "i8_ptr"), LAMBDA a :
             AndThen(Expect(RunExpr(c, a, e.offset), "i64"), LAMBDA b :
               [b EXCEPT !.v = Addr(a.v.v + ToSigned(b.v.w, b.v.v))]))
      [] e.kind = "load" ->
           AndThen(Expect(Go(e.ptr), "i8_ptr"), LAMBDA a :
             AndThen(ReadCell(a, <<a.v.v, "">>), LAMBDA b : Expect(b, e.type)))
      [] OTHER -> Stop(s, "refused")

-----------------------------------------------------------------------------
(* Statements of layer C.                                                  *)

RECURSIVE RunBody(_, _, _)
RECURSIVE RunLoop(_, _, _)

Resume(s, status) == IF s.status = status THEN [s EXCEPT !.status = "run"] ELSE s

\* A loop, from the end of its body, where a do-while enters, and from its
\* test.
RunAgain(c, s, w) == IF Running(s) THEN RunLoop(c, s, w) ELSE Resume(s, "break")
RunLoop(c, s, w) ==
    AndThen(Expect(RunExpr(c, Burn(s), w.cond), "i1"), LAMBDA t :
      IF t.v.v = 0 THEN t ELSE RunAgain(c, Resume(RunBody(c, t, w.body), "continue"), w))

StoreLocal(c, s, x, e) ==
    AndThen(Expect(RunExpr(c, s, CoerceIntLit(e, c.types[x])), c.types[x]), LAMBDA a :
      [a EXCEPT !.vars = [y \in DOMAIN @ \cup {x} |-> IF y = x THEN a.v ELSE @[y]]])

RunStmt(c, s, t) ==
    IF ~Running(s) THEN s
    ELSE CASE t.kind = "return_expr" -> AndThen(Expect(RunExpr(c, s, t.value), c.result), LAMBDA a : Stop(a, "ret"))
           [] t.kind = "return" -> Stop([s EXCEPT !.v = Addr(0)], "ret")
           [] t.kind = "unreachable" -> Stop(s, "ub")
           [] t.kind \in {"break", "continue"} -> Stop(s, t.kind)
           [] t.kind = "expr_stmt" -> RunExpr(c, s, t.value)
           [] t.kind = "let" -> IF t.init = NoInit THEN s ELSE StoreLocal(c, s, t.name, t.init)
           [] t.kind = "assign" -> StoreLocal(c, s, t.name, t.value)
           [] t.kind = "store" ->
                AndThen(Expect(RunExpr(c, s, t.ptr), "i8_ptr"), LAMBDA p :
                  AndThen(RunExpr(c, p, t.value), LAMBDA a : WriteCell(a, <<p.v.v, "">>, a.v)))
           [] t.kind = "store_field" ->
                AndThen(Expect(RunExpr(c, s, t.ptr), "i8_ptr"), LAMBDA p :
                  LET q == FieldQuodType(t.struct, t.name)
                  IN  AndThen(Expect(RunExpr(c, p, CoerceIntLit(t.value, q)), q), LAMBDA a :
                        WriteCell(a, <<p.v.v, t.name>>, a.v)))
           [] t.kind = "if" ->
                AndThen(Expect(RunExpr(c, s, t.cond), "i1"), LAMBDA a :
                  RunBody(c, a, IF a.v.v = 1 THEN t.then ELSE t.else))
           [] t.kind = "while" -> RunLoop(c, s, t)
           [] t.kind = "do_while" -> RunAgain(c, Resume(RunBody(c, s, t.body), "continue"), t)
           [] OTHER -> Stop(s, "refused")

RunBody(c, s, stmts) == FoldLeft(LAMBDA a, t : RunStmt(c, a, t), s, stmts)

\* The types of the locals, wherever they are declared.
RECURSIVE LocalTypes(_)
LocalTypes(stmts) ==
    UNION {(IF stmts[i].kind = "let" THEN {<<stmts[i].name, stmts[i].type>>} ELSE {})
           \cup UNION {LocalTypes(Blocks(stmts[i])[j]) : j \in DOMAIN Blocks(stmts[i])} : i \in DOMAIN stmts}

\* Every declaration of a name, with its place in the body.
RECURSIVE LetsAt(_, _)
LetsAt(stmts, at) ==
    UNION {(IF stmts[i].kind = "let" THEN {<<stmts[i].name, Append(at, i)>>} ELSE {})
           \cup UNION {LetsAt(Blocks(stmts[i])[j], at \o <<i, j>>) : j \in DOMAIN Blocks(stmts[i])} :
             i \in DOMAIN stmts}

\* A run of a layer C function.  A name declared twice is refused at once.
RunQuod(fn, args, constants, mem, fuel) ==
    LET locals == LocalTypes(fn.body)
        params == {<<fn.params[i].name, fn.params[i].type>> : i \in DOMAIN fn.params}
        names == {p[1] : p \in params \cup locals}
        c == [types |-> [x \in names |-> (CHOOSE p \in IF \E l \in locals : l[1] = x THEN locals ELSE params : p[1] = x)[2]],
              args |-> args, constants |-> constants, result |-> fn.result]
        clash == CollectLocals({p[1] : p \in params}, fn.body, [locals |-> {}, codes |-> {}]).codes # {}
                 \/ \E a, b \in LetsAt(fn.body, <<>>) : a # b /\ a[1] = b[1]
        start == Start(<<>>, mem, fuel)
    IN  Outcome(IF clash THEN Stop(start, "refused") ELSE Stop(RunBody(c, start, fn.body), "ub"))
=============================================================================
