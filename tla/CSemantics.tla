----------------------------- MODULE CSemantics -----------------------------
(***************************************************************************)
(* The meaning of C source, the reference the translation is held to       *)
(* (C99; external).  A value is an integer of its type's range, an         *)
(* address, a float taken to be an integer, or a function on the fields of *)
(* a structure.                                                            *)
(***************************************************************************)
EXTENDS CSource, CMachine, SequencesExt

SizeOf(t) == CASE t.kind \in {"CHAR_S", "UCHAR"} -> 1 [] t.kind \in {"INT", "UINT"} -> 4
               [] OTHER -> 8

Lowest(t) == IF IsSigned(t) THEN -(2^(IntWidth[t.kind] - 1)) ELSE 0
Highest(t) == Lowest(t) + 2^IntWidth[t.kind] - 1
InRange(t, v) == Lowest(t) <= v /\ v <= Highest(t)
Fit(t, v) == LET n == v % 2^IntWidth[t.kind]
             IN  IF IsSigned(t) THEN ToSigned(IntWidth[t.kind], n) ELSE n

\* A conversion of a value.  Out of the range of an integer type: modulo for
\* an integer, undefined for a float.
Convert(s, from, to) ==
    IF ~Running(s) \/ ~IsInt(to) \/ from = to THEN s
    ELSE IF IsInt(from) THEN [s EXCEPT !.v = Fit(to, @)]
    ELSE IF InRange(to, s.v) THEN s ELSE Stop(s, "ub")

\* How a value of a type looks from outside.
RECURSIVE Seen(_, _)
Seen(t, v) ==
    CASE IsInt(t) -> Bits(IntWidth[t.kind], v)
      [] t.kind = "POINTER" -> IF v < 0 THEN Str(v) ELSE Addr(v)
      [] t.kind = "RECORD" -> Agg(t.name, [x \in DOMAIN v |-> Seen(FieldType(t.name, x), v[x])])
      [] OTHER -> Flt(v)
Back(t, cell) == IF IsInt(t) THEN Fit(t, cell.v) ELSE cell.v

-----------------------------------------------------------------------------
(* Operators.  The set is empty where C leaves the result undefined.       *)

Truncated(x, y) ==
    LET q == (IF x < 0 THEN -x ELSE x) \div (IF y < 0 THEN -y ELSE y)
    IN  IF (x < 0) = (y < 0) THEN q ELSE -q
Truth(b) == IF b THEN 1 ELSE 0

Compare(op, x, y) ==
    Truth(CASE op = "<" -> x < y [] op = "<=" -> x <= y [] op = ">" -> x > y
            [] op = ">=" -> x >= y [] op = "==" -> x = y [] OTHER -> x # y)

Exact(op, x, y) ==
    CASE op = "+" -> {x + y} [] op = "-" -> {x - y} [] op = "*" -> {x * y}
      [] op = "/" /\ y # 0 -> {Truncated(x, y)}
      [] op = "%" /\ y # 0 -> {x - y * Truncated(x, y)}
      [] OTHER -> {}
Bitwise2(op, w, x, y) ==
    LET a == x % 2^w
        b == y % 2^w
    IN  CASE op = "&" -> BitAnd(a, b) [] op = "|" -> BitOr(a, b) [] OTHER -> BitXor(a, b)

\* x op y in the integer or float type t, y already of that type but for a
\* shift.
Apply(op, t, x, y) ==
    CASE op \in Relations -> {Compare(op, x, y)}
      [] ~IsInt(t) -> Exact(op, x, y)
      [] op \in {"&", "|", "^"} -> {Fit(t, Bitwise2(op, IntWidth[t.kind], x, y))}
      [] op = "<<" -> {z \in {x * 2^(IF y < 0 THEN 0 ELSE y)} :
                         /\ 0 <= y /\ y < IntWidth[t.kind]
                         /\ IsSigned(t) => x >= 0 /\ InRange(t, z)}
                      \* modulo for unsigned types
      [] op = ">>" -> {x \div 2^z : z \in {y} \cap 0 .. IntWidth[t.kind] - 1}
      [] IsSigned(t) -> {z \in Exact(op, x, y) : InRange(t, z)}
      [] OTHER -> {Fit(t, z) : z \in Exact(op, x, y)}

Applied(s, op, t, x, y) ==
    LET r == Apply(op, t, x, y)
    IN  IF r = {} THEN Stop(s, "ub")
        ELSE [s EXCEPT !.v = IF IsInt(t) THEN Fit(t, CHOOSE z \in r : TRUE) ELSE CHOOSE z \in r : TRUE]

-----------------------------------------------------------------------------
(* Expressions: s.v is the value of the last one evaluated.                *)

RECURSIVE Eval(_, _)
RECURSIVE Place(_, _)

Then(s, F(_)) == IF Running(s) THEN F(s) ELSE s

Truthy(v) == v # 0

EvalBinary(s, e) ==
    LET Stride(ptr) == SizeOf(ptr.type.pointee)
        Decided(v) == e.op \in {"&&", "||"} /\ Truthy(v) = (e.op = "||")
    IN  Then(Eval(s, e.lhs), LAMBDA s1 :
          IF Decided(s1.v) THEN [s1 EXCEPT !.v = Truth(e.op = "||")]
          ELSE Then(Eval(s1, e.rhs), LAMBDA s2 :
                 CASE e.op \in {"&&", "||"} -> [s2 EXCEPT !.v = Truth(Truthy(@))]
                   [] e.lhs.type.kind = "POINTER" /\ e.op \in {"+", "-"} ->
                        [s2 EXCEPT !.v = s1.v + (IF e.op = "+" THEN s2.v ELSE -s2.v) * Stride(e.lhs)]
                   [] e.rhs.type.kind = "POINTER" /\ e.op = "+" ->
                        [s2 EXCEPT !.v = s2.v + s1.v * Stride(e.rhs)]
                   [] e.op \in Relations ->
                        [s2 EXCEPT !.v = Compare(e.op, s1.v, s2.v)]
                   [] OTHER -> Applied(s2, e.op, e.lhs.type, s1.v, s2.v)))

EvalUnary(s, e) ==
    CASE e.op = "&" -> Then(Place(s, e.inner), LAMBDA p : [p EXCEPT !.v = @[1]])
      [] e.op = "*" -> Then(Place(s, e), LAMBDA p :
                         Then(ReadCell(p, p.v), LAMBDA q : [q EXCEPT !.v = Back(e.type, @)]))
      [] OTHER ->
           Then(Eval(s, e.inner), LAMBDA s1 :
             CASE e.op = "-" -> Applied(s1, "-", e.type, 0, s1.v)
               [] e.op = "~" -> [s1 EXCEPT !.v = Fit(e.type, -1 - @)]
               [] e.op = "!" -> [s1 EXCEPT !.v = Truth(~Truthy(@))]
               [] OTHER -> s1)

\* The key in memory of a dereference, a subscript or a member of what a
\* pointer points at.
Place(s, e) ==
    CASE e.kind = "UNARY_OPERATOR" ->
           Then(Eval(s, e.inner), LAMBDA p : [p EXCEPT !.v = <<@, "">>])
      [] e.kind = "ARRAY_SUBSCRIPT_EXPR" ->
           Then(Eval(s, e.base), LAMBDA s1 : Then(Eval(s1, e.index), LAMBDA s2 :
             [s2 EXCEPT !.v = <<s1.v + s2.v * SizeOf(e.type), "">>]))
      [] OTHER -> Then(Eval(s, e.base), LAMBDA p : [p EXCEPT !.v = <<@, e.name>>])

\* The values of a sequence of expressions, in order.
EvalAll(s, es) ==
    FoldLeft(LAMBDA acc, e : Then(acc, LAMBDA a : [Eval(a, e) EXCEPT !.v = Append(a.v, @)]),
             [s EXCEPT !.v = <<>>], es)

Eval(s, e) ==
    CASE e.kind \in {"INTEGER_LITERAL", "FLOATING_LITERAL", "ENUM_CONSTANT", "STRING_LITERAL"} ->
           [s EXCEPT !.v = e.value]
      [] e.kind = "DECL_REF_EXPR" ->
           IF e.name \in DOMAIN s.vars THEN [s EXCEPT !.v = s.vars[e.name]] ELSE Stop(s, "ub")
      [] e.kind \in {"UNEXPOSED_EXPR", "CSTYLE_CAST_EXPR"} ->
           Convert(Eval(s, e.inner), e.inner.type, e.type)
      [] e.kind = "UNARY_OPERATOR" -> EvalUnary(s, e)
      [] e.kind = "BINARY_OPERATOR" -> EvalBinary(s, e)
      [] e.kind = "ARRAY_SUBSCRIPT_EXPR" \/ (e.kind = "MEMBER_REF_EXPR" /\ e.base.type.kind = "POINTER") ->
           Then(Place(s, e), LAMBDA p : Then(ReadCell(p, p.v), LAMBDA q : [q EXCEPT !.v = Back(e.type, @)]))
      [] e.kind = "MEMBER_REF_EXPR" ->
           Then(Eval(s, e.base), LAMBDA s1 :
                  IF e.name \in DOMAIN s1.v THEN [s1 EXCEPT !.v = @[e.name]] ELSE Stop(s1, "ub"))
      [] e.kind = "INIT_LIST_EXPR" ->
           Then(EvalAll(s, e.items), LAMBDA s1 :
                  [s1 EXCEPT !.v = [x \in {Structs[e.type.name][i].name : i \in DOMAIN Structs[e.type.name]} |->
                     LET i == CHOOSE j \in DOMAIN Structs[e.type.name] : Structs[e.type.name][j].name = x
                     IN  IF i \in DOMAIN s1.v THEN s1.v[i] ELSE 0]])
      [] e.kind = "CONDITIONAL_OPERATOR" ->
           Then(Eval(s, e.cond), LAMBDA s1 : Eval(s1, IF Truthy(s1.v) THEN e.then ELSE e.else))
      [] OTHER ->                                             \* CALL_EXPR
           Then(EvalAll(s, e.args), LAMBDA s1 :
                  LET r == DoCall(s1, e.fn, [i \in DOMAIN e.args |-> Seen(e.args[i].type, s1.v[i])])
                  IN  IF IsInt(e.type) THEN [r EXCEPT !.v = Fit(e.type, @)] ELSE r)

-----------------------------------------------------------------------------
(* Statements.                                                             *)

RECURSIVE Exec(_, _)
RECURSIVE Loop(_, _, _, _)

\* r without the names that block b declares, which have in s what they had.
Forget(s, r, b) ==
    LET own == UNION {{b[i].decls[j].name : j \in DOMAIN b[i].decls} :
                        i \in {k \in DOMAIN b : b[k].kind = "DECL_STMT"}}
    IN  IF own = {} THEN r
        ELSE [r EXCEPT !.vars = [x \in (DOMAIN r.vars \ own) \cup (DOMAIN s.vars \cap own) |->
                                   IF x \in own THEN s.vars[x] ELSE r.vars[x]]]
Block(s, b) == Forget(s, FoldLeft(Exec, s, b), b)

\* What is left of an iteration: a break leaves the loop, a continue does not.
AfterBody(s) == IF s.status = "continue" THEN [s EXCEPT !.status = "run"] ELSE s
LeaveLoop(s) == IF s.status = "break" THEN [s EXCEPT !.status = "run"] ELSE s

Test(s, c) == IF c = None THEN [s EXCEPT !.v = 1] ELSE Eval(s, c)

\* A loop, from the end of a body and from its test.
Again(s, c, b, inc) ==
    IF Running(s) THEN Loop(IF inc = None THEN s ELSE Exec(s, inc), c, b, inc) ELSE LeaveLoop(s)
Loop(s, c, b, inc) ==
    Then(Test(Burn(s), c), LAMBDA t :
      IF Truthy(t.v) THEN Again(AfterBody(Block(t, b)), c, b, inc) ELSE t)

Write(s, l) ==
    LET v == s.v
    IN  IF l.kind = "DECL_REF_EXPR"
          THEN [s EXCEPT !.vars = [x \in DOMAIN @ \cup {l.name} |-> IF x = l.name THEN v ELSE @[x]]]
          ELSE Then(Place(s, l), LAMBDA p : WriteCell(p, p.v, Seen(l.type, v)))

\* l = l op v, computed in the common type of the two.
Updated(s, op, l, r) ==
    LET t == IF op \in {"<<", ">>"} THEN Promote(l).type
             ELSE IF IsInt(l.type) THEN Common(Promote(l), r) ELSE l.type
    IN  Then(Eval(s, l), LAMBDA s1 : Then(Eval(s1, r), LAMBDA s2 :
          IF l.type.kind = "POINTER"
            THEN Write([s2 EXCEPT !.v = s1.v + (IF op = "+" THEN 1 ELSE -1) * SizeOf(l.type.pointee) * @], l)
            ELSE LET a == Convert([s2 EXCEPT !.v = s1.v], l.type, t)
                 IN  Then(Convert(Applied(a, op, t, a.v, s2.v), t, l.type), LAMBDA s3 : Write(s3, l))))

\* The items a switch runs: from the label its value selects on, labels
\* skipped.
RECURSIVE CaseValues(_)
CaseValues(item) ==
    IF item.kind = "CASE_STMT" THEN {item.value.value} \cup CaseValues(item.first) ELSE {}
RECURSIVE IsDefault(_)
IsDefault(item) ==
    item.kind = "DEFAULT_STMT" \/ (item.kind = "CASE_STMT" /\ IsDefault(item.first))
RECURSIVE Unlabelled(_)
Unlabelled(item) ==
    IF item.kind \in {"CASE_STMT", "DEFAULT_STMT"} THEN Unlabelled(item.first) ELSE item
Selected(items, v) ==
    LET byCase == {i \in DOMAIN items : v \in CaseValues(items[i])}
        byDefault == {i \in DOMAIN items : IsDefault(items[i])}
        from == IF byCase # {} THEN byCase ELSE byDefault
        first == CHOOSE j \in from : TRUE
    IN  IF from = {} THEN <<>>
        ELSE [i \in 1 .. Len(items) + 1 - first |-> Unlabelled(items[i + first - 1])]

DeclareC(s, d) ==
    IF ~Running(s) THEN s
    ELSE IF d.init = None
      THEN [s EXCEPT !.vars = [x \in DOMAIN @ \ {d.name} |-> @[x]]]
      ELSE Then(Eval(s, d.init), LAMBDA s1 : Write(s1, Name(d.name, d.type)))

Exec(s, c) ==
    IF ~Running(s) THEN s
    ELSE CASE c.kind = "RETURN_STMT" ->
                IF c.value = None THEN [Stop(s, "ret") EXCEPT !.v = Addr(0)]
                ELSE Then(Eval(s, c.value), LAMBDA s1 :
                            [Stop(s1, "ret") EXCEPT !.v = Seen(c.value.type, @)])
           [] c.kind = "IF_STMT" ->
                Then(Eval(s, c.cond), LAMBDA s1 : Block(s1, IF Truthy(s1.v) THEN c.then ELSE c.else))
           [] c.kind = "WHILE_STMT" -> Loop(s, c.cond, c.body, None)
           [] c.kind = "DO_STMT" -> Again(AfterBody(Block(s, c.body)), c.cond, c.body, None)
           [] c.kind = "FOR_STMT" ->
                Loop(IF c.init = None THEN s ELSE Exec(s, c.init), c.cond, c.body, c.inc)
           [] c.kind = "DECL_STMT" -> FoldLeft(DeclareC, s, c.decls)
           [] c.kind = "ASSIGN" -> Then(Eval(s, c.rhs), LAMBDA s1 : Write(s1, c.lhs))
           [] c.kind = "COMPOUND_ASSIGNMENT_OPERATOR" -> Updated(s, c.op, c.lhs, c.rhs)
           [] c.kind = "INCREMENT" ->
                Updated(s, IF c.op = "++" THEN "+" ELSE "-", c.lhs, Num(CInt, 1))
           [] c.kind = "EXPRESSION" -> Eval(s, c.value)
           [] c.kind = "COMPOUND_STMT" -> Block(s, c.body)
           [] c.kind = "SWITCH_STMT" ->
                Then(Eval(s, c.cond), LAMBDA s1 : LeaveLoop(Block(s1, Selected(c.items, s1.v))))
           [] OTHER -> Stop(s, IF c.kind = "BREAK_STMT" THEN "break" ELSE "continue")

\* Falling off the end returns from a void function, returns 0 from main and
\* is undefined elsewhere.
FallOff(fn, s) ==
    IF ~Running(s) THEN s
    ELSE CASE fn.result = CVoid -> [Stop(s, "ret") EXCEPT !.v = Addr(0)]
           [] fn.name = "main" -> [Stop(s, "ret") EXCEPT !.v = Seen(CInt, 0)]
           [] OTHER -> Stop(s, "ub")

\* A run of a function.
RunC(fn, args, mem, fuel) ==
    LET vars == [x \in {fn.params[i].name : i \in DOMAIN fn.params} |->
                   args[CHOOSE i \in DOMAIN fn.params : fn.params[i].name = x]]
    IN  Outcome(FallOff(fn, Block(Start(vars, mem, fuel), fn.body)))
=============================================================================
