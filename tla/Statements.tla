----------------------------- MODULE Statements -----------------------------
(***************************************************************************)
(* The statements of a function body and the expressions in them           *)
(* (model/statements.py, model/expressions.py).  A body is a sequence of   *)
(* statements.  Types and values are left out: an expression is what it    *)
(* reads, calls and skips, a condition is decided when it is tested.       *)
(***************************************************************************)
EXTENDS Naturals, Sequences, FiniteSets

\* Expressions.  Call stands for every node that evaluates its operands in
\* order; Not, ShortCircuitAnd and TryExpr are kept apart because the passes
\* treat them differently.
Lit == [kind |-> "lit"]
LocalRef(x) == [kind |-> "ref", name |-> x]
Call(f, args) == [kind |-> "call", fn |-> f, args |-> args]
Not(e) == [kind |-> "not", operand |-> e]
ShortCircuitAnd(l, r) == [kind |-> "and", lhs |-> l, rhs |-> r]
TryExpr(e) == [kind |-> "try", value |-> e]

NoInit == [kind |-> "none"]

ReturnExpr(e) == [kind |-> "return_expr", value |-> e]
Return == [kind |-> "return"]
Unreachable == [kind |-> "unreachable"]
Break == [kind |-> "break"]
Continue == [kind |-> "continue"]
If(c, t, e) == [kind |-> "if", cond |-> c, then |-> t, else |-> e]
Let(x, e) == [kind |-> "let", name |-> x, init |-> e]
Assign(x, e) == [kind |-> "assign", name |-> x, value |-> e]
While(c, b) == [kind |-> "while", cond |-> c, body |-> b]
DoWhile(b, c) == [kind |-> "do_while", body |-> b, cond |-> c]
For(x, lo, hi, b) == [kind |-> "for", var |-> x, lo |-> lo, hi |-> hi, body |-> b]
ExprStmt(e) == [kind |-> "expr_stmt", value |-> e]
FieldSet(x, e) == [kind |-> "field_set", name |-> x, value |-> e]
Store(p, e) == [kind |-> "store", ptr |-> p, value |-> e]
WithArena(a, c, b) == [kind |-> "with_arena", name |-> a, capacity |-> c, body |-> b]
Arm(v, xs, b) == [variant |-> v, bindings |-> xs, body |-> b]
Match(e, arms) == [kind |-> "match", scrutinee |-> e, arms |-> arms]

\* The one statement of the C layer: init and inc are statements, or none.
CStyleFor(i, c, n, b) ==
    [kind |-> "c.for_general", init |-> i, cond |-> c, inc |-> n, body |-> b]

\* The blocks directly inside a statement.
Blocks(s) ==
    CASE s.kind = "if" -> <<s.then, s.else>>
      [] s.kind \in {"while", "do_while", "for", "with_arena", "c.for_general"} -> <<s.body>>
      [] s.kind = "match" -> [i \in DOMAIN s.arms |-> s.arms[i].body]
      [] OTHER -> <<>>

\* True when the last statement of a body cannot fall through.
RECURSIVE BodyAlwaysTerminates(_)
BodyAlwaysTerminates(stmts) ==
    /\ stmts # <<>>
    /\ LET last == stmts[Len(stmts)]
       IN  \/ last.kind \in {"return_expr", "return", "unreachable", "break", "continue"}
           \/ /\ last.kind \in {"if", "match"}
              /\ \A i \in DOMAIN Blocks(last) : BodyAlwaysTerminates(Blocks(last)[i])
=============================================================================
