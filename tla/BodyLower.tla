----------------------------- MODULE BodyLower ------------------------------
(***************************************************************************)
(* Lowering of a body to basic blocks (lower/stmt.py, lower/function.py,   *)
(* lower/expr.py).  A builder holds the blocks so far, the block it        *)
(* appends to, the stack of loop targets, the slot of each local and the   *)
(* first error.  Instructions are the loads, stores and calls; everything  *)
(* that only computes is left out.                                         *)
(***************************************************************************)
EXTENDS BodyRewrite

NoTerm == [op |-> "open"]
Ret == [op |-> "ret"]
Trap == [op |-> "unreachable"]
Branch(t) == [op |-> "br", to |-> <<t>>]
Switch(ts) == [op |-> "br", to |-> ts]      \* the first of two is `true`

EmptyBlock == [ins |-> <<>>, term |-> NoTerm]
IsTerminated(b) == b.blocks[b.at].term # NoTerm

Fail(b, why) == IF b.err = "" THEN [b EXCEPT !.err = why] ELSE b

\* An instruction after a terminator is refused by LLVM, a second terminator
\* by the builder.
Emit(b, i) ==
    IF IsTerminated(b) THEN Fail(b, "instruction after a terminator")
    ELSE [b EXCEPT !.blocks[b.at].ins = Append(@, i)]
Terminate(b, t) ==
    IF IsTerminated(b) THEN Fail(b, "instruction after a terminator")
    ELSE [b EXCEPT !.blocks[b.at].term = t]
FallTo(b, t) == IF IsTerminated(b) THEN b ELSE Terminate(b, Branch(t))

AppendBlocks(b, n) == [b EXCEPT !.blocks = @ \o [i \in 1..n |-> EmptyBlock]]
PositionAt(b, t) == [b EXCEPT !.at = t]
Next1(b) == Len(b.blocks) + 1

StoreTo(b, slot) == Emit(b, [op |-> "store", slot |-> slot])

-----------------------------------------------------------------------------
RECURSIVE LowerExpr(_, _)
LowerExpr(b, e) ==
    CASE e.kind = "ref" ->
           IF e.name \in DOMAIN b.locals
             THEN Emit(b, [op |-> "load", slot |-> b.locals[e.name]])
             ELSE Fail(b, "validator invariant: local_ref")
      [] e.kind = "call" ->
           Emit(FoldLeft(LowerExpr, b, e.args), [op |-> "call", call |-> e])
      [] e.kind = "not" -> LowerExpr(b, e.operand)
      [] e.kind = "and" ->
           LET rhs == Next1(b)
               b1 == Terminate(LowerExpr(AppendBlocks(b, 2), e.lhs), Switch(<<rhs, rhs + 1>>))
               b2 == Terminate(LowerExpr(PositionAt(b1, rhs), e.rhs), Branch(rhs + 1))
           IN  PositionAt(b2, rhs + 1)
      [] e.kind = "try" ->
           LET b1 == AppendBlocks(LowerExpr(b, e.value), 2)
               sad == Len(b1.blocks) - 1
               b2 == Terminate(b1, Switch(<<sad, sad + 1>>))
           IN  PositionAt(Terminate(PositionAt(b2, sad), Ret), sad + 1)
      [] OTHER -> b

RECURSIVE LowerBody(_, _)
RECURSIVE LowerStmt(_, _)
LowerBody(b, stmts) == FoldLeft(LowerStmt, b, stmts)

\* A loop body between `at` and the block that ends an iteration.
LoopBody(b, at, body, continueTo, breakTo) ==
    LET b1 == [PositionAt(b, at) EXCEPT !.loops = Append(@, [cont |-> continueTo, brk |-> breakTo])]
    IN  [FallTo(LowerBody(b1, body), continueTo) EXCEPT !.loops = b.loops]

\* The block after an if or a match is created by the first branch that
\* needs it; 0 stands for none yet.
Join(b, end) ==
    LET at == IF end = 0 THEN Next1(b) ELSE end
    IN  IF IsTerminated(b) THEN [b |-> b, end |-> end]
        ELSE [b |-> Terminate(IF end = 0 THEN AppendBlocks(b, 1) ELSE b, Branch(at)), end |-> at]
Joined(j) == IF j.end = 0 THEN j.b ELSE PositionAt(j.b, j.end)

LowerIf(b, s) ==
    LET then == Next1(b)
        b1 == Terminate(LowerExpr(AppendBlocks(b, 2), s.cond), Switch(<<then, then + 1>>))
        j1 == Join(LowerBody(PositionAt(b1, then), s.then), 0)
    IN  Joined(Join(LowerBody(PositionAt(j1.b, then + 1), s.else), j1.end))

LowerWhile(b, s) ==
    LET header == Next1(b)
        exit == header + 2
        b1 == LowerExpr(PositionAt(Terminate(AppendBlocks(b, 3), Branch(header)), header), s.cond)
        b2 == Terminate(b1, Switch(<<header + 1, exit>>))
    IN  PositionAt(LoopBody(b2, header + 1, s.body, header, exit), exit)

LowerDoWhile(b, s) ==
    LET body == Next1(b)
        cond == body + 1
        exit == body + 2
        b1 == LoopBody(Terminate(AppendBlocks(b, 3), Branch(body)), body, s.body, cond, exit)
        b2 == Terminate(LowerExpr(PositionAt(b1, cond), s.cond), Switch(<<body, exit>>))
    IN  PositionAt(b2, exit)

\* The bounds are evaluated once; the slot of the variable is reset by each
\* execution of the loop and read again by the test and by the increment.
LowerFor(b, s) ==
    LET b0 == LowerExpr(LowerExpr(b, s.lo), s.hi)
        header == Next1(b0)
        inc == header + 2
        exit == header + 3
        slot == b.locals[s.var]
        Load(c) == Emit(c, [op |-> "load", slot |-> slot])
        b1 == Terminate(AppendBlocks(StoreTo(b0, slot), 4), Branch(header))
        b2 == Terminate(Load(PositionAt(b1, header)), Switch(<<header + 1, exit>>))
        b3 == LoopBody(b2, header + 1, s.body, inc, exit)
        b4 == Terminate(StoreTo(Load(PositionAt(b3, inc)), slot), Branch(header))
    IN  PositionAt(b4, exit)

\* An arm is lowered with an empty stack of loops, and with its bindings in
\* slots of their own.
LowerArm(b, arm, at) ==
    LET fresh == [x \in ToSet(arm.bindings) |-> <<x, at>>]
        b1 == [PositionAt(b, at) EXCEPT !.loops = <<>>,
                  !.locals = [x \in DOMAIN @ \cup DOMAIN fresh |->
                                IF x \in DOMAIN fresh THEN fresh[x] ELSE @[x]]]
        b2 == FoldLeft(LAMBDA c, x : StoreTo(c, fresh[x]), b1, arm.bindings)
        b3 == LowerBody(b2, arm.body)
    IN  [b3 EXCEPT !.loops = b.loops, !.locals = b.locals]

LowerMatch(b, s) ==
    LET b0 == LowerExpr(b, s.scrutinee)
        first == Len(b0.blocks)
        n == Len(s.arms)
        b1 == Terminate(AppendBlocks(b0, n), Switch([i \in 1..n |-> first + i]))
        Step(j, i) == Join(LowerArm(j.b, s.arms[i], first + i), j.end)
    IN  Joined(FoldLeft(Step, [b |-> b1, end |-> 0], [i \in 1..n |-> i]))

LowerStmt(b, s) ==
    CASE b.err # "" -> b
      [] s.kind = "return_expr" -> Terminate(LowerExpr(b, s.value), Ret)
      [] s.kind = "return" -> Terminate(b, Ret)
      [] s.kind = "unreachable" -> IF IsTerminated(b) THEN b ELSE Terminate(b, Trap)
      [] s.kind = "break" ->
           IF b.loops = <<>> THEN Fail(b, "validator invariant: break")
           ELSE Terminate(b, Branch(Last(b.loops).brk))
      [] s.kind = "continue" ->
           IF b.loops = <<>> THEN Fail(b, "validator invariant: continue")
           ELSE Terminate(b, Branch(Last(b.loops).cont))
      [] s.kind = "expr_stmt" -> LowerExpr(b, s.value)
      [] s.kind = "let" ->
           IF s.init = NoInit THEN b ELSE StoreTo(LowerExpr(b, s.init), b.locals[s.name])
      [] s.kind = "assign" ->
           IF s.name \in DOMAIN b.locals THEN StoreTo(LowerExpr(b, s.value), b.locals[s.name])
           ELSE Fail(b, "validator invariant: assign")
      [] s.kind = "field_set" ->
           IF s.name \in DOMAIN b.locals
             THEN Emit(LowerExpr(b, s.value), [op |-> "field", slot |-> b.locals[s.name]])
             ELSE Fail(b, "validator invariant: field_set")
      [] s.kind = "store" -> Emit(LowerExpr(LowerExpr(b, s.ptr), s.value), [op |-> "poke"])
      [] s.kind = "if" -> LowerIf(b, s)
      [] s.kind = "while" -> LowerWhile(b, s)
      [] s.kind = "do_while" -> LowerDoWhile(b, s)
      [] s.kind = "for" -> LowerFor(b, s)
      [] s.kind = "match" -> LowerMatch(b, s)
      [] OTHER -> Fail(b, "unhandled statement")

-----------------------------------------------------------------------------
\* The declared locals, in order; a name declared twice is an assertion.
RECURSIVE CollectBindings(_)
CollectBindings(stmts) ==
    FlattenSeq([i \in DOMAIN stmts |->
        LET s == stmts[i]
            own == CASE s.kind = "let" -> <<s.name>>
                     [] s.kind = "for" -> <<s.var>>
                     [] OTHER -> <<>>
            walked == IF s.kind \in {"with_arena", "c.for_general"} THEN <<>> ELSE Blocks(s)
        IN  own \o FlattenSeq([j \in DOMAIN walked |-> CollectBindings(walked[j])])])

Clash(names) ==
    \E i, j \in DOMAIN names : i < j /\ names[i] = names[j] /\ names[i] # RetVal

\* The whole function: slots first, then the statements; a void function that
\* falls through returns, and every block still open is sealed with
\* `unreachable`.
LowerFunction(fn) ==
    LET body == Desugar(fn.body)
        names == CollectBindings(body)
        b0 == [blocks |-> <<EmptyBlock>>, at |-> 1, loops |-> <<>>, err |-> "",
               locals |-> [x \in ToSet(names) |-> <<x, 1>>]]
        b1 == LowerBody(IF Clash(names) \/ ToSet(names) \cap fn.params # {}
                          THEN Fail(b0, "validator invariant: declared twice") ELSE b0, body)
        b2 == IF fn.void /\ ~IsTerminated(b1) THEN Terminate(b1, Ret) ELSE b1
        Sealed(k) == IF k.term = NoTerm THEN [k EXCEPT !.term = Trap] ELSE k
    IN  [b2 EXCEPT !.blocks = [i \in DOMAIN @ |-> Sealed(@[i])]]
=============================================================================
