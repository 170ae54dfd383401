--------------------------- MODULE BodySemantics ----------------------------
(***************************************************************************)
(* What a body means, independently of the passes that compile it: the     *)
(* trace of its reads, writes and calls under a given sequence of          *)
(* decisions.  The k-th condition, match or `?` that is reached takes the  *)
(* k-th decision; a run stops (status "cut") when none is left.  An arena  *)
(* is dropped on every exit edge of its body, `continue` of a C for runs   *)
(* the increment, and the bounds of a for are evaluated once.              *)
(***************************************************************************)
EXTENDS Statements, SequencesExt

\* trace: events so far.  left: decisions not yet used.  set: names written.
\* unset: names read before any write.  status: how control stands.
Start(params, decisions) ==
    [trace |-> <<>>, left |-> decisions, set |-> params, unset |-> {}, status |-> "on"]

Log(st, event) == [st EXCEPT !.trace = Append(@, event)]
Reads(st, x) ==
    LET st1 == Log(st, <<"read", x>>)
    IN  IF x \in st.set THEN st1 ELSE [st1 EXCEPT !.unset = @ \cup {x}]
Writes(st, x) == [Log(st, <<"write", x>>) EXCEPT !.set = @ \cup {x}]
Ends(st, how) == [st EXCEPT !.status = how]

\* Then(1) and Then(2) follow the two outcomes of a decision.
Decide(st, Then(_, _)) ==
    CASE st.status # "on" -> st
      [] st.left = <<>> -> Ends(st, "cut")
      [] OTHER -> Then([st EXCEPT !.left = Tail(@)], Head(st.left))

RECURSIVE Evaluate(_, _)
Evaluate(st, e) ==
    CASE st.status # "on" -> st
      [] e.kind = "ref" -> Reads(st, e.name)
      [] e.kind = "call" ->
           LET st1 == FoldLeft(Evaluate, st, e.args)
           IN  IF st1.status = "on" THEN Log(st1, <<"call", e>>) ELSE st1
      [] e.kind = "not" -> Evaluate(st, e.operand)
      [] e.kind = "and" ->
           Decide(Evaluate(st, e.lhs), LAMBDA st1, d : IF d = 1 THEN Evaluate(st1, e.rhs) ELSE st1)
      [] e.kind = "try" ->
           Decide(Evaluate(st, e.value), LAMBDA st1, d : IF d = 1 THEN Ends(st1, "ret") ELSE st1)
      [] OTHER -> st

\* F applied only where control still flows.
When(st, F(_)) == IF st.status = "on" THEN F(st) ELSE st

RECURSIVE Run(_, _)
RECURSIVE RunStmt(_, _)
RECURSIVE Iterate(_, _)
Run(st, stmts) == FoldLeft(LAMBDA st1, s : IF st1.status = "on" THEN RunStmt(st1, s) ELSE st1, st, stmts)

\* What a loop evaluates to decide whether to go on, and what ends an
\* iteration that falls through or continues.
Test(st, s) ==
    CASE s.kind = "for" -> Reads(st, s.var)
      [] s.cond = NoInit -> st
      [] OTHER -> Evaluate(st, s.cond)
Step(st, s) ==
    CASE s.kind = "for" -> Writes(Reads(st, s.var), s.var)
      [] s.kind = "c.for_general" -> Run(st, s.inc)
      [] OTHER -> st

\* The end of an iteration: `continue` resumes, `break` leaves the loop.
Iteration(st, s) ==
    LET st1 == Run(st, s.body)
    IN  IF st1.status = "cont" THEN Ends(st1, "on") ELSE st1

\* A loop from its test on.
Iterate(st, s) ==
    Decide(Test(st, s), LAMBDA st1, d :
        LET st2 == Iteration(st1, s)
        IN  CASE d = 2 -> st1
              [] st2.status = "brk" -> Ends(st2, "on")
              [] OTHER -> When(st2, LAMBDA st3 : Iterate(Step(st3, s), s)))

RunStmt(st, s) ==
    CASE s.kind = "return_expr" -> When(Evaluate(st, s.value), LAMBDA st1 : Ends(st1, "ret"))
      [] s.kind = "return" -> Ends(st, "ret")
      [] s.kind = "unreachable" -> Ends(st, "trap")
      [] s.kind = "break" -> Ends(st, "brk")
      [] s.kind = "continue" -> Ends(st, "cont")
      [] s.kind = "expr_stmt" -> Evaluate(st, s.value)
      [] s.kind = "let" ->
           IF s.init = NoInit THEN [st EXCEPT !.set = @ \ {s.name}]
           ELSE When(Evaluate(st, s.init), LAMBDA st1 : Writes(st1, s.name))
      [] s.kind = "assign" -> When(Evaluate(st, s.value), LAMBDA st1 : Writes(st1, s.name))
      [] s.kind = "field_set" -> When(Evaluate(st, s.value), LAMBDA st1 : Log(st1, <<"field", s.name>>))
      [] s.kind = "store" ->
           When(Evaluate(Evaluate(st, s.ptr), s.value), LAMBDA st1 : Log(st1, <<"poke", "">>))
      [] s.kind = "if" ->
           Decide(Evaluate(st, s.cond), LAMBDA st1, d : Run(st1, IF d = 1 THEN s.then ELSE s.else))
      [] s.kind = "while" -> Iterate(st, s)
      [] s.kind = "do_while" ->
           LET st1 == Iteration(st, s)
           IN  IF st1.status = "brk" THEN Ends(st1, "on")
               ELSE When(st1, LAMBDA st2 : Decide(Test(st2, s), LAMBDA st3, d :
                                IF d = 1 THEN RunStmt(st3, s) ELSE st3))
      [] s.kind = "for" ->
           When(Evaluate(Evaluate(st, s.lo), s.hi), LAMBDA st1 : Iterate(Writes(st1, s.var), s))
      [] s.kind = "match" ->
           Decide(Evaluate(st, s.scrutinee), LAMBDA st1, d :
                LET arm == s.arms[d]
                    bound == ToSet(arm.bindings)
                    st2 == Run(FoldLeft(Writes, st1, arm.bindings), arm.body)
                IN  [st2 EXCEPT !.set = (@ \ bound) \cup (st1.set \cap bound)])
      [] s.kind = "with_arena" ->
           When(Evaluate(st, s.capacity), LAMBDA st1 :
                LET new == Call("mem.arena.new", <<s.capacity>>)
                    drop == Call("mem.arena.drop", <<LocalRef(s.name)>>)
                    st2 == Run(Writes(Log(st1, <<"call", new>>), s.name), s.body)
                IN  IF st2.status \in {"cut", "trap"} THEN st2
                    ELSE Log(Log(st2, <<"read", s.name>>), <<"call", drop>>))
      [] s.kind = "c.for_general" ->
           When(Run(st, s.init), LAMBDA st1 : Iterate(st1, s))

Meaning(fn, decisions) == Run(Start(fn.params, decisions), fn.body)
=============================================================================
