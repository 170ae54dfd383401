---------------------------- MODULE FunctionBody ----------------------------
(***************************************************************************)
(* The life of one function body: the C family is lowered, the body is     *)
(* validated (lower/pipeline.py), an accepted body is desugared and        *)
(* lowered to basic blocks, and the blocks run.  A run records what it     *)
(* reads, writes and calls, and the decisions its branches take.           *)
(***************************************************************************)
EXTENDS BodyValidate, BodyLower, BodySemantics

CONSTANTS
    Functions,      \* the bodies as written: [void, params, body]
    MaxDecisions    \* bound: a run is cut after so many decisions

ASSUME MaxDecisionsAssumption == MaxDecisions \in Nat

VARIABLES
    source,     \* the function as written
    fn,         \* the function as the passes have left it
    phase,      \* how far it has come
    codes,      \* the diagnostics of validate
    code,       \* the builder of the lowered function
    at, pc,     \* the block that runs and the next instruction in it
    written,    \* slots stored to
    unset,      \* names loaded from a slot never stored to
    trace,      \* the events of the run
    decisions   \* the branches it took

vars == <<source, fn, phase, codes, code, at, pc, written, unset, trace, decisions>>
compiled == <<source, fn, codes, code>>

Init ==
    /\ source \in Functions
    /\ fn = source
    /\ phase = "written"
    /\ codes = {} /\ code = [err |-> ""]
    /\ at = 1 /\ pc = 1
    /\ written = {} /\ unset = {} /\ trace = <<>> /\ decisions = <<>>

ran == <<at, pc, written, unset, trace, decisions>>

\* ingest lowers the C family before the program is saved; build refuses a body
\* that still has it.
LowerCFamily ==
    /\ phase = "written"
    /\ fn' = [fn EXCEPT !.body = LowerFamily(@)]
    /\ phase' = "core"
    /\ UNCHANGED <<source, codes, code, ran>>

\* prepare_program: any diagnostic refuses the program.
Prepare ==
    /\ phase = "core"
    /\ codes' = Validate(fn)
    /\ phase' = IF codes' = {} THEN "accepted" ELSE "refused"
    /\ UNCHANGED <<source, fn, code, ran>>

Lower ==
    /\ phase = "accepted"
    /\ code' = LowerFunction(fn)
    /\ phase' = IF code'.err = "" THEN "running" ELSE "failed"
    /\ UNCHANGED <<source, fn, codes, ran>>

-----------------------------------------------------------------------------
Block == code.blocks[at]
Instr == Block.ins[pc]
AtInstr(op) == phase = "running" /\ pc <= Len(Block.ins) /\ Instr.op = op

\* The local that carries a returned value is no event of the source.
Noting(event) == trace' = IF event[2] = RetVal THEN trace ELSE Append(trace, event)

Load ==
    /\ AtInstr("load")
    /\ Noting(<<"read", Instr.slot[1]>>)
    /\ unset' = IF Instr.slot \in written THEN unset ELSE unset \cup {Instr.slot[1]}
    /\ pc' = pc + 1
    /\ UNCHANGED <<compiled, phase, at, written, decisions>>

StoreSlot ==
    /\ AtInstr("store")
    /\ Noting(<<"write", Instr.slot[1]>>)
    /\ written' = written \cup {Instr.slot}
    /\ pc' = pc + 1
    /\ UNCHANGED <<compiled, phase, at, unset, decisions>>

\* A call, a store through a pointer, or a store to one field of a local.
Effect ==
    /\ \E op \in {"call", "poke", "field"} :
         /\ AtInstr(op)
         /\ trace' = Append(trace, CASE op = "call" -> <<"call", Instr.call>>
                                     [] op = "poke" -> <<"poke", "">>
                                     [] OTHER -> <<"field", Instr.slot[1]>>)
    /\ pc' = pc + 1
    /\ UNCHANGED <<compiled, phase, at, written, unset, decisions>>

AtEnd(op) == phase = "running" /\ pc > Len(Block.ins) /\ Block.term.op = op

Jump ==
    /\ AtEnd("br") /\ Len(Block.term.to) = 1
    /\ at' = Block.term.to[1] /\ pc' = 1
    /\ UNCHANGED <<compiled, phase, written, unset, trace, decisions>>

TakeBranch ==
    /\ AtEnd("br") /\ Len(Block.term.to) > 1
    /\ Len(decisions) < MaxDecisions
    /\ \E d \in DOMAIN Block.term.to :
         /\ at' = Block.term.to[d] /\ pc' = 1
         /\ decisions' = Append(decisions, d)
    /\ UNCHANGED <<compiled, phase, written, unset, trace>>

\* The bound on decisions ends the run.
CutRun ==
    /\ AtEnd("br") /\ Len(Block.term.to) > 1
    /\ Len(decisions) = MaxDecisions
    /\ phase' = "cut"
    /\ UNCHANGED <<compiled, ran>>

Finish ==
    /\ \E op \in {"ret", "unreachable"} :
         AtEnd(op) /\ phase' = IF op = "ret" THEN "ret" ELSE "trap"
    /\ UNCHANGED <<compiled, ran>>

Next ==
    \/ LowerCFamily \/ Prepare \/ Lower
    \/ Load \/ StoreSlot \/ Effect
    \/ Jump \/ TakeBranch \/ CutRun \/ Finish

Spec == Init /\ [][Next]_vars

-----------------------------------------------------------------------------
(* Shapes of bodies that the properties name.                              *)

RECURSIVE SubStmts(_)
SubStmts(stmts) ==
    ToSet(stmts) \cup UNION {SubStmts(b) : b \in UNION {ToSet(Blocks(s)) : s \in ToSet(stmts)}}

\* The breaks and continues of a block that leave it.
RECURSIVE Escapes(_)
Escapes(stmts) ==
    {s \in ToSet(stmts) : s.kind \in {"break", "continue"}}
    \cup UNION {Escapes(b) : b \in UNION {ToSet(Blocks(s)) :
                 s \in {t \in ToSet(stmts) : t.kind \in {"if", "match", "with_arena"}}}}

RECURSIVE SubExprs(_)
SubExprs(e) ==
    {e} \cup CASE e.kind = "call" -> UNION {SubExprs(a) : a \in ToSet(e.args)}
               [] e.kind = "not" -> SubExprs(e.operand)
               [] e.kind = "and" -> SubExprs(e.lhs) \cup SubExprs(e.rhs)
               [] e.kind = "try" -> SubExprs(e.value)
               [] OTHER -> {}
AllExprs(stmts) == UNION {SubExprs(e) : e \in UNION {Exprs(s) : s \in SubStmts(stmts)}}

\* Some statement follows one that cannot fall through.
DeadCode(stmts) ==
    \E block \in {stmts} \cup UNION {ToSet(Blocks(s)) : s \in SubStmts(stmts)} :
        \E i \in 1..(Len(block) - 1) : BodyAlwaysTerminates(SubSeq(block, 1, i))

Kinds(k) == {s \in SubStmts(fn.body) : s.kind = k}
Declares(stmts) == {s.name : s \in {t \in SubStmts(stmts) : t.kind = "let"}}
ArmBlocks == UNION {ToSet(Blocks(s)) : s \in Kinds("match")}

-----------------------------------------------------------------------------
(* Properties.                                                             *)

\* What a do-while defines is taken from the path that falls through its body,
\* a read under Not is not looked at, and the binding of an arm counts as a
\* write of a local of its name.
InitGap ==
    \/ \E s \in Kinds("do_while") : Escapes(s.body) # {}
    \/ \E e \in AllExprs(fn.body) : e.kind = "not" /\ e.operand # Lit
    \/ \E s \in Kinds("match") :
         \E arm \in ToSet(s.arms) : ToSet(arm.bindings) \cap Declares(fn.body) # {}

\* An accepted body never loads a local no path has written (validate.py,
\* lower/stmt.py: "the validator ensures no read happens before that"),
\* unless it has one of the shapes above.
NoUninitialisedRead == unset # {} => InitGap

\* An arena left by break, continue or `?` is not dropped by the code.
ArenaGap ==
    \E s \in Kinds("with_arena") :
        Escapes(s.body) # {} \/ \E e \in AllExprs(s.body) : e.kind = "try"

\* A function that owes a value may fall off its end.  lower/function.py:113-115
\* counts on an error of LLVM's verifier, the sweep after it seals the block: what
\* becomes of such a body, and of a run that gets there, is left open below.
OwesValue == ~source.void /\ ~BodyAlwaysTerminates(source.body)

\* The run of the blocks is the run of the source under the same decisions:
\* the same reads, writes and calls in the same order, arenas dropped on every
\* exit, increments run, returned values read before the drops, and the same
\* end, unless it falls off the end of a function that owes a value.
RunsAsWritten ==
    phase \in {"ret", "trap", "cut"} /\ ~ArenaGap =>
        LET m == Meaning(source, decisions)
        IN  /\ trace = m.trace
            /\ \/ phase = IF m.status = "on" THEN "ret" ELSE m.status
               \/ m.status = "on" /\ OwesValue

\* prepare_program is the gate of correctness (lower/pipeline.py): what it
\* accepts lowers, except for code after a terminator, break and continue in
\* an arm, an arena in an arm, a C for in a do-while, a local declared again in
\* a do-while, a parameter named as a local, and a value that is owed.
AcceptedBodiesLower ==
    phase = "failed" =>
        \/ DeadCode(Desugar(fn.body))
        \/ OwesValue
        \/ \E b \in ArmBlocks : Escapes(b) # {} \/ \E s \in SubStmts(b) : s.kind = "with_arena"
        \/ \E s \in Kinds("do_while") :
             \/ Declares(s.body) # {}
             \/ \E t \in SubStmts(s.body) : t.kind = "c.for_general"
        \/ \E s \in Kinds("assign") \cup Kinds("field_set") : s.name \in fn.params
        \/ \E e \in AllExprs(fn.body) : e.kind = "ref" /\ e.name \in fn.params

\* The must-initialise analysis is as precise as its joins: a body refused for
\* an uninitialised read has a run that makes one, unless it has an arena
\* (whose writes are forgotten), a do-while whose body cannot fall through, or
\* code after a terminator.
RefusalsHaveARun ==
    phase = "refused" /\ codes = {"READ_OF_UNINIT_LOCAL"} =>
        \/ \E ds \in [1..MaxDecisions -> 1..2] : Meaning(source, ds).unset # {}
        \/ Kinds("with_arena") # {}
        \/ DeadCode(fn.body)
        \/ \E s \in Kinds("do_while") : BodyAlwaysTerminates(s.body)
=============================================================================
