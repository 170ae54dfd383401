---------------------------- MODULE BodyRewrite -----------------------------
(***************************************************************************)
(* The two source-to-source passes over a body.  LowerFamily turns the     *)
(* C layer's for into init and a while (lower/c_family.py).  Desugar turns *)
(* with_arena into a let, the body and calls that drop the arena           *)
(* (lower/desugar.py); it runs inside lower, after validation.  Neither    *)
(* looks everywhere: where a pass does not recurse, neither does its       *)
(* definition here.                                                        *)
(***************************************************************************)
EXTENDS Statements, SequencesExt

\* s with every block b directly inside it replaced by F(b).
LOCAL InBlocks(s, F(_)) ==
    CASE s.kind = "if" -> [s EXCEPT !.then = F(@), !.else = F(@)]
      [] s.kind = "match" -> [s EXCEPT !.arms = [i \in DOMAIN @ |-> [@[i] EXCEPT !.body = F(@)]]]
      [] s.kind \in {"while", "do_while", "for", "with_arena"} -> [s EXCEPT !.body = F(@)]
      [] OTHER -> s

-----------------------------------------------------------------------------
(* The C family.                                                           *)

\* `continue` of the rewritten loop runs the increment first.  Nested loops
\* have their own target; only the branches of an if are searched.
RECURSIVE RewriteContinue(_, _)
RewriteContinue(stmts, inc) ==
    FlattenSeq([i \in DOMAIN stmts |->
        CASE stmts[i].kind = "continue" -> inc \o <<stmts[i]>>
          [] stmts[i].kind = "if" -> <<InBlocks(stmts[i], LAMBDA b : RewriteContinue(b, inc))>>
          [] OTHER -> <<stmts[i]>>])

\* The statements that replace one statement; a do-while is passed through
\* with whatever its body holds.
RECURSIVE LowerFamily(_)
LowerFamilyStmt(s) ==
    CASE s.kind = "c.for_general" ->
           LET body == RewriteContinue(LowerFamily(s.body), s.inc) \o s.inc
               cond == IF s.cond = NoInit THEN Lit ELSE s.cond
           IN  s.init \o <<While(cond, body)>>
      [] s.kind = "do_while" -> <<s>>
      [] OTHER -> <<InBlocks(s, LowerFamily)>>

LowerFamily(stmts) == FlattenSeq([i \in DOMAIN stmts |-> LowerFamilyStmt(stmts[i])])

-----------------------------------------------------------------------------
(* Arenas.                                                                 *)

ArenaNew(capacity) == Call("mem.arena.new", <<capacity>>)
ArenaDrop(a) == ExprStmt(Call("mem.arena.drop", <<LocalRef(a)>>))

\* The local that carries a returned value across a drop.  The code numbers
\* one for each return; each is written just before it is read, so one name
\* does for all.
RetVal == "__arena_retval"

RECURSIVE PrependDrop(_, _)
\* Mutant: the value is evaluated after the drop.
PrependDropOnly(stmts, a) ==
    FlattenSeq([i \in DOMAIN stmts |->
        IF stmts[i].kind \in {"return_expr", "return"} THEN <<ArenaDrop(a), stmts[i]>>
        ELSE <<InBlocks(stmts[i], LAMBDA b : PrependDrop(b, a))>>])

PrependDrop(stmts, a) ==
    FlattenSeq([i \in DOMAIN stmts |->
        CASE stmts[i].kind = "return_expr" ->
               <<Let(RetVal, stmts[i].value), ArenaDrop(a), ReturnExpr(LocalRef(RetVal))>>
          [] stmts[i].kind = "return" -> <<ArenaDrop(a), stmts[i]>>
          [] OTHER -> <<InBlocks(stmts[i], LAMBDA b : PrependDrop(b, a))>>])

\* Arms of a match are not searched for arenas.  What follows an arena whose
\* body always terminates is cut off.
RECURSIVE DesugarStmts(_)
DesugarStmts(stmts) ==
    IF stmts = <<>> THEN <<>>
    ELSE LET s == Head(stmts)
             inner == PrependDrop(DesugarStmts(s.body), s.name)
         IN  CASE s.kind = "with_arena" ->
                    <<Let(s.name, ArenaNew(s.capacity))>> \o inner
                    \o (IF BodyAlwaysTerminates(inner) THEN <<>>
                        ELSE <<ArenaDrop(s.name)>> \o DesugarStmts(Tail(stmts)))
               [] s.kind \in {"if", "while", "do_while", "for"} ->
                    <<InBlocks(s, DesugarStmts)>> \o DesugarStmts(Tail(stmts))
               [] OTHER -> <<s>> \o DesugarStmts(Tail(stmts))

RECURSIVE ContainsWithArena(_)
ContainsWithArena(stmts) ==
    \E i \in DOMAIN stmts :
        \/ stmts[i].kind = "with_arena"
        \/ /\ stmts[i].kind \in {"if", "while", "do_while", "for"}
           /\ \E j \in DOMAIN Blocks(stmts[i]) : ContainsWithArena(Blocks(stmts[i])[j])

Desugar(stmts) == IF ContainsWithArena(stmts) THEN DesugarStmts(stmts) ELSE stmts
=============================================================================
