--------------------------- MODULE MCFunctionBody ---------------------------
(***************************************************************************)
(* Bodies of up to three levels over one local that is declared without a  *)
(* value, arenas, a parameter and a call.                                  *)
(***************************************************************************)
EXTENDS FunctionBody

Use == ExprStmt(Call("f", <<LocalRef("x")>>))
Set == Assign("x", Lit)
Cond == Call("c", <<>>)

Upto1(S) == {<<>>} \cup {<<s>> : s \in S}
Upto2(S) == Upto1(S) \cup {<<s, t>> : s \in S, t \in S}

Leaf == {Set, Use, Break, Continue, Return}
Branch2 == {If(Cond, t, e) : t \in Upto1(Leaf), e \in Upto1(Leaf)}

\* Blocks with one branch in them.
LoopBlocks == Upto2(Leaf) \cup {<<i>> : i \in Branch2}
              \cup {<<i, s>> : i \in Branch2, s \in {Set, Use, Continue}}

CFor(b) == CStyleFor(<<Let("j", Lit)>>, Cond, <<Assign("j", LocalRef("j"))>>, b)
Loops(b) == {While(Cond, b), DoWhile(b, Call("c", <<LocalRef("x")>>)),
             For("i", Lit, Call("hi", <<>>), b), CFor(b)}

Arms(t, e) == Match(Lit, <<Arm("V", <<"p">>, t), Arm("_", <<>>, e)>>)
Shadowing(t, e) == Match(Lit, <<Arm("V", <<"x">>, t), Arm("W", <<>>, e)>>)

Void(body) == [void |-> TRUE, params |-> {"n"}, body |-> body]
Valued(body) == [void |-> FALSE, params |-> {"n"}, body |-> body]
WithX(stmts) == Void(<<Let("x", NoInit)>> \o stmts)

\* s after x is set or not, and before x is read or not.
Around(S) == UNION {{WithX(<<s, Use>>), WithX(<<Set, s, Use>>), WithX(<<s>>)} : s \in S}

LoopBodies == Around(UNION {Loops(b) : b \in LoopBlocks})

\* Loops in loops, around one statement.
NestedLoops ==
    Around(UNION {Loops(<<i, s>>) :
        i \in UNION {Loops(<<t>>) : t \in Leaf}, s \in {Set, Break, Continue}})

MatchBodies ==
    Around({Arms(t, e) : t \in Upto1(Leaf), e \in Upto1(Leaf)}
           \cup {While(Cond, <<Arms(t, e)>>) : t \in Upto1(Leaf), e \in Upto1(Leaf)})
    \cup {WithX(<<Shadowing(t, <<Set>>), Use>>) : t \in Upto1(Leaf)}
    \cup {WithX(<<Arms(<<WithArena("a", Lit, <<t>>)>>, <<Set>>), Set, Use>>) : t \in {Set, Return}}

ExprBodies ==
    {WithX(<<s, t>>) : s \in {Set, Use, FieldSet("x", Lit), If(Not(LocalRef("x")), <<Set>>, <<>>),
                              If(ShortCircuitAnd(Cond, LocalRef("x")), <<Set>>, <<Set>>),
                              If(ShortCircuitAnd(Cond, Cond), <<Set>>, <<Set>>),
                              ExprStmt(TryExpr(Cond)), Store(Cond, LocalRef("x")), Assign("n", Lit),
                              FieldSet("n", Lit), ExprStmt(LocalRef("n")),
                              DoWhile(<<Let("y", Lit)>>, Cond), DoWhile(<<Let("x", Lit)>>, Cond),
                              Unreachable},
                      t \in {Use, Set, Return, ReturnExpr(LocalRef("x")), Break}}

\* Arenas, in a loop or not, one inside another, around returns of values.
ArenaLeaf == {ExprStmt(Call("f", <<LocalRef("a")>>)), ReturnExpr(Call("g", <<LocalRef("a")>>)),
              Break, ExprStmt(TryExpr(Cond)), Unreachable}
ArenaBlocks == Upto2(ArenaLeaf) \cup {<<If(Cond, t, e)>> : t \in Upto1(ArenaLeaf), e \in Upto1(ArenaLeaf)}
                \cup {<<If(Cond, <<s>>, <<>>), t>> : s \in ArenaLeaf, t \in ArenaLeaf}
                \cup {<<Match(Lit, <<Arm("V", <<>>, <<s>>), Arm("_", <<>>, <<t>>)>>)>> :
                        s \in ArenaLeaf, t \in ArenaLeaf}
Arena(a, b) == WithArena(a, Lit, b)
ArenaBodies ==
    UNION {{Valued(<<While(Cond, <<Arena("a", b)>>), ReturnExpr(Lit)>>),
            Valued(<<Arena("a", b), ReturnExpr(Lit)>>),
            Valued(<<Arena("b", <<Arena("a", b)>>), ReturnExpr(Lit)>>),
            Valued(<<Arena("b", <<While(Cond, b \o <<Arena("a", b)>>), ReturnExpr(LocalRef("b"))>>)>>),
            Valued(<<Arena("a", b)>>)} : b \in ArenaBlocks}

MCFunctions == LoopBodies \cup NestedLoops \cup MatchBodies \cup ExprBodies \cup ArenaBodies
=============================================================================
