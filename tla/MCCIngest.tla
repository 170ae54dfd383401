----------------------------- MODULE MCCIngest ------------------------------
EXTENDS CIngest

MCStructs == [pt |-> <<[name |-> "a", type |-> CInt], [name |-> "b", type |-> CUChar]>>]
MCPrototypes ==
    [f |-> [params |-> <<>>, result |-> CInt], g |-> [params |-> <<CInt>>, result |-> CInt],
     h |-> [params |-> <<CLong, CUInt>>, result |-> CVoid],
     put |-> [params |-> <<Pointer(CChar)>>, result |-> CInt],
     fesetround |-> [params |-> <<CInt>>, result |-> CInt]]

I(x) == Var(x, CInt)
L(n) == Num(CInt, n)
Lv(x) == Name(x, CInt)
CallF == CallTo("f", <<>>)
CallG(e) == CallTo("g", <<e>>)
Fn(params, t, body) == CFunction("fn", params, t, body)
X == Param("x", CInt)
Y == Param("y", CInt)
PInt == Pointer(CInt)
PP == Param("p", PInt)
PC == Param("p", Pointer(CChar))
PS == Param("p", Pointer(Struct("pt")))
P(t) == Var("p", t)

\* Expressions.
ExprBodies == {
    Fn(<<X, Y>>, CInt, <<Ret(CInt, Ternary(Op("<", I("x"), I("y")), I("x"), L(1)))>>),
    Fn(<<X, Y>>, CInt, <<Ret(CInt, Ternary(I("x"), CallG(I("y")), CallF))>>),
    Fn(<<X, Y>>, CInt, <<Ret(CInt, Op("<", I("x"), I("y")))>>),
    Fn(<<X, Y>>, CInt, <<Ret(CInt, Op("&&", Op("<", I("x"), I("y")), Op("!=", CallG(I("x")), L(0))))>>),
    Fn(<<X, Y>>, CInt, <<Ret(CInt, Op("||", Op(">", I("x"), I("y")), Op("==", CallG(I("y")), L(0))))>>),
    Fn(<<X>>, CInt, <<Ret(CInt, LNot(I("x")))>>),
    Fn(<<X>>, CInt, <<CIf(LNot(I("x")), <<Ret(CInt, Neg(L(1)))>>, <<>>), Ret(CInt, Neg(I("x")))>>),
    Fn(<<X>>, CInt, <<Ret(CInt, Flip(I("x")))>>),
    Fn(<<Param("x", CUChar)>>, CInt, <<Ret(CInt, Neg(Var("x", CUChar)))>>),
    Fn(<<Param("x", CLong)>>, CInt, <<Ret(CInt, CastTo(CUChar, Var("x", CLong)))>>),
    Fn(<<Param("x", CLong)>>, CLong, <<Ret(CLong, CastTo(CInt, Op("+", Var("x", CLong), L(1))))>>),
    Fn(<<X>>, CUInt, <<Ret(CUInt, Op("-", I("x"), EnumConst(2)))>>),
    Fn(<<Param("x", CUInt)>>, CLong, <<Ret(CLong, Var("x", CUInt))>>),
    Fn(<<Param("x", CUInt)>>, CInt, <<Ret(CInt, CastTo(CInt, Op("+", CastTo(CDouble, Var("x", CUInt)), FNum(1))))>>),
    Fn(<<X>>, CInt, <<Ret(CInt, CastTo(CInt, Neg(CastTo(CDouble, I("x")))))>>),
    Fn(<<>>, CInt, <<Ret(CInt, CallTo("put", <<Text(-1)>>))>>),
    Fn(<<>>, CInt, <<Do(CallTo("put", <<Text(-1)>>)), Ret(CInt, CallTo("put", <<Text(-2)>>))>>),
    Fn(<<X>>, CVoid, <<Do(CallTo("h", <<I("x"), I("x")>>))>>),
    Fn(<<X>>, CInt, <<Ret(CInt, CallTo("fesetround", <<I("x")>>))>>)}

\* Memory.
MemBodies == {
    Fn(<<PP>>, CInt, <<Ret(CInt, Deref(P(PInt)))>>),
    Fn(<<PP, X>>, CInt, <<Ret(CInt, Sub(P(PInt), I("x")))>>),
    Fn(<<PP>>, CInt, <<Ret(CInt, Deref(Op("+", P(PInt), L(1))))>>),
    Fn(<<PP, X>>, CInt, <<Ret(CInt, Deref(Op("+", I("x"), P(PInt))))>>),
    Fn(<<PP, X>>, CVoid, <<Set(Sub(P(PInt), L(1)), I("x"))>>),
    Fn(<<PP, X>>, CVoid, <<Set(Deref(AddrOf(Sub(P(PInt), I("x")))), L(2))>>),
    Fn(<<PP, Param("x", CUInt)>>, CInt, <<Ret(CInt, Sub(P(PInt), Var("x", CUInt)))>>),
    Fn(<<PC, X>>, CInt, <<Ret(CInt, Sub(P(Pointer(CChar)), I("x")))>>),
    Fn(<<PC, X>>, CVoid, <<Set(Deref(P(Pointer(CChar))), I("x"))>>),
    Fn(<<PS, X>>, CInt, <<Set(Arrow(P(Pointer(Struct("pt"))), "b"), I("x")),
                          Ret(CInt, Op("+", Arrow(P(Pointer(Struct("pt"))), "a"), Arrow(P(Pointer(Struct("pt"))), "b")))>>),
    Fn(<<X>>, CInt, <<Decl("s", Struct("pt"), InitList("pt", <<I("x"), L(1)>>)),
                      Ret(CInt, Op("+", Dot(Var("s", Struct("pt")), "a"), Dot(Var("s", Struct("pt")), "b")))>>),
    Fn(<<X>>, CInt, <<Decl("s", Struct("pt"), InitList("pt", <<I("x")>>)), Ret(CInt, Dot(Var("s", Struct("pt")), "a"))>>),
    Fn(<<PP>>, CInt, <<Decl("q", PInt, Op("+", P(PInt), L(1))), Ret(CInt, Deref(Var("q", PInt)))>>)}

\* Statements.
For3(body) == CFor(Decl("i", CInt, L(0)), Op("<", I("i"), L(3)), Inc(Lv("i")), body)
StmtBodies == {
    Fn(<<X, Y>>, CInt, <<Decl("z", CInt, I("x")), Update("-", Lv("z"), I("y")), Inc(Lv("z")), Ret(CInt, I("z"))>>),
    Fn(<<Param("x", CUInt)>>, CUInt, <<Decl("z", CUInt, Var("x", CUInt)), Update("/", Name("z", CUInt), L(2)), Ret(CUInt, Var("z", CUInt))>>),
    Fn(<<Param("x", CUInt)>>, CUInt, <<Decl("z", CUInt, Var("x", CUInt)), Update("+", Name("z", CUInt), L(2)), Ret(CUInt, Var("z", CUInt))>>),
    Fn(<<X>>, CInt, <<Decls(<<Declarator("a", CInt, I("x")), Declarator("b", CInt, L(2))>>), Ret(CInt, Op("*", I("a"), I("b")))>>),
    Fn(<<X>>, CInt, <<Decl("z", CInt, None), CIf(Op(">", I("x"), L(0)), <<Set(Lv("z"), L(1))>>, <<Set(Lv("z"), L(2))>>), Ret(CInt, I("z"))>>),
    Fn(<<X>>, CInt, <<Decl("z", CInt, L(0)), CWhile(Op("<", I("z"), I("x")), <<Inc(Lv("z")), Do(CallG(I("z")))>>), Ret(CInt, I("z"))>>),
    Fn(<<X>>, CInt, <<Decl("z", CInt, L(0)), CDo(<<Inc(Lv("z")), CIf(Op("==", I("z"), I("x")), <<CBreak>>, <<>>)>>, Op("<", I("z"), L(3))), Ret(CInt, I("z"))>>),
    Fn(<<X>>, CVoid, <<For3(<<CIf(Op("==", I("i"), I("x")), <<CContinue>>, <<>>), Do(CallG(I("i")))>>)>>),
    Fn(<<X>>, CVoid, <<For3(<<CIf(Op("==", I("i"), I("x")), <<RetVoid>>, <<CIf(Op(">", I("i"), I("x")), <<CBreak>>, <<>>)>>), Do(CallG(I("i")))>>), Do(CallF)>>),
    Fn(<<X>>, CInt, <<CFor(Decl("i", CInt, L(0)), Op("<", I("i"), L(2)), Update("+", Lv("i"), L(2)), <<Do(CallG(I("i")))>>), Ret(CInt, L(0))>>),
    Fn(<<X>>, CInt, <<Switch(I("x"), <<Case(L(1), Case(L(2), Do(CallF))), CBreak, Case(L(3), Ret(CInt, L(3))), Default(Do(CallG(L(1)))), Do(CallF), CBreak>>), Ret(CInt, L(0))>>),
    Fn(<<X>>, CInt, <<Switch(I("x"), <<Case(L(1), Do(CallF)), Case(L(2), Do(CallG(L(2)))), CBreak>>), Ret(CInt, L(0))>>),
    Fn(<<X>>, CInt, <<Switch(I("x"), <<Default(Do(CallF)), CBreak, Case(L(2), Do(CallG(L(2)))), CBreak>>), Ret(CInt, L(0))>>),
    Fn(<<X>>, CInt, <<Switch(I("x"), <<Default(Do(CallF)), Do(CallG(L(2))), CBreak>>), Ret(CInt, L(0))>>),
    Fn(<<Param("x", CUChar)>>, CInt, <<Switch(Var("x", CUChar), <<Case(L(1), Do(CallF)), CBreak>>), Ret(CInt, L(0))>>),
    Fn(<<X>>, CInt, <<Decl("z", CInt, L(0)), CDo(<<For3(<<Inc(Lv("z"))>>)>>, Op("<", I("z"), L(2))), Ret(CInt, I("z"))>>),
    Fn(<<X>>, CInt, <<CIf(Op("<", I("x"), L(0)), <<Ret(CInt, L(1))>>, <<>>)>>),
    CFunction("main", <<>>, CInt, <<Do(CallF)>>),
    Fn(<<X>>, CInt, <<CIf(I("x"), <<Ret(CInt, L(1))>>, <<>>), Ret(CInt, L(0))>>)}

-----------------------------------------------------------------------------
(* Projects.                                                               *)

Single(fn) == <<File("a.c", "a", <<Version(<<fn>>, <<-1, -2>>)>>)>>
Singles == {Single(fn) : fn \in ExprBodies \cup MemBodies \cup StmtBodies}

\* One file, whose function is one of several.
Family(fns) == <<File("a.c", "a", [i \in DOMAIN fns |-> Version(<<fns[i]>>, <<-1, -2>>)])>>
OpFamily(t, ops) == [i \in DOMAIN ops |->
    Fn(<<Param("x", t), Param("y", t)>>, t, <<Ret(t, Op(ops[i], Var("x", t), Var("y", t)))>>)]
OpFamilies == {OpFamily(t, ops) : t \in {CInt, CUInt}, ops \in {<<"+", "-", "/", ">>">>, <<"|", "<<", "*">>}}
CastFamily == <<
    Fn(<<Param("x", CLong)>>, CInt, <<Ret(CInt, CastTo(CUChar, Var("x", CLong)))>>),
    Fn(<<Param("x", CLong)>>, CInt, <<Ret(CInt, CastTo(CInt, Var("x", CLong)))>>),
    Fn(<<Param("x", CLong)>>, CInt, <<Ret(CInt, CastTo(CChar, Var("x", CLong)))>>),
    Fn(<<Param("x", CLong)>>, CInt, <<Ret(CInt, Var("x", CLong))>>)>>
MemFamily == <<
    Fn(<<PP, X>>, CInt, <<Ret(CInt, Sub(P(PInt), I("x")))>>),
    Fn(<<PP, X>>, CInt, <<Ret(CInt, Deref(Op("+", P(PInt), I("x"))))>>),
    Fn(<<PP, X>>, CInt, <<Ret(CInt, Sub(P(PInt), L(1)))>>),
    Fn(<<PP, X>>, CInt, <<Ret(CInt, Sub(P(PInt), L(2)))>>),
    Fn(<<PP, X>>, CInt, <<Ret(CInt, Deref(P(PInt)))>>)>>
CallFamily == <<
    Fn(<<X, Y>>, CInt, <<Ret(CInt, Ternary(Op("<", I("x"), I("y")), CallG(I("x")), CallF))>>),
    Fn(<<X, Y>>, CInt, <<Ret(CInt, Ternary(Op("<", I("x"), I("y")), CallF, CallG(I("x"))))>>),
    Fn(<<X, Y>>, CInt, <<Ret(CInt, Ternary(Op("<=", I("x"), I("y")), CallG(I("x")), CallF))>>),
    Fn(<<X, Y>>, CInt, <<Ret(CInt, Ternary(Op("<", I("y"), I("x")), CallG(I("y")), CallF))>>),
    Fn(<<X, Y>>, CInt, <<Ret(CInt, Ternary(I("x"), CallG(I("x")), CallF))>>)>>
LoopOf(kind, cond, body) ==
    Fn(<<X>>, CInt, <<Decl("z", CInt, L(0)), IF kind = "while" THEN CWhile(cond, body) ELSE CDo(body, cond), Ret(CInt, I("z"))>>)
LoopFamily == <<
    LoopOf("while", Op("<", I("z"), I("x")), <<Inc(Lv("z")), Do(CallG(I("z")))>>),
    LoopOf("while", Op("<", I("z"), I("x")), <<Do(CallG(I("z"))), Inc(Lv("z"))>>),
    LoopOf("do", Op("<", I("z"), I("x")), <<Inc(Lv("z")), Do(CallG(I("z")))>>),
    LoopOf("while", Op("<", I("z"), I("x")), <<Update("+", Lv("z"), L(2)), Do(CallG(I("z")))>>),
    LoopOf("while", Op("<", I("z"), I("x")), <<Inc(Lv("z")), CBreak>>)>>
SwitchOf(items) == Fn(<<X>>, CInt, <<Switch(I("x"), items), Ret(CInt, L(0))>>)
SwitchFamily == <<
    SwitchOf(<<Case(L(1), Do(CallF)), CBreak, Case(L(2), Ret(CInt, L(3))), Default(Do(CallG(L(1)))), CBreak>>),
    SwitchOf(<<Case(L(1), Do(CallF)), CBreak, Case(L(3), Ret(CInt, L(3))), Default(Do(CallG(L(1)))), CBreak>>),
    SwitchOf(<<Case(L(1), Case(L(2), Do(CallF))), CBreak, Default(Do(CallG(L(1)))), CBreak>>),
    SwitchOf(<<Case(L(1), Do(CallF)), CBreak, Default(Ret(CInt, L(3)))>>)>>
StructFamily == <<
    Fn(<<PS>>, CInt, <<Ret(CInt, Arrow(P(Pointer(Struct("pt"))), "a"))>>),
    Fn(<<PS>>, CInt, <<Ret(CInt, Arrow(P(Pointer(Struct("pt"))), "b"))>>),
    Fn(<<PS>>, CInt, <<Set(Arrow(P(Pointer(Struct("pt"))), "a"), L(2)), Ret(CInt, Arrow(P(Pointer(Struct("pt"))), "a"))>>)>>

Families == {Family(f) : f \in OpFamilies \cup {CastFamily, MemFamily, CallFamily, LoopFamily,
                                SwitchFamily, StructFamily}}

\* Files of several functions.
Says(f, texts) == CFunction(f, <<>>, CInt,
    [i \in DOMAIN texts |-> Do(CallTo("put", <<Text(texts[i])>>))] \o <<Ret(CInt, L(0))>>)
Bound(f, t) == CFunction(f, <<Param("x", t)>>, CInt,
    <<Ret(CInt, IF t.kind = "POINTER" THEN Deref(Var("x", t)) ELSE Var("x", t))>>)
NoLayerA == CFunction("odd", <<X>>, CInt,
    <<Decl("z", CInt, L(0)), CFor(None, Op("<", I("z"), I("x")), Update("+", Lv("z"), L(2)), <<Do(CallF)>>), Ret(CInt, I("z"))>>)

Greetings == File("a.c", "a", <<
    Version(<<Says("hi", <<-1>>), Says("bye", <<-2, -1>>)>>, <<-1, -2>>),
    Version(<<Says("hi", <<-2>>), Says("bye", <<-1, -2>>)>>, <<-2, -1>>)>>)
Bounds == File("b.c", "b", <<
    Version(<<Bound("f", CInt), Says("who", <<-2>>)>>, <<-2>>),
    Version(<<Bound("f", CUInt), Says("who", <<-2>>)>>, <<-2>>),
    Version(<<Bound("f", PInt), Says("who", <<-2>>)>>, <<-2>>)>>)
ShortBounds == [Bounds EXCEPT !.versions = <<@[1], @[3]>>]
Partial == File("e.c", "e", <<
    Version(<<Bound("f", CInt), Says("who", <<-2>>)>>, <<-2>>),
    Version(<<Says("who", <<-2>>), Bound("f", CInt), NoLayerA>>, <<-2>>),
    Version(<<Bound("f", CUInt), Says("who", <<-2>>), NoLayerA>>, <<-2>>)>>)
\* A name of another file, as of two static functions.
Clashing == File("c.c", "c", <<Version(<<Bound("f", CInt), Says("other", <<-1>>)>>, <<-1>>),
                               Version(<<Bound("f", CUChar), Says("other", <<-1>>)>>, <<-1>>)>>)
Refused == File("d.c", "d", <<Version(<<Fn(<<X>>, CInt, <<Switch(I("x"), <<Case(L(1), Do(CallF)), Case(L(2), Do(CallF)), CBreak>>), Ret(CInt, L(0))>>)>>, <<>>),
                              Version(<<Fn(<<X>>, CInt, <<Ret(CInt, CallF)>>)>>, <<>>)>>)

MCProjects == Singles \cup Families \cup {<<Greetings, ShortBounds>>, <<Refused, Bounds>>, <<ShortBounds, Clashing>>, <<Partial>>}

\* Two files of one name.
SameStem == <<File("u.c", "u", <<Version(<<Says("hi", <<-1>>)>>, <<-1>>)>>), File("u.c", "u", <<Version(<<Says("bye", <<-2>>)>>, <<-2>>)>>)>>
MCSameStem == {SameStem}
MCFallback == {<<Partial>>}
=============================================================================
