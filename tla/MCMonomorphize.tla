--------------------------- MODULE MCMonomorphize ---------------------------
(***************************************************************************)
(* Small programs for Monomorphize: one library of generic definitions,    *)
(* and a choice of implementations and of the mentions in main.  What an   *)
(* instance mentions is said without the pass, which is held against it.   *)
(***************************************************************************)
EXTENDS Monomorphize

MCToken == STRING

-----------------------------------------------------------------------------
(* What naming, substitution and search do in type arguments: the same as  *)
(* TypeName, SubstituteType and InstancesIn, for each argument.            *)

RECURSIVE NestedNames(_)
NestedNames(args) ==
    FoldLeft(LAMBDA acc, a :
                 (IF acc = <<>> THEN <<>> ELSE Append(acc, ",")) \o a.name
                 \o (IF a.args = <<>> THEN <<>> ELSE <<"<">> \o NestedNames(a.args) \o <<">">>),
             <<>>, args)

RECURSIVE NestedSubstitution(_, _)
NestedSubstitution(args, sub) ==
    [i \in DOMAIN args |->
        IF args[i].kind = "param" THEN sub[args[i].name[1]]
        ELSE [args[i] EXCEPT !.args = NestedSubstitution(@, sub)]]

RECURSIVE NestedInstances(_)
NestedInstances(args) ==
    UNION {(IF Applied(a) THEN {<<a.name, a.args>>} ELSE {}) \cup NestedInstances(a.args) : a \in Range(args)}

-----------------------------------------------------------------------------

CONSTANT MaxMentions   \* the mentions main makes at most

-----------------------------------------------------------------------------
(* What building one instance of a program mentions.                       *)

\* A type of a template, closed over the arguments of an instance.
RECURSIVE Close(_, _)
Close(t, env) ==
    IF t.kind = "param" THEN env[t.name[1]]
    ELSE Type(t.kind, t.name, [i \in DOMAIN t.args |-> Close(t.args[i], env)])

\* The types inside a type.
RECURSIVE Parts(_)
Parts(t) == {t} \cup UNION {Parts(t.args[i]) : i \in DOMAIN t.args}

\* The applied generics inside a type.
AppliedParts(t) == {<<u.name, u.args>> : u \in {u \in Parts(t) : Applied(u)}}

\* Field accesses mention nothing.
SiteMentions(s, env) ==
    LET args == [i \in DOMAIN s.args |-> Close(s.args[i], env)]
    IN  (IF s.op \in {"init", "call"} /\ s.args # <<>> THEN {<<s.name, args>>} ELSE {})
        \cup (IF s.op \in {"init", "call", "type", "trait"}
                THEN UNION {AppliedParts(args[i]) : i \in DOMAIN args} ELSE {})

InstancesMentioned(p, k) ==
    LET Fits(d) == d.params # <<>> /\ d.name = k[1] /\ Len(d.params) = Len(k[2])
        Env(d) == Environment(d.params, k[2])
        defs == {d \in TypeDefs(p) : Fits(d)}
        bodies == {f \in Functions(p) : Fits(f)}
    IN  UNION {UNION {AppliedParts(Close(d.fields[i], Env(d))) : i \in DOMAIN d.fields} : d \in defs}
        \cup UNION {UNION {SiteMentions(s, Env(f)) : s \in f.sites} : f \in bodies}

-----------------------------------------------------------------------------
(* The programs.                                                           *)

T == TypeParam("T")
U == TypeParam("U")
i64 == Scalar("i64")
i32 == Scalar("i32")
Box(t) == Struct("Box", <<t>>)
Plain_ == Struct("Plain", <<>>)

Param(n, bound) == [name |-> n, bound |-> bound]
Def(n, params, fields) == [name |-> n, params |-> params, fields |-> fields]
Fn(n, params, sites) == [name |-> n, params |-> params, sites |-> sites]
ImplFor(trait, params, t, method, sites) ==
    [trait |-> trait, params |-> params, for |-> t,
     methods |-> {[name |-> method, sites |-> sites]}]

Free == <<Param("T", "")>>

Structs ==
    {Def("Plain", <<>>, <<i64>>),
     Def("Box", Free, <<T>>),
     Def("Holder", <<Param("T", "Show")>>, <<Box(T)>>),
     Def("Pair", <<Param("T", ""), Param("U", "")>>, <<T, Box(U)>>)}

Enums ==
    {Def("Opt", Free, <<T, Box(T)>>),
     Def("Chain", Free, <<T, Enum("Chain", <<T>>)>>)}

\* wrap and unwrap mention each other; swap crosses its arguments.
Generics ==
    {Fn("wrap", Free, {UseType(Box(T)), CallTo("unwrap", <<T>>)}),
     Fn("unwrap", Free, {CallTo("wrap", <<T>>), BuildOf("Pair", <<T, i32>>)}),
     Fn("swap", <<Param("T", ""), Param("U", "")>>,
        {UseType(Struct("Pair", <<U, T>>)), FieldOf("Pair", <<T, U>>)}),
     Fn("show_all", <<Param("T", "Show")>>, {TraitCall("Show", "show", T)}),
     Fn("pick", Free, {IfExpr})}

Mention ==
    {UseType(Box(i64)), UseType(Struct("Holder", <<Box(i64)>>)), CallTo("wrap", <<i64>>),
     CallTo("swap", <<i64, Box(i32)>>), TraitCall("Show", "show", Box(i64)),
     BuildOf("Pair", <<i64, i32>>), FieldOf("Box", <<i32>>), CallTo("show_all", <<Plain_>>),
     UseType(Enum("Opt", <<Box(i64)>>)), UseType(Enum("Chain", <<i32>>)),
     CallTo("pick", <<i64>>), CallTo("main", <<i64>>), BuildOf("Box", <<i64, i64>>),
     CallTo("nope", <<>>), TraitCall("Show", "show", i32)}

ShowPlain == ImplFor("Show", <<>>, Plain_, "show", {})
ShowBox == ImplFor("Show", Free, Box(T), "show", {UseType(T)})
DropBox == ImplFor("Drop", Free, Box(T), "drop", {BuildOf("Opt", <<T>>)})
ShowPair == ImplFor("Show", Free, Struct("Pair", <<T, i32>>), "show", {UseType(Box(T))})
ShowTwin == ImplFor("Show", Free, Struct("Pair", <<T, T>>), "show", {})
ShowOdd == ImplFor("Show", Free, Struct("Pair", <<T>>), "show", {})
ShowBoxI64 == ImplFor("Show", <<>>, Box(i64), "show", {})
ShutBox == ImplFor("Drop", Free, Box(T), "show", {})
ShowAny == ImplFor("Show", Free, i64, "show", {})

ImplChoices ==
    {<<>>, <<ShowPlain, ShowBox>>, <<ShowBox, DropBox>>, <<ShowPair>>,
     <<ShowTwin>>, <<ShowOdd>>, <<ShowPlain, ShowPlain>>, <<ShowBoxI64, ShowBox>>,
     <<ShowBox, ShutBox>>, <<ShowAny>>}

MCPrograms ==
    {[structs |-> Structs, enums |-> Enums, impls |-> i,
      fns |-> Generics \cup {Fn("main", <<>>, m)}] :
     i \in ImplChoices, m \in {m \in SUBSET Mention : Cardinality(m) <= MaxMentions}}

\* Every instance some program leads to.
RECURSIVE Reached(_, _)
Reached(p, S) ==
    LET more == S \cup UNION {InstancesMentioned(p, k) : k \in S}
    IN  IF more = S THEN S ELSE Reached(p, more)

\* The library is the same in every program, so one that mentions
\* everything reaches what the others reach.
MCInstance ==
    LET all == [structs |-> Structs, enums |-> Enums, impls |-> <<>>,
                fns |-> Generics \cup {Fn("main", <<>>, Mention)}]
    IN  Reached(all, Seeds(all))
=============================================================================
