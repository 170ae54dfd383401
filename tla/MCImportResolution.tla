------------------------- MODULE MCImportResolution -------------------------
(***************************************************************************)
(* Three modules, of which any may be missing, import each other in cycles *)
(* and diamonds, with one wirable that is bound, forwarded (as it is or    *)
(* inside an application) or forgotten; n3 is a trait.                     *)
(***************************************************************************)
EXTENDS ImportResolution, TLC

CONSTANTS a, b, c, A, x, y, n1, n2, n3

Import(m, w) == [module |-> m, wire |-> w]
Type(t) == [of |-> t, inside |-> 0]
Box(t) == [of |-> t, inside |-> 1]
Wired(t) == A :> Type(t)
WiredBox(t) == A :> Box(t)

File(ws, is, ns) == [wirables |-> ws, imports |-> is, names |-> ns]

\* a forwards its wirable, also inside an application, binds b itself, or imports
\* c before b.
FilesA == {File({A}, <<Import(b, Wired(A))>>, {n1}),
           File({}, <<Import(b, Wired(x))>>, {n1, n2}),
           File({A}, <<Import(c, <<>>), Import(b, Wired(y))>>, {}),
           File({A}, <<Import(b, WiredBox(A))>>, {n1, n3}),
           File({}, <<Import(b, Wired(A))>>, {n1}),
           File({}, <<Import(b, WiredBox(A))>>, {n3})}

\* b closes a cycle, forwards its wirable, or is a leaf, with or without one.
FilesB == {File({A}, <<Import(a, <<>>)>>, {n1}),
           File({A}, <<Import(c, WiredBox(A))>>, {n2, n3}),
           File({A}, <<Import(c, <<>>)>>, {n2}),
           File({}, <<>>, {n1, n2})}

FilesC == {File({}, <<Import(c, <<>>)>>, {n2}),
           File({}, <<Import(b, Wired(x)), Import(a, Wired(y))>>, {n1}),
           File({A}, <<>>, {n2})}

MCLibraries ==
    {a :> fa @@ b :> fb @@ c :> fc : fa \in FilesA, fb \in FilesB, fc \in FilesC}
        \cup {a :> fa @@ b :> fb : fa \in FilesA, fb \in FilesB}

MCTier == a :> "core" @@ b :> "alloc" @@ c :> "std"

MCImports == {<<Import(a, <<>>)>>, <<Import(a, Wired(x))>>,
              <<Import(c, <<>>), Import(a, Wired(x))>>,
              <<Import(b, Wired(x)), Import(a, Wired(y))>>,
              <<Import(b, Wired(A))>>, <<Import(a, WiredBox(A))>>,
              <<Import(b, <<>>), Import(c, Wired(x)), Import(a, <<>>)>>}

MCRequests == [imports : MCImports, names : {{}, {n1}},
               disabled : {{}, {"std"}, {"alloc"}}]
=============================================================================
