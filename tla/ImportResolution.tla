-------------------------- MODULE ImportResolution --------------------------
(***************************************************************************)
(* resolve_imports: the worklist that folds the modules a program imports, *)
(* and those they import, into one flat program.                           *)
(*                                                                         *)
(* A module may declare wirables, type parameters its importer binds with  *)
(* `import m wire A=T`; a wirable of the importer that T mentions is       *)
(* substituted when the importer itself is wired.  A type is an atom, a    *)
(* wirable or a concrete type, inside some number of applications of a     *)
(* generic struct or enum: Box[Box[A]] has A inside two.  What a module    *)
(* defines (constants, structs, enums, externs, functions, traits, impls)  *)
(* is a set of Names, each collection with names of its own; two copies of *)
(* a definition differ by the wiring they were substituted with.           *)
(***************************************************************************)
EXTENDS Naturals, Sequences, FiniteSets

CONSTANTS
    Modules,        \* module names, known and unknown
    Wirables,       \* names of wirables; as a type, a TypeParamRef
    Concrete,       \* types without arguments that are no such reference
    Names,          \* what modules and programs define
    Traits,         \* those of the names that are traits
    Tier,           \* Tier[m]: module_tier(m), by the head of its name
    Libraries,      \* stdlib directories: module |-> its file
    Requests,       \* programs to resolve, and the tiers the build disables
    User, Nobody    \* who defines what no module does

\* An atom inside so many applications.
Types == [of : Wirables \cup Concrete, inside : Nat]

\* A TypeParamRef itself.
IsParamRef(t) == t.of \in Wirables /\ t.inside = 0

\* `import m wire A=T, ...`
Imports == [module : Modules, wire : UNION {[W -> Types] : W \in SUBSET Wirables}]

\* A sequence of those, said so that it can be evaluated.
AreImports(s) ==
    /\ s \in Seq({s[k] : k \in DOMAIN s})
    /\ \A k \in DOMAIN s :
          /\ s[k] = [module |-> s[k].module, wire |-> s[k].wire]
          /\ s[k].module \in Modules
          /\ DOMAIN s[k].wire \subseteq Wirables
          /\ s[k].wire \in [DOMAIN s[k].wire -> Types]

Tiers == {"core", "alloc", "std"}

ASSUME ModulesAssumption ==
    /\ Wirables \cap Concrete = {}
    /\ Traits \subseteq Names
    /\ {User, Nobody} \cap Modules = {}
    /\ User # Nobody
    /\ Tier \in [Modules -> Tiers]
    /\ IsFiniteSet(Modules)
    /\ \A l \in Libraries :
          /\ DOMAIN l \subseteq Modules
          /\ \A m \in DOMAIN l : AreImports(l[m].imports)
    /\ \A r \in Requests :
          /\ AreImports(r.imports)
          /\ r.names \subseteq Names
          /\ r.disabled \subseteq Tiers

VARIABLES
    library,    \* the module files
    request,    \* the program: [imports, names, disabled]
    queue,      \* imports still to look at, in order
    visited,    \* modules already looked at
    merged,     \* merged[n]: whose definition of n the program has so far
    status      \* "running", "done" or "error"

vars == <<library, request, queue, visited, merged, status>>

\* A name is given by a module under a wiring, by the program, or by nobody.
Source(m, w) == [module |-> m, wire |-> w]
Own == Source(User, <<>>)
Nowhere == Source(Nobody, <<>>)

Init ==
    /\ library \in Libraries
    /\ request \in Requests
    /\ queue = request.imports
    /\ visited = {}
    /\ merged = [n \in Names |-> IF n \in request.names THEN Own ELSE Nowhere]
    /\ status = "running"

-----------------------------------------------------------------------------
imp == Head(queue)

file == library[imp.module]

\* The next import, and it is not one of a module that was looked at before.
Fresh == /\ status = "running"
         /\ queue # <<>>
         /\ imp.module \notin visited

\* Mutant: a tier is only looked at for what the program imports itself.
DisabledDirectly == /\ Tier[imp.module] \in request.disabled
                    /\ \E k \in DOMAIN request.imports :
                          request.imports[k].module = imp.module

Disabled == Tier[imp.module] \in request.disabled

Known == imp.module \in DOMAIN library

\* There is such a file, and _apply_wires accepts: every wirable bound, nothing
\* else, none of them to a parameter.  Inside an application it does not look.
WellWired == /\ Known
             /\ DOMAIN imp.wire = file.wirables
             /\ \A w \in DOMAIN imp.wire : ~IsParamRef(imp.wire[w])

\* Mutant: the arguments of a type are left as they are.
SubTypeAtTop(t, wire) ==
    IF t.of \in DOMAIN wire /\ t.inside = 0 THEN wire[t.of] ELSE t

\* sub_type: a wirable is replaced wherever it stands.
SubType(t, wire) ==
    IF t.of \in DOMAIN wire
    THEN [of |-> wire[t.of].of, inside |-> t.inside + wire[t.of].inside]
    ELSE t

\* _substitute_wirables in the module's own imports.
Substituted(i, wire) ==
    [i EXCEPT !.wire = [w \in DOMAIN i.wire |-> SubType(i.wire[w], wire)]]

\* Mutant: a module that is substituted loses its imports.
NestedDropped == IF file.wirables = {} THEN file.imports ELSE <<>>

Nested == [k \in DOMAIN file.imports |-> Substituted(file.imports[k], imp.wire)]

Skip ==
    /\ status = "running"
    /\ queue # <<>>
    /\ imp.module \in visited
    /\ queue' = Tail(queue)
    /\ UNCHANGED <<library, request, visited, merged, status>>

\* ImportError_: a disabled tier, no such file, or wires that do not fit.
Refuse ==
    /\ Fresh
    /\ Disabled \/ ~WellWired
    /\ visited' = visited \cup {imp.module}
    /\ status' = "error"
    /\ UNCHANGED <<library, request, queue, merged>>

\* The module's definition of n: _substitute_wirables leaves traits alone.
Copy(n) == Source(imp.module, IF n \in Traits THEN <<>> ELSE imp.wire)

\* Mutant: the program's own definitions give way.
MergedOver == [n \in Names |-> IF n \in file.names THEN Copy(n) ELSE merged[n]]

\* First wins, name by name.
MergedUnder == [n \in Names |->
    IF n \in file.names /\ merged[n] = Nowhere THEN Copy(n) ELSE merged[n]]

\* Mutant: the nested imports go first.
QueuedFirst == SelectSeq(Nested, LAMBDA i : i.module \notin visited \cup {imp.module})
                  \o Tail(queue)

\* The queue after the first k nested imports: one of a module that was not
\* looked at before goes to its end.
QueuedUpTo[k \in Nat] ==
    IF k = 0 THEN Tail(queue)
    ELSE IF k \in DOMAIN Nested /\ Nested[k].module \notin visited \cup {imp.module}
    THEN Append(QueuedUpTo[k - 1], Nested[k])
    ELSE QueuedUpTo[k - 1]

Queued == QueuedUpTo[Len(Nested)]

\* Mutant: the module is not marked as visited.
MergeForgetful ==
    /\ Fresh
    /\ ~Disabled /\ WellWired
    /\ merged' = MergedUnder
    /\ queue' = Queued
    /\ UNCHANGED <<library, request, visited, status>>

Merge ==
    /\ Fresh
    /\ ~Disabled /\ WellWired
    /\ visited' = visited \cup {imp.module}
    /\ merged' = MergedUnder
    /\ queue' = Queued
    /\ UNCHANGED <<library, request, status>>

Finish ==
    /\ status = "running"
    /\ queue = <<>>
    /\ status' = "done"
    /\ UNCHANGED <<library, request, queue, visited, merged>>

Next == Skip \/ Refuse \/ Merge \/ Finish

Spec == Init /\ [][Next]_vars

\* One thread runs the loop.
FairSpec == Spec /\ WF_vars(Next)

-----------------------------------------------------------------------------
ImportedBy(m) == {library[m].imports[k].module : k \in DOMAIN library[m].imports}

Asked == {request.imports[k].module : k \in DOMAIN request.imports}

\* Modules at most k imports away from the program.
Within[k \in Nat] ==
    IF k = 0 THEN {}
    ELSE IF k = 1 THEN Asked
    ELSE Within[k - 1] \cup
         UNION {ImportedBy(m) : m \in Within[k - 1] \cap DOMAIN library}

Reachable == Within[Cardinality(Modules)]

Depth(m) == CHOOSE k \in 1 .. Cardinality(Modules) :
                m \in Within[k] /\ m \notin Within[k - 1]

Definers(n) == {m \in Reachable \cap DOMAIN library : n \in library[m].names}

\* DEVELOPING.md:255, resolve.py:7: the program's own definition of a name is
\* never replaced, and nothing becomes the program's own.
UserShadows == \A n \in Names : merged[n] = Own <=> n \in request.names

\* resolve.py:68-70: nothing of a disabled tier gets into the program, however
\* deep in the imports it hides.
NoDisabledTier ==
    \A n \in Names : merged[n].module \in Modules =>
        Tier[merged[n].module] \notin request.disabled

\* The wirables an import of `imports` writes inside an application, where none
\* of `own` is meant.
Nests(imports, own) ==
    {p \in Wirables \ own : \E k \in DOMAIN imports : \E w \in DOMAIN imports[k].wire :
        imports[k].wire[w].of = p /\ imports[k].wire[w].inside > 0}

\* What _apply_wires lets through: Box[T] with a T that nobody around the import
\* declares, written by the program or by a module.
Loose == Nests(request.imports, {}) \cup
         UNION {Nests(library[m].imports, library[m].wirables) : m \in DOMAIN library}

\* MODULE_SYSTEM.md: a program has no free wirables.  What is merged from a module
\* was substituted with a type for each of its wirables; however many modules
\* forwarded that type, no parameter is left in it except one that was never
\* anybody's (Loose).  Traits are merged unsubstituted.
NoFreeWirables ==
    \A n \in Names \ Traits : merged[n].module \in Modules =>
        /\ DOMAIN merged[n].wire = library[merged[n].module].wirables
        /\ \A w \in DOMAIN merged[n].wire :
              /\ ~IsParamRef(merged[n].wire[w])
              /\ merged[n].wire[w].of \in Concrete \cup Loose

\* When resolution succeeds the program is closed: it has looked at exactly
\* the modules its imports reach, and has all their names.
Closed ==
    status = "done" =>
        /\ visited = Reachable
        /\ \A n \in Names : merged[n] = Nowhere <=>
              n \notin request.names /\ Definers(n) = {}

\* First wins is breadth first: the definition that is kept comes from a module
\* no further from the program than any other that has the name.
NearestWins ==
    \A n \in Names : merged[n].module \in Modules /\ status = "done" =>
        \A m \in Definers(n) : Depth(merged[n].module) <= Depth(m)

\* An import cycle does not keep the loop going.
ResolutionEnds == <>(status # "running")
=============================================================================
