---------------------------- MODULE Monomorphize ----------------------------
(***************************************************************************)
(* prepare_program(), from a program with its imports resolved to one that *)
(* is ready to lower: validate, monomorphize, validate again.              *)
(* The monomorphization pass keeps a worklist of instances of generic      *)
(* structs, enums and functions.  Its seeds come from a Python set of      *)
(* strings and types, and so does each batch it pushes: the order within a *)
(* batch is any order.  The pass skips an instance whose name it has built *)
(* already; each instance is queued once and a name belongs to one         *)
(* instance, so there is no such step here and TypeOK says so.             *)
(*                                                                         *)
(* A program is a record of structs, enums, fns (sets of definitions with  *)
(* type parameters, each a name and a bound or "") and impls (a sequence). *)
(***************************************************************************)
EXTENDS GenericTypes, FiniteSets

CONSTANTS
    Programs,         \* the programs the pass may be given
    Instance,         \* pairs of a template's name and its type arguments
    Mentioned(_, _)   \* the instances a program's template mentions in building one

VARIABLES program,    \* the program being prepared
          stage,      \* load, work, rewritten, ready
          refusal,    \* why the program was refused, or ""
          pending,    \* the worklist: a stack of batches
          seen,       \* every instance ever queued
          types,      \* out_structs and out_enums
          fns,        \* out_fns
          impls,      \* impl_index
          result      \* the functions of the monomorphized program

vars == <<program, stage, refusal, pending, seen, types, fns, impls, result>>

Refuse(why) ==
    /\ refusal' = why
    /\ UNCHANGED <<program, stage, pending, seen, types, fns, impls, result>>

-----------------------------------------------------------------------------
(* Validation: the names a program mentions are defined.  It looks into    *)
(* struct fields, signatures and function bodies; not into the payloads of *)
(* enums, the bodies of implementations or trait calls.                    *)

TypeIsDefined(structs, enums, t) ==
    /\ t.kind = "struct" => t.name \in structs
    /\ t.kind = "enum" => t.name \in enums

SiteIsDefined(structs, enums, callables, s) ==
    CASE s.op = "type" -> TypeIsDefined(structs, enums, s.args[1])
      [] s.op = "init" -> s.name \in structs \cup enums
      [] s.op = "field" -> s.name \in structs
      [] s.op = "call" -> s.name \in callables
      [] OTHER -> TRUE

\* defs: types with name, kind and fields; bodies: functions with name, sites.
Validates(defs, bodies) ==
    LET structs == {d.name : d \in {d \in defs : d.kind = "struct"}}
        enums == {d.name : d \in {d \in defs : d.kind = "enum"}}
        callables == {f.name : f \in bodies}
    IN  /\ \A d \in defs : d.kind = "struct" =>
              \A i \in DOMAIN d.fields : TypeIsDefined(structs, enums, d.fields[i])
        /\ \A f \in bodies : \A s \in f.sites : SiteIsDefined(structs, enums, callables, s)

-----------------------------------------------------------------------------
(* The pre-passes over implementations.                                    *)

IsGeneric(d) == d.params # <<>>

TypeDefs(p) ==
    {[name |-> <<d.name>>, kind |-> "struct", params |-> d.params, fields |-> d.fields] : d \in p.structs}
    \cup {[name |-> <<d.name>>, kind |-> "enum", params |-> d.params, fields |-> d.fields] : d \in p.enums}

ConcreteImpls(p) == {i \in DOMAIN p.impls : ~IsGeneric(p.impls[i])}

ImplEntry(impl, target) ==
    [trait |-> impl.trait, target |-> target, methods |-> {m.name : m \in impl.methods}]

BuildImplIndex(p) ==
    {ImplEntry(p.impls[i], TypeName(p.impls[i].for)) : i \in ConcreteImpls(p)}

Incoherent(p) ==
    \E i, j \in ConcreteImpls(p) :
        /\ i # j
        /\ p.impls[i].trait = p.impls[j].trait
        /\ TypeName(p.impls[i].for) = TypeName(p.impls[j].for)

\* The methods of concrete implementations become functions.
PromoteImpls(p) ==
    {[name |-> MethodName(TypeName(p.impls[x[1]].for), x[2].name), params |-> <<>>,
      sites |-> x[2].sites, from |-> p.impls[x[1]].trait] :
     x \in UNION {{<<i, m>> : m \in p.impls[i].methods} : i \in ConcreteImpls(p)}}

\* The program's functions, with the promoted ones.
Functions(p) ==
    {[name |-> <<f.name>>, params |-> f.params, sites |-> f.sites, from |-> ""] : f \in p.fns}
    \cup PromoteImpls(p)

\* Generic implementations are found by the name of what they are for.
HasTemplate(impl) == impl.for.kind \in {"struct", "enum"}
Targetless(p) == \E i \in DOMAIN p.impls : IsGeneric(p.impls[i]) /\ ~HasTemplate(p.impls[i])

IsGenericImplOf(impl, template) ==
    IsGeneric(impl) /\ HasTemplate(impl) /\ impl.for.name = template

Init ==
    /\ program \in Programs
    /\ stage = "load" /\ refusal = ""
    /\ pending = <<>> /\ seen = {}
    /\ types = {} /\ fns = {} /\ impls = {} /\ result = {}

Running(s) == stage = s /\ refusal = ""

\* The instances the program itself mentions: generic definitions and
\* generic implementations are left out.
Seeds(p) ==
    UNION {UNION {InstancesIn(d.fields[i]) : i \in DOMAIN d.fields} :
           d \in {d \in TypeDefs(p) : ~IsGeneric(d)}}
    \cup UNION {Collect(f.sites) : f \in {f \in Functions(p) : ~IsGeneric(f)}}

\* Empty batches are not kept, so that the worklist is empty when it is <<>>.
Batch(S) == IF S = {} THEN <<>> ELSE <<S>>

Load ==
    /\ Running("load")
    /\ ~Incoherent(program)
    /\ ~Targetless(program)
    /\ Validates(TypeDefs(program),
                 {[name |-> <<f.name>>, sites |-> f.sites] : f \in program.fns})
    /\ stage' = "work"
    /\ impls' = BuildImplIndex(program)
    /\ types' = {[name |-> d.name, kind |-> d.kind, fields |-> d.fields] :
                 d \in {d \in TypeDefs(program) : ~IsGeneric(d)}}
    /\ pending' = Batch(Seeds(program))
    /\ seen' = Seeds(program)
    /\ UNCHANGED <<program, refusal, fns, result>>

LoadRefuses ==
    /\ Running("load")
    /\ \/ /\ ~Validates(TypeDefs(program),
                        {[name |-> <<f.name>>, sites |-> f.sites] : f \in program.fns})
          /\ Refuse("invalid")
       \/ /\ Validates(TypeDefs(program),
                       {[name |-> <<f.name>>, sites |-> f.sites] : f \in program.fns})
          /\ \/ Incoherent(program) /\ Refuse("incoherent")
             \/ ~Incoherent(program) /\ Targetless(program) /\ Refuse("impl_target")

-----------------------------------------------------------------------------
(* Generic implementations, instantiated with the type they are for.  The  *)
(* pass reports a parameter that stands for two types as an error, and a   *)
(* type that differs from the one written as no match.                     *)

\* The positions at which an implementation does not fit the arguments.
Clashes(impl, args) ==
    {i \in DOMAIN args : \E j \in 1 .. (i - 1) :
        impl.for.args[i].kind = "param" /\ impl.for.args[i] = impl.for.args[j] /\ args[i] # args[j]}

Differs(impl, args) ==
    {i \in DOMAIN args : impl.for.args[i].kind # "param" /\ impl.for.args[i] # args[i]}

Before(S, T) == \E i \in S : \A j \in T : i < j

\* What each type parameter of the implementation stands for.
Binding(impl, args) ==
    LET params == {i \in DOMAIN args : impl.for.args[i].kind = "param"}
    IN  [n \in {impl.for.args[i].name[1] : i \in params} |->
            args[CHOOSE i \in params : impl.for.args[i].name[1] = n]]

\* What the implementation is for, by name.
Target(impl, args) == TypeName(RewriteType(SubstituteType(impl.for, Binding(impl, args))))

\* Mutant: the methods keep the types of the template.
MethodAsWritten(impl, args, m) ==
    [name |-> MethodName(Target(impl, args), m.name),
     sites |-> {RewriteSite(s) : s \in m.sites}, from |-> impl.trait]

\* A method of the implementation, substituted and rewritten.  What its body
\* mentions is not queued.
Method(impl, args, m) ==
    [name |-> MethodName(Target(impl, args), m.name),
     sites |-> {RewriteSite(SubstituteSite(s, Binding(impl, args))) : s \in m.sites},
     from |-> impl.trait]

\* Of several misfits the one at the first position counts.
Unfit(impl, args) ==
    IF Len(impl.for.args) # Len(args) THEN "impl_arity"
    ELSE IF Clashes(impl, args) # {} /\ ~Before(Differs(impl, args), Clashes(impl, args)) THEN "bound_twice"
    ELSE ""

\* acc holds out_fns, impl_index and the refusal met so far.
InstantiateImpl(acc, impl, args) ==
    LET methods == {Method(impl, args, m) : m \in impl.methods}
        target == Target(impl, args)
    IN  IF Unfit(impl, args) # "" THEN [acc EXCEPT !.refusal = Unfit(impl, args)]
        ELSE IF Differs(impl, args) # {} \/ \E e \in acc.impls : e.trait = impl.trait /\ e.target = target
          THEN acc
        ELSE [acc EXCEPT !.fns = {f \in @ : \A m \in methods : m.name # f.name} \cup methods,
                         !.impls = @ \cup {ImplEntry(impl, target)}]

InstantiateImpls(template, args) ==
    LET upTo[n \in 0 .. Len(program.impls)] ==
            IF n = 0 THEN [fns |-> fns, impls |-> impls, refusal |-> ""]
            ELSE LET acc == upTo[n - 1]
                     impl == program.impls[n]
                 IN  IF acc.refusal = "" /\ IsGenericImplOf(impl, template)
                       THEN InstantiateImpl(acc, impl, args) ELSE acc
    IN  upTo[Len(program.impls)]

-----------------------------------------------------------------------------
(* The worklist.                                                           *)

\* Every bounded type parameter needs an implementation for its argument in
\* the index as it is when the instance is built.
BoundsHold(params, args) ==
    \A i \in DOMAIN params : params[i].bound # "" =>
        \E e \in impls : e.trait = params[i].bound /\ e.target = TypeName(args[i])

Environment(params, args) ==
    [n \in {params[i].name : i \in DOMAIN params} |->
        args[CHOOSE i \in DOMAIN params : params[i].name = n]]

\* Mutant: the instance is looked at and stays on the stack.
Peeked(k) == pending

\* The stack without one instance of its last batch.
Popped(k) == Front(pending) \o Batch(Last(pending) \ {k})

\* Mutant: an instance that is already known is queued again.
AddAll(acc, batch) == [stack |-> acc.stack \o Batch(batch), seen |-> acc.seen \cup batch]

\* Mutant: of each template, one instance is queued.
AddTemplates(acc, batch) ==
    [stack |-> acc.stack \o Batch({k \in batch : \A l \in acc.seen : l[1] # k[1]}),
     seen |-> acc.seen \cup batch]

\* A batch goes on top, without what has been seen.
Add(acc, batch) == [stack |-> acc.stack \o Batch(batch \ acc.seen), seen |-> acc.seen \cup batch]

Push(stack, batches) ==
    LET upTo[n \in 0 .. Len(batches)] ==
            IF n = 0 THEN [stack |-> stack, seen |-> seen] ELSE Add(upTo[n - 1], batches[n])
    IN  upTo[Len(batches)]

Popping(k) == Running("work") /\ pending # <<>> /\ k \in Last(pending)

TypeTemplates(p, name) == {d \in TypeDefs(p) : IsGeneric(d) /\ d.name = name}
FnTemplates(p, name) == {f \in Functions(p) : IsGeneric(f) /\ f.name = name}

\* A struct or an enum is instantiated, with the implementations for it.
InstantiateType(k) ==
    LET args == k[2]
    IN  /\ Popping(k)
        /\ \E d \in TypeTemplates(program, k[1]) :
             /\ Len(d.params) = Len(args)
             /\ BoundsHold(d.params, args)
             /\ LET env == Environment(d.params, args)
                    fields == [i \in DOMAIN d.fields |-> SubstituteType(d.fields[i], env)]
                    pushed == Push(Popped(k), [i \in DOMAIN fields |-> InstancesIn(fields[i])])
                    after == InstantiateImpls(k[1], args)
                IN  /\ after.refusal = ""
                    /\ types' = types \cup {[name |-> Mangle(k[1], args), kind |-> d.kind,
                                             fields |-> [i \in DOMAIN fields |-> RewriteType(fields[i])]]}
                    /\ pending' = pushed.stack
                    /\ seen' = pushed.seen
                    /\ fns' = after.fns
                    /\ impls' = after.impls
        /\ UNCHANGED <<program, stage, refusal, result>>

\* A function is instantiated.  Substitution does not know conditional
\* expressions and fails on them.
InstantiateFunction(k) ==
    LET args == k[2]
    IN  /\ Popping(k)
        /\ TypeTemplates(program, k[1]) = {}
        /\ \E f \in FnTemplates(program, k[1]) :
             /\ Len(f.params) = Len(args)
             /\ BoundsHold(f.params, args)
             /\ IfExpr \notin f.sites
             /\ LET env == Environment(f.params, args)
                    sites == {SubstituteSite(s, env) : s \in f.sites}
                    pushed == Push(Popped(k), <<Collect(sites)>>)
                IN  /\ fns' = {g \in fns : g.name # Mangle(k[1], args)}
                              \cup {[name |-> Mangle(k[1], args),
                                     sites |-> {RewriteSite(s) : s \in sites}, from |-> ""]}
                    /\ pending' = pushed.stack
                    /\ seen' = pushed.seen
        /\ UNCHANGED <<program, stage, refusal, types, impls, result>>

\* Why an instance cannot be built.
WorkRefuses(k) ==
    LET defs == TypeTemplates(program, k[1])
        templates == IF defs # {} THEN defs ELSE FnTemplates(program, k[1])
    IN  /\ Popping(k)
        /\ \/ templates = {} /\ Refuse("unknown_template")
           \/ \E d \in templates :
                \/ Len(d.params) # Len(k[2]) /\ Refuse("arity")
                \/ /\ Len(d.params) = Len(k[2])
                   /\ ~BoundsHold(d.params, k[2])
                   /\ Refuse("bound")
                \/ /\ Len(d.params) = Len(k[2])
                   /\ BoundsHold(d.params, k[2])
                   /\ \/ defs = {} /\ IfExpr \in d.sites /\ Refuse("crash")
                      \/ LET after == InstantiateImpls(k[1], k[2])
                         IN  defs # {} /\ after.refusal # "" /\ Refuse(after.refusal)

-----------------------------------------------------------------------------
(* After the worklist: the program-wide rewrite, the resolution of trait   *)
(* calls, and the second validation.                                       *)

Rewritten(f) == [name |-> f.name, sites |-> {RewriteSite(s) : s \in f.sites}, from |-> f.from]

\* A trait call becomes a call of the symbol of the implementation's method.
\* The site keeps the trait it came from, for the properties.
ResolveSite(s) ==
    IF s.op = "trait"
      THEN Site("call", MethodName(TypeName(s.args[1]), s.name[1]), <<>>, s.trait)
      ELSE s

Resolved(f) == [name |-> f.name, sites |-> {ResolveSite(s) : s \in f.sites}, from |-> f.from]

Resolves(s) ==
    s.op = "trait" =>
        \E e \in impls : /\ e.trait = s.trait
                         /\ e.target = TypeName(s.args[1])
                         /\ s.name[1] \in e.methods

BeforeResolution ==
    {Rewritten(f) : f \in {f \in Functions(program) : ~IsGeneric(f)}} \cup fns

Rewrite ==
    /\ Running("work") /\ pending = <<>>
    /\ \A f \in BeforeResolution : \A s \in f.sites : Resolves(s)
    /\ stage' = "rewritten"
    /\ types' = {[name |-> d.name, kind |-> d.kind,
                  fields |-> [i \in DOMAIN d.fields |-> RewriteType(d.fields[i])]] : d \in types}
    /\ result' = {Resolved(f) : f \in BeforeResolution}
    /\ UNCHANGED <<program, refusal, pending, seen, fns, impls>>

RewriteRefuses ==
    /\ Running("work") /\ pending = <<>>
    /\ \E f \in BeforeResolution : \E s \in f.sites : ~Resolves(s)
    /\ Refuse("no_impl")

Accept ==
    /\ Running("rewritten")
    /\ Validates(types, result)
    /\ stage' = "ready"
    /\ UNCHANGED <<program, refusal, pending, seen, types, fns, impls, result>>

AcceptRefuses ==
    /\ Running("rewritten")
    /\ ~Validates(types, result)
    /\ Refuse("invalid")

Ended == stage = "ready" \/ refusal # ""

Next ==
    \/ Load \/ LoadRefuses
    \/ \E k \in Instance : InstantiateType(k) \/ InstantiateFunction(k) \/ WorkRefuses(k)
    \/ Rewrite \/ RewriteRefuses
    \/ Accept \/ AcceptRefuses
    \/ Ended /\ UNCHANGED vars

Spec == Init /\ [][Next]_vars /\ WF_vars(Next)

-----------------------------------------------------------------------------
(* What the programs are taken to be.                                      *)

Named(params) == {params[i].name : i \in DOMAIN params}

\* A type whose parameters are among names, and one that has none at the top.
ScopedIn(t, names) ==
    /\ t.kind \in {"scalar", "struct", "enum", "param"}
    /\ t.kind \in {"scalar", "param"} => t.args = <<>>
    /\ t.kind = "param" => \E n \in names : t.name = <<n>>
Concrete(t) == ScopedIn(t, {})

SiteScopedIn(s, names) ==
    /\ s.op \in {"type", "init", "call", "field", "trait", "if_expr"}
    /\ s.args \in Seq(Range(s.args)) /\ \A i \in DOMAIN s.args : ScopedIn(s.args[i], names)
    /\ s.op \in {"type", "trait"} => Len(s.args) = 1
    /\ s.op = "if_expr" => s.args = <<>>
    /\ s.trait # "" => s.op = "trait"

DefScoped(d) ==
    /\ d.name \in Token
    /\ d.params \in Seq(Range(d.params))
    /\ d.fields \in Seq(Range(d.fields))
    /\ \A i \in DOMAIN d.fields : ScopedIn(d.fields[i], Named(d.params))

\* The type parameters of an implementation are those its target has at the
\* top; a concrete one has none.  ImplDef's validator (model/traits.py:93-101)
\* goes through the methods with the walk that fails on a conditional
\* expression, so that they have none.
ParamsOfTarget(impl) ==
    IF IsGeneric(impl)
      THEN {impl.for.args[i].name[1] : i \in {i \in DOMAIN impl.for.args : impl.for.args[i].kind = "param"}}
      ELSE {}

ImplScoped(impl) ==
    /\ impl.trait # ""
    /\ impl.for.name \in Seq(Token) /\ Len(impl.for.name) = 1
    /\ impl.for.args \in Seq(Range(impl.for.args))
    /\ ~IsGeneric(impl) => ArgNames(impl.for.args) \in Seq(Token)
    /\ \A m \in impl.methods :
          /\ m.name \in Token \ {">"}
          /\ IfExpr \notin m.sites
          /\ \A s \in m.sites : SiteScopedIn(s, ParamsOfTarget(impl))

\* Names are in scope: the validators and substitution.py:24-27 refuse other
\* programs.
ASSUME ProgramsAssumption == \A p \in Programs :
    /\ \A d \in p.structs \cup p.enums : DefScoped(d)
    /\ \A f \in p.fns :
          /\ f.params \in Seq(Range(f.params))
          /\ \A s \in f.sites : SiteScopedIn(s, Named(f.params))
    /\ p.impls \in Seq(Range(p.impls))
    /\ \A i \in DOMAIN p.impls : ImplScoped(p.impls[i])

\* The traits of one type have methods of different names.  Nothing checks
\* this, and the symbol of a method does not name its trait: of two methods
\* with one symbol the later takes the place of the earlier.  The gap of
\* Monomorphic.
MethodsApart(p) ==
    \A i, j \in DOMAIN p.impls :
        p.impls[i].for.name = p.impls[j].for.name /\ p.impls[i].trait # p.impls[j].trait =>
           \A m \in p.impls[i].methods, n \in p.impls[j].methods : m.name # n.name

\* An instance applies a template to arguments without type parameters, and
\* names tell instances apart.
ASSUME InstanceAssumption ==
    /\ \A k \in Instance :
          /\ k[1] \in Seq(Token) /\ k[1] # <<>>
          /\ k[2] \in Seq(Range(k[2])) /\ k[2] # <<>>
          /\ \A i \in DOMAIN k[2] : Concrete(k[2][i])
          /\ ArgNames(k[2]) \in Seq(Token)
    /\ \A k, l \in Instance : Mangle(k[1], k[2]) = Mangle(l[1], l[2]) => k = l
    /\ \A p \in Programs : \A i \in DOMAIN p.impls : \A k \in Instance :
          IsGenericImplOf(p.impls[i], k[1]) /\ Unfit(p.impls[i], k[2]) = "" =>
             ArgNames(SubstituteArgs(p.impls[i].for.args, Binding(p.impls[i], k[2]))) \in Seq(Token)

\* What a template mentions is the same for every program over the same ones.
Library(p) ==
    [structs |-> p.structs, enums |-> p.enums, fns |-> {f \in p.fns : IsGeneric(f)}, impls |-> <<>>]
MentionsOf == [lib \in {Library(p) : p \in Programs} |-> [k \in Instance |-> Mentioned(lib, k)]]

\* Instance has every instance a program leads to, and the pass finds in a
\* template what the instance mentions.
ASSUME MentionsAssumption == \A p \in Programs :
    /\ Seeds(p) \subseteq Instance
    /\ MentionsOf[Library(p)] \in [Instance -> SUBSET Instance]
    /\ \A k \in Instance :
          /\ \A d \in TypeTemplates(Library(p), k[1]) : Len(d.params) = Len(k[2]) =>
                MentionsOf[Library(p)][k] =
                   UNION {InstancesIn(SubstituteType(d.fields[i], Environment(d.params, k[2]))) :
                          i \in DOMAIN d.fields}
          /\ \A f \in FnTemplates(Library(p), k[1]) : Len(f.params) = Len(k[2]) =>
                MentionsOf[Library(p)][k] =
                   Collect({SubstituteSite(s, Environment(f.params, k[2])) : s \in f.sites})

\* What the methods of the implementations for an instance mention.
ImplMentions(list, k) ==
    UNION {UNION {Collect({SubstituteSite(s, Binding(impl, k[2])) : s \in m.sites}) : m \in impl.methods} :
           impl \in {impl \in Range(list) :
                        /\ IsGenericImplOf(impl, k[1])
                        /\ Unfit(impl, k[2]) = "" /\ Differs(impl, k[2]) = {}}}
ImplMentionsOf == [list \in {p.impls : p \in Programs} |-> [k \in Instance |-> ImplMentions(list, k)]]

-----------------------------------------------------------------------------
(* Properties.                                                             *)

Waiting == UNION {pending[i] : i \in DOMAIN pending}
BuiltNames == {d.name : d \in types} \cup {f.name : f \in fns}

\* The worklist holds instances that were seen and not built, in batches
\* that do not overlap; a stage after it has an empty one.
TypeOK ==
    /\ program \in Programs
    /\ stage \in {"load", "work", "rewritten", "ready"}
    /\ refusal \in {"", "invalid", "incoherent", "impl_target", "unknown_template", "arity", "bound", "crash",
                    "impl_arity", "bound_twice", "no_impl"}
    /\ seen \subseteq Instance
    /\ Waiting \subseteq seen
    /\ \A i, j \in DOMAIN pending : i # j => pending[i] \cap pending[j] = {}
    /\ \A k \in Waiting : Mangle(k[1], k[2]) \notin BuiltNames
    /\ stage \in {"rewritten", "ready"} => pending = <<>>

\* The worklist of the pass as the abstract one: the instances of the program
\* text, what the template of an instance mentions, and the instances built
\* so far as the names that exist.
Seeded == Seeds(program)
Mentions == MentionsOf[Library(program)]
Todo == IF stage = "load" THEN Seeds(program) ELSE Waiting
Known == IF stage = "load" THEN Seeds(program) ELSE seen
Built == {k \in Instance : stage # "load" /\ k \in seen /\ Mangle(k[1], k[2]) \in BuiltNames}
Verdict ==
    IF stage \in {"rewritten", "ready"} THEN "built" ELSE IF refusal = "" THEN "running" ELSE "refused"

Worklist == INSTANCE InstanceWorklist
    WITH seeds <- Seeded, mentions <- Mentions, todo <- Todo, known <- Known, built <- Built,
         verdict <- Verdict

\* The gap: an instance exists for which a generic implementation was brought
\* whose methods mention what the template does not.  Nothing queues that:
\* _instantiate_generic_impl() does not return what traits.py:148-151 says it
\* returns for the discovery of further instantiations.
ImplGap == \E k \in Built : ~(ImplMentionsOf[program.impls][k] \subseteq Mentions[k])

\* Whatever an instance mentions, in its template or in an implementation,
\* exists at the end.
NoneMissing ==
    Verdict = "built" /\ ~ImplGap =>
        /\ Seeded \subseteq Built
        /\ \A k \in Built : Mentions[k] \cup ImplMentionsOf[program.impls][k] \subseteq Built

\* The instances that exist at the end are the least set closed under what
\* the program and the templates mention: none of these is missing, none is
\* extra, and the order in which Python's sets were walked cannot be seen in
\* them.  But for the gap they are all that monomorphize/__init__.py:3-6
\* promises, with those that implementations mention.
BuildsLeastInstances == Worklist!Spec /\ []NoneMissing

\* A name of the output, and a type that needs no more work.
Plain(t) == t.args = <<>> /\ t.kind # "param"

\* What the pass promises of the program it returns: no type arguments and
\* no type parameters in fields and bodies, and every trait call is a call
\* of a function that exists, and of the one that the implementation of that
\* trait brought unless two traits of one type share the name of a method.
Monomorphic ==
    stage \in {"rewritten", "ready"} =>
        /\ \A d \in types : \A i \in DOMAIN d.fields : Plain(d.fields[i])
        /\ \A f \in result : \A s \in f.sites :
              /\ s.op # "trait"
              /\ s.op = "type" => Plain(s.args[1])
              /\ s.op # "type" => s.args = <<>>
              /\ s.trait # "" => \E g \in result :
                    g.name = s.name /\ (MethodsApart(program) => g.from = s.trait)

\* Preparation comes to an end: with no template that grows its own
\* arguments the worklist runs dry.
PreparationEnds == <>Ended

=============================================================================
