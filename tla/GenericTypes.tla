---------------------------- MODULE GenericTypes ----------------------------
(***************************************************************************)
(* Types of the program model as the monomorphization pass sees them: how  *)
(* a type is named, how type parameters are replaced and how an applied    *)
(* generic becomes a nominal type.  A type is a record of a kind, a name   *)
(* and type arguments.  A name is a sequence of tokens, because a mangled  *)
(* name is the concatenation of the names it is made of.  The places of a  *)
(* body that mention a type, a generic function or a trait are its sites.  *)
(***************************************************************************)
EXTENDS Sequences, SequencesExt

\* Naming, substitution and the search for instances go down into the type
\* arguments of a type; these are what they do there.
CONSTANTS
    Token,                \* what names are made of
    ArgNames(_),          \* the names of type arguments, joined
    SubstituteArgs(_, _), \* type arguments with the type parameters replaced
    ArgInstances(_)       \* the applied generics in type arguments

ASSUME TokenAssumption == {"<", ">", ",", "::"} \subseteq Token

Type(kind, name, args) == [kind |-> kind, name |-> name, args |-> args]
Scalar(n) == Type("scalar", <<n>>, <<>>)
Struct(n, args) == Type("struct", <<n>>, args)
Enum(n, args) == Type("enum", <<n>>, args)
TypeParam(n) == Type("param", <<n>>, <<>>)

\* An applied generic: the only types the pass has work to do for.
Applied(t) == t.kind \in {"struct", "enum"} /\ t.args # <<>>

-----------------------------------------------------------------------------
(* Names.                                                                  *)

TypeName(t) ==
    IF t.args = <<>> THEN t.name ELSE t.name \o <<"<">> \o ArgNames(t.args) \o <<">">>

Mangle(template, args) == TypeName(Type("struct", template, args))

\* The symbol of a method of an implementation.
MethodName(target, method) == target \o <<"::", method>>

-----------------------------------------------------------------------------
(* Replacing type parameters and rewriting applied generics.               *)

SubstituteType(t, sub) ==
    IF t.kind = "param" THEN sub[t.name[1]]
    ELSE IF t.args = <<>> THEN t ELSE Type(t.kind, t.name, SubstituteArgs(t.args, sub))

RewriteType(t) ==
    IF Applied(t) THEN Type(t.kind, Mangle(t.name, t.args), <<>>) ELSE t

\* The applied generics in a type, as pairs of template and arguments.
InstancesIn(t) == IF Applied(t) THEN {<<t.name, t.args>>} \cup ArgInstances(t.args) ELSE {}

-----------------------------------------------------------------------------
(* Sites.  "type": a type written in the body or the signature; "init": a  *)
(* struct or enum value is built; "call": a function is called; "field": a *)
(* field is loaded or stored through a pointer; "trait": a trait method is *)
(* called on a type; "if_expr": a conditional expression.  name is what is *)
(* built, called or loaded, args are its type arguments, and for "type"    *)
(* and "trait" the type itself.                                            *)

Site(op, name, args, trait) == [op |-> op, name |-> name, args |-> args, trait |-> trait]
UseType(t) == Site("type", <<>>, <<t>>, "")
BuildOf(n, args) == Site("init", <<n>>, args, "")
CallTo(n, args) == Site("call", <<n>>, args, "")
FieldOf(n, args) == Site("field", <<n>>, args, "")
TraitCall(trait, method, t) == Site("trait", <<method>>, <<t>>, trait)
IfExpr == Site("if_expr", <<>>, <<>>, "")

\* What one site asks to be instantiated.  A field access asks for nothing:
\* its type arguments are not looked at.
CollectSite(s) ==
    LET inArgs == UNION {InstancesIn(s.args[i]) : i \in DOMAIN s.args}
    IN  CASE s.op \in {"init", "call"} /\ s.args # <<>> -> {<<s.name, s.args>>} \cup inArgs
          [] s.op \in {"type", "trait"} -> inArgs
          [] OTHER -> {}

Collect(sites) == UNION {CollectSite(s) : s \in sites}

SubstituteSite(s, sub) ==
    Site(s.op, s.name, [i \in DOMAIN s.args |-> SubstituteType(s.args[i], sub)], s.trait)

RewriteSite(s) ==
    LET rewritten == [i \in DOMAIN s.args |-> RewriteType(s.args[i])]
    IN  IF s.op \in {"init", "call", "field"} /\ s.args # <<>>
          THEN Site(s.op, Mangle(s.name, rewritten), <<>>, s.trait)
          ELSE Site(s.op, s.name, rewritten, s.trait)

=============================================================================
