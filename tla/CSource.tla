------------------------------ MODULE CSource -------------------------------
(***************************************************************************)
(* C source as libclang hands it to the ingester: cursors that carry a     *)
(* kind, a type and what hangs below them, with the conversions C inserts  *)
(* already present as UNEXPOSED_EXPR cursors.  External: the constructors  *)
(* below do what clang's type checker does.  Widths are scaled down: char  *)
(* has 2 bits, int 3 and long 5.                                           *)
(***************************************************************************)
EXTENDS Integers, Sequences, FiniteSets

CONSTANTS Structs,     \* [struct name -> sequence of [name, type]]
          Prototypes   \* [function name -> [params, result]] of the headers

T(k) == [kind |-> k]
CChar == T("CHAR_S")
CUChar == T("UCHAR")
CInt == T("INT")
CUInt == T("UINT")
CLong == T("LONG")
CULong == T("ULONG")
CDouble == T("DOUBLE")
CVoid == T("VOID")
Pointer(t) == [kind |-> "POINTER", pointee |-> t]
Struct(s) == [kind |-> "RECORD", name |-> s]

IntWidth == [CHAR_S |-> 2, UCHAR |-> 2, INT |-> 3, UINT |-> 3, LONG |-> 5, ULONG |-> 5]
IsInt(t) == t.kind \in DOMAIN IntWidth
IsSigned(t) == t.kind \in {"CHAR_S", "INT", "LONG"}

FieldType(s, x) == (CHOOSE f \in {Structs[s][i] : i \in DOMAIN Structs[s]} : f.name = x).type

-----------------------------------------------------------------------------
(* Expressions.                                                            *)

Num(t, n) == [kind |-> "INTEGER_LITERAL", type |-> t, value |-> n]
FNum(n) == [kind |-> "FLOATING_LITERAL", type |-> CDouble, value |-> n]
\* A text is known by a negative number.
Text(s) == [kind |-> "STRING_LITERAL", type |-> Pointer(CChar), value |-> s]
EnumConst(n) == [kind |-> "ENUM_CONSTANT", type |-> CInt, value |-> n]
Name(x, t) == [kind |-> "DECL_REF_EXPR", type |-> t, name |-> x]

Wrap(e, t) == [kind |-> "UNEXPOSED_EXPR", type |-> t, inner |-> e]
Var(x, t) == Wrap(Name(x, t), t)
As(e, t) == IF e.type = t THEN e ELSE Wrap(e, t)
CastTo(t, e) == [kind |-> "CSTYLE_CAST_EXPR", type |-> t, inner |-> e]

\* Integer promotion and the usual arithmetic conversions.
Promote(e) == IF IsInt(e.type) /\ IntWidth[e.type.kind] < IntWidth["INT"] THEN As(e, CInt) ELSE e
Rank == <<"INT", "UINT", "LONG", "ULONG", "DOUBLE">>
Common(a, b) ==
    T(Rank[CHOOSE i \in DOMAIN Rank : /\ Rank[i] \in {a.type.kind, b.type.kind}
                                      /\ \A j \in i + 1 .. Len(Rank) :
                                            Rank[j] \notin {a.type.kind, b.type.kind}])

Binary(op, t, l, r) == [kind |-> "BINARY_OPERATOR", op |-> op, type |-> t, lhs |-> l, rhs |-> r]
Relations == {"<", "<=", ">", ">=", "==", "!="}
Op(op, a, b) ==
    LET l == Promote(a)
        r == Promote(b)
        t == Common(l, r)
    IN  CASE op \in {"&&", "||"} -> Binary(op, CInt, a, b)
          [] op \in {"<<", ">>"} -> Binary(op, l.type, l, r)
          [] "POINTER" \in {l.type.kind, r.type.kind} ->
               Binary(op, IF op \in Relations THEN CInt
                          ELSE IF l.type.kind = "POINTER" THEN l.type ELSE r.type, l, r)
          [] OTHER -> Binary(op, IF op \in Relations THEN CInt ELSE t, As(l, t), As(r, t))

UnaryOp(op, t, e) == [kind |-> "UNARY_OPERATOR", op |-> op, type |-> t, inner |-> e]
Neg(e) == UnaryOp("-", Promote(e).type, Promote(e))
Flip(e) == UnaryOp("~", Promote(e).type, Promote(e))
LNot(e) == UnaryOp("!", CInt, e)
Deref(e) == UnaryOp("*", e.type.pointee, e)
AddrOf(e) == UnaryOp("&", Pointer(e.type), e)
Sub(a, i) == [kind |-> "ARRAY_SUBSCRIPT_EXPR", type |-> a.type.pointee, base |-> a, index |-> i]

Dot(e, x) ==
    [kind |-> "MEMBER_REF_EXPR", type |-> FieldType(e.type.name, x), base |-> e, name |-> x]
Arrow(e, x) ==
    [kind |-> "MEMBER_REF_EXPR", type |-> FieldType(e.type.pointee.name, x), base |-> e, name |-> x]

InitList(s, es) ==
    [kind |-> "INIT_LIST_EXPR", type |-> Struct(s),
     items |-> [i \in DOMAIN es |-> IF i \in DOMAIN Structs[s] THEN As(es[i], Structs[s][i].type)
                                    ELSE es[i]]]

Ternary(c, a, b) ==
    [kind |-> "CONDITIONAL_OPERATOR", type |-> Common(Promote(a), Promote(b)), cond |-> c,
     then |-> As(Promote(a), Common(Promote(a), Promote(b))),
     else |-> As(Promote(b), Common(Promote(a), Promote(b)))]

CallTo(f, args) ==
    [kind |-> "CALL_EXPR", type |-> Prototypes[f].result, fn |-> f,
     args |-> [i \in DOMAIN args |-> As(args[i], Prototypes[f].params[i])]]

-----------------------------------------------------------------------------
(* Statements.  A block is a sequence of them.                             *)

None == [kind |-> "none"]

Ret(t, e) == [kind |-> "RETURN_STMT", value |-> As(e, t)]
RetVoid == [kind |-> "RETURN_STMT", value |-> None]
CIf(c, a, b) == [kind |-> "IF_STMT", cond |-> c, then |-> a, else |-> b]
CWhile(c, b) == [kind |-> "WHILE_STMT", cond |-> c, body |-> b]
CDo(b, c) == [kind |-> "DO_STMT", body |-> b, cond |-> c]
CFor(i, c, n, b) == [kind |-> "FOR_STMT", init |-> i, cond |-> c, inc |-> n, body |-> b]

Declarator(x, t, e) == [name |-> x, type |-> t, init |-> IF e = None THEN e ELSE As(e, t)]
Decls(ds) == [kind |-> "DECL_STMT", decls |-> ds]
Decl(x, t, e) == Decls(<<Declarator(x, t, e)>>)

\* l is an lvalue: a name, a dereference, a subscript or a member.
Set(l, e) == [kind |-> "ASSIGN", lhs |-> l, rhs |-> As(e, l.type)]
\* Clang converts the right operand to the type the operation is done in, and
\* leaves the left one, which is converted there and back, as it is.
Update(op, l, e) ==
    [kind |-> "COMPOUND_ASSIGNMENT_OPERATOR", op |-> op, lhs |-> l,
     rhs |-> IF l.type.kind = "POINTER" \/ op \in {"<<", ">>"} THEN Promote(e)
             ELSE As(Promote(e), Common(Promote(l), Promote(e)))]
Inc(l) == [kind |-> "INCREMENT", op |-> "++", lhs |-> l]
Do(e) == [kind |-> "EXPRESSION", value |-> e]
CBreak == [kind |-> "BREAK_STMT"]
CContinue == [kind |-> "CONTINUE_STMT"]

\* A switch body: labels hold the first statement after them, or the next
\* label; what follows stands beside them.
Switch(e, items) == [kind |-> "SWITCH_STMT", cond |-> Promote(e), items |-> items]
Case(v, first) == [kind |-> "CASE_STMT", value |-> v, first |-> first]
Default(first) == [kind |-> "DEFAULT_STMT", first |-> first]

Param(x, t) == [name |-> x, type |-> t]
CFunction(f, params, t, body) == [name |-> f, params |-> params, result |-> t, body |-> body]
=============================================================================
