------------------------------ MODULE CLayerB -------------------------------
(***************************************************************************)
(* The translation of C into quod, layer B (ingest/c/layer_b.py, with the  *)
(* type tables and cursor helpers of ingest/c/helpers.py).  An operator    *)
(* returns the set of its results: one, or none where the ingester refuses *)
(* the source.                                                             *)
(***************************************************************************)
EXTENDS CSource, BodyRewrite

\* Quod expressions beside those of Statements.
IntLit(t, n) == [kind |-> "int_lit", type |-> t, value |-> n]
FloatLit(n) == [kind |-> "float_lit", value |-> n]
StringRef(x) == [kind |-> "string_ref", name |-> x]
ParamRef(x) == [kind |-> "param", name |-> x]
BinOp(op, l, r) == [kind |-> "binop", op |-> op, lhs |-> l, rhs |-> r]
ShortCircuitOr(l, r) == [kind |-> "or", lhs |-> l, rhs |-> r]
FNeg(e) == [kind |-> "fneg", operand |-> e]
IfExpr(c, t, e) == [kind |-> "if_expr", cond |-> c, then |-> t, else |-> e]
Cast(t, e) == [kind |-> "cast", target |-> t, value |-> e]
Load(p, t) == [kind |-> "load", ptr |-> p, type |-> t]
LoadField(p, s, x) == [kind |-> "load_field", ptr |-> p, struct |-> s, name |-> x]
FieldRead(e, x) == [kind |-> "field_read", value |-> e, name |-> x]
StructInit(s, inits) == [kind |-> "struct_init", struct |-> s, fields |-> inits]
PtrOffset(p, o) == [kind |-> "ptr_offset", base |-> p, offset |-> o]

LetTyped(x, t, e) == [kind |-> "let", name |-> x, type |-> t, init |-> e]
StoreField(p, s, x, e) ==
    [kind |-> "store_field", ptr |-> p, struct |-> s, name |-> x, value |-> e]

\* One pick from each of a sequence of sets.
Picks(sets) ==
    LET Of[n \in 0 .. Len(sets)] ==
            IF n = 0 THEN {<<>>} ELSE {Append(a, x) : a \in Of[n - 1], x \in sets[n]}
    IN  Of[Len(sets)]

-----------------------------------------------------------------------------
(* Types and operators.                                                    *)

IntTypes == [CHAR_S |-> "i8", UCHAR |-> "u8", INT |-> "i32", UINT |-> "u32",
             LONG |-> "i64", ULONG |-> "u64"]
IntTypeFor(t) == IF IsInt(t) THEN {IntTypes[t.kind]} ELSE {}
OrI32(ts) == IF ts = {} THEN "i32" ELSE CHOOSE t \in ts : TRUE
SignedType(q) == q \in {"i8", "i32", "i64"}

ScalarType(t) ==
    CASE IsInt(t) -> IntTypeFor(t)
      [] t.kind = "POINTER" -> {"i8_ptr"}
      [] t.kind = "DOUBLE" -> {"f64"}
      [] OTHER -> {}
LocalType(t) ==
    IF t.kind = "RECORD" THEN {t.name} \cap DOMAIN Structs ELSE ScalarType(t)
ReturnType(t) == IF t = CVoid THEN {"void"} ELSE ScalarType(t)
SizeofQuodType(q) ==
    CASE q \in {"i8", "u8"} -> {1} [] q \in {"i32", "u32"} -> {4}
      [] q \in {"i64", "u64", "f64"} -> {8} [] OTHER -> {}

SignedOps == ("+" :> "add") @@ ("-" :> "sub") @@ ("*" :> "mul") @@ ("/" :> "sdiv")
    @@ ("%" :> "srem") @@ ("<" :> "slt") @@ ("<=" :> "sle") @@ (">" :> "sgt") @@ (">=" :> "sge")
    @@ ("==" :> "eq") @@ ("!=" :> "ne") @@ ("|" :> "or") @@ ("&" :> "and") @@ ("^" :> "xor")
    @@ ("<<" :> "shl") @@ (">>" :> "ashr")
UnsignedOps == ("/" :> "udiv") @@ ("%" :> "urem") @@ ("<" :> "ult") @@ ("<=" :> "ule")
    @@ (">" :> "ugt") @@ (">=" :> "uge") @@ (">>" :> "lshr") @@ SignedOps
FloatOps == ("+" :> "fadd") @@ ("-" :> "fsub") @@ ("*" :> "fmul") @@ ("/" :> "fdiv")
    @@ ("%" :> "frem") @@ ("<" :> "flt") @@ ("<=" :> "fle") @@ (">" :> "fgt")
    @@ (">=" :> "fge") @@ ("==" :> "feq") @@ ("!=" :> "fne")
I1Ops == {"slt", "sle", "sgt", "sge", "eq", "ne", "ult", "ule", "ugt", "uge",
          "feq", "fne", "flt", "fle", "fgt", "fge"}

\* The operator of a C binary operator or, without its `=`, of a compound
\* assignment, by the signedness of its left operand's type.
\* Mutant: always the signed one.
SignedIntOp(tok, t) == {SignedOps[tok]}

IntOp(tok, t) ==
    LET signed == \A q \in IntTypeFor(t) : SignedType(q)
    IN  {(IF signed THEN SignedOps ELSE UnsignedOps)[tok]}

IsI1Typed(e) == (e.kind = "binop" /\ e.op \in I1Ops) \/ e.kind \in {"and", "or"}

-----------------------------------------------------------------------------
(* Expressions.  env holds the parameters, the locals declared so far,     *)
(* whether the function returns void and the name given to each text.      *)

RECURSIVE Unwrap(_)
Unwrap(c) == IF c.kind = "UNEXPOSED_EXPR" THEN Unwrap(c.inner) ELSE c

Ref(env, x) ==
    CASE x \in env.params -> {ParamRef(x)} [] x \in env.locals -> {LocalRef(x)} [] OTHER -> {}

\* The type of a conversion C inserted, where quod has both types and they
\* differ.
ImplicitCast(c) ==
    IF c.kind # "UNEXPOSED_EXPR" \/ LocalType(c.inner.type) = {} THEN {}
    ELSE LocalType(c.type) \ LocalType(c.inner.type)

RECURSIVE Expr(_, _)

\* The offset of a pointer, in bytes and of type i64.
RECURSIVE I64Offset(_, _)
I64Offset(env, cursor) ==
    LET c == Unwrap(cursor)
    IN  CASE c.kind = "INTEGER_LITERAL" -> {IntLit("i64", c.value)}
          [] /\ c.kind = "UNARY_OPERATOR"
             /\ c.op = "-"
             /\ Unwrap(c.inner).kind = "INTEGER_LITERAL" ->
                 {IntLit("i64", -Unwrap(c.inner).value)}
          [] OTHER -> {Cast("i64", e) : e \in Expr(env, cursor)}

ByteStrideOffset(env, c, size) ==
    {CASE size = 1 -> i
       [] size # 1 /\ i.kind = "int_lit" -> IntLit("i64", i.value * size)
       [] OTHER -> BinOp("mul", i, IntLit("i64", size)) : i \in I64Offset(env, c)}

PointerElementSize(c) ==
    IF c.type.kind # "POINTER" THEN {}
    ELSE UNION {SizeofQuodType(q) : q \in ScalarType(c.type.pointee)}

\* The address ptr[index]; the conversions around both are dropped.
ElementAddress(env, ptr, index) ==
    UNION {{PtrOffset(b, o) : b \in Expr(env, Unwrap(ptr)), o \in ByteStrideOffset(env, Unwrap(index), size)} :
             size \in PointerElementSize(Unwrap(ptr))}

PointerAdd(env, c) ==
    LET isPtr(e) == Unwrap(e).type.kind = "POINTER"
    IN  IF isPtr(c.lhs) THEN (IF isPtr(c.rhs) THEN {} ELSE ElementAddress(env, c.lhs, c.rhs))
        ELSE ElementAddress(env, c.rhs, c.lhs)

Binary2(env, c) ==
    LET isFloat(e) == e.type.kind = "DOUBLE"
        ops == IF isFloat(c.lhs) /\ isFloat(c.rhs)
                 THEN (IF c.op \in DOMAIN FloatOps THEN {FloatOps[c.op]} ELSE {})
                 ELSE IntOp(c.op, c.lhs.type)
    IN  CASE c.op = "+" /\ "POINTER" \in {Unwrap(c.lhs).type.kind, Unwrap(c.rhs).type.kind} ->
               PointerAdd(env, c)
          [] c.op = "&&" -> {ShortCircuitAnd(l, r) : l \in Expr(env, c.lhs), r \in Expr(env, c.rhs)}
          [] c.op = "||" -> {ShortCircuitOr(l, r) : l \in Expr(env, c.lhs), r \in Expr(env, c.rhs)}
          [] OTHER -> {BinOp(op, l, r) : op \in ops, l \in Expr(env, c.lhs), r \in Expr(env, c.rhs)}

Negated(c, e) ==
    CASE e.kind = "float_lit" -> FloatLit(-e.value)
      [] e.kind # "float_lit" /\ c.inner.type.kind = "DOUBLE" -> FNeg(e)
      [] e.kind = "int_lit" -> IntLit(e.type, -e.value)
      [] OTHER -> BinOp("sub", IntLit(OrI32(IntTypeFor(c.inner.type)), 0), e)

Unary(env, c) ==
    LET operand == Expr(env, c.inner)
        lit(n) == IntLit(OrI32(IntTypeFor(c.inner.type)), n)
        inner == Unwrap(c.inner)
    IN  CASE c.op = "&" -> IF inner.kind # "ARRAY_SUBSCRIPT_EXPR" THEN {}
                           ELSE ElementAddress(env, inner.base, inner.index)
          [] c.op = "-" -> {Negated(c, e) : e \in operand}
          [] c.op = "+" -> operand
          [] c.op = "*" -> {Load(e, q) : e \in operand, q \in LocalType(c.type)}
          [] c.op = "!" -> {BinOp("eq", e, lit(0)) : e \in operand}
          [] c.op = "~" -> {BinOp("xor", e, lit(-1)) : e \in operand}
          [] OTHER -> {}

\* The signature an external function is recorded with, if quod has its types.
FenvApi == {"fesetround", "fegetround"}
ExternSignature(f) ==
    LET p == Prototypes[f]
    IN  {[params |-> ps, result |-> r] :
           ps \in Picks([i \in DOMAIN p.params |-> ScalarType(p.params[i])]), r \in ReturnType(p.result)}
CallExpr(env, c) ==
    IF c.fn \in FenvApi \/ ExternSignature(c.fn) = {} THEN {}
    ELSE {Call(c.fn, args) : args \in Picks([i \in DOMAIN c.args |-> Expr(env, c.args[i])])}

\* The structure a pointer-typed cursor points at.
PointedStruct(c) ==
    IF c.type.kind = "POINTER" /\ c.type.pointee.kind = "RECORD"
      THEN {c.type.pointee.name} \cap DOMAIN Structs ELSE {}
MemberRef(env, c) ==
    LET base == Unwrap(c.base)
    IN  CASE LocalType(c.type) = {} -> {}
          [] base.type.kind = "POINTER" ->
               {LoadField(p, s, c.name) : p \in Expr(env, base), s \in PointedStruct(base)}
          [] OTHER -> {FieldRead(e, c.name) : e \in Expr(env, base)}

\* Initialisers pair with the fields in the order of their declaration; there
\* may be fewer.
InitListExpr(env, c) ==
    IF c.type.kind # "RECORD" \/ Len(c.items) > Len(Structs[c.type.name]) THEN {}
    ELSE {StructInit(c.type.name, [i \in DOMAIN es |-> [name |-> Structs[c.type.name][i].name, value |-> es[i]]]) :
            es \in Picks([i \in DOMAIN c.items |-> Expr(env, c.items[i])])}

TernaryExpr(env, c) ==
    {IfExpr(IF IsI1Typed(e) THEN e ELSE BinOp("ne", e, IntLit("i32", 0)), a, b) :
       e \in Expr(env, c.cond), a \in Expr(env, c.then), b \in Expr(env, c.else)}

BareExpr(env, c) ==
    CASE c.kind = "INTEGER_LITERAL" -> {IntLit(q, c.value) : q \in IntTypeFor(c.type)}
      [] c.kind = "FLOATING_LITERAL" -> {FloatLit(c.value)}
      [] c.kind = "STRING_LITERAL" -> {StringRef(env.strings[c.value])}
      [] c.kind = "ENUM_CONSTANT" -> {IntLit("i32", c.value)}
      [] c.kind = "DECL_REF_EXPR" -> Ref(env, c.name)
      [] c.kind = "CSTYLE_CAST_EXPR" -> {Cast(q, e) : q \in LocalType(c.type), e \in Expr(env, c.inner)}
      [] c.kind = "UNARY_OPERATOR" -> Unary(env, c)
      [] c.kind = "BINARY_OPERATOR" -> Binary2(env, c)
      [] c.kind = "CALL_EXPR" -> CallExpr(env, c)
      [] c.kind = "MEMBER_REF_EXPR" -> MemberRef(env, c)
      [] c.kind = "INIT_LIST_EXPR" -> InitListExpr(env, c)
      [] c.kind = "ARRAY_SUBSCRIPT_EXPR" ->
           {Load(p, q) : p \in ElementAddress(env, c.base, c.index), q \in LocalType(c.type)}
      [] c.kind = "CONDITIONAL_OPERATOR" -> TernaryExpr(env, c)
      [] OTHER -> {}

Expr(env, c) ==
    IF ImplicitCast(c) # {} THEN {Cast(q, e) : q \in ImplicitCast(c), e \in Expr(env, c.inner)}
    ELSE BareExpr(env, Unwrap(c))
=============================================================================
