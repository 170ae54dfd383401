------------------------- MODULE MonomorphizeProofs -------------------------
(***************************************************************************)
(* The worklist of monomorphize() holds no instance twice and builds none  *)
(* twice; the program that comes out is monomorphic, with every trait call *)
(* resolved to a function its implementation brought; and the pass         *)
(* implements InstanceWorklist, so that the instances it builds are the    *)
(* least set closed under what they mention, in whatever order Python's    *)
(* sets are walked.  For every set of programs, instances and tokens.      *)
(***************************************************************************)
EXTENDS Monomorphize, NatRecursion, SequenceTheorems, TLAPS


-----------------------------------------------------------------------------
(* The invariant.                                                          *)

\* A site that needs no more work but the resolution of its trait call.
SitePlain(s) ==
    /\ s.trait # "" => s.op = "trait"
    /\ IF s.op \in {"type", "trait"} THEN Plain(s.args[1]) ELSE s.args = <<>>

\* A name from the program text, or of a method.
Given(n) == n \in Seq(Token) /\ n # <<>> /\ (Len(n) = 1 \/ n[Len(n)] # ">")

\* The name of what an instance is built as.
InstanceName(k) == Mangle(k[1], k[2])

\* Every method an index entry promises is a function, and the one its trait
\* brought when no two traits of a type share the name of a method.
Backed(e, all) ==
    \A m \in e.methods : \E g \in all :
        g.name = MethodName(e.target, m) /\ (MethodsApart(program) => g.from = e.trait)

\* An index entry is of an implementation in the program.
ImplOf(e) ==
    /\ e.target \in Seq(Token) /\ e.target # <<>>
    /\ \E j \in DOMAIN program.impls :
          /\ e.trait = program.impls[j].trait
          /\ e.methods = {m.name : m \in program.impls[j].methods}
          /\ e.target[1] = program.impls[j].for.name[1]

\* What is built was in the program or is an instance taken from the worklist.
NamesAccounted ==
    \A n \in BuiltNames : Given(n) \/ \E k \in seen \ Waiting : n = InstanceName(k)

\* TypeOK needs to know where the built names come from.  Monomorphic needs
\* to know, before the rewrite, that nothing generic is left in a body and
\* that the index promises nothing that out_fns does not have.
IInv ==
    /\ TypeOK
    /\ pending \in Seq(SUBSET Instance)
    /\ stage = "load" => fns = {}
    /\ \A d \in types : \A i \in DOMAIN d.fields : Concrete(d.fields[i])
    /\ \A f \in fns : \A s \in f.sites : SitePlain(s)
    /\ NamesAccounted
    /\ \A e \in impls : ImplOf(e) /\ Backed(e, PromoteImpls(program) \cup fns)
    /\ Monomorphic

-----------------------------------------------------------------------------
(* Sequences.                                                              *)

\* A sequence of one element.
LEMMA OneElement ==
    ASSUME NEW S, NEW x \in S
    PROVE  <<x>> \in Seq(S) /\ Len(<<x>>) = 1 /\ <<x>>[1] = x /\ <<x>> # <<>>
OBVIOUS

\* A sequence of two elements.
LEMMA TwoElements ==
    ASSUME NEW S, NEW x \in S, NEW y \in S
    PROVE  <<x, y>> \in Seq(S) /\ Len(<<x, y>>) = 2 /\ <<x, y>>[1] = x /\ <<x, y>>[2] = y
OBVIOUS

\* c is s followed by t.
Joins(c, s, t) ==
    /\ Len(c) = Len(s) + Len(t)
    /\ \A i \in 1 .. Len(s) : c[i] = s[i]
    /\ \A i \in 1 .. Len(t) : c[Len(s) + i] = t[i]

\* The elements of a concatenation.
LEMMA ConcatJoins ==
    ASSUME NEW S, NEW s \in Seq(S), NEW t \in Seq(S)
    PROVE  s \o t \in Seq(S) /\ Joins(s \o t, s, t)
<1>1. /\ s \o t \in Seq(S) /\ Len(s) \in Nat /\ Len(t) \in Nat
      /\ Len(s \o t) = Len(s) + Len(t)
      /\ \A i \in 1 .. Len(s) + Len(t) : (s \o t)[i] = IF i <= Len(s) THEN s[i] ELSE t[i - Len(s)]
  BY ConcatProperties
<1>2. ASSUME NEW i \in 1 .. Len(s) PROVE (s \o t)[i] = s[i]
  <2>1. i \in 1 .. Len(s) + Len(t) /\ i <= Len(s)
    BY <1>1
  <2> QED
    BY <1>1, <2>1
<1>3. ASSUME NEW i \in 1 .. Len(t) PROVE (s \o t)[Len(s) + i] = t[i]
  <2>1. Len(s) + i \in 1 .. Len(s) + Len(t) /\ ~(Len(s) + i <= Len(s)) /\ Len(s) + i - Len(s) = i
    BY <1>1
  <2> QED
    BY <1>1, <2>1
<1> QED
  BY <1>1, <1>2, <1>3 DEF Joins

\* A sequence with an element is not the empty one.
LEMMA NotEmpty ==
    ASSUME NEW S, NEW s \in Seq(S), Len(s) >= 1
    PROVE  s # <<>>
OBVIOUS

-----------------------------------------------------------------------------
(* Names.                                                                  *)

\* The symbol of a method is not the name of an instance and tells its type
\* and its method.
LEMMA MethodNames ==
    ASSUME NEW t \in Seq(Token), NEW m \in Token \ {">"},
           NEW u \in Seq(Token), NEW n \in Token \ {">"}
    PROVE  /\ Given(MethodName(t, m))
           /\ MethodName(t, m) = MethodName(u, n) => t = u /\ m = n
<1> DEFINE x == MethodName(t, m)
           y == MethodName(u, n)
<1>0. ASSUME NEW s \in Seq(Token), NEW z \in Token
      PROVE  /\ MethodName(s, z) \in Seq(Token)
             /\ Len(MethodName(s, z)) = Len(s) + 2 /\ MethodName(s, z)[Len(s) + 2] = z
             /\ \A i \in 1 .. Len(s) : MethodName(s, z)[i] = s[i]
  <2> DEFINE end == <<"::", z>>
             e == s \o end
  <2>1. end \in Seq(Token) /\ Len(end) = 2 /\ end[2] = z
    BY TokenAssumption, TwoElements
  <2> HIDE DEF end
  <2>2. e \in Seq(Token) /\ Joins(e, s, end)
    BY <2>1, ConcatJoins
  <2>3. MethodName(s, z) = e
    BY DEF MethodName, end
  <2> HIDE DEF e
  <2>4. Len(s) \in Nat /\ 2 \in 1 .. Len(end)
    BY <2>1
  <2> QED
    BY <2>1, <2>2, <2>3, <2>4 DEF Joins
<1>1. /\ x \in Seq(Token) /\ Len(x) = Len(t) + 2 /\ x[Len(t) + 2] = m
      /\ \A i \in 1 .. Len(t) : x[i] = t[i]
  BY <1>0
<1>2. /\ y \in Seq(Token) /\ Len(y) = Len(u) + 2 /\ y[Len(u) + 2] = n
      /\ \A i \in 1 .. Len(u) : y[i] = u[i]
  BY <1>0
<1> HIDE DEF x, y
<1>3. Given(x)
  BY <1>1 DEF Given
<1>4. ASSUME x = y PROVE t = u /\ m = n
  <2>1. Len(t) = Len(u)
    BY <1>1, <1>2, <1>4
  <2>2. t = u
    BY <1>1, <1>2, <1>4, <2>1, SeqEqual
  <2> QED
    BY <1>1, <1>2, <1>4, <2>1
<1> QED
  BY <1>3, <1>4 DEF x, y

\* c starts as n does and ends with ">".
Brackets(c, n) == c \in Seq(Token) /\ Len(c) > 2 /\ c[1] = n[1] /\ c[Len(c)] = ">"

\* A name with arguments starts as it does without them, and ends with ">".
LEMMA BracketedName ==
    ASSUME NEW n \in Seq(Token), n # <<>>, NEW args \in Seq(Token), NEW c,
           c = n \o <<"<">> \o args \o <<">">>
    PROVE  Brackets(c, n)
<1> DEFINE open == <<"<">>
           close == <<">">>
           a == n \o open
           b == a \o args
<1>1. open \in Seq(Token) /\ Len(open) = 1 /\ close \in Seq(Token) /\ Len(close) = 1 /\ close[1] = ">"
  BY TokenAssumption, OneElement
<1>2. c = b \o close
  OBVIOUS
<1> HIDE DEF open, close
<1>3. a \in Seq(Token) /\ Joins(a, n, open)
  BY <1>1, ConcatJoins
<1> HIDE DEF a
<1>4. b \in Seq(Token) /\ Joins(b, a, args)
  BY <1>3, ConcatJoins
<1> HIDE DEF b
<1>5. c \in Seq(Token) /\ Joins(c, b, close)
  BY <1>1, <1>2, <1>4, ConcatJoins
<1>6. Len(n) \in Nat /\ Len(n) >= 1 /\ Len(args) \in Nat
  OBVIOUS
<1>7. Len(a) = Len(n) + 1 /\ a[1] = n[1]
  BY <1>1, <1>3, <1>6 DEF Joins
<1>8. Len(b) = Len(n) + 1 + Len(args) /\ b[1] = n[1]
  BY <1>4, <1>6, <1>7 DEF Joins
<1> QED
  BY <1>1, <1>5, <1>6, <1>8 DEF Joins, Brackets

\* The name of an applied generic starts with the name of its template.
LEMMA AppliedName ==
    ASSUME NEW t, t.args # <<>>, t.name \in Seq(Token), t.name # <<>>, ArgNames(t.args) \in Seq(Token)
    PROVE  Brackets(TypeName(t), t.name)
<1>1. TypeName(t) = t.name \o <<"<">> \o ArgNames(t.args) \o <<">">>
  BY DEF TypeName
<1> QED
  BY <1>1, BracketedName

\* The name of an instance is given to nothing that is not one.
LEMMA InstanceNames ==
    ASSUME NEW k \in Instance
    PROVE  /\ ~Given(InstanceName(k))
           /\ \A l \in Instance : InstanceName(k) = InstanceName(l) => k = l
<1> DEFINE t == Type("struct", k[1], k[2])
<1>1. t.args = k[2] /\ t.name = k[1]
  BY DEF Type
<1> HIDE DEF t
<1>2. Brackets(TypeName(t), t.name)
  BY <1>1, AppliedName, InstanceAssumption
<1>3. InstanceName(k) = TypeName(t)
  BY DEF InstanceName, Mangle, t
<1>4. ~Given(InstanceName(k))
  BY <1>2, <1>3 DEF Given, Brackets
<1>5. \A l \in Instance : InstanceName(k) = InstanceName(l) => k = l
  BY InstanceAssumption, Zenon DEF InstanceName
<1> QED
  BY <1>4, <1>5

-----------------------------------------------------------------------------
(* The worklist.                                                           *)

\* Stacks of batches, what waits in one, and that nothing waits in it twice.
Batches == Seq(SUBSET Instance)
WaitingIn(st) == UNION {st[i] : i \in DOMAIN st}
Apart(st) == \A i, j \in DOMAIN st : i # j => st[i] \cap st[j] = {}

\* s is st with what is in b on top.
Tops(s, st, b) ==
    /\ s \in Batches
    /\ WaitingIn(s) = WaitingIn(st) \cup b
    /\ Apart(st) /\ WaitingIn(st) \cap b = {} => Apart(s)

\* A batch goes on top of a stack.
LEMMA BatchTops ==
    ASSUME NEW st \in Batches, NEW b \in SUBSET Instance
    PROVE  Tops(st \o Batch(b), st, b)
<1>1. CASE b = {}
  <2>1. st \o Batch(b) = st
    BY <1>1, ConcatEmptySeq DEF Batch, Batches
  <2> QED
    BY <1>1, <2>1 DEF Tops
<1>2. CASE b # {}
  <2> DEFINE one == <<b>>
             s == st \o one
  <2>1. one \in Batches /\ Len(one) = 1 /\ one[1] = b
    BY OneElement DEF Batches
  <2>2. Batch(b) = one
    BY <1>2 DEF Batch
  <2> HIDE DEF one
  <2>3. s \in Batches /\ Joins(s, st, one)
    BY <2>1, ConcatJoins DEF Batches
  <2> HIDE DEF s
  <2> DEFINE n == Len(st)
  <2>4. n \in Nat /\ DOMAIN st = 1 .. n /\ DOMAIN s = 1 .. n + 1
    BY <2>1, <2>3 DEF Joins, Batches
  <2>5. /\ \A i \in 1 .. n : s[i] = st[i]
        /\ s[n + 1] = b
    BY <2>1, <2>3, <2>4 DEF Joins
  <2> HIDE DEF n
  <2>6. \A i \in 1 .. n + 1 : i \in 1 .. n \/ i = n + 1
    BY <2>4
  <2>7. 1 .. n \subseteq 1 .. n + 1 /\ n + 1 \in 1 .. n + 1
    BY <2>4
  <2>8. WaitingIn(s) = WaitingIn(st) \cup b
    BY <2>4, <2>5, <2>6, <2>7 DEF WaitingIn
  <2>9. ASSUME Apart(st), WaitingIn(st) \cap b = {}
        PROVE  Apart(s)
    <3>1. \A i \in 1 .. n : st[i] \cap b = {}
      BY <2>4, <2>9 DEF WaitingIn
    <3> QED
      BY <2>4, <2>5, <2>6, <2>9, <3>1 DEF Apart
  <2> QED
    BY <2>2, <2>3, <2>8, <2>9 DEF Tops, s
<1> QED
  BY <1>1, <1>2

\* An instance is taken from the last batch: the others wait as before.
LEMMA PoppedIs ==
    ASSUME pending \in Batches, Apart(pending), pending # <<>>, NEW k \in Last(pending)
    PROVE  /\ Popped(k) \in Batches /\ Apart(Popped(k))
           /\ WaitingIn(Popped(k)) = Waiting \ {k} /\ k \in Waiting
<1> DEFINE n == Len(pending)
           f == Front(pending)
           l == Last(pending)
<1>1. n \in Nat /\ n # 0 /\ DOMAIN pending = 1 .. n
  BY DEF Batches
<1>2. l = pending[n] /\ n \in 1 .. n /\ l \in SUBSET Instance
  <2>1. l = pending[n] /\ n \in 1 .. n
    BY <1>1 DEF Last
  <2> QED
    BY <2>1, ElementOfSeq DEF Batches
<1>3. f \in Batches /\ Len(f) = n - 1 /\ DOMAIN f = 1 .. n - 1 /\ \A i \in 1 .. n - 1 : f[i] = pending[i]
  <2>1. f = SubSeq(pending, 1, n - 1)
    BY DEF Front
  <2>2. \A i \in 1 .. n - 1 : pending[i] \in SUBSET Instance
    BY <1>1, ElementOfSeq DEF Batches
  <2>3. /\ f \in Seq(SUBSET Instance)
        /\ Len(f) = IF 1 <= n - 1 THEN n - 1 - 1 + 1 ELSE 0
        /\ \A i \in 1 .. n - 1 - 1 + 1 : f[i] = pending[1 + i - 1]
    <3>1. n - 1 \in Int /\ 1 \in Int
      BY <1>1
    <3> QED
      BY <2>1, <2>2, <3>1, SubSeqProperties
  <2> HIDE DEF f, n
  <2> QED
    BY <1>1, <2>3 DEF Batches
<1> HIDE DEF f, n, l
<1>4. \A i \in 1 .. n : i \in 1 .. n - 1 \/ i = n
  BY <1>1
<1>5. 1 .. n - 1 \subseteq 1 .. n /\ \A i \in 1 .. n - 1 : i # n
  BY <1>1
<1>6. Waiting = WaitingIn(f) \cup l
  BY <1>1, <1>2, <1>3, <1>4, <1>5 DEF Waiting, WaitingIn
<1>7. Apart(f) /\ WaitingIn(f) \cap l = {}
  BY <1>1, <1>2, <1>3, <1>5 DEF Apart, WaitingIn
<1>8. Tops(Popped(k), f, l \ {k})
  BY <1>2, <1>3, BatchTops DEF Popped, f, l
<1> QED
  BY <1>6, <1>7, <1>8 DEF Tops, l

\* The worklist while batches are pushed.
Stacks == [stack : Batches, seen : SUBSET Instance]

\* g[k] is the worklist after the first k batches.
Pushes(g, stack, batches) ==
    /\ g[0] = [stack |-> stack, seen |-> seen]
    /\ \A k \in 1 .. Len(batches) : g[k] = Add(g[k - 1], batches[k])
    /\ Push(stack, batches) = g[Len(batches)]

\* Push adds one batch after the other.
LEMMA PushGoesOn ==
    ASSUME seen \in SUBSET Instance, NEW stack \in Batches, NEW batches \in Batches
    PROVE  \E g : Pushes(g, stack, batches)
<1> DEFINE n == Len(batches)
           start == [stack |-> stack, seen |-> seen]
           F == [k \in 1 .. n |-> [acc \in Stacks |-> Add(acc, batches[k])]]
           IsUpTo(g) == g = [k \in 0 .. n |-> IF k = 0 THEN start ELSE Add(g[k - 1], batches[k])]
<1>1. n \in Nat /\ start \in Stacks
  BY DEF Batches, Stacks
<1>2. F \in [1 .. n -> [Stacks -> Stacks]]
  <2>1. ASSUME NEW k \in 1 .. n, NEW acc \in Stacks
        PROVE  Add(acc, batches[k]) \in Stacks
    <3>1. batches[k] \in SUBSET Instance
      BY ElementOfSeq DEF Batches
    <3>2. acc.stack \in Batches /\ acc.seen \in SUBSET Instance
      BY DEF Stacks
    <3>3. batches[k] \ acc.seen \in SUBSET Instance
      BY <3>1
    <3>4. acc.stack \o Batch(batches[k] \ acc.seen) \in Batches
      BY <3>2, <3>3, BatchTops DEF Tops
    <3>5. acc.seen \cup batches[k] \in SUBSET Instance
      BY <3>1, <3>2
    <3> QED
      BY <3>4, <3>5 DEF Add, Stacks
  <2> QED
    BY <2>1
<1> HIDE DEF start
<1>3. PICK g : IteratesTo(g, n, Stacks, start, F)
  <2> HIDE DEF F, n
  <2> QED
    BY <1>1, <1>2, BoundedIterationExists
<1>4. IsUpTo(g)
  <2>1. \A k \in 1 .. n : k - 1 \in 0 .. n
    BY <1>1
  <2>2. \A k \in 1 .. n : g[k] = Add(g[k - 1], batches[k])
    BY <1>3, <2>1 DEF IteratesTo
  <2>3. g[0] = start /\ g = [k \in 0 .. n |-> g[k]]
    BY <1>3 DEF IteratesTo
  <2> HIDE DEF n, F
  <2>4. \A k \in 0 .. n : k = 0 \/ k \in 1 .. n
    BY <1>1
  <2>5. \A k \in 0 .. n : g[k] = IF k = 0 THEN start ELSE Add(g[k - 1], batches[k])
    BY <2>2, <2>3, <2>4
  <2> QED
    BY <2>3, <2>5
<1> DEFINE f == CHOOSE f : IsUpTo(f)
<1>5. IsUpTo(f)
  BY <1>4
<1>6. Push(stack, batches) = f[n]
  BY DEF Push, start
<1> HIDE DEF f
<1>7. f[0] = start /\ \A k \in 1 .. n : f[k] = Add(f[k - 1], batches[k])
  <2> DEFINE h == [k \in 0 .. n |-> IF k = 0 THEN start ELSE Add(f[k - 1], batches[k])]
  <2>1. h[0] = start /\ \A k \in 1 .. n : h[k] = Add(f[k - 1], batches[k])
    BY <1>1
  <2>2. f = h
    BY <1>5
  <2> HIDE DEF h
  <2>3. \A k \in 1 .. n : f[k] = h[k]
    BY <2>2
  <2> QED
    BY <2>1, <2>2, <2>3
<1> QED
  BY <1>6, <1>7 DEF Pushes, start

\* r is stack with what is in S and was not seen before; all of S is seen.
Gains(r, stack, S) ==
    /\ r.stack \in Batches
    /\ Apart(r.stack)
    /\ r.seen = seen \cup S
    /\ WaitingIn(r.stack) = WaitingIn(stack) \cup (S \ seen)

\* One batch more.
LEMMA AddGains ==
    ASSUME NEW stack, WaitingIn(stack) \subseteq seen, NEW r, NEW S \in SUBSET Instance,
           Gains(r, stack, S), NEW b \in SUBSET Instance
    PROVE  Gains(Add(r, b), stack, S \cup b)
<1> DEFINE s == r.stack \o Batch(b \ r.seen)
<1>1. Tops(s, r.stack, b \ r.seen)
  BY BatchTops DEF Gains
<1> HIDE DEF s
<1>2. WaitingIn(r.stack) \subseteq r.seen
  BY DEF Gains
<1>3. Add(r, b).stack = s /\ Add(r, b).seen = r.seen \cup b
  BY DEF Add, s
<1>4. s \in Batches /\ Apart(s)
  BY <1>1, <1>2 DEF Gains, Tops
<1>5. WaitingIn(s) = WaitingIn(stack) \cup ((S \cup b) \ seen)
  BY <1>1 DEF Gains, Tops
<1>6. r.seen \cup b = seen \cup (S \cup b)
  BY DEF Gains
<1> QED
  BY <1>3, <1>4, <1>5, <1>6 DEF Gains

\* What is queued is what the batches have and was not seen before.
LEMMA PushGains ==
    ASSUME seen \in SUBSET Instance, NEW stack \in Batches, NEW batches \in Batches,
           Apart(stack), WaitingIn(stack) \subseteq seen
    PROVE  Gains(Push(stack, batches), stack, WaitingIn(batches))
<1> DEFINE n == Len(batches)
           upTo(k) == UNION {batches[i] : i \in 1 .. k}
<1>1. PICK g : Pushes(g, stack, batches)
  BY PushGoesOn
<1>2. n \in Nat /\ DOMAIN batches = 1 .. n /\ \A k \in 1 .. n : batches[k] \in SUBSET Instance
  BY ElementOfSeq DEF Batches
<1>3. g[0].stack = stack /\ g[0].seen = seen
  BY <1>1 DEF Pushes
<1>4. \A k \in 1 .. n : g[k] = Add(g[k - 1], batches[k])
  BY <1>1 DEF Pushes
<1> HIDE DEF n
<1>5. upTo(0) = {} /\ \A k \in Nat : upTo(k + 1) = upTo(k) \cup batches[k + 1]
  <2>1. 1 .. 0 = {}
    OBVIOUS
  <2>2. ASSUME NEW k \in Nat PROVE 1 .. k + 1 = (1 .. k) \cup {k + 1}
    OBVIOUS
  <2> QED
    BY <2>1, <2>2
<1>6. \A k \in Nat : k <= n => upTo(k) \in SUBSET Instance
  <2>1. ASSUME NEW k \in Nat, k <= n, NEW i \in 1 .. k PROVE i \in 1 .. n
    BY <1>2, <2>1
  <2> QED
    BY <1>2, <2>1
<1>7. upTo(n) = WaitingIn(batches)
  BY <1>2 DEF WaitingIn
<1> HIDE DEF upTo
<1> DEFINE P == {k \in Nat : k <= n => Gains(g[k], stack, upTo(k))}
<1>8. 0 \in P
  BY <1>3, <1>5 DEF Gains
<1>9. ASSUME NEW k \in Nat, k \in P PROVE k + 1 \in P
  <2> SUFFICES ASSUME k + 1 <= n PROVE Gains(g[k + 1], stack, upTo(k + 1))
    OBVIOUS
  <2>1. k + 1 \in 1 .. n /\ k + 1 - 1 = k /\ k <= n
    BY <1>2
  <2>2. g[k + 1] = Add(g[k], batches[k + 1])
    BY <1>4, <2>1
  <2>3. Gains(g[k], stack, upTo(k))
    BY <1>9, <2>1
  <2>4. Gains(Add(g[k], batches[k + 1]), stack, upTo(k) \cup batches[k + 1])
    BY <1>2, <1>6, <2>1, <2>3, AddGains
  <2> QED
    BY <1>5, <2>2, <2>4
<1> HIDE DEF P
<1>10. Nat \subseteq P
  BY <1>8, <1>9, NatSetInduction
<1>11. Gains(g[n], stack, upTo(n))
  BY <1>2, <1>10 DEF P
<1> QED
  BY <1>1, <1>7, <1>11 DEF Pushes, n

-----------------------------------------------------------------------------
(* Substitution and rewriting.                                             *)

\* A type whose parameters stand for concrete types becomes concrete.
LEMMA SubstitutedConcrete ==
    ASSUME NEW t, NEW names, ScopedIn(t, names), NEW env, \A n \in names : Concrete(env[n])
    PROVE  Concrete(SubstituteType(t, env))
<1>1. CASE t.kind = "param"
  <2>1. PICK n \in names : t.name = <<n>>
    BY <1>1 DEF ScopedIn
  <2>2. SubstituteType(t, env) = env[n]
    BY <1>1, <2>1 DEF SubstituteType
  <2> QED
    BY <2>2
<1>2. CASE t.kind # "param" /\ t.args = <<>>
  BY <1>2 DEF SubstituteType, Concrete, ScopedIn
<1>3. CASE t.kind # "param" /\ t.args # <<>>
  <2> DEFINE u == SubstituteType(t, env)
  <2>1. t.kind \in {"struct", "enum"}
    BY <1>3 DEF ScopedIn
  <2>2. u.kind = t.kind
    BY <1>3 DEF SubstituteType, Type
  <2> QED
    BY <2>1, <2>2 DEF Concrete, ScopedIn
<1> QED
  BY <1>1, <1>2, <1>3

\* A concrete type is rewritten to one without arguments.
LEMMA RewrittenPlain ==
    ASSUME NEW t, Concrete(t)
    PROVE  Plain(RewriteType(t)) /\ Concrete(RewriteType(t))
<1>1. CASE Applied(t)
  <2>1. RewriteType(t).kind = t.kind /\ RewriteType(t).args = <<>>
    BY <1>1 DEF RewriteType, Type
  <2> QED
    BY <1>1, <2>1 DEF Plain, Concrete, ScopedIn, Applied
<1>2. CASE ~Applied(t)
  BY <1>2 DEF RewriteType, Plain, Concrete, ScopedIn, Applied
<1> QED
  BY <1>1, <1>2

\* So is a site: what it mentions becomes concrete, and then plain.
LEMMA SubstitutedSite ==
    ASSUME NEW s, NEW names, SiteScopedIn(s, names), NEW env, \A n \in names : Concrete(env[n])
    PROVE  SiteScopedIn(SubstituteSite(s, env), {})
<1> DEFINE args == [i \in DOMAIN s.args |-> SubstituteType(s.args[i], env)]
           n == Len(s.args)
           u == SubstituteSite(s, env)
<1>1. n \in Nat /\ DOMAIN s.args = 1 .. n
  <2>1. s.args \in Seq(Range(s.args))
    BY DEF SiteScopedIn
  <2> QED
    BY <2>1, LenProperties
<1>2. u.op = s.op /\ u.trait = s.trait /\ u.args = args
  BY DEF SubstituteSite, Site
<1>3. \A i \in DOMAIN args : ScopedIn(args[i], {})
  BY SubstitutedConcrete DEF SiteScopedIn, Concrete
<1>4. args \in Seq(Range(args)) /\ Len(args) = n
  BY <1>1 DEF Range
<1>5. s.args = <<>> => args = <<>>
  <2>1. s.args = <<>> => n = 0
    OBVIOUS
  <2> HIDE DEF n, args
  <2> QED
    BY <1>4, <2>1
<1> HIDE DEF args, u
<1>6. /\ u.op \in {"type", "init", "call", "field", "trait", "if_expr"}
      /\ u.op \in {"type", "trait"} => Len(u.args) = 1
      /\ u.op = "if_expr" => u.args = <<>>
      /\ u.trait # "" => u.op = "trait"
  BY <1>2, <1>4, <1>5 DEF SiteScopedIn
<1> QED
  BY <1>2, <1>3, <1>4, <1>6 DEF SiteScopedIn, u

\* A site without type parameters is rewritten to one without arguments.
LEMMA RewrittenSite ==
    ASSUME NEW s, SiteScopedIn(s, {})
    PROVE  SitePlain(RewriteSite(s)) /\ RewriteSite(s).op = s.op
<1> DEFINE rewritten == [i \in DOMAIN s.args |-> RewriteType(s.args[i])]
           r == RewriteSite(s)
<1>1. \A i \in DOMAIN s.args : Plain(rewritten[i])
  BY RewrittenPlain DEF SiteScopedIn, Concrete
<1>2. s.args = <<>> => rewritten = <<>>
  <2>1. s.args = <<>> => DOMAIN s.args = {}
    OBVIOUS
  <2> QED
    BY <2>1
<1>3. r.op = s.op /\ r.trait = s.trait
  BY DEF RewriteSite, Site
<1>4. CASE s.op \in {"init", "call", "field"} /\ s.args # <<>>
  <2>1. r.args = <<>>
    BY <1>4 DEF RewriteSite, Site
  <2>2. s.op \notin {"type", "trait"}
    BY <1>4
  <2> QED
    BY <1>3, <2>1, <2>2 DEF SitePlain, SiteScopedIn
<1>5. CASE ~(s.op \in {"init", "call", "field"} /\ s.args # <<>>)
  <2>1. r.args = rewritten
    BY <1>5 DEF RewriteSite, Site
  <2> HIDE DEF rewritten, r
  <2>2. s.op \in {"type", "trait"} => Plain(r.args[1])
    <3>1. s.op \in {"type", "trait"} => 1 \in DOMAIN s.args
      <4>1. s.args \in Seq(Range(s.args)) /\ (s.op \in {"type", "trait"} => Len(s.args) = 1)
        BY DEF SiteScopedIn
      <4>2. DOMAIN s.args = 1 .. Len(s.args)
        BY <4>1, LenProperties
      <4> DEFINE d == DOMAIN s.args
                 n == Len(s.args)
      <4>3. d = 1 .. n /\ (s.op \in {"type", "trait"} => n = 1)
        BY <4>1, <4>2
      <4> HIDE DEF d, n
      <4>4. s.op \in {"type", "trait"} => 1 \in d
        BY <4>3
      <4> QED
        BY <4>4 DEF d
    <3> QED
      BY <1>1, <2>1, <3>1
  <2>3. s.op \notin {"type", "trait"} => r.args = <<>>
    BY <1>2, <1>5, <2>1 DEF SiteScopedIn
  <2> QED
    BY <1>3, <2>2, <2>3 DEF SitePlain, SiteScopedIn, r
<1> QED
  BY <1>4, <1>5

\* Every parameter of a template stands for an argument of the instance.
LEMMA EnvironmentConcrete ==
    ASSUME NEW params, params \in Seq(Range(params)), NEW args, args \in Seq(Range(args)),
           Len(params) = Len(args), \A i \in DOMAIN args : Concrete(args[i]),
           NEW n \in Named(params)
    PROVE  Concrete(Environment(params, args)[n])
<1> DEFINE i == CHOOSE i \in DOMAIN params : params[i].name = n
<1>1. i \in DOMAIN params
  BY DEF Named
<1>2. DOMAIN params = DOMAIN args
  OBVIOUS
<1>3. Environment(params, args)[n] = args[i]
  BY DEF Environment, Named
<1> QED
  BY <1>1, <1>2, <1>3

\* Every parameter of an implementation that fits does.
LEMMA BindingConcrete ==
    ASSUME NEW impl, impl.for.args \in Seq(Range(impl.for.args)), NEW args, args \in Seq(Range(args)),
           Len(impl.for.args) = Len(args), \A i \in DOMAIN args : Concrete(args[i]),
           IsGeneric(impl), NEW n \in ParamsOfTarget(impl)
    PROVE  Concrete(Binding(impl, args)[n])
<1> DEFINE params == {i \in DOMAIN args : impl.for.args[i].kind = "param"}
           j == CHOOSE i \in params : impl.for.args[i].name[1] = n
<1>1. DOMAIN impl.for.args = DOMAIN args
  OBVIOUS
<1>2. n \in {impl.for.args[i].name[1] : i \in params}
  BY <1>1 DEF ParamsOfTarget
<1>3. j \in params
  BY <1>2
<1>4. Binding(impl, args)[n] = args[j]
  BY <1>2 DEF Binding
<1> QED
  BY <1>3, <1>4

-----------------------------------------------------------------------------
(* Programs.                                                               *)

\* A definition has the scope the program gives it and a name of one token.
LEMMA TypeDefScoped ==
    ASSUME NEW p \in Programs, NEW d \in TypeDefs(p)
    PROVE  /\ d.params \in Seq(Range(d.params)) /\ d.fields \in Seq(Range(d.fields))
           /\ \A i \in DOMAIN d.fields : ScopedIn(d.fields[i], Named(d.params))
           /\ Given(d.name)
<1>1. PICK c \in p.structs \cup p.enums :
         d.name = <<c.name>> /\ d.params = c.params /\ d.fields = c.fields
  BY DEF TypeDefs
<1>2. DefScoped(c)
  BY ProgramsAssumption
<1>3. Given(<<c.name>>)
  <2>1. c.name \in Token
    BY <1>2 DEF DefScoped
  <2> DEFINE n == <<c.name>>
  <2>2. n \in Seq(Token) /\ Len(n) = 1 /\ n # <<>>
    BY <2>1, OneElement
  <2> HIDE DEF n
  <2>4. Given(n)
    BY <2>2 DEF Given
  <2> QED
    BY <2>4 DEF n
<1> QED
  BY <1>1, <1>2, <1>3 DEF DefScoped

\* An implementation of a program.
LEMMA ImplIs ==
    ASSUME NEW p \in Programs, NEW i \in DOMAIN p.impls
    PROVE  ImplScoped(p.impls[i])
  BY ProgramsAssumption

\* What a function mentions has the scope the program gives it.
LEMMA FunctionScoped ==
    ASSUME NEW p \in Programs, NEW f \in Functions(p)
    PROVE  /\ f.params \in Seq(Range(f.params))
           /\ \A s \in f.sites : SiteScopedIn(s, Named(f.params))
<1>1. CASE f \in PromoteImpls(p)
  <2>1. PICK i \in ConcreteImpls(p) : \E m \in p.impls[i].methods : f.params = <<>> /\ f.sites = m.sites
    BY <1>1 DEF PromoteImpls
  <2>2. PICK m \in p.impls[i].methods : f.params = <<>> /\ f.sites = m.sites
    BY <2>1
  <2>3. i \in DOMAIN p.impls /\ ParamsOfTarget(p.impls[i]) = {}
    BY DEF ConcreteImpls, ParamsOfTarget
  <2>4. \A s \in m.sites : SiteScopedIn(s, {})
    BY <2>3, ImplIs DEF ImplScoped
  <2>5. Named(<<>>) = {} /\ <<>> \in Seq(Range(<<>>))
    BY DEF Named
  <2> QED
    BY <2>2, <2>4, <2>5
<1>2. CASE f \notin PromoteImpls(p)
  <2>0. PICK g \in p.fns : f = [name |-> <<g.name>>, params |-> g.params, sites |-> g.sites, from |-> ""]
    BY <1>2, Zenon DEF Functions
  <2>1. f.params = g.params /\ f.sites = g.sites
    BY <2>0
  <2> QED
    BY <2>1, ProgramsAssumption
<1> QED
  BY <1>1, <1>2

\* A function without type parameters mentions concrete types.
LEMMA FunctionClosed ==
    ASSUME NEW p \in Programs, NEW f \in Functions(p), ~IsGeneric(f), NEW s \in f.sites
    PROVE  SiteScopedIn(s, {})
<1>1. f.params = <<>>
  BY DEF IsGeneric
<1>2. Named(<<>>) = {}
  BY DEF Named
<1> QED
  BY <1>1, <1>2, FunctionScoped

\* The same of a type.
LEMMA TypeDefClosed ==
    ASSUME NEW p \in Programs, NEW d \in TypeDefs(p), ~IsGeneric(d), NEW i \in DOMAIN d.fields
    PROVE  Concrete(d.fields[i])
<1>1. d.params = <<>>
  BY DEF IsGeneric
<1>2. Named(<<>>) = {}
  BY DEF Named
<1> QED
  BY <1>1, <1>2, TypeDefScoped DEF Concrete

\* An instance is a template and arguments.
LEMMA InstanceIs ==
    ASSUME NEW k \in Instance
    PROVE  /\ k[1] \in Seq(Token) /\ k[1] # <<>>
           /\ k[2] \in Seq(Range(k[2])) /\ k[2] # <<>>
           /\ \A i \in DOMAIN k[2] : Concrete(k[2][i])
           /\ ArgNames(k[2]) \in Seq(Token)
  BY InstanceAssumption

-----------------------------------------------------------------------------
(* Implementations.                                                        *)

\* An implementation fits an instance.
FitsInstance(impl, k) == IsGenericImplOf(impl, k[1]) /\ Unfit(impl, k[2]) = ""

\* What it is for starts with the name of the template.
LEMMA TargetIs ==
    ASSUME NEW p \in Programs, NEW i \in DOMAIN p.impls, NEW k \in Instance, FitsInstance(p.impls[i], k)
    PROVE  LET t == Target(p.impls[i], k[2])
           IN  t \in Seq(Token) /\ t # <<>> /\ t[1] = p.impls[i].for.name[1]
<1> DEFINE impl == p.impls[i]
           args == SubstituteArgs(impl.for.args, Binding(impl, k[2]))
           u == Type("struct", impl.for.name, args)
           t == Target(impl, k[2])
<1>1. /\ impl.for.name \in Seq(Token) /\ Len(impl.for.name) = 1
      /\ impl.for.kind \in {"struct", "enum"}
  BY ImplIs DEF ImplScoped, FitsInstance, IsGenericImplOf, HasTemplate
<1>0. impl.for.args # <<>>
  <2>1. Len(impl.for.args) = Len(k[2])
    BY DEF FitsInstance, Unfit
  <2>2. k[2] \in Seq(Range(k[2])) /\ k[2] # <<>>
    BY InstanceAssumption
  <2> QED
    BY <2>1, <2>2, EmptySeq
<1>2. ArgNames(args) \in Seq(Token)
  BY InstanceAssumption DEF FitsInstance
<1>3. SubstituteType(impl.for, Binding(impl, k[2])) = Type(impl.for.kind, impl.for.name, args)
  BY <1>0, <1>1 DEF SubstituteType
<1>4. impl.for.name # <<>>
  <2>1. ASSUME NEW s \in Seq(Token), Len(s) = 1 PROVE s # <<>>
    <3>1. Len(<<>>) = 0
      BY EmptySeq
    <3>2. CASE s = <<>>
      <4>1. Len(s) = 0
        BY <3>1, <3>2
      <4> QED
        BY <2>1, <4>1
    <3> QED
      BY <3>2
  <2> HIDE DEF impl
  <2> QED
    BY <1>1, <2>1
<1> HIDE DEF args
<1>5. CASE args = <<>>
  <2>1. t = impl.for.name
    BY <1>1, <1>3, <1>5 DEF Target, RewriteType, Applied, TypeName, Type
  <2> QED
    BY <1>1, <1>4, <2>1
<1>6. CASE args # <<>>
  <2> DEFINE s == Type(impl.for.kind, impl.for.name, args)
             r == Type(impl.for.kind, Mangle(impl.for.name, args), <<>>)
  <2>0. /\ s.kind = impl.for.kind /\ s.name = impl.for.name /\ s.args = args
        /\ r.args = <<>> /\ r.name = Mangle(impl.for.name, args)
    BY DEF Type
  <2>5. RewriteType(s) = r
    <3> HIDE DEF impl
    <3>1. Applied(s)
      BY <1>1, <1>6, <2>0 DEF Applied
    <3> QED
      BY <2>0, <3>1 DEF RewriteType
  <2>6. TypeName(r) = Mangle(impl.for.name, args)
    BY <2>0 DEF TypeName
  <2>1. t = TypeName(u)
    BY <1>3, <2>5, <2>6 DEF Target, Mangle
  <2>2. u.args = args /\ u.name = impl.for.name
    BY DEF Type
  <2> HIDE DEF u, impl
  <2>3. Brackets(TypeName(u), u.name)
    BY <1>1, <1>2, <1>4, <1>6, <2>2, AppliedName
  <2>4. TypeName(u) # <<>>
    BY <2>3 DEF Brackets
  <2> QED
    BY <2>1, <2>2, <2>3, <2>4 DEF Brackets, impl
<1> QED
  BY <1>5, <1>6

\* A method of an implementation that fits, as a function.
LEMMA MethodIs ==
    ASSUME NEW p \in Programs, NEW i \in DOMAIN p.impls, NEW k \in Instance, FitsInstance(p.impls[i], k),
           NEW m \in p.impls[i].methods
    PROVE  LET f == Method(p.impls[i], k[2], m)
           IN  /\ f.name = MethodName(Target(p.impls[i], k[2]), m.name) /\ f.from = p.impls[i].trait
               /\ Given(f.name)
               /\ \A s \in f.sites : SitePlain(s)
<1> DEFINE impl == p.impls[i]
           sub == Binding(impl, k[2])
           target == Target(impl, k[2])
           f == Method(impl, k[2], m)
<1>1. /\ f.name = MethodName(target, m.name) /\ f.from = impl.trait
      /\ f.sites = {RewriteSite(SubstituteSite(s, sub)) : s \in m.sites}
  BY DEF Method
<1>2. target \in Seq(Token)
  BY TargetIs
<1>3. /\ m.name \in Token \ {">"} /\ \A s \in m.sites : SiteScopedIn(s, ParamsOfTarget(impl))
      /\ impl.for.args \in Seq(Range(impl.for.args))
  BY ImplIs DEF ImplScoped
<1>4. IsGeneric(impl) /\ Len(impl.for.args) = Len(k[2])
  BY DEF FitsInstance, IsGenericImplOf, Unfit
<1>5. k[2] \in Seq(Range(k[2])) /\ \A j \in DOMAIN k[2] : Concrete(k[2][j])
  BY InstanceIs
<1> HIDE DEF target, impl
<1>6. \A n \in ParamsOfTarget(impl) : Concrete(sub[n])
  BY <1>3, <1>4, <1>5, BindingConcrete
<1> HIDE DEF sub
<1>7. \A s \in m.sites : SitePlain(RewriteSite(SubstituteSite(s, sub)))
  BY <1>3, <1>6, SubstitutedSite, RewrittenSite
<1>8. Given(MethodName(target, m.name))
  BY <1>2, <1>3, MethodNames
<1> QED
  BY <1>1, <1>7, <1>8 DEF impl, target

\* What is kept while the implementations for an instance are added: bodies
\* without type arguments, names that are new or given, and the functions
\* that the index promises.
ImplsFit(acc) ==
    /\ \A f \in acc.fns :
          /\ \A s \in f.sites : SitePlain(s)
          /\ Given(f.name) \/ \E g \in fns : g.name = f.name
    /\ \A f \in fns : \E g \in acc.fns : g.name = f.name
    /\ \A e \in acc.impls :
          ImplOf(e) /\ Backed(e, PromoteImpls(program) \cup acc.fns)

\* The entry of an implementation is not that of another in the index with
\* a method of the same symbol.
LEMMA SymbolsApart ==
    ASSUME program \in Programs, MethodsApart(program),
           NEW i \in DOMAIN program.impls, NEW k \in Instance,
           FitsInstance(program.impls[i], k), NEW e, ImplOf(e), e.trait # program.impls[i].trait,
           NEW m \in program.impls[i].methods, NEW n \in e.methods
    PROVE  MethodName(Target(program.impls[i], k[2]), m.name) # MethodName(e.target, n)
<1> DEFINE impl == program.impls[i]
           t == Target(impl, k[2])
<1>1. PICK j \in DOMAIN program.impls :
         /\ e.trait = program.impls[j].trait
         /\ e.methods = {o.name : o \in program.impls[j].methods}
         /\ e.target[1] = program.impls[j].for.name[1]
  BY DEF ImplOf
<1> DEFINE other == program.impls[j]
<1>2. PICK o \in other.methods : n = o.name
  BY <1>1
<1>3. t \in Seq(Token) /\ t[1] = impl.for.name[1]
  BY TargetIs
<1>4. e.target \in Seq(Token)
  BY DEF ImplOf
<1>5. /\ impl.for.name \in Seq(Token) /\ Len(impl.for.name) = 1 /\ m.name \in Token \ {">"}
      /\ other.for.name \in Seq(Token) /\ Len(other.for.name) = 1 /\ o.name \in Token \ {">"}
  BY ImplIs DEF ImplScoped
<1>6. ASSUME MethodName(t, m.name) = MethodName(e.target, n) PROVE FALSE
  <2>1. t = e.target /\ m.name = n
    BY <1>2, <1>3, <1>4, <1>5, <1>6, MethodNames
  <2> DEFINE a == impl.for.name
             b == other.for.name
  <2>2. a[1] = b[1] /\ a \in Seq(Token) /\ b \in Seq(Token) /\ Len(a) = 1 /\ Len(b) = 1
    BY <1>1, <1>3, <1>5, <2>1
  <2> HIDE DEF a, b
  <2>3. a = b
    BY <2>2, SeqEqual
  <2>4. m.name # o.name
    BY <1>1, <2>3 DEF a, b, MethodsApart
  <2> QED
    BY <1>2, <2>1, <2>4
<1> QED
  BY <1>6

\* Functions, index entries and a refusal.
Accs(S, E) == [fns : SUBSET S, impls : SUBSET E, refusal : {"", "impl_arity", "bound_twice"}]

\* One implementation more.
LEMMA ImplKeepsFit ==
    ASSUME program \in Programs, NEW i \in DOMAIN program.impls, NEW k \in Instance,
           IsGenericImplOf(program.impls[i], k[1]), NEW S, NEW E, NEW acc \in Accs(S, E), ImplsFit(acc)
    PROVE  ImplsFit(InstantiateImpl(acc, program.impls[i], k[2]))
<1> DEFINE impl == program.impls[i]
           args == k[2]
           methods == {Method(impl, args, m) : m \in impl.methods}
           target == Target(impl, args)
           new == InstantiateImpl(acc, impl, args)
           bodies == {f \in acc.fns : \A m \in methods : m.name # f.name} \cup methods
           index == acc.impls \cup {ImplEntry(impl, target)}
<1>1. CASE Unfit(impl, args) # ""
  <2>1. new.fns = acc.fns /\ new.impls = acc.impls
    BY <1>1 DEF InstantiateImpl, Accs
  <2> QED
    BY <2>1 DEF ImplsFit
<1>2. CASE /\ Unfit(impl, args) = ""
           /\ Differs(impl, args) # {} \/ \E e \in acc.impls : e.trait = impl.trait /\ e.target = target
  <2>1. new = acc
    BY <1>2 DEF InstantiateImpl
  <2> QED
    BY <2>1
<1>3. CASE /\ Unfit(impl, args) = ""
           /\ ~(Differs(impl, args) # {} \/ \E e \in acc.impls : e.trait = impl.trait /\ e.target = target)
  <2>1. FitsInstance(impl, k)
    BY <1>3 DEF FitsInstance
  <2>2. new.fns = bodies /\ new.impls = index
    BY <1>3 DEF InstantiateImpl, Accs
  <2>3. \A m \in impl.methods :
           LET f == Method(impl, args, m)
           IN  /\ f.name = MethodName(target, m.name) /\ f.from = impl.trait
               /\ Given(f.name) /\ \A s \in f.sites : SitePlain(s)
    BY <2>1, MethodIs
  <2>4. ASSUME NEW f \in bodies
        PROVE  /\ \A s \in f.sites : SitePlain(s)
               /\ Given(f.name) \/ \E g \in fns : g.name = f.name
    BY <2>3 DEF ImplsFit
  <2>5. ASSUME NEW f \in fns PROVE \E g \in bodies : g.name = f.name
    <3>1. PICK g \in acc.fns : g.name = f.name
      BY DEF ImplsFit
    <3> QED
      BY <3>1
  <2>6. ASSUME NEW e \in acc.impls PROVE Backed(e, PromoteImpls(program) \cup bodies)
    <3>1. ImplOf(e) /\ Backed(e, PromoteImpls(program) \cup acc.fns)
      BY <2>6 DEF ImplsFit
    <3>2. ASSUME NEW n \in e.methods
          PROVE  \E g \in PromoteImpls(program) \cup bodies :
                    g.name = MethodName(e.target, n) /\ (MethodsApart(program) => g.from = e.trait)
      <4>1. PICK g \in PromoteImpls(program) \cup acc.fns :
               g.name = MethodName(e.target, n) /\ (MethodsApart(program) => g.from = e.trait)
        BY <3>1 DEF Backed
      <4>2. ASSUME MethodsApart(program), NEW m \in impl.methods, Method(impl, args, m).name = g.name
            PROVE  FALSE
        <5>1. MethodName(target, m.name) = MethodName(e.target, n)
          BY <2>3, <4>1, <4>2
        <5>2. e.trait = impl.trait
          BY <2>1, <3>1, <4>2, <5>1, SymbolsApart
        <5>3. /\ e.target \in Seq(Token) /\ target \in Seq(Token)
              /\ m.name \in Token \ {">"} /\ n \in Token \ {">"}
          <6>1. PICK j \in DOMAIN program.impls : e.methods = {o.name : o \in program.impls[j].methods}
            BY <3>1 DEF ImplOf
          <6>2. ImplScoped(program.impls[j]) /\ ImplScoped(impl)
            BY ImplIs
          <6>3. m.name \in Token \ {">"} /\ n \in Token \ {">"}
            BY <6>1, <6>2 DEF ImplScoped
          <6>4. target \in Seq(Token)
            BY <2>1, TargetIs
          <6> QED
            BY <3>1, <6>3, <6>4 DEF ImplOf
        <5>4. e.target = target
          BY <5>1, <5>3, MethodNames
        <5> QED
          BY <1>3, <5>2, <5>4
      <4>3. CASE \E m \in impl.methods : Method(impl, args, m).name = g.name
        <5>1. PICK m \in impl.methods : Method(impl, args, m).name = g.name
          BY <4>3
        <5>2. Method(impl, args, m) \in bodies
          OBVIOUS
        <5>3. ~MethodsApart(program)
          BY <4>2, <5>1
        <5> QED
          BY <4>1, <5>1, <5>2, <5>3
      <4>4. CASE ~\E m \in impl.methods : Method(impl, args, m).name = g.name
        <5>1. g \in PromoteImpls(program) \cup bodies
          BY <4>4
        <5> QED
          BY <4>1, <5>1
      <4> QED
        BY <4>3, <4>4
    <3> QED
      BY <3>2 DEF Backed
  <2>7. /\ ImplOf(ImplEntry(impl, target))
        /\ Backed(ImplEntry(impl, target), PromoteImpls(program) \cup bodies)
    <3> DEFINE e == ImplEntry(impl, target)
    <3>1. e.trait = impl.trait /\ e.target = target /\ e.methods = {m.name : m \in impl.methods}
      BY DEF ImplEntry
    <3> HIDE DEF e
    <3>2. target \in Seq(Token) /\ target # <<>> /\ target[1] = impl.for.name[1]
      BY <2>1, TargetIs
    <3>3. ImplOf(e)
      BY <3>1, <3>2 DEF ImplOf
    <3>4. \A n \in e.methods : \E g \in methods : g.name = MethodName(e.target, n) /\ g.from = e.trait
      BY <2>3, <3>1
    <3>5. Backed(e, PromoteImpls(program) \cup bodies)
      BY <3>4 DEF Backed
    <3> QED
      BY <3>3, <3>5 DEF e
  <2>8. \A e \in index : ImplOf(e) /\ Backed(e, PromoteImpls(program) \cup bodies)
    <3>1. \A e \in acc.impls : ImplOf(e)
      BY DEF ImplsFit
    <3> QED
      BY <2>6, <2>7, <3>1
  <2> HIDE DEF bodies, index, new
  <2>9. ImplsFit(new)
    BY <2>2, <2>4, <2>5, <2>8 DEF ImplsFit
  <2> QED
    BY <2>9 DEF new
<1> QED
  BY <1>1, <1>2, <1>3

\* One step of InstantiateImpls.
NextImpl(acc, impl, k) ==
    IF acc.refusal = "" /\ IsGenericImplOf(impl, k[1]) THEN InstantiateImpl(acc, impl, k[2]) ELSE acc

\* The functions and the index entries the implementations could bring.
Bodies(k) ==
    fns \cup UNION {{Method(program.impls[j], k[2], m) : m \in program.impls[j].methods} :
                    j \in DOMAIN program.impls}
Entries(k) ==
    impls \cup {ImplEntry(program.impls[j], Target(program.impls[j], k[2])) : j \in DOMAIN program.impls}

\* What going through the implementations can leave.
ImplAccs(k) == Accs(Bodies(k), Entries(k))

\* A step keeps to them.
LEMMA NextImplTyped ==
    ASSUME NEW k, NEW i \in DOMAIN program.impls, NEW acc \in ImplAccs(k)
    PROVE  NextImpl(acc, program.impls[i], k) \in ImplAccs(k)
<1> DEFINE impl == program.impls[i]
           args == k[2]
           methods == {Method(impl, args, m) : m \in impl.methods}
           target == Target(impl, args)
           new == InstantiateImpl(acc, impl, args)
           bodies == {f \in acc.fns : \A m \in methods : m.name # f.name} \cup methods
           index == acc.impls \cup {ImplEntry(impl, target)}
<1>1. acc \in [fns : SUBSET Bodies(k), impls : SUBSET Entries(k),
               refusal : {"", "impl_arity", "bound_twice"}]
  BY DEF ImplAccs, Accs
<1>2. new \in {acc, [acc EXCEPT !.refusal = Unfit(impl, args)],
               [acc EXCEPT !.fns = bodies, !.impls = index]}
  BY <1>1 DEF InstantiateImpl
<1>3. Unfit(impl, args) \in {"", "impl_arity", "bound_twice"}
  BY DEF Unfit
<1>4. methods \subseteq Bodies(k)
  BY DEF Bodies
<1>5. ImplEntry(impl, target) \in Entries(k)
  BY DEF Entries
<1> HIDE DEF methods, impl, target
<1>6. bodies \in SUBSET Bodies(k) /\ index \in SUBSET Entries(k)
  BY <1>1, <1>4, <1>5
<1> HIDE DEF bodies, index, new
<1>7. new \in [fns : SUBSET Bodies(k), impls : SUBSET Entries(k),
               refusal : {"", "impl_arity", "bound_twice"}]
  BY <1>1, <1>2, <1>3, <1>6
<1> QED
  BY <1>7 DEF NextImpl, ImplAccs, Accs, new, impl

\* What the implementations start from.
Start == [fns |-> fns, impls |-> impls, refusal |-> ""]

\* g[n] is what the first n implementations leave.
ImplsGoTo(g, k) ==
    /\ g[0] = Start
    /\ \A n \in 1 .. Len(program.impls) : g[n] = NextImpl(g[n - 1], program.impls[n], k)
    /\ InstantiateImpls(k[1], k[2]) = g[Len(program.impls)]

\* The implementations are gone through one after the other.
LEMMA ImplsGoOn ==
    ASSUME program \in Programs, NEW k
    PROVE  \E g : ImplsGoTo(g, k)
<1> DEFINE n == Len(program.impls)
           A == ImplAccs(k)
           F == [i \in 1 .. n |-> [acc \in A |-> NextImpl(acc, program.impls[i], k)]]
           IsUpTo(g) ==
              g = [i \in 0 .. n |-> IF i = 0 THEN Start ELSE NextImpl(g[i - 1], program.impls[i], k)]
<1>1. n \in Nat /\ DOMAIN program.impls = 1 .. n
  <2>1. program.impls \in Seq(Range(program.impls))
    BY ProgramsAssumption
  <2> QED
    BY <2>1, LenProperties
<1>2. Start \in A
  BY DEF ImplAccs, Accs, Bodies, Entries, Start
<1>3. F \in [1 .. n -> [A -> A]]
  BY <1>1, NextImplTyped
<1> HIDE DEF A
<1>4. PICK g : IteratesTo(g, n, A, Start, F)
  <2> HIDE DEF F, n
  <2> QED
    BY <1>1, <1>2, <1>3, BoundedIterationExists
<1>5. IsUpTo(g)
  <2>0. g \in [0 .. n -> A] /\ g[0] = Start /\ \A i \in 1 .. n : g[i] = F[i][g[i - 1]]
    BY <1>4 DEF IteratesTo
  <2>1. \A i \in 1 .. n : g[i - 1] \in A
    <3>1. \A i \in 1 .. n : i - 1 \in 0 .. n
      BY <1>1
    <3> HIDE DEF F, n
    <3> QED
      BY <2>0, <3>1
  <2>2. \A i \in 1 .. n : g[i] = NextImpl(g[i - 1], program.impls[i], k)
    BY <2>0, <2>1
  <2> HIDE DEF n, F
  <2>3. g = [i \in 0 .. n |-> g[i]]
    BY <2>0
  <2>4. \A i \in 0 .. n : i = 0 \/ i \in 1 .. n
    BY <1>1
  <2>5. \A i \in 0 .. n : g[i] = IF i = 0 THEN Start ELSE NextImpl(g[i - 1], program.impls[i], k)
    BY <2>0, <2>2, <2>4
  <2> QED
    BY <2>3, <2>5
<1> DEFINE f == CHOOSE f : IsUpTo(f)
<1>6. IsUpTo(f)
  BY <1>5
<1>7. InstantiateImpls(k[1], k[2]) = f[n]
  BY DEF InstantiateImpls, NextImpl, Start
<1> HIDE DEF f
<1>8. f[0] = Start /\ \A i \in 1 .. n : f[i] = NextImpl(f[i - 1], program.impls[i], k)
  <2> DEFINE h == [i \in 0 .. n |-> IF i = 0 THEN Start ELSE NextImpl(f[i - 1], program.impls[i], k)]
  <2>1. h[0] = Start /\ \A i \in 1 .. n : h[i] = NextImpl(f[i - 1], program.impls[i], k)
    BY <1>1
  <2>2. f = h
    BY <1>6
  <2> HIDE DEF h
  <2>3. \A i \in 1 .. n : f[i] = h[i]
    BY <2>2
  <2> QED
    BY <2>1, <2>2, <2>3
<1> QED
  BY <1>7, <1>8 DEF ImplsGoTo

\* What the implementations for an instance leave fits.
LEMMA ImplsStayFit ==
    ASSUME program \in Programs, NEW k \in Instance,
           ImplsFit(Start)
    PROVE  InstantiateImpls(k[1], k[2]) \in ImplAccs(k) /\ ImplsFit(InstantiateImpls(k[1], k[2]))
<1>0. PICK list, n : list = program.impls /\ n = Len(list)
  OBVIOUS
<1>1. PICK g : ImplsGoTo(g, k)
  BY ImplsGoOn
<1>2. n \in Nat /\ DOMAIN list = 1 .. n
  <2>1. program.impls \in Seq(Range(program.impls))
    BY ProgramsAssumption
  <2> QED
    BY <1>0, <2>1, LenProperties
<1>3. g[0] = Start /\ \A i \in 1 .. n : g[i] = NextImpl(g[i - 1], list[i], k)
  BY <1>0, <1>1 DEF ImplsGoTo
<1>4. Start \in ImplAccs(k)
  BY DEF ImplAccs, Accs, Bodies, Entries, Start
<1>5. ImplsFit(Start)
  OBVIOUS
<1> DEFINE P == {j \in Nat : j <= n => g[j] \in ImplAccs(k) /\ ImplsFit(g[j])}
<1>6. 0 \in P
  BY <1>3, <1>4, <1>5
<1>7. ASSUME NEW i \in Nat, i \in P PROVE i + 1 \in P
  <2> SUFFICES ASSUME i + 1 <= n PROVE g[i + 1] \in ImplAccs(k) /\ ImplsFit(g[i + 1])
    OBVIOUS
  <2>1. i + 1 \in 1 .. n /\ i + 1 - 1 = i /\ i <= n
    BY <1>2
  <2>2. g[i + 1] = NextImpl(g[i], list[i + 1], k)
    BY <1>3, <2>1
  <2>3. g[i] \in ImplAccs(k) /\ ImplsFit(g[i])
    BY <1>7, <2>1
  <2>4. i + 1 \in DOMAIN list
    BY <1>2, <2>1
  <2>5. NextImpl(g[i], list[i + 1], k) \in ImplAccs(k)
    BY <1>0, <2>3, <2>4, NextImplTyped
  <2>6. ImplsFit(NextImpl(g[i], list[i + 1], k))
    <3>1. CASE g[i].refusal = "" /\ IsGenericImplOf(list[i + 1], k[1])
      BY <1>0, <2>3, <2>4, <3>1, ImplKeepsFit DEF NextImpl, ImplAccs
    <3>2. CASE ~(g[i].refusal = "" /\ IsGenericImplOf(list[i + 1], k[1]))
      BY <2>3, <3>2 DEF NextImpl
    <3> QED
      BY <3>1, <3>2
  <2> QED
    BY <2>2, <2>5, <2>6
<1> HIDE DEF P
<1>8. Nat \subseteq P
  BY <1>6, <1>7, NatSetInduction
<1>9. g[n] \in ImplAccs(k) /\ ImplsFit(g[n])
  BY <1>2, <1>8 DEF P
<1> QED
  BY <1>0, <1>1, <1>9 DEF ImplsGoTo

-----------------------------------------------------------------------------
(* Steps.                                                                  *)

\* The name of a type starts as that of its definition does.
LEMMA TypeNameStarts ==
    ASSUME NEW t, t.name \in Seq(Token), Len(t.name) = 1, ArgNames(t.args) \in Seq(Token)
    PROVE  TypeName(t) \in Seq(Token) /\ TypeName(t) # <<>> /\ TypeName(t)[1] = t.name[1]
<1> DEFINE n == t.name
<1>1. n \in Seq(Token) /\ Len(n) = 1
  OBVIOUS
<1> HIDE DEF n
<1>2. n # <<>>
  BY <1>1, NotEmpty
<1>3. CASE t.args = <<>>
  BY <1>1, <1>2, <1>3 DEF TypeName, n
<1>4. CASE t.args # <<>>
  <2>1. Brackets(TypeName(t), n)
    BY <1>2, <1>4, AppliedName DEF n
  <2>2. TypeName(t) # <<>>
    BY <2>1 DEF Brackets
  <2> QED
    BY <2>1, <2>2 DEF Brackets, n
<1> QED
  BY <1>3, <1>4

\* The index entry of a concrete implementation promises the functions its
\* methods were promoted to.
LEMMA ConcreteImplIs ==
    ASSUME program \in Programs, NEW i \in ConcreteImpls(program)
    PROVE  LET e == ImplEntry(program.impls[i], TypeName(program.impls[i].for))
           IN  ImplOf(e) /\ Backed(e, PromoteImpls(program))
<1> DEFINE impl == program.impls[i]
           t == TypeName(impl.for)
           e == ImplEntry(impl, t)
<1>1. i \in DOMAIN program.impls /\ ~IsGeneric(impl)
  BY DEF ConcreteImpls
<1>2. /\ impl.for.name \in Seq(Token) /\ Len(impl.for.name) = 1
      /\ ArgNames(impl.for.args) \in Seq(Token)
  BY <1>1, ImplIs DEF ImplScoped
<1>3. e.trait = impl.trait /\ e.target = t /\ e.methods = {m.name : m \in impl.methods}
  BY DEF ImplEntry
<1>4. t \in Seq(Token) /\ t # <<>> /\ t[1] = impl.for.name[1]
  BY <1>2, TypeNameStarts
<1> HIDE DEF t
<1>5. ImplOf(e)
  BY <1>1, <1>3, <1>4 DEF ImplOf
<1>6. ASSUME NEW n \in e.methods
      PROVE  \E g \in PromoteImpls(program) : g.name = MethodName(e.target, n) /\ g.from = e.trait
  <2>1. PICK m \in impl.methods : n = m.name
    BY <1>3
  <2> DEFINE g == [name |-> MethodName(t, m.name), params |-> <<>>, sites |-> m.sites, from |-> impl.trait]
             x == <<i, m>>
             all == UNION {{<<j, o>> : o \in program.impls[j].methods} : j \in ConcreteImpls(program)}
  <2>2. x \in all /\ x[1] = i /\ x[2] = m
    OBVIOUS
  <2>3. g = [name |-> MethodName(TypeName(program.impls[x[1]].for), x[2].name), params |-> <<>>,
             sites |-> x[2].sites, from |-> program.impls[x[1]].trait]
    BY <2>2 DEF t
  <2> HIDE DEF x
  <2>4. g \in PromoteImpls(program)
    BY <2>2, <2>3, Zenon DEF PromoteImpls
  <2>5. g.name = MethodName(e.target, n) /\ g.from = e.trait
    BY <1>3, <2>1
  <2> QED
    BY <2>4, <2>5
<1>7. Backed(e, PromoteImpls(program))
  BY <1>6 DEF Backed
<1> QED
  BY <1>5, <1>7 DEF t

\* An instance is taken and what it mentions is queued.
Queues(k, S) ==
    /\ pending' \in Batches /\ Apart(pending)'
    /\ Waiting' = (Waiting \ {k}) \cup (S \ seen)
    /\ seen' = seen \cup S
    /\ S \subseteq Instance
    /\ k \in Waiting

\* Push does so.
LEMMA PushQueues ==
    ASSUME seen \in SUBSET Instance, pending \in Batches, Apart(pending), Waiting \subseteq seen,
           pending # <<>>, NEW k \in Last(pending), NEW batches \in Batches,
           pending' = Push(Popped(k), batches).stack, seen' = Push(Popped(k), batches).seen
    PROVE  Queues(k, WaitingIn(batches))
<1> DEFINE stack == Popped(k)
           S == WaitingIn(batches)
           r == Push(stack, batches)
<1>1. stack \in Batches /\ Apart(stack) /\ WaitingIn(stack) = Waiting \ {k} /\ k \in Waiting
  BY PoppedIs
<1>2. S \subseteq Instance
  <2>1. \A i \in DOMAIN batches : batches[i] \in SUBSET Instance
    BY ElementOfSeq DEF Batches
  <2> QED
    BY <2>1 DEF WaitingIn
<1> HIDE DEF stack
<1>3. Gains(r, stack, S)
  BY <1>1, PushGains
<1>4. pending' = r.stack /\ seen' = r.seen
  BY DEF stack
<1>5. Waiting' = WaitingIn(r.stack)
  BY <1>4 DEF Waiting, WaitingIn
<1>6. Apart(pending)' <=> Apart(r.stack)
  BY <1>4 DEF Apart
<1> HIDE DEF r, S
<1>7. Waiting' = (Waiting \ {k}) \cup (S \ seen)
  BY <1>1, <1>3, <1>5 DEF Gains
<1> QED
  BY <1>1, <1>2, <1>3, <1>4, <1>6, <1>7 DEF Gains, Queues, S

\* The types, functions and queue of a step that builds one instance, and
\* functions of implementations.
LEMMA BuildKeepsNames ==
    ASSUME seen \in SUBSET Instance, Waiting \subseteq seen, NamesAccounted,
           \A l \in Waiting : InstanceName(l) \notin BuiltNames,
           NEW k \in Instance, NEW S, Queues(k, S),
           \A n \in BuiltNames' : n \in BuiltNames \/ n = InstanceName(k) \/ Given(n)
    PROVE  /\ NamesAccounted'
           /\ Waiting' \subseteq seen' /\ seen' \in SUBSET Instance
           /\ \A l \in Waiting' : InstanceName(l) \notin BuiltNames'
<1>1. /\ Waiting' = (Waiting \ {k}) \cup (S \ seen)
      /\ seen' = seen \cup S
      /\ S \subseteq Instance
      /\ k \in Waiting
  BY DEF Queues
<1>2. Waiting' \subseteq seen' /\ seen' \in SUBSET Instance
  BY <1>1
<1>3. seen \ Waiting \subseteq seen' \ Waiting' /\ k \in seen' \ Waiting'
  BY <1>1
<1>4. NamesAccounted'
  <2>1. \A n \in BuiltNames' : Given(n) \/ \E j \in seen' \ Waiting' : n = InstanceName(j)
    <3>1. \A n \in BuiltNames : Given(n) \/ \E j \in seen \ Waiting : n = InstanceName(j)
      BY DEF NamesAccounted
    <3> QED
      BY <1>3, <3>1
  <2> QED
    BY <2>1 DEF NamesAccounted
<1>5. ASSUME NEW l \in Waiting', InstanceName(l) \in BuiltNames' PROVE FALSE
  <2>1. l \in Instance /\ l # k
    BY <1>1
  <2>2. InstanceName(l) # InstanceName(k) /\ ~Given(InstanceName(l))
    BY <2>1, InstanceNames
  <2>3. InstanceName(l) \in BuiltNames
    BY <1>5, <2>2
  <2>4. PICK j \in seen \ Waiting : InstanceName(l) = InstanceName(j)
    BY <2>2, <2>3 DEF NamesAccounted
  <2>5. l = j
    BY <2>1, <2>4, InstanceNames
  <2> QED
    BY <1>1, <2>3, <2>4, <2>5
<1> QED
  BY <1>2, <1>4, <1>5

\* The templates of a program are those of its library.
LEMMA LibraryTemplates ==
    ASSUME NEW p \in Programs, NEW n
    PROVE  /\ TypeTemplates(p, n) = TypeTemplates(Library(p), n)
           /\ FnTemplates(p, n) = FnTemplates(Library(p), n)
<1> DEFINE l == Library(p)
           AsFunctions(S) ==
              {[name |-> <<f.name>>, params |-> f.params, sites |-> f.sites, from |-> ""] : f \in S}
<1>1. /\ l.structs = p.structs /\ l.enums = p.enums /\ l.impls = <<>>
      /\ l.fns = {f \in p.fns : IsGeneric(f)}
  BY DEF Library
<1> HIDE DEF l
<1>2. TypeDefs(p) = TypeDefs(l)
  BY <1>1 DEF TypeDefs
<1>3. \A f \in PromoteImpls(p) : ~IsGeneric(f)
  BY DEF PromoteImpls, IsGeneric
<1>4. \A f \in PromoteImpls(l) : ~IsGeneric(f)
  BY DEF PromoteImpls, IsGeneric
<1>5. /\ Functions(p) = AsFunctions(p.fns) \cup PromoteImpls(p)
      /\ Functions(l) = AsFunctions(l.fns) \cup PromoteImpls(l)
  BY DEF Functions
<1>6. {f \in AsFunctions(p.fns) : IsGeneric(f)} = {f \in AsFunctions(l.fns) : IsGeneric(f)}
  <2>1. ASSUME NEW f \in AsFunctions(p.fns), IsGeneric(f) PROVE f \in AsFunctions(l.fns)
    <3>1. PICK g \in p.fns : f = [name |-> <<g.name>>, params |-> g.params, sites |-> g.sites, from |-> ""]
      BY Zenon
    <3>2. f.params = g.params
      BY <3>1
    <3>3. g \in l.fns
      BY <1>1, <2>1, <3>2 DEF IsGeneric
    <3> QED
      BY <3>1, <3>3, Zenon
  <2>2. AsFunctions(l.fns) \subseteq AsFunctions(p.fns)
    BY <1>1
  <2> HIDE DEF AsFunctions
  <2> QED
    BY <2>1, <2>2
<1> HIDE DEF AsFunctions
<1>7. {f \in Functions(p) : IsGeneric(f)} = {f \in Functions(l) : IsGeneric(f)}
  BY <1>3, <1>4, <1>5, <1>6
<1>8. FnTemplates(p, n) = FnTemplates(l, n)
  BY <1>7 DEF FnTemplates
<1>9. TypeTemplates(p, n) = TypeTemplates(l, n)
  BY <1>2 DEF TypeTemplates
<1> QED
  BY <1>8, <1>9 DEF l

\* What a template for a type mentions is queued in batches, one to a field.
LEMMA TypeMentions ==
    ASSUME program \in Programs, NEW k \in Instance, NEW d \in TypeTemplates(program, k[1]),
           Len(d.params) = Len(k[2])
    PROVE  LET env == Environment(d.params, k[2])
               fields == [i \in DOMAIN d.fields |-> SubstituteType(d.fields[i], env)]
               batches == [i \in DOMAIN fields |-> InstancesIn(fields[i])]
           IN  /\ batches \in Batches
               /\ WaitingIn(batches) = Mentions[k]
               /\ \A i \in DOMAIN fields : Concrete(fields[i])
               /\ DOMAIN fields = DOMAIN d.fields
<1> DEFINE env == Environment(d.params, k[2])
           fields == [i \in DOMAIN d.fields |-> SubstituteType(d.fields[i], env)]
           batches == [i \in DOMAIN fields |-> InstancesIn(fields[i])]
           D == DOMAIN d.fields
           n == Len(d.fields)
<1>1. Mentions[k] = UNION {InstancesIn(SubstituteType(d.fields[i], env)) : i \in D}
  <2>1. d \in TypeTemplates(Library(program), k[1])
    BY LibraryTemplates
  <2> QED
    BY <2>1, MentionsAssumption DEF Mentions
<1>2. Mentions[k] \subseteq Instance
  BY MentionsAssumption DEF Mentions
<1>3. d.fields \in Seq(Range(d.fields)) /\ \A i \in D : ScopedIn(d.fields[i], Named(d.params))
  BY TypeDefScoped DEF TypeTemplates
<1>4. n \in Nat /\ D = 1 .. n
  BY <1>3, LenProperties
<1>5. \A m \in Named(d.params) : Concrete(env[m])
  <2>1. /\ d.params \in Seq(Range(d.params)) /\ k[2] \in Seq(Range(k[2]))
        /\ \A i \in DOMAIN k[2] : Concrete(k[2][i])
    BY TypeDefScoped, InstanceIs DEF TypeTemplates
  <2> QED
    BY <2>1, EnvironmentConcrete
<1>6. \A i \in D : Concrete(SubstituteType(d.fields[i], env))
  BY <1>3, <1>5, SubstitutedConcrete
<1>7. DOMAIN fields = D /\ \A i \in D : fields[i] = SubstituteType(d.fields[i], env)
  OBVIOUS
<1> HIDE DEF env, fields
<1>8. DOMAIN batches = D /\ \A i \in D : batches[i] = InstancesIn(SubstituteType(d.fields[i], env))
  BY <1>7
<1> HIDE DEF batches
<1>9. batches \in [1 .. n -> SUBSET Instance]
  <2>1. \A i \in D : batches[i] \in SUBSET Instance
    BY <1>1, <1>2, <1>8
  <2>2. batches = [i \in D |-> batches[i]]
    BY <1>8 DEF batches
  <2> HIDE DEF D
  <2> QED
    BY <1>4, <2>1, <2>2
<1>10. batches \in Batches
  <2> HIDE DEF n
  <2> QED
    BY <1>4, <1>9 DEF Batches
<1>11. WaitingIn(batches) = Mentions[k]
  BY <1>1, <1>8 DEF WaitingIn
<1> QED
  BY <1>6, <1>7, <1>10, <1>11 DEF batches, fields, env

\* What a template for a function mentions is queued in one.
LEMMA FnMentions ==
    ASSUME program \in Programs, NEW k \in Instance, NEW f \in FnTemplates(program, k[1]),
           Len(f.params) = Len(k[2])
    PROVE  LET sites == {SubstituteSite(s, Environment(f.params, k[2])) : s \in f.sites}
           IN  /\ <<Collect(sites)>> \in Batches
               /\ WaitingIn(<<Collect(sites)>>) = Mentions[k]
               /\ \A s \in sites : SiteScopedIn(s, {})
<1> DEFINE env == Environment(f.params, k[2])
           sites == {SubstituteSite(s, env) : s \in f.sites}
           b == Collect(sites)
           one == <<b>>
<1>1. Mentions[k] = b
  <2>1. f \in FnTemplates(Library(program), k[1])
    BY LibraryTemplates
  <2> QED
    BY <2>1, MentionsAssumption DEF Mentions
<1>2. b \in SUBSET Instance
  <2>1. Mentions[k] \subseteq Instance
    BY MentionsAssumption DEF Mentions
  <2> QED
    BY <1>1, <2>1
<1>3. f.params \in Seq(Range(f.params)) /\ \A s \in f.sites : SiteScopedIn(s, Named(f.params))
  BY FunctionScoped DEF FnTemplates
<1>4. \A m \in Named(f.params) : Concrete(env[m])
  <2>1. k[2] \in Seq(Range(k[2])) /\ \A i \in DOMAIN k[2] : Concrete(k[2][i])
    BY InstanceIs
  <2> QED
    BY <1>3, <2>1, EnvironmentConcrete
<1> HIDE DEF env
<1>5. \A s \in sites : SiteScopedIn(s, {})
  BY <1>3, <1>4, SubstitutedSite
<1> HIDE DEF b
<1>6. one \in Batches /\ Len(one) = 1 /\ one[1] = b
  BY <1>2, OneElement DEF Batches
<1> HIDE DEF one
<1>7. WaitingIn(one) = b
  <2>1. DOMAIN one = {1}
    BY <1>6 DEF Batches
  <2> QED
    BY <1>6, <2>1 DEF WaitingIn
<1> QED
  BY <1>1, <1>5, <1>6, <1>7 DEF one, b, env

\* What a step of the worklist starts from.
LEMMA WorklistIs ==
    ASSUME IInv
    PROVE  /\ program \in Programs /\ seen \in SUBSET Instance /\ pending \in Batches /\ Apart(pending)
           /\ Waiting \subseteq seen /\ NamesAccounted
           /\ \A l \in Waiting : InstanceName(l) \notin BuiltNames
           /\ ImplsFit(Start)
<1>1. /\ program \in Programs /\ seen \in SUBSET Instance /\ pending \in Batches /\ Apart(pending)
      /\ Waiting \subseteq seen /\ NamesAccounted
      /\ \A l \in Waiting : InstanceName(l) \notin BuiltNames
  BY DEF IInv, TypeOK, Batches, Apart, InstanceName
<1>2. ImplsFit(Start)
  <2>1. Start.fns = fns /\ Start.impls = impls
    BY DEF Start
  <2>2. \A f \in fns : (\A s \in f.sites : SitePlain(s)) /\ \E g \in fns : g.name = f.name
    BY DEF IInv
  <2>3. \A e \in impls : ImplOf(e) /\ Backed(e, PromoteImpls(program) \cup fns)
    BY DEF IInv
  <2> QED
    BY <2>1, <2>2, <2>3 DEF ImplsFit
<1> QED
  BY <1>1, <1>2

\* An instance is taken and built: its name exists, and no name of another.
Builds(k) ==
    /\ Queues(k, Mentions[k])
    /\ InstanceName(k) \in BuiltNames' /\ BuiltNames \subseteq BuiltNames'
    /\ \A n \in BuiltNames' : n \in BuiltNames \/ n = InstanceName(k) \/ Given(n)

\* An instance of a type is built.
LEMMA InstantiateTypeStep ==
    ASSUME IInv, NEW k \in Instance, InstantiateType(k)
    PROVE  IInv' /\ Builds(k)
<1> DEFINE args == k[2]
           after == InstantiateImpls(k[1], args)
<1>1. PICK d \in TypeTemplates(program, k[1]) :
         LET env == Environment(d.params, args)
             fields == [i \in DOMAIN d.fields |-> SubstituteType(d.fields[i], env)]
             pushed == Push(Popped(k), [i \in DOMAIN fields |-> InstancesIn(fields[i])])
         IN  /\ Len(d.params) = Len(args)
             /\ types' = types \cup {[name |-> Mangle(k[1], args), kind |-> d.kind,
                                      fields |-> [i \in DOMAIN fields |-> RewriteType(fields[i])]]}
             /\ pending' = pushed.stack
             /\ seen' = pushed.seen
             /\ fns' = after.fns
             /\ impls' = after.impls
  BY DEF InstantiateType
<1> DEFINE fields == [i \in DOMAIN d.fields |-> SubstituteType(d.fields[i], Environment(d.params, args))]
           batches == [i \in DOMAIN fields |-> InstancesIn(fields[i])]
           plain == [i \in DOMAIN fields |-> RewriteType(fields[i])]
           new == [name |-> Mangle(k[1], args), kind |-> d.kind, fields |-> plain]
<1>2. /\ stage = "work" /\ refusal = "" /\ pending # <<>> /\ k \in Last(pending)
      /\ UNCHANGED <<program, stage, refusal, result>>
  BY DEF InstantiateType, Popping, Running
<1>3. /\ Len(d.params) = Len(args) /\ types' = types \cup {new}
      /\ pending' = Push(Popped(k), batches).stack /\ seen' = Push(Popped(k), batches).seen
      /\ fns' = after.fns /\ impls' = after.impls
  BY <1>1
<1>4. /\ batches \in Batches /\ WaitingIn(batches) = Mentions[k]
      /\ \A i \in DOMAIN fields : Concrete(fields[i])
  BY <1>3, WorklistIs, TypeMentions
<1> HIDE DEF fields
<1>5. \A i \in DOMAIN new.fields : Concrete(new.fields[i])
  <2>1. \A i \in DOMAIN fields : Concrete(RewriteType(fields[i]))
    BY <1>4, RewrittenPlain
  <2> QED
    BY <2>1
<1>6. new.name = InstanceName(k)
  BY DEF InstanceName
<1> HIDE DEF batches, new, plain
<1>7. Queues(k, Mentions[k])
  BY <1>2, <1>3, <1>4, WorklistIs, PushQueues
<1>8. ImplsFit(after)
  BY WorklistIs, ImplsStayFit
<1> HIDE DEF after
<1>9. /\ \A n \in BuiltNames' : n \in BuiltNames \/ n = InstanceName(k) \/ Given(n)
      /\ InstanceName(k) \in BuiltNames' /\ BuiltNames \subseteq BuiltNames'
  <2>1. \A f \in fns' : Given(f.name) \/ \E g \in fns : g.name = f.name
    BY <1>3, <1>8 DEF ImplsFit
  <2>2. \A f \in fns : \E g \in fns' : g.name = f.name
    BY <1>3, <1>8 DEF ImplsFit
  <2> QED
    BY <1>3, <1>6, <2>1, <2>2 DEF BuiltNames
<1>10. /\ NamesAccounted'
       /\ Waiting' \subseteq seen' /\ seen' \in SUBSET Instance
       /\ \A l \in Waiting' : InstanceName(l) \notin BuiltNames'
  BY <1>7, <1>9, WorklistIs, BuildKeepsNames
<1>11. pending' \in Batches /\ Apart(pending)'
  BY <1>7 DEF Queues
<1>12. TypeOK'
  BY <1>2, <1>10, <1>11, WorklistIs DEF TypeOK, IInv, Apart, InstanceName
<1>13. (\A e \in impls :
          ImplOf(e) /\ Backed(e, PromoteImpls(program) \cup fns))'
  BY <1>2, <1>3, <1>8 DEF ImplsFit, ImplOf, Backed
<1>14. (\A f \in fns : \A s \in f.sites : SitePlain(s))'
  BY <1>3, <1>8 DEF ImplsFit
<1>15. (\A d_1 \in types : \A i \in DOMAIN d_1.fields : Concrete(d_1.fields[i]))'
  BY <1>3, <1>5 DEF IInv
<1>16. Monomorphic'
  BY <1>2 DEF Monomorphic
<1>17. IInv'
  BY <1>2, <1>10, <1>11, <1>12, <1>13, <1>14, <1>15, <1>16 DEF IInv, Batches
<1> QED
  BY <1>7, <1>9, <1>17 DEF Builds

\* An instance of a function is built.
LEMMA InstantiateFunctionStep ==
    ASSUME IInv, NEW k \in Instance, InstantiateFunction(k)
    PROVE  IInv' /\ Builds(k)
<1> DEFINE args == k[2]
<1>1. PICK f \in FnTemplates(program, k[1]) :
         LET sites == {SubstituteSite(s, Environment(f.params, args)) : s \in f.sites}
             pushed == Push(Popped(k), <<Collect(sites)>>)
         IN  /\ Len(f.params) = Len(args)
             /\ fns' = {g \in fns : g.name # Mangle(k[1], args)}
                       \cup {[name |-> Mangle(k[1], args),
                              sites |-> {RewriteSite(s) : s \in sites}, from |-> ""]}
             /\ pending' = pushed.stack
             /\ seen' = pushed.seen
  BY DEF InstantiateFunction
<1> DEFINE sites == {SubstituteSite(s, Environment(f.params, args)) : s \in f.sites}
           batches == <<Collect(sites)>>
           new == [name |-> Mangle(k[1], args), sites |-> {RewriteSite(s) : s \in sites}, from |-> ""]
           kept == {g \in fns : g.name # InstanceName(k)}
<1>2. /\ stage = "work" /\ refusal = "" /\ pending # <<>> /\ k \in Last(pending)
      /\ UNCHANGED <<program, stage, refusal, types, impls, result>>
  BY DEF InstantiateFunction, Popping, Running
<1>3. /\ Len(f.params) = Len(args) /\ fns' = kept \cup {new}
      /\ pending' = Push(Popped(k), batches).stack /\ seen' = Push(Popped(k), batches).seen
  BY <1>1 DEF InstanceName
<1>4. /\ batches \in Batches /\ WaitingIn(batches) = Mentions[k]
      /\ \A s \in sites : SiteScopedIn(s, {})
  BY <1>3, WorklistIs, FnMentions
<1>5. \A s \in new.sites : SitePlain(s)
  <2>1. \A s \in sites : SitePlain(RewriteSite(s))
    BY <1>4, RewrittenSite
  <2> HIDE DEF sites
  <2> QED
    BY <2>1
<1>6. new.name = InstanceName(k)
  BY DEF InstanceName
<1> HIDE DEF batches, new, sites
<1>7. Queues(k, Mentions[k])
  BY <1>2, <1>3, <1>4, WorklistIs, PushQueues
<1>9. /\ \A n \in BuiltNames' : n \in BuiltNames \/ n = InstanceName(k) \/ Given(n)
      /\ InstanceName(k) \in BuiltNames' /\ BuiltNames \subseteq BuiltNames'
  BY <1>2, <1>3, <1>6 DEF BuiltNames
<1>10. /\ NamesAccounted'
       /\ Waiting' \subseteq seen' /\ seen' \in SUBSET Instance
       /\ \A l \in Waiting' : InstanceName(l) \notin BuiltNames'
  BY <1>7, <1>9, WorklistIs, BuildKeepsNames
<1>11. pending' \in Batches /\ Apart(pending)'
  BY <1>7 DEF Queues
<1>12. TypeOK'
  BY <1>2, <1>10, <1>11, WorklistIs DEF TypeOK, IInv, Apart, InstanceName
<1>13. (\A e \in impls :
          ImplOf(e) /\ Backed(e, PromoteImpls(program) \cup fns))'
  <2>1. ASSUME NEW e \in impls
        PROVE  ImplOf(e)' /\ Backed(e, PromoteImpls(program) \cup kept)
    <3>1. ImplOf(e) /\ Backed(e, PromoteImpls(program) \cup fns)
      BY DEF IInv
    <3>2. ASSUME NEW n \in e.methods PROVE MethodName(e.target, n) # InstanceName(k)
      <4>1. PICK j \in DOMAIN program.impls : e.methods = {o.name : o \in program.impls[j].methods}
        BY <3>1 DEF ImplOf
      <4>2. ImplScoped(program.impls[j])
        BY ImplIs, WorklistIs
      <4>3. n \in Token \ {">"}
        BY <4>1, <4>2 DEF ImplScoped
      <4>4. e.target \in Seq(Token)
        BY <3>1 DEF ImplOf
      <4> QED
        BY <4>3, <4>4, MethodNames, InstanceNames
    <3>3. Backed(e, PromoteImpls(program) \cup kept)
      BY <3>1, <3>2 DEF Backed
    <3>4. ImplOf(e)'
      BY <1>2, <3>1 DEF ImplOf
    <3> QED
      BY <3>3, <3>4
  <2> QED
    BY <1>2, <1>3, <2>1 DEF Backed
<1>14. (\A g \in fns : \A s \in g.sites : SitePlain(s))'
  BY <1>3, <1>5 DEF IInv
<1>15. (\A d \in types : \A i \in DOMAIN d.fields : Concrete(d.fields[i]))'
  BY <1>2 DEF IInv
<1>16. Monomorphic'
  BY <1>2 DEF Monomorphic
<1>17. IInv'
  BY <1>2, <1>10, <1>11, <1>12, <1>13, <1>14, <1>15, <1>16 DEF IInv, Batches
<1> QED
  BY <1>7, <1>9, <1>17 DEF Builds

\* The program is loaded: everything it mentions waits.
LEMMA LoadStep ==
    ASSUME IInv, Load
    PROVE  IInv' /\ Waiting' = Seeds(program) /\ \A k \in Instance : InstanceName(k) \notin BuiltNames'
<1> DEFINE S == Seeds(program)
           closed == {d \in TypeDefs(program) : ~IsGeneric(d)}
<1>1. /\ stage = "load" /\ refusal = "" /\ stage' = "work" /\ UNCHANGED <<program, refusal, fns, result>>
      /\ impls' = BuildImplIndex(program)
      /\ types' = {[name |-> d.name, kind |-> d.kind, fields |-> d.fields] : d \in closed}
      /\ pending' = Batch(S) /\ seen' = S
  BY DEF Load, Running
<1>2. S \in SUBSET Instance /\ program \in Programs
  BY MentionsAssumption, WorklistIs
<1> HIDE DEF S
<1>3. pending' \in Batches /\ Waiting' = S /\ Apart(pending)'
  <2> DEFINE none == <<>>
             s == none \o Batch(S)
  <2>1. none \in Batches /\ WaitingIn(none) = {} /\ Apart(none)
    BY DEF Batches, WaitingIn, Apart
  <2>2. Tops(s, none, S)
    BY <1>2, <2>1, BatchTops
  <2>3. Batch(S) = s
    BY <1>2 DEF Batch
  <2> HIDE DEF none, s
  <2>4. s \in Batches /\ WaitingIn(s) = S /\ Apart(s)
    BY <2>1, <2>2 DEF Tops
  <2> QED
    BY <1>1, <2>3, <2>4 DEF Waiting, WaitingIn, Apart
<1>4. \A n \in BuiltNames' : Given(n)
  <2>1. \A d \in types' : Given(d.name)
    <3>1. \A c \in closed : Given(c.name)
      BY <1>2, TypeDefScoped
    <3>2. ASSUME NEW d \in types' PROVE Given(d.name)
      <4>1. PICK c \in closed : d = [name |-> c.name, kind |-> c.kind, fields |-> c.fields]
        BY <1>1
      <4>2. d.name = c.name
        BY <4>1
      <4> QED
        BY <3>1, <4>2
    <3> QED
      BY <3>2
  <2>2. fns' = {}
    BY <1>1 DEF IInv
  <2> QED
    BY <2>1, <2>2 DEF BuiltNames
<1>5. \A k \in Instance : InstanceName(k) \notin BuiltNames'
  BY <1>4, InstanceNames
<1>6. TypeOK'
  BY <1>1, <1>2, <1>3, <1>5 DEF TypeOK, IInv, Apart, InstanceName
<1>7. NamesAccounted'
  BY <1>4 DEF NamesAccounted
<1>8. (\A e \in impls :
          ImplOf(e) /\ Backed(e, PromoteImpls(program) \cup fns))'
  <2>1. ASSUME NEW e \in impls' PROVE ImplOf(e) /\ Backed(e, PromoteImpls(program))
    <3>1. PICK i \in ConcreteImpls(program) :
             e = ImplEntry(program.impls[i], TypeName(program.impls[i].for))
      BY <1>1 DEF BuildImplIndex
    <3> QED
      BY <1>2, <3>1, ConcreteImplIs
  <2> QED
    BY <1>1, <2>1 DEF Backed, ImplOf
<1>9. (\A d \in types : \A i \in DOMAIN d.fields : Concrete(d.fields[i]))'
  <2>1. \A c \in closed : \A i \in DOMAIN c.fields : Concrete(c.fields[i])
    BY <1>2, TypeDefClosed
  <2>2. ASSUME NEW d \in types' PROVE \E c \in closed : d.fields = c.fields
    <3>1. PICK c \in closed : d = [name |-> c.name, kind |-> c.kind, fields |-> c.fields]
      BY <1>1
    <3>2. d.fields = c.fields
      BY <3>1
    <3> QED
      BY <3>2
  <2> HIDE DEF closed
  <2>3. \A d \in types' : \A i \in DOMAIN d.fields : Concrete(d.fields[i])
    BY <2>1, <2>2
  <2> QED
    BY <2>3
<1>10. (\A f \in fns : \A s \in f.sites : SitePlain(s))'
  BY <1>1 DEF IInv
<1>11. Monomorphic'
  BY <1>1 DEF Monomorphic
<1>12. IInv'
  BY <1>1, <1>3, <1>6, <1>7, <1>8, <1>9, <1>10, <1>11 DEF IInv, Batches
<1> QED
  BY <1>3, <1>5, <1>12 DEF S

\* A method that the index promises is one of the functions to resolve.
LEMMA PromisedIsThere ==
    ASSUME NEW g \in PromoteImpls(program) \cup fns
    PROVE  \E h \in BeforeResolution : h.name = g.name /\ h.from = g.from
<1>1. CASE g \in fns
  BY <1>1 DEF BeforeResolution
<1>2. CASE g \in PromoteImpls(program)
  <2>1. g \in Functions(program)
    BY <1>2 DEF Functions
  <2>2. ~IsGeneric(g)
    BY <1>2 DEF PromoteImpls, IsGeneric
  <2>3. Rewritten(g) \in BeforeResolution
    BY <2>1, <2>2 DEF BeforeResolution
  <2>4. Rewritten(g).name = g.name /\ Rewritten(g).from = g.from
    BY DEF Rewritten
  <2> QED
    BY <2>3, <2>4
<1> QED
  BY <1>1, <1>2

\* What the functions to resolve mention is plain.
LEMMA PlainBeforeResolution ==
    ASSUME IInv, NEW f \in BeforeResolution, NEW s \in f.sites
    PROVE  SitePlain(s)
<1>1. CASE f \in fns
  BY <1>1 DEF IInv
<1>2. CASE f \notin fns
  <2>1. PICK g \in Functions(program) : ~IsGeneric(g) /\ f = Rewritten(g)
    BY <1>2 DEF BeforeResolution
  <2>2. f.sites = {RewriteSite(t) : t \in g.sites}
    BY <2>1 DEF Rewritten
  <2>3. PICK t \in g.sites : s = RewriteSite(t)
    BY <2>2
  <2>4. SiteScopedIn(t, {})
    BY <2>1, WorklistIs, FunctionClosed
  <2> QED
    BY <2>3, <2>4, RewrittenSite
<1> QED
  BY <1>1, <1>2

\* The rewrite makes the program monomorphic.
LEMMA RewriteStep ==
    ASSUME IInv, Rewrite
    PROVE  IInv' /\ BuiltNames' = BuiltNames
<1>1. /\ stage = "work" /\ refusal = "" /\ pending = <<>> /\ stage' = "rewritten"
      /\ UNCHANGED <<program, refusal, pending, seen, fns, impls>>
      /\ \A f \in BeforeResolution : \A s \in f.sites : Resolves(s)
      /\ types' = {[name |-> d.name, kind |-> d.kind,
                    fields |-> [i \in DOMAIN d.fields |-> RewriteType(d.fields[i])]] : d \in types}
      /\ result' = {Resolved(f) : f \in BeforeResolution}
  BY DEF Rewrite, Running
<1>2. BuiltNames' = BuiltNames
  <2> DEFINE New(d) == [name |-> d.name, kind |-> d.kind,
                        fields |-> [i \in DOMAIN d.fields |-> RewriteType(d.fields[i])]]
  <2>1. types' = {New(d) : d \in types} /\ \A d \in types : New(d).name = d.name
    BY <1>1
  <2> HIDE DEF New
  <2>2. {d.name : d \in types'} = {d.name : d \in types}
    BY <2>1
  <2> QED
    BY <1>1, <2>2 DEF BuiltNames
<1>3. ASSUME NEW c \in types' PROVE \A i \in DOMAIN c.fields : Plain(c.fields[i]) /\ Concrete(c.fields[i])
  <2>1. PICK d \in types : c = [name |-> d.name, kind |-> d.kind,
                                fields |-> [i \in DOMAIN d.fields |-> RewriteType(d.fields[i])]]
    BY <1>1
  <2>2. c.fields = [i \in DOMAIN d.fields |-> RewriteType(d.fields[i])]
    BY <2>1
  <2>3. \A i \in DOMAIN d.fields : Concrete(d.fields[i])
    BY DEF IInv
  <2> QED
    BY <2>2, <2>3, RewrittenPlain
<1>4. ASSUME NEW g \in result', NEW u \in g.sites
      PROVE  /\ u.op # "trait"
             /\ u.op = "type" => Plain(u.args[1])
             /\ u.op # "type" => u.args = <<>>
             /\ u.trait # "" => \E h \in result' :
                   h.name = u.name /\ (MethodsApart(program) => h.from = u.trait)
  <2>1. PICK f \in BeforeResolution : g = Resolved(f)
    BY <1>1
  <2>2. PICK s \in f.sites : u = ResolveSite(s)
    BY <2>1 DEF Resolved
  <2>3. SitePlain(s)
    BY PlainBeforeResolution
  <2>4. CASE s.op = "trait"
    <3>1. /\ u.op = "call" /\ u.name = MethodName(TypeName(s.args[1]), s.name[1])
          /\ u.args = <<>> /\ u.trait = s.trait
      BY <2>2, <2>4 DEF ResolveSite, Site
    <3>2. PICK e \in impls : e.trait = s.trait /\ e.target = TypeName(s.args[1]) /\ s.name[1] \in e.methods
      BY <1>1, <2>4 DEF Resolves
    <3>3. PICK p \in PromoteImpls(program) \cup fns :
             p.name = MethodName(e.target, s.name[1]) /\ (MethodsApart(program) => p.from = e.trait)
      BY <3>2 DEF IInv, Backed
    <3>4. PICK h \in BeforeResolution : h.name = p.name /\ h.from = p.from
      BY PromisedIsThere
    <3>5. Resolved(h) \in result' /\ Resolved(h).name = h.name /\ Resolved(h).from = h.from
      BY <1>1 DEF Resolved
    <3> QED
      BY <3>1, <3>2, <3>3, <3>4, <3>5
  <2>5. CASE s.op # "trait"
    <3>1. u = s
      BY <2>2, <2>5 DEF ResolveSite
    <3> QED
      BY <2>3, <2>5, <3>1 DEF SitePlain
  <2> QED
    BY <2>4, <2>5
<1>5. Monomorphic'
  <2>1. \A d \in types' : \A i \in DOMAIN d.fields : Plain(d.fields[i])
    BY <1>3
  <2>2. \A g \in result' : \A u \in g.sites :
           /\ u.op # "trait"
           /\ u.op = "type" => Plain(u.args[1])
           /\ u.op # "type" => u.args = <<>>
           /\ u.trait # "" => \E h \in result' :
                 h.name = u.name /\ (MethodsApart(program) => h.from = u.trait)
    BY <1>4
  <2> QED
    BY <1>1, <2>1, <2>2 DEF Monomorphic
<1>6. Waiting' = Waiting
  BY <1>1 DEF Waiting
<1>7. TypeOK'
  BY <1>1, <1>2, <1>6 DEF TypeOK, IInv
<1>8. NamesAccounted'
  BY <1>1, <1>2, <1>6 DEF NamesAccounted, IInv
<1>9. (\A d \in types : \A i \in DOMAIN d.fields : Concrete(d.fields[i]))'
  <2>1. \A d \in types' : \A i \in DOMAIN d.fields : Concrete(d.fields[i])
    BY <1>3
  <2> QED
    BY <2>1
<1>10. (\A e \in impls :
          ImplOf(e) /\ Backed(e, PromoteImpls(program) \cup fns))'
  BY <1>1 DEF IInv, ImplOf, Backed
<1>11. (\A f \in fns : \A s \in f.sites : SitePlain(s))'
  BY <1>1 DEF IInv
<1>12. IInv'
  BY <1>1, <1>5, <1>7, <1>8, <1>9, <1>10, <1>11 DEF IInv
<1> QED
  BY <1>2, <1>12

\* Why a program is refused, or "".
Refusals == {"", "invalid", "incoherent", "impl_target", "unknown_template", "arity", "bound", "crash",
             "impl_arity", "bound_twice", "no_impl"}

\* Nothing is built when only the stage or the refusal changes.
LEMMA StillStep ==
    ASSUME IInv, UNCHANGED <<program, pending, seen, types, fns, impls, result>>, refusal' \in Refusals,
           \/ stage' = stage
           \/ stage = "rewritten" /\ stage' = "ready"
    PROVE  IInv'
<1>1. BuiltNames' = BuiltNames /\ Waiting' = Waiting
  BY DEF BuiltNames, Waiting
<1>2. TypeOK'
  BY <1>1 DEF IInv, TypeOK, Refusals
<1>3. NamesAccounted'
  BY <1>1 DEF IInv, NamesAccounted
<1>4. (\A e \in impls :
          ImplOf(e) /\ Backed(e, PromoteImpls(program) \cup fns))'
  BY DEF IInv, ImplOf, Backed
<1>5. (\A d \in types : \A i \in DOMAIN d.fields : Concrete(d.fields[i]))'
  BY DEF IInv
<1>6. (\A f \in fns : \A s \in f.sites : SitePlain(s))'
  BY DEF IInv
<1>7. Monomorphic'
  BY DEF IInv, Monomorphic
<1> QED
  BY <1>2, <1>3, <1>4, <1>5, <1>6, <1>7 DEF IInv

\* A step that refuses gives a reason and does nothing else.
LEMMA RefusalStep ==
    ASSUME IInv, LoadRefuses \/ (\E k \in Instance : WorkRefuses(k)) \/ RewriteRefuses \/ AcceptRefuses
    PROVE  /\ refusal = "" /\ refusal' \in Refusals \ {""}
           /\ UNCHANGED <<program, stage, pending, seen, types, fns, impls, result>>
<1>1. CASE LoadRefuses
  BY <1>1 DEF LoadRefuses, Refuse, Running, Refusals
<1>2. ASSUME NEW k \in Instance, WorkRefuses(k)
      PROVE  /\ refusal = "" /\ refusal' \in Refusals \ {""}
             /\ UNCHANGED <<program, stage, pending, seen, types, fns, impls, result>>
  <2> DEFINE after == InstantiateImpls(k[1], k[2])
  <2>1. /\ refusal = ""
        /\ \E why \in {"unknown_template", "arity", "bound", "crash", after.refusal} :
              why # "" /\ Refuse(why)
    BY <1>2 DEF WorkRefuses, Popping, Running
  <2>2. after.refusal \in {"", "impl_arity", "bound_twice"}
    BY WorklistIs, ImplsStayFit DEF ImplAccs, Accs
  <2> HIDE DEF after
  <2> QED
    BY <2>1, <2>2 DEF Refuse, Refusals
<1>3. CASE RewriteRefuses
  BY <1>3 DEF RewriteRefuses, Refuse, Running, Refusals
<1>4. CASE AcceptRefuses
  BY <1>4 DEF AcceptRefuses, Refuse, Running, Refusals
<1> QED
  BY <1>1, <1>2, <1>3, <1>4

-----------------------------------------------------------------------------
(* The invariant.                                                          *)

\* Nothing waits on an empty stack.
LEMMA NoneWaits ==
    ASSUME pending = <<>>
    PROVE  Waiting = {} /\ pending \in Batches /\ DOMAIN pending = {}
<1>1. DOMAIN pending = {} /\ pending \in Batches
  BY DEF Batches
<1> QED
  BY <1>1 DEF Waiting

\* Nothing is queued or built when the pass begins.
LEMMA InitFits == Init => IInv
<1> SUFFICES ASSUME Init PROVE IInv
  OBVIOUS
<1>1. /\ program \in Programs /\ stage = "load" /\ refusal = "" /\ pending = <<>>
      /\ seen = {} /\ types = {} /\ fns = {} /\ impls = {} /\ result = {}
  BY DEF Init
<1>2. Waiting = {} /\ BuiltNames = {} /\ pending \in Seq(SUBSET Instance) /\ DOMAIN pending = {}
  BY <1>1, NoneWaits DEF BuiltNames, Batches
<1>3. TypeOK
  BY <1>1, <1>2 DEF TypeOK
<1>4. NamesAccounted
  BY <1>2 DEF NamesAccounted
<1>5. Monomorphic
  BY <1>1 DEF Monomorphic
<1> QED
  BY <1>1, <1>2, <1>3, <1>4, <1>5 DEF IInv

\* Every step keeps the invariant.
LEMMA StepFits == IInv /\ [Next]_vars => IInv'
<1> SUFFICES ASSUME IInv, [Next]_vars PROVE IInv'
  OBVIOUS
<1>1. CASE Load
  BY <1>1, LoadStep
<1>2. CASE LoadRefuses \/ (\E k \in Instance : WorkRefuses(k)) \/ RewriteRefuses \/ AcceptRefuses
  <2>1. refusal' \in Refusals /\ UNCHANGED <<program, stage, pending, seen, types, fns, impls, result>>
    BY <1>2, RefusalStep
  <2> QED
    BY <2>1, StillStep
<1>3. ASSUME NEW k \in Instance, InstantiateType(k) PROVE IInv'
  BY <1>3, InstantiateTypeStep
<1>4. ASSUME NEW k \in Instance, InstantiateFunction(k) PROVE IInv'
  BY <1>4, InstantiateFunctionStep
<1>5. CASE Rewrite
  BY <1>5, RewriteStep
<1>6. CASE Accept
  <2>1. /\ stage = "rewritten" /\ stage' = "ready" /\ refusal' = refusal
        /\ UNCHANGED <<program, pending, seen, types, fns, impls, result>>
    BY <1>6 DEF Accept, Running
  <2>2. refusal \in Refusals
    BY DEF IInv, TypeOK, Refusals
  <2> QED
    BY <2>1, <2>2, StillStep
<1>7. CASE UNCHANGED vars
  <2>1. refusal \in Refusals
    BY DEF IInv, TypeOK, Refusals
  <2> QED
    BY <1>7, <2>1, StillStep DEF vars
<1> QED
  BY <1>1, <1>2, <1>3, <1>4, <1>5, <1>6, <1>7 DEF Next

\* The invariant always holds.
LEMMA AlwaysFits == Spec => []IInv
  BY InitFits, StepFits, PTL DEF Spec

\* The pending worklist of monomorphize() never holds an instance twice, nor
\* one whose name is built already: the test of the name in its loop has
\* nothing to skip.
THEOREM WorklistTypeOK == Spec => []TypeOK
<1>1. IInv => TypeOK
  BY DEF IInv
<1> QED
  BY <1>1, AlwaysFits, PTL

\* The program that leaves the pass is monomorphic: no type argument and no
\* type parameter is left in a field or a body, and every trait call was
\* resolved to a function that exists.  It is the one that the implementation
\* of that trait brought, and no later implementation of the same type has
\* replaced it, unless two traits of that type share the name of a method.
THEOREM AlwaysMonomorphic == Spec => []Monomorphic
<1>1. IInv => Monomorphic
  BY DEF IInv
<1> QED
  BY <1>1, AlwaysFits, PTL

-----------------------------------------------------------------------------
(* The pass implements the worklist.                                       *)

\* The program is what the worklist starts with.
LEMMA InitIsWorklist == Init => Worklist!Init
<1> SUFFICES ASSUME Init PROVE Worklist!Init
  OBVIOUS
<1>1. program \in Programs /\ stage = "load" /\ refusal = ""
  BY DEF Init
<1>2. Seeded \subseteq Instance /\ Mentions \in [Instance -> SUBSET Instance]
  BY <1>1, MentionsAssumption DEF Seeded, Mentions
<1>3. Todo = Seeded /\ Known = Seeded /\ Built = {} /\ Verdict = "running"
  BY <1>1 DEF Todo, Known, Built, Verdict, Seeded
<1> QED
  BY <1>2, <1>3 DEF Worklist!Init

\* A step that builds an instance builds it in the worklist.
LEMMA BuildIsBuild ==
    ASSUME IInv, NEW k \in Instance, stage = "work", refusal = "", UNCHANGED <<program, stage, refusal>>,
           Builds(k)
    PROVE  Worklist!Build(k)
<1>1. /\ Todo = Waiting /\ Known = seen /\ Verdict = "running"
      /\ Todo' = Waiting' /\ Known' = seen' /\ Verdict' = "running"
  BY DEF Todo, Known, Verdict
<1>2. Seeded' = Seeded /\ Mentions' = Mentions
  BY DEF Seeded, Mentions
<1>3. /\ Waiting' = (Waiting \ {k}) \cup (Mentions[k] \ seen)
      /\ seen' = seen \cup Mentions[k] /\ k \in Waiting
      /\ InstanceName(k) \in BuiltNames' /\ BuiltNames \subseteq BuiltNames'
      /\ \A n \in BuiltNames' : n \in BuiltNames \/ n = InstanceName(k) \/ Given(n)
  BY DEF Queues, Builds
<1>4. Built = {l \in Instance : l \in seen /\ InstanceName(l) \in BuiltNames}
  BY DEF Built, InstanceName
<1>5. Built' = {l \in Instance : l \in seen' /\ InstanceName(l) \in BuiltNames'}
  BY DEF Built, InstanceName
<1>6. k \in seen
  BY <1>3, WorklistIs
<1>7. ASSUME NEW l \in Built' PROVE l \in Built \cup {k}
  <2>1. l \in Instance /\ InstanceName(l) \in BuiltNames'
    BY <1>5
  <2>2. CASE InstanceName(l) = InstanceName(k)
    BY <2>1, <2>2, InstanceNames
  <2>3. CASE InstanceName(l) \in BuiltNames
    <3>1. PICK j \in seen \ Waiting : InstanceName(l) = InstanceName(j)
      BY <2>1, <2>3, WorklistIs, InstanceNames DEF NamesAccounted
    <3>2. l = j
      BY <2>1, <3>1, WorklistIs, InstanceNames
    <3> QED
      BY <1>4, <2>1, <2>3, <3>1, <3>2
  <2> QED
    BY <1>3, <2>1, <2>2, <2>3, InstanceNames
<1>8. Built' = Built \cup {k}
  BY <1>3, <1>4, <1>5, <1>6, <1>7
<1> QED
  BY <1>1, <1>2, <1>3, <1>8 DEF Worklist!Build

\* The state of the worklist is a function of these.
LEMMA StillWorklist ==
    ASSUME UNCHANGED <<program, stage, pending, seen, types, fns>>
    PROVE  UNCHANGED <<Seeded, Mentions, Todo, Known, Built>>
  BY DEF Seeded, Mentions, Todo, Known, Built, Waiting, BuiltNames

\* Every step is a step of the worklist, or none.
LEMMA StepIsWorklist == IInv /\ [Next]_vars => [Worklist!Next]_(Worklist!vars)
<1> SUFFICES ASSUME IInv, [Next]_vars PROVE [Worklist!Next]_(Worklist!vars)
  OBVIOUS
<1>1. CASE Load
  <2>1. /\ stage = "load" /\ refusal = "" /\ stage' = "work"
        /\ UNCHANGED <<program, refusal>> /\ seen' = Seeds(program)
    BY <1>1 DEF Load, Running
  <2>2. Waiting' = Seeds(program) /\ \A k \in Instance : InstanceName(k) \notin BuiltNames'
    BY <1>1, LoadStep
  <2>3. Seeded' = Seeded /\ Mentions' = Mentions /\ Verdict' = Verdict
    BY <2>1 DEF Seeded, Mentions, Verdict
  <2>4. Todo' = Todo /\ Known' = Known
    BY <2>1, <2>2 DEF Todo, Known
  <2>5. Built = {} /\ Built' = {}
    BY <2>1, <2>2 DEF Built, InstanceName
  <2> QED
    BY <2>3, <2>4, <2>5 DEF Worklist!vars
<1>2. CASE LoadRefuses \/ (\E k \in Instance : WorkRefuses(k)) \/ RewriteRefuses \/ AcceptRefuses
  <2>1. /\ refusal = "" /\ refusal' # ""
        /\ UNCHANGED <<program, stage, pending, seen, types, fns, impls, result>>
    BY <1>2, RefusalStep
  <2>2. UNCHANGED <<Seeded, Mentions, Todo, Known, Built>>
    BY <2>1, StillWorklist
  <2>3. Verdict' = Verdict \/ (Verdict = "running" /\ Verdict' = "refused")
    BY <2>1 DEF Verdict
  <2> QED
    BY <2>2, <2>3 DEF Worklist!vars, Worklist!Next, Worklist!Refuse
<1>3. ASSUME NEW k \in Instance, InstantiateType(k) \/ InstantiateFunction(k) PROVE Worklist!Build(k)
  <2>1. stage = "work" /\ refusal = "" /\ UNCHANGED <<program, stage, refusal>>
    BY <1>3 DEF InstantiateType, InstantiateFunction, Popping, Running
  <2>2. Builds(k)
    BY <1>3, InstantiateTypeStep, InstantiateFunctionStep
  <2> QED
    BY <2>1, <2>2, BuildIsBuild
<1>4. CASE Rewrite
  <2>1. /\ stage = "work" /\ refusal = "" /\ pending = <<>> /\ stage' = "rewritten"
        /\ UNCHANGED <<program, refusal, pending, seen>>
    BY <1>4 DEF Rewrite, Running
  <2>2. BuiltNames' = BuiltNames /\ Waiting' = Waiting
    BY <1>4, <2>1, RewriteStep DEF Waiting
  <2>3. Seeded' = Seeded /\ Mentions' = Mentions
    BY <2>1 DEF Seeded, Mentions
  <2>4. Todo' = Todo /\ Known' = Known /\ Built' = Built
    BY <2>1, <2>2 DEF Todo, Known, Built
  <2>5. Todo = {}
    BY <2>1, NoneWaits DEF Todo
  <2>6. Verdict = "running" /\ Verdict' = "built"
    BY <2>1 DEF Verdict
  <2> QED
    BY <2>3, <2>4, <2>5, <2>6 DEF Worklist!Next, Worklist!Finish
<1>5. CASE Accept
  <2>1. /\ stage = "rewritten" /\ stage' = "ready"
        /\ UNCHANGED <<program, refusal, pending, seen, types, fns>>
    BY <1>5 DEF Accept, Running
  <2>2. BuiltNames' = BuiltNames /\ Waiting' = Waiting
    BY <2>1 DEF Waiting, BuiltNames
  <2>3. UNCHANGED <<Seeded, Mentions, Todo, Known, Built, Verdict>>
    BY <2>1, <2>2 DEF Seeded, Mentions, Todo, Known, Built, Verdict
  <2> QED
    BY <2>3 DEF Worklist!vars
<1>6. CASE UNCHANGED vars
  <2>1. UNCHANGED <<program, stage, pending, seen, types, fns>> /\ refusal' = refusal
    BY <1>6 DEF vars
  <2>2. UNCHANGED <<Seeded, Mentions, Todo, Known, Built>> /\ Verdict' = Verdict
    BY <2>1, StillWorklist DEF Verdict
  <2> QED
    BY <2>2 DEF Worklist!vars
<1> QED
  BY <1>1, <1>2, <1>3, <1>4, <1>5, <1>6 DEF Next, Worklist!Next

\* The pass is the worklist.
LEMMA IsWorklist == Spec => Worklist!Spec
  BY InitIsWorklist, StepIsWorklist, AlwaysFits, PTL DEF Spec, Worklist!Spec

-----------------------------------------------------------------------------
(* What the worklist promises.                                             *)

\* Every variable of the worklist keeps its type.
LEMMA WorklistTyped == Worklist!Spec => []Worklist!TypeOK
<1>1. Worklist!Init => Worklist!TypeOK
  BY DEF Worklist!Init, Worklist!TypeOK
<1>2. Worklist!TypeOK /\ [Worklist!Next]_(Worklist!vars) => Worklist!TypeOK'
  <2> SUFFICES ASSUME Worklist!TypeOK, [Worklist!Next]_(Worklist!vars) PROVE Worklist!TypeOK'
    OBVIOUS
  <2>1. ASSUME NEW k \in Instance, Worklist!Build(k) PROVE Worklist!TypeOK'
    <3>1. Mentions[k] \in SUBSET Instance
      BY DEF Worklist!TypeOK
    <3> QED
      BY <2>1, <3>1 DEF Worklist!TypeOK, Worklist!Build
  <2>2. CASE Worklist!Refuse
    BY <2>2 DEF Worklist!TypeOK, Worklist!Refuse
  <2>3. CASE Worklist!Finish
    BY <2>3 DEF Worklist!TypeOK, Worklist!Finish
  <2>4. CASE UNCHANGED (Worklist!vars)
    BY <2>4 DEF Worklist!TypeOK, Worklist!vars
  <2> QED
    BY <2>1, <2>2, <2>3, <2>4 DEF Worklist!Next
<1> QED
  BY <1>1, <1>2, PTL DEF Worklist!Spec

\* The strengthening of Least that every step keeps.
LEMMA WorklistProgress == Worklist!Spec => []Worklist!Progress
<1>1. Worklist!Init => Worklist!Progress
  BY DEF Worklist!Init, Worklist!Progress
<1>2. Worklist!TypeOK /\ Worklist!Progress /\ [Worklist!Next]_(Worklist!vars) => Worklist!Progress'
  <2> SUFFICES ASSUME Worklist!TypeOK, Worklist!Progress, [Worklist!Next]_(Worklist!vars)
               PROVE  Worklist!Progress'
    OBVIOUS
  <2>1. ASSUME NEW k \in Instance, Worklist!Build(k) PROVE Worklist!Progress'
    <3>0. /\ Built' = Built \cup {k}
          /\ Known' = Known \cup Mentions[k]
          /\ Todo' = (Todo \ {k}) \cup (Mentions[k] \ Known)
          /\ Seeded' = Seeded /\ Mentions' = Mentions /\ Verdict' = Verdict
          /\ Verdict = "running" /\ k \in Todo
      BY <2>1 DEF Worklist!Build
    <3>1. (Known = Todo \cup Built)'
      BY <3>0 DEF Worklist!Progress
    <3>2. (Seeded \subseteq Known)'
      BY <3>0 DEF Worklist!Progress
    <3>3. (\A j \in Built : Mentions[j] \subseteq Known)'
      BY <3>0 DEF Worklist!Progress
    <3>4. ASSUME NEW C \in SUBSET Instance, Seeded \subseteq C, Worklist!Closed(C)
          PROVE Known \cup Mentions[k] \subseteq C
      <4>1. Known \subseteq C
        BY <3>4 DEF Worklist!Progress
      <4>2. k \in C
        BY <3>0, <4>1 DEF Worklist!Progress
      <4> QED
        BY <3>4, <4>1, <4>2 DEF Worklist!Closed
    <3>5. (\A C \in SUBSET Instance : Seeded \subseteq C /\ Worklist!Closed(C) => Known \subseteq C)'
      BY <3>0, <3>4 DEF Worklist!Closed
    <3>6. (Verdict = "built" => Todo = {})'
      BY <3>0
    <3> QED
      BY <3>1, <3>2, <3>3, <3>5, <3>6 DEF Worklist!Progress
  <2>2. CASE Worklist!Refuse
    BY <2>2 DEF Worklist!Progress, Worklist!Refuse, Worklist!Closed
  <2>3. CASE Worklist!Finish
    BY <2>3 DEF Worklist!Progress, Worklist!Finish, Worklist!Closed
  <2>4. CASE UNCHANGED (Worklist!vars)
    BY <2>4 DEF Worklist!Progress, Worklist!vars, Worklist!Closed
  <2> QED
    BY <2>1, <2>2, <2>3, <2>4 DEF Worklist!Next
<1> QED
  BY <1>1, <1>2, WorklistTyped, PTL DEF Worklist!Spec

\* A worklist that ends without a refusal has built the least closed set.
LEMMA WorklistIsLeast == Worklist!Spec => []Worklist!Least
<1>1. Worklist!Progress => Worklist!Least
  <2> SUFFICES ASSUME Worklist!Progress, Verdict = "built"
               PROVE  /\ Seeded \subseteq Built
                      /\ Worklist!Closed(Built)
                      /\ \A C \in SUBSET Instance :
                            Seeded \subseteq C /\ Worklist!Closed(C) => Built \subseteq C
    BY DEF Worklist!Least
  <2>1. Known = Built
    BY DEF Worklist!Progress
  <2>2. Worklist!Closed(Built)
    BY <2>1 DEF Worklist!Progress, Worklist!Closed
  <2> QED
    BY <2>1, <2>2 DEF Worklist!Progress
<1> QED
  BY <1>1, WorklistProgress, PTL

\* A program that prepare_program() does not refuse gets the least closed set of instances
\* over the ones it mentions, whatever order they were built in.
THEOREM BuiltIsLeast == Spec => []Worklist!Least
  BY IsWorklist, WorklistIsLeast, PTL

\* Every step of prepare_program() builds one instance that waits and queues
\* what its template mentions for the first time, refuses, ends the worklist,
\* or leaves the worklist as it is.  What implementations mention is there at
\* the end as well, but for the gap.
THEOREM ImplementsWorklist == Spec => BuildsLeastInstances
<1>1. IInv /\ Worklist!Least => NoneMissing
  <2> SUFFICES ASSUME IInv, Worklist!Least, Verdict = "built", ~ImplGap
               PROVE  /\ Seeded \subseteq Built
                      /\ \A k \in Built :
                            Mentions[k] \cup ImplMentionsOf[program.impls][k] \subseteq Built
    BY DEF NoneMissing
  <2>1. Seeded \subseteq Built /\ \A k \in Built : Mentions[k] \subseteq Built
    BY DEF Worklist!Least, Worklist!Closed
  <2>2. \A k \in Built : ImplMentionsOf[program.impls][k] \subseteq Mentions[k]
    BY DEF ImplGap
  <2> QED
    BY <2>1, <2>2
<1> QED
  BY <1>1, AlwaysFits, IsWorklist, BuiltIsLeast, PTL DEF BuildsLeastInstances
=============================================================================
