----------------------- MODULE ImportResolutionProofs -----------------------
(***************************************************************************)
(* Theorems about ImportResolution, for every library and every program:   *)
(* whatever the import graph is, the program's own definitions survive,    *)
(* no disabled tier gets in, and no wirable of a module stays free; a      *)
(* resolution that succeeds has looked at exactly what the imports reach,  *)
(* nearest first.                                                          *)
(***************************************************************************)
EXTENDS ImportResolution, NatRecursion, SequenceTheorems, FiniteSetTheorems, TLAPS

\* What is merged comes from the program, from nobody, or from a module of the
\* library that was allowed when it was merged.
Sourced(s) ==
    \/ s = Own
    \/ s = Nowhere
    \/ /\ s.module \in DOMAIN library
       /\ Tier[s.module] \notin request.disabled

Inv ==
    /\ library \in Libraries
    /\ request \in Requests
    /\ DOMAIN merged = Names
    /\ \A n \in Names : Sourced(merged[n])
    /\ UserShadows

LEMMA InitInv == Init => Inv
  <1> SUFFICES ASSUME Init PROVE Inv
    OBVIOUS
  <1> USE ModulesAssumption
  <1>1. Own # Nowhere
    BY DEF Own, Nowhere, Source
  <1>2. \A n \in Names : merged[n] = IF n \in request.names THEN Own ELSE Nowhere
    BY DEF Init
  <1> QED
    BY <1>1, <1>2 DEF Init, Inv, UserShadows, Sourced

LEMMA MergeInv == Inv /\ Merge => Inv'
  <1> SUFFICES ASSUME Inv, Merge PROVE Inv'
    OBVIOUS
  <1> USE ModulesAssumption
  <1>1. /\ imp.module \in DOMAIN library
        /\ library' = library
        /\ request' = request
        /\ merged' = MergedUnder
    BY DEF Merge, WellWired, Known
  <1>2. imp.module \in Modules
    BY <1>1 DEF Inv
  <1>3. \A n \in Names : Copy(n) # Own /\ Copy(n) # Nowhere
    BY <1>2 DEF Own, Nowhere, Source, Copy
  <1>4. \A n \in Names : Copy(n).module = imp.module
    BY DEF Source, Copy
  <1>5. \A n \in Names : Sourced(Copy(n))
    BY <1>1, <1>4 DEF Merge, Disabled, Sourced
  <1>6. DOMAIN merged' = Names
    BY <1>1 DEF MergedUnder
  <1>7. \A n \in Names :
           \/ merged[n] = Nowhere /\ merged'[n] = Copy(n)
           \/ merged'[n] = merged[n]
    BY <1>1 DEF MergedUnder
  <1>8. \A n \in Names : Sourced(merged[n])' <=> Sourced(merged'[n])
    BY <1>1 DEF Sourced, Own, Nowhere
  <1>9. \A n \in Names : Sourced(merged'[n])
    BY <1>5, <1>7 DEF Inv
  <1>10. Own # Nowhere
    BY DEF Own, Nowhere, Source
  <1>11. UserShadows'
    BY <1>1, <1>3, <1>7, <1>10 DEF Inv, UserShadows, Own, Nowhere, Source
  <1> QED
    BY <1>1, <1>6, <1>8, <1>9, <1>11 DEF Inv

LEMMA StepInv == Inv /\ [Next]_vars => Inv'
  <1> SUFFICES ASSUME Inv, [Next]_vars PROVE Inv'
    OBVIOUS
  <1>1. CASE Merge
    BY <1>1, MergeInv
  <1>2. CASE Skip \/ Refuse \/ Finish \/ UNCHANGED vars
    <2>1. UNCHANGED <<library, request, merged>>
      BY <1>2 DEF Skip, Refuse, Finish, vars
    <2> QED
      BY <2>1 DEF Inv, UserShadows, Sourced, Own, Nowhere
  <1> QED
    BY <1>1, <1>2 DEF Next

LEMMA AlwaysInv == Spec => []Inv
  <1> QED
    BY InitInv, StepInv, PTL DEF Spec

\* The program's own definitions are never replaced by imported ones, whatever
\* the modules define (resolve.py:7, first wins).
THEOREM OwnDefinitionsStay == Spec => []UserShadows
  <1>1. Inv => UserShadows
    BY DEF Inv
  <1> QED
    BY <1>1, AlwaysInv, PTL

\* Nothing merged comes from a disabled tier, at any depth of any import graph
\* (resolve.py:68-70).
THEOREM DisabledTiersStayOut == Spec => []NoDisabledTier
  <1>1. Inv => NoDisabledTier
    <2> SUFFICES ASSUME Inv, NEW n \in Names, merged[n].module \in Modules
                 PROVE  Tier[merged[n].module] \notin request.disabled
      BY DEF NoDisabledTier
    <2>1. merged[n] # Own /\ merged[n] # Nowhere
      BY ModulesAssumption DEF Own, Nowhere, Source
    <2> QED
      BY <2>1 DEF Inv, Sourced
  <1> QED
    BY <1>1, AlwaysInv, PTL

-----------------------------------------------------------------------------
(* How far the imports reach: Within, level by level.                      *)

(* What one more import adds to a set of modules.                           *)
More(S) == S \cup UNION {ImportedBy(m) : m \in S \cap DOMAIN library}

(* Within is the function its definition describes.                         *)
LEMMA WithinDef ==
    /\ Within[0] = {}
    /\ Within[1] = Asked
    /\ \A k \in Nat \ {0} : Within[k + 1] = More(Within[k])
  <1> DEFINE all == Asked \cup UNION {ImportedBy(m) : m \in DOMAIN library}
             Step(k, S) == IF k = 0 THEN Asked
                           ELSE S \cup UNION {ImportedBy(m) : m \in S \cap DOMAIN library}
             T == SUBSET all
             F == [k \in Nat |-> [S \in T |-> Step(k, S)]]
  <1>1. F \in [Nat -> [T -> T]] /\ {} \in T
    OBVIOUS
  <1>2. PICK g : Iterates(g, T, {}, F)
    <2> HIDE DEF T, F
    <2> QED
      BY <1>1, IterationExists
  <1>3. \A n \in Nat : g[n + 1] = Step(n, g[n])
    BY <1>2 DEF Iterates
  <1> HIDE DEF F, all
  <1>4. g = [k \in Nat |-> IF k = 0 THEN {} ELSE IF k = 1 THEN Asked
                           ELSE g[k - 1] \cup
                             UNION {ImportedBy(m) : m \in g[k - 1] \cap DOMAIN library}]
    <2>1. ASSUME NEW k \in Nat
          PROVE  g[k] = IF k = 0 THEN {} ELSE IF k = 1 THEN Asked
                        ELSE g[k - 1] \cup
                             UNION {ImportedBy(m) : m \in g[k - 1] \cap DOMAIN library}
      <3>1. CASE k = 0
        BY <1>2, <3>1 DEF Iterates
      <3>2. CASE k # 0
        <4>1. k - 1 \in Nat /\ k - 1 + 1 = k
          BY <3>2
        <4>2. g[k] = Step(k - 1, g[k - 1])
          BY <1>3, <4>1
        <4> QED
          BY <3>2, <4>2
      <3> QED
        BY <3>1, <3>2
    <2> QED
      BY <1>2, <2>1 DEF Iterates
  <1>5. Within = [k \in Nat |-> IF k = 0 THEN {} ELSE IF k = 1 THEN Asked
                           ELSE Within[k - 1] \cup
                             UNION {ImportedBy(m) : m \in Within[k - 1] \cap DOMAIN library}]
    BY <1>4 DEF Within
  <1>6. Within[0] = {}
    BY <1>5
  <1>7. Within[1] = Asked
    BY <1>5
  <1>8. ASSUME NEW k \in Nat \ {0}
        PROVE  Within[k + 1] = More(Within[k])
    <2>1. k + 1 \in Nat /\ k + 1 # 0 /\ k + 1 # 1 /\ k + 1 - 1 = k
      OBVIOUS
    <2>2. Within[k + 1] = Within[k + 1 - 1] \cup
               UNION {ImportedBy(m) : m \in Within[k + 1 - 1] \cap DOMAIN library}
      BY <1>5, <2>1
    <2> QED
      BY <2>1, <2>2 DEF More
  <1> QED
    BY <1>6, <1>7, <1>8

(* The import graph does not change while it is walked.                     *)
LEMMA WithinUnchanged ==
    ASSUME UNCHANGED <<library, request>>
    PROVE  Within' = Within
  BY DEF Within, Asked, ImportedBy

LEMMA WithinGrows == \A k \in Nat : Within[k] \subseteq Within[k + 1]
  <1> SUFFICES ASSUME NEW k \in Nat PROVE Within[k] \subseteq Within[k + 1]
    OBVIOUS
  <1>1. CASE k = 0
    BY <1>1, WithinDef
  <1>2. CASE k # 0
    BY <1>2, WithinDef DEF More
  <1> QED
    BY <1>1, <1>2

LEMMA WithinMonotone ==
    ASSUME NEW j \in Nat, NEW k \in Nat, j <= k
    PROVE  Within[j] \subseteq Within[k]
  <1> DEFINE S == {i \in Nat : Within[j] \subseteq Within[j + i]}
  <1>1. 0 \in S
    OBVIOUS
  <1>2. ASSUME NEW i \in Nat, i \in S
        PROVE  i + 1 \in S
    <2>1. Within[j + i] \subseteq Within[j + i + 1] /\ j + (i + 1) = j + i + 1
      BY WithinGrows
    <2> QED
      BY <1>2, <2>1
  <1>3. Nat \subseteq S
    <2> HIDE DEF S
    <2> QED
      BY <1>1, <1>2, NatSetInduction
  <1>4. k - j \in S /\ j + (k - j) = k
    BY <1>3
  <1> QED
    BY <1>4

(* A level that adds nothing is the last one.                               *)
LEMMA WithinStable ==
    ASSUME NEW j \in Nat, Within[j + 1] = Within[j], NEW k \in Nat, j <= k
    PROVE  Within[k] = Within[j]
  <1> DEFINE S == {i \in Nat : Within[j + i] = Within[j] /\ Within[j + i + 1] = Within[j]}
  <1>1. 0 \in S
    OBVIOUS
  <1>2. ASSUME NEW i \in Nat, i \in S
        PROVE  i + 1 \in S
    <2>1. Within[j + i] = Within[j] /\ Within[j + i + 1] = Within[j]
      BY <1>2
    <2>2. Within[j + i + 2] = More(Within[j + i + 1])
      <3>1. j + i + 1 \in Nat \ {0} /\ j + i + 1 + 1 = j + i + 2
        OBVIOUS
      <3> QED
        BY <3>1, WithinDef
    <2>3. More(Within[j]) = Within[j]
      <3>1. CASE j + i = 0
        BY <2>1, <3>1, WithinDef DEF More
      <3>2. CASE j + i # 0
        <4>1. Within[j + i + 1] = More(Within[j + i])
          BY <3>2, WithinDef
        <4> QED
          BY <2>1, <4>1
      <3> QED
        BY <3>1, <3>2
    <2>4. Within[j + i + 2] = Within[j]
      BY <2>1, <2>2, <2>3
    <2>5. j + (i + 1) = j + i + 1 /\ j + (i + 1) + 1 = j + i + 2
      OBVIOUS
    <2> QED
      BY <2>1, <2>4, <2>5
  <1>3. Nat \subseteq S
    <2> HIDE DEF S
    <2> QED
      BY <1>1, <1>2, NatSetInduction
  <1>4. k - j \in S /\ j + (k - j) = k
    BY <1>3
  <1> QED
    BY <1>4

Given == library \in Libraries /\ request \in Requests

(* Imports that are, one by one, imports are a sequence of them.            *)
LEMMA AreImportsIsSeq ==
    ASSUME NEW s, AreImports(s)
    PROVE  s \in Seq(Imports)
  <1>1. \A k \in DOMAIN s : s[k] \in Imports
    <2> SUFFICES ASSUME NEW k \in DOMAIN s PROVE s[k] \in Imports
      OBVIOUS
    <2>1. /\ s[k] = [module |-> s[k].module, wire |-> s[k].wire]
          /\ s[k].module \in Modules
          /\ DOMAIN s[k].wire \in SUBSET Wirables
          /\ s[k].wire \in [DOMAIN s[k].wire -> Types]
      BY DEF AreImports
    <2>2. s[k].wire \in UNION {[W -> Types] : W \in SUBSET Wirables}
      BY <2>1
    <2> QED
      BY <2>1, <2>2 DEF Imports
  <1>2. s \in Seq({s[k] : k \in DOMAIN s})
    BY DEF AreImports
  <1>3. DOMAIN s = 1 .. Len(s) /\ Len(s) \in Nat /\ s \in [1 .. Len(s) -> {s[k] : k \in DOMAIN s}]
    BY <1>2, LenProperties
  <1>4. s \in [1 .. Len(s) -> Imports]
    BY <1>1, <1>3
  <1> QED
    BY <1>3, <1>4, SeqDef

LEMMA ModuleOfImport ==
    ASSUME NEW s \in Seq(Imports), NEW i \in DOMAIN s
    PROVE  s[i] \in Imports /\ s[i].module \in Modules /\ i \in 1 .. Len(s)
  <1>1. i \in 1 .. Len(s)
    BY LenProperties
  <1>2. s[i] \in Imports
    BY <1>1, ElementOfSeq
  <1> QED
    BY <1>1, <1>2 DEF Imports

LEMMA WithinIsOfModules ==
    ASSUME Given
    PROVE  \A k \in Nat : Within[k] \subseteq Modules
  <1> USE ModulesAssumption DEF Given
  <1>1. Asked \subseteq Modules
    BY AreImportsIsSeq, ModuleOfImport DEF Asked
  <1>2. \A m \in DOMAIN library : ImportedBy(m) \subseteq Modules
    <2> SUFFICES ASSUME NEW m \in DOMAIN library, NEW k \in DOMAIN library[m].imports
                 PROVE  library[m].imports[k].module \in Modules
      BY DEF ImportedBy
    <2>1. library[m].imports \in Seq(Imports)
      BY AreImportsIsSeq
    <2> QED
      BY <2>1, ModuleOfImport
  <1> DEFINE S == {k \in Nat : Within[k] \subseteq Modules}
  <1>3. 0 \in S
    BY WithinDef
  <1>4. ASSUME NEW k \in Nat, k \in S
        PROVE  k + 1 \in S
    <2>1. CASE k = 0
      BY <2>1, <1>1, WithinDef
    <2>2. CASE k # 0
      <3>1. Within[k + 1] = More(Within[k])
        BY <2>2, WithinDef
      <3> QED
        BY <1>2, <1>4, <3>1 DEF More
    <2> QED
      BY <2>1, <2>2
  <1>5. Nat \subseteq S
    <2> HIDE DEF S
    <2> QED
      BY <1>3, <1>4, NatSetInduction
  <1> QED
    BY <1>5

(* As many levels as there are modules reach everything.                    *)
LEMMA ReachableIsAll ==
    ASSUME Given, NEW k \in Nat
    PROVE  Within[k] \subseteq Reachable
  <1> DEFINE N == Cardinality(Modules)
             Steady(i) == \E j \in 0 .. i : Within[j + 1] = Within[j]
             S == {i \in Nat : Steady(i) \/ Cardinality(Within[i]) >= i}
  <1>1. /\ IsFiniteSet(Modules) /\ N \in Nat
        /\ \A i \in Nat : /\ Within[i] \subseteq Modules
                          /\ IsFiniteSet(Within[i])
                          /\ Cardinality(Within[i]) \in Nat
    BY ModulesAssumption, WithinIsOfModules, FS_Subset, FS_CardinalityType
  <1>2. 0 \in S
    BY <1>1
  <1>3. ASSUME NEW i \in Nat, i \in S
        PROVE  i + 1 \in S
    <2>1. CASE Steady(i)
      BY <2>1
    <2>2. CASE ~Steady(i)
      <3>1. Within[i] # Within[i + 1] /\ Within[i] \subseteq Within[i + 1]
        BY <2>2, WithinGrows
      <3>2. Cardinality(Within[i]) < Cardinality(Within[i + 1])
        BY <1>1, <3>1, FS_Subset
      <3>3. Cardinality(Within[i]) >= i
        BY <1>3, <2>2
      <3>4. Cardinality(Within[i + 1]) >= i + 1
        BY <1>1, <3>2, <3>3
      <3> QED
        BY <3>4
    <2> QED
      BY <2>1, <2>2
  <1>4. N \in S
    <2> HIDE DEF S
    <2> QED
      BY <1>1, <1>2, <1>3, NatSetInduction
  <1>5. CASE k <= N
    BY <1>1, <1>5, WithinMonotone DEF Reachable
  <1>6. CASE k > N /\ Steady(N)
    <2>1. PICK j \in 0 .. N : Within[j + 1] = Within[j]
      BY <1>6
    <2>2. Within[k] = Within[j] /\ Within[N] = Within[j]
      BY <1>1, <1>6, <2>1, WithinStable
    <2> QED
      BY <2>2 DEF Reachable
  <1>7. CASE k > N /\ ~Steady(N)
    <2>1. Cardinality(Within[N]) >= N
      BY <1>4, <1>7
    <2>2. Within[N] = Modules
      BY <1>1, <2>1, FS_Subset
    <2> QED
      BY <1>1, <2>2 DEF Reachable
  <1> QED
    BY <1>1, <1>5, <1>6, <1>7

-----------------------------------------------------------------------------
(* One step of the worklist.                                                *)

(* Wiring a module leaves alone which modules it imports.                   *)
LEMMA NestedIsImports ==
    ASSUME Given, queue \in Seq(Imports), queue # <<>>, Known
    PROVE  /\ Nested \in Seq(Imports)
           /\ DOMAIN Nested = DOMAIN file.imports
           /\ \A k \in DOMAIN Nested : Nested[k].module = file.imports[k].module
  <1>1. file.imports \in Seq(Imports)
    BY ModulesAssumption, AreImportsIsSeq DEF Given, Known, file
  <1>2. imp \in Imports
    BY HeadTailProperties DEF imp
  <1>3. ASSUME NEW i \in Imports
        PROVE  /\ Substituted(i, imp.wire) \in Imports
               /\ Substituted(i, imp.wire).module = i.module
    <2>1. PICK W \in SUBSET Wirables : i.wire \in [W -> Types]
      BY <1>3 DEF Imports
    <2>2. PICK V \in SUBSET Wirables : imp.wire \in [V -> Types]
      BY <1>2 DEF Imports
    <2> DEFINE w == [x \in DOMAIN i.wire |-> SubType(i.wire[x], imp.wire)]
    <2>3. w \in [W -> Types]
      BY <2>1, <2>2 DEF SubType, Types
    <2>4. w \in UNION {[X -> Types] : X \in SUBSET Wirables}
      BY <2>3
    <2> HIDE DEF w
    <2>5. [i EXCEPT !.wire = w] \in Imports /\ [i EXCEPT !.wire = w].module = i.module
      BY <1>3, <2>4 DEF Imports
    <2> QED
      BY <2>5 DEF Substituted, w
  <1>4. \A k \in DOMAIN file.imports : file.imports[k] \in Imports
    BY <1>1, ModuleOfImport
  <1>5. DOMAIN file.imports = 1 .. Len(file.imports) /\ Len(file.imports) \in Nat
    BY <1>1, LenProperties
  <1>6. /\ DOMAIN Nested = DOMAIN file.imports
        /\ \A k \in DOMAIN Nested : Nested[k] = Substituted(file.imports[k], imp.wire)
    BY DEF Nested
  <1>7. Nested \in [1 .. Len(file.imports) -> Imports]
    BY <1>3, <1>4, <1>5 DEF Nested
  <1>8. Nested \in Seq(Imports)
    BY <1>5, <1>7, SeqDef
  <1> QED
    BY <1>3, <1>4, <1>6, <1>8

Joins(k) == k \in DOMAIN Nested /\ Nested[k].module \notin visited \cup {imp.module}

LEMMA QueuedDef ==
    ASSUME queue \in Seq(Imports), queue # <<>>, Nested \in Seq(Imports)
    PROVE  /\ QueuedUpTo[0] = Tail(queue)
           /\ \A k \in Nat : QueuedUpTo[k + 1] =
                 IF Joins(k + 1) THEN Append(QueuedUpTo[k], Nested[k + 1]) ELSE QueuedUpTo[k]
  <1> DEFINE T == Seq(Imports)
             b == Tail(queue)
             Step(k, q) == IF Joins(k + 1) THEN Append(q, Nested[k + 1]) ELSE q
             F == [k \in Nat |-> [q \in T |-> Step(k, q)]]
  <1>1. b \in T
    BY HeadTailProperties
  <1>2. ASSUME NEW k \in Nat, NEW q \in T
        PROVE  Step(k, q) \in T
    <2>1. CASE Joins(k + 1)
      <3>1. Nested[k + 1] \in Imports
        BY <2>1, ModuleOfImport DEF Joins
      <3> QED
        BY <2>1, <3>1, AppendProperties
    <2>2. CASE ~Joins(k + 1)
      BY <2>2
    <2> QED
      BY <2>1, <2>2
  <1> HIDE DEF Step
  <1>3. F \in [Nat -> [T -> T]]
    BY <1>2
  <1>4. PICK g : Iterates(g, T, b, F)
    <2> HIDE DEF T, F, b
    <2> QED
      BY <1>1, <1>3, IterationExists
  <1>5. \A k \in Nat : g[k + 1] = Step(k, g[k])
    BY <1>4 DEF Iterates
  <1> HIDE DEF F, T
  <1>6. g = [k \in Nat |->
              IF k = 0 THEN Tail(queue)
              ELSE IF k \in DOMAIN Nested /\ Nested[k].module \notin visited \cup {imp.module}
              THEN Append(g[k - 1], Nested[k]) ELSE g[k - 1]]
    <2>1. ASSUME NEW k \in Nat
          PROVE  g[k] = IF k = 0 THEN Tail(queue)
                        ELSE IF k \in DOMAIN Nested /\ Nested[k].module \notin visited \cup {imp.module}
                        THEN Append(g[k - 1], Nested[k]) ELSE g[k - 1]
      <3>1. CASE k = 0
        BY <1>4, <3>1 DEF Iterates
      <3>2. CASE k # 0
        <4>1. k - 1 \in Nat /\ k - 1 + 1 = k
          BY <3>2
        <4>2. g[k] = Step(k - 1, g[k - 1])
          BY <1>5, <4>1
        <4> QED
          BY <3>2, <4>1, <4>2 DEF Step, Joins
      <3> QED
        BY <3>1, <3>2
    <2> QED
      BY <1>4, <2>1 DEF Iterates
  <1>7. QueuedUpTo = [k \in Nat |->
              IF k = 0 THEN Tail(queue)
              ELSE IF k \in DOMAIN Nested /\ Nested[k].module \notin visited \cup {imp.module}
              THEN Append(QueuedUpTo[k - 1], Nested[k]) ELSE QueuedUpTo[k - 1]]
    BY <1>6 DEF QueuedUpTo
  <1>8. QueuedUpTo[0] = Tail(queue)
    BY <1>7
  <1>10. \A k \in Nat : QueuedUpTo[k] =
              IF k = 0 THEN Tail(queue)
              ELSE IF k \in DOMAIN Nested /\ Nested[k].module \notin visited \cup {imp.module}
              THEN Append(QueuedUpTo[k - 1], Nested[k]) ELSE QueuedUpTo[k - 1]
    BY <1>7
  <1>9. ASSUME NEW k \in Nat
        PROVE  QueuedUpTo[k + 1] =
                 IF Joins(k + 1) THEN Append(QueuedUpTo[k], Nested[k + 1]) ELSE QueuedUpTo[k]
    <2>1. k + 1 \in Nat /\ k + 1 # 0 /\ k + 1 - 1 = k
      OBVIOUS
    <2>2. QueuedUpTo[k + 1] =
            IF k + 1 \in DOMAIN Nested /\ Nested[k + 1].module \notin visited \cup {imp.module}
            THEN Append(QueuedUpTo[k + 1 - 1], Nested[k + 1]) ELSE QueuedUpTo[k + 1 - 1]
      BY <1>10, <2>1
    <2> QED
      BY <2>1, <2>2 DEF Joins
  <1> QED
    BY <1>8, <1>9

(* The head goes, what was behind it moves up, and what joins is imported   *)
(* by the module that was looked at: all of it that was not seen before.    *)
QueueAfter(q, k) ==
    /\ q \in Seq(Imports)
    /\ Len(q) >= Len(queue) - 1
    /\ \A i \in 1 .. Len(queue) - 1 : q[i] = queue[i + 1]
    /\ \A i \in Len(queue) .. Len(q) : q[i].module \in ImportedBy(imp.module)
    /\ \A j \in DOMAIN Nested : j <= k =>
          \/ Nested[j].module \in visited \cup {imp.module}
          \/ \E i \in 1 .. Len(q) : q[i].module = Nested[j].module

LEMMA QueuedIsAfter ==
    ASSUME Given, queue \in Seq(Imports), queue # <<>>, Known
    PROVE  QueueAfter(Queued, Len(Nested))
  <1>1. /\ Nested \in Seq(Imports)
        /\ \A k \in DOMAIN Nested : Nested[k].module \in ImportedBy(imp.module)
    BY NestedIsImports DEF ImportedBy, file
  <1>2. Len(queue) \in Nat \ {0}
    BY EmptySeq
  <1>3. DOMAIN Nested = 1 .. Len(Nested) /\ Len(Nested) \in Nat
    BY <1>1, LenProperties
  <1> DEFINE S == {k \in Nat : QueueAfter(QueuedUpTo[k], k)}
  <1>4. 0 \in S
    <2>1. QueuedUpTo[0] = Tail(queue)
      BY <1>1, QueuedDef
    <2>2. /\ Tail(queue) \in Seq(Imports) /\ Len(Tail(queue)) = Len(queue) - 1
          /\ \A i \in 1 .. Len(queue) - 1 : Tail(queue)[i] = queue[i + 1]
      BY HeadTailProperties
    <2>3. /\ Len(queue) .. Len(Tail(queue)) = {}
          /\ \A j \in DOMAIN Nested : ~(j <= 0)
      BY <1>2, <1>3, <2>2
    <2>4. QueueAfter(Tail(queue), 0)
      BY <1>2, <2>2, <2>3 DEF QueueAfter
    <2> QED
      BY <2>1, <2>4
  <1>5. ASSUME NEW k \in Nat, k \in S
        PROVE  k + 1 \in S
    <2> DEFINE q == QueuedUpTo[k]
               r == QueuedUpTo[k + 1]
    <2>1. QueueAfter(q, k)
      BY <1>5
    <2>2. r = IF Joins(k + 1) THEN Append(q, Nested[k + 1]) ELSE q
      BY <1>1, QueuedDef
    <2> HIDE DEF q, r
    <2>3. CASE ~Joins(k + 1)
      <3>1. r = q
        BY <2>2, <2>3
      <3>2. \A j \in DOMAIN Nested : j <= k + 1 => j <= k \/ j = k + 1
        BY <1>3
      <3>3. QueueAfter(r, k + 1)
        BY <2>1, <2>3, <3>1, <3>2 DEF QueueAfter, Joins
      <3> QED
        BY <3>3 DEF r
    <2>4. CASE Joins(k + 1)
      <3>1. /\ k + 1 \in DOMAIN Nested
            /\ Nested[k + 1] \in Imports
            /\ Nested[k + 1].module \in ImportedBy(imp.module)
        BY <1>1, <2>4, ModuleOfImport DEF Joins
      <3>2. q \in Seq(Imports) /\ Len(q) \in Nat /\ Len(q) >= Len(queue) - 1
        BY <2>1, LenProperties DEF QueueAfter
      <3>3. /\ r \in Seq(Imports) /\ Len(r) = Len(q) + 1
            /\ \A i \in 1 .. Len(q) : r[i] = q[i]
            /\ r[Len(q) + 1] = Nested[k + 1]
        BY <2>2, <2>4, <3>1, <3>2, AppendProperties
      <3>4. \A i \in 1 .. Len(queue) - 1 : r[i] = queue[i + 1]
        BY <1>2, <2>1, <3>2, <3>3 DEF QueueAfter
      <3>5. ASSUME NEW i \in Len(queue) .. Len(r)
            PROVE  r[i].module \in ImportedBy(imp.module)
        <4>1. CASE i = Len(q) + 1
          BY <3>1, <3>3, <4>1
        <4>2. CASE i # Len(q) + 1
          <5>1. i \in Len(queue) .. Len(q) /\ i \in 1 .. Len(q)
            BY <1>2, <3>2, <3>3, <4>2
          <5> QED
            BY <2>1, <3>3, <5>1 DEF QueueAfter
        <4> QED
          BY <4>1, <4>2
      <3>6. ASSUME NEW j \in DOMAIN Nested, j <= k + 1
            PROVE  \/ Nested[j].module \in visited \cup {imp.module}
                   \/ \E i \in 1 .. Len(r) : r[i].module = Nested[j].module
        <4>1. CASE j = k + 1
          <5>1. Len(q) + 1 \in 1 .. Len(r)
            BY <3>2, <3>3
          <5> QED
            BY <3>3, <4>1, <5>1
        <4>2. CASE j # k + 1
          <5>1. j <= k
            BY <1>3, <3>6, <4>2
          <5>2. \A i \in 1 .. Len(q) : i \in 1 .. Len(r) /\ r[i] = q[i]
            BY <3>2, <3>3
          <5> QED
            BY <2>1, <5>1, <5>2 DEF QueueAfter
        <4> QED
          BY <4>1, <4>2
      <3>7. QueueAfter(r, k + 1)
        BY <3>2, <3>3, <3>4, <3>5, <3>6 DEF QueueAfter
      <3> QED
        BY <3>7 DEF r
    <2> QED
      BY <2>3, <2>4
  <1>6. Len(Nested) \in S
    <2> HIDE DEF S
    <2> QED
      BY <1>3, <1>4, <1>5, NatSetInduction
  <1> QED
    BY <1>6 DEF Queued

-----------------------------------------------------------------------------
(* The walk goes level by level.                                            *)

(* The modules of the first j imports in the queue.                         *)
QueueOf(j) == {queue[i].module : i \in 1 .. j}

(* The walk is at distance d, with j imports of that distance to go: what   *)
(* is nearer was looked at, and nothing that is further.                    *)
AtLevel(d, j) ==
    /\ visited \subseteq Within[d]
    /\ Within[d - 1] \subseteq visited
    /\ Within[d] \subseteq visited \cup QueueOf(j)
    /\ \A i \in 1 .. Len(queue) :
          queue[i].module \in Within[IF i <= j THEN d ELSE d + 1]

Walking ==
    /\ visited \subseteq DOMAIN library
    /\ \A m \in visited : ImportedBy(m) \subseteq visited \cup QueueOf(Len(queue))
    /\ \E d \in Nat \ {0} : \E j \in 0 .. Len(queue) : AtLevel(d, j)

Walk ==
    /\ Given
    /\ queue \in Seq(Imports)
    /\ status \in {"running", "done", "error"}
    /\ status # "error" => Walking
    /\ status = "done" => queue = <<>>

LEMMA InitWalk == Init => Walk
  <1> SUFFICES ASSUME Init PROVE Walk
    OBVIOUS
  <1>1. /\ queue = request.imports /\ visited = {} /\ status = "running"
        /\ queue \in Seq(Imports) /\ Given
    BY ModulesAssumption, AreImportsIsSeq DEF Init, Given
  <1>2. Len(queue) \in Nat /\ DOMAIN queue = 1 .. Len(queue)
    BY <1>1, LenProperties
  <1>3. Asked = QueueOf(Len(queue))
    BY <1>1, <1>2 DEF Asked, QueueOf
  <1>4. AtLevel(1, Len(queue))
    <2>1. Within[1] = Asked /\ Within[1 - 1] = {}
      BY WithinDef
    <2>2. \A i \in 1 .. Len(queue) : queue[i].module \in Within[1]
      BY <1>3, <2>1 DEF QueueOf
    <2> QED
      BY <1>1, <1>2, <1>3, <2>1, <2>2 DEF AtLevel
  <1>5. Len(queue) \in 0 .. Len(queue)
    BY <1>2
  <1> QED
    BY <1>1, <1>4, <1>5 DEF Walk, Walking

(* The import at the head is one of the level, or the level is done and the *)
(* next one begins with it.                                                 *)
LEMMA HeadHasALevel ==
    ASSUME Walk, Walking, queue # <<>>
    PROVE  \E d \in Nat \ {0} : \E j \in 1 .. Len(queue) : AtLevel(d, j)
  <1>1. PICK d \in Nat \ {0} : \E j \in 0 .. Len(queue) : AtLevel(d, j)
    BY DEF Walking
  <1>2. PICK j \in 0 .. Len(queue) : AtLevel(d, j)
    BY <1>1
  <1>3. Len(queue) \in Nat \ {0}
    BY EmptySeq DEF Walk
  <1>4. CASE j # 0
    BY <1>2, <1>3, <1>4
  <1>5. CASE j = 0
    <2>1. visited = Within[d]
      <3>1. QueueOf(0) = {}
        BY DEF QueueOf
      <3> QED
        BY <1>2, <1>5, <3>1 DEF AtLevel
    <2>2. Within[d + 1] = More(Within[d])
      BY WithinDef
    <2>3. \A i \in 1 .. Len(queue) : queue[i].module \in Within[d + 1]
      BY <1>2, <1>5 DEF AtLevel
    <2>4. Within[d + 1] \subseteq visited \cup QueueOf(Len(queue))
      BY <2>1, <2>2 DEF More, Walking
    <2>5. visited \subseteq Within[d + 1]
      BY <2>1, WithinGrows
    <2>6. AtLevel(d + 1, Len(queue))
      <3>1. d + 1 - 1 = d
        OBVIOUS
      <3> QED
        BY <1>3, <2>1, <2>3, <2>4, <2>5, <3>1 DEF AtLevel
    <2>7. d + 1 \in Nat \ {0} /\ Len(queue) \in 1 .. Len(queue)
      BY <1>3
    <2> QED
      BY <2>6, <2>7
  <1> QED
    BY <1>4, <1>5

(* The head has been dealt with: its imports, if they are new, are behind.  *)
HeadDone ==
    /\ UNCHANGED <<library, request>>
    /\ queue # <<>>
    /\ imp.module \in DOMAIN library
    /\ visited' = visited \cup {imp.module}
    /\ queue' \in Seq(Imports)
    /\ Len(queue') >= Len(queue) - 1
    /\ \A i \in 1 .. Len(queue) - 1 : queue'[i] = queue[i + 1]
    /\ \A i \in Len(queue) .. Len(queue') : queue'[i].module \in ImportedBy(imp.module)
    /\ ImportedBy(imp.module) \subseteq visited' \cup QueueOf(Len(queue))'

LEMMA HeadDoneWalking ==
    ASSUME Walk, Walking, HeadDone
    PROVE  Walking'
  <1>1. PICK d \in Nat \ {0} : \E j \in 1 .. Len(queue) : AtLevel(d, j)
    BY HeadHasALevel DEF HeadDone
  <1>2. PICK j \in 1 .. Len(queue) : AtLevel(d, j)
    BY <1>1
  <1>3. /\ Len(queue) \in Nat \ {0} /\ Len(queue') \in Nat
        /\ imp = queue[1]
    BY EmptySeq, LenProperties DEF Walk, HeadDone, imp
  <1>4. Within' = Within /\ \A m : ImportedBy(m)' = ImportedBy(m)
    BY WithinUnchanged DEF HeadDone, ImportedBy
  <1>5. QueueOf(Len(queue)) \subseteq {imp.module} \cup QueueOf(Len(queue))'
    <2>1. ASSUME NEW i \in 1 .. Len(queue), i # 1
          PROVE  queue[i].module \in QueueOf(Len(queue))'
      <3>1. i - 1 \in 1 .. Len(queue) - 1 /\ i - 1 \in 1 .. Len(queue') /\ i - 1 + 1 = i
        BY <1>3, <2>1 DEF HeadDone
      <3>2. queue'[i - 1] = queue[i]
        BY <3>1 DEF HeadDone
      <3> QED
        BY <3>1, <3>2 DEF QueueOf
    <2> QED
      BY <1>3, <2>1 DEF QueueOf
  <1>6. \A m \in visited' : ImportedBy(m) \subseteq visited' \cup QueueOf(Len(queue))'
    BY <1>5 DEF Walking, HeadDone
  <1>7. imp.module \in Within[d]
    <2>1. 1 <= j /\ 1 \in 1 .. Len(queue)
      BY <1>3
    <2> QED
      BY <1>2, <1>3, <2>1 DEF AtLevel
  <1>8. ImportedBy(imp.module) \subseteq Within[d + 1]
    <2>1. Within[d + 1] = More(Within[d])
      BY WithinDef
    <2> QED
      BY <1>7, <2>1 DEF More, HeadDone
  <1>9. j - 1 \in 0 .. Len(queue')
    BY <1>3 DEF HeadDone
  <1>10. AtLevel(d, j - 1)'
    <2>1. Within[d] \subseteq visited' \cup QueueOf(j - 1)'
      <3>1. ASSUME NEW i \in 1 .. j, i # 1
            PROVE  queue[i].module \in QueueOf(j - 1)'
        <4>1. i - 1 \in 1 .. Len(queue) - 1 /\ i - 1 \in 1 .. j - 1 /\ i - 1 + 1 = i
          BY <1>3, <3>1
        <4>2. queue'[i - 1] = queue[i]
          BY <4>1 DEF HeadDone
        <4> QED
          BY <4>1, <4>2 DEF QueueOf
      <3>2. QueueOf(j) \subseteq {imp.module} \cup QueueOf(j - 1)'
        BY <1>3, <3>1 DEF QueueOf
      <3> QED
        BY <1>2, <3>2 DEF AtLevel, HeadDone
    <2>2. ASSUME NEW i \in 1 .. Len(queue')
          PROVE  queue'[i].module \in Within[IF i <= j - 1 THEN d ELSE d + 1]
      <3>1. CASE i <= Len(queue) - 1
        <4>1. i \in 1 .. Len(queue) - 1 /\ i + 1 \in 1 .. Len(queue)
              /\ (i <= j - 1 <=> i + 1 <= j)
          BY <1>3, <3>1
        <4>2. queue'[i] = queue[i + 1]
          BY <4>1 DEF HeadDone
        <4>3. queue[i + 1].module \in Within[IF i + 1 <= j THEN d ELSE d + 1]
          BY <1>2, <4>1 DEF AtLevel
        <4> QED
          BY <4>1, <4>2, <4>3
      <3>2. CASE ~(i <= Len(queue) - 1)
        <4>1. i \in Len(queue) .. Len(queue') /\ ~(i <= j - 1)
          BY <1>3, <3>2
        <4> QED
          BY <1>8, <4>1 DEF HeadDone
      <3> QED
        BY <3>1, <3>2
    <2>3. visited' \subseteq Within[d] /\ Within[d - 1] \subseteq visited'
      BY <1>2, <1>7 DEF AtLevel, HeadDone
    <2> QED
      BY <1>4, <2>1, <2>2, <2>3 DEF AtLevel
  <1>11. visited' \subseteq DOMAIN library'
    BY DEF Walking, HeadDone
  <1> QED
    BY <1>4, <1>6, <1>9, <1>10, <1>11 DEF Walking

LEMMA SkipIsDone ==
    ASSUME Walk, Skip
    PROVE  HeadDone
  <1>1. Walking /\ queue # <<>> /\ imp.module \in visited
    BY DEF Walk, Skip
  <1>2. /\ queue' = Tail(queue) /\ queue' \in Seq(Imports)
        /\ Len(queue') = Len(queue) - 1 /\ Len(queue) \in Nat \ {0}
        /\ \A i \in 1 .. Len(queue) - 1 : queue'[i] = queue[i + 1]
        /\ imp = queue[1]
    BY <1>1, HeadTailProperties, EmptySeq DEF Walk, Skip, imp
  <1>3. QueueOf(Len(queue)) \subseteq {imp.module} \cup QueueOf(Len(queue))'
    <2>1. ASSUME NEW i \in 1 .. Len(queue), i # 1
          PROVE  queue[i].module \in QueueOf(Len(queue))'
      <3>1. i - 1 \in 1 .. Len(queue) - 1 /\ i - 1 + 1 = i
        BY <1>2, <2>1
      <3> QED
        BY <1>2, <3>1 DEF QueueOf
    <2> QED
      BY <1>2, <2>1 DEF QueueOf
  <1>4. ImportedBy(imp.module) \subseteq visited' \cup QueueOf(Len(queue))'
    BY <1>1, <1>3 DEF Walking, Skip
  <1>5. Len(queue) .. Len(queue') = {}
    BY <1>2
  <1> QED
    BY <1>1, <1>2, <1>4, <1>5 DEF HeadDone, Walking, Skip

LEMMA MergeIsDone ==
    ASSUME Walk, Merge
    PROVE  HeadDone
  <1>1. /\ queue # <<>> /\ Known /\ queue' = Queued
        /\ visited' = visited \cup {imp.module} /\ UNCHANGED <<library, request>>
    BY DEF Merge, Fresh, WellWired
  <1>2. QueueAfter(Queued, Len(Nested))
    BY <1>1, QueuedIsAfter DEF Walk
  <1>3. /\ Nested \in Seq(Imports) /\ DOMAIN Nested = DOMAIN file.imports
        /\ \A k \in DOMAIN Nested : Nested[k].module = file.imports[k].module
        /\ DOMAIN Nested = 1 .. Len(Nested) /\ Len(Nested) \in Nat
    BY <1>1, NestedIsImports, LenProperties DEF Walk
  <1>4. ImportedBy(imp.module) = {Nested[k].module : k \in DOMAIN Nested}
    BY <1>3 DEF ImportedBy, file
  <1>5. ImportedBy(imp.module) \subseteq visited' \cup QueueOf(Len(queue))'
    <2> SUFFICES ASSUME NEW k \in DOMAIN Nested
                 PROVE  Nested[k].module \in visited' \cup QueueOf(Len(queue))'
      BY <1>4
    <2>1. k <= Len(Nested)
      BY <1>3
    <2> QED
      BY <1>1, <1>2, <2>1 DEF QueueAfter, QueueOf
  <1> QED
    BY <1>1, <1>2, <1>5 DEF HeadDone, QueueAfter, Known

LEMMA StepWalk == Walk /\ [Next]_vars => Walk'
  <1> SUFFICES ASSUME Walk, [Next]_vars PROVE Walk'
    OBVIOUS
  <1>1. CASE Skip \/ Merge
    <2>1. HeadDone
      BY <1>1, SkipIsDone, MergeIsDone
    <2>2. status = "running" /\ status' = "running"
      BY <1>1 DEF Skip, Merge, Fresh
    <2>3. Walking'
      BY <2>1, <2>2, HeadDoneWalking DEF Walk
    <2> QED
      BY <2>1, <2>2, <2>3 DEF Walk, HeadDone, Given
  <1>2. CASE Refuse
    BY <1>2 DEF Refuse, Walk, Given
  <1>3. CASE Finish \/ UNCHANGED vars
    <2>1. UNCHANGED <<library, request, queue, visited>>
      BY <1>3 DEF Finish, vars
    <2>2. Within' = Within
      BY <2>1, WithinUnchanged
    <2>3. Walking => Walking'
      BY <2>1, <2>2 DEF Walking, AtLevel, QueueOf, ImportedBy
    <2> QED
      BY <1>3, <2>1, <2>3 DEF Walk, Finish, vars, Given
  <1> QED
    BY <1>1, <1>2, <1>3 DEF Next

-----------------------------------------------------------------------------
(* The module whose definition of n is kept has one, and is as near to the  *)
(* program as any that has.                                                 *)
Foremost(n) ==
    LET w == merged[n].module IN
    /\ w \in visited \cap DOMAIN library
    /\ n \in library[w].names
    /\ \A k \in Nat : \A m \in Within[k] \cap DOMAIN library :
          n \in library[m].names => w \in Within[k]

FirstWins ==
    /\ DOMAIN merged = Names
    /\ status # "error" =>
          \A m \in visited : \A n \in Names : n \in library[m].names => merged[n] # Nowhere
    /\ \A n \in Names : merged[n] \in {Own, Nowhere} \/ Foremost(n)

LEMMA InitFirstWins == Init => FirstWins
  BY DEF Init, FirstWins

LEMMA StepFirstWins == Walk /\ FirstWins /\ [Next]_vars => FirstWins'
  <1> SUFFICES ASSUME Walk, FirstWins, [Next]_vars PROVE FirstWins'
    OBVIOUS
  <1> USE DEF Own, Nowhere
  <1>1. CASE Merge
    <2>1. /\ UNCHANGED <<library, request, status>> /\ status = "running"
          /\ imp.module \in DOMAIN library /\ imp.module \notin visited
          /\ visited' = visited \cup {imp.module}
          /\ queue # <<>>
      BY <1>1 DEF Merge, Fresh, WellWired, Known
    <2>2. /\ DOMAIN merged' = Names
          /\ \A n \in Names : merged'[n] =
                IF n \in library[imp.module].names /\ merged[n] = Nowhere THEN Copy(n) ELSE merged[n]
      BY <1>1 DEF Merge, MergedUnder, file
    <2>3. \A n \in Names : Copy(n) # Nowhere /\ Copy(n).module = imp.module
      BY <2>1, ModulesAssumption DEF Source, Copy, Walk, Given
    <2>4. Within' = Within
      BY <2>1, WithinUnchanged
    <2>5. PICK d \in Nat \ {0} : \E j \in 1 .. Len(queue) : AtLevel(d, j)
      BY <2>1, HeadHasALevel DEF Walk
    <2>6. Within[d - 1] \subseteq visited
      BY <2>5 DEF AtLevel
    <2>7. imp.module \in Within[d]
      <3>1. PICK j \in 1 .. Len(queue) : AtLevel(d, j)
        BY <2>5
      <3>2. 1 \in 1 .. Len(queue) /\ 1 <= j /\ imp = queue[1]
        BY <2>1, EmptySeq DEF Walk, imp
      <3> QED
        BY <3>1, <3>2 DEF AtLevel
    <2>8. ASSUME NEW n \in Names, n \in library[imp.module].names, merged[n] = Nowhere
          PROVE  Foremost(n)'
      <3> SUFFICES ASSUME NEW k \in Nat, NEW m \in Within[k] \cap DOMAIN library,
                          n \in library[m].names
                   PROVE  imp.module \in Within[k]
        BY <2>1, <2>2, <2>3, <2>4, <2>8 DEF Foremost
      <3>1. CASE k >= d
        BY <2>7, <3>1, WithinMonotone
      <3>2. CASE ~(k >= d)
        <4>1. k <= d - 1 /\ d - 1 \in Nat
          BY <3>2
        <4>2. m \in visited
          BY <2>6, <4>1, WithinMonotone
        <4> QED
          BY <2>1, <2>8, <4>2 DEF FirstWins
      <3> QED
        BY <3>1, <3>2
    <2>9. ASSUME NEW n \in Names, merged'[n] = merged[n], Foremost(n)
          PROVE  Foremost(n)'
      BY <2>1, <2>4, <2>9 DEF Foremost
    <2>10. \A n \in Names : merged'[n] \in {Own, Nowhere} \/ Foremost(n)'
      BY <2>2, <2>8, <2>9 DEF FirstWins
    <2>11. \A m \in visited' : \A n \in Names : n \in library'[m].names => merged'[n] # Nowhere
      BY <2>1, <2>2, <2>3 DEF FirstWins
    <2> QED
      BY <2>2, <2>10, <2>11 DEF FirstWins
  <1>2. CASE Skip \/ Refuse \/ Finish \/ UNCHANGED vars
    <2>1. /\ UNCHANGED <<library, request, merged>>
          /\ visited \subseteq visited'
          /\ status' # "error" => visited' = visited /\ status # "error"
      BY <1>2 DEF Skip, Refuse, Finish, vars, Fresh
    <2>2. Within' = Within
      BY <2>1, WithinUnchanged
    <2>3. \A n \in Names : Foremost(n) => Foremost(n)'
      BY <2>1, <2>2 DEF Foremost
    <2> QED
      BY <2>1, <2>3 DEF FirstWins
  <1> QED
    BY <1>1, <1>2 DEF Next

LEMMA AlwaysWalk == Spec => [](Walk /\ FirstWins)
  BY InitWalk, StepWalk, InitFirstWins, StepFirstWins, PTL DEF Spec

-----------------------------------------------------------------------------
(* When resolution succeeds it has looked at exactly the modules that the   *)
(* program's imports reach.                                                 *)
LEMMA VisitedIsReachable ==
    ASSUME Walk, status = "done"
    PROVE  visited = Reachable
  <1>1. Walking /\ queue = <<>>
    BY DEF Walk
  <1>2. Len(queue) = 0 /\ QueueOf(0) = {}
    BY <1>1 DEF QueueOf
  <1>3. PICK d \in Nat \ {0} : AtLevel(d, 0)
    BY <1>1, <1>2 DEF Walking
  <1>4. visited = Within[d]
    BY <1>2, <1>3 DEF AtLevel
  <1>5. Within[d + 1] = Within[d]
    <2>1. Within[d + 1] = More(Within[d])
      BY WithinDef
    <2> QED
      BY <1>1, <1>2, <1>4, <2>1 DEF More, Walking
  <1>6. visited \subseteq Reachable
    BY <1>4, ReachableIsAll DEF Walk
  <1>7. Cardinality(Modules) \in Nat
    BY ModulesAssumption, FS_CardinalityType
  <1>8. Reachable \subseteq visited
    <2>1. CASE Cardinality(Modules) <= d
      BY <1>4, <1>7, <2>1, WithinMonotone DEF Reachable
    <2>2. CASE Cardinality(Modules) > d
      BY <1>4, <1>5, <1>7, <2>2, WithinStable DEF Reachable
    <2> QED
      BY <1>7, <2>1, <2>2
  <1> QED
    BY <1>6, <1>8

(* A reachable module has a depth, the level it first shows at.             *)
LEMMA DepthIsFirst ==
    ASSUME NEW m \in Reachable
    PROVE  /\ Depth(m) \in Nat \ {0}
           /\ m \in Within[Depth(m)]
           /\ m \notin Within[Depth(m) - 1]
  <1> DEFINE N == Cardinality(Modules)
             Found(i) == \E k \in 1 .. i : m \in Within[k] /\ m \notin Within[k - 1]
             S == {i \in Nat : m \in Within[i] => Found(i)}
  <1>1. N \in Nat
    BY ModulesAssumption, FS_CardinalityType
  <1>2. 0 \in S
    BY WithinDef
  <1>3. ASSUME NEW i \in Nat, i \in S
        PROVE  i + 1 \in S
    <2>1. CASE m \in Within[i]
      BY <1>3, <2>1
    <2>2. CASE m \notin Within[i]
      <3>1. i + 1 \in 1 .. i + 1 /\ i + 1 - 1 = i
        OBVIOUS
      <3> QED
        BY <2>2, <3>1
    <2> QED
      BY <2>1, <2>2
  <1>4. Found(N)
    <2>1. N \in S
      <3> HIDE DEF S
      <3> QED
        BY <1>1, <1>2, <1>3, NatSetInduction
    <2> QED
      BY <2>1 DEF Reachable
  <1>5. /\ Depth(m) \in 1 .. N
        /\ m \in Within[Depth(m)] /\ m \notin Within[Depth(m) - 1]
    BY <1>4 DEF Depth
  <1> QED
    BY <1>1, <1>5

(* Resolution that succeeds has looked at exactly the modules the imports   *)
(* of the program reach, through any cycle or diamond, and has every name   *)
(* that they or the program define.                                         *)
THEOREM ResolvedIsClosed == Spec => []Closed
  <1>1. Walk /\ FirstWins /\ UserShadows => Closed
    <2> SUFFICES ASSUME Walk, FirstWins, UserShadows, status = "done"
                 PROVE  /\ visited = Reachable
                        /\ \A n \in Names : merged[n] = Nowhere <=>
                              n \notin request.names /\ Definers(n) = {}
      BY DEF Closed
    <2>1. visited = Reachable
      BY VisitedIsReachable
    <2>2. visited \subseteq DOMAIN library /\ DOMAIN library \subseteq Modules
      BY ModulesAssumption DEF Walk, Walking, Given
    <2>3. ASSUME NEW n \in Names, merged[n] = Nowhere
          PROVE  n \notin request.names /\ Definers(n) = {}
      <3>1. Own # Nowhere
        BY ModulesAssumption DEF Own, Nowhere, Source
      <3> QED
        BY <2>1, <2>3, <3>1 DEF FirstWins, UserShadows, Definers
    <2>4. ASSUME NEW n \in Names, n \notin request.names, Definers(n) = {}
          PROVE  merged[n] = Nowhere
      BY <2>1, <2>4 DEF FirstWins, Foremost, UserShadows, Definers
    <2> QED
      BY <2>1, <2>3, <2>4
  <1> QED
    BY <1>1, AlwaysWalk, OwnDefinitionsStay, PTL

(* resolve.py's worklist is breadth first: the definition that is kept      *)
(* comes from a module no further from the program than any other module    *)
(* that has the name.                                                       *)
THEOREM NearestDefinitionWins == Spec => []NearestWins
  <1>1. Walk /\ FirstWins => NearestWins
    <2> SUFFICES ASSUME Walk, FirstWins, NEW n \in Names, merged[n].module \in Modules,
                        status = "done", NEW m \in Definers(n)
                 PROVE  Depth(merged[n].module) <= Depth(m)
      BY DEF NearestWins
    <2> DEFINE w == merged[n].module
    <2>1. merged[n] \notin {Own, Nowhere}
      BY ModulesAssumption DEF Own, Nowhere, Source
    <2>2. Foremost(n) /\ w \in Reachable
      BY <2>1, VisitedIsReachable DEF FirstWins, Foremost
    <2>3. m \in Reachable /\ m \in DOMAIN library /\ n \in library[m].names
      BY DEF Definers
    <2>4. /\ Depth(w) \in Nat \ {0} /\ w \notin Within[Depth(w) - 1]
          /\ Depth(m) \in Nat \ {0} /\ m \in Within[Depth(m)]
      BY <2>2, <2>3, DepthIsFirst
    <2>5. w \in Within[Depth(m)]
      BY <2>2, <2>3, <2>4 DEF Foremost
    <2>6. ~(Depth(m) <= Depth(w) - 1)
      BY <2>4, <2>5, WithinMonotone
    <2> QED
      BY <2>4, <2>6
  <1> QED
    BY <1>1, AlwaysWalk, PTL

-----------------------------------------------------------------------------
(* Wirables: a parameter in what an import binds, unless it stands alone, is *)
(* one that nobody around its writer declares.                              *)
Chosen(i) ==
    \A w \in DOMAIN i.wire : i.wire[w].of \in Wirables =>
        i.wire[w].inside = 0 \/ i.wire[w].of \in Loose

Bound(s) ==
    \/ s \in {Own, Nowhere}
    \/ /\ DOMAIN s.wire = library[s.module].wirables
       /\ \A w \in DOMAIN s.wire :
             ~IsParamRef(s.wire[w]) /\ s.wire[w].of \in Concrete \cup Loose

Forwarded ==
    /\ \A i \in 1 .. Len(queue) : Chosen(queue[i])
    /\ \A n \in Names \ Traits : Bound(merged[n])

(* What the queue holds was in it or is an import of the module.            *)
LEMMA QueuedComesFrom ==
    ASSUME Given, queue \in Seq(Imports), queue # <<>>, Known
    PROVE  \A i \in 1 .. Len(Queued) :
              \/ \E j \in 1 .. Len(queue) : Queued[i] = queue[j]
              \/ \E j \in DOMAIN Nested : Queued[i] = Nested[j]
  <1> DEFINE From(q) == \A i \in 1 .. Len(q) :
                           \/ \E j \in 1 .. Len(queue) : q[i] = queue[j]
                           \/ \E j \in DOMAIN Nested : q[i] = Nested[j]
             S == {k \in Nat : QueuedUpTo[k] \in Seq(Imports) /\ From(QueuedUpTo[k])}
  <1>1. Nested \in Seq(Imports) /\ Len(Nested) \in Nat
    BY NestedIsImports, LenProperties
  <1>2. 0 \in S
    <2>1. QueuedUpTo[0] = Tail(queue) /\ Len(queue) \in Nat \ {0}
      BY <1>1, QueuedDef, EmptySeq
    <2>2. /\ Tail(queue) \in Seq(Imports) /\ Len(Tail(queue)) = Len(queue) - 1
          /\ \A i \in 1 .. Len(queue) - 1 : Tail(queue)[i] = queue[i + 1]
      BY HeadTailProperties
    <2>3. \A i \in 1 .. Len(queue) - 1 : i + 1 \in 1 .. Len(queue)
      BY <2>1
    <2> QED
      BY <2>1, <2>2, <2>3
  <1>3. ASSUME NEW k \in Nat, k \in S
        PROVE  k + 1 \in S
    <2> DEFINE q == QueuedUpTo[k]
    <2>1. q \in Seq(Imports) /\ From(q)
      BY <1>3
    <2>2. QueuedUpTo[k + 1] = IF Joins(k + 1) THEN Append(q, Nested[k + 1]) ELSE q
      BY <1>1, QueuedDef
    <2> HIDE DEF q
    <2>3. CASE ~Joins(k + 1)
      BY <2>1, <2>2, <2>3
    <2>4. CASE Joins(k + 1)
      <3> DEFINE r == Append(q, Nested[k + 1])
      <3>1. k + 1 \in DOMAIN Nested /\ Nested[k + 1] \in Imports
        BY <1>1, <2>4, ModuleOfImport DEF Joins
      <3>2. /\ r \in Seq(Imports) /\ Len(r) = Len(q) + 1 /\ Len(q) \in Nat
            /\ \A i \in 1 .. Len(q) : r[i] = q[i]
            /\ r[Len(q) + 1] = Nested[k + 1]
        BY <2>1, <3>1, AppendProperties, LenProperties
      <3>3. \A i \in 1 .. Len(r) : i \in 1 .. Len(q) \/ i = Len(q) + 1
        BY <3>2
      <3> HIDE DEF r
      <3>4. From(r)
        BY <2>1, <3>1, <3>2, <3>3
      <3>5. QueuedUpTo[k + 1] = r
        BY <2>2, <2>4 DEF r
      <3>6. QueuedUpTo[k + 1] \in Seq(Imports) /\ From(QueuedUpTo[k + 1])
        BY <3>2, <3>4, <3>5
      <3> QED
        BY <3>6
    <2> QED
      BY <2>3, <2>4
  <1>4. Len(Nested) \in S
    <2> HIDE DEF S
    <2> QED
      BY <1>1, <1>2, <1>3, NatSetInduction
  <1> QED
    BY <1>4 DEF Queued

(* A module's import that is substituted with a wiring that was chosen, and *)
(* accepted, is chosen.                                                     *)
LEMMA NestedIsChosen ==
    ASSUME Given, queue \in Seq(Imports), queue # <<>>, WellWired, Chosen(imp)
    PROVE  \A k \in DOMAIN Nested : Chosen(Nested[k])
  <1> SUFFICES ASSUME NEW k \in DOMAIN Nested, NEW w \in DOMAIN Nested[k].wire,
                      Nested[k].wire[w].of \in Wirables, Nested[k].wire[w].inside # 0
               PROVE  Nested[k].wire[w].of \in Loose
    BY DEF Chosen
  <1> DEFINE i == file.imports[k]
             t == i.wire[w]
  <1>1. /\ imp \in Imports /\ file = library[imp.module] /\ imp.module \in DOMAIN library
        /\ DOMAIN imp.wire = file.wirables
        /\ \A v \in DOMAIN imp.wire : ~IsParamRef(imp.wire[v])
    BY HeadTailProperties DEF imp, file, WellWired, Known
  <1>2. file.imports \in Seq(Imports) /\ k \in DOMAIN file.imports
    BY <1>1, ModulesAssumption, AreImportsIsSeq DEF Given, Nested
  <1>3. i \in Imports
    BY <1>2, ModuleOfImport
  <1>4. PICK W \in SUBSET Wirables : i.wire \in [W -> Types]
    BY <1>3 DEF Imports
  <1>5. PICK V \in SUBSET Wirables : imp.wire \in [V -> Types]
    BY <1>1 DEF Imports
  <1>6. Nested[k].wire = [v \in DOMAIN i.wire |-> SubType(i.wire[v], imp.wire)]
    BY <1>3 DEF Nested, Substituted, Imports
  <1>7. w \in DOMAIN i.wire /\ Nested[k].wire[w] = SubType(t, imp.wire) /\ t \in Types
    BY <1>4, <1>6
  <1>8. CASE t.of \in DOMAIN imp.wire
    <2> DEFINE u == imp.wire[t.of]
    <2>1. u \in Types /\ ~IsParamRef(u)
      BY <1>1, <1>5, <1>8
    <2>2. Nested[k].wire[w].of = u.of
      BY <1>7, <1>8 DEF SubType
    <2>3. u.of \in Wirables /\ u.inside # 0
      BY <2>1, <2>2 DEF IsParamRef
    <2> QED
      BY <1>8, <2>2, <2>3 DEF Chosen
  <1>9. CASE t.of \notin DOMAIN imp.wire
    <2>1. Nested[k].wire[w] = t
      BY <1>7, <1>9 DEF SubType
    <2>2. t.of \in Wirables /\ t.inside > 0 /\ t.of \notin file.wirables
      BY <1>1, <1>7, <1>9, <2>1 DEF Types
    <2>3. t.of \in Nests(file.imports, file.wirables)
      BY <1>2, <1>7, <2>2 DEF Nests
    <2> QED
      BY <1>1, <2>1, <2>3 DEF Loose
  <1> QED
    BY <1>8, <1>9

LEMMA InitForwarded == Init => Forwarded
  <1> SUFFICES ASSUME Init PROVE Forwarded
    OBVIOUS
  <1>1. /\ queue = request.imports /\ request \in Requests
        /\ \A n \in Names : merged[n] \in {Own, Nowhere}
    BY DEF Init
  <1>2. request.imports \in Seq(Imports)
    BY <1>1, ModulesAssumption, AreImportsIsSeq
  <1>3. ASSUME NEW i \in 1 .. Len(queue)
        PROVE  Chosen(queue[i])
    <2>1. i \in DOMAIN request.imports /\ queue[i] = request.imports[i] /\ queue[i] \in Imports
      BY <1>1, <1>2, LenProperties, ModuleOfImport
    <2>2. PICK W \in SUBSET Wirables : queue[i].wire \in [W -> Types]
      BY <2>1 DEF Imports
    <2> SUFFICES ASSUME NEW w \in DOMAIN queue[i].wire, queue[i].wire[w].of \in Wirables,
                        queue[i].wire[w].inside # 0
                 PROVE  queue[i].wire[w].of \in Loose
      BY DEF Chosen
    <2>3. queue[i].wire[w].inside > 0
      BY <2>2 DEF Types
    <2> QED
      BY <2>1, <2>3 DEF Loose, Nests
  <1> QED
    BY <1>1, <1>3 DEF Forwarded, Bound

LEMMA StepForwarded == Walk /\ Forwarded /\ [Next]_vars => Forwarded'
  <1> SUFFICES ASSUME Walk, Forwarded, [Next]_vars PROVE Forwarded'
    OBVIOUS
  <1>1. UNCHANGED <<library, request>> => Loose' = Loose
    BY DEF Loose
  <1>2. CASE Merge
    <2>1. /\ queue # <<>> /\ Known /\ WellWired /\ Given /\ queue \in Seq(Imports)
          /\ UNCHANGED <<library, request>> /\ queue' = Queued /\ merged' = MergedUnder
          /\ imp = queue[1] /\ Len(queue) \in Nat \ {0}
      BY <1>2, EmptySeq DEF Merge, Fresh, WellWired, Walk, imp
    <2>2. Chosen(imp)
      BY <2>1 DEF Forwarded
    <2>3. \A k \in DOMAIN Nested : Chosen(Nested[k])
      BY <2>1, <2>2, NestedIsChosen
    <2>4. \A i \in 1 .. Len(Queued) : Chosen(Queued[i])
      BY <2>1, <2>3, QueuedComesFrom DEF Forwarded
    <2>5. \A i \in 1 .. Len(queue') : Chosen(queue[i])'
      BY <1>1, <2>1, <2>4 DEF Chosen
    <2>6. ASSUME NEW n \in Names \ Traits
          PROVE  Bound(merged[n])'
      <3>1. CASE merged'[n] = merged[n]
        BY <1>1, <2>1, <3>1 DEF Forwarded, Bound, Own, Nowhere
      <3>2. CASE merged'[n] # merged[n]
        <4>1. merged'[n] = Source(imp.module, imp.wire)
          BY <2>1, <3>2 DEF MergedUnder, Copy
        <4>2. imp \in Imports
          BY <2>1, HeadTailProperties DEF imp
        <4>3. PICK V \in SUBSET Wirables : imp.wire \in [V -> Types]
          BY <4>2 DEF Imports
        <4>4. \A w \in DOMAIN imp.wire :
                 /\ ~IsParamRef(imp.wire[w])
                 /\ imp.wire[w].of \in Concrete \cup Loose
          BY <2>1, <2>2, <4>3 DEF WellWired, Chosen, IsParamRef, Types
        <4> QED
          BY <1>1, <2>1, <4>1, <4>4 DEF Bound, Source, WellWired, file
      <3> QED
        BY <3>1, <3>2
    <2> QED
      BY <2>5, <2>6 DEF Forwarded
  <1>3. CASE Skip
    <2>1. /\ queue # <<>> /\ queue' = Tail(queue) /\ queue \in Seq(Imports)
          /\ UNCHANGED <<library, request, merged>>
      BY <1>3 DEF Skip, Walk
    <2>2. /\ Len(queue') = Len(queue) - 1 /\ Len(queue) \in Nat
          /\ \A i \in 1 .. Len(queue) - 1 : queue'[i] = queue[i + 1]
      BY <2>1, HeadTailProperties, LenProperties
    <2>3. \A i \in 1 .. Len(queue') : i + 1 \in 1 .. Len(queue) /\ queue'[i] = queue[i + 1]
      BY <2>2
    <2> QED
      BY <1>1, <2>1, <2>3 DEF Forwarded, Chosen, Bound, Own, Nowhere
  <1>4. CASE Refuse \/ Finish \/ UNCHANGED vars
    <2>1. UNCHANGED <<library, request, queue, merged>>
      BY <1>4 DEF Refuse, Finish, vars
    <2> QED
      BY <1>1, <2>1 DEF Forwarded, Chosen, Bound, Own, Nowhere
  <1> QED
    BY <1>2, <1>3, <1>4 DEF Next

(* Every wirable of a merged module is bound, through any chain of modules   *)
(* that forward it, to a type without a parameter in it, except one that an *)
(* import wrote inside an application with nobody around it to declare it   *)
(* (MODULE_SYSTEM.md, no remaining free wirables; resolve.py:188-198).      *)
THEOREM WirablesAreBound == Spec => []NoFreeWirables
  <1>1. Forwarded => NoFreeWirables
    <2> SUFFICES ASSUME Forwarded, NEW n \in Names \ Traits, merged[n].module \in Modules
                 PROVE  /\ DOMAIN merged[n].wire = library[merged[n].module].wirables
                        /\ \A w \in DOMAIN merged[n].wire :
                              /\ ~IsParamRef(merged[n].wire[w])
                              /\ merged[n].wire[w].of \in Concrete \cup Loose
      BY DEF NoFreeWirables
    <2>1. merged[n] \notin {Own, Nowhere}
      BY ModulesAssumption DEF Own, Nowhere, Source
    <2> QED
      BY <2>1 DEF Forwarded, Bound
  <1>2. Init => Walk /\ Forwarded
    BY InitWalk, InitForwarded
  <1>3. Walk /\ Forwarded /\ [Next]_vars => (Walk /\ Forwarded)'
    BY StepWalk, StepForwarded
  <1> QED
    BY <1>1, <1>2, <1>3, PTL DEF Spec
=============================================================================
