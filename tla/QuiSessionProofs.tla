-------------------------- MODULE QuiSessionProofs --------------------------
(***************************************************************************)
(* Theorems about QuiSession, for every command line, every set of         *)
(* projects and programs, and sessions of any length: whatever keys are    *)
(* pressed, whenever the server dies and files change, what is on the      *)
(* screen is what the keys act on.                                         *)
(*                                                                         *)
(* The properties of the session are not inductive one by one.  A tab      *)
(* leads somewhere because a change of program resets the strip; the       *)
(* active program is anchored because the projects of the server are, and  *)
(* they are because every program the picker can offer was listed by the   *)
(* server.  Good puts these together.  In the middle of a handler the      *)
(* picker may be out of date, and Steady is what is left then.             *)
(***************************************************************************)
EXTENDS QuiSession, NatRecursion, SequenceTheorems, TLAPS

(* Only keeps the elements that are in S and no others, each as often as it *)
(* occurs.                                                                  *)
OnlyOf(r, s, S, k) ==
    /\ r \in Seq(Range(s))
    /\ \A i \in 1 .. Len(r) : \E j \in 1 .. k : r[i] = s[j] /\ s[j] \in S
    /\ \A j \in 1 .. k : s[j] \in S => \E i \in 1 .. Len(r) : r[i] = s[j]
    /\ IsInjective(s) => IsInjective(r)

(* So Only does with the whole sequence.                                    *)
LEMMA OnlyKeeps ==
    ASSUME NEW T, NEW s \in Seq(T), NEW S
    PROVE  OnlyOf(Only(s, S), s, S, Len(s))
  <1> DEFINE n == Len(s)
             R == Range(s)
             F == [k \in 1 .. n |-> [q \in Seq(R) |-> IF s[k] \in S THEN Append(q, s[k]) ELSE q]]
  <1>1. n \in Nat /\ DOMAIN s = 1 .. n /\ << >> \in Seq(R)
    BY LenProperties
  <1>2. \A k \in 1 .. n : s[k] \in R
    BY <1>1 DEF Range
  <1> HIDE DEF R
  <1>3. F \in [1 .. n -> [Seq(R) -> Seq(R)]]
    BY <1>2
  <1>4. PICK g : IteratesTo(g, n, Seq(R), << >>, F)
    <2> HIDE DEF F, n
    <2> QED
      BY <1>1, <1>3, BoundedIterationExists
  <1>5. g = [k \in 0 .. n |-> IF k = 0 THEN << >>
                             ELSE IF s[k] \in S THEN Append(g[k - 1], s[k]) ELSE g[k - 1]]
    <2>1. \A k \in 1 .. n : k - 1 \in 0 .. n
      BY <1>1
    <2>2. \A k \in 1 .. n : g[k] = IF s[k] \in S THEN Append(g[k - 1], s[k]) ELSE g[k - 1]
      BY <1>4, <2>1 DEF IteratesTo
    <2>3. g[0] = << >> /\ g \in [0 .. n -> Seq(R)]
      BY <1>4 DEF IteratesTo
    <2> HIDE DEF n, F
    <2>4. \A k \in 0 .. n : k = 0 \/ k \in 1 .. n
      BY <1>1
    <2>5. \A k \in 0 .. n : g[k] = IF k = 0 THEN << >>
                                   ELSE IF s[k] \in S THEN Append(g[k - 1], s[k]) ELSE g[k - 1]
      <3>1. 0 \notin 1 .. n
        OBVIOUS
      <3> QED
        BY <2>2, <2>3, <2>4, <3>1
    <2>6. g = [k \in 0 .. n |-> g[k]]
      BY <2>3
    <2> QED
      BY <2>5, <2>6
  <1> DEFINE f == CHOOSE f : f = [k \in 0 .. n |-> IF k = 0 THEN << >>
                             ELSE IF s[k] \in S THEN Append(f[k - 1], s[k]) ELSE f[k - 1]]
  <1>6. f = [k \in 0 .. n |-> IF k = 0 THEN << >>
                             ELSE IF s[k] \in S THEN Append(f[k - 1], s[k]) ELSE f[k - 1]]
    BY <1>5
  <1>7. Only(s, S) = f[n]
    BY DEF Only
  <1> HIDE DEF f, n
  <1>8. f[0] = << >>
    BY <1>1, <1>6
  <1>9. \A k \in 1 .. n : f[k] = IF s[k] \in S THEN Append(f[k - 1], s[k]) ELSE f[k - 1]
    <2>1. \A k \in 1 .. n : k \in 0 .. n /\ k # 0
      BY <1>1
    <2> QED
      BY <1>6, <2>1
  <1> DEFINE P == {k \in Nat : k <= n => OnlyOf(f[k], s, S, k)}
  <1>10. 0 \in P
    <2>1. << >> \in Seq(Range(s)) /\ Len(<< >>) = 0 /\ DOMAIN << >> = {} /\ 1 .. 0 = {}
      OBVIOUS
    <2> QED
      BY <1>8, <2>1 DEF OnlyOf, IsInjective
  <1>11. ASSUME NEW k \in Nat, k \in P
         PROVE  k + 1 \in P
    <2> SUFFICES ASSUME k + 1 <= n PROVE OnlyOf(f[k + 1], s, S, k + 1)
      OBVIOUS
    <2> DEFINE q == f[k]
               r == f[k + 1]
    <2>1. OnlyOf(q, s, S, k)
      BY <1>1, <1>11
    <2>2. r = IF s[k + 1] \in S THEN Append(q, s[k + 1]) ELSE q
      BY <1>1, <1>9
    <2>3. k + 1 \in 1 .. n /\ s[k + 1] \in Range(s) /\ \A j \in 1 .. k + 1 : j \in 1 .. k \/ j = k + 1
      BY <1>1, <1>2 DEF R
    <2> HIDE DEF q, r
    <2>4. CASE s[k + 1] \notin S
      <3>1. r = q
        BY <2>2, <2>4
      <3>2. \A j \in 1 .. k : j \in 1 .. k + 1
        OBVIOUS
      <3>3. \A j \in 1 .. k + 1 : s[j] \in S => \E i \in 1 .. Len(q) : q[i] = s[j]
        BY <2>1, <2>3, <2>4 DEF OnlyOf
      <3>4. OnlyOf(r, s, S, k + 1)
        BY <2>1, <3>1, <3>2, <3>3 DEF OnlyOf
      <3> QED
        BY <3>4 DEF r
    <2>5. CASE s[k + 1] \in S
      <3>1. /\ q \in Seq(Range(s)) /\ Len(q) \in Nat /\ DOMAIN q = 1 .. Len(q)
            /\ \A i \in 1 .. Len(q) : \E j \in 1 .. k : q[i] = s[j] /\ s[j] \in S
        BY <2>1, LenProperties DEF OnlyOf
      <3>2. /\ r \in Seq(Range(s)) /\ Len(r) = Len(q) + 1 /\ DOMAIN r = 1 .. Len(r)
            /\ \A i \in 1 .. Len(q) : r[i] = q[i]
            /\ r[Len(q) + 1] = s[k + 1]
        BY <2>2, <2>3, <2>5, <3>1, AppendProperties, LenProperties
      <3>3. \A i \in 1 .. Len(r) : i \in 1 .. Len(q) \/ i = Len(q) + 1
        BY <3>1, <3>2
      <3>4. \A i \in 1 .. Len(q) : i \in 1 .. Len(r)
        BY <3>1, <3>2
      <3>5. Len(q) + 1 \in 1 .. Len(r)
        BY <3>1, <3>2
      <3>6. \A i \in 1 .. Len(r) : \E j \in 1 .. k + 1 : r[i] = s[j] /\ s[j] \in S
        <4>1. \A j \in 1 .. k : j \in 1 .. k + 1
          OBVIOUS
        <4> QED
          BY <2>5, <3>1, <3>2, <3>3, <4>1
      <3>7. \A j \in 1 .. k + 1 : s[j] \in S => \E i \in 1 .. Len(r) : r[i] = s[j]
        BY <2>1, <2>3, <3>2, <3>4, <3>5 DEF OnlyOf
      <3>8. ASSUME IsInjective(s), NEW a \in DOMAIN r, NEW b \in DOMAIN r, r[a] = r[b]
            PROVE  a = b
        <4>1. IsInjective(q)
          BY <2>1, <3>8 DEF OnlyOf
        <4>2. \A i \in 1 .. Len(q) : q[i] # s[k + 1]
          <5> SUFFICES ASSUME NEW i \in 1 .. Len(q), q[i] = s[k + 1] PROVE FALSE
            OBVIOUS
          <5>1. PICK j \in 1 .. k : q[i] = s[j]
            BY <3>1
          <5>2. j \in DOMAIN s /\ k + 1 \in DOMAIN s /\ s[j] = s[k + 1] /\ j # k + 1
            BY <1>1, <2>3, <5>1
          <5> QED
            BY <3>8, <5>2 DEF IsInjective
        <4> QED
          BY <3>1, <3>2, <3>3, <3>8, <4>1, <4>2 DEF IsInjective
      <3>9. OnlyOf(r, s, S, k + 1)
        BY <3>2, <3>6, <3>7, <3>8 DEF OnlyOf, IsInjective
      <3> QED
        BY <3>9 DEF r
    <2> QED
      BY <2>4, <2>5
  <1>12. n \in P
    <2> HIDE DEF P
    <2> QED
      BY <1>1, <1>10, <1>11, NatSetInduction
  <1>13. OnlyOf(f[n], s, S, n)
    BY <1>1, <1>12
  <1> QED
    BY <1>7, <1>13 DEF n

(* The elements of a selection are those of the sequence that are in S.     *)
LEMMA OnlyRange ==
    ASSUME NEW T, NEW s \in Seq(T), NEW S
    PROVE  /\ Only(s, S) \in Seq(T)
           /\ Range(Only(s, S)) = Range(s) \cap S
           /\ IsInjective(s) => IsInjective(Only(s, S))
  <1> DEFINE r == Only(s, S)
  <1>1. OnlyOf(r, s, S, Len(s))
    BY OnlyKeeps
  <1> HIDE DEF r
  <1>2. r \in Seq(Range(s)) /\ Range(s) \subseteq T
    BY <1>1, RangeOfSeq DEF OnlyOf
  <1>3. r \in Seq(T) /\ DOMAIN r = 1 .. Len(r) /\ DOMAIN s = 1 .. Len(s)
    BY <1>2, SeqMonotonic, LenProperties
  <1>4. Range(r) = Range(s) \cap S
    <2>1. ASSUME NEW x \in Range(r) PROVE x \in Range(s) \cap S
      <3>1. PICK i \in 1 .. Len(r) : x = r[i]
        BY <1>3 DEF Range
      <3> QED
        BY <1>1, <1>3, <3>1 DEF OnlyOf, Range
    <2>2. ASSUME NEW x \in Range(s), x \in S PROVE x \in Range(r)
      <3>1. PICK j \in 1 .. Len(s) : x = s[j]
        BY <1>3 DEF Range
      <3>2. PICK i \in 1 .. Len(r) : r[i] = s[j]
        BY <1>1, <2>2, <3>1 DEF OnlyOf
      <3> QED
        BY <1>3, <3>1, <3>2 DEF Range
    <2> QED
      BY <2>1, <2>2
  <1> QED
    BY <1>1, <1>3, <1>4 DEF OnlyOf, r

(* Nonempty sets of positions have a first and a last one.                  *)
LEMMA FirstAndLast ==
    ASSUME NEW n \in Nat, NEW S, S \subseteq 0 .. n, S # {}
    PROVE  /\ \E i \in S : \A j \in S : i <= j
           /\ \E i \in S : \A j \in S : j <= i
  <1> DEFINE A == {k \in Nat : (\E i \in S : i <= k) => \E i \in S : \A j \in S : i <= j}
             B == {k \in Nat : (\E i \in S : n - k <= i) => \E i \in S : \A j \in S : j <= i}
  <1>1. Nat \subseteq A
    <2>1. 0 \in A
      OBVIOUS
    <2>2. ASSUME NEW k \in Nat, k \in A PROVE k + 1 \in A
      <3>1. CASE \E i \in S : i <= k
        BY <2>2, <3>1
      <3>2. CASE ~ \E i \in S : i <= k
        <4>1. \A j \in S : k + 1 <= j
          BY <3>2
        <4> QED
          BY <4>1
      <3> QED
        BY <3>1, <3>2
    <2> HIDE DEF A
    <2> QED
      BY <2>1, <2>2, NatSetInduction
  <1>2. Nat \subseteq B
    <2>1. 0 \in B
      OBVIOUS
    <2>2. ASSUME NEW k \in Nat, k \in B PROVE k + 1 \in B
      <3>1. CASE \E i \in S : n - k <= i
        BY <2>2, <3>1
      <3>2. CASE ~ \E i \in S : n - k <= i
        <4>1. \A j \in S : j <= n - (k + 1)
          BY <3>2
        <4> QED
          BY <4>1
      <3> QED
        BY <3>1, <3>2
    <2> HIDE DEF B
    <2> QED
      BY <2>1, <2>2, NatSetInduction
  <1>3. n \in A /\ n \in B
    BY <1>1, <1>2
  <1>4. PICK i \in S : i \in 0 .. n
    OBVIOUS
  <1>5. i <= n /\ n - n <= i
    BY <1>4
  <1> QED
    BY <1>3, <1>5

-----------------------------------------------------------------------------
(* The shapes of the state.                                                 *)

Sections == {"entities", "views"}
Specs == [name : Names, file : Files]
ProgramEntries == [root : Roots, name : Names, file : Files]
Projects == [root : Roots, specs : Seq(Specs)]
Servers == [up : BOOLEAN, projects : Seq(Projects), active : ServerPrograms \cup {None}]
AllAnchors == [kind : {"project"}, path : Roots] \cup [kind : {"program"}, path : Files]
Shown == [root : Roots \cup {None}, label : Names \cup Files]
Tabs == [kind : {"welcome", "category", "view"}, entry : Nat \ {0}]
Bodies == [tabs : Seq(Tabs), tab : Nat, focus : {"sidebar", "tab"}, section : Sections,
           cursor : [Sections -> Nat \ {0}]]
AllRows == [kind : {"header", "placeholder"}, label : Roots \cup {None}, group : Nat, data : {0}]
           \cup SelectableRows
PlainOverlays == [kind : {"none", "open", "help", "error"}]
Pickers == [kind : {"picker"}, items : Seq(AllRows), input : Filters \cup {None}, cursor : Nat]
Traces == [of : ServerPrograms, rows : Nat, cursor : Nat \ {0}]
Apps ==
    [ server : Servers, workspace : Seq(AllAnchors), programs : Seq(ProgramEntries),
      active : Shown \cup {None}, entities : Nat, views : Seq(Views), body : Bodies,
      overlay : PlainOverlays \cup Pickers, trace : [Views -> Traces \cup {None}] ]

(* Cursors, tabs and traces point at something.                             *)
BodyFits(b, n) ==
    /\ b.tab \in DOMAIN b.tabs \cup {0}
    /\ b.tab = 0 <=> b.tabs = << >>
    /\ \A s \in Sections : b.cursor[s] = 1 \/ b.cursor[s] <= n[s]
    /\ \A i \in DOMAIN b.tabs :
          /\ b.tabs[i].kind = "category" => b.tabs[i].entry <= n["entities"]
          /\ b.tabs[i].kind = "view" => b.tabs[i].entry <= n["views"]
    /\ IsInjective(b.tabs)

TraceFits(trace) ==
    \A v \in Views : trace[v] # None => trace[v].cursor \in 1 .. trace[v].rows \cup {1}

(* What is on the screen is of the active program.                          *)
Shows(active, server, entities, views, trace) ==
    active # None =>
    /\ \A v \in Views : trace[v] # None =>
          [root |-> trace[v].of.root, label |-> trace[v].of.label] = active
    /\ server.up =>
          /\ server.active # None
          /\ active = [root |-> server.active.root, label |-> server.active.label]
          /\ entities = Outline(server) /\ views = Shape(server)
          /\ \A v \in Views : trace[v] # None => trace[v].of = server.active

(* Every project the server has open, every program it listed and the       *)
(* active program are there through an anchor of the workspace.             *)
Anchored(workspace, projects, programs, active) ==
    /\ \A i \in DOMAIN projects :
          [kind |-> "project", path |-> projects[i].root] \in Range(workspace)
    /\ \A i \in DOMAIN programs :
          [kind |-> "project", path |-> programs[i].root] \in Range(workspace)
    /\ active # None =>
          IF active.root = None THEN [kind |-> "program", path |-> active.label] \in Range(workspace)
          ELSE [kind |-> "project", path |-> active.root] \in Range(workspace)

(* The cursor of a picker is on a selectable row when there is one.         *)
Candidates(p) ==
    LET rows == Picker!Filtered(p.items, p.input)
    IN  {i \in DOMAIN rows : p.items[rows[i]].kind = "selectable"}

InSync(overlay, programs, workspace) ==
    overlay.kind = "picker" =>
    /\ overlay.items = Rows(programs, workspace).items
    /\ Candidates(overlay) # {} => overlay.cursor \in Candidates(overlay)

(* All of it but the picker, which a handler may leave stale on its way.    *)
Steady(a) ==
    /\ a \in Apps
    /\ BodyFits(a.body, Entries(a))
    /\ TraceFits(a.trace)
    /\ Shows(a.active, a.server, a.entities, a.views, a.trace)
    /\ Anchored(a.workspace, a.server.projects, a.programs, a.active)

Good(a) == Steady(a) /\ InSync(a.overlay, a.programs, a.workspace)

(* Files and project files hold what the constants allow.                   *)
World ==
    /\ disk \in [Files -> Contents \cup {None}]
    /\ tomls \in [Roots -> UNION Range(Tomls)]
    /\ \A r \in Roots : tomls[r] \in Tomls[r]

IInv ==
    /\ Good(app)
    /\ World
    /\ phase \in {"draw", "key", "quit"} /\ edits \in 0 .. MaxEdits
    /\ NoDeadEnd

-----------------------------------------------------------------------------
(* The server.                                                              *)

(* A flattened sequence holds what its parts hold.                          *)
LEMMA FlattenHolds ==
    ASSUME NEW T, NEW ss \in Seq(Seq(T))
    PROVE  /\ FlattenSeq(ss) \in Seq(T)
           /\ \A i \in DOMAIN FlattenSeq(ss) : \E j \in DOMAIN ss : FlattenSeq(ss)[i] \in Range(ss[j])
  <1> DEFINE n == Len(ss)
             W == {w \in Seq(T) : \A i \in DOMAIN w : \E j \in 1 .. n : w[i] \in Range(ss[j])}
             F == [k \in 1 .. n |-> [q \in W |-> IF k = 1 THEN ss[k] ELSE q \o ss[k]]]
  <1>1. n \in Nat /\ DOMAIN ss = 1 .. n /\ << >> \in Seq(T) /\ DOMAIN << >> = {}
    BY LenProperties
  <1>2. CASE n = 0
    BY <1>1, <1>2, EmptySeq DEF FlattenSeq
  <1>3. CASE n # 0
    <2>1. \A k \in 1 .. n : ss[k] \in Seq(T)
      BY ElementOfSeq
    <2>2. \A k \in 1 .. n : ss[k] \in W
      BY <2>1 DEF Range
    <2>3. \A k \in 1 .. n : \A q \in W : q \o ss[k] \in W
      <3> SUFFICES ASSUME NEW k \in 1 .. n, NEW q \in W PROVE q \o ss[k] \in W
        OBVIOUS
      <3> DEFINE r == q \o ss[k]
      <3>1. /\ q \in Seq(T) /\ ss[k] \in Seq(T) /\ Len(q) \in Nat /\ Len(ss[k]) \in Nat
            /\ DOMAIN q = 1 .. Len(q) /\ DOMAIN ss[k] = 1 .. Len(ss[k])
        BY <2>1, LenProperties
      <3>2. /\ r \in Seq(T) /\ DOMAIN r = 1 .. Len(q) + Len(ss[k])
            /\ \A i \in 1 .. Len(q) + Len(ss[k]) :
                  r[i] = IF i <= Len(q) THEN q[i] ELSE ss[k][i - Len(q)]
        BY <3>1, ConcatProperties, LenProperties
      <3>3. ASSUME NEW i \in DOMAIN r PROVE \E j \in 1 .. n : r[i] \in Range(ss[j])
        <4>1. CASE i <= Len(q)
          <5>1. i \in DOMAIN q /\ r[i] = q[i]
            BY <3>1, <3>2, <4>1
          <5> QED
            BY <5>1
        <4>2. CASE ~ (i <= Len(q))
          <5>1. i - Len(q) \in DOMAIN ss[k] /\ r[i] = ss[k][i - Len(q)]
            BY <3>1, <3>2, <4>2
          <5> QED
            BY <5>1 DEF Range
        <4> QED
          BY <4>1, <4>2
      <3> QED
        BY <3>2, <3>3
    <2>4. << >> \in W
      BY <1>1
    <2> HIDE DEF W
    <2>5. F \in [1 .. n -> [W -> W]]
      BY <2>2, <2>3
    <2>6. PICK g : IteratesTo(g, n, W, << >>, F)
      <3> HIDE DEF F, n
      <3> QED
        BY <1>1, <2>4, <2>5, BoundedIterationExists
    <2>7. \A k \in 1 .. n : k - 1 \in 0 .. n /\ k \in 0 .. n
      BY <1>1
    <2>8. \A k \in 1 .. n : g[k] = IF k = 1 THEN ss[k] ELSE g[k - 1] \o ss[k]
      BY <2>6, <2>7 DEF IteratesTo
    <2>9. \A k \in 1 .. n : g[k] \in W
      BY <2>6, <2>7 DEF IteratesTo
    <2> HIDE DEF F, n
    <2> DEFINE h == [k \in 1 .. n |-> g[k]]
    <2>10. \A k \in 1 .. n : h[k] = IF k = 1 THEN ss[k] ELSE h[k - 1] \o ss[k]
      <3>1. \A k \in 1 .. n : k # 1 => k - 1 \in 1 .. n
        BY <1>1
      <3> QED
        BY <2>8, <3>1
    <2>11. h = [k \in 1 .. n |-> IF k = 1 THEN ss[k] ELSE h[k - 1] \o ss[k]]
      <3>1. h = [k \in 1 .. n |-> h[k]]
        OBVIOUS
      <3> HIDE DEF h
      <3> QED
        BY <2>10, <3>1
    <2> DEFINE f == CHOOSE f : f = [k \in 1 .. n |-> IF k = 1 THEN ss[k] ELSE f[k - 1] \o ss[k]]
    <2>12. f = [k \in 1 .. n |-> IF k = 1 THEN ss[k] ELSE f[k - 1] \o ss[k]]
      <3> HIDE DEF h
      <3> QED
        BY <2>11
    <2>13. FlattenSeq(ss) = f[n]
      BY <1>3 DEF FlattenSeq, n
    <2> HIDE DEF f, h
    <2> DEFINE P == {k \in Nat : k \in 1 .. n => f[k] \in W}
    <2>14. 0 \in P
      OBVIOUS
    <2>15. ASSUME NEW k \in Nat, k \in P PROVE k + 1 \in P
      <3> SUFFICES ASSUME k + 1 \in 1 .. n PROVE f[k + 1] \in W
        OBVIOUS
      <3>1. f[k + 1] = IF k + 1 = 1 THEN ss[k + 1] ELSE f[k + 1 - 1] \o ss[k + 1]
        <4>1. \A m \in 1 .. n : f[m] = IF m = 1 THEN ss[m] ELSE f[m - 1] \o ss[m]
          BY <2>12
        <4> QED
          BY <4>1
      <3>2. CASE k = 0
        BY <2>2, <3>1, <3>2
      <3>3. CASE k # 0
        <4>1. k \in 1 .. n /\ k + 1 - 1 = k /\ k + 1 # 1
          BY <1>1, <3>3
        <4>2. f[k] \in W
          BY <2>15, <4>1
        <4> QED
          BY <2>3, <3>1, <4>1, <4>2
      <3> QED
        BY <3>2, <3>3
    <2>16. n \in P
      <3> HIDE DEF P
      <3> QED
        BY <1>1, <2>14, <2>15, NatSetInduction
    <2>17. f[n] \in W
      BY <1>1, <1>3, <2>16
    <2> QED
      BY <1>1, <2>13, <2>17 DEF W
  <1> QED
    BY <1>2, <1>3

(* The list of programs the server sends names only projects it has open.   *)
LEMMA PayloadIs ==
    ASSUME NEW s \in Servers
    PROVE  /\ ProgramsPayload(s) \in Seq(ProgramEntries)
           /\ \A i \in DOMAIN ProgramsPayload(s) : \E j \in DOMAIN s.projects :
                 ProgramsPayload(s)[i].root = s.projects[j].root
  <1> DEFINE listed(p) == [i \in DOMAIN p.specs |->
                             [root |-> p.root, name |-> p.specs[i].name, file |-> p.specs[i].file]]
             ss == [i \in DOMAIN s.projects |-> listed(s.projects[i])]
  <1>1. s.projects \in Seq(Projects) /\ DOMAIN s.projects = 1 .. Len(s.projects)
    BY LenProperties DEF Servers
  <1>2. ASSUME NEW p \in Projects
        PROVE  /\ listed(p) \in Seq(ProgramEntries)
               /\ \A e \in Range(listed(p)) : e.root = p.root
    <2>1. p.root \in Roots /\ p.specs \in Seq(Specs) /\ DOMAIN p.specs = 1 .. Len(p.specs)
          /\ Len(p.specs) \in Nat
      BY <1>2, LenProperties DEF Projects
    <2>2. \A i \in 1 .. Len(p.specs) : p.specs[i].name \in Names /\ p.specs[i].file \in Files
      <3>1. \A i \in 1 .. Len(p.specs) : p.specs[i] \in Specs
        BY <2>1, ElementOfSeq
      <3> QED
        BY <3>1 DEF Specs
    <2>3. \A i \in 1 .. Len(p.specs) :
             [root |-> p.root, name |-> p.specs[i].name, file |-> p.specs[i].file] \in ProgramEntries
      BY <2>1, <2>2 DEF ProgramEntries
    <2>4. listed(p) \in Seq(ProgramEntries)
      BY <2>1, <2>3, IsASeq
    <2>5. \A i \in DOMAIN listed(p) : listed(p)[i].root = p.root
      OBVIOUS
    <2> QED
      BY <2>4, <2>5 DEF Range
  <1>3. \A i \in DOMAIN s.projects : s.projects[i] \in Projects
    BY <1>1, ElementOfSeq
  <1> HIDE DEF listed
  <1>4. ss \in Seq(Seq(ProgramEntries)) /\ DOMAIN ss = DOMAIN s.projects
    <2>1. Len(s.projects) \in Nat
      BY <1>1, LenProperties
    <2>2. \A i \in 1 .. Len(s.projects) : listed(s.projects[i]) \in Seq(ProgramEntries)
      BY <1>1, <1>2, <1>3
    <2> QED
      BY <1>1, <2>1, <2>2, IsASeq
  <1>5. ProgramsPayload(s) = FlattenSeq(ss)
    BY DEF ProgramsPayload, listed
  <1> HIDE DEF ss
  <1>6. FlattenSeq(ss) \in Seq(ProgramEntries)
    BY <1>4, FlattenHolds
  <1>7. ASSUME NEW i \in DOMAIN FlattenSeq(ss)
        PROVE  \E j \in DOMAIN s.projects : FlattenSeq(ss)[i].root = s.projects[j].root
    <2>1. PICK j \in DOMAIN ss : FlattenSeq(ss)[i] \in Range(ss[j])
      BY <1>4, FlattenHolds
    <2>2. ss[j] = listed(s.projects[j]) /\ s.projects[j] \in Projects
      BY <1>3, <1>4, <2>1 DEF ss
    <2> QED
      BY <1>2, <1>4, <2>1, <2>2
  <1> QED
    BY <1>5, <1>6, <1>7

(* A program that is found is found in a file.                              *)
LEMMA SpecFileIs ==
    ASSUME NEW s \in Servers, NEW r, NEW name
    PROVE  SpecFile(s, r, name) \in Files \cup {None}
  <1> DEFINE S == [root : {r}, name : {name}, file : Files]
             hits == Only(ProgramsPayload(s), S)
  <1>1. hits \in Seq(ProgramEntries) /\ DOMAIN hits = 1 .. Len(hits)
    BY PayloadIs, OnlyRange, LenProperties
  <1>2. CASE hits = << >>
    BY <1>2 DEF SpecFile
  <1>3. CASE hits # << >>
    <2>1. SpecFile(s, r, name) = Head(hits).file
      BY <1>3 DEF SpecFile
    <2> HIDE DEF hits
    <2>2. Head(hits) \in ProgramEntries
      BY <1>1, <1>3, HeadTailProperties
    <2> QED
      BY <2>1, <2>2 DEF ProgramEntries
  <1> QED
    BY <1>2, <1>3

(* A project is opened, or already was, or its file is refused.             *)
LEMMA AddProjectIs ==
    ASSUME NEW s \in Servers, NEW r \in Roots, World
    PROVE  /\ AddProject(s, r, tomls) \in Servers
           /\ AddProject(s, r, tomls).up = s.up
           /\ AddProject(s, r, tomls).active = s.active
           /\ \A i \in DOMAIN AddProject(s, r, tomls).projects :
                 \/ AddProject(s, r, tomls).projects[i].root = r
                 \/ \E j \in DOMAIN s.projects :
                       AddProject(s, r, tomls).projects[i].root = s.projects[j].root
  <1> DEFINE t == AddProject(s, r, tomls)
             new == [root |-> r, specs |-> tomls[r].specs]
  <1>1. CASE Opened(s, r) \/ tomls[r].specs = None
    BY <1>1 DEF AddProject
  <1>2. CASE ~ (Opened(s, r) \/ tomls[r].specs = None)
    <2>1. tomls[r].specs \in Seq(Specs)
      BY <1>2, SessionAssumption DEF World, Specs
    <2>2. new \in Projects
      BY <2>1 DEF Projects
    <2>3. s.projects \in Seq(Projects) /\ s.up \in BOOLEAN /\ s.active \in ServerPrograms \cup {None}
      BY DEF Servers
    <2>4. t = [s EXCEPT !.projects = Append(s.projects, new)]
      BY <1>2 DEF AddProject
    <2> HIDE DEF new
    <2>5. /\ Append(s.projects, new) \in Seq(Projects)
          /\ DOMAIN Append(s.projects, new) = 1 .. Len(s.projects) + 1
          /\ DOMAIN s.projects = 1 .. Len(s.projects) /\ Len(s.projects) \in Nat
          /\ \A i \in 1 .. Len(s.projects) : Append(s.projects, new)[i] = s.projects[i]
          /\ Append(s.projects, new)[Len(s.projects) + 1] = new
      BY <2>2, <2>3, AppendProperties, LenProperties
    <2>6. /\ t \in Servers /\ t.up = s.up /\ t.active = s.active
          /\ t.projects = Append(s.projects, new)
      BY <2>3, <2>4, <2>5 DEF Servers
    <2>7. \A i \in 1 .. Len(s.projects) + 1 : i \in 1 .. Len(s.projects) \/ i = Len(s.projects) + 1
      BY <2>5
    <2> HIDE DEF t
    <2>8. \A i \in DOMAIN t.projects : t.projects[i].root = r
              \/ \E j \in DOMAIN s.projects : t.projects[i].root = s.projects[j].root
      BY <2>5, <2>6, <2>7 DEF new
    <2> QED
      BY <2>6, <2>8 DEF t
  <1> QED
    BY <1>1, <1>2

(* A project that is removed is gone, and so is the active program it had.  *)
LEMMA RemoveProjectIs ==
    ASSUME NEW s \in Servers, NEW r \in Roots
    PROVE  /\ RemoveProject(s, r) \in Servers
           /\ RemoveProject(s, r).up = s.up
           /\ RemoveProject(s, r).active =
                 IF s.active # None /\ s.active.root = r THEN None ELSE s.active
           /\ \A i \in DOMAIN RemoveProject(s, r).projects :
                 /\ RemoveProject(s, r).projects[i].root # r
                 /\ \E j \in DOMAIN s.projects :
                       RemoveProject(s, r).projects[i].root = s.projects[j].root
  <1> DEFINE left == Only(s.projects, {p \in Range(s.projects) : p.root # r})
             active == IF s.active # None /\ s.active.root = r THEN None ELSE s.active
  <1>1. s.projects \in Seq(Projects) /\ s.up \in BOOLEAN /\ s.active \in ServerPrograms \cup {None}
    BY DEF Servers
  <1>2. RemoveProject(s, r) = [s EXCEPT !.projects = left, !.active = active]
    BY DEF RemoveProject
  <1>3. left \in Seq(Projects) /\ \A x \in Range(left) : x \in Range(s.projects) /\ x.root # r
    BY <1>1, OnlyRange
  <1> HIDE DEF left
  <1>4. active \in ServerPrograms \cup {None}
    BY <1>1
  <1> HIDE DEF active
  <1>5. /\ RemoveProject(s, r) \in Servers
        /\ RemoveProject(s, r).up = s.up
        /\ RemoveProject(s, r).active = active
        /\ RemoveProject(s, r).projects = left
    BY <1>1, <1>2, <1>3, <1>4 DEF Servers
  <1>6. ASSUME NEW i \in DOMAIN left
        PROVE  left[i].root # r /\ \E j \in DOMAIN s.projects : left[i].root = s.projects[j].root
    <2>1. left[i] \in Range(left)
      BY DEF Range
    <2>2. left[i].root # r /\ left[i] \in Range(s.projects)
      BY <1>3, <2>1
    <2>3. PICK j \in DOMAIN s.projects : left[i] = s.projects[j]
      BY <2>2 DEF Range
    <2> QED
      BY <2>2, <2>3
  <1> QED
    BY <1>5, <1>6 DEF active

-----------------------------------------------------------------------------
(* Changes of the workspace.                                                *)

(* Where every session begins, and ends.                                    *)
LEMMA NewAppIsGood == Good(NewApp)
  <1>1. Started \in Servers
    BY EmptySeq DEF Started, Servers
  <1>2. Blank \in Bodies /\ BodyFits(Blank, Entries(NewApp))
    <2>1. << >> \in Seq(Tabs) /\ DOMAIN << >> = {} /\ Blank.tabs = << >>
      BY DEF Blank
    <2>2. [s \in {"entities", "views"} |-> 1] \in [Sections -> Nat \ {0}]
      BY DEF Sections
    <2>3. Blank \in Bodies
      BY <2>1, <2>2 DEF Blank, Bodies, Sections
    <2>4. IsInjective(<< >>)
      BY DEF IsInjective
    <2> QED
      BY <2>1, <2>3, <2>4 DEF BodyFits, Blank, Sections
  <1>3. NoTrace \in [Views -> Traces \cup {None}] /\ TraceFits(NoTrace)
    BY DEF NoTrace, TraceFits
  <1>4. NoOverlay \in PlainOverlays /\ NoOverlay.kind = "none"
    BY DEF NoOverlay, PlainOverlays
  <1>5. NewApp \in Apps
    BY <1>1, <1>2, <1>3, <1>4 DEF NewApp, Apps
  <1>6. /\ NewApp.body = Blank /\ NewApp.trace = NoTrace /\ NewApp.active = None
        /\ NewApp.overlay = NoOverlay /\ NewApp.programs = << >> /\ NewApp.server.projects = << >>
    BY DEF NewApp, Started
  <1>7. Shows(NewApp.active, NewApp.server, NewApp.entities, NewApp.views, NewApp.trace)
    BY <1>6 DEF Shows
  <1>8. Anchored(NewApp.workspace, NewApp.server.projects, NewApp.programs, NewApp.active)
    BY <1>6 DEF Anchored
  <1>9. InSync(NewApp.overlay, NewApp.programs, NewApp.workspace)
    BY <1>4, <1>6 DEF InSync
  <1> QED
    BY <1>2, <1>3, <1>5, <1>6, <1>7, <1>8, <1>9 DEF Good, Steady

(* A path the user can give has an anchor.                                  *)
LEMMA AnchorIs ==
    ASSUME NEW path \in Roots \cup Files
    PROVE  Anchor(path) \in AllAnchors
  BY DEF Anchor, AllAnchors

(* The fields of an App.                                                    *)
LEMMA FieldsOf ==
    ASSUME NEW a \in Apps
    PROVE  /\ a.server \in Servers /\ a.workspace \in Seq(AllAnchors)
           /\ a.programs \in Seq(ProgramEntries) /\ a.active \in Shown \cup {None}
           /\ a.entities \in Nat /\ a.views \in Seq(Views) /\ a.body \in Bodies
           /\ a.overlay \in PlainOverlays \cup Pickers
           /\ a.trace \in [Views -> Traces \cup {None}]
           /\ Entries(a) = [entities |-> a.entities, views |-> Len(a.views)]
  BY DEF Apps, Entries

(* What the server answers does not change what is on the screen.           *)
LEMMA ToldIsSteady ==
    ASSUME NEW a, Steady(a), NEW s \in Servers, NEW w \in Seq(AllAnchors),
           NEW active \in Shown \cup {None}, NEW programs \in Seq(ProgramEntries),
           Shows(active, s, a.entities, a.views, a.trace),
           Anchored(w, s.projects, programs, active)
    PROVE  Steady([a EXCEPT !.server = s, !.programs = programs, !.workspace = w, !.active = active])
  <1> DEFINE b == [a EXCEPT !.server = s, !.programs = programs, !.workspace = w, !.active = active]
  <1>1. a \in Apps
    BY DEF Steady
  <1>2. /\ b \in Apps /\ b.server = s /\ b.programs = programs /\ b.workspace = w
        /\ b.active = active /\ b.entities = a.entities /\ b.views = a.views
        /\ b.body = a.body /\ b.trace = a.trace /\ b.overlay = a.overlay
    BY <1>1 DEF Apps
  <1> HIDE DEF b
  <1>3. Entries(b) = Entries(a)
    BY <1>2 DEF Entries
  <1>4. Steady(b)
    BY <1>2, <1>3 DEF Steady
  <1> QED
    BY <1>4 DEF b

(* What a request leaves, whether it succeeds or fails.                     *)
LEMMA Results ==
    ASSUME NEW a
    PROVE  Done(a).ok = TRUE /\ Done(a).app = a /\ Failed(a).ok = FALSE /\ Failed(a).app = a
  BY DEF Done, Failed

(* A project is put to the server before the workspace looks for            *)
(* duplicates: if it is there already, its list of programs is new and      *)
(* nothing else is.                                                         *)
LEMMA AddAnchorIsSteady ==
    ASSUME World, NEW a, Steady(a), NEW anchor \in AllAnchors
    PROVE  /\ Steady(AddAnchor(a, anchor).app)
           /\ AddAnchor(a, anchor).ok \in BOOLEAN
           /\ AddAnchor(a, anchor).app.overlay = a.overlay
  <1>1. a \in Apps /\ a.server \in Servers /\ a.workspace \in Seq(AllAnchors)
        /\ a.programs \in Seq(ProgramEntries) /\ a.active \in Shown \cup {None}
    BY FieldsOf DEF Steady
  <1>2. /\ Shows(a.active, a.server, a.entities, a.views, a.trace)
        /\ Anchored(a.workspace, a.server.projects, a.programs, a.active)
    BY DEF Steady
  <1> DEFINE s == AddProject(a.server, anchor.path, tomls)
             longer == Append(a.workspace, anchor)
             told == [a EXCEPT !.server = s, !.programs = ProgramsPayload(s)]
  <1>4. InWorkspace(a, anchor) <=> anchor \in Range(a.workspace)
    BY DEF InWorkspace, Range
  <1>5. /\ longer \in Seq(AllAnchors)
        /\ Range(a.workspace) \subseteq Range(longer) /\ anchor \in Range(longer)
    <2>1. /\ longer \in Seq(AllAnchors) /\ DOMAIN longer = 1 .. Len(a.workspace) + 1
          /\ DOMAIN a.workspace = 1 .. Len(a.workspace) /\ Len(a.workspace) \in Nat
          /\ \A i \in 1 .. Len(a.workspace) : longer[i] = a.workspace[i]
          /\ longer[Len(a.workspace) + 1] = anchor
      BY <1>1, AppendProperties, LenProperties
    <2> HIDE DEF longer
    <2>2. \A i \in 1 .. Len(a.workspace) : i \in DOMAIN longer
      BY <2>1
    <2>3. Len(a.workspace) + 1 \in DOMAIN longer
      BY <2>1
    <2> QED
      BY <2>1, <2>2, <2>3 DEF Range
  <1> HIDE DEF longer
  <1>6. CASE anchor.kind # "project"
    <2>1. AddAnchor(a, anchor) = IF InWorkspace(a, anchor) THEN Failed(a)
                                 ELSE Done([a EXCEPT !.workspace = longer])
      BY <1>6 DEF AddAnchor, longer
    <2>2. Anchored(longer, a.server.projects, a.programs, a.active)
      BY <1>2, <1>5 DEF Anchored
    <2>3. [a EXCEPT !.workspace = longer]
             = [a EXCEPT !.server = a.server, !.programs = a.programs, !.workspace = longer,
                         !.active = a.active]
      BY <1>1 DEF Apps
    <2>4. Steady([a EXCEPT !.workspace = longer])
      <3>1. Steady([a EXCEPT !.server = a.server, !.programs = a.programs, !.workspace = longer,
                           !.active = a.active])
        BY <1>1, <1>2, <1>5, <2>2, ToldIsSteady
      <3> QED
        BY <2>3, <3>1
    <2>5. [a EXCEPT !.workspace = longer].overlay = a.overlay
      BY <1>1 DEF Apps
    <2> QED
      BY <2>1, <2>4, <2>5, Results
  <1>7. CASE anchor.kind = "project" /\ ~ a.server.up
    BY <1>7 DEF AddAnchor, Failed
  <1>8. CASE anchor.kind = "project" /\ a.server.up
    <2>1. anchor.path \in Roots /\ anchor = [kind |-> "project", path |-> anchor.path]
      BY <1>8 DEF AllAnchors
    <2>2. /\ s \in Servers /\ s.up = a.server.up /\ s.active = a.server.active
          /\ \A i \in DOMAIN s.projects : s.projects[i].root = anchor.path
                \/ \E j \in DOMAIN a.server.projects : s.projects[i].root = a.server.projects[j].root
      BY <1>1, <2>1, AddProjectIs
    <2> HIDE DEF s
    <2>3. /\ ProgramsPayload(s) \in Seq(ProgramEntries)
          /\ \A i \in DOMAIN ProgramsPayload(s) : \E j \in DOMAIN s.projects :
                ProgramsPayload(s)[i].root = s.projects[j].root
      BY <2>2, PayloadIs
    <2>4. Shows(a.active, s, a.entities, a.views, a.trace)
      BY <1>2, <2>2 DEF Shows, Outline, Shape
    <2>5. ASSUME NEW w, Range(a.workspace) \subseteq Range(w), anchor \in Range(w)
          PROVE  Anchored(w, s.projects, ProgramsPayload(s), a.active)
      <3>1. \A i \in DOMAIN s.projects :
               [kind |-> "project", path |-> s.projects[i].root] \in Range(w)
        BY <1>2, <2>1, <2>2, <2>5 DEF Anchored
      <3> QED
        BY <1>2, <2>3, <2>5, <3>1 DEF Anchored
    <2>6. told = [a EXCEPT !.server = s, !.programs = ProgramsPayload(s),
                           !.workspace = a.workspace, !.active = a.active]
      BY <1>1 DEF Apps
    <2>7. [told EXCEPT !.workspace = longer]
             = [a EXCEPT !.server = s, !.programs = ProgramsPayload(s), !.workspace = longer,
                         !.active = a.active]
      BY <1>1 DEF Apps
    <2>8. CASE InWorkspace(a, anchor)
      <3>1. AddAnchor(a, anchor) = Failed(told)
        BY <1>8, <2>8 DEF AddAnchor, s
      <3>2. Steady(told)
        <4>1. Anchored(a.workspace, s.projects, ProgramsPayload(s), a.active)
          BY <1>4, <2>5, <2>8
        <4>2. Steady([a EXCEPT !.server = s, !.programs = ProgramsPayload(s),
                             !.workspace = a.workspace, !.active = a.active])
          BY <1>1, <2>2, <2>3, <2>4, <4>1, ToldIsSteady
        <4> QED
          BY <2>6, <4>2
      <3>3. told.overlay = a.overlay
        BY <1>1 DEF Apps
      <3> HIDE DEF told
      <3> QED
        BY <3>1, <3>2, <3>3, Results
    <2>9. CASE ~ InWorkspace(a, anchor)
      <3>1. AddAnchor(a, anchor) = Done([told EXCEPT !.workspace = longer])
        <4>1. told.workspace = a.workspace
          BY <1>1 DEF Apps
        <4> QED
          BY <1>8, <2>9, <4>1 DEF AddAnchor, s, longer
      <3>2. Steady([told EXCEPT !.workspace = longer])
        <4>1. Anchored(longer, s.projects, ProgramsPayload(s), a.active)
          BY <1>5, <2>5
        <4>2. Steady([a EXCEPT !.server = s, !.programs = ProgramsPayload(s), !.workspace = longer,
                             !.active = a.active])
          BY <1>1, <1>5, <2>2, <2>3, <2>4, <4>1, ToldIsSteady
        <4> QED
          BY <2>7, <4>2
      <3>3. [told EXCEPT !.workspace = longer].overlay = a.overlay
        BY <1>1 DEF Apps
      <3> HIDE DEF told
      <3> QED
        BY <3>1, <3>2, <3>3, Results
    <2> QED
      BY <2>8, <2>9
  <1> QED
    BY <1>6, <1>7, <1>8

(* An anchor is removed on both sides, with the active program it held.     *)
LEMMA RemoveAnchorIsSteady ==
    ASSUME NEW a, Steady(a), NEW anchor \in AllAnchors
    PROVE  /\ Steady(RemoveAnchor(a, anchor).app)
           /\ RemoveAnchor(a, anchor).ok \in BOOLEAN
           /\ RemoveAnchor(a, anchor).app.overlay = a.overlay
  <1>1. a \in Apps /\ a.server \in Servers /\ a.workspace \in Seq(AllAnchors)
        /\ a.programs \in Seq(ProgramEntries) /\ a.active \in Shown \cup {None}
    BY FieldsOf DEF Steady
  <1>2. /\ Shows(a.active, a.server, a.entities, a.views, a.trace)
        /\ Anchored(a.workspace, a.server.projects, a.programs, a.active)
    BY DEF Steady
  <1> DEFINE s == RemoveProject(a.server, anchor.path)
             left == Only(a.workspace, Range(a.workspace) \ {anchor})
             told == [a EXCEPT !.server = s, !.programs = ProgramsPayload(s)]
             gone == /\ a.active # None
                     /\ \/ anchor.kind = "project" /\ a.active.root = anchor.path
                        \/ anchor.kind = "program" /\ a.active.root = None
                           /\ a.active.label = anchor.path
             active == IF gone THEN None ELSE a.active
  <1>3. left \in Seq(AllAnchors) /\ Range(left) = Range(a.workspace) \ {anchor}
    BY <1>1, OnlyRange
  <1>4. active \in Shown \cup {None}
    BY <1>1
  <1>5. CASE anchor.kind # "project"
    <2>1. RemoveAnchor(a, anchor) = Done([a EXCEPT !.active = active, !.workspace = left])
      <3>1. [a EXCEPT !.active = active].workspace = a.workspace
        BY <1>1 DEF Apps
      <3> QED
        BY <1>5, <3>1 DEF RemoveAnchor
    <2>2. anchor.kind = "program"
      BY <1>5 DEF AllAnchors
    <2> HIDE DEF left
    <2>3. anchor = [kind |-> "program", path |-> anchor.path]
      BY <2>2 DEF AllAnchors
    <2>4. \A r : [kind |-> "project", path |-> r] # anchor
      BY <2>2
    <2>5. ASSUME active # None
          PROVE  IF active.root = None THEN [kind |-> "program", path |-> active.label] \in Range(left)
                 ELSE [kind |-> "project", path |-> active.root] \in Range(left)
      <3>1. active = a.active /\ ~gone /\ a.active # None
        BY <2>5
      <3>2. CASE a.active.root = None
        <4>1. a.active.label # anchor.path
          BY <2>2, <3>1, <3>2
        <4>2. [kind |-> "program", path |-> a.active.label].path # anchor.path
          BY <4>1
        <4>3. [kind |-> "program", path |-> a.active.label] # anchor
          BY <4>2
        <4>4. [kind |-> "program", path |-> a.active.label] \in Range(a.workspace)
          BY <1>2, <3>1, <3>2 DEF Anchored
        <4> HIDE DEF active
        <4> QED
          BY <1>3, <3>1, <3>2, <4>3, <4>4
      <3>3. CASE a.active.root # None
        <4>1. [kind |-> "project", path |-> a.active.root] \in Range(a.workspace)
          BY <1>2, <3>1, <3>3 DEF Anchored
        <4> HIDE DEF active
        <4> QED
          BY <1>3, <2>4, <3>1, <3>3, <4>1
      <3> QED
        BY <3>2, <3>3
    <2>6. Anchored(left, a.server.projects, a.programs, active)
      <3> HIDE DEF active
      <3> QED
        BY <1>2, <1>3, <2>4, <2>5 DEF Anchored
    <2>7. Shows(active, a.server, a.entities, a.views, a.trace)
      <3>1. active = None \/ active = a.active
        OBVIOUS
      <3> HIDE DEF active
      <3> QED
        BY <1>2, <3>1 DEF Shows
    <2> HIDE DEF active
    <2>8. [a EXCEPT !.active = active, !.workspace = left]
             = [a EXCEPT !.server = a.server, !.programs = a.programs, !.workspace = left,
                         !.active = active]
      BY <1>1 DEF Apps
    <2>9. Steady([a EXCEPT !.server = a.server, !.programs = a.programs, !.workspace = left,
                           !.active = active])
      BY <1>1, <1>3, <1>4, <2>6, <2>7, ToldIsSteady
    <2>10. [a EXCEPT !.active = active, !.workspace = left].overlay = a.overlay
      BY <1>1 DEF Apps
    <2> QED
      BY <2>1, <2>8, <2>9, <2>10, Results
  <1>6. CASE anchor.kind = "project" /\ ~ a.server.up
    BY <1>6 DEF RemoveAnchor, Failed
  <1>7. CASE anchor.kind = "project" /\ a.server.up
    <2>1. anchor.path \in Roots /\ anchor = [kind |-> "project", path |-> anchor.path]
      BY <1>7 DEF AllAnchors
    <2>2. /\ s \in Servers /\ s.up = a.server.up
          /\ s.active = IF a.server.active # None /\ a.server.active.root = anchor.path
                        THEN None ELSE a.server.active
          /\ \A i \in DOMAIN s.projects : s.projects[i].root # anchor.path
                /\ \E j \in DOMAIN a.server.projects : s.projects[i].root = a.server.projects[j].root
      BY <1>1, <2>1, RemoveProjectIs
    <2>3. told.active = a.active /\ told.workspace = a.workspace
      BY <1>1 DEF Apps
    <2>4. RemoveAnchor(a, anchor) = Done([told EXCEPT !.active = active, !.workspace = left])
      <3>1. [told EXCEPT !.active = active].workspace = a.workspace
        BY <1>1 DEF Apps
      <3> QED
        BY <1>7, <2>3, <3>1 DEF RemoveAnchor
    <2>5. active # None => active = a.active /\ a.active # None /\ a.active.root # anchor.path
      BY <1>7
    <2> HIDE DEF s, left, active
    <2>6. /\ ProgramsPayload(s) \in Seq(ProgramEntries)
          /\ \A i \in DOMAIN ProgramsPayload(s) : \E j \in DOMAIN s.projects :
                ProgramsPayload(s)[i].root = s.projects[j].root
      BY <2>2, PayloadIs
    <2>7. Shows(active, s, a.entities, a.views, a.trace)
      <3> SUFFICES ASSUME active # None
                   PROVE  Shows(a.active, s, a.entities, a.views, a.trace) /\ active = a.active
        BY DEF Shows
      <3>1. a.active # None /\ a.active.root # anchor.path /\ active = a.active
        BY <2>5
      <3>2. ASSUME a.server.up PROVE s.active = a.server.active
        <4>1. a.server.active # None /\ a.active = [root |-> a.server.active.root, label |-> a.server.active.label]
          BY <1>2, <3>1, <3>2 DEF Shows
        <4>2. a.active.root = a.server.active.root
          BY <4>1
        <4> QED
          BY <2>2, <3>1, <4>2
      <3> QED
        BY <1>2, <2>2, <3>1, <3>2 DEF Shows, Outline, Shape
    <2>8. Anchored(left, s.projects, ProgramsPayload(s), active)
      <3>1. \A r : r # anchor.path /\ [kind |-> "project", path |-> r] \in Range(a.workspace)
                      => [kind |-> "project", path |-> r] \in Range(left)
        <4> SUFFICES ASSUME NEW r, r # anchor.path PROVE [kind |-> "project", path |-> r] # anchor
          BY <1>3
        <4>1. [kind |-> "project", path |-> r].path = r
          OBVIOUS
        <4> QED
          BY <4>1
      <3>2. \A i \in DOMAIN s.projects :
               [kind |-> "project", path |-> s.projects[i].root] \in Range(left)
        BY <1>2, <2>2, <3>1 DEF Anchored
      <3>3. \A i \in DOMAIN ProgramsPayload(s) :
               [kind |-> "project", path |-> ProgramsPayload(s)[i].root] \in Range(left)
        BY <2>6, <3>2
      <3>4. \A l : [kind |-> "program", path |-> l] # anchor
        BY <1>7
      <3> QED
        BY <1>2, <1>3, <2>5, <3>1, <3>2, <3>3, <3>4 DEF Anchored
    <2>9. [told EXCEPT !.active = active, !.workspace = left]
             = [a EXCEPT !.server = s, !.programs = ProgramsPayload(s), !.workspace = left,
                         !.active = active]
      BY <1>1 DEF Apps
    <2>10. Steady([a EXCEPT !.server = s, !.programs = ProgramsPayload(s), !.workspace = left,
                            !.active = active])
      BY <1>1, <1>3, <1>4, <2>2, <2>6, <2>7, <2>8, ToldIsSteady
    <2>11. [told EXCEPT !.active = active, !.workspace = left].overlay = a.overlay
      BY <1>1 DEF Apps
    <2> HIDE DEF told
    <2> QED
      BY <2>4, <2>9, <2>10, <2>11, Results
  <1> QED
    BY <1>5, <1>6, <1>7

-----------------------------------------------------------------------------
(* Changes of the active program.                                           *)

ToActivate(programs, workspace) ==
    {Routed(i) : i \in DOMAIN programs}
    \cup {Standalone(f) : f \in {g \in Files : [kind |-> "program", path |-> g] \in Range(workspace)}}

(* After a change of program the strip has its welcome tab only.            *)
LEMMA ResetFits ==
    ASSUME NEW b, NEW n
    PROVE  ResetForNewProgram(b) \in Bodies /\ BodyFits(ResetForNewProgram(b), n)
  <1> DEFINE new == ResetForNewProgram(b)
  <1>1. /\ new.tabs = << Welcome >> /\ new.tab = 1 /\ new.focus = "sidebar"
        /\ new.section = "entities" /\ new.cursor = [s \in {"entities", "views"} |-> 1]
        /\ new = [tabs |-> << Welcome >>, tab |-> 1, focus |-> "sidebar",
                  section |-> "entities", cursor |-> [s \in {"entities", "views"} |-> 1]]
    <2> DEFINE c == [s \in {"entities", "views"} |-> 1]
               blank == [tabs |-> << >>, tab |-> 0, focus |-> "sidebar",
                         section |-> "entities", cursor |-> c]
    <2>1. new = [blank EXCEPT !.tabs = << Welcome >>, !.tab = 1]
      BY DEF ResetForNewProgram, Blank
    <2> HIDE DEF c, new
    <2>2. new = [tabs |-> << Welcome >>, tab |-> 1, focus |-> "sidebar",
                 section |-> "entities", cursor |-> c]
      BY <2>1
    <2> QED
      BY <2>2 DEF c
  <1>2. Welcome \in Tabs /\ Welcome.kind = "welcome"
    BY DEF Welcome, Tabs
  <1>3. << Welcome >> \in Seq(Tabs) /\ DOMAIN << Welcome >> = {1} /\ << Welcome >>[1] = Welcome
        /\ << Welcome >> # << >>
    BY <1>2
  <1>4. [s \in {"entities", "views"} |-> 1] \in [Sections -> Nat \ {0}]
    BY DEF Sections
  <1>5. new \in Bodies
    BY <1>1, <1>3, <1>4 DEF Bodies, Sections
  <1> HIDE DEF new
  <1>6. IsInjective(new.tabs)
    BY <1>1, <1>3 DEF IsInjective
  <1>7. \A s \in Sections : new.cursor[s] = 1
    BY <1>1 DEF Sections
  <1>8. BodyFits(new, n)
    BY <1>1, <1>2, <1>3, <1>6, <1>7 DEF BodyFits
  <1> QED
    BY <1>5, <1>8 DEF new

(* What is fetched anew is what is shown.                                   *)
LEMMA FinalizeIsSteady ==
    ASSUME NEW a, Steady(a), NEW t \in Servers, t.active # None, t.projects = a.server.projects,
           IF t.active.root = None
           THEN [kind |-> "program", path |-> t.active.label] \in Range(a.workspace)
           ELSE [kind |-> "project", path |-> t.active.root] \in Range(a.workspace)
    PROVE  /\ Steady(FinalizeSetActive(a, t))
           /\ FinalizeSetActive(a, t).overlay = a.overlay
           /\ FinalizeSetActive(a, t).programs = a.programs
           /\ FinalizeSetActive(a, t).workspace = a.workspace
  <1> DEFINE b == FinalizeSetActive(a, t)
             shown == [root |-> t.active.root, label |-> t.active.label]
  <1>1. a \in Apps /\ Anchored(a.workspace, a.server.projects, a.programs, a.active)
    BY DEF Steady
  <1>2. t.active \in ServerPrograms
    BY DEF Servers
  <1>3. /\ t.active.root \in Roots \cup {None} /\ t.active.label \in Names \cup Files
        /\ t.active.content \in Contents
    BY <1>2 DEF ServerPrograms
  <1>4. Outline(t) \in Nat /\ Shape(t) \in Seq(Views)
    BY <1>3, SessionAssumption DEF Outline, Shape
  <1>5. shown \in Shown
    BY <1>3 DEF Shown
  <1>6. NoTrace \in [Views -> Traces \cup {None}] /\ TraceFits(NoTrace) /\ \A v \in Views : NoTrace[v] = None
    BY DEF NoTrace, TraceFits
  <1>7. ResetForNewProgram(a.body) \in Bodies
    BY ResetFits
  <1>8. /\ b \in Apps /\ b.server = t /\ b.active = shown /\ b.entities = Outline(t)
        /\ b.views = Shape(t) /\ b.body = ResetForNewProgram(a.body) /\ b.trace = NoTrace
        /\ b.workspace = a.workspace /\ b.programs = a.programs /\ b.overlay = a.overlay
    <2> HIDE DEF shown
    <2>1. b = [a EXCEPT !.server = t, !.active = shown, !.entities = Outline(t), !.views = Shape(t),
                        !.body = ResetForNewProgram(a.body), !.trace = NoTrace]
      BY <1>1 DEF FinalizeSetActive, Apps, shown
    <2> HIDE DEF b
    <2> QED
      BY <1>1, <1>4, <1>5, <1>6, <1>7, <2>1 DEF Apps
  <1> HIDE DEF b
  <1>9. BodyFits(b.body, Entries(b))
    BY <1>8, ResetFits
  <1>10. Shows(b.active, b.server, b.entities, b.views, b.trace)
    BY <1>6, <1>8 DEF Shows
  <1>11. Anchored(b.workspace, b.server.projects, b.programs, b.active)
    <2>1. b.active.root = t.active.root /\ b.active.label = t.active.label
      BY <1>8
    <2> HIDE DEF shown
    <2> QED
      BY <1>1, <1>8, <2>1 DEF Anchored
  <1>12. Steady(b)
    BY <1>6, <1>8, <1>9, <1>10, <1>11 DEF Steady
  <1> QED
    BY <1>8, <1>12 DEF b

(* A request that leaves a steady session, whether it succeeds or fails, and *)
(* changes neither the overlay nor what is listed.                          *)
LEMMA AnswerIsSteady ==
    ASSUME World, NEW a, Steady(a), NEW x, NEW done \in BOOLEAN, NEW r,
           r = IF done THEN Done(x) ELSE Failed(a),
           done => /\ Steady(x) /\ x.overlay = a.overlay
                   /\ x.programs = a.programs /\ x.workspace = a.workspace
    PROVE  /\ Steady(r.app) /\ r.ok \in BOOLEAN
           /\ r.app.overlay = a.overlay
           /\ r.app.programs = a.programs
           /\ r.app.workspace = a.workspace
  <1>1. CASE done
    <2>1. r.app = x /\ r.ok = TRUE
      BY <1>1, Results
    <2> QED
      BY <1>1, <2>1
  <1>2. CASE ~ done
    <2>1. r.app = a /\ r.ok = FALSE
      BY <1>2, Results
    <2> QED
      BY <2>1
  <1> QED
    BY <1>1, <1>2

(* A program that is activated is shown; a refusal changes nothing.         *)
LEMMA SetActiveIsSteady ==
    ASSUME World, NEW a, Steady(a), NEW sel \in ToActivate(a.programs, a.workspace)
    PROVE  /\ Steady(SetActive(a, sel).app)
           /\ SetActive(a, sel).ok \in BOOLEAN
           /\ SetActive(a, sel).app.overlay = a.overlay
           /\ SetActive(a, sel).app.programs = a.programs
           /\ SetActive(a, sel).app.workspace = a.workspace
  <1> DEFINE s == a.server
             entry == a.programs[sel.at]
             routed == SetActiveRouted(s, entry.root, entry.name, disk)
             standalone == SetActiveStandalone(s, sel.at, disk)
  <1>1. a \in Apps /\ s \in Servers /\ a.programs \in Seq(ProgramEntries)
        /\ Anchored(a.workspace, s.projects, a.programs, a.active)
    BY FieldsOf DEF Steady
  <1>2. s.up \in BOOLEAN /\ s.projects \in Seq(Projects)
    BY <1>1 DEF Servers
  <1> DEFINE After(r, l, f) == [s EXCEPT !.active = [root |-> r, label |-> l, content |-> disk[f]]]
             Listed(r, l) == IF r = None THEN [kind |-> "program", path |-> l] \in Range(a.workspace)
                             ELSE [kind |-> "project", path |-> r] \in Range(a.workspace)
             Kept(t) == /\ Steady(FinalizeSetActive(a, t))
                        /\ FinalizeSetActive(a, t).overlay = a.overlay
                        /\ FinalizeSetActive(a, t).programs = a.programs
                        /\ FinalizeSetActive(a, t).workspace = a.workspace
  <1>3. ASSUME NEW f \in Files, disk[f] # None, NEW r \in Roots \cup {None}, NEW l \in Names \cup Files,
               Listed(r, l)
        PROVE  Kept(After(r, l, f))
    <2> DEFINE active == [root |-> r, label |-> l, content |-> disk[f]]
               t == After(r, l, f)
    <2>1. active \in ServerPrograms /\ active # None /\ active.root = r /\ active.label = l
      BY <1>3, SessionAssumption DEF World, ServerPrograms
    <2> HIDE DEF active
    <2>2. t \in Servers /\ t.active = active /\ t.projects = s.projects
      <3>1. t = [s EXCEPT !.active = active]
        BY <1>3 DEF active
      <3> QED
        BY <1>1, <2>1, <3>1 DEF Servers
    <2>3. t.active # None /\ t.projects = a.server.projects
      BY <2>1, <2>2
    <2>4. IF t.active.root = None
          THEN [kind |-> "program", path |-> t.active.label] \in Range(a.workspace)
          ELSE [kind |-> "project", path |-> t.active.root] \in Range(a.workspace)
      <3>1. t.active.root = r /\ t.active.label = l
        BY <2>1, <2>2
      <3> QED
        BY <1>3, <3>1
    <2> HIDE DEF t
    <2>5. Kept(t)
      BY <2>2, <2>3, <2>4, FinalizeIsSteady
    <2> QED
      BY <2>5 DEF t
  <1> HIDE DEF Kept, After, Listed
  <1>4. CASE sel \in {Routed(i) : i \in DOMAIN a.programs}
    <2>1. sel.kind = "routed" /\ sel.at \in DOMAIN a.programs
      BY <1>4 DEF Routed
    <2>2. entry \in ProgramEntries /\ [kind |-> "project", path |-> entry.root] \in Range(a.workspace)
      <3>1. DOMAIN a.programs = 1 .. Len(a.programs)
        BY <1>1, LenProperties
      <3> QED
        BY <1>1, <2>1, <3>1, ElementOfSeq DEF Anchored
    <2> DEFINE file == SpecFile(s, entry.root, entry.name)
    <2>3. SetActive(a, sel) = IF s.up /\ file # None /\ disk[file] # None
                              THEN Done(FinalizeSetActive(a, routed)) ELSE Failed(a)
      BY <2>1 DEF SetActive
    <2>4. routed = [s EXCEPT !.active = [root |-> entry.root, label |-> entry.name,
                                         content |-> disk[file]]]
      BY DEF SetActiveRouted
    <2>5. entry.root \in Roots /\ entry.root # None /\ entry.name \in Names
      BY <2>2, SessionAssumption DEF ProgramEntries
    <2> HIDE DEF entry
    <2>6. file \in Files \cup {None}
      BY <1>1, SpecFileIs
    <2> HIDE DEF file
    <2>7. ASSUME s.up /\ file # None /\ disk[file] # None PROVE Kept(routed)
      <3>1. file \in Files /\ disk[file] # None
        BY <2>6, <2>7
      <3>2. entry.root \in Roots \cup {None} /\ entry.name \in Names \cup Files
        BY <2>5
      <3>3. Listed(entry.root, entry.name)
        BY <2>2, <2>5 DEF Listed
      <3>4. routed = After(entry.root, entry.name, file)
        BY <2>4 DEF After
      <3> HIDE DEF routed, s
      <3> QED
        BY <1>3, <3>1, <3>2, <3>3, <3>4
    <2> HIDE DEF routed, s
    <2>8. (s.up /\ file # None /\ disk[file] # None) \in BOOLEAN
      OBVIOUS
    <2> QED
      BY <2>3, <2>7, <2>8, AnswerIsSteady DEF Kept
  <1>5. CASE sel \in {Standalone(f) : f \in {g \in Files :
                                         [kind |-> "program", path |-> g] \in Range(a.workspace)}}
    <2>1. /\ sel.kind = "standalone" /\ sel.kind # "routed" /\ sel.at \in Files
          /\ [kind |-> "program", path |-> sel.at] \in Range(a.workspace)
      <3>1. PICK f \in Files : [kind |-> "program", path |-> f] \in Range(a.workspace)
                               /\ sel = Standalone(f)
        BY <1>5
      <3>2. sel.kind = "standalone" /\ sel.at = f
        BY <3>1 DEF Standalone
      <3> QED
        BY <3>1, <3>2
    <2>2. SetActive(a, sel) = IF s.up /\ sel.at # None /\ disk[sel.at] # None
                              THEN Done(FinalizeSetActive(a, standalone)) ELSE Failed(a)
      BY <2>1 DEF SetActive
    <2>3. standalone = [s EXCEPT !.active = [root |-> None, label |-> sel.at,
                                             content |-> disk[sel.at]]]
      BY DEF SetActiveStandalone
    <2>4. ASSUME s.up /\ sel.at # None /\ disk[sel.at] # None PROVE Kept(standalone)
      <3>1. sel.at \in Names \cup Files /\ None \in Roots \cup {None}
        BY <2>1
      <3>2. Listed(None, sel.at)
        BY <2>1 DEF Listed
      <3>3. standalone = After(None, sel.at, sel.at)
        BY <2>3 DEF After
      <3> HIDE DEF routed, standalone, s
      <3> QED
        BY <1>3, <2>1, <2>4, <3>1, <3>2, <3>3
    <2> HIDE DEF standalone, s, entry
    <2>5. (s.up /\ sel.at # None /\ disk[sel.at] # None) \in BOOLEAN
      OBVIOUS
    <2> QED
      BY <2>2, <2>4, <2>5, AnswerIsSteady DEF Kept
  <1> QED
    BY <1>4, <1>5 DEF ToActivate

(* The only program there is can be activated.                              *)
LEMMA AutoSelectIsSteady ==
    ASSUME World, NEW a, Steady(a)
    PROVE  /\ Steady(MaybeAutoSelect(a).app)
           /\ MaybeAutoSelect(a).ok \in BOOLEAN
           /\ MaybeAutoSelect(a).app.overlay = a.overlay
           /\ MaybeAutoSelect(a).app.programs = a.programs
           /\ MaybeAutoSelect(a).app.workspace = a.workspace
  <1> DEFINE files == Anchors(a.workspace, "program")
             sel == IF files = << >> THEN Routed(1) ELSE Standalone(files[1].path)
  <1>1. a.workspace \in Seq(AllAnchors) /\ a.programs \in Seq(ProgramEntries)
    BY FieldsOf DEF Steady
  <1>2. /\ files \in Seq(AllAnchors)
        /\ \A x \in Range(files) : x \in Range(a.workspace) /\ x.kind = "program"
    BY <1>1, OnlyRange DEF Anchors
  <1>3. MaybeAutoSelect(a) = IF a.active # None \/ Len(a.programs) + Len(files) # 1 THEN Failed(a)
                             ELSE SetActive(a, sel)
    BY DEF MaybeAutoSelect
  <1> HIDE DEF files
  <1>4. CASE Len(a.programs) + Len(files) = 1
    <2>1. ASSUME files = << >> PROVE sel \in ToActivate(a.programs, a.workspace)
      <3>1. Len(a.programs) = 1 /\ DOMAIN a.programs = 1 .. Len(a.programs)
        BY <1>1, <1>4, <2>1, LenProperties
      <3>2. sel \in ToActivate(a.programs, a.workspace)
        BY <2>1, <3>1 DEF ToActivate
      <3> QED
        BY <3>2
    <2>2. ASSUME files # << >> PROVE sel \in ToActivate(a.programs, a.workspace)
      <3>1. 1 \in DOMAIN files /\ files[1] \in Range(files) /\ files[1] \in AllAnchors
        <4>1. DOMAIN files = 1 .. Len(files) /\ Len(files) \in Nat \ {0}
          BY <1>2, <2>2, EmptySeq, LenProperties
        <4>2. 1 \in 1 .. Len(files)
          BY <4>1
        <4> QED
          BY <1>2, <4>1, <4>2, ElementOfSeq DEF Range
      <3>2. files[1].kind = "program" /\ files[1] \in Range(a.workspace)
        BY <1>2, <3>1
      <3>3. files[1].path \in Files /\ files[1] = [kind |-> "program", path |-> files[1].path]
        BY <3>1, <3>2 DEF AllAnchors
      <3>4. sel \in ToActivate(a.programs, a.workspace)
        BY <2>2, <3>2, <3>3 DEF ToActivate
      <3> QED
        BY <3>4
    <2>3. sel \in ToActivate(a.programs, a.workspace)
      BY <2>1, <2>2
    <2> HIDE DEF sel
    <2>4. /\ Steady(SetActive(a, sel).app) /\ SetActive(a, sel).ok \in BOOLEAN
          /\ SetActive(a, sel).app.overlay = a.overlay
          /\ SetActive(a, sel).app.programs = a.programs
          /\ SetActive(a, sel).app.workspace = a.workspace
      BY <2>3, SetActiveIsSteady
    <2>5. CASE a.active = None
      <3>1. MaybeAutoSelect(a) = SetActive(a, sel)
        BY <1>3, <1>4, <2>5
      <3> QED
        BY <2>4, <3>1
    <2>6. CASE a.active # None
      <3>1. MaybeAutoSelect(a) = Failed(a)
        BY <1>3, <2>6
      <3> QED
        BY <3>1, Results
    <2> QED
      BY <2>5, <2>6
  <1>5. CASE Len(a.programs) + Len(files) # 1
    BY <1>3, <1>5, Results
  <1> QED
    BY <1>4, <1>5

-----------------------------------------------------------------------------
(* The rows of the picker.                                                  *)

AllBuilt(programs, workspace) ==
    [items : Seq(AllRows), sels : Seq(ToActivate(programs, workspace))]

(* A row has a label the server could answer with.                          *)
LEMMA LabelIs ==
    ASSUME NEW programs \in Seq(ProgramEntries), NEW w, NEW sel \in ToActivate(programs, w)
    PROVE  Label(programs, sel) \in Names \cup Files
  <1>1. CASE \E i \in DOMAIN programs : sel = Routed(i)
    <2>1. PICK i \in DOMAIN programs : sel = Routed(i)
      BY <1>1
    <2>2. sel.kind = "routed" /\ sel.at = i
      BY <2>1 DEF Routed
    <2>3. programs[i] \in ProgramEntries
      BY <2>1, LenProperties, ElementOfSeq
    <2> QED
      BY <2>2, <2>3 DEF Label, ProgramEntries
  <1>2. CASE \E f \in Files : sel = Standalone(f)
    BY <1>2 DEF Label, Standalone
  <1> QED
    BY <1>1, <1>2 DEF ToActivate

(* The programs of a project can be activated.                              *)
LEMMA ProgramsOfIs ==
    ASSUME NEW programs \in Seq(ProgramEntries), NEW w, NEW root
    PROVE  ProgramsOf(programs, root) \in Seq(ToActivate(programs, w))
  <1> DEFINE n == Len(programs)
             all == [i \in DOMAIN programs |-> i]
             own == Only(all, {i \in DOMAIN programs : programs[i].root = root})
  <1>1. n \in Nat /\ DOMAIN programs = 1 .. n
    BY LenProperties
  <1>2. all \in Seq(1 .. n)
    <2>1. \A i \in 1 .. n : i \in 1 .. n
      OBVIOUS
    <2> HIDE DEF n
    <2>2. [i \in 1 .. n |-> i] \in Seq(1 .. n)
      BY <1>1, <2>1, IsASeq
    <2> QED
      BY <1>1, <2>2
  <1> HIDE DEF all
  <1>3. own \in Seq(1 .. n)
    BY <1>2, OnlyRange
  <1>4. ProgramsOf(programs, root) = [k \in DOMAIN own |-> Routed(own[k])]
    BY DEF ProgramsOf, all
  <1> HIDE DEF own
  <1>5. Len(own) \in Nat /\ DOMAIN own = 1 .. Len(own) /\ \A k \in 1 .. Len(own) : own[k] \in 1 .. n
    BY <1>3, LenProperties, ElementOfSeq
  <1>6. \A k \in 1 .. Len(own) : Routed(own[k]) \in ToActivate(programs, w)
    BY <1>1, <1>5 DEF ToActivate
  <1>7. [k \in 1 .. Len(own) |-> Routed(own[k])] \in Seq(ToActivate(programs, w))
    BY <1>5, <1>6, IsASeq
  <1> QED
    BY <1>4, <1>5, <1>7

(* The rows of one more anchor.                                             *)
LEMMA AddRowsIs ==
    ASSUME NEW programs \in Seq(ProgramEntries), NEW w \in Seq(AllAnchors),
           NEW anchor \in Range(w), NEW built \in AllBuilt(programs, w)
    PROVE  AddRows(built, anchor, programs) \in AllBuilt(programs, w)
  <1> DEFINE Sels == ToActivate(programs, w)
             project == anchor.kind = "project"
             at == Len(built.items) + 1
             own == IF project THEN ProgramsOf(programs, anchor.path)
                    ELSE << Standalone(anchor.path) >>
             head == IF project THEN << Picker!Header(anchor.path, at) >> ELSE << >>
             row(i) == Picker!Selectable(Label(programs, own[i]), at, Len(built.sels) + i)
             rows == [i \in DOMAIN own |-> row(i)]
             body == IF own = << >> THEN << Picker!Placeholder(at) >> ELSE rows
  <1>1. built.items \in Seq(AllRows) /\ built.sels \in Seq(Sels)
    BY DEF AllBuilt
  <1>2. anchor \in AllAnchors
    BY RangeOfSeq
  <1>3. at \in Nat /\ Len(built.sels) \in Nat
    BY <1>1, LenProperties
  <1>4. own \in Seq(Sels)
    <2>1. CASE project
      BY <2>1, ProgramsOfIs
    <2>2. CASE ~project
      <3>1. anchor = [kind |-> "program", path |-> anchor.path] /\ anchor.path \in Files
        BY <1>2, <2>2 DEF AllAnchors
      <3>2. Standalone(anchor.path) \in Sels
        BY <3>1 DEF ToActivate
      <3> QED
        BY <2>2, <3>2
    <2> QED
      BY <2>1, <2>2
  <1>5. head \in Seq(AllRows)
    <2>1. CASE project
      <3>1. anchor.path \in Roots
        BY <1>2, <2>1 DEF AllAnchors
      <3>2. Picker!Header(anchor.path, at) \in AllRows
        BY <1>3, <3>1 DEF Picker!Header, AllRows
      <3> QED
        BY <2>1, <3>2
    <2>2. CASE ~project
      BY <2>2
    <2> QED
      BY <2>1, <2>2
  <1>6. << Picker!Placeholder(at) >> \in Seq(AllRows)
    <2>1. Picker!Placeholder(at) \in AllRows
      BY <1>3 DEF Picker!Placeholder, AllRows
    <2> QED
      BY <2>1
  <1>7. AddRows(built, anchor, programs) =
           [items |-> built.items \o head \o body, sels |-> built.sels \o own]
    BY DEF AddRows
  <1> HIDE DEF own, head, at
  <1>8. DOMAIN own = 1 .. Len(own) /\ Len(own) \in Nat
    BY <1>4, LenProperties
  <1>9. \A i \in 1 .. Len(own) : row(i) \in AllRows
    <2>1. ASSUME NEW i \in 1 .. Len(own) PROVE row(i) \in AllRows
      <3>1. Label(programs, own[i]) \in Names \cup Files
        BY <1>4, LabelIs, ElementOfSeq
      <3>2. Len(built.sels) + i \in Nat
        BY <1>3, <1>8
      <3> QED
        BY <1>3, <3>1, <3>2 DEF Picker!Selectable, AllRows, SelectableRows
    <2> QED
      BY <2>1
  <1>10. rows \in Seq(AllRows)
    <2> HIDE DEF row
    <2>1. [i \in 1 .. Len(own) |-> row(i)] \in Seq(AllRows)
      BY <1>8, <1>9, IsASeq
    <2> QED
      BY <1>8, <2>1
  <1>11. body \in Seq(AllRows)
    <2> HIDE DEF rows
    <2> QED
      BY <1>6, <1>10
  <1> HIDE DEF body
  <1>12. built.items \o head \o body \in Seq(AllRows) /\ built.sels \o own \in Seq(Sels)
    BY <1>1, <1>4, <1>5, <1>11, ConcatProperties
  <1> QED
    BY <1>7, <1>12 DEF AllBuilt

(* What the picker is built from: rows, and programs that can be activated. *)
LEMMA RowsAre ==
    ASSUME NEW programs \in Seq(ProgramEntries), NEW w \in Seq(AllAnchors)
    PROVE  Rows(programs, w) \in AllBuilt(programs, w)
  <1> DEFINE anchors == Anchors(w, "project") \o Anchors(w, "program")
             n == Len(anchors)
             T == AllBuilt(programs, w)
             b == [items |-> << >>, sels |-> << >>]
             F == [k \in 1 .. n |-> [x \in T |-> AddRows(x, anchors[k], programs)]]
  <1>1. anchors \in Seq(Range(w)) /\ n \in Nat /\ DOMAIN anchors = 1 .. n
    <2>1. w \in Seq(Range(w))
      BY SeqOfRange
    <2>2. Anchors(w, "project") \in Seq(Range(w)) /\ Anchors(w, "program") \in Seq(Range(w))
      BY <2>1, OnlyRange DEF Anchors
    <2>3. anchors \in Seq(Range(w))
      BY <2>2, ConcatProperties
    <2> QED
      BY <2>3, LenProperties
  <1>2. b \in T
    BY DEF AllBuilt
  <1> HIDE DEF T, b, anchors
  <1>3. \A k \in 1 .. n : anchors[k] \in Range(w)
    BY <1>1, ElementOfSeq
  <1> HIDE DEF n
  <1>4. \A k \in 1 .. n : \A x \in T : AddRows(x, anchors[k], programs) \in T
    BY <1>3, AddRowsIs DEF T
  <1>5. F \in [1 .. n -> [T -> T]]
    BY <1>4
  <1>6. PICK g : IteratesTo(g, n, T, b, F)
    <2> HIDE DEF F
    <2> QED
      BY <1>1, <1>2, <1>5, BoundedIterationExists
  <1>7. g \in [0 .. n -> T] /\ g[0] = b
    BY <1>6 DEF IteratesTo
  <1>8. \A k \in 1 .. n : k - 1 \in 0 .. n /\ k \in 0 .. n /\ k # 0
    BY <1>1
  <1>9. \A k \in 1 .. n : g[k] = AddRows(g[k - 1], anchors[k], programs)
    BY <1>6, <1>7, <1>8 DEF IteratesTo
  <1>10. g = [k \in 0 .. n |-> IF k = 0 THEN b ELSE AddRows(g[k - 1], anchors[k], programs)]
    <2>1. \A k \in 0 .. n : k = 0 \/ k \in 1 .. n
      BY <1>1
    <2>2. \A k \in 0 .. n : g[k] = IF k = 0 THEN b ELSE AddRows(g[k - 1], anchors[k], programs)
      BY <1>7, <1>8, <1>9, <2>1
    <2>3. g = [k \in 0 .. n |-> g[k]]
      BY <1>7
    <2> QED
      BY <2>2, <2>3
  <1> DEFINE f == CHOOSE f : f = [k \in 0 .. n |-> IF k = 0 THEN b
                                                 ELSE AddRows(f[k - 1], anchors[k], programs)]
  <1>11. f = [k \in 0 .. n |-> IF k = 0 THEN b ELSE AddRows(f[k - 1], anchors[k], programs)]
    BY <1>10
  <1>12. Rows(programs, w) = f[n]
    BY DEF Rows, b, n, anchors
  <1> HIDE DEF f
  <1>13. \A k \in 1 .. n : f[k] = AddRows(f[k - 1], anchors[k], programs)
    BY <1>8, <1>11
  <1>14. f[0] = b
    BY <1>1, <1>11
  <1> DEFINE P == {k \in Nat : k <= n => f[k] \in T}
  <1>15. 0 \in P
    BY <1>2, <1>14
  <1>16. ASSUME NEW k \in Nat, k \in P PROVE k + 1 \in P
    <2> SUFFICES ASSUME k + 1 <= n PROVE f[k + 1] \in T
      OBVIOUS
    <2>1. k + 1 \in 1 .. n /\ f[k] \in T /\ k + 1 - 1 = k
      BY <1>1, <1>16
    <2>2. f[k + 1] = AddRows(f[k], anchors[k + 1], programs)
      BY <1>13, <2>1
    <2> QED
      BY <1>4, <2>1, <2>2
  <1>17. n \in P
    <2> HIDE DEF P
    <2> QED
      BY <1>1, <1>15, <1>16, NatSetInduction
  <1> QED
    BY <1>1, <1>12, <1>17 DEF T

-----------------------------------------------------------------------------
(* The cursor of the picker.                                                *)

(* The picker selects as its user does.                                     *)
LEMMA PickersOnly ==
    ASSUME NEW s, NEW S
    PROVE  Picker!Only(s, S) = Only(s, S)
  BY DEF Picker!Only, Only

(* What the filter keeps are rows of the picker.                            *)
LEMMA FilteredIs ==
    ASSUME NEW T, NEW items \in Seq(T), NEW input
    PROVE  /\ Picker!Filtered(items, input) \in Seq(DOMAIN items)
           /\ DOMAIN Picker!Filtered(items, input) = 1 .. Len(Picker!Filtered(items, input))
           /\ Len(Picker!Filtered(items, input)) \in Nat
           /\ \A i \in DOMAIN Picker!Filtered(items, input) :
                 Picker!Filtered(items, input)[i] \in DOMAIN items
  <1> DEFINE n == Len(items)
             all == [i \in DOMAIN items |-> i]
  <1>1. n \in Nat /\ DOMAIN items = 1 .. n
    BY LenProperties
  <1>2. all \in Seq(1 .. n)
    <2> HIDE DEF n
    <2>1. \A i \in 1 .. n : i \in 1 .. n
      OBVIOUS
    <2>2. [i \in 1 .. n |-> i] \in Seq(1 .. n)
      BY <1>1, <2>1, IsASeq
    <2> QED
      BY <1>1, <2>2
  <1> HIDE DEF all
  <1>3. \A S : Only(all, S) \in Seq(1 .. n)
    BY <1>2, OnlyRange
  <1>4. Picker!Filtered(items, input) \in Seq(1 .. n)
    <2> DEFINE hit(it) == it.kind = "selectable" /\ it.label \in input
               kept(it) ==
                 \/ input = None
                 \/ input # None /\ hit(it)
                 \/ /\ input # None /\ it.kind = "header"
                    /\ \E j \in DOMAIN items : hit(items[j]) /\ items[j].group = it.group
               S == {i \in DOMAIN items : kept(items[i])}
    <2>1. Picker!Filtered(items, input) = Only(all, S)
      <3>1. Picker!Filtered(items, input) = Picker!Only(all, S)
        BY DEF Picker!Filtered, all
      <3> HIDE DEF S
      <3> QED
        BY <3>1, PickersOnly
    <2> HIDE DEF S
    <2> QED
      BY <1>3, <2>1
  <1> DEFINE rows == Picker!Filtered(items, input)
  <1> HIDE DEF rows, n
  <1>5. rows \in Seq(1 .. n)
    BY <1>4 DEF rows
  <1>6. DOMAIN rows = 1 .. Len(rows) /\ Len(rows) \in Nat
        /\ \A i \in DOMAIN rows : rows[i] \in 1 .. n
    BY <1>5, LenProperties, ElementOfSeq
  <1> QED
    BY <1>1, <1>5, <1>6 DEF rows

(* A cursor that is moved to c is on a selectable row when there is one.    *)
LEMMA MovedIs ==
    ASSUME NEW p \in Pickers, NEW c \in Nat, Candidates(p) # {} => c \in Candidates(p)
    PROVE  LET q == [p EXCEPT !.cursor = c] IN
           /\ q \in Pickers /\ q.items = p.items
           /\ Candidates(q) # {} => q.cursor \in Candidates(q)
  <1> DEFINE q == [p EXCEPT !.cursor = c]
  <1>1. q \in Pickers /\ q.items = p.items /\ q.input = p.input /\ q.cursor = c
    BY DEF Pickers
  <1> HIDE DEF q
  <1>2. Candidates(q) = Candidates(p)
    BY <1>1 DEF Candidates
  <1>3. Candidates(q) # {} => q.cursor \in Candidates(q)
    BY <1>1, <1>2
  <1> QED
    BY <1>1, <1>3 DEF q

(* The rows a cursor may be on are positions in what the filter keeps.      *)
LEMMA CandidatesAre ==
    ASSUME NEW p \in Pickers
    PROVE  /\ Candidates(p) \subseteq 1 .. Len(Picker!Filtered(p.items, p.input))
           /\ Len(Picker!Filtered(p.items, p.input)) \in Nat
  <1>1. p.items \in Seq(AllRows)
    BY DEF Pickers
  <1> QED
    BY <1>1, FilteredIs DEF Candidates

(* Wherever it comes from, the cursor lands on a selectable row if there is *)
(* one.                                                                     *)
LEMMA SnapLands ==
    ASSUME NEW p \in Pickers, NEW from \in Nat, NEW forward \in BOOLEAN
    PROVE  /\ Picker!Snap(p, from, forward) \in Pickers
           /\ Picker!Snap(p, from, forward).items = p.items
           /\ Candidates(Picker!Snap(p, from, forward)) # {}
                 => Picker!Snap(p, from, forward).cursor \in Candidates(Picker!Snap(p, from, forward))
  <1> DEFINE n == Len(Picker!Filtered(p.items, p.input))
             sel == Candidates(p)
             start == IF from > n THEN n ELSE from
             above == {i \in sel : i <= start}
             below == {i \in sel : i >= start}
             first(S) == CHOOSE i \in S : \A j \in S : i <= j
             last(S) == CHOOSE i \in S : \A j \in S : j <= i
             c == CASE sel = {} -> 1
                    [] sel # {} /\ forward -> IF below # {} THEN first(below) ELSE last(above)
                    [] sel # {} /\ ~forward -> IF above # {} THEN last(above) ELSE first(below)
  <1>1. Picker!Snap(p, from, forward) = [p EXCEPT !.cursor = c]
    BY DEF Picker!Snap, Candidates
  <1>2. sel \subseteq 1 .. n /\ n \in Nat /\ start \in Nat
    BY CandidatesAre
  <1> HIDE DEF n
  <1>3. ASSUME NEW S, S \subseteq sel, S # {} PROVE first(S) \in sel /\ last(S) \in sel
    <2>1. S \subseteq 0 .. n
      BY <1>2, <1>3
    <2>2. \E i \in S : \A j \in S : i <= j
      BY <1>2, <1>3, <2>1, FirstAndLast
    <2>3. \E i \in S : \A j \in S : j <= i
      BY <1>2, <1>3, <2>1, FirstAndLast
    <2>4. first(S) \in S
      BY <2>2
    <2>5. last(S) \in S
      BY <2>3
    <2> HIDE DEF first, last
    <2> QED
      BY <1>3, <2>4, <2>5
  <1>4. sel # {} => above # {} \/ below # {}
    BY <1>2
  <1> HIDE DEF first, last
  <1>5. above # {} => last(above) \in sel
    BY <1>3
  <1>6. below # {} => first(below) \in sel
    BY <1>3
  <1> HIDE DEF above, below, sel, start
  <1>7. sel # {} => c \in sel
    BY <1>4, <1>5, <1>6
  <1>8. c \in Nat
    <2>1. CASE sel = {}
      <3>1. c = 1
        BY <2>1
      <3> HIDE DEF c
      <3> QED
        BY <3>1
    <2>2. CASE sel # {}
      <3> HIDE DEF c
      <3>1. c \in sel
        BY <1>7, <2>2
      <3>2. c \in 1 .. n
        BY <1>2, <3>1
      <3> QED
        BY <1>2, <3>2
    <2> QED
      BY <2>1, <2>2
  <1> HIDE DEF c
  <1>9. Candidates(p) # {} => c \in Candidates(p)
    BY <1>7 DEF sel
  <1> QED
    BY <1>1, <1>8, <1>9, MovedIs

(* So it does when the picker is opened or its rows are replaced.           *)
LEMMA PlaceLands ==
    ASSUME NEW p \in Pickers, NEW active,
           active \in DOMAIN p.items => p.items[active].kind = "selectable"
    PROVE  /\ Picker!PlaceCursor(p, active) \in Pickers
           /\ Picker!PlaceCursor(p, active).items = p.items
           /\ Candidates(Picker!PlaceCursor(p, active)) # {}
                 => Picker!PlaceCursor(p, active).cursor \in Candidates(Picker!PlaceCursor(p, active))
  <1> DEFINE rows == Picker!Filtered(p.items, p.input)
             at == {i \in DOMAIN rows : rows[i] = active}
             c == CHOOSE i \in at : TRUE
  <1>1. CASE at = {}
    <2>1. Picker!PlaceCursor(p, active) = Picker!Snap(p, 1, TRUE)
      BY <1>1 DEF Picker!PlaceCursor
    <2> QED
      BY <2>1, SnapLands
  <1>2. CASE at # {}
    <2>1. Picker!PlaceCursor(p, active) = [p EXCEPT !.cursor = c]
      BY <1>2 DEF Picker!PlaceCursor
    <2>2. c \in at
      BY <1>2
    <2>3. p.items \in Seq(AllRows)
      BY DEF Pickers
    <2>4. DOMAIN rows = 1 .. Len(rows) /\ \A i \in DOMAIN rows : rows[i] \in DOMAIN p.items
      BY <2>3, FilteredIs
    <2> HIDE DEF c
    <2>5. c \in DOMAIN rows /\ rows[c] = active
      BY <2>2
    <2>6. p.items[rows[c]].kind = "selectable"
      BY <2>4, <2>5
    <2>7. c \in Candidates(p)
      BY <2>5, <2>6 DEF Candidates
    <2>8. c \in Nat
      BY <2>4, <2>5
    <2> QED
      BY <2>1, <2>7, <2>8, MovedIs
  <1> QED
    BY <1>1, <1>2

(* The row of the active program can be chosen.                             *)
LEMMA ActiveItemIs ==
    ASSUME NEW a \in Apps, NEW i \in DOMAIN BuildProgramItems(a).items, i = ActiveItem(a)
    PROVE  BuildProgramItems(a).items[i].kind = "selectable"
  <1> DEFINE built == BuildProgramItems(a)
             rows == {j \in DOMAIN built.items :
                        built.items[j].data > 0 /\ IsActive(a, built.sels[built.items[j].data])}
  <1>1. built \in AllBuilt(a.programs, a.workspace)
    BY FieldsOf, RowsAre DEF BuildProgramItems
  <1>2. built.items \in Seq(AllRows) /\ DOMAIN built.items = 1 .. Len(built.items)
        /\ Len(built.items) \in Nat
    BY <1>1, LenProperties DEF AllBuilt
  <1>3. ActiveItem(a) = IF rows = {} THEN 0 ELSE CHOOSE j \in rows : \A k \in rows : j <= k
    BY DEF ActiveItem
  <1> HIDE DEF built
  <1>4. rows \subseteq 0 .. Len(built.items) /\ 0 \notin DOMAIN built.items
    BY <1>2
  <1>5. rows # {}
    BY <1>3, <1>4 DEF built
  <1>6. \E j \in rows : \A k \in rows : j <= k
    <2> HIDE DEF rows
    <2> QED
      BY <1>2, <1>4, <1>5, FirstAndLast
  <1>7. i \in rows
    <2> HIDE DEF rows
    <2> QED
      BY <1>3, <1>5, <1>6
  <1>8. built.items[i] \in AllRows /\ built.items[i].data > 0
    BY <1>2, <1>7, ElementOfSeq
  <1>9. built.items[i].kind = "selectable"
    BY <1>8 DEF AllRows, SelectableRows
  <1> QED
    BY <1>9 DEF built

-----------------------------------------------------------------------------
(* Overlays.                                                                *)

(* An overlay covers the screen and changes nothing under it.               *)
LEMMA OverlayIsSteady ==
    ASSUME NEW a, Steady(a), NEW o \in PlainOverlays \cup Pickers
    PROVE  /\ Steady([a EXCEPT !.overlay = o])
           /\ [a EXCEPT !.overlay = o].overlay = o
           /\ [a EXCEPT !.overlay = o].programs = a.programs
           /\ [a EXCEPT !.overlay = o].workspace = a.workspace
           /\ [a EXCEPT !.overlay = o].active = a.active
  <1> DEFINE b == [a EXCEPT !.overlay = o]
  <1>1. a \in Apps
    BY DEF Steady
  <1>2. /\ b \in Apps /\ b.server = a.server /\ b.programs = a.programs /\ b.workspace = a.workspace
        /\ b.active = a.active /\ b.entities = a.entities /\ b.views = a.views
        /\ b.body = a.body /\ b.trace = a.trace /\ b.overlay = o
    BY <1>1 DEF Apps
  <1> HIDE DEF b
  <1>3. Entries(b) = Entries(a)
    BY <1>2 DEF Entries
  <1>4. Steady(b)
    BY <1>2, <1>3 DEF Steady
  <1> QED
    BY <1>2, <1>4 DEF b

(* An overlay without a list, or none.                                      *)
LEMMA PlainIsGood ==
    ASSUME NEW a, Steady(a), NEW k \in {"none", "open", "help", "error"}
    PROVE  /\ Good([a EXCEPT !.overlay = [kind |-> k]])
           /\ [a EXCEPT !.overlay = [kind |-> k]].overlay = [kind |-> k]
           /\ [a EXCEPT !.overlay = [kind |-> k]].active = a.active
  <1> DEFINE o == [kind |-> k]
  <1>1. o \in PlainOverlays /\ o.kind # "picker"
    BY DEF PlainOverlays
  <1> HIDE DEF o
  <1>2. Good([a EXCEPT !.overlay = o]) /\ [a EXCEPT !.overlay = o].overlay = o
        /\ [a EXCEPT !.overlay = o].active = a.active
    BY <1>1, OverlayIsSteady DEF Good, InSync
  <1> QED
    BY <1>2 DEF o

(* A picker whose rows are current and whose cursor is on one of them.      *)
LEMMA PickerIsGood ==
    ASSUME NEW a, Steady(a), NEW p \in Pickers, p.items = BuildProgramItems(a).items,
           Candidates(p) # {} => p.cursor \in Candidates(p)
    PROVE  Good([a EXCEPT !.overlay = p])
  <1> DEFINE b == [a EXCEPT !.overlay = p]
  <1>1. Steady(b) /\ b.overlay = p /\ b.programs = a.programs /\ b.workspace = a.workspace
    BY OverlayIsSteady
  <1> HIDE DEF b
  <1>2. InSync(b.overlay, b.programs, b.workspace)
    BY <1>1 DEF InSync, BuildProgramItems
  <1> QED
    BY <1>1, <1>2 DEF Good, b

(* The rows of a picker are rows.                                           *)
LEMMA ItemsAre ==
    ASSUME NEW a \in Apps
    PROVE  BuildProgramItems(a).items \in Seq(AllRows)
  BY FieldsOf, RowsAre DEF BuildProgramItems, AllBuilt

(* A picker that is opened.                                                 *)
LEMMA OpenPickerIsGood ==
    ASSUME NEW a, Steady(a)
    PROVE  /\ Good(OpenPicker(a))
           /\ OpenPicker(a).overlay.kind = "picker"
           /\ OpenPicker(a).active = a.active
  <1> DEFINE items == BuildProgramItems(a).items
             p == [kind |-> "picker", items |-> items, input |-> None, cursor |-> 1]
             q == Picker!PlaceCursor(p, ActiveItem(a))
  <1>1. a \in Apps
    BY DEF Steady
  <1>2. items \in Seq(AllRows)
    BY <1>1, ItemsAre
  <1>3. ActiveItem(a) \in DOMAIN items => items[ActiveItem(a)].kind = "selectable"
    BY <1>1, ActiveItemIs
  <1>4. OpenPicker(a) = [a EXCEPT !.overlay = q]
    BY DEF OpenPicker, Picker!NewPicker
  <1> HIDE DEF items
  <1>5. p \in Pickers /\ p.items = items
    BY <1>2 DEF Pickers
  <1> HIDE DEF p
  <1>6. q \in Pickers /\ q.items = items /\ (Candidates(q) # {} => q.cursor \in Candidates(q))
    BY <1>3, <1>5, PlaceLands
  <1> HIDE DEF q
  <1>7. Good([a EXCEPT !.overlay = q])
    BY <1>6, PickerIsGood DEF items
  <1>8. [a EXCEPT !.overlay = q].overlay = q /\ [a EXCEPT !.overlay = q].active = a.active
    BY <1>6, OverlayIsSteady
  <1>9. q.kind = "picker"
    BY <1>6 DEF Pickers
  <1> QED
    BY <1>4, <1>7, <1>8, <1>9

(* A picker whose rows are replaced.                                        *)
LEMMA RefreshPickerIsGood ==
    ASSUME NEW a, Steady(a), a.overlay \in Pickers
    PROVE  Good(RefreshPicker(a))
  <1> DEFINE items == BuildProgramItems(a).items
             p == [a.overlay EXCEPT !.items = items]
             q == Picker!PlaceCursor(p, ActiveItem(a))
  <1>1. a \in Apps
    BY DEF Steady
  <1>2. items \in Seq(AllRows)
    BY <1>1, ItemsAre
  <1>3. ActiveItem(a) \in DOMAIN items => items[ActiveItem(a)].kind = "selectable"
    BY <1>1, ActiveItemIs
  <1>4. RefreshPicker(a) = [a EXCEPT !.overlay = q]
    BY DEF RefreshPicker, Picker!Refresh
  <1> HIDE DEF items
  <1>5. p \in Pickers /\ p.items = items
    BY <1>2 DEF Pickers
  <1> HIDE DEF p
  <1>6. q \in Pickers /\ q.items = items /\ (Candidates(q) # {} => q.cursor \in Candidates(q))
    BY <1>3, <1>5, PlaceLands
  <1> HIDE DEF q
  <1>7. Good([a EXCEPT !.overlay = q])
    BY <1>6, PickerIsGood DEF items
  <1> QED
    BY <1>4, <1>7

(* Moving in the picker, and typing.                                        *)
LEMMA PickerMovesAreGood ==
    ASSUME NEW a, Good(a), a.overlay.kind = "picker", NEW input \in Filters \cup {None}
    PROVE  /\ Good([a EXCEPT !.overlay = Picker!PickerUp(a.overlay)])
           /\ Good([a EXCEPT !.overlay = Picker!PickerDown(a.overlay)])
           /\ Good([a EXCEPT !.overlay = Picker!Typed(a.overlay, input)])
  <1> DEFINE p == a.overlay
  <1>1. Steady(a) /\ a \in Apps /\ p.items = BuildProgramItems(a).items
        /\ (Candidates(p) # {} => p.cursor \in Candidates(p))
    BY DEF Good, Steady, InSync, BuildProgramItems
  <1>2. p \in Pickers
    <2>1. p \in PlainOverlays \cup Pickers
      BY <1>1, FieldsOf
    <2> QED
      BY <2>1 DEF PlainOverlays
  <1> HIDE DEF p
  <1>3. ASSUME NEW from \in Nat, NEW forward \in BOOLEAN
        PROVE  Good([a EXCEPT !.overlay = Picker!Snap(p, from, forward)])
    <2> DEFINE q == Picker!Snap(p, from, forward)
    <2>1. q \in Pickers /\ q.items = p.items /\ (Candidates(q) # {} => q.cursor \in Candidates(q))
      BY <1>2, SnapLands
    <2> HIDE DEF q
    <2>2. Good([a EXCEPT !.overlay = q])
      BY <1>1, <2>1, PickerIsGood
    <2> QED
      BY <2>2 DEF q
  <1>4. Good([a EXCEPT !.overlay = p])
    BY <1>1, <1>2, PickerIsGood
  <1>5. p.cursor \in Nat
    BY <1>2 DEF Pickers
  <1>6. Good([a EXCEPT !.overlay = Picker!PickerUp(p)])
    <2>1. CASE p.cursor > 1
      <3>1. Picker!PickerUp(p) = Picker!Snap(p, p.cursor - 1, FALSE)
        BY <2>1 DEF Picker!PickerUp
      <3>2. p.cursor - 1 \in Nat
        BY <1>5, <2>1
      <3>3. Good([a EXCEPT !.overlay = Picker!Snap(p, p.cursor - 1, FALSE)])
        BY <1>3, <3>2
      <3> QED
        BY <3>1, <3>3
    <2>2. CASE ~ (p.cursor > 1)
      <3>1. Picker!PickerUp(p) = p
        BY <2>2 DEF Picker!PickerUp
      <3> QED
        BY <1>4, <3>1
    <2> QED
      BY <2>1, <2>2
  <1>7. Good([a EXCEPT !.overlay = Picker!PickerDown(p)])
    <2>1. Picker!PickerDown(p) = p \/ Picker!PickerDown(p) = Picker!Snap(p, p.cursor + 1, TRUE)
      BY DEF Picker!PickerDown
    <2>2. p.cursor + 1 \in Nat
      BY <1>5
    <2>3. Good([a EXCEPT !.overlay = Picker!Snap(p, p.cursor + 1, TRUE)])
      BY <1>3, <2>2
    <2> QED
      BY <1>4, <2>1, <2>3
  <1>8. Good([a EXCEPT !.overlay = Picker!Typed(p, input)])
    <2> DEFINE r == [p EXCEPT !.input = input]
               q == Picker!Snap(r, 1, TRUE)
    <2>1. r \in Pickers /\ r.items = p.items
      BY <1>2 DEF Pickers
    <2> HIDE DEF r
    <2>2. q \in Pickers /\ q.items = p.items /\ (Candidates(q) # {} => q.cursor \in Candidates(q))
      BY <2>1, SnapLands
    <2> HIDE DEF q
    <2>3. Good([a EXCEPT !.overlay = q])
      BY <1>1, <2>2, PickerIsGood
    <2> QED
      BY <2>3 DEF q, r, Picker!Typed
  <1> QED
    BY <1>6, <1>7, <1>8 DEF p

(* A row that can be chosen stands for a program that can be activated.     *)
LEMMA ResolveIs ==
    ASSUME NEW a, Steady(a), NEW row, Resolve(a, row) # None
    PROVE  Resolve(a, row) \in ToActivate(a.programs, a.workspace)
  <1> DEFINE sels == BuildProgramItems(a).sels
  <1>1. sels \in Seq(ToActivate(a.programs, a.workspace)) /\ DOMAIN sels = 1 .. Len(sels)
    <2>1. a \in Apps
      BY DEF Steady
    <2>2. BuildProgramItems(a) \in AllBuilt(a.programs, a.workspace)
      BY <2>1, FieldsOf, RowsAre DEF BuildProgramItems
    <2> QED
      BY <2>2, LenProperties DEF AllBuilt
  <1>2. row.data \in DOMAIN sels /\ Resolve(a, row) = sels[row.data]
    BY DEF Resolve
  <1> HIDE DEF sels
  <1> QED
    BY <1>1, <1>2, ElementOfSeq

(* What can be activated has an anchor that holds it.                       *)
LEMMA OwnerIs ==
    ASSUME NEW a, Steady(a), NEW sel \in ToActivate(a.programs, a.workspace)
    PROVE  Owner(a, sel) \in AllAnchors
  <1>1. a.programs \in Seq(ProgramEntries)
    BY FieldsOf DEF Steady
  <1>2. CASE \E i \in DOMAIN a.programs : sel = Routed(i)
    <2>1. PICK i \in DOMAIN a.programs : sel = Routed(i)
      BY <1>2
    <2>2. sel.kind = "routed" /\ sel.at = i
      BY <2>1 DEF Routed
    <2>3. a.programs[i] \in ProgramEntries
      BY <1>1, <2>1, LenProperties, ElementOfSeq
    <2>4. a.programs[i].root \in Roots
      BY <2>3 DEF ProgramEntries
    <2> QED
      BY <2>2, <2>4, AnchorIs DEF Owner
  <1>3. CASE \E f \in Files : sel = Standalone(f)
    <2>1. PICK f \in Files : sel = Standalone(f)
      BY <1>3
    <2>2. sel.kind = "standalone" /\ sel.at = f
      BY <2>1 DEF Standalone
    <2> QED
      BY <2>2, AnchorIs DEF Owner
  <1> QED
    BY <1>2, <1>3 DEF ToActivate

-----------------------------------------------------------------------------
(* The body pane.                                                           *)

Fits(b, n) == b \in Bodies /\ BodyFits(b, n)

Counts(n) == \A s \in Sections : n[s] \in Nat

(* The sections have as many entries as the program has categories and      *)
(* views.                                                                   *)
LEMMA EntriesAre ==
    ASSUME NEW a \in Apps
    PROVE  Counts(Entries(a)) /\ Entries(a)["entities"] = a.entities /\ Entries(a)["views"] = Len(a.views)
  <1>1. a.entities \in Nat /\ Len(a.views) \in Nat
    BY FieldsOf, LenProperties
  <1> QED
    BY <1>1 DEF Entries, Counts, Sections

(* The fields of a body pane.                                               *)
LEMMA FieldsOfBody ==
    ASSUME NEW b \in Bodies
    PROVE  /\ b.tabs \in Seq(Tabs) /\ b.tab \in Nat /\ b.focus \in {"sidebar", "tab"}
           /\ b.section \in Sections /\ b.cursor \in [Sections -> Nat \ {0}]
           /\ DOMAIN b.tabs = 1 .. Len(b.tabs) /\ Len(b.tabs) \in Nat
  BY LenProperties DEF Bodies

(* A cursor is put on an entry, or at the top of a section.                 *)
LEMMA CursorFits ==
    ASSUME NEW n, NEW b, Fits(b, n), NEW s \in Sections, NEW t \in Sections, NEW c \in Nat \ {0},
           c = 1 \/ c <= n[s]
    PROVE  Fits([b EXCEPT !.section = t, !.cursor[s] = c], n)
  <1> DEFINE d == [b EXCEPT !.section = t, !.cursor[s] = c]
             cursor == [b.cursor EXCEPT ![s] = c]
  <1>1. b \in Bodies /\ BodyFits(b, n) /\ b.cursor \in [Sections -> Nat \ {0}]
    BY FieldsOfBody DEF Fits
  <1>2. cursor \in [Sections -> Nat \ {0}] /\ \A r \in Sections : cursor[r] = IF r = s THEN c ELSE b.cursor[r]
    BY <1>1
  <1>3. d = [b EXCEPT !.section = t, !.cursor = cursor]
    BY <1>1 DEF Bodies
  <1> HIDE DEF cursor, d
  <1>4. d \in Bodies /\ d.tabs = b.tabs /\ d.tab = b.tab /\ d.cursor = cursor
    BY <1>1, <1>2, <1>3 DEF Bodies
  <1>5. \A r \in Sections : d.cursor[r] = 1 \/ d.cursor[r] <= n[r]
    BY <1>1, <1>2, <1>4 DEF BodyFits
  <1>6. BodyFits(d, n)
    BY <1>1, <1>4, <1>5 DEF BodyFits
  <1> QED
    BY <1>4, <1>6 DEF Fits, d

(* A section is entered at its first or its last entry.                     *)
LEMMA EnterFits ==
    ASSUME NEW n, Counts(n), NEW b, Fits(b, n), NEW s \in Sections, NEW atTop \in BOOLEAN
    PROVE  Fits(EnterSection(b, s, atTop, n), n)
  <1> DEFINE c == IF atTop \/ n[s] = 0 THEN 1 ELSE n[s]
  <1>1. EnterSection(b, s, atTop, n) = [b EXCEPT !.section = s, !.cursor[s] = c]
    BY DEF EnterSection
  <1>2. c \in Nat \ {0} /\ (c = 1 \/ c <= n[s])
    BY DEF Counts
  <1> HIDE DEF c
  <1>3. Fits([b EXCEPT !.section = s, !.cursor[s] = c], n)
    BY <1>2, CursorFits
  <1> QED
    BY <1>1, <1>3

(* The arrow keys in the sidebar, tab, and the switch of focus.             *)
LEMMA MovesFit ==
    ASSUME NEW n, Counts(n), NEW b, Fits(b, n)
    PROVE  /\ Fits(HandleTab(b, n), n)
           /\ Fits(MoveUp(b, n), n)
           /\ Fits(MoveDown(b, n), n)
           /\ Fits(ToggleFocus(b), n)
  <1>1. /\ b \in Bodies /\ BodyFits(b, n) /\ b.section \in Sections /\ b.focus \in {"sidebar", "tab"}
        /\ b.cursor \in [Sections -> Nat \ {0}]
    BY FieldsOfBody DEF Fits
  <1>2. "entities" \in Sections /\ "views" \in Sections /\ \A s \in Sections : Other(s) \in Sections
    BY DEF Sections, Other
  <1>3. n[b.section] \in Nat /\ b.cursor[b.section] \in Nat \ {0}
        /\ (b.cursor[b.section] = 1 \/ b.cursor[b.section] <= n[b.section])
    BY <1>1 DEF Counts, BodyFits
  <1>4. \A s \in Sections : Fits(EnterSection(b, s, TRUE, n), n) /\ Fits(EnterSection(b, s, FALSE, n), n)
    BY EnterFits
  <1>5. Fits(HandleTab(b, n), n)
    BY <1>1, <1>2, <1>4 DEF HandleTab
  <1>6. ASSUME NEW c \in Nat \ {0}, c = 1 \/ c <= n[b.section]
        PROVE  Fits(PutCursor(b, c), n)
    <2>1. PutCursor(b, c) = [b EXCEPT !.section = b.section, !.cursor[b.section] = c]
      BY <1>1 DEF Bodies, PutCursor
    <2>2. Fits([b EXCEPT !.section = b.section, !.cursor[b.section] = c], n)
      BY <1>1, <1>6, CursorFits
    <2> QED
      BY <2>1, <2>2
  <1>7. Fits(MoveUp(b, n), n)
    <2>1. CASE b.focus = "sidebar" /\ b.cursor[b.section] > 1
      <3>1. MoveUp(b, n) = PutCursor(b, b.cursor[b.section] - 1)
        BY <1>3, <2>1 DEF MoveUp
      <3>2. b.cursor[b.section] - 1 \in Nat \ {0} /\ b.cursor[b.section] - 1 <= n[b.section]
        BY <1>3, <2>1
      <3>3. Fits(PutCursor(b, b.cursor[b.section] - 1), n)
        BY <1>6, <3>2
      <3> QED
        BY <3>1, <3>3
    <2>2. CASE ~ (b.focus = "sidebar" /\ b.cursor[b.section] > 1)
      <3>1. MoveUp(b, n) = b \/ MoveUp(b, n) = EnterSection(b, "entities", FALSE, n)
        BY <2>2 DEF MoveUp
      <3> QED
        BY <1>2, <1>4, <3>1
    <2> QED
      BY <2>1, <2>2
  <1>8. Fits(MoveDown(b, n), n)
    <2>1. CASE b.focus = "sidebar" /\ b.cursor[b.section] < n[b.section]
      <3>1. MoveDown(b, n) = PutCursor(b, b.cursor[b.section] + 1)
        BY <1>3, <2>1 DEF MoveDown
      <3>2. b.cursor[b.section] + 1 \in Nat \ {0} /\ b.cursor[b.section] + 1 <= n[b.section]
        BY <1>3, <2>1
      <3>3. Fits(PutCursor(b, b.cursor[b.section] + 1), n)
        BY <1>6, <3>2
      <3> QED
        BY <3>1, <3>3
    <2>2. CASE ~ (b.focus = "sidebar" /\ b.cursor[b.section] < n[b.section])
      <3>1. MoveDown(b, n) = b \/ MoveDown(b, n) = EnterSection(b, "views", TRUE, n)
        BY <2>2 DEF MoveDown
      <3> QED
        BY <1>2, <1>4, <3>1
    <2> QED
      BY <2>1, <2>2
  <1>9. Fits(ToggleFocus(b), n)
    <2> DEFINE f == IF b.focus = "sidebar" THEN "tab" ELSE "sidebar"
               d == [b EXCEPT !.focus = f]
    <2>1. f \in {"sidebar", "tab"}
      OBVIOUS
    <2>2. ToggleFocus(b) = d
      BY DEF ToggleFocus
    <2> HIDE DEF f
    <2>3. d \in Bodies /\ d.tabs = b.tabs /\ d.tab = b.tab /\ d.cursor = b.cursor
      BY <1>1, <2>1 DEF Bodies
    <2> HIDE DEF d
    <2> QED
      BY <1>1, <2>2, <2>3 DEF Fits, BodyFits
  <1> QED
    BY <1>5, <1>7, <1>8, <1>9

(* The next and the previous tab are tabs.                                  *)
LEMMA CycleFits ==
    ASSUME NEW n, NEW b, Fits(b, n), NEW forward \in BOOLEAN
    PROVE  Fits(CycleTab(b, forward), n)
  <1> DEFINE k == Len(b.tabs)
             cur == IF b.tab = 0 THEN 1 ELSE b.tab
             new == IF forward THEN (cur % k) + 1 ELSE ((cur + k - 2) % k) + 1
             d == [b EXCEPT !.tab = new]
  <1>1. /\ b \in Bodies /\ BodyFits(b, n) /\ DOMAIN b.tabs = 1 .. k /\ k \in Nat /\ b.tab \in Nat
    BY FieldsOfBody DEF Fits
  <1>2. CASE k <= 1
    BY <1>2 DEF CycleTab
  <1>3. CASE ~ (k <= 1)
    <2>1. CycleTab(b, forward) = d
      BY <1>3 DEF CycleTab
    <2>2. cur \in Nat \ {0}
      BY <1>1
    <2> HIDE DEF cur, k
    <2>3. cur \in Int /\ cur + k - 2 \in Int /\ k \in Int /\ k > 0
      BY <1>1, <1>3, <2>2
    <2>4. \A i \in Int : i % k \in 0 .. k - 1
      BY <2>3
    <2>5. cur % k \in 0 .. k - 1 /\ (cur + k - 2) % k \in 0 .. k - 1
      BY <2>3, <2>4
    <2>6. new \in 1 .. k
      BY <1>1, <1>3, <2>5
    <2> HIDE DEF new
    <2>7. d \in Bodies /\ d.tabs = b.tabs /\ d.tab = new /\ d.cursor = b.cursor
      BY <1>1, <2>6 DEF Bodies
    <2> HIDE DEF d
    <2>8. b.tabs # << >> /\ new # 0
      BY <1>3, <2>6 DEF k
    <2> QED
      BY <1>1, <2>1, <2>6, <2>7, <2>8 DEF Fits, BodyFits
  <1> QED
    BY <1>2, <1>3

(* The strip without one of its tabs.                                       *)
LEMMA RemovedIs ==
    ASSUME NEW tabs \in Seq(Tabs), IsInjective(tabs), NEW i \in DOMAIN tabs
    PROVE  /\ RemoveAt(tabs, i) \in Seq(Tabs)
           /\ Len(RemoveAt(tabs, i)) = Len(tabs) - 1
           /\ DOMAIN RemoveAt(tabs, i) = 1 .. Len(tabs) - 1
           /\ \A j \in DOMAIN RemoveAt(tabs, i) : RemoveAt(tabs, i)[j] \in Range(tabs)
           /\ IsInjective(RemoveAt(tabs, i))
  <1> DEFINE m == Len(tabs)
             p == SubSeq(tabs, 1, i - 1)
             q == SubSeq(tabs, i + 1, m)
             r == p \o q
  <1>1. m \in Nat /\ DOMAIN tabs = 1 .. m /\ i \in 1 .. m
    BY LenProperties
  <1>2. \A j \in 1 .. m : tabs[j] \in Tabs
    BY ElementOfSeq
  <1>3. /\ p \in Seq(Tabs) /\ Len(p) = i - 1 /\ \A j \in 1 .. i - 1 : p[j] = tabs[j]
    <2>1. \A j \in 1 .. i - 1 : tabs[j] \in Tabs
      BY <1>1, <1>2
    <2>2. i - 1 \in Int /\ 1 \in Int
      BY <1>1
    <2>3. /\ p \in Seq(Tabs) /\ Len(p) = IF 1 <= i - 1 THEN i - 1 - 1 + 1 ELSE 0
          /\ \A j \in 1 .. i - 1 - 1 + 1 : p[j] = tabs[1 + j - 1]
      BY <2>1, <2>2, SubSeqProperties
    <2> HIDE DEF p
    <2> QED
      BY <1>1, <2>3
  <1>4. /\ q \in Seq(Tabs) /\ Len(q) = m - i /\ \A j \in 1 .. m - i : q[j] = tabs[i + j]
    <2>1. \A j \in i + 1 .. m : tabs[j] \in Tabs
      BY <1>1, <1>2
    <2>2. i + 1 \in Int /\ m \in Int
      BY <1>1
    <2> HIDE DEF m
    <2>3. /\ q \in Seq(Tabs) /\ Len(q) = IF i + 1 <= m THEN m - (i + 1) + 1 ELSE 0
          /\ \A j \in 1 .. m - (i + 1) + 1 : q[j] = tabs[i + 1 + j - 1]
      BY <2>1, <2>2, SubSeqProperties
    <2> HIDE DEF q
    <2>4. Len(q) = m - i
      BY <1>1, <2>2, <2>3
    <2>5. ASSUME NEW j \in 1 .. m - i PROVE q[j] = tabs[i + j]
      <3>1. j \in 1 .. m - (i + 1) + 1 /\ i + 1 + j - 1 = i + j
        BY <1>1, <2>2
      <3>2. q[j] = tabs[i + 1 + j - 1]
        BY <2>3, <3>1
      <3> QED
        BY <3>1, <3>2
    <2> QED
      BY <2>3, <2>4, <2>5
  <1>5. RemoveAt(tabs, i) = r
    BY DEF RemoveAt
  <1> HIDE DEF p, q, m
  <1>6. /\ r \in Seq(Tabs) /\ Len(r) = Len(p) + Len(q)
        /\ \A j \in 1 .. Len(p) + Len(q) : r[j] = IF j <= Len(p) THEN p[j] ELSE q[j - Len(p)]
    BY <1>3, <1>4, ConcatProperties
  <1> HIDE DEF r
  <1>7. Len(r) = m - 1 /\ DOMAIN r = 1 .. m - 1
    BY <1>1, <1>3, <1>4, <1>6, LenProperties
  <1>8. ASSUME NEW j \in 1 .. m - 1
        PROVE  r[j] = tabs[IF j < i THEN j ELSE j + 1]
    <2>1. CASE j < i
      <3>1. j \in 1 .. i - 1 /\ j <= Len(p) /\ j \in 1 .. Len(p) + Len(q)
        BY <1>1, <1>3, <1>4, <2>1
      <3> QED
        BY <1>3, <1>6, <2>1, <3>1
    <2>2. CASE ~ (j < i)
      <3>1. j - (i - 1) \in 1 .. m - i /\ ~ (j <= Len(p)) /\ j \in 1 .. Len(p) + Len(q)
            /\ i + (j - (i - 1)) = j + 1
        BY <1>1, <1>3, <1>4, <2>2
      <3>2. r[j] = q[j - (i - 1)]
        BY <1>3, <1>6, <3>1
      <3>3. q[j - (i - 1)] = tabs[i + (j - (i - 1))]
        BY <1>4, <3>1
      <3> QED
        BY <2>2, <3>1, <3>2, <3>3
    <2> QED
      BY <2>1, <2>2
  <1> DEFINE at(j) == IF j < i THEN j ELSE j + 1
  <1>9. \A j \in 1 .. m - 1 : at(j) \in 1 .. m
    BY <1>1
  <1>10. \A j, l \in 1 .. m - 1 : at(j) = at(l) => j = l
    BY <1>1
  <1>11. \A j \in 1 .. m - 1 : r[j] = tabs[at(j)]
    BY <1>8
  <1> HIDE DEF at
  <1>12. \A j \in 1 .. m - 1 : r[j] \in Range(tabs)
    BY <1>1, <1>9, <1>11 DEF Range
  <1>13. IsInjective(r)
    BY <1>1, <1>7, <1>9, <1>10, <1>11 DEF IsInjective
  <1> QED
    BY <1>5, <1>6, <1>7, <1>12, <1>13 DEF m

(* What a tab leads to is there.                                            *)
Leads(t, n) ==
    /\ t.kind = "category" => t.entry <= n["entities"]
    /\ t.kind = "view" => t.entry <= n["views"]

(* A strip of tabs that lead somewhere, with one of them active.            *)
LEMMA StripFits ==
    ASSUME NEW n, NEW b, Fits(b, n), NEW tabs \in Seq(Tabs), NEW tab \in Nat,
           NEW focus \in {"sidebar", "tab"}, IsInjective(tabs),
           \A i \in DOMAIN tabs : Leads(tabs[i], n),
           tab \in DOMAIN tabs \/ (tab = 0 /\ tabs = << >>)
    PROVE  Fits([b EXCEPT !.tabs = tabs, !.tab = tab, !.focus = focus], n)
  <1> DEFINE d == [b EXCEPT !.tabs = tabs, !.tab = tab, !.focus = focus]
  <1>1. b \in Bodies /\ BodyFits(b, n)
    BY DEF Fits
  <1>2. d \in Bodies /\ d.tabs = tabs /\ d.tab = tab /\ d.cursor = b.cursor
    BY <1>1 DEF Bodies
  <1> HIDE DEF d
  <1>3. DOMAIN tabs = 1 .. Len(tabs)
    BY LenProperties
  <1>4. d.tab \in DOMAIN d.tabs \cup {0} /\ (d.tab = 0 <=> d.tabs = << >>)
    <2>1. 0 \notin 1 .. Len(tabs)
      OBVIOUS
    <2>2. tabs = << >> => DOMAIN tabs = {}
      OBVIOUS
    <2> QED
      BY <1>2, <1>3, <2>1, <2>2
  <1>5. BodyFits(d, n)
    BY <1>1, <1>2, <1>4 DEF BodyFits, Leads
  <1> QED
    BY <1>2, <1>5 DEF Fits, d

(* Closing the active tab leaves another active, or none and the focus in   *)
(* the sidebar.                                                             *)
LEMMA CloseFits ==
    ASSUME NEW n, NEW b, Fits(b, n)
    PROVE  Fits(CloseActiveTab(b), n)
  <1>1. /\ b \in Bodies /\ BodyFits(b, n) /\ b.tabs \in Seq(Tabs) /\ b.tab \in Nat
        /\ b.focus \in {"sidebar", "tab"} /\ DOMAIN b.tabs = 1 .. Len(b.tabs) /\ Len(b.tabs) \in Nat
    BY FieldsOfBody DEF Fits
  <1>2. CASE b.tab \notin DOMAIN b.tabs
    BY <1>2 DEF CloseActiveTab
  <1>3. CASE b.tab \in DOMAIN b.tabs
    <2> DEFINE left == RemoveAt(b.tabs, b.tab)
               tab == IF b.tab > Len(left) THEN Len(left) ELSE b.tab
               focus == IF left = << >> THEN "sidebar" ELSE b.focus
    <2>1. CloseActiveTab(b) = [b EXCEPT !.tabs = left, !.tab = tab, !.focus = focus]
      BY <1>1, <1>3 DEF CloseActiveTab, Bodies
    <2>2. /\ left \in Seq(Tabs) /\ Len(left) = Len(b.tabs) - 1 /\ DOMAIN left = 1 .. Len(b.tabs) - 1
          /\ \A j \in DOMAIN left : left[j] \in Range(b.tabs)
          /\ IsInjective(left)
      BY <1>1, <1>3, RemovedIs DEF BodyFits
    <2> HIDE DEF left
    <2>3. \A t \in Range(b.tabs) : Leads(t, n)
      BY <1>1 DEF BodyFits, Leads, Range
    <2>4. focus \in {"sidebar", "tab"}
      BY <1>1
    <2>5. tab \in Nat /\ (tab \in DOMAIN left \/ (tab = 0 /\ left = << >>))
      <3>1. Len(left) = 0 => left = << >>
        BY <2>2, EmptySeq
      <3>2. b.tab \in 1 .. Len(b.tabs)
        BY <1>1, <1>3
      <3>3. Len(b.tabs) \in Nat /\ Len(b.tabs) # 0
        BY <1>1, <3>2
      <3> DEFINE k == Len(left)
      <3>4. k = Len(b.tabs) - 1 /\ DOMAIN left = 1 .. k
        BY <2>2
      <3> HIDE DEF k
      <3>5. CASE b.tab > k
        <4>1. tab = k /\ (k = 0 => left = << >>)
          BY <3>1, <3>5 DEF k
        <4>2. k \in Nat
          BY <3>3, <3>4
        <4>3. k = 0 \/ k \in 1 .. k
          BY <4>2
        <4> QED
          BY <3>4, <4>1, <4>2, <4>3
      <3>6. CASE ~ (b.tab > k)
        <4>1. tab = b.tab
          BY <3>6 DEF k
        <4> QED
          BY <3>2, <3>3, <3>4, <3>6, <4>1
      <3> QED
        BY <3>5, <3>6
    <2> HIDE DEF tab, focus
    <2>6. Fits([b EXCEPT !.tabs = left, !.tab = tab, !.focus = focus], n)
      BY <2>2, <2>3, <2>4, <2>5, StripFits
    <2> QED
      BY <2>1, <2>6
  <1> QED
    BY <1>2, <1>3

(* A tab that is opened is put after the others, or found among them.       *)
LEMMA OpenFits ==
    ASSUME NEW n, NEW b, Fits(b, n), NEW t \in Tabs, Leads(t, n)
    PROVE  Fits(OpenTab(b, t), n)
  <1> DEFINE kept == Only(b.tabs, Range(b.tabs) \ {Welcome})
             tabs == IF \E i \in DOMAIN kept : kept[i] = t THEN kept ELSE Append(kept, t)
             tab == CHOOSE i \in DOMAIN tabs : tabs[i] = t
  <1>1. b \in Bodies /\ BodyFits(b, n) /\ b.tabs \in Seq(Tabs)
    BY FieldsOfBody DEF Fits
  <1>2. OpenTab(b, t) = [b EXCEPT !.tabs = tabs, !.tab = tab, !.focus = "tab"]
    BY DEF OpenTab
  <1>3. /\ kept \in Seq(Tabs) /\ \A x \in Range(kept) : x \in Range(b.tabs)
        /\ IsInjective(kept)
    BY <1>1, OnlyRange DEF BodyFits
  <1>4. DOMAIN kept = 1 .. Len(kept) /\ Len(kept) \in Nat
    BY <1>3, LenProperties
  <1> HIDE DEF kept
  <1>5. \A i \in DOMAIN kept : Leads(kept[i], n)
    <2>1. \A x \in Range(b.tabs) : Leads(x, n)
      BY <1>1 DEF BodyFits, Leads, Range
    <2> QED
      BY <1>3, <2>1 DEF Range
  <1>6. /\ tabs \in Seq(Tabs) /\ IsInjective(tabs) /\ \A i \in DOMAIN tabs : Leads(tabs[i], n)
        /\ \E i \in DOMAIN tabs : tabs[i] = t
        /\ DOMAIN tabs = 1 .. Len(tabs)
    <2>1. CASE \E i \in DOMAIN kept : kept[i] = t
      BY <1>3, <1>4, <1>5, <2>1
    <2>2. CASE ~ \E i \in DOMAIN kept : kept[i] = t
      <3> DEFINE r == Append(kept, t)
      <3>1. tabs = r
        BY <2>2
      <3>2. /\ r \in Seq(Tabs) /\ Len(r) = Len(kept) + 1 /\ DOMAIN r = 1 .. Len(r)
            /\ \A i \in 1 .. Len(kept) : r[i] = kept[i]
            /\ r[Len(kept) + 1] = t
        BY <1>3, AppendProperties, LenProperties
      <3> HIDE DEF r, tabs
      <3>3. \A i \in DOMAIN r : i \in DOMAIN kept \/ i = Len(kept) + 1
        BY <1>4, <3>2
      <3>4. IsInjective(r)
        BY <1>3, <1>4, <2>2, <3>2, <3>3 DEF IsInjective
      <3>5. \A i \in DOMAIN r : Leads(r[i], n)
        BY <1>4, <1>5, <3>2, <3>3
      <3>6. Len(kept) + 1 \in DOMAIN r
        BY <1>4, <3>2
      <3> QED
        BY <3>1, <3>2, <3>4, <3>5, <3>6
    <2> QED
      BY <2>1, <2>2
  <1> HIDE DEF tabs
  <1>7. tab \in DOMAIN tabs
    BY <1>6
  <1> HIDE DEF tab
  <1>8. tab \in Nat
    <2>1. Len(tabs) \in Nat
      BY <1>6, LenProperties
    <2> QED
      BY <1>6, <1>7, <2>1
  <1>9. Fits([b EXCEPT !.tabs = tabs, !.tab = tab, !.focus = "tab"], n)
    BY <1>6, <1>7, <1>8, StripFits
  <1> QED
    BY <1>2, <1>9

(* Enter in the sidebar opens a tab for what is under the cursor.           *)
LEMMA LaunchFits ==
    ASSUME NEW n, Counts(n), NEW b, Fits(b, n)
    PROVE  Fits(LaunchUnderCursor(b, n), n)
  <1> DEFINE i == b.cursor[b.section]
             t == IF b.section = "entities" THEN Category(i) ELSE ViewTab(i)
  <1>1. b.section \in Sections /\ b.cursor \in [Sections -> Nat \ {0}]
    BY FieldsOfBody DEF Fits
  <1>2. i \in Nat \ {0}
    BY <1>1
  <1>3. CASE i > n[b.section]
    BY <1>3 DEF LaunchUnderCursor
  <1>4. CASE ~ (i > n[b.section])
    <2>1. LaunchUnderCursor(b, n) = OpenTab(b, t)
      BY <1>4 DEF LaunchUnderCursor
    <2>2. i <= n[b.section]
      BY <1>1, <1>2, <1>4 DEF Counts
    <2> HIDE DEF i
    <2>3. t \in Tabs /\ Leads(t, n)
      BY <1>1, <1>2, <2>2 DEF Sections, Category, ViewTab, Tabs, Leads
    <2> HIDE DEF t
    <2> QED
      BY <2>1, <2>3, OpenFits
  <1> QED
    BY <1>3, <1>4

(* The body pane moves, and nothing else does.                              *)
LEMMA BodyIsGood ==
    ASSUME NEW a, Good(a), NEW b, Fits(b, Entries(a))
    PROVE  Good([a EXCEPT !.body = b])
  <1> DEFINE c == [a EXCEPT !.body = b]
  <1>1. a \in Apps /\ b \in Bodies
    BY DEF Good, Steady, Fits
  <1>2. /\ c \in Apps /\ c.server = a.server /\ c.programs = a.programs /\ c.workspace = a.workspace
        /\ c.active = a.active /\ c.entities = a.entities /\ c.views = a.views
        /\ c.overlay = a.overlay /\ c.trace = a.trace /\ c.body = b
    BY <1>1 DEF Apps
  <1> HIDE DEF c
  <1>3. Entries(c) = Entries(a)
    BY <1>2 DEF Entries
  <1>4. Good(c)
    BY <1>2, <1>3 DEF Good, Steady, Fits
  <1> QED
    BY <1>4 DEF c

-----------------------------------------------------------------------------
(* Traces and drawing.                                                      *)

(* Traces of the active program are kept.                                   *)
LEMMA TraceIsGood ==
    ASSUME NEW a, Good(a), NEW trace \in [Views -> Traces \cup {None}], TraceFits(trace),
           Shows(a.active, a.server, a.entities, a.views, trace)
    PROVE  Good([a EXCEPT !.trace = trace]) /\ [a EXCEPT !.trace = trace].overlay = a.overlay
           /\ [a EXCEPT !.trace = trace].active = a.active
  <1> DEFINE c == [a EXCEPT !.trace = trace]
  <1>1. a \in Apps
    BY DEF Good, Steady
  <1>2. /\ c \in Apps /\ c.server = a.server /\ c.programs = a.programs /\ c.workspace = a.workspace
        /\ c.active = a.active /\ c.entities = a.entities /\ c.views = a.views
        /\ c.overlay = a.overlay /\ c.trace = trace /\ c.body = a.body
    BY <1>1 DEF Apps
  <1> HIDE DEF c
  <1>3. Entries(c) = Entries(a)
    BY <1>2 DEF Entries
  <1>4. Good(c)
    BY <1>2, <1>3 DEF Good, Steady
  <1> QED
    BY <1>2, <1>4 DEF c

(* A tab leads to a view the program has.                                   *)
LEMMA ShownViewIs ==
    ASSUME NEW a, Good(a)
    PROVE  ShownView(a) \in Views \cup {None} /\ Moving(a) \in Views \cup {None}
  <1> DEFINE tab == a.body.tabs[a.body.tab]
  <1>1. a \in Apps /\ BodyFits(a.body, Entries(a)) /\ a.body \in Bodies /\ a.views \in Seq(Views)
    BY FieldsOf DEF Good, Steady
  <1>2. Entries(a)["views"] = Len(a.views) /\ Len(a.views) \in Nat
    BY <1>1, EntriesAre, LenProperties
  <1>3. ASSUME a.body.tab \in DOMAIN a.body.tabs, tab.kind = "view"
        PROVE  a.views[tab.entry] \in Views
    <2>1. tab \in Tabs
      BY <1>1, <1>3, FieldsOfBody, ElementOfSeq
    <2>2. tab.entry \in Nat \ {0}
      BY <2>1 DEF Tabs
    <2>3. tab.entry <= Len(a.views)
      BY <1>1, <1>2, <1>3 DEF BodyFits
    <2> HIDE DEF tab
    <2>4. tab.entry \in 1 .. Len(a.views)
      BY <1>2, <2>2, <2>3
    <2> QED
      BY <1>1, <2>4, ElementOfSeq
  <1>4. ShownView(a) \in Views \cup {None}
    BY <1>3 DEF ShownView
  <1> QED
    BY <1>4 DEF Moving

(* A trace that is fetched while a program is active is its trace.          *)
LEMMA FetchedIsGood ==
    ASSUME NEW a, Good(a), a.active # None, a.server.up, NEW v \in Views,
           TraceRows(a.server, v) > 0
    PROVE  Good([a EXCEPT !.trace[v] =
                   [of |-> a.server.active, rows |-> TraceRows(a.server, v) - 1, cursor |-> 1]])
           /\ [a EXCEPT !.trace[v] =
                 [of |-> a.server.active, rows |-> TraceRows(a.server, v) - 1, cursor |-> 1]].active
              = a.active
           /\ [a EXCEPT !.trace[v] =
                 [of |-> a.server.active, rows |-> TraceRows(a.server, v) - 1, cursor |-> 1]].overlay
              = a.overlay
  <1> DEFINE rows == TraceRows(a.server, v)
             new == [of |-> a.server.active, rows |-> rows - 1, cursor |-> 1]
             trace == [a.trace EXCEPT ![v] = new]
  <1>1. /\ a \in Apps /\ a.server \in Servers /\ a.trace \in [Views -> Traces \cup {None}]
        /\ TraceFits(a.trace) /\ Shows(a.active, a.server, a.entities, a.views, a.trace)
    BY FieldsOf DEF Good, Steady
  <1>2. a.server.active # None /\ a.server.active \in ServerPrograms
    BY <1>1 DEF Shows, Servers
  <1>3. rows \in Nat
    <2>1. a.server.active.content \in Contents
      BY <1>2 DEF ServerPrograms
    <2>2. a.server.active.content.rows \in [Views -> Nat]
      BY <2>1, SessionAssumption
    <2> QED
      BY <1>2, <2>2 DEF TraceRows
  <1>4. rows - 1 \in Nat
    BY <1>3
  <1> HIDE DEF rows
  <1>5. new \in Traces /\ new.cursor = 1 /\ new.of = a.server.active
    BY <1>2, <1>4 DEF Traces
  <1> HIDE DEF new
  <1>6. /\ trace \in [Views -> Traces \cup {None}]
        /\ \A w \in Views : trace[w] = IF w = v THEN new ELSE a.trace[w]
    BY <1>1, <1>5
  <1>7. [a EXCEPT !.trace[v] = new] = [a EXCEPT !.trace = trace]
    BY <1>1 DEF Apps
  <1> HIDE DEF trace
  <1>8. TraceFits(trace)
    BY <1>1, <1>5, <1>6 DEF TraceFits
  <1>9. Shows(a.active, a.server, a.entities, a.views, trace)
    BY <1>1, <1>5, <1>6 DEF Shows
  <1>10. Good([a EXCEPT !.trace = trace]) /\ [a EXCEPT !.trace = trace].overlay = a.overlay
         /\ [a EXCEPT !.trace = trace].active = a.active
    BY <1>6, <1>8, <1>9, TraceIsGood
  <1> QED
    BY <1>7, <1>10 DEF new, rows

(* Drawing.                                                                 *)
LEMMA DrawnIsGood ==
    ASSUME NEW a, Good(a)
    PROVE  /\ Good(EnsureTrace(EnsureNoDeadEnd(a)))
           /\ EnsureTrace(EnsureNoDeadEnd(a)).overlay.kind = "none"
                => EnsureTrace(EnsureNoDeadEnd(a)).active # None
  <1> DEFINE b == EnsureNoDeadEnd(a)
             v == ShownView(b)
             rows == TraceRows(b.server, v)
             fetched == [b EXCEPT !.trace[v] =
                           [of |-> b.server.active, rows |-> rows - 1, cursor |-> 1]]
             refused == [b EXCEPT !.overlay = [kind |-> "error"]]
  <1>1. Good(b) /\ (b.overlay.kind = "none" => b.active # None)
    <2>1. CASE a.active = None /\ a.overlay.kind = "none"
      <3>1. b = OpenPicker(a)
        BY <2>1 DEF EnsureNoDeadEnd
      <3>2. Good(OpenPicker(a)) /\ OpenPicker(a).overlay.kind = "picker"
        BY OpenPickerIsGood DEF Good
      <3> QED
        BY <3>1, <3>2
    <2>2. CASE ~ (a.active = None /\ a.overlay.kind = "none")
      <3>1. b = a
        BY <2>2 DEF EnsureNoDeadEnd
      <3> QED
        BY <2>2, <3>1
    <2> QED
      BY <2>1, <2>2
  <1> HIDE DEF b
  <1>2. v \in Views \cup {None}
    BY <1>1, ShownViewIs
  <1>3. Good(refused) /\ refused.overlay.kind = "error"
    <2>1. Steady(b)
      BY <1>1 DEF Good
    <2>2. /\ Good([b EXCEPT !.overlay = [kind |-> "error"]])
          /\ [b EXCEPT !.overlay = [kind |-> "error"]].overlay = [kind |-> "error"]
      BY <2>1, PlainIsGood
    <2> HIDE DEF v
    <2> QED
      BY <2>2
  <1>4. EnsureTrace(b) = b
        \/ EnsureTrace(b) = refused
        \/ (b.active # None /\ v # None /\ b.server.up /\ rows > 0 /\ EnsureTrace(b) = fetched)
    BY DEF EnsureTrace
  <1> HIDE DEF v, refused
  <1>5. ASSUME b.active # None, v # None, b.server.up, rows > 0
        PROVE  Good(fetched) /\ fetched.active = b.active /\ fetched.overlay = b.overlay
    <2>1. v \in Views
      BY <1>2, <1>5
    <2> QED
      BY <1>1, <1>5, <2>1, FetchedIsGood
  <1> HIDE DEF fetched, rows
  <1>6. Good(EnsureTrace(b)) /\ (EnsureTrace(b).overlay.kind = "none" => EnsureTrace(b).active # None)
    BY <1>1, <1>3, <1>4, <1>5
  <1> QED
    BY <1>6 DEF b

-----------------------------------------------------------------------------
(* Keys.                                                                    *)

(* The cursor of a trace goes to one of its rows.                           *)
LEMMA ScrolledIsGood ==
    ASSUME NEW a, Good(a), NEW v \in Views, a.trace[v] # None,
           NEW i \in 1 .. a.trace[v].rows
    PROVE  Good([a EXCEPT !.trace[v].cursor = i])
  <1> DEFINE new == [a.trace[v] EXCEPT !.cursor = i]
             trace == [a.trace EXCEPT ![v] = new]
  <1>1. /\ a \in Apps /\ a.trace \in [Views -> Traces \cup {None}]
        /\ TraceFits(a.trace) /\ Shows(a.active, a.server, a.entities, a.views, a.trace)
    BY FieldsOf DEF Good, Steady
  <1>2. a.trace[v] \in Traces
    BY <1>1
  <1>3. i \in Nat \ {0}
    BY <1>2 DEF Traces
  <1>4. new \in Traces /\ new.of = a.trace[v].of /\ new.cursor \in 1 .. new.rows
    BY <1>2, <1>3 DEF Traces
  <1>5. [a EXCEPT !.trace[v].cursor = i] = [a EXCEPT !.trace = trace]
    BY <1>1 DEF Apps
  <1> HIDE DEF new
  <1>6. /\ trace \in [Views -> Traces \cup {None}]
        /\ \A w \in Views : trace[w] = IF w = v THEN new ELSE a.trace[w]
    BY <1>1, <1>4
  <1> HIDE DEF trace
  <1>7. TraceFits(trace)
    BY <1>1, <1>4, <1>6 DEF TraceFits
  <1>8. Shows(a.active, a.server, a.entities, a.views, trace)
    BY <1>1, <1>4, <1>6 DEF Shows
  <1>9. Good([a EXCEPT !.trace = trace])
    BY <1>6, <1>7, <1>8, TraceIsGood
  <1> QED
    BY <1>5, <1>9

(* The arrow keys move in the trace on show, or in the sidebar.             *)
LEMMA ArrowsAreGood ==
    ASSUME NEW a, Good(a)
    PROVE  Good(BodyUp(a)) /\ Good(BodyDown(a))
  <1> DEFINE v == Moving(a)
             c == a.trace[v].cursor
  <1>1. a \in Apps /\ a.trace \in [Views -> Traces \cup {None}] /\ TraceFits(a.trace)
        /\ Fits(a.body, Entries(a)) /\ Counts(Entries(a))
    BY FieldsOf, EntriesAre DEF Good, Steady, Fits
  <1>2. v \in Views \cup {None}
    BY ShownViewIs
  <1> HIDE DEF v
  <1>3. ASSUME v # None, a.trace[v] # None
        PROVE  c \in Nat \ {0} /\ a.trace[v].rows \in Nat /\ (c = 1 \/ c <= a.trace[v].rows)
    <2>1. a.trace[v] \in Traces
      BY <1>1, <1>2, <1>3
    <2> QED
      BY <1>1, <1>2, <1>3, <2>1 DEF TraceFits, Traces
  <1>4. CASE v = None
    <2>1. /\ BodyUp(a) = [a EXCEPT !.body = MoveUp(a.body, Entries(a))]
          /\ BodyDown(a) = [a EXCEPT !.body = MoveDown(a.body, Entries(a))]
      BY <1>4 DEF BodyUp, BodyDown, v
    <2>2. Fits(MoveUp(a.body, Entries(a)), Entries(a)) /\ Fits(MoveDown(a.body, Entries(a)), Entries(a))
      BY <1>1, MovesFit
    <2>3. /\ Good([a EXCEPT !.body = MoveUp(a.body, Entries(a))])
          /\ Good([a EXCEPT !.body = MoveDown(a.body, Entries(a))])
      BY <2>2, BodyIsGood
    <2> QED
      BY <2>1, <2>3
  <1>5. CASE v # None
    <2>1. Good(BodyUp(a))
      <3>1. CASE a.trace[v] # None /\ c > 1
        <4>1. c - 1 \in 1 .. a.trace[v].rows
          BY <1>3, <1>5, <3>1
        <4>2. BodyUp(a) = [a EXCEPT !.trace[v].cursor = c - 1]
          BY <1>5, <3>1 DEF BodyUp, v
        <4>3. Good([a EXCEPT !.trace[v].cursor = c - 1])
          BY <1>2, <1>5, <3>1, <4>1, ScrolledIsGood
        <4> QED
          BY <4>2, <4>3
      <3>2. CASE ~ (a.trace[v] # None /\ c > 1)
        BY <1>5, <3>2 DEF BodyUp, v
      <3> QED
        BY <3>1, <3>2
    <2>2. Good(BodyDown(a))
      <3>1. CASE a.trace[v] # None /\ c < a.trace[v].rows
        <4>1. c + 1 \in 1 .. a.trace[v].rows
          BY <1>3, <1>5, <3>1
        <4>2. BodyDown(a) = [a EXCEPT !.trace[v].cursor = c + 1]
          BY <1>5, <3>1 DEF BodyDown, v
        <4>3. Good([a EXCEPT !.trace[v].cursor = c + 1])
          BY <1>2, <1>5, <3>1, <4>1, ScrolledIsGood
        <4> QED
          BY <4>2, <4>3
      <3>2. CASE ~ (a.trace[v] # None /\ c < a.trace[v].rows)
        BY <1>5, <3>2 DEF BodyDown, v
      <3> QED
        BY <3>1, <3>2
    <2> QED
      BY <2>1, <2>2
  <1> QED
    BY <1>4, <1>5

(* Enter and ctrl-x in the picker.                                          *)
LEMMA PickedIsGood ==
    ASSUME World, NEW a, Good(a), NEW sel \in ToActivate(a.programs, a.workspace)
    PROVE  Good(IF SetActive(a, sel).ok THEN [SetActive(a, sel).app EXCEPT !.overlay = NoOverlay]
                ELSE a)
  <1> DEFINE b == SetActive(a, sel).app
  <1>1. Steady(b)
    BY SetActiveIsSteady DEF Good
  <1> HIDE DEF b
  <1>2. Good([b EXCEPT !.overlay = [kind |-> "none"]])
    BY <1>1, PlainIsGood
  <1> QED
    BY <1>2 DEF b, NoOverlay

(* An anchor is removed under an open picker, which gets new rows.          *)
LEMMA RemovedIsGood ==
    ASSUME World, NEW a, Good(a), a.overlay.kind = "picker", NEW anchor \in AllAnchors
    PROVE  Good(IF RemoveAnchor(a, anchor).ok
                THEN RefreshPicker(MaybeAutoSelect(RemoveAnchor(a, anchor).app).app)
                ELSE a)
  <1> DEFINE b == RemoveAnchor(a, anchor).app
             c == MaybeAutoSelect(b).app
  <1>1. Steady(b) /\ b.overlay = a.overlay
    BY RemoveAnchorIsSteady DEF Good
  <1> HIDE DEF b
  <1>2. Steady(c) /\ c.overlay = a.overlay
    BY <1>1, AutoSelectIsSteady
  <1> HIDE DEF c
  <1>3. a.overlay \in Pickers
    <2>1. a.overlay \in PlainOverlays \cup Pickers
      BY FieldsOf DEF Good, Steady
    <2> QED
      BY <2>1 DEF PlainOverlays
  <1>4. Good(RefreshPicker(c))
    BY <1>2, <1>3, RefreshPickerIsGood
  <1> QED
    BY <1>4 DEF b, c

(* Enter in the open modal.                                                 *)
LEMMA OpenedIsGood ==
    ASSUME World, NEW a, Good(a), a.overlay.kind = "open", NEW anchor \in AllAnchors
    PROVE  Good(LET added == AddAnchor(a, anchor)
                    closed == [added.app EXCEPT !.overlay = NoOverlay]
                    auto == MaybeAutoSelect(closed)
                IN  IF ~added.ok THEN added.app
                    ELSE IF auto.ok THEN auto.app ELSE OpenPicker(closed))
  <1> DEFINE b == AddAnchor(a, anchor).app
             c == [b EXCEPT !.overlay = NoOverlay]
             d == MaybeAutoSelect(c).app
  <1>1. Steady(b) /\ b.overlay = a.overlay
    BY AddAnchorIsSteady DEF Good
  <1> HIDE DEF b
  <1>2. Good(b)
    BY <1>1 DEF Good, InSync
  <1>3. Steady(c) /\ c.overlay.kind = "none"
    <2>1. Good([b EXCEPT !.overlay = [kind |-> "none"]])
          /\ [b EXCEPT !.overlay = [kind |-> "none"]].overlay = [kind |-> "none"]
      BY <1>1, PlainIsGood
    <2> QED
      BY <2>1 DEF NoOverlay, Good
  <1> HIDE DEF c
  <1>4. Steady(d) /\ d.overlay.kind = "none"
    BY <1>3, AutoSelectIsSteady
  <1> HIDE DEF d
  <1>5. Good(d)
    BY <1>4 DEF Good, InSync
  <1>6. Good(OpenPicker(c))
    BY <1>3, OpenPickerIsGood
  <1> QED
    BY <1>2, <1>5, <1>6 DEF b, c, d

-----------------------------------------------------------------------------
(* The command line.                                                        *)

Booted == {x \in [ok : BOOLEAN, app : Apps] : Steady(x.app) /\ x.app.overlay.kind = "none"}

(* The App after some of the paths of the command line.                     *)
LEMMA AddedIsBooted ==
    ASSUME World, NEW x \in Booted, NEW anchor \in AllAnchors
    PROVE  AddAnchor(x.app, anchor) \in Booted /\ Failed(x.app) \in Booted
  <1> DEFINE r == AddAnchor(x.app, anchor)
  <1>1. Steady(x.app) /\ x.app.overlay.kind = "none" /\ x.app \in Apps
    BY DEF Booted
  <1>2. r.ok \in BOOLEAN /\ Steady(r.app) /\ r.app.overlay.kind = "none"
    BY <1>1, AddAnchorIsSteady
  <1>3. r = [ok |-> r.ok, app |-> r.app]
    <2>1. \E y : r = Done(y) \/ r = Failed(y)
      BY DEF AddAnchor
    <2> HIDE DEF r
    <2> QED
      BY <2>1 DEF Done, Failed
  <1> HIDE DEF r
  <1>4. r.app \in Apps
    BY <1>2 DEF Steady
  <1>5. r \in [ok : BOOLEAN, app : Apps]
    BY <1>2, <1>3, <1>4
  <1>6. r \in Booted
    BY <1>2, <1>5 DEF Booted
  <1>7. Failed(x.app) \in [ok : BOOLEAN, app : Apps] /\ Failed(x.app).app = x.app
    BY <1>1 DEF Failed
  <1>8. Failed(x.app) \in Booted
    BY <1>1, <1>7 DEF Booted
  <1> QED
    BY <1>6, <1>8 DEF r

(* One path after another, the workspace of the command line is built.      *)
LEMMA BootstrapIs ==
    ASSUME World, NEW args \in Sessions
    PROVE  Bootstrap(args) \in Booted
  <1> DEFINE n == Len(args)
             Step(k, x) == IF x.ok /\ (args[k] \in Roots => tomls[args[k]].named)
                           THEN AddAnchor(x.app, Anchor(args[k])) ELSE Failed(x.app)
             F == [k \in 1 .. n |-> [x \in Booted |-> Step(k, x)]]
  <1>1. n \in Nat /\ \A k \in 1 .. n : args[k] \in Roots \cup Files
    <2>1. args \in Seq(Roots \cup Files)
      BY SessionAssumption
    <2> QED
      BY <2>1, LenProperties, ElementOfSeq
  <1>2. Done(NewApp) \in Booted
    <2>1. Good(NewApp)
      BY NewAppIsGood
    <2>2. Steady(NewApp) /\ NewApp \in Apps
      BY <2>1 DEF Good, Steady
    <2>3. NewApp.overlay.kind = "none"
      BY DEF NewApp, NoOverlay
    <2>4. Done(NewApp) \in [ok : BOOLEAN, app : Apps] /\ Done(NewApp).app = NewApp
      BY <2>2 DEF Done
    <2> QED
      BY <2>2, <2>3, <2>4 DEF Booted
  <1> HIDE DEF n
  <1>3. \A k \in 1 .. n : \A x \in Booted : Step(k, x) \in Booted
    <2> TAKE k \in 1 .. n
    <2> TAKE x \in Booted
    <2>1. Anchor(args[k]) \in AllAnchors
      BY <1>1, AnchorIs
    <2> QED
      BY <2>1, AddedIsBooted
  <1> HIDE DEF Step
  <1>4. F \in [1 .. n -> [Booted -> Booted]]
    BY <1>3
  <1>5. PICK g : IteratesTo(g, n, Booted, Done(NewApp), F)
    <2> HIDE DEF F
    <2> QED
      BY <1>1, <1>2, <1>4, BoundedIterationExists
  <1>6. /\ g \in [0 .. n -> Booted] /\ g[0] = Done(NewApp)
        /\ \A k \in 1 .. n : g[k] = Step(k, g[k - 1])
    <2>1. \A k \in 1 .. n : k - 1 \in 0 .. n
      BY <1>1
    <2> QED
      BY <1>5, <2>1 DEF IteratesTo
  <1> HIDE DEF F
  <1>7. g = [k \in 0 .. n |-> IF k = 0 THEN Done(NewApp) ELSE Step(k, g[k - 1])]
    <2>1. \A k \in 0 .. n : k = 0 \/ k \in 1 .. n
      BY <1>1
    <2>2. 0 \notin 1 .. n
      OBVIOUS
    <2>3. \A k \in 0 .. n : g[k] = IF k = 0 THEN Done(NewApp) ELSE Step(k, g[k - 1])
      BY <1>6, <2>1, <2>2
    <2>4. g = [k \in 0 .. n |-> g[k]]
      BY <1>6
    <2> QED
      BY <2>3, <2>4
  <1> DEFINE f == CHOOSE f : f = [k \in 0 .. n |-> IF k = 0 THEN Done(NewApp) ELSE Step(k, f[k - 1])]
  <1>8. f = [k \in 0 .. n |-> IF k = 0 THEN Done(NewApp) ELSE Step(k, f[k - 1])]
    BY <1>7
  <1>9. Bootstrap(args) = f[n]
    BY DEF Bootstrap, Step, n
  <1> HIDE DEF f
  <1>10. f[0] \in Booted
    BY <1>1, <1>2, <1>8
  <1>11. \A k \in Nat : k + 1 <= n /\ f[k] \in Booted => f[k + 1] \in Booted
    <2> SUFFICES ASSUME NEW k \in Nat, k + 1 <= n, f[k] \in Booted PROVE f[k + 1] \in Booted
      OBVIOUS
    <2>1. k + 1 \in 1 .. n /\ k + 1 \in 0 .. n /\ k + 1 # 0 /\ (k + 1) - 1 = k
      BY <1>1
    <2>2. f[k + 1] = Step(k + 1, f[k])
      BY <1>8, <2>1
    <2> QED
      BY <1>3, <2>1, <2>2
  <1> DEFINE S == {k \in Nat : k <= n => f[k] \in Booted}
  <1>12. 0 \in S /\ \A k \in Nat : k \in S => k + 1 \in S
    <2>1. \A k \in Nat : k + 1 <= n => k <= n
      BY <1>1
    <2> QED
      BY <1>10, <1>11, <2>1
  <1>13. n \in S
    <2> HIDE DEF S
    <2> QED
      BY <1>1, <1>12, NatSetInduction
  <1> QED
    BY <1>1, <1>9, <1>13

-----------------------------------------------------------------------------
(* The invariant holds.                                                     *)

(* A session that gets past the command line starts well.                   *)
LEMMA InitInv == Init => IInv
  <1> SUFFICES ASSUME Init PROVE IInv
    OBVIOUS
  <1>1. World
    <2>1. /\ disk \in [Files -> Contents]
          /\ tomls \in [Roots -> UNION Range(Tomls)] /\ \A r \in Roots : tomls[r] \in Tomls[r]
      BY DEF Init
    <2> QED
      BY <2>1 DEF World
  <1>2. PICK args \in Sessions : app = MaybeAutoSelect(Bootstrap(args).app).app
    BY DEF Init
  <1> DEFINE b == Bootstrap(args).app
  <1>3. Steady(b) /\ b.overlay.kind = "none"
    BY <1>1, BootstrapIs DEF Booted
  <1> HIDE DEF b
  <1>4. Steady(MaybeAutoSelect(b).app) /\ MaybeAutoSelect(b).app.overlay = b.overlay
    BY <1>1, <1>3, AutoSelectIsSteady
  <1>5. Steady(app) /\ app.overlay.kind = "none"
    BY <1>2, <1>3, <1>4 DEF b
  <1>6. Good(app)
    BY <1>5 DEF Good, InSync
  <1>7. edits = 0 /\ phase = "draw"
    BY DEF Init
  <1>8. edits \in 0 .. MaxEdits
    BY <1>7, SessionAssumption
  <1> QED
    BY <1>1, <1>6, <1>7, <1>8 DEF IInv, NoDeadEnd

(* A key was handled.                                                       *)
LEMMA KeyInv ==
    ASSUME IInv, Good(app'), phase' = "draw", UNCHANGED << disk, tomls, edits >>
    PROVE  IInv'
  <1>1. Good(app)'
    OBVIOUS
  <1>2. World' /\ (edits \in 0 .. MaxEdits)'
    BY DEF IInv, World
  <1>3. NoDeadEnd'
    BY DEF NoDeadEnd
  <1> QED
    BY <1>1, <1>2, <1>3 DEF IInv

(* Drawing: the picker comes up before the main view could wait without a   *)
(* program.                                                                 *)
LEMMA DrawInv ==
    ASSUME IInv, Draw
    PROVE  IInv'
  <1>1. Good(app)
    BY DEF IInv
  <1>2. app' = EnsureTrace(EnsureNoDeadEnd(app)) /\ phase' = "key" /\ UNCHANGED << disk, tomls, edits >>
    BY DEF Draw
  <1>3. Good(app') /\ (app'.overlay.kind = "none" => app'.active # None)
    BY <1>1, <1>2, DrawnIsGood
  <1>4. World' /\ (edits \in 0 .. MaxEdits)'
    BY <1>2 DEF IInv, World
  <1> QED
    BY <1>2, <1>3, <1>4 DEF IInv, NoDeadEnd

(* The keys of the main view.                                               *)
LEMMA MainViewInv ==
    ASSUME IInv, MainView
    PROVE  IInv'
  <1>1. Good(app) /\ Steady(app) /\ app \in Apps /\ Counts(Entries(app))
    BY EntriesAre DEF IInv, Good, Steady
  <1>2. Fits(app.body, Entries(app))
    BY <1>1, FieldsOf DEF Steady, Fits
  <1>3. ASSUME NEW b, Handle([app EXCEPT !.body = b]), Fits(b, Entries(app))
        PROVE  IInv'
    <2>1. Good([app EXCEPT !.body = b])
      BY <1>1, <1>3, BodyIsGood
    <2>2. app' = [app EXCEPT !.body = b] /\ phase' = "draw" /\ UNCHANGED << disk, tomls, edits >>
      BY <1>3 DEF Handle
    <2>3. Good(app')
      BY <2>1, <2>2
    <2> QED
      BY <2>2, <2>3, KeyInv
  <1>4. CASE Handle([app EXCEPT !.overlay = [kind |-> "help"]])
    <2>1. Good([app EXCEPT !.overlay = [kind |-> "help"]])
      BY <1>1, PlainIsGood
    <2>2. Good(app')
      BY <1>4, <2>1 DEF Handle
    <2> QED
      BY <1>4, <2>2, KeyInv DEF Handle
  <1>5. CASE Handle([app EXCEPT !.body = ToggleFocus(@)])
    <2>1. Fits(ToggleFocus(app.body), Entries(app))
      BY <1>1, <1>2, MovesFit
    <2> QED
      BY <1>3, <1>5, <2>1
  <1>6. ASSUME NEW forward \in BOOLEAN, Handle([app EXCEPT !.body = CycleTab(@, forward)])
        PROVE  IInv'
    <2>1. Fits(CycleTab(app.body, forward), Entries(app))
      BY <1>2, CycleFits
    <2> QED
      BY <1>3, <1>6, <2>1
  <1>7. CASE Handle([app EXCEPT !.body = CloseActiveTab(@)])
    <2>1. Fits(CloseActiveTab(app.body), Entries(app))
      BY <1>2, CloseFits
    <2> QED
      BY <1>3, <1>7, <2>1
  <1>8. CASE Handle([app EXCEPT !.body = HandleTab(@, Entries(app))])
    <2>1. Fits(HandleTab(app.body, Entries(app)), Entries(app))
      BY <1>1, <1>2, MovesFit
    <2> QED
      BY <1>3, <1>8, <2>1
  <1>9. CASE Handle([app EXCEPT !.body = LaunchUnderCursor(@, Entries(app))])
    <2>1. Fits(LaunchUnderCursor(app.body, Entries(app)), Entries(app))
      BY <1>1, <1>2, LaunchFits
    <2> QED
      BY <1>3, <1>9, <2>1
  <1>10. CASE Handle(BodyUp(app)) \/ Handle(BodyDown(app))
    <2>1. Good(BodyUp(app)) /\ Good(BodyDown(app))
      BY <1>1, ArrowsAreGood
    <2>2. Good(app')
      BY <1>10, <2>1 DEF Handle
    <2> QED
      BY <1>10, <2>2, KeyInv DEF Handle
  <1> QED
    BY <1>4, <1>5, <1>6, <1>7, <1>8, <1>9, <1>10 DEF MainView

(* The keys that open, close and move in overlays.                          *)
LEMMA OverlayInv ==
    ASSUME IInv, OpenOverlay \/ Dismiss \/ PickerMoves
    PROVE  IInv'
  <1>1. Good(app) /\ Steady(app)
    BY DEF IInv, Good
  <1>2. ASSUME NEW b, Handle(b), Good(b)
        PROVE  IInv'
    <2>1. Good(app') /\ phase' = "draw" /\ UNCHANGED << disk, tomls, edits >>
      BY <1>2 DEF Handle
    <2> QED
      BY <2>1, KeyInv
  <1>3. CASE OpenOverlay
    <2>1. Good(OpenPicker(app)) /\ Good([app EXCEPT !.overlay = [kind |-> "open"]])
      BY <1>1, OpenPickerIsGood, PlainIsGood
    <2> QED
      BY <1>2, <1>3, <2>1 DEF OpenOverlay
  <1>4. CASE Dismiss
    <2>1. Good([app EXCEPT !.overlay = [kind |-> "none"]])
      BY <1>1, PlainIsGood
    <2> QED
      BY <1>2, <1>4, <2>1 DEF Dismiss, NoOverlay
  <1>5. CASE PickerMoves
    <2>1. app.overlay.kind = "picker"
      BY <1>5 DEF PickerMoves
    <2>2. ASSUME NEW input \in Filters \cup {None}
          PROVE  /\ Good([app EXCEPT !.overlay = Picker!PickerUp(app.overlay)])
                 /\ Good([app EXCEPT !.overlay = Picker!PickerDown(app.overlay)])
                 /\ Good([app EXCEPT !.overlay = Picker!Typed(app.overlay, input)])
      BY <1>1, <2>1, PickerMovesAreGood
    <2>3. CASE Handle([app EXCEPT !.overlay = Picker!PickerUp(@)])
      BY <1>2, <2>2, <2>3
    <2>4. CASE Handle([app EXCEPT !.overlay = Picker!PickerDown(@)])
      BY <1>2, <2>2, <2>4
    <2>5. CASE \E input \in Filters \cup {None} :
                 Handle([app EXCEPT !.overlay = Picker!Typed(@, input)])
      BY <1>2, <2>2, <2>5
    <2> QED
      BY <1>5, <2>3, <2>4, <2>5 DEF PickerMoves
  <1> QED
    BY <1>3, <1>4, <1>5

(* The keys that choose: a program, an anchor to remove, a path to open.    *)
LEMMA ChooseInv ==
    ASSUME IInv, PickProgram \/ RemoveOwning \/ OpenPath
    PROVE  IInv'
  <1>1. Good(app) /\ Steady(app) /\ World
    BY DEF IInv, Good
  <1>2. ASSUME NEW b, Handle(b), Good(b)
        PROVE  IInv'
    <2>1. Good(app') /\ phase' = "draw" /\ UNCHANGED << disk, tomls, edits >>
      BY <1>2 DEF Handle
    <2> QED
      BY <2>1, KeyInv
  <1> DEFINE sel == Resolve(app, Picker!Chosen(app.overlay))
  <1>3. sel # None => sel \in ToActivate(app.programs, app.workspace)
    BY <1>1, ResolveIs
  <1>4. CASE PickProgram
    <2>1. /\ sel # None
          /\ Handle(IF SetActive(app, sel).ok
                    THEN [SetActive(app, sel).app EXCEPT !.overlay = NoOverlay] ELSE app)
      BY <1>4 DEF PickProgram
    <2> HIDE DEF sel
    <2>2. Good(IF SetActive(app, sel).ok
               THEN [SetActive(app, sel).app EXCEPT !.overlay = NoOverlay] ELSE app)
      BY <1>1, <1>3, <2>1, PickedIsGood
    <2> QED
      BY <1>2, <2>1, <2>2
  <1>5. CASE RemoveOwning
    <2> DEFINE anchor == Owner(app, sel)
    <2>1. /\ sel # None /\ app.overlay.kind = "picker"
          /\ Handle(IF RemoveAnchor(app, anchor).ok
                    THEN RefreshPicker(MaybeAutoSelect(RemoveAnchor(app, anchor).app).app)
                    ELSE app)
      BY <1>5 DEF RemoveOwning
    <2> HIDE DEF sel
    <2>2. anchor \in AllAnchors
      BY <1>1, <1>3, <2>1, OwnerIs
    <2> HIDE DEF anchor
    <2>3. Good(IF RemoveAnchor(app, anchor).ok
               THEN RefreshPicker(MaybeAutoSelect(RemoveAnchor(app, anchor).app).app)
               ELSE app)
      BY <1>1, <2>1, <2>2, RemovedIsGood
    <2> QED
      BY <1>2, <2>1, <2>3
  <1>6. CASE OpenPath
    <2> DEFINE opened(anchor) ==
                 LET added == AddAnchor(app, anchor)
                     closed == [added.app EXCEPT !.overlay = NoOverlay]
                     auto == MaybeAutoSelect(closed)
                 IN  IF ~added.ok THEN added.app
                     ELSE IF auto.ok THEN auto.app ELSE OpenPicker(closed)
    <2>1. PICK path \in Roots \cup Files : Handle(opened(Anchor(path)))
      BY <1>6 DEF OpenPath
    <2>2. app.overlay.kind = "open"
      BY <1>6 DEF OpenPath
    <2>3. Anchor(path) \in AllAnchors
      BY AnchorIs
    <2>4. Good(opened(Anchor(path)))
      BY <1>1, <2>2, <2>3, OpenedIsGood
    <2> HIDE DEF opened
    <2> QED
      BY <1>2, <2>1, <2>4
  <1> QED
    BY <1>4, <1>5, <1>6

(* What happens beside the keys.                                            *)
LEMMA WorldInv ==
    ASSUME IInv, Quit \/ Idle \/ ServerDies \/ FilesChange
    PROVE  IInv'
  <1>1. Good(app) /\ Steady(app) /\ World /\ edits \in 0 .. MaxEdits /\ NoDeadEnd
        /\ phase \in {"draw", "key", "quit"}
    BY DEF IInv, Good
  <1>2. CASE Quit
    <2>1. Good(app')
      BY <1>2, NewAppIsGood DEF Quit
    <2>2. World' /\ (edits \in 0 .. MaxEdits)' /\ phase' = "quit"
      BY <1>1, <1>2 DEF Quit, World
    <2> QED
      BY <2>1, <2>2 DEF IInv, NoDeadEnd
  <1>3. CASE Idle
    <2>1. Good(app')
      BY <1>1, <1>3 DEF Idle, Handle
    <2> QED
      BY <1>3, <2>1, KeyInv DEF Idle, Handle
  <1>4. CASE ServerDies
    <2> DEFINE s == [app.server EXCEPT !.up = FALSE]
    <2>1. app \in Apps /\ app.server \in Servers
      BY <1>1, FieldsOf DEF Steady
    <2>2. /\ s \in Servers /\ s.up = FALSE /\ s.active = app.server.active
          /\ s.projects = app.server.projects
      BY <2>1 DEF Servers
    <2>3. app' = [app EXCEPT !.server = s] /\ UNCHANGED << disk, tomls, edits, phase >>
      BY <1>4, <2>1 DEF ServerDies, Apps
    <2> HIDE DEF s
    <2>4. /\ app' \in Apps /\ app'.server = s /\ app'.programs = app.programs
          /\ app'.workspace = app.workspace /\ app'.active = app.active
          /\ app'.entities = app.entities /\ app'.views = app.views /\ app'.body = app.body
          /\ app'.trace = app.trace /\ app'.overlay = app.overlay
      BY <2>1, <2>2, <2>3 DEF Apps
    <2>5. Entries(app') = Entries(app)
      BY <2>4 DEF Entries
    <2>6. Shows(app'.active, app'.server, app'.entities, app'.views, app'.trace)
      BY <1>1, <2>2, <2>4 DEF Steady, Shows
    <2>7. Good(app')
      BY <1>1, <2>2, <2>4, <2>5, <2>6 DEF Good, Steady
    <2>8. World' /\ (edits \in 0 .. MaxEdits)' /\ NoDeadEnd' /\ (phase \in {"draw", "key", "quit"})'
      BY <1>1, <2>3, <2>4 DEF World, NoDeadEnd
    <2> QED
      BY <2>7, <2>8 DEF IInv
  <1>5. CASE FilesChange
    <2>1. app' = app /\ phase' = phase /\ edits' = edits + 1 /\ edits < MaxEdits
      BY <1>5 DEF FilesChange
    <2>2. edits' \in 0 .. MaxEdits
      BY <1>1, <2>1, SessionAssumption
    <2>3. CASE \E f \in Files, c \in Contents \cup {None} :
                 disk' = [disk EXCEPT ![f] = c] /\ UNCHANGED tomls
      BY <1>1, <2>1, <2>2, <2>3 DEF World, IInv, NoDeadEnd
    <2>4. CASE \E r \in Roots : \E t \in Tomls[r] : tomls' = [tomls EXCEPT ![r] = t] /\ UNCHANGED disk
      <3>1. PICK r \in Roots : \E t \in Tomls[r] : tomls' = [tomls EXCEPT ![r] = t] /\ UNCHANGED disk
        BY <2>4
      <3>2. PICK t \in Tomls[r] : tomls' = [tomls EXCEPT ![r] = t] /\ UNCHANGED disk
        BY <3>1
      <3>3. t \in UNION Range(Tomls)
        BY SessionAssumption DEF Range
      <3>4. World'
        BY <1>1, <3>2, <3>3 DEF World
      <3> QED
        BY <1>1, <2>1, <2>2, <3>4 DEF IInv, NoDeadEnd
    <2> QED
      BY <1>5, <2>3, <2>4 DEF FilesChange
  <1> QED
    BY <1>2, <1>3, <1>4, <1>5

(* Every step keeps the invariant.                                          *)
LEMMA StepInv == IInv /\ [Next]_vars => IInv'
  <1> SUFFICES ASSUME IInv, [Next]_vars PROVE IInv'
    OBVIOUS
  <1>1. CASE Next
    BY <1>1, DrawInv, MainViewInv, OverlayInv, ChooseInv, WorldInv DEF Next
  <1>2. CASE UNCHANGED vars
    BY <1>2 DEF vars, IInv, World, NoDeadEnd
  <1> QED
    BY <1>1, <1>2

(* The invariant of every session.                                          *)
LEMMA Inductive == Spec => []IInv
  <1> QED
    BY InitInv, StepInv, PTL DEF Spec

-----------------------------------------------------------------------------
(* What the user sees.                                                      *)

(* The state has its shape, and no cursor, tab or trace points past an end: *)
(* closing, cycling and opening tabs, a change of program and a fetched     *)
(* trace keep it so.                                                        *)
THEOREM TypeCorrect == Spec => []TypeOK
  <1>1. IInv => TypeOK
    <2> SUFFICES ASSUME IInv PROVE TypeOK
      OBVIOUS
    <2>1. app \in Apps /\ BodyFits(app.body, Entries(app)) /\ TraceFits(app.trace)
      BY DEF IInv, Good, Steady
    <2>2. app.overlay.kind \in {"none", "picker", "open", "help", "error"}
      BY <2>1, FieldsOf DEF PlainOverlays, Pickers
    <2> QED
      BY <2>1, <2>2 DEF IInv, TypeOK, BodyFits, TraceFits, Sections
  <1> QED
    BY <1>1, Inductive, PTL

(* Every tab leads to a category or a view the active program has, and no   *)
(* two to the same, although tabs hold positions in lists that a change of  *)
(* program replaces.                                                        *)
THEOREM TabsLeadSomewhere == Spec => []TabsFit
  <1>1. IInv => TabsFit
    <2> SUFFICES ASSUME IInv PROVE TabsFit
      OBVIOUS
    <2>1. app \in Apps /\ BodyFits(app.body, Entries(app))
      BY DEF IInv, Good, Steady
    <2>2. Entries(app)["entities"] = app.entities /\ Entries(app)["views"] = Len(app.views)
      BY <2>1, EntriesAre
    <2> QED
      BY <2>1, <2>2 DEF TabsFit, BodyFits
  <1> QED
    BY <1>1, Inductive, PTL

(* What is on the screen belongs to the active program, and while the       *)
(* server lives it is the program the server answers about, whatever        *)
(* projects were opened, removed or edited in between.                      *)
THEOREM ScreenShowsActive == Spec => []ShowsTheActiveProgram
  <1>1. IInv => ShowsTheActiveProgram
    BY DEF IInv, Good, Steady, Shows, ShowsTheActiveProgram
  <1> QED
    BY <1>1, Inductive, PTL

(* The active program is reached through an anchor of the workspace:        *)
(* removing the anchor takes the program with it.                           *)
THEOREM ActiveHasAnAnchor == Spec => []ActiveIsAnchored
  <1>1. IInv => ActiveIsAnchored
    BY DEF IInv, Good, Steady, Anchored, ActiveIsAnchored, InWorkspace, Range
  <1> QED
    BY <1>1, Inductive, PTL

(* An open picker shows the rows its keys resolve against, with the cursor  *)
(* on one that can be chosen when the filter leaves one.                    *)
THEOREM PickerShowsWhatItPicks == Spec => []PickerInSync
  <1>1. IInv => PickerInSync
    <2> SUFFICES ASSUME IInv, app.overlay.kind = "picker" PROVE PickerInSync
      BY DEF PickerInSync
    <2> DEFINE p == app.overlay
               rows == Picker!Filtered(p.items, p.input)
    <2>1. app \in Apps /\ InSync(p, app.programs, app.workspace)
      BY DEF IInv, Good, Steady
    <2>2. p.items = BuildProgramItems(app).items
      BY <2>1 DEF InSync, BuildProgramItems
    <2>3. Candidates(p) # {} => p.cursor \in Candidates(p)
      BY <2>1 DEF InSync
    <2>4. Candidates(p) = {i \in DOMAIN rows : p.items[rows[i]].kind = "selectable"}
      BY DEF Candidates
    <2>5. p \in Pickers
      BY <2>1, FieldsOf DEF PlainOverlays
    <2>6. ASSUME p.cursor \in Candidates(p) PROVE Picker!Chosen(p) # None
      <3>1. p.cursor \in DOMAIN rows /\ p.items[rows[p.cursor]].kind = "selectable"
        BY <2>4, <2>6
      <3>2. Picker!Chosen(p) = p.items[rows[p.cursor]]
        BY <3>1 DEF Picker!Chosen
      <3>3. rows \in Seq(DOMAIN p.items) /\ p.items \in Seq(AllRows)
        BY <2>5, FilteredIs DEF Pickers
      <3> HIDE DEF rows
      <3>4. p.items[rows[p.cursor]] \in AllRows
        BY <3>1, <3>3, LenProperties, ElementOfSeq
      <3>5. p.items[rows[p.cursor]] \in SelectableRows
        BY <3>1, <3>4 DEF AllRows
      <3> QED
        BY <3>2, <3>5, SessionAssumption
    <2> QED
      BY <2>2, <2>3, <2>4, <2>6 DEF PickerInSync
  <1> QED
    BY <1>1, Inductive, PTL

(* The main view never waits for a key without an active program.           *)
THEOREM NeverADeadEnd == Spec => []NoDeadEnd
  <1>1. IInv => NoDeadEnd
    BY DEF IInv
  <1> QED
    BY <1>1, Inductive, PTL
=============================================================================
