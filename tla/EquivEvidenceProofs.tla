------------------------ MODULE EquivEvidenceProofs ------------------------
(***************************************************************************)
(* Theorems about EquivEvidence, for any number of programs, pairs and     *)
(* commands that run at once: what a saved witness pins is on disk, and a  *)
(* command that saves leaves no lift pinned to bodies it does not have.    *)
(***************************************************************************)
EXTENDS EquivEvidence, TLAPS

Running(p) == pass[p] # "idle"

Owned(p) == {n \in Pairs : Owner[n] = p}

Loaded == [pin : [Pairs -> Pins], live : [Pairs -> Shapes], ingest : BOOLEAN]

(* No other pair has its artifact in the same file.                        *)
Alone(n) == SameFile(n) = {n}

Shape ==
    /\ live \in [Pairs -> Shapes]
    /\ pin \in [Pairs -> Pins]
    /\ pass \in [Programs -> Kinds \cup {"idle", "save"}]
    /\ dry \in [Programs -> BOOLEAN]
    /\ DOMAIN mem = Programs
    /\ \A p \in Programs : Running(p) => mem[p] \in Loaded
    /\ wrote \in [Programs -> SUBSET Pairs]
    /\ todo \in [Programs -> SUBSET Pairs]

(* A pass checks the pairs of its own kind and program; an idle command, or *)
(* a dry one, has renewed nothing.                                          *)
Progress ==
    \A p \in Programs :
        /\ todo[p] \subseteq Of(p, pass[p])
        /\ wrote[p] \subseteq Owned(p)
        /\ ~Running(p) \/ dry[p] => wrote[p] = {}

(* What is saved verifies, and so will what a running command has in        *)
(* memory: a pin it renewed has its file, one it did not is the saved one.  *)
Backed(n) ==
    LET p == Owner[n] IN
    /\ n \notin unsettled => Verifies(n)
    /\ Running(p) /\ n \in wrote[p] /\ mem[p].pin[n] \in Shapes
          => Artifact(n, mem[p].pin[n]) \in files
    /\ Running(p) /\ n \notin wrote[p] /\ n \notin unsettled
          => mem[p].pin[n] \in {pin[n], "none"}

PinsBacked == \A n \in Pairs : Alone(n) => Backed(n)

(* The check of pair n is behind the command.                               *)
Done(p, n) ==
    \/ pass[p] = "save"
    \/ Kind[n] = "lift" /\ pass[p] \in {"tree", "rel"}
    \/ Kind[n] = "tree" /\ pass[p] = "rel"
    \/ Kind[n] = pass[p] /\ n \notin todo[p]

(* What Save relies on for BumpRepins: a pin whose check is behind the       *)
(* command fits the bodies the command has.                                 *)
Current(n) ==
    LET p == Owner[n] IN Running(p) =>
        /\ mem[p].ingest => pass[p] \in {"lift", "save"}
        /\ Kind[n] = "lift" /\ Done(p, n) =>
              \/ mem[p].pin[n] = mem[p].live[n]
              \/ Answer[mem[p].live[n]] = "gone"
        /\ Kind[n] = "tree" /\ ~mem[p].ingest /\ Done(p, n) /\ Answer[mem[p].live[n]] = "yes" =>
              mem[p].pin[n] = mem[p].live[n]
        /\ Kind[n] = "rel" /\ ~mem[p].ingest /\ Done(p, n) =>
              \/ mem[p].pin[n] \in {"none", mem[p].live[n]}
              \/ Answer[mem[p].live[n]] \in {"unknown", "gone"}

AllCurrent == \A n \in Pairs : Current(n)

IInv == Shape /\ Progress /\ PinsBacked /\ AllCurrent

-----------------------------------------------------------------------------
LEMMA InitIInv == Init => IInv
  <1> SUFFICES ASSUME Init PROVE IInv
    OBVIOUS
  <1> USE PairsAssumption
  <1>1. pin \in [Pairs -> Pins]
    BY DEF Init, Pins
  <1>2. live \in [Pairs -> Shapes]
    BY DEF Init
  <1>3. Shape
    BY <1>1, <1>2 DEF Init, Shape, Running
  <1>4. Progress
    BY DEF Init, Progress, Running
  <1>5. \A n \in Pairs : pin[n] \notin Shapes
    BY DEF Init
  <1>6. PinsBacked /\ AllCurrent
    BY <1>5 DEF Init, PinsBacked, Backed, Verifies, AllCurrent, Current, Running
  <1> QED
    BY <1>3, <1>4, <1>6 DEF IInv

-----------------------------------------------------------------------------
(* What every step that is not a check keeps of the shape.                  *)
LEMMA WrittenAddsOnlyItsOwn ==
    ASSUME NEW n \in Pairs, NEW m \in Pairs, NEW s, NEW v, m \notin SameFile(n)
    PROVE  Artifact(m, v) \in Written(n, s) <=> Artifact(m, v) \in files
  <1>1. Kind[m] # Kind[n] \/ Path[m] # Path[n]
    BY DEF SameFile
  <1>2. Artifact(m, v)[1] = Kind[m] /\ Artifact(m, v)[2] = Path[m]
    BY DEF Artifact
  <1>3. Artifact(m, v) # Artifact(n, s)
    BY <1>1 DEF Artifact
  <1> QED
    BY <1>1, <1>2, <1>3 DEF Written

(* The new artifact is there; a relational one takes nothing away.          *)
LEMMA WrittenHasIt ==
    ASSUME NEW n \in Pairs, NEW s
    PROVE  /\ Artifact(n, s) \in Written(n, s)
           /\ Kind[n] = "rel" => files \subseteq Written(n, s)
  BY DEF Written

(* A pin in memory is one pin of one program.                               *)
LEMMA PinnedIsOnePin ==
    ASSUME Shape, NEW p \in Programs, NEW n \in Pairs, NEW s \in Pins,
           Running(p), Pinned(p, n, s)
    PROVE  /\ DOMAIN mem' = Programs
           /\ mem'[p] \in Loaded
           /\ mem'[p].pin = [mem[p].pin EXCEPT ![n] = s]
           /\ mem'[p].live = mem[p].live
           /\ mem'[p].ingest = mem[p].ingest
           /\ \A q \in Programs : q # p => mem'[q] = mem[q]
  <1>1. mem[p] \in Loaded
    BY DEF Shape
  <1>2. mem'[p] = [mem[p] EXCEPT !.pin = [mem[p].pin EXCEPT ![n] = s]]
    BY DEF Pinned, Shape
  <1>3. [mem[p].pin EXCEPT ![n] = s] \in [Pairs -> Pins]
    BY <1>1 DEF Loaded
  <1>4. /\ mem'[p].pin = [mem[p].pin EXCEPT ![n] = s]
        /\ mem'[p].live = mem[p].live
        /\ mem'[p].ingest = mem[p].ingest
        /\ mem'[p] \in Loaded
    BY <1>1, <1>2, <1>3 DEF Loaded
  <1> QED
    BY <1>4 DEF Pinned, Shape

(* The two kinds of check as one: what it may do to the pair it checks.     *)
CheckOf(p, n) ==
    LET s == mem[p].live[n] IN
    /\ n \in todo[p]
    /\ UNCHANGED <<live, pin, pass, dry>>
    /\ todo' = [todo EXCEPT ![p] = @ \ {n}]
    /\ \/ \* left alone
          /\ UNCHANGED <<mem, wrote, unsettled>>
          /\ files' = files \/ (Kind[n] = "rel" /\ files' = Written(n, s))
          /\ Kind[n] = "lift" => mem[p].pin[n] = s \/ Answer[s] = "gone"
          /\ Kind[n] = "tree" /\ Answer[s] = "yes" => mem[p].pin[n] = s
          /\ Kind[n] = "rel" => Answer[s] \in {"unknown", "gone"}
       \/ \* pinned, with its artifact
          /\ Pinned(p, n, s)
          /\ ~dry[p]
          /\ files' = Written(n, s)
          /\ wrote' = [wrote EXCEPT ![p] = @ \cup {n}]
          /\ \/ unsettled' = unsettled \cup SameFile(n)
             \/ Kind[n] = "rel" /\ unsettled' = unsettled
       \/ \* pinned on a dry run
          /\ Pinned(p, n, s)
          /\ dry[p]
          /\ files' = files \/ files' = files \ {Artifact(n, s)}
          /\ unsettled' = unsettled \cup {n}
          /\ UNCHANGED wrote
       \/ \* refuted
          /\ Kind[n] = "rel"
          /\ Pinned(p, n, "none")
          /\ files' = Written(n, s)
          /\ UNCHANGED <<wrote, unsettled>>

LEMMA ChecksAreChecks ==
    ASSUME IInv, NEW p \in Programs, NEW n \in Pairs,
           CheckWalk(p, n) \/ CheckRel(p, n)
    PROVE  CheckOf(p, n) /\ Running(p) /\ Owner[n] = p /\ Kind[n] = pass[p]
  <1> DEFINE s == mem[p].live[n]
  <1>1. n \in todo[p] /\ Running(p)
    BY DEF CheckWalk, CheckRel, Running
  <1>2. Owner[n] = p /\ Kind[n] = pass[p]
    BY <1>1 DEF IInv, Progress, Of
  <1>3. s \in Shapes /\ Answer[s] \in {"yes", "no", "unknown", "gone"}
    BY <1>1, PairsAssumption DEF IInv, Shape, Loaded
  <1>4. CASE CheckWalk(p, n)
    <2>1. Kind[n] \in {"lift", "tree"}
      BY <1>2, <1>4 DEF CheckWalk
    <2>2. /\ UNCHANGED <<live, pin, pass, dry>>
          /\ todo' = [todo EXCEPT ![p] = @ \ {n}]
      BY <1>4 DEF CheckWalk, CheckedOff
    <2>3. \/ /\ \/ mem[p].pin[n] = s
                \/ Answer[s] = "gone"
                \/ pass[p] = "tree" /\ Answer[s] # "yes"
             /\ UNCHANGED <<files, mem, wrote, unsettled>>
          \/ Renew(p, n, s)
      BY <1>4 DEF CheckWalk, Repin
    <2>4. CASE Renew(p, n, s)
      <3>1. Pinned(p, n, s)
        BY <2>4 DEF Renew
      <3>2. CASE dry[p]
        <4>1. files' = files /\ wrote' = wrote /\ unsettled' = unsettled \cup {n}
          BY <2>4, <3>2 DEF Renew
        <4> QED
          BY <1>1, <1>2, <2>2, <3>1, <3>2, <4>1 DEF CheckOf
      <3>3. CASE ~dry[p]
        <4>1. /\ files' = Written(n, s)
              /\ wrote' = [wrote EXCEPT ![p] = @ \cup {n}]
              /\ unsettled' = unsettled \cup SameFile(n)
          BY <2>4, <3>3 DEF Renew
        <4> QED
          BY <1>1, <1>2, <2>2, <3>1, <3>3, <4>1 DEF CheckOf
      <3> QED
        BY <3>2, <3>3
    <2>5. CASE /\ \/ mem[p].pin[n] = s
                  \/ Answer[s] = "gone"
                  \/ pass[p] = "tree" /\ Answer[s] # "yes"
               /\ UNCHANGED <<files, mem, wrote, unsettled>>
      BY <1>1, <1>2, <2>1, <2>2, <2>5 DEF CheckOf
    <2> QED
      BY <2>3, <2>4, <2>5
  <1>5. CASE CheckRel(p, n)
    BY <1>1, <1>2, <1>3, <1>5 DEF CheckRel, CheckOf, CheckedOff
  <1> QED
    BY <1>1, <1>2, <1>4, <1>5

(* A pair that another pair is checked for, and that shares no file, is as  *)
(* well backed as before.                                                   *)
LEMMA CheckInv ==
    ASSUME IInv, NEW p \in Programs, NEW n \in Pairs,
           CheckOf(p, n), Running(p), Owner[n] = p, Kind[n] = pass[p]
    PROVE  IInv'
  <1> DEFINE s == mem[p].live[n]
  <1>1. mem[p] \in Loaded /\ s \in Shapes /\ s \in Pins /\ "none" \in Pins
    BY DEF IInv, Shape, Loaded, Pins
  <1>2. /\ UNCHANGED <<live, pin, pass, dry>>
        /\ todo' = [todo EXCEPT ![p] = @ \ {n}]
        /\ n \in todo[p]
    BY DEF CheckOf
  <1>3. /\ DOMAIN mem' = Programs
        /\ mem'[p] \in Loaded
        /\ mem'[p].live = mem[p].live
        /\ mem'[p].ingest = mem[p].ingest
        /\ \A m \in Pairs : m # n => mem'[p].pin[m] = mem[p].pin[m]
        /\ \A q \in Programs : q # p => mem'[q] = mem[q]
    <2>1. CASE UNCHANGED mem
      BY <1>1, <2>1 DEF IInv, Shape
    <2>2. ASSUME NEW v \in Pins, Pinned(p, n, v)
          PROVE  <1>3!:
      <3>1. mem'[p].pin = [mem[p].pin EXCEPT ![n] = v]
        BY <2>2, PinnedIsOnePin DEF IInv
      <3>2. \A m \in Pairs : m # n => mem'[p].pin[m] = mem[p].pin[m]
        BY <1>1, <3>1 DEF Loaded
      <3> QED
        BY <2>2, <3>2, PinnedIsOnePin DEF IInv
    <2> QED
      BY <1>1, <2>1, <2>2 DEF CheckOf
  <1>4. \A v \in Pins : Pinned(p, n, v) => mem'[p].pin[n] = v
    <2> SUFFICES ASSUME NEW v \in Pins, Pinned(p, n, v)
                 PROVE  mem'[p].pin[n] = v
      OBVIOUS
    <2>1. mem'[p].pin = [mem[p].pin EXCEPT ![n] = v]
      BY PinnedIsOnePin DEF IInv
    <2> QED
      BY <1>1, <2>1 DEF Loaded
  <1>5. /\ wrote' \in [Programs -> SUBSET Pairs]
        /\ \A q \in Programs : q # p => wrote'[q] = wrote[q]
        /\ wrote'[p] = wrote[p] \/ (wrote'[p] = wrote[p] \cup {n} /\ ~dry[p])
    BY DEF CheckOf, IInv, Shape
  <1>6. Shape'
    BY <1>2, <1>3, <1>5 DEF IInv, Shape, Running
  <1>7. Progress'
    BY <1>2, <1>5 DEF IInv, Progress, Shape, Running, Of, Owned
  <1>8. AllCurrent'
    <2> SUFFICES ASSUME NEW m \in Pairs, Running(Owner[m])
                 PROVE  Current(m)'
      BY <1>2 DEF AllCurrent, Current, Running
    <2> DEFINE q == Owner[m]
    <2>1. /\ q \in Programs /\ pass'[q] = pass[q]
          /\ mem'[q].live = mem[q].live /\ mem'[q].ingest = mem[q].ingest
      BY <1>2, <1>3, PairsAssumption
    <2>2. CASE m # n
      <3>1. mem'[q].pin[m] = mem[q].pin[m]
        BY <1>3, <2>1, <2>2
      <3>2. Done(q, m)' <=> Done(q, m)
        BY <1>2, <2>2, <2>1 DEF Done, IInv, Shape
      <3> QED
        BY <2>1, <3>1, <3>2 DEF IInv, AllCurrent, Current
    <2>3. CASE m = n
      <3>1. mem[p].ingest => pass[p] \in {"lift", "save"}
        BY DEF IInv, AllCurrent, Current
      <3>2. Kind[n] = "lift" => mem'[p].pin[n] = s \/ Answer[s] = "gone"
        BY <1>1, <1>4 DEF CheckOf
      <3>3. Kind[n] = "rel" => \/ mem'[p].pin[n] \in {"none", s}
                               \/ Answer[s] \in {"unknown", "gone"}
        BY <1>1, <1>4 DEF CheckOf
      <3>4. Kind[n] = "tree" /\ Answer[s] = "yes" => mem'[p].pin[n] = s
        BY <1>1, <1>4 DEF CheckOf
      <3> QED
        BY <2>1, <2>3, <3>1, <3>2, <3>3, <3>4 DEF Current
    <2> QED
      BY <2>2, <2>3
  <1>9. PinsBacked'
    <2> SUFFICES ASSUME NEW m \in Pairs, Alone(m), Backed(m)
                 PROVE  Backed(m)'
      BY DEF IInv, PinsBacked, Alone, SameFile
    <2> DEFINE q == Owner[m]
    <2>1. q \in Programs /\ pass'[q] = pass[q] /\ pin' = pin
      BY <1>2, PairsAssumption
    <2>2. CASE m # n
      <3>1. m \notin SameFile(n)
        BY <2>2 DEF Alone, SameFile
      <3>2. \A v : Artifact(m, v) \in files' <=> Artifact(m, v) \in files
        <4>1. \A v : Artifact(m, v) \in Written(n, s) <=> Artifact(m, v) \in files
          BY <3>1, WrittenAddsOnlyItsOwn
        <4>2. \A v : Artifact(m, v) # Artifact(n, s)
          BY <3>1 DEF Artifact, SameFile
        <4> QED
          BY <4>1, <4>2 DEF CheckOf
      <3>3. mem'[q].pin[m] = mem[q].pin[m]
        BY <1>3, <2>1, <2>2
      <3>4. m \in wrote'[q] <=> m \in wrote[q]
        BY <1>5, <2>1, <2>2
      <3>5. m \in unsettled => m \in unsettled'
        BY DEF CheckOf
      <3> QED
        BY <2>1, <3>2, <3>3, <3>4, <3>5 DEF Backed, Verifies, Running
    <2>3. CASE m = n
      <3> USE <2>3
      <3>1. /\ q = p /\ SameFile(n) = {n}
            /\ n \notin unsettled => (pin[n] \in Shapes => Artifact(n, pin[n]) \in files)
            /\ n \in wrote[p] /\ mem[p].pin[n] \in Shapes
                  => Artifact(n, mem[p].pin[n]) \in files
            /\ n \notin wrote[p] /\ n \notin unsettled
                  => mem[p].pin[n] \in {pin[n], "none"}
        BY DEF Alone, Backed, Verifies
      <3>2. SUFFICES
               /\ n \notin unsettled' => (pin[n] \in Shapes => Artifact(n, pin[n]) \in files')
               /\ n \in wrote'[p] /\ mem'[p].pin[n] \in Shapes
                     => Artifact(n, mem'[p].pin[n]) \in files'
               /\ n \notin wrote'[p] /\ n \notin unsettled'
                     => mem'[p].pin[n] \in {pin[n], "none"}
        BY <1>2, <3>1 DEF Backed, Verifies
      <3>3. /\ Artifact(n, s) \in Written(n, s)
            /\ Kind[n] = "rel" => files \subseteq Written(n, s)
        BY WrittenHasIt
      <3>4. CASE /\ UNCHANGED <<mem, wrote, unsettled>>
                 /\ files' = files \/ (Kind[n] = "rel" /\ files' = Written(n, s))
        BY <3>1, <3>3, <3>4
      <3>5. CASE /\ Pinned(p, n, s)
                 /\ ~dry[p]
                 /\ files' = Written(n, s)
                 /\ wrote' = [wrote EXCEPT ![p] = @ \cup {n}]
                 /\ \/ unsettled' = unsettled \cup SameFile(n)
                    \/ Kind[n] = "rel" /\ unsettled' = unsettled
        <4>1. n \in wrote'[p] /\ mem'[p].pin[n] = s
          BY <1>1, <1>4, <3>5 DEF IInv, Shape
        <4> QED
          BY <3>1, <3>3, <3>5, <4>1
      <3>6. CASE /\ Pinned(p, n, s)
                 /\ dry[p]
                 /\ unsettled' = unsettled \cup {n}
                 /\ UNCHANGED wrote
        <4>1. n \notin wrote'[p] /\ n \in unsettled'
          BY <3>6 DEF IInv, Progress
        <4> QED
          BY <4>1
      <3>7. CASE /\ Kind[n] = "rel"
                 /\ Pinned(p, n, "none")
                 /\ files' = Written(n, s)
                 /\ UNCHANGED <<wrote, unsettled>>
        <4>1. mem'[p].pin[n] = "none" /\ "none" \notin Shapes
          BY <1>1, <1>4, <3>7, PairsAssumption
        <4> QED
          BY <3>1, <3>3, <3>7, <4>1
      <3> QED
        BY <3>4, <3>5, <3>6, <3>7 DEF CheckOf
    <2> QED
      BY <2>2, <2>3
  <1> QED
    BY <1>6, <1>7, <1>8, <1>9 DEF IInv

-----------------------------------------------------------------------------
(* Between commands: an edit changes no witness, a lost file unsettles the  *)
(* pairs that it was for.                                                   *)
LEMMA EditInv ==
    ASSUME IInv, NEW n \in Pairs, NEW s \in Outcomes[n], Edit(n, s)
    PROVE  IInv'
  <1>1. s \in Shapes
    BY PairsAssumption
  <1>2. Shape'
    BY <1>1 DEF IInv, Shape, Edit, Running
  <1> QED
    BY <1>2 DEF IInv, Progress, PinsBacked, Backed, Verifies, Alone, AllCurrent, Current,
                Done, Running, Edit

LEMMA LoseInv ==
    ASSUME IInv, NEW a, Lose(a)
    PROVE  IInv'
  <1>1. Shape' /\ Progress' /\ AllCurrent'
    BY DEF IInv, Shape, Progress, AllCurrent, Current, Done, Running, Lose
  <1>2. ASSUME NEW n \in Pairs, Backed(n)
        PROVE  Backed(n)'
    <2>1. ~Running(Owner[n])'
      BY PairsAssumption DEF Lose, Running
    <2>2. \A v : n \notin unsettled' => Artifact(n, v) # a
      BY DEF Lose, Artifact
    <2> QED
      BY <1>2, <2>1, <2>2 DEF Backed, Verifies, Lose
  <1> QED
    BY <1>1, <1>2 DEF IInv, PinsBacked, Alone

(* A command starts with the saved pins.                                    *)
LEMMA BeginInv ==
    ASSUME IInv, NEW p \in Programs, NEW i \in BOOLEAN, NEW d \in BOOLEAN,
           NEW l \in [Pairs -> Shapes], Begin(p, i, d, l)
    PROVE  IInv'
  <1>1. /\ ~Running(p) /\ wrote' = wrote /\ wrote[p] = {}
        /\ pin' = pin /\ files' = files /\ unsettled' = unsettled
    BY DEF Begin, Running, IInv, Progress
  <1>2. /\ pass'[p] = "lift"
        /\ mem'[p] = [pin |-> pin, live |-> l, ingest |-> i]
        /\ todo'[p] = Of(p, "lift")
        /\ \A q \in Programs : q # p =>
              /\ pass'[q] = pass[q] /\ mem'[q] = mem[q]
              /\ todo'[q] = todo[q] /\ dry'[q] = dry[q]
    BY DEF Begin, IInv, Shape
  <1>3. mem'[p] \in Loaded
    BY <1>2 DEF IInv, Shape, Loaded
  <1>4. Shape'
    BY <1>1, <1>2, <1>3 DEF Begin, IInv, Shape, Running, Kinds, Of
  <1>5. Progress'
    BY <1>1, <1>2 DEF IInv, Progress, Running, Owned, Of
  <1>6. ASSUME NEW n \in Pairs, Backed(n)
        PROVE  Backed(n)'
    <2>1. CASE Owner[n] = p
      BY <1>1, <1>2, <1>6, <2>1 DEF Backed, Verifies
    <2>2. CASE Owner[n] # p
      BY <1>1, <1>2, <1>6, <2>2, PairsAssumption DEF Backed, Verifies, Running
    <2> QED
      BY <2>1, <2>2
  <1>7. AllCurrent'
    <2> SUFFICES ASSUME NEW n \in Pairs
                 PROVE  Current(n)'
      BY DEF AllCurrent, Current
    <2>1. CASE Owner[n] = p
      BY <1>2, <2>1 DEF Current, Done, Of
    <2>2. CASE Owner[n] # p
      BY <1>2, <2>2, PairsAssumption DEF IInv, AllCurrent, Current, Done, Running
    <2> QED
      BY <2>1, <2>2
  <1> QED
    BY <1>4, <1>5, <1>6, <1>7 DEF IInv, PinsBacked, Alone

(* A command that ends without saving leaves what was saved as it is.       *)
LEMMA StopInv ==
    ASSUME IInv, NEW p \in Programs,
           Kill(p) \/ \E n \in Pairs : LiftCheckError(p, n)
    PROVE  IInv'
  <1>1. /\ UNCHANGED <<live, pin, files, dry, unsettled>>
        /\ pass' = [pass EXCEPT ![p] = "idle"]
        /\ mem' = [mem EXCEPT ![p] = Nothing]
        /\ todo' = [todo EXCEPT ![p] = {}]
        /\ wrote' = [wrote EXCEPT ![p] = {}]
    BY DEF Kill, LiftCheckError
  <1>2. Shape'
    BY <1>1 DEF IInv, Shape, Running
  <1>3. Progress'
    BY <1>1 DEF IInv, Shape, Progress, Running, Owned, Of
  <1>4. ASSUME NEW n \in Pairs
        PROVE  (Backed(n) => Backed(n)') /\ Current(n)'
    <2>1. CASE Owner[n] = p
      BY <1>1, <2>1 DEF Current, Backed, Verifies, Running, IInv, Shape
    <2>2. CASE Owner[n] # p
      BY <1>1, <2>2, PairsAssumption DEF Backed, Verifies, Running, IInv, Shape, AllCurrent, Current, Done
    <2> QED
      BY <2>1, <2>2
  <1> QED
    BY <1>2, <1>3, <1>4 DEF IInv, PinsBacked, Alone, AllCurrent, Current

(* The next pass starts when all pairs of this one are checked off.         *)
LEMMA NextPassInv ==
    ASSUME IInv, NEW p \in Programs, NextPass(p)
    PROVE  IInv'
  <1> DEFINE next == pass'[p]
  <1>1. /\ UNCHANGED <<live, pin, files, dry, mem, wrote, unsettled>>
        /\ pass[p] \in Kinds /\ todo[p] = {}
    BY DEF NextPass
  <1>2. mem[p].ingest \in BOOLEAN
    BY <1>1 DEF IInv, Shape, Loaded, Running, Kinds
  <1>3. /\ pass' = [pass EXCEPT ![p] = next]
        /\ todo' = [todo EXCEPT ![p] = Of(p, next)]
        /\ \/ mem[p].ingest /\ next = "save"
           \/ ~mem[p].ingest /\ pass[p] = "lift" /\ next = "tree"
           \/ ~mem[p].ingest /\ pass[p] = "tree" /\ next = "rel"
           \/ ~mem[p].ingest /\ pass[p] = "rel" /\ next = "save"
    BY <1>1, <1>2 DEF NextPass, Kinds, IInv, Shape
  <1>4. Shape'
    BY <1>1, <1>3 DEF IInv, Shape, Running, Kinds, Of
  <1>5. Progress'
    BY <1>1, <1>3 DEF IInv, Shape, Progress, Running, Kinds, Of, Owned
  <1>6. ASSUME NEW n \in Pairs, Backed(n)
        PROVE  Backed(n)'
    BY <1>1, <1>3, <1>6, PairsAssumption DEF Backed, Verifies, Running, IInv, Shape, Kinds
  <1>7. AllCurrent'
    <2> SUFFICES ASSUME NEW n \in Pairs
                 PROVE  Current(n)'
      BY DEF AllCurrent, Current
    <2>1. CASE Owner[n] = p
      <3>1. Running(p) /\ Current(n)
        BY <1>1 DEF IInv, AllCurrent, Current, Running, Kinds
      <3>2. Kind[n] = "lift" => Done(p, n)
        BY <1>1, <3>1 DEF Done, Kinds
      <3>3. Kind[n] \in {"tree", "rel"} /\ ~mem[p].ingest /\ Done(p, n)' => Done(p, n)
        BY <1>1, <1>3, <2>1 DEF Done, Kinds, Of, IInv, Shape
      <3> QED
        BY <1>1, <1>2, <1>3, <2>1, <3>1, <3>2, <3>3 DEF Current, IInv, Shape
    <2>2. CASE Owner[n] # p
      BY <1>1, <1>3, <2>2, PairsAssumption DEF IInv, Shape, AllCurrent, Current, Done, Running
    <2> QED
      BY <2>1, <2>2
  <1> QED
    BY <1>4, <1>5, <1>6, <1>7 DEF IInv, PinsBacked, Alone

(* Saving turns what the command has in memory into what is saved.          *)
LEMMA SaveInv ==
    ASSUME IInv, NEW p \in Programs, Save(p)
    PROVE  IInv'
  <1>1. /\ Running(p) /\ mem[p] \in Loaded
        /\ UNCHANGED <<files, dry, todo>>
        /\ unsettled' = unsettled \ wrote[p]
        /\ pass' = [pass EXCEPT ![p] = "idle"]
        /\ mem' = [mem EXCEPT ![p] = Nothing]
        /\ wrote' = [wrote EXCEPT ![p] = {}]
    BY DEF Save, Running, IInv, Shape
  <1>2. /\ pin' \in [Pairs -> Pins] /\ live' \in [Pairs -> Shapes]
        /\ \A n \in Pairs : pin'[n] = IF Owner[n] = p THEN mem[p].pin[n] ELSE pin[n]
    BY <1>1 DEF Save, IInv, Shape, Loaded
  <1>3. Shape'
    BY <1>1, <1>2 DEF IInv, Shape, Running
  <1>4. Progress'
    <2>1. todo[p] = {}
      BY PairsAssumption DEF Save, IInv, Progress, Of, Kinds
    <2> QED
      BY <1>1, <2>1 DEF IInv, Shape, Progress, Running, Owned, Of
  <1>5. ASSUME NEW n \in Pairs, Backed(n)
        PROVE  Backed(n)'
    <2>1. CASE Owner[n] = p
      <3>1. ~Running(p)'
        BY <1>1 DEF IInv, Shape, Running
      <3>2. n \notin unsettled' => Verifies(n)'
        <4>1. CASE n \in wrote[p]
          BY <1>1, <1>2, <1>5, <2>1, <4>1 DEF Backed, Verifies
        <4>2. CASE n \notin wrote[p]
          BY <1>1, <1>2, <1>5, <2>1, <4>2, PairsAssumption DEF Backed, Verifies
        <4> QED
          BY <4>1, <4>2
      <3> QED
        BY <2>1, <3>1, <3>2 DEF Backed
    <2>2. CASE Owner[n] # p
      <3>1. n \in unsettled' <=> n \in unsettled
        BY <1>1, <2>2 DEF IInv, Progress, Owned
      <3> QED
        BY <1>1, <1>2, <1>5, <2>2, <3>1, PairsAssumption DEF Backed, Verifies, Running, IInv, Shape
    <2> QED
      BY <2>1, <2>2
  <1>6. AllCurrent'
    BY <1>1, PairsAssumption DEF IInv, Shape, AllCurrent, Current, Done, Running
  <1> QED
    BY <1>3, <1>4, <1>5, <1>6 DEF IInv, PinsBacked, Alone

-----------------------------------------------------------------------------
LEMMA StepIInv == IInv /\ [Next]_vars => IInv'
  <1> SUFFICES ASSUME IInv, [Next]_vars PROVE IInv'
    OBVIOUS
  <1>1. ASSUME NEW n \in Pairs, NEW s \in Outcomes[n], Edit(n, s) PROVE IInv'
    BY <1>1, EditInv
  <1>2. ASSUME NEW a \in files, Lose(a) PROVE IInv'
    BY <1>2, LoseInv
  <1>3. ASSUME NEW p \in Programs, NEW d \in BOOLEAN, Bump(p, d) PROVE IInv'
    BY <1>3, BeginInv DEF Bump, IInv, Shape
  <1>4. ASSUME NEW p \in Programs, NEW n \in Pairs, NEW s \in Outcomes[n],
               Ingest(p, n, s)
        PROVE  IInv'
    <2>1. s \in Shapes
      BY PairsAssumption
    <2>2. [live EXCEPT ![n] = s] \in [Pairs -> Shapes]
      BY <2>1 DEF IInv, Shape
    <2> QED
      BY <1>4, <2>2, BeginInv DEF Ingest
  <1>5. ASSUME NEW p \in Programs, NEW n \in Pairs,
               CheckWalk(p, n) \/ CheckRel(p, n)
        PROVE  IInv'
    BY <1>5, ChecksAreChecks, CheckInv
  <1>6. ASSUME NEW p \in Programs,
               Kill(p) \/ \E n \in Pairs : LiftCheckError(p, n)
        PROVE  IInv'
    BY <1>6, StopInv
  <1>7. ASSUME NEW p \in Programs, NextPass(p) PROVE IInv'
    BY <1>7, NextPassInv
  <1>8. ASSUME NEW p \in Programs, Save(p) PROVE IInv'
    BY <1>8, SaveInv
  <1>9. CASE UNCHANGED vars
    BY <1>9 DEF vars, IInv, Shape, Progress, PinsBacked, Alone, Backed, Verifies,
                AllCurrent, Current, Done, Running
  <1> QED
    BY <1>1, <1>2, <1>3, <1>4, <1>5, <1>6, <1>7, <1>8, <1>9 DEF Next

LEMMA AlwaysIInv == Spec => []IInv
  BY InitIInv, StepIInv, PTL DEF Spec

-----------------------------------------------------------------------------
(* Whatever commands fail, are killed, run dry or run at once on the way,   *)
(* the artifact a saved witness pins is on disk, for every pair whose file  *)
(* no other pair writes (the file is named after the C function, so two     *)
(* programs of one quod.toml may share it: cli/ingest.py:88).               *)
THEOREM SavedEvidenceIsThere ==
    Spec => [](\A n \in Pairs : Alone(n) /\ n \notin unsettled => Verifies(n))
  <1>1. IInv => \A n \in Pairs : Alone(n) /\ n \notin unsettled => Verifies(n)
    BY DEF IInv, PinsBacked, Backed
  <1> QED
    BY <1>1, AlwaysIInv, PTL

(* EvidenceIntact holds of every quod.toml in which no two pairs of a kind  *)
(* are of C functions of one name.                                          *)
THEOREM EvidenceStays ==
    ASSUME \A n \in Pairs : Alone(n)
    PROVE  Spec => []EvidenceIntact
  <1>1. IInv => EvidenceIntact
    BY DEF IInv, PinsBacked, Backed, EvidenceIntact
  <1> QED
    BY <1>1, AlwaysIInv, PTL

(* equiv.py:65-76: whoever writes artifacts and saves leaves no lift pinned *)
(* to bodies it does not have, no decompiled pair the walk accepts without  *)
(* its pin, and no relational witness that these bodies refute.             *)
THEOREM SavedPinsAreCurrent == Spec => BumpRepins
  <1> DEFINE Repinned ==
        \A p \in Programs : Save(p) /\ ~dry[p] =>
          \A n \in Pairs : Owner[n] = p =>
             /\ Kind[n] = "lift" => \/ pin'[n] = live'[n]
                                   \/ Answer[live'[n]] = "gone"
             /\ Kind[n] = "tree" /\ ~mem[p].ingest /\ Answer[live'[n]] = "yes" =>
                   pin'[n] = live'[n]
             /\ Kind[n] = "rel" /\ ~mem[p].ingest =>
                   \/ pin'[n] \in {"none", live'[n]}
                   \/ Answer[live'[n]] \in {"unknown", "gone"}
  <1>1. IInv => Repinned
    <2> SUFFICES ASSUME IInv, NEW p \in Programs, Save(p),
                        NEW n \in Pairs, Owner[n] = p
                 PROVE  /\ Kind[n] = "lift" => \/ pin'[n] = live'[n]
                                              \/ Answer[live'[n]] = "gone"
                        /\ Kind[n] = "tree" /\ ~mem[p].ingest /\ Answer[live'[n]] = "yes" =>
                              pin'[n] = live'[n]
                        /\ Kind[n] = "rel" /\ ~mem[p].ingest =>
                              \/ pin'[n] \in {"none", live'[n]}
                              \/ Answer[live'[n]] \in {"unknown", "gone"}
      OBVIOUS
    <2>1. pin'[n] = mem[p].pin[n] /\ live'[n] = mem[p].live[n]
      BY DEF Save
    <2>2. Running(p) /\ Done(p, n)
      BY DEF Save, Running, Done
    <2> QED
      BY <2>1, <2>2 DEF IInv, AllCurrent, Current
  <1>2. IInv => [Repinned]_vars
    BY <1>1
  <1>3. Spec => [][Repinned]_vars
    BY <1>2, AlwaysIInv, PTL
  <1> QED
    BY <1>3 DEF BumpRepins
=============================================================================
