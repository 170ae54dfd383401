------------------------- MODULE ProgramStoreProofs -------------------------
(***************************************************************************)
(* Proofs about ProgramStore, for any number of invocations of each kind,  *)
(* any nodes and any set of valid programs.                                *)
(***************************************************************************)
EXTENDS ProgramStore, TLAPS

-----------------------------------------------------------------------------
\* What each label says of the process standing there, whoever else runs.
Shape ==
    \A p \in Invocations :
        /\ pc[p] \in {"lock", "unlock"} => p \in Mutators
        /\ pc[p] = "toml" => p \in Inits
        /\ pc[p] \in {"open", "read"} => p \notin Inits
        /\ pc[p] = "edit" => p \in Mutators \cup Bumpers
        /\ pc[p] \in {"tmp", "write", "replace"} => p \notin Readers
        /\ (p \notin Inits /\ p \notin Readers /\ pc[p] \notin {"idle", "done", "killed"})
              => op[p] \in Op
        /\ pc[p] \notin {"unlock", "done", "killed"} => res[p] = "none"
        /\ pc[p] = "idle" => op[p] = None
        /\ pc[p] \in {"idle", "lock", "open"} => rfd[p] = None
        /\ pc[p] = "read" => rfd[p] \in Inodes
        /\ pc[p] \in {"write", "replace"} => wfd[p] \in Inodes
        /\ pc[p] \in {"edit", "toml", "tmp", "write"} => buf[p] \in ValidPrograms

BaseInv == TypeOK /\ Shape /\ LockDiscipline

USE InvocationsAssumption, ProgramsAssumption

LEMMA BaseInit == Init => BaseInv
  BY DEF Init, BaseInv, TypeOK, Shape, LockDiscipline, Invocations, Inodes,
         Contents, Unlocked, Labels, Critical

LEMMA BaseStep == BaseInv /\ [Next]_vars => BaseInv'
<1> SUFFICES ASSUME BaseInv, [Next]_vars PROVE BaseInv'
  OBVIOUS
<1> USE DEF BaseInv, TypeOK, Shape, LockDiscipline, Invocations, Inodes, Contents,
            Unlocked, Labels, Critical, Goto, Exit, files, local
<1>1. CASE UNCHANGED vars
  BY <1>1 DEF vars
<1>2. ASSUME NEW p \in Invocations, Start(p) PROVE BaseInv'
  BY <1>2 DEF Start, Op, Bump, EditKinds
<1>3. ASSUME NEW p \in Invocations, NoConfig(p) PROVE BaseInv'
  BY <1>3 DEF NoConfig
<1>4. ASSUME NEW p \in Invocations, InitChecks(p) PROVE BaseInv'
  BY <1>4 DEF InitChecks
<1>5. ASSUME NEW p \in Invocations, Acquire(p) PROVE BaseInv'
  BY <1>5 DEF Acquire
<1>6. ASSUME NEW p \in Invocations, Release(p) PROVE BaseInv'
  BY <1>6 DEF Release
<1>7. ASSUME NEW p \in Invocations, NoFile(p) PROVE BaseInv'
  BY <1>7 DEF NoFile
<1>8. ASSUME NEW p \in Invocations, Open(p) PROVE BaseInv'
  BY <1>8 DEF Open
<1>9. ASSUME NEW p \in Invocations, Read(p) PROVE BaseInv'
  BY <1>9 DEF Read
<1>10. ASSUME NEW p \in Invocations, Edit(p) PROVE BaseInv'
  BY <1>10 DEF Edit, Legal
<1>11. ASSUME NEW p \in Invocations, Refuse(p) PROVE BaseInv'
  BY <1>11 DEF Refuse
<1>12. ASSUME NEW p \in Invocations, LiftFails(p) PROVE BaseInv'
  BY <1>12 DEF LiftFails
<1>13. ASSUME NEW p \in Invocations, OpenTmp(p) PROVE BaseInv'
  BY <1>13 DEF OpenTmp
<1>14. ASSUME NEW p \in Invocations, WriteTmp(p) PROVE BaseInv'
  BY <1>14 DEF WriteTmp
<1>15. ASSUME NEW p \in Invocations, Replace(p) PROVE BaseInv'
  BY <1>15 DEF Replace
<1>16. ASSUME NEW p \in Invocations, TmpGone(p) PROVE BaseInv'
  BY <1>16 DEF TmpGone
<1>17. ASSUME NEW p \in Invocations, WriteToml(p) PROVE BaseInv'
  BY <1>17 DEF WriteToml
<1>18. ASSUME NEW p \in Invocations, Kill(p) PROVE BaseInv'
  BY <1>18 DEF Kill
<1>19. ASSUME NEW p \in Invocations, WriteFails(p) PROVE BaseInv'
  BY <1>19 DEF WriteFails
<1> QED
  BY <1>1, <1>2, <1>3, <1>4, <1>5, <1>6, <1>7, <1>8, <1>9, <1>10, <1>11, <1>12,
     <1>13, <1>14, <1>15, <1>16, <1>17, <1>18, <1>19 DEF Next, Step

\* Every variable keeps its type, and no run of the protocol writes anything
\* to the disk that the validators did not accept.
THEOREM Typed == Spec => []TypeOK
<1>1. BaseInv => TypeOK
  BY DEF BaseInv
<1> QED
  BY <1>1, BaseInit, BaseStep, PTL DEF Spec

\* The sidecar lock is held by exactly the mutator inside the `with` block,
\* whatever unlocked commands run beside it and whoever is killed.
THEOREM LockIsDisciplined == Spec => []LockDiscipline
<1>1. BaseInv => LockDiscipline
  BY DEF BaseInv
<1> QED
  BY <1>1, BaseInit, BaseStep, PTL DEF Spec

-----------------------------------------------------------------------------
\* While every writer takes the lock: where the shared files stand relative to
\* the one mutator that may be inside the `with` block.
FilesApart ==
    /\ toml
    /\ path \in Inodes
    /\ path # tmp
    /\ data[path] \in ValidPrograms

\* An inode is created by one process and names it; until then nobody knows it.
FreshInodes ==
    \A p \in Invocations :
        pc[p] \in {"idle", "lock", "open", "read", "edit", "tmp"} =>
            /\ p # path
            /\ p # tmp
            /\ \A q \in Invocations : rfd[q] # p

\* A descriptor opened for reading keeps naming a whole program.
ReadersSafe ==
    \A p \in Invocations :
        /\ rfd[p] # None => rfd[p] # tmp /\ data[rfd[p]] \in ValidPrograms
        /\ pc[p] = "read" => rfd[p] # None

\* The mutator inside works on the program that is still on the disk.
WriterCurrent ==
    \A p \in Mutators :
        /\ pc[p] = "read" => rfd[p] = path
        /\ pc[p] = "edit" => buf[p] = data[path]
        /\ pc[p] \in {"tmp", "write", "replace"} =>
              /\ Legal(op[p], data[path])
              /\ buf[p] = Apply(op[p], data[path])
        /\ pc[p] \in {"write", "replace"} => wfd[p] = tmp /\ tmp # None
        /\ pc[p] = "write" => data[tmp] = Partial
        /\ pc[p] = "replace" => data[tmp] = buf[p]

LockedInv == BaseInv /\ FilesApart /\ FreshInodes /\ ReadersSafe /\ WriterCurrent

LEMMA LockedInit == ASSUME Unlocked = {}, None \notin Starts PROVE Init => LockedInv
<1> USE DEF Init, Invocations, Inodes, Unlocked
<1>1. Init => BaseInv
  BY BaseInit
<1>2. Init => FilesApart /\ FreshInodes
  <2> SUFFICES ASSUME Init PROVE FilesApart /\ FreshInodes
    OBVIOUS
  <2>1. PICK s \in Starts : /\ path = IF s = None THEN None ELSE Origin
                            /\ data = [i \in Inodes |->
                                  IF i = Origin /\ s # None THEN s ELSE Partial]
                            /\ toml = (s # None)
    OBVIOUS
  <2>2. s # None
    OBVIOUS
  <2>3. toml
    BY <2>1, <2>2
  <2> QED
    BY <2>1, <2>2, <2>3 DEF FilesApart, FreshInodes
<1>3. Init => ReadersSafe /\ WriterCurrent
  BY DEF ReadersSafe, WriterCurrent
<1> QED
  BY <1>1, <1>2, <1>3 DEF LockedInv

LEMMA LockedStep ==
  ASSUME Unlocked = {} PROVE LockedInv /\ [Next]_vars => LockedInv'
<1> SUFFICES ASSUME LockedInv, [Next]_vars PROVE LockedInv'
  OBVIOUS
<1>0. BaseInv'
  BY BaseStep DEF LockedInv
<1> DEFINE Rest == FilesApart /\ FreshInodes /\ ReadersSafe /\ WriterCurrent
<1> SUFFICES Rest'
  BY <1>0 DEF LockedInv
<1> USE DEF LockedInv, BaseInv, TypeOK, Shape, LockDiscipline, FilesApart,
            FreshInodes, ReadersSafe, WriterCurrent, Invocations, Inodes,
            Contents, Unlocked, Labels, Critical, Goto, Exit, files, local
<1>1. CASE UNCHANGED vars
  BY <1>1 DEF vars
<1>2. ASSUME NEW p \in Invocations, Start(p) PROVE Rest'
  BY <1>2 DEF Start
<1>3. ASSUME NEW p \in Invocations, NoConfig(p) PROVE Rest'
  BY <1>3 DEF NoConfig
<1>4. ASSUME NEW p \in Invocations, InitChecks(p) PROVE Rest'
  BY <1>4 DEF InitChecks
<1>5. ASSUME NEW p \in Invocations, Acquire(p) PROVE Rest'
  BY <1>5 DEF Acquire
<1>6. ASSUME NEW p \in Invocations, Release(p) PROVE Rest'
  BY <1>6 DEF Release
<1>7. ASSUME NEW p \in Invocations, NoFile(p) PROVE Rest'
  BY <1>7 DEF NoFile
<1>8. ASSUME NEW p \in Invocations, Open(p) PROVE Rest'
  BY <1>8 DEF Open
<1>9. ASSUME NEW p \in Invocations, Read(p) PROVE Rest'
  BY <1>9 DEF Read
<1>10. ASSUME NEW p \in Invocations, Edit(p) PROVE Rest'
  BY <1>10 DEF Edit
<1>11. ASSUME NEW p \in Invocations, Refuse(p) PROVE Rest'
  BY <1>11 DEF Refuse
<1>12. ASSUME NEW p \in Invocations, LiftFails(p) PROVE Rest'
  BY <1>12 DEF LiftFails
<1>13. ASSUME NEW p \in Invocations, OpenTmp(p) PROVE Rest'
  BY <1>13 DEF OpenTmp
<1>14. ASSUME NEW p \in Invocations, WriteTmp(p) PROVE Rest'
  BY <1>14 DEF WriteTmp
<1>15. ASSUME NEW p \in Invocations, Replace(p) PROVE Rest'
  <2>1. p \in Mutators /\ (\A q \in Mutators : pc[q] \in Critical => q = p)
    BY <1>15 DEF Replace
  <2>2. data[tmp] \in ValidPrograms /\ tmp \in Inodes
    BY <1>15, <2>1 DEF Replace, Legal
  <2>3. FilesApart' /\ FreshInodes' /\ ReadersSafe'
    BY <1>15, <2>2 DEF Replace
  <2>4. WriterCurrent'
    BY <1>15, <2>1 DEF Replace
  <2> QED
    BY <2>3, <2>4
<1>16. ASSUME NEW p \in Invocations, TmpGone(p) PROVE Rest'
  BY <1>16 DEF TmpGone
<1>17. ASSUME NEW p \in Invocations, WriteToml(p) PROVE Rest'
  BY <1>17 DEF WriteToml
<1>18. ASSUME NEW p \in Invocations, Kill(p) PROVE Rest'
  BY <1>18 DEF Kill
<1>19. ASSUME NEW p \in Invocations, WriteFails(p) PROVE Rest'
  BY <1>19 DEF WriteFails
<1> QED
  BY <1>1, <1>2, <1>3, <1>4, <1>5, <1>6, <1>7, <1>8, <1>9, <1>10, <1>11, <1>12,
     <1>13, <1>14, <1>15, <1>16, <1>17, <1>18, <1>19 DEF Next, Step

\* Readers and writers both load one whole program that was really saved, even
\* through a descriptor opened before the rename that replaced it.
THEOREM ProgramsAreWhole ==
  ASSUME Unlocked = {}, None \notin Starts PROVE Spec => []WholePrograms
<1>1. LockedInv => WholePrograms
  BY DEF LockedInv, FilesApart, ReadersSafe, WholePrograms
<1> QED
  BY <1>1, LockedInit, LockedStep, PTL DEF Spec

\* A successful command has applied its edit to the program of that instant,
\* and nothing else changes the program.
THEOREM NothingIsLost ==
  ASSUME Unlocked = {}, None \notin Starts PROVE Spec => NoLostUpdate
<1> DEFINE Kept ==
      /\ \A p \in Mutators \cup Bumpers :
            (res[p] = "none" /\ res'[p] = "ok") => Stored' = Apply(op[p], Stored)
      /\ Stored' # Stored =>
            \E p \in Invocations : res[p] = "none" /\ res'[p] = "ok"
<1>1. LockedInv /\ [Next]_vars => [Kept]_vars
  <2> SUFFICES ASSUME LockedInv, [Next]_vars PROVE [Kept]_vars
    OBVIOUS
  <2> USE DEF LockedInv, BaseInv, TypeOK, FilesApart, Stored, Invocations, Inodes,
              Unlocked, Labels, Critical, Goto, Exit, files, local
  <2>1. CASE UNCHANGED vars
    BY <2>1
  <2>2. ASSUME NEW p \in Invocations, Start(p) \/ Acquire(p) \/ Release(p)
        PROVE Kept
    BY <2>2 DEF Start, Acquire, Release
  <2>3. ASSUME NEW p \in Invocations,
               NoConfig(p) \/ InitChecks(p) \/ NoFile(p) \/ Refuse(p) \/ LiftFails(p)
                 \/ TmpGone(p)
        PROVE Kept
    BY <2>3 DEF NoConfig, InitChecks, NoFile, Refuse, LiftFails, TmpGone
  <2>4. ASSUME NEW p \in Invocations, Open(p) \/ Edit(p) \/ WriteToml(p) \/ Kill(p)
        PROVE Kept
    BY <2>4 DEF Open, Edit, WriteToml, Kill
  <2>5. ASSUME NEW p \in Invocations, Read(p) PROVE Kept
    BY <2>5 DEF Read
  <2>6. ASSUME NEW p \in Invocations, OpenTmp(p) PROVE Kept
    BY <2>6 DEF OpenTmp, FreshInodes
  <2>7. ASSUME NEW p \in Invocations, WriteTmp(p) PROVE Kept
    BY <2>7 DEF WriteTmp, WriterCurrent, Shape
  <2>8. ASSUME NEW p \in Invocations, Replace(p) PROVE Kept
    BY <2>8 DEF Replace, WriterCurrent, Shape
  <2>9. ASSUME NEW p \in Invocations, WriteFails(p) PROVE Kept
    <3>1. data' = data /\ path' = path
      BY <2>9 DEF WriteFails, WriterCurrent, Shape
    <3>2. res' = [res EXCEPT ![p] = "full"]
      BY <2>9 DEF WriteFails
    <3> QED
      BY <3>1, <3>2
  <2> QED
    BY <2>1, <2>2, <2>3, <2>4, <2>5, <2>6, <2>7, <2>8, <2>9 DEF Next, Step
<1> QED
  BY <1>1, LockedInit, LockedStep, PTL DEF Spec, NoLostUpdate

-----------------------------------------------------------------------------
\* However many writers, locked or not, share the tmp name, the last of them
\* to rename takes it away: only a killed writer or one whose write failed
\* leaves the tmp file it opened.
THEOREM TmpIsTakenAway == Spec => []NoStrayTmp
<1>1. Init => NoStrayTmp
  BY DEF Init, NoStrayTmp
<1>2. BaseInv /\ NoStrayTmp /\ [Next]_vars => NoStrayTmp'
  <2> SUFFICES ASSUME BaseInv, NoStrayTmp, [Next]_vars PROVE NoStrayTmp'
    OBVIOUS
  <2> USE DEF BaseInv, TypeOK, NoStrayTmp, Invocations, Inodes, Labels, Goto, Exit,
              files, local
  <2>1. CASE UNCHANGED vars
    BY <2>1 DEF vars
  <2>2. ASSUME NEW p \in Invocations, Start(p) \/ Acquire(p) \/ Release(p)
        PROVE NoStrayTmp'
    BY <2>2 DEF Start, Acquire, Release
  <2>3. ASSUME NEW p \in Invocations,
               NoConfig(p) \/ InitChecks(p) \/ NoFile(p) \/ Refuse(p) \/ LiftFails(p)
        PROVE NoStrayTmp'
    BY <2>3 DEF NoConfig, InitChecks, NoFile, Refuse, LiftFails, Shape
  <2>4. ASSUME NEW p \in Invocations, Open(p) \/ Read(p) \/ Edit(p) \/ WriteToml(p)
        PROVE NoStrayTmp'
    BY <2>4 DEF Open, Read, Edit, WriteToml, Shape
  <2>5. ASSUME NEW p \in Invocations, Kill(p) PROVE NoStrayTmp'
    BY <2>5 DEF Kill
  <2>6. ASSUME NEW p \in Invocations, OpenTmp(p) PROVE NoStrayTmp'
    BY <2>6 DEF OpenTmp
  <2>7. ASSUME NEW p \in Invocations, WriteTmp(p) \/ WriteFails(p) PROVE NoStrayTmp'
    BY <2>7 DEF WriteTmp, WriteFails
  <2>8. ASSUME NEW p \in Invocations, Replace(p) \/ TmpGone(p) PROVE NoStrayTmp'
    BY <2>8 DEF Replace, TmpGone
  <2> QED
    BY <2>1, <2>2, <2>3, <2>4, <2>5, <2>6, <2>7, <2>8 DEF Next, Step
<1> QED
  BY <1>1, <1>2, BaseInit, BaseStep, PTL DEF Spec

-----------------------------------------------------------------------------
\* A step that changes one command's status changes its abstract fate only.
LEMMA FateOfOne ==
  ASSUME NEW p \in Invocations, NEW s,
         \A q \in Invocations \ {p} : res'[q] = res[q] /\ pc'[q] = pc[q],
         (IF res'[p] = "none" /\ pc'[p] = "killed" THEN "killed" ELSE res'[p]) = s
  PROVE  Fate' = [Fate EXCEPT ![p] = s]
<1>1. \A q \in Invocations \ {p} : Fate'[q] = Fate[q]
  BY DEF Fate
<1>2. Fate'[p] = s
  BY DEF Fate
<1>3. /\ Fate = [q \in Invocations |-> Fate[q]]
      /\ Fate' = [q \in Invocations |-> Fate'[q]]
  BY DEF Fate
<1>4. Fate' = [q \in Invocations |-> IF q = p THEN s ELSE Fate[q]]
  BY <1>1, <1>2, <1>3
<1> QED
  BY <1>3, <1>4

\* A step in which nobody else's descriptor or file changes leaves what the
\* other readers will be given.
LEMMA SeenByOne ==
  ASSUME NEW p \in Readers, NEW s,
         \A q \in Invocations \ {p} : rfd'[q] = rfd[q],
         data' = data, rfd'[p] # None, data[rfd'[p]] = s
  PROVE  Seen' = [Seen EXCEPT ![p] = s]
<1> p \in Invocations
  BY DEF Invocations
<1>1. \A q \in Invocations \ {p} : Seen'[q] = Seen[q]
  BY DEF Seen
<1>2. Seen'[p] = s
  BY DEF Seen
<1>3. /\ Seen = [q \in Invocations |-> Seen[q]]
      /\ Seen' = [q \in Invocations |-> Seen'[q]]
  BY DEF Seen
<1>4. Seen' = [q \in Invocations |-> IF q = p THEN s ELSE Seen[q]]
  BY <1>1, <1>2, <1>3
<1> QED
  BY <1>3, <1>4

\* While every writer takes the lock, program.json, its tmp file, the sidecar
\* lock and the descriptors together are one store that each command reads or
\* changes at one instant.
THEOREM StoreIsAtomic ==
  ASSUME Unlocked = {}, None \notin Starts PROVE Spec => ImplementsAtomicStore
<1> USE DEF Invocations, Inodes, Unlocked
<1>1. Init => Atomic!Init
  <2> SUFFICES ASSUME Init PROVE Atomic!Init
    OBVIOUS
  <2>1. data[path] \in ValidPrograms
    BY LockedInit DEF LockedInv, FilesApart
  <2> QED
    BY <2>1 DEF Init, Atomic!Init, Fate, Seen
<1>2. LockedInv /\ [Next]_vars => [Atomic!Next]_(Atomic!vars)
  <2> SUFFICES ASSUME LockedInv, [Next]_vars
               PROVE Atomic!Next \/ UNCHANGED Atomic!vars
    OBVIOUS
  <2> USE DEF LockedInv, BaseInv, TypeOK, Shape, FilesApart, Labels, Goto, Exit,
              files, local
  <2>1. CASE UNCHANGED vars
    BY <2>1 DEF vars, Atomic!vars, Fate, Seen
  <2>2. ASSUME NEW p \in Invocations, Start(p)
        PROVE Atomic!Ask(p) \/ UNCHANGED Atomic!vars
    <3>1. Fate' = Fate
      BY <2>2 DEF Start, Fate
    <3>2. Seen' = Seen
      BY <2>2 DEF Start, Seen
    <3> QED
      BY <2>2, <3>1, <3>2 DEF Start, Atomic!Ask, Atomic!vars,
                               EditKinds, Atomic!EditKinds
  <2>3. ASSUME NEW p \in Invocations, Acquire(p) \/ Release(p) \/ Edit(p)
        PROVE UNCHANGED Atomic!vars
    <3>1. Fate' = Fate
      <4>1. CASE Acquire(p)
        BY <4>1 DEF Acquire, Fate
      <4>2. CASE Release(p)
        BY <4>2 DEF Release, Fate
      <4>3. CASE Edit(p)
        BY <4>3 DEF Edit, Fate
      <4> QED
        BY <2>3, <4>1, <4>2, <4>3
    <3>2. Seen' = Seen
      BY <2>3 DEF Acquire, Release, Edit, Seen
    <3> QED
      BY <2>3, <3>1, <3>2 DEF Acquire, Release, Edit, Atomic!vars
  <2>4. ASSUME NEW p \in Invocations, NoConfig(p) \/ NoFile(p) \/ InitChecks(p)
                 \/ LiftFails(p) \/ TmpGone(p) \/ WriteToml(p)
        PROVE FALSE
    BY <2>4 DEF NoConfig, NoFile, InitChecks, LiftFails, TmpGone, WriteToml,
                WriterCurrent
  <2>5. ASSUME NEW p \in Invocations, Open(p)
        PROVE Atomic!Look(p) \/ UNCHANGED Atomic!vars
    <3>1. Fate' = Fate
      BY <2>5 DEF Open, Fate
    <3>2. CASE p \in Readers
      <4>1. Seen[p] = None /\ Fate[p] = "none"
        BY <2>5, <3>2 DEF Open, Seen, Fate
      <4>2. Seen' = [Seen EXCEPT ![p] = data[path]]
        BY <2>5, <3>2, SeenByOne DEF Open
      <4> QED
        BY <2>5, <3>1, <3>2, <4>1, <4>2 DEF Open, Atomic!Look
    <3>3. CASE p \notin Readers
      <4>1. Seen' = Seen
        BY <2>5, <3>3 DEF Open, Seen
      <4> QED
        BY <2>5, <3>1, <4>1 DEF Open, Atomic!vars
    <3> QED
      BY <3>2, <3>3
  <2>6. ASSUME NEW p \in Invocations, Read(p)
        PROVE Atomic!Answer(p) \/ UNCHANGED Atomic!vars
    <3>1. Seen' = Seen
      BY <2>6 DEF Read, Seen
    <3>2. data[rfd[p]] \in ValidPrograms /\ rfd[p] # None
      BY <2>6 DEF Read, ReadersSafe
    <3>3. CASE p \in Readers
      <4>1. Seen[p] # None /\ Fate[p] = "none"
        BY <2>6, <3>2, <3>3 DEF Read, Seen, Fate
      <4>2. Fate' = [Fate EXCEPT ![p] = "ok"]
        BY <2>6, <3>2, <3>3, FateOfOne DEF Read
      <4> QED
        BY <2>6, <3>1, <3>3, <4>1, <4>2 DEF Read, Atomic!Answer
    <3>4. CASE p \notin Readers
      <4>1. Fate' = Fate
        BY <2>6, <3>2, <3>4 DEF Read, Fate
      <4> QED
        BY <2>6, <3>1, <4>1 DEF Read, Atomic!vars
    <3> QED
      BY <3>3, <3>4
  <2>7. ASSUME NEW p \in Invocations, Refuse(p) PROVE Atomic!Refuse(p)
    <3>1. p \in Mutators /\ op[p] # None /\ ~Legal(op[p], data[path])
      BY <2>7 DEF Refuse, WriterCurrent
    <3>2. Fate[p] = "none" /\ Fate' = [Fate EXCEPT ![p] = "error"]
      <4>1. Fate[p] = "none"
        BY <2>7 DEF Refuse, Fate
      <4> QED
        BY <2>7, <4>1, FateOfOne DEF Refuse
    <3>3. Seen' = Seen
      BY <2>7 DEF Refuse, Seen
    <3> QED
      BY <2>7, <3>1, <3>2, <3>3 DEF Refuse, Atomic!Refuse,
                               Legal, Apply, Atomic!Legal, Atomic!Apply
  <2>8. ASSUME NEW p \in Invocations, OpenTmp(p) PROVE UNCHANGED Atomic!vars
    <3>1. data'[path] = data[path]
      BY <2>8 DEF OpenTmp, FreshInodes
    <3>2. Fate' = Fate
      BY <2>8 DEF OpenTmp, Fate
    <3>3. \A q \in Invocations : rfd[q] # None => data'[rfd[q]] = data[rfd[q]]
      BY <2>8 DEF OpenTmp, FreshInodes, ReadersSafe
    <3>4. Seen' = Seen
      BY <2>8, <3>3 DEF OpenTmp, Seen
    <3> QED
      BY <2>8, <3>1, <3>2, <3>4 DEF OpenTmp, Atomic!vars
  <2>9. ASSUME NEW p \in Invocations, WriteTmp(p) PROVE UNCHANGED Atomic!vars
    <3>1. p \in Mutators /\ wfd[p] = tmp
      BY <2>9 DEF WriteTmp, WriterCurrent
    <3>2. data'[path] = data[path]
      BY <2>9, <3>1 DEF WriteTmp
    <3>3. Fate' = Fate
      BY <2>9 DEF WriteTmp, Fate
    <3>4. \A q \in Invocations : rfd[q] # None => data'[rfd[q]] = data[rfd[q]]
      BY <2>9, <3>1 DEF WriteTmp, ReadersSafe
    <3>5. Seen' = Seen
      BY <2>9, <3>4 DEF WriteTmp, Seen
    <3> QED
      BY <2>9, <3>2, <3>3, <3>5 DEF WriteTmp, Atomic!vars
  <2>10. ASSUME NEW p \in Invocations, Replace(p) PROVE Atomic!Perform(p)
    <3>1. /\ p \in Mutators
          /\ op[p] # None
          /\ Legal(op[p], data[path])
          /\ data'[path'] = Apply(op[p], data[path])
      BY <2>10 DEF Replace, WriterCurrent
    <3>2. Fate[p] = "none" /\ Fate' = [Fate EXCEPT ![p] = "ok"]
      <4>1. Fate[p] = "none"
        BY <2>10 DEF Replace, Fate
      <4> QED
        BY <2>10, <4>1, FateOfOne DEF Replace
    <3>3. Seen' = Seen
      BY <2>10 DEF Replace, Seen
    <3> QED
      BY <2>10, <3>1, <3>2, <3>3 DEF Replace, Atomic!Perform,
                               Legal, Apply, Atomic!Legal, Atomic!Apply
  <2>11. ASSUME NEW p \in Invocations, Kill(p)
         PROVE Atomic!Kill(p) \/ UNCHANGED Atomic!vars
    <3>1. Seen' = Seen
      BY <2>11 DEF Kill, Seen
    <3>2. CASE res[p] = "none"
      <4>1. Fate[p] = "none"
        BY <2>11, <3>2 DEF Kill, Fate
      <4>2. Fate' = [Fate EXCEPT ![p] = "killed"]
        BY <2>11, <3>2, FateOfOne DEF Kill
      <4> QED
        BY <2>11, <3>1, <4>1, <4>2 DEF Kill, Atomic!Kill
    <3>3. CASE res[p] # "none"
      <4>1. Fate' = Fate
        BY <2>11, <3>3 DEF Kill, Fate
      <4> QED
        BY <2>11, <3>1, <4>1 DEF Kill, Atomic!vars
    <3> QED
      BY <3>2, <3>3
  <2>12. ASSUME NEW p \in Invocations, WriteFails(p) PROVE Atomic!Fail(p)
    <3>1. /\ p \in Mutators
          /\ op[p] # None
          /\ Legal(op[p], data[path])
          /\ data' = data
      BY <2>12 DEF WriteFails, WriterCurrent
    <3>2. Fate[p] = "none" /\ Fate' = [Fate EXCEPT ![p] = "full"]
      <4>1. Fate[p] = "none"
        BY <2>12 DEF WriteFails, Fate
      <4> QED
        BY <2>12, <4>1, FateOfOne DEF WriteFails
    <3>3. Seen' = Seen
      BY <2>12, <3>1 DEF WriteFails, Seen
    <3> QED
      BY <2>12, <3>1, <3>2, <3>3 DEF WriteFails, Atomic!Fail,
                               Legal, Apply, Atomic!Legal, Atomic!Apply
  <2> QED
    BY <2>1, <2>2, <2>3, <2>4, <2>5, <2>6, <2>7, <2>8, <2>9, <2>10, <2>11, <2>12
       DEF Next, Step, Atomic!Next
<1> QED
  BY <1>1, <1>2, LockedInit, LockedStep, PTL DEF Spec, Atomic!Spec, ImplementsAtomicStore
=============================================================================
