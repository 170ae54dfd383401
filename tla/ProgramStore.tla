---------------------------- MODULE ProgramStore ----------------------------
(***************************************************************************)
(* The file protocol of quod's program store, one process per invocation   *)
(* of the command line on one checkout:                                    *)
(*                                                                         *)
(*   Mutators   stmt, const, struct, enum, extern, note, fn, claim, ingest *)
(*              take the sidecar lock, load, edit, save, release;          *)
(*   Bumpers    equiv prove --bump loads, edits and saves without the lock;*)
(*   Inits      quod init writes quod.toml and a template, without it;     *)
(*   Readers    show, build, check, lsp, completion load without the lock. *)
(*                                                                         *)
(* The disk is a set of inodes and the two paths that matter: program.json *)
(* (path) and the fixed-name program.json.tmp (tmp).  A process that opens *)
(* tmp creates an inode named after itself, or truncates the one already   *)
(* there; replace() moves whatever inode tmp names by then.                *)
(*                                                                         *)
(* A process may be killed between any two steps: the kernel drops its     *)
(* lock, and its half-written tmp stays behind.  So does the tmp of a      *)
(* process whose write fails, as on a full disk.  The page cache survives: *)
(* power loss is not modelled.                                             *)
(***************************************************************************)
EXTENDS ProgramEdits

CONSTANTS
    Mutators, Bumpers, Inits, Readers,  \* the invocations, by what they run
    ForceInit,      \* TRUE: `quod init --force`
    Template,       \* the starter program init writes
    Origin,         \* the inode program.json names at the start
    Starts,         \* the programs the checkout may start with
    None,           \* no such file, no process, no edit
    Partial         \* a file that is truncated, or a mix of two writes

Invocations == Mutators \cup Bumpers \cup Inits \cup Readers

Unlocked == Bumpers \cup Inits

Inodes == Invocations \cup {Origin}

Contents == ValidPrograms \cup {Partial}

ASSUME InvocationsAssumption ==
    /\ None \notin Inodes
    /\ Origin \notin Invocations
    /\ None \notin Op
    /\ Partial \notin ValidPrograms
    /\ None \notin ValidPrograms
    /\ None # Partial
    /\ Mutators \cap Unlocked = {}
    /\ Mutators \cap Readers = {}
    /\ Bumpers \cap Inits = {}
    /\ Unlocked \cap Readers = {}
    /\ ForceInit \in BOOLEAN
    /\ Template \in ValidPrograms
    /\ Starts \subseteq ValidPrograms \cup {None}

VARIABLES
    path,   \* the inode program.json names, or None
    tmp,    \* the inode program.json.tmp names, or None
    data,   \* data[i]: what inode i holds
    toml,   \* quod.toml exists
    lock,   \* who holds flock(program.json.lock), or None
    pc,     \* pc[p]: where invocation p is
    op,     \* op[p]: the edit p was asked for
    rfd,    \* rfd[p]: the inode p opened to read the program
    buf,    \* buf[p]: the program p has in memory
    wfd,    \* wfd[p]: the inode p opened to write
    res     \* res[p]: "none" while it runs, then how it ended: "ok",
            \* "error", or "full", the error of a disk that takes no more

files == <<path, tmp, data, toml>>
local == <<op, rfd, buf, wfd, res>>
vars == <<path, tmp, data, toml, lock, pc, op, rfd, buf, wfd, res>>

Labels == {"idle", "lock", "open", "read", "edit", "tmp", "write", "replace",
           "unlock", "toml", "done", "killed"}

\* The labels a mutator passes through inside `with _exclusive_lock():`.
Critical == {"open", "read", "edit", "tmp", "write", "replace", "unlock"}

Goto(p, l) == pc' = [pc EXCEPT ![p] = l]

\* Mutant: an early return that skips the context manager's `finally`.
ExitHoldingLock(p, status) ==
    /\ res' = [res EXCEPT ![p] = status]
    /\ Goto(p, "done")

\* Leave with an exit status; a mutator still has to leave the `with` block.
Exit(p, status) ==
    /\ res' = [res EXCEPT ![p] = status]
    /\ Goto(p, IF p \in Mutators THEN "unlock" ELSE "done")

Init ==
    /\ \E s \in Starts :
          /\ path = IF s = None THEN None ELSE Origin
          /\ data = [i \in Inodes |-> IF i = Origin /\ s # None THEN s ELSE Partial]
          /\ toml = (s # None)
    /\ tmp = None
    /\ lock = None
    /\ pc = [p \in Invocations |-> "idle"]
    /\ op = [p \in Invocations |-> None]
    /\ rfd = [p \in Invocations |-> None]
    /\ buf = [p \in Invocations |-> {}]
    /\ wfd = [p \in Invocations |-> None]
    /\ res = [p \in Invocations |-> "none"]

-----------------------------------------------------------------------------
\* The command line reads quod.toml to find the program file, then starts.
Start(p) ==
    /\ pc[p] = "idle"
    /\ p \notin Inits
    /\ toml
    /\ \/ /\ p \in Mutators
          /\ \E o \in [kind : EditKinds, node : Node] : op' = [op EXCEPT ![p] = o]
          /\ Goto(p, "lock")
       \/ /\ p \in Bumpers
          /\ op' = [op EXCEPT ![p] = Bump]
          /\ Goto(p, "open")
       \/ /\ p \in Readers
          /\ Goto(p, "open")
          /\ UNCHANGED op
    /\ UNCHANGED <<files, lock, rfd, buf, wfd, res>>

\* No quod.toml: "run `quod init` first".
NoConfig(p) ==
    /\ pc[p] = "idle"
    /\ p \notin Inits
    /\ ~toml
    /\ res' = [res EXCEPT ![p] = "error"]
    /\ Goto(p, "done")
    /\ UNCHANGED <<files, lock, op, rfd, buf, wfd>>

\* Mutant: the sidecar is opened and never locked.
AcquireUnlocked(p) ==
    /\ pc[p] = "lock"
    /\ lock' = p
    /\ Goto(p, "open")
    /\ UNCHANGED <<files, local>>

\* flock(LOCK_EX) returns once nobody else holds the sidecar.
Acquire(p) ==
    /\ pc[p] = "lock"
    /\ lock = None
    /\ lock' = p
    /\ Goto(p, "open")
    /\ UNCHANGED <<files, local>>

\* The `finally` of the context manager, on every way out of the block.
Release(p) ==
    /\ pc[p] = "unlock"
    /\ lock' = None
    /\ Goto(p, "done")
    /\ UNCHANGED <<files, local>>

-----------------------------------------------------------------------------
\* _load: a missing program ends the command with exit status 1.
NoFile(p) ==
    /\ pc[p] = "open"
    /\ path = None
    /\ Exit(p, "error")
    /\ UNCHANGED <<files, lock, op, rfd, buf, wfd>>

\* path.read_text() first binds an inode ...
Open(p) ==
    /\ pc[p] = "open"
    /\ path # None
    /\ rfd' = [rfd EXCEPT ![p] = path]
    /\ Goto(p, "read")
    /\ UNCHANGED <<files, lock, op, buf, wfd, res>>

\* ... then reads what that inode holds, and parses it as InputProgram.
Read(p) ==
    /\ pc[p] = "read"
    /\ \/ /\ data[rfd[p]] = Partial
          /\ Exit(p, "error")
          /\ UNCHANGED buf
       \/ /\ data[rfd[p]] # Partial
          /\ buf' = [buf EXCEPT ![p] = data[rfd[p]]]
          /\ \/ /\ p \in Readers
                /\ Exit(p, "ok")
             \/ /\ p \notin Readers
                /\ Goto(p, "edit")
                /\ UNCHANGED res
    /\ UNCHANGED <<files, lock, op, rfd, wfd>>

\* The edit in memory, and the validation save_program starts with.
Edit(p) ==
    /\ pc[p] = "edit"
    /\ Legal(op[p], buf[p])
    /\ buf' = [buf EXCEPT ![p] = Apply(op[p], buf[p])]
    /\ Goto(p, "tmp")
    /\ UNCHANGED <<files, lock, op, rfd, wfd, res>>

\* Mutant: the error is printed and the exit status forgotten.
RefuseSilently(p) ==
    /\ pc[p] = "edit"
    /\ ~Legal(op[p], buf[p])
    /\ Exit(p, "ok")
    /\ UNCHANGED <<files, lock, op, rfd, buf, wfd>>

\* The mutator or the validation raised: exit 1 with the file untouched.
Refuse(p) ==
    /\ pc[p] = "edit"
    /\ ~Legal(op[p], buf[p])
    /\ Exit(p, "error")
    /\ UNCHANGED <<files, lock, op, rfd, buf, wfd>>

\* `equiv prove --bump` meets a LiftCheckError: exit 1, nothing saved.
LiftFails(p) ==
    /\ pc[p] = "edit"
    /\ p \in Bumpers
    /\ Exit(p, "error")
    /\ UNCHANGED <<files, lock, op, rfd, buf, wfd>>

\* Mutant: path.write_text(...), in place.
OpenInPlace(p) ==
    /\ pc[p] = "tmp"
    /\ LET i == IF path = None THEN p ELSE path IN
          /\ path' = i
          /\ tmp' = i
          /\ data' = [data EXCEPT ![i] = Partial]
          /\ wfd' = [wfd EXCEPT ![p] = i]
    /\ Goto(p, "write")
    /\ UNCHANGED <<toml, lock, op, rfd, buf, res>>

\* tmp.write_text(...) creates or truncates the one tmp file ...
OpenTmp(p) ==
    /\ pc[p] = "tmp"
    /\ LET i == IF tmp = None THEN p ELSE tmp IN
          /\ tmp' = i
          /\ data' = [data EXCEPT ![i] = Partial]
          /\ wfd' = [wfd EXCEPT ![p] = i]
    /\ Goto(p, "write")
    /\ UNCHANGED <<path, toml, lock, op, rfd, buf, res>>

\* ... and writes the document into it in one call.  An inode somebody else
\* filled since it was truncated keeps the tail of the longer document.
WriteTmp(p) ==
    /\ pc[p] = "write"
    /\ \/ data' = [data EXCEPT ![wfd[p]] = buf[p]]
       \/ /\ data[wfd[p]] # Partial
          /\ data[wfd[p]] # buf[p]
          /\ data' = [data EXCEPT ![wfd[p]] = Partial]
    /\ Goto(p, "replace")
    /\ UNCHANGED <<path, tmp, toml, lock, local>>

\* The write raises (a full disk, a quota): part of the document is in the
\* file, or nothing, and no handler unlinks it on the way out.
WriteFails(p) ==
    /\ pc[p] = "write"
    /\ data' \in {data, [data EXCEPT ![wfd[p]] = Partial]}
    /\ Exit(p, "full")
    /\ UNCHANGED <<path, tmp, toml, lock, op, rfd, buf, wfd>>

\* Mutant: a copy instead of a rename.
ReplaceByCopy(p) ==
    /\ pc[p] = "replace"
    /\ tmp # None
    /\ path' = tmp
    /\ Exit(p, "ok")
    /\ UNCHANGED <<tmp, data, toml, lock, op, rfd, buf, wfd>>

\* tmp.replace(path): the rename takes the inode tmp names now.
Replace(p) ==
    /\ pc[p] = "replace"
    /\ tmp # None
    /\ path' = tmp
    /\ tmp' = None
    /\ Exit(p, "ok")
    /\ UNCHANGED <<data, toml, lock, op, rfd, buf, wfd>>

\* Mutant: wait for the file to come back.
TmpGoneRetry(p) ==
    /\ pc[p] = "replace"
    /\ tmp = None
    /\ UNCHANGED vars

\* Somebody else has renamed it away: FileNotFoundError.
TmpGone(p) ==
    /\ pc[p] = "replace"
    /\ tmp = None
    /\ Exit(p, "error")
    /\ UNCHANGED <<files, lock, op, rfd, buf, wfd>>

-----------------------------------------------------------------------------
\* quod init looks for both files before it writes either.
InitChecks(p) ==
    /\ pc[p] = "idle"
    /\ p \in Inits
    /\ \/ /\ ~ForceInit
          /\ toml \/ path # None
          /\ res' = [res EXCEPT ![p] = "error"]
          /\ Goto(p, "done")
          /\ UNCHANGED buf
       \/ /\ ForceInit \/ (~toml /\ path = None)
          /\ buf' = [buf EXCEPT ![p] = Template]
          /\ Goto(p, "toml")
          /\ UNCHANGED res
    /\ UNCHANGED <<files, lock, op, rfd, wfd>>

\* quod.toml goes first, in place; then save_program(TEMPLATES[template]).
WriteToml(p) ==
    /\ pc[p] = "toml"
    /\ toml' = TRUE
    /\ Goto(p, "tmp")
    /\ UNCHANGED <<path, tmp, data, lock, local>>

\* Ctrl-C, SIGKILL or a crash.  flock dies with its file description.
Kill(p) ==
    /\ pc[p] \notin {"idle", "done", "killed"}
    /\ lock' = IF lock = p THEN None ELSE lock
    /\ Goto(p, "killed")
    /\ UNCHANGED <<files, local>>

-----------------------------------------------------------------------------
\* What a running invocation does next; Start is the user's, Kill the world's.
Step(p) ==
    \/ Acquire(p) \/ Release(p)
    \/ NoFile(p) \/ Open(p) \/ Read(p)
    \/ Edit(p) \/ Refuse(p) \/ LiftFails(p)
    \/ OpenTmp(p) \/ WriteTmp(p) \/ WriteFails(p) \/ Replace(p) \/ TmpGone(p)
    \/ WriteToml(p)

Next == \E p \in Invocations :
            Start(p) \/ NoConfig(p) \/ InitChecks(p) \/ Step(p) \/ Kill(p)

Spec == Init /\ [][Next]_vars

\* The scheduler runs every process; flock wakes a waiter once it is free.
\* Invocations are finitely many, so nobody is overtaken for ever.
FairSpec == Spec /\ \A p \in Invocations : WF_vars(Step(p))

-----------------------------------------------------------------------------
\* What a command would load now.
Stored == IF path = None THEN None ELSE data[path]

\* Every variable has its type, and a file descriptor names a file that is or
\* was one of the two paths.
TypeOK ==
    /\ path \in Inodes \cup {None}
    /\ tmp \in Inodes \cup {None}
    /\ data \in [Inodes -> Contents]
    /\ toml \in BOOLEAN
    /\ lock \in Mutators \cup {None}
    /\ pc \in [Invocations -> Labels]
    /\ op \in [Invocations -> Op \cup {None}]
    /\ rfd \in [Invocations -> Inodes \cup {None}]
    /\ buf \in [Invocations -> SUBSET Node]
    /\ wfd \in [Invocations -> Inodes \cup {None}]
    /\ res \in [Invocations -> {"none", "ok", "error", "full"}]

\* state.py's `with _exclusive_lock()`: a mutator is between load and release
\* exactly while it holds the lock, whichever way it leaves and whoever is
\* killed on the way; so no two are, and no dead process holds it.
LockDiscipline ==
    \A p \in Mutators : (lock = p) <=> (pc[p] \in Critical)

\* state.py:93, program.py:328: whoever loads the program, now or through a
\* descriptor opened before the last rename, reads one whole saved program.
WholePrograms ==
    /\ path # None => data[path] \in ValidPrograms
    /\ \A p \in Invocations :
          pc[p] = "read" => data[rfd[p]] \in ValidPrograms

\* state.py:87: no writer clobbers another.  A command that reports success
\* has turned the program of that very instant into the edited one, and
\* nothing but a successful command changes the program.
NoLostUpdate ==
    [][/\ \A p \in Mutators \cup Bumpers :
            (res[p] = "none" /\ res'[p] = "ok") => Stored' = Apply(op[p], Stored)
       /\ Stored' # Stored =>
            \E p \in Invocations : res[p] = "none" /\ res'[p] = "ok"]_vars

\* program.py:334 writes to one fixed tmp name: a tmp file beside the program
\* is the one somebody opened who is still writing, was killed, or could not
\* write it (program.py:335 cleans up after neither); however many writers
\* shared the name, those that ended otherwise leave none behind.
NoStrayTmp ==
    tmp # None =>
        \E p \in Invocations :
            /\ wfd[p] = tmp
            /\ pc[p] \in {"write", "replace", "killed"} \/ res[p] = "full"

\* A command that was started ends: it gets the lock, every way out gives the
\* lock back, and a killed holder blocks nobody.
EveryCommandReturns ==
    \A p \in Invocations : (pc[p] # "idle") ~> (pc[p] \in {"done", "killed"})

-----------------------------------------------------------------------------
\* What the abstract store says of each command so far.
Fate == [p \in Invocations |->
            IF res[p] = "none" /\ pc[p] = "killed" THEN "killed" ELSE res[p]]

\* What a reader will be given was settled when it opened the file.
Seen == [p \in Invocations |->
            IF p \in Readers /\ rfd[p] # None THEN data[rfd[p]] ELSE None]

\* Locked commands take effect at their rename, or where they are refused;
\* readers where they open the file.
Atomic == INSTANCE AtomicStore WITH
    Writers <- Mutators, NoProgram <- None, NoOp <- None,
    store <- data[path], asked <- op, fate <- Fate, seen <- Seen

\* While every writer takes the lock, the files behave as one atomic store.
ImplementsAtomicStore == Atomic!Spec
=============================================================================
