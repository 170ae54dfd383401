# TLA+ models of quod

quod keeps a program as a JSON document, `program.json`, that is edited only through the `quod`
command line.  Functions carry claims, claims carry evidence (Z3 problems, lift transcripts), and a
build turns the document into LLVM IR in which claims are assumptions.  These modules model the parts
of quod in which order, failure and stale state matter: the store every command goes through, the two
kinds of evidence, the resolution of imports, the instantiation of generics, the passes a function body
goes through, the translation of C with its lift check and merge, and the language server with its
terminal client.  TLC checks them on small instances; TLAPS proves the central invariants for every
instance.

Source paths below are relative to `src/quod/` of the repository.

## 1. Inventory

| component | state it keeps | operations | talks to | what is hard | what makes it correct |
|---|---|---|---|---|---|
| program store (`cli/state.py`, `model/program.py`) | `program.json`, its `.tmp`, the `.lock` sidecar | load, edit in memory, validate, write tmp, rename, under `flock` | every command | concurrent invocations, two that skip the lock, kills, a full disk, one fixed tmp name | commands are atomic, readers see whole programs, no edit is lost, the lock always comes back |
| editing commands (`editor.py`, `cli/*`) | none | add, remove, rename of top-level nodes and statements | store | an edit that is legal alone and not after another | a refused edit changes nothing |
| claims (`cli/claim.py`, `predicate/proof.py`, `predicate/providers.py`, `version.py`) | claims per function, `proofs/<program>/*.smt2`, the version stamp | add (with any regime and justification), relax, prove, verify | store, Z3 | stale evidence after edits, claims that are each other's hypotheses, evidence cited by hand, lost files | what was proved is true when it verifies; a fresh proof verifies |
| equivalence evidence (`cli/equiv.py`, `lift_check.py`, `predicate/binary_*`) | equivalences with pins, `proofs/lift`, `proofs/decompile_lift`, `proofs/bin_relational` | `equiv prove --bump`, its dry run, `equiv verify`, `ingest` | store, Z3 | artifacts are written before the program is saved; refutation half way | a saved pin has its artifact; a bump refreshes |
| import resolution (`resolve.py`) | worklist, visited modules, merged definitions | one loop per build | stdlib JSON | cycles, diamonds, forwarded wirables, tiers | terminates, closed, the user's definitions win, no wirable left that an import could have bound |
| function bodies (`lower/c_family.py`, `validate.py`, `lower/desugar.py`, `lower/stmt.py`, `lower/function.py`, `lower/expr.py`) | the body, in memory; the builder's current block, loop targets and slots | lower the C family, validate, desugar arenas, lower to blocks | build, check, ingest | five walks over one tree, each with its own idea of which statements it looks into | what runs is what was written; no accepted body reads an unwritten local or fails later |
| monomorphization (`monomorphize/`, `lower/program.py`) | in memory: a stack of instances, the instances seen, the definitions built, an index of implementations | seed, build an instance, instantiate the implementations for it, rewrite, resolve trait calls, validate | resolve, validate, lowering | the order of a batch is that of a Python set; an implementation may be for a type that exists only once it is built; unbounded instantiation | the least set of instances is built whatever the order, nothing generic is left |
| lattice claims (`analysis.py`) and the rest of lowering (`lower/expr.py`) | in memory | fixed point over calls; types, literals, operators, casts to LLVM | claims | values carry no sign in LLVM | derived claims are sound; an expression means what its node says |
| runtime archive (`runtime.py`) | `build/libquodrt.a`, objects | rebuild when older than the sources | build | two builds at once, no lock | a build links a whole archive of these sources |
| ingest of C (`ingest/c/`, `cli/ingest.py`, `lift_check.py`) | source files; in the program, per function: layer A (shaped like C), layer B (structured quod), layer C (core quod), a lift between A and B with its witness | translate twice, lower, walk the two translations in lockstep | clang, merge, store | the layers are kept under different names and may come from different versions of a file; the lift check leaves things out of its record | what is built of a function does what its C source does; a witness is current only for such a layer B |
| ingest of binaries (`ingest/bin/`) | binary units | read a binary with Ghidra, decompile | Ghidra, merge | – | as for C |
| merge (`merge.py`) | none | fold a translation into the program | ingest | re-ingest over claimed functions, names two files share | claims survive where they still apply; to ingest twice is to ingest once |
| predicates (`predicate/canonical.py`, `render.py`, `validate.py`) | none | canonical form | claims | equal predicates written differently | idempotent, meaning preserved |
| script front end (`script/`, `render.py`) | none | text to nodes and back | editor services | round trip | parse after render is the identity |
| language server (`lsp.py`) | the open projects, the active program as it was when loaded | folder changes, program list, set active, outline, shape, traces | store (reader), qui | files that change underneath; requests that fail half way through a handler | answers about one program, the one the client believes active |
| qui (`qui/`, Rust) | workspace, programs, active program, body pane with its tabs, one overlay, fetched traces | a key at a time, then a draw that may fetch | language server | what is cached outlives the program it is about; indices into lists that are rebuilt; a server that dies | what is shown is the active program's; the user always has a way on |
| read-only commands and completion (`completion.py`, `cli/inspect.py`) | none | load and print | store (reader) | – | – |
| pi extension (`integrations/`) | session state | runs `quod` for an agent | command line | retries | no edit twice |

The components interact through files and through values, never through shared memory: a command
loads the program, works on an immutable copy, and saves.  So the interesting interleavings are between
processes at file system calls, and between *commands* over time: a claim proved by one command is
used by the next.  The models follow this: `ProgramStore` has the file system calls; above it a
command that holds the lock is one step (which is what the refinement to `AtomicStore` justifies), and
`--bump`, which does not, keeps its steps in `EquivEvidence`.

## 2. Modules

| module | models | state ↔ code |
|---|---|---|
| `ProgramEdits` | an edit: guard, result, validation | a program is the set of its top-level nodes; `ValidPrograms` is what `InputProgram` accepts |
| `AtomicStore` | the promise: every command happens at one instant or not at all | – |
| `ProgramStore` | the file protocol, one process per invocation | `path`, `tmp`: what the two paths name; `data`: contents of inodes; `lock`: the `flock`; `pc`, `op`, `rfd`, `buf`, `wfd`, `res`: a process's place, edit, open files, copy and how it ended |
| `MCProgramStore` | instances | three nodes, two of which exclude each other |
| `ProgramStoreProofs` | theorems | – |
| `ClaimEvidence` | `claim add / relax / prove / verify` against edits, losses and upgrades | `claims[f]`: the list on the function, each claim with its regime, its justification and whether it was added by hand; `proving`: a `claim prove` between its artifact and its save; `disk`: `.smt2` files, identified with their content; `stamp`: `quod_version` |
| `MCClaimEvidence` | instances | a three-bit integer type; a leaf and its caller |
| `ClaimEvidenceProofs` | theorems | – |
| `EquivEvidence` | the passes of `--bump` and of `ingest`, artifact by artifact | `live[n]`: what checking a pair comes to; `pin[n]`: the saved witness; `files`; per program `pass`, `mem`, `todo`, `dry` |
| `MCEquivEvidence` | instance | two lifts, one decompiled pair, one binary pair |
| `EquivEvidenceProofs` | theorems | – |
| `ImportResolution` | the loop of `resolve_imports` | `queue`, `visited` as in the code; `merged[n]`: which module's copy, under which wiring, defines n; a type is an atom inside some number of applications |
| `MCImportResolution` | instances | every combination of four, three and three files for three modules, two of them also without the third |
| `NatRecursion` | induction over numbers and functions defined by it, as lemmas about sets and functions | – |
| `ImportResolutionProofs` | theorems | – |
| `GenericTypes` | types with arguments: naming, substitution, mangling, the applied generics a body mentions; what these do further down, in type arguments, are constants | a name is a sequence of tokens, since a mangled name is a concatenation |
| `Monomorphize` | `prepare_program`: validate, work off the instances, rewrite, resolve trait calls, validate again; composes `GenericTypes`, refines `InstanceWorklist` | `pending`: the stack, in batches whose inner order is free; `seen`; `types`, `fns`: what is built; `impls`: the index; `stage`, `refusal` |
| `InstanceWorklist` | the promise: the least set of instances closed under what an instance mentions | – |
| `MCMonomorphize` | instance | a library of generics, a choice of implementations (two traits may share a method's name), the mentions of `main`; `InstancesMentioned` is written without the pass |
| `MonomorphizeProofs` | theorems | – |
| `Statements` | the statements and the control-relevant expressions; `body_always_terminates` | a body is a sequence of statements, as in `Block` |
| `BodyValidate` | the validator's walks: locals, scopes, loops, definite initialisation | an outcome is the `set` or `None` of `_check_stmt_init`, with the reads it flagged |
| `BodyRewrite` | the C family lowering and the arena desugaring | – |
| `BodyLower` | the lowering to basic blocks | a builder: `blocks`, `at`, `loops` (`loop_stack`), `locals` (`locals_`), the first error |
| `BodySemantics` | what a body means: its trace under a sequence of decisions | – |
| `FunctionBody` | the pipeline and the run of the blocks; composes the five above | `phase`; `code`: the lowered function; `at`, `pc`, `written`, `trace`, `decisions`: the run |
| `MCFunctionBody` | instance | about 3,700 bodies of up to three levels |
| `CSource` | what libclang hands over: cursors with kinds, types and the conversions C inserts (external) | – |
| `CMachine` | what a run can be seen to do: calls, memory, the value returned (external) | – |
| `CSemantics` | the meaning of C source, on the machine (external) | – |
| `CLayerB`, `CBodyB` | the translation to layer B: expressions; statements and functions | a translation is the set of its results, empty when the source is refused |
| `CLayerA` | the translation to layer A | the same |
| `LiftCheck` | the walk of layers A and B | a walk is the set of its records, empty when the layers diverge; a record is what the code hashes |
| `QuodSemantics` | lowering of expressions to LLVM and a run of the result | – |
| `IngestHistory` | ingest, merge, proof, claims, edits of sources and of the program, over a history; what a file is translated to and what a walk records are constants | `source`: the versions on the disk; `program`: the collections of `program.json` by name; `last`: the command just run and how it ended |
| `IngestHistoryProofs` | theorems | – |
| `CIngest` | `IngestHistory` with the translations and the walk of the seven modules above, and the meaning of what is built; with `BodyRewrite` and `BodyValidate` | – |
| `MCCIngest` | instances | see the bounds |
| `Selection` | the elements of a sequence that are in a set: `retain` and `filter` | a function of sets where `SelectSeq` takes an operator, so that it can be proved about |
| `QuodLsp` | the server's operations on its projects and its active program | `projects` in order of opening; `active` with the content it was loaded with |
| `QuiBody` | the body pane: sections, cursors, tabs | `tabs`, `tab`, `focus`, `section`, `cursor` as in `Body` |
| `QuiPicker` | the list overlay: filter, snapping cursor, chosen row | `items`, `input`, `cursor` as in `Picker` |
| `QuiSession` | qui's loop: each key's handler with all the requests it makes, then the draw; composes the three above | `app`: the fields of `App`; `disk`, `tomls`: the files the server reads; `phase`: the place in the loop |
| `MCQuiSession` | instance | a project with a program, one without, a standalone file |
| `QuiSessionProofs` | theorems | – |

`PROJECT.json` has, for each definition, the lines it stands for.  Operators marked "Mutant" are
plausible bugs of the definition that follows them; each property is shown to fail under one.

### What is abstracted

* **Store.** A program is a set of nodes, an edit adds or removes one; which sets are valid is a
  constant.  The page cache survives a kill: power loss and the missing `fsync` are outside the model.
  A write that races with another write to the same inode gives either document or a mixture; one that
  fails leaves part of the document, or nothing.  Opening the tmp file, the rename and the write of
  `quod.toml` do not fail for want of room or permission.
* **Claims.** A body is one of three forms (a constant, a two-branch step, a call); an SMT problem is
  the record of what `goal_smt_lib` prints, its hash the record itself; Z3 is the definition of `unsat`
  over a small range, so it never answers unknown; a prove that fails (`vain`) leaves its artifact and no claim.
  `asserted` tells the claims of `claim add` from those of `claim prove`, which the program does not; no guard
  of a command reads it, only the choice of what the users of a history do.
  Claims on externs, the enforcement of a claim and the names in artifact paths are left out.
* **Equivalences.** What a walk or an encoding decides about a pair is an input (`Outcomes`, `Answer`),
  and changes only between the commands on that program; an edit made during a bump is lost (§5).
* **Imports.** A definition is its name and the wiring its copy was substituted with; substitution in
  bodies is that wiring, and a wired type is one atom inside some number of applications (`Box[Box[A]]`).
  Traits are the names `Traits`, merged as they are; impls' names are names like others.
* **Bodies.** Types and values are left out: an expression is what it reads and calls, a condition goes
  either way when it is tested, so a run is fixed by the source and the decisions taken.  `Call` stands for
  every node that evaluates its operands in order; `Not`, `ShortCircuitAnd` and `TryExpr` are kept because
  the passes differ on them.  Instructions are loads, stores and calls.  llvmlite's rule that nothing
  follows a terminator, and the verifier's that every block has one, are part of the builder.  Claims at
  entry and return, monomorphization in between (the bodies are not generic) and the IR optimiser are left
  out.  `BodySemantics` is the reference the passes are held against; it follows the docstrings of the
  nodes, and drops an arena on every exit edge of its body.
* **Monomorphization.** Names are sequences of tokens, and two instances share a name exactly when mangling
  gives them one.  A body is the set of places that mention a type, a generic function or a trait.  What
  the validators check about values is left out; what they check about names, arity and type parameters is
  `Validates`.  Each instance is queued once (`TypeOK`), so the code's test for one already built never
  fires here either.
* **C.** Widths are scaled down, char to 2 bits, int to 3, long to 5; each conversion and operation wraps or
  is undefined at its own width.  A float is an integer that casts are exact on.  Pointers point at one
  object of the caller's; calls return a function of their arguments and are seen in the trace.  A string
  is a number, its name the stem of the file and its position.  A command is one step, since it holds the
  lock (`store_locked` shows what that gives); the artifacts are `EquivEvidence`'s subject.  Four parts of
  the state are not in `program.json`: `origin` and `c` (the source a layer was made from), `touched` and
  `own` (whether layer B was edited by hand before its lift was pinned).  They occur in no guard; `own` limits
  `WitnessedRunsAsSource` to layers the ingester made.  A run that C leaves undefined, that runs out of
  `Fuel`, or of a function the build refuses, is not compared.
* **qui.** The client blocks on every answer, so a handler with its requests is one step; the server dies
  between steps, which is how a handler finds some of its requests refused.  A program's content is what
  the screen can tell of it: non-empty categories, views, rows per trace (0: the printer has no case for
  a node).  Typing is the set of labels the text matches.  The recents, the browsing in the open modal and
  messages inside a modal are left out: what the user opens there is any path.  A project without
  programs shows only a header and a placeholder, neither of which can be chosen, so it cannot be
  removed again; the model follows the code in this.

## 3. Runs

| run | properties | what it shows |
|---|---|---|
| `store_locked` | TypeOK, LockDiscipline, WholePrograms, NoStrayTmp; NoLostUpdate, ImplementsAtomicStore, EveryCommandReturns | two locked commands and a reader, killed anywhere, with writes that fail: an atomic store |
| `store_unlocked` | NoStrayTmp; EveryCommandReturns | a locked command, a bump and `init --force` on the shared tmp file: a tmp that is left is that of a killed writer or a failed write; everybody ends |
| `claim_evidence` | TypeOK, VerifiedProgramIsSound, PinsHaveArtifacts; FreshProofVerifies | histories of claims on a leaf and its caller, proved, asserted or cited by hand, with proofs that die before the save |
| `claim_repair` | VerifiedProgramIsSound, **violated** | stale witnesses prove each other |
| `equiv` | EvidenceIntact; BumpRepins | evidence over edits, losses, refutations, dry runs and kills; `BumpRepins` is about the commands that write artifacts |
| `imports` | UserShadows, NoDisabledTier, NoFreeWirables, Closed, NearestWins; ResolutionEnds | all small libraries |
| `mono` | TypeOK, Monomorphic; BuildsLeastInstances, PreparationEnds | each program, each order of the worklist: the same instances are built, none that a template mentions is missing (nor one that an implementation mentions, outside `ImplGap`), nothing generic is left, the pass ends |
| `body` | NoUninitialisedRead, RunsAsWritten, AcceptedBodiesLower, RefusalsHaveARun | each body, with each sequence of decisions: what runs is what was written; what the analysis lets through and what it refuses.  A body that owes a value and may fall off its end is left open (`OwesValue`) |
| `c_ingest` | TypeOK, RunsAsIngested, WitnessedRunsAsSource, ReingestIsNoOp; ClaimsOutliveIngests | histories of C projects: what is built of a function returns, calls and writes what its source does, for every argument; a current witness vouches for that; claims and second ingests |
| `c_same_stem` | RunsAsIngested, **violated** | the strings of two files of one name are mixed up |
| `c_fallback` | TranslatedFilesAreIngested, **violated** | a file that loses its layer A cannot be ingested again |
| `qui` | TypeOK, TabsFit, ShowsTheActiveProgram, ActiveIsAnchored, PickerInSync, NoDeadEnd | every session over two projects and a file, with one change of a file and the death of the server |

The violated properties quote the docstring, comment, guide or test they take their words from; the
passing runs next to them say what does hold.

### Bounds, and why they are enough

* Store: two writers and a reader.  Every property relates at most two invocations and the file, and the
  theorems drop the bound.  Two nodes exclude each other, so an edit can be legal when it is loaded and
  not when it is applied; the third is the witness a bump adds.
* Claims: two functions, two return bounds and one on the parameter, at most two claims on each (`MaxClaims`: the second claim is
  what makes hypotheses matter), three artifacts (`MaxFiles`), one lost (`MaxLost`), one claim added by hand that
  is not a plain axiom (`MaxCited`); integers from -4 to 3,
  call results from -6 to 5, enough for a sum or an unconstrained call to leave the type.  What a history
  may do besides proving is its *policy*, one of: edits, and proofs that fail or die before the save; edits and
  losses, also of the artifact of a proof under way; axioms and relaxing; upgrades; and `claim add` with any regime and
  justification (none, a signature, or any artifact and problem somebody has seen, matched or not).  The mix of edits and relaxing is the subject of `claim_repair`, where soundness fails, so
  `claim_evidence` says nothing of it.  No body of this run calls itself (its callee
  facts would then include the claim just proved) or has a sum that leaves the type: the SMT problem adds exactly and the compiled function wraps
  (`Wrap`), so a bound proved of such a sum is broken by the largest input.
* Equivalences: one program with a pair of each kind and a second lift, so that one lift can fail after
  another was rewritten; two edits (`MaxEdits`), enough to change a body and change it back.
* Imports: three modules allow a cycle, a diamond, a missing file, and a wirable forwarded twice, as it is
  or inside an application each time; the list of program imports includes free, missing, extra, conflicting and
  nested free wires.  One of the three names is a trait.

* Bodies: one local declared without a value, two arenas, one parameter; loops of each kind around up to two
  statements or a branch and a statement, loops in loops, arms in loops, arenas in arenas and in loops; each
  placed after and before a write and a read.  `MaxDecisions` is four: two tests of a loop with a branch
  in each iteration, which is what a write of the first iteration and a read in the second take.
* Monomorphization: `MaxMentions` is two, out of fifteen mentions in `main`, with ten choices of
  implementations (1,210 programs), of which one has two traits that share a method's name and one an implementation for
  no struct or enum; the library has a struct within a struct, a recursive enum, two functions that mention each
  other, bounds, and a body the pass cannot substitute in.  Two mentions meet on one instance, or one needs
  the implementation the other brings; a chain of instances is as long as the library is deep.  All programs end: no template of this
  library mentions ever larger instances of itself, since then the code does not end either.
* C: fifty-one projects of one function, a few for each construct the ingester knows; ten families of
  functions a hand edit may confuse with each other (their versions differ in one operator, constant, type
  or name); and four projects of several files that share, refuse or rename functions.  Every argument of the scaled
  types is run.  `Fuel` is six tests of loop conditions, more than any run of these functions that ends;
  `MaxEdits` is two, an edit and
  its undoing or an edit of each file; `MaxClaims` is one, on each parameter or result in turn.  A hand edit
  of layer B is the translation of another version of the function, which is what the records of the lift
  check have to tell apart; edits that no version's translation makes, such as those the record leaves out
  (`lift_check.py:826-832`), are not tried.
* qui: one project whose program is also a standalone file, so one content has two identities; one project
  that its configuration may exclude from the server; contents with one category or two views, one of which has a trace the printer cannot show; a filter that hides either kind of row, or all of them; one change of a file (`MaxEdits`),
  enough for an answer to be about an older content.

Deadlock checking is off in every configuration but `mono`'s, where only a program that is ready or refused
stutters: a finished set of invocations, a resolved program, a session that was
quit and a history at its bounds have no next step.

### Fairness

`ProgramStore`: weak fairness of the next step of every running invocation.  The operating system runs
every process, and `flock` wakes a waiter when the lock is free; invocations are finitely many, so
a waiter cannot be overtaken for ever.  Starting a command and killing one are not fair.
`ImportResolution` and `Monomorphize`: weak fairness of the loop, which is one thread.  The others state no
liveness.

## 4. Proofs

| theorem | statement | assumes |
|---|---|---|
| `ProgramStoreProofs!Typed` | `Spec => []TypeOK` | – |
| `LockIsDisciplined` | `Spec => []LockDiscipline` | – |
| `TmpIsTakenAway` | `Spec => []NoStrayTmp` | – |
| `ProgramsAreWhole` | `Spec => []WholePrograms` | no unlocked writers, a program to start with |
| `NothingIsLost` | `Spec => NoLostUpdate` | the same |
| `StoreIsAtomic` | `Spec => ImplementsAtomicStore` | the same |
| `ClaimEvidenceProofs!ClaimListsAreOnce` | `Spec => []TypeOK` | `CallsAreResolved` |
| `ProvedThenVerified` | `Spec => FreshProofVerifies` | `CallsAreResolved`, `NoSelfCall` |
| `PinnedArtifactsExist` | `Spec => []PinsHaveArtifacts` | `CallsAreResolved` |
| `VerifiedMeansTrue` | `Spec => []VerifiedProgramIsSound` | `CallsAreResolved`, `PlainPrograms`, `CarefulUsers`, `Evident` |
| `EquivEvidenceProofs!SavedEvidenceIsThere` | `Spec => [](a settled pair whose file no other pair writes verifies)` | – |
| `EvidenceStays` | `Spec => []EvidenceIntact` | no two pairs write one file |
| `SavedPinsAreCurrent` | `Spec => BumpRepins` | – |
| `ImportResolutionProofs!OwnDefinitionsStay` | `Spec => []UserShadows` | – |
| `DisabledTiersStayOut` | `Spec => []NoDisabledTier` | – |
| `WirablesAreBound` | `Spec => []NoFreeWirables` | – |
| `ResolvedIsClosed` | `Spec => []Closed` | – |
| `NearestDefinitionWins` | `Spec => []NearestWins` | – |
| `MonomorphizeProofs!WorklistTypeOK` | `Spec => []TypeOK` | – |
| `AlwaysMonomorphic` | `Spec => []Monomorphic` | – |
| `BuiltIsLeast` | `Spec => []Worklist!Least` | – |
| `ImplementsWorklist` | `Spec => BuildsLeastInstances` | – |
| `IngestHistoryProofs!IngestTypeOK` | `Spec => []TypeOK` | – |
| `IngestKeepsClaims` | `Spec => ClaimsOutliveIngests` | – |
| `IngestIsIdempotent` | `Spec => []ReingestIsNoOp` | – |
| `QuiSessionProofs!TypeCorrect` | `Spec => []TypeOK` | – |
| `TabsLeadSomewhere` | `Spec => []TabsFit` | – |
| `ScreenShowsActive` | `Spec => []ShowsTheActiveProgram` | – |
| `ActiveHasAnAnchor` | `Spec => []ActiveIsAnchored` | – |
| `PickerShowsWhatItPicks` | `Spec => []PickerInSync` | – |
| `NeverADeadEnd` | `Spec => []NoDeadEnd` | – |

All hold for every value of the constants under the modules' own assumptions: `InvocationsAssumption`,
`EvidenceAssumption`, `PairsAssumption`, `ModulesAssumption` (the library is finite, an import list is a sequence of imports),
`BoundsAssumption`, `ProjectsAssumption` (a project is a sequence of files; a translation has each function of its
file in every layer, nobody's claims, lifts on trust only, and is the same each time), those of
monomorphization (below) and `SessionAssumption` (what files can hold has the shape the server parses; `None` is neither a root nor
an active program nor a row).  TLC evaluates each of them on the instance of its run.

**Store.** `WholePrograms` is not inductive: a process that is about to rename may have a tmp inode in
any state.  The strengthening says who owns what: the holder of the lock owns tmp once it has opened it,
tmp and path never name one inode, an inode behind path or behind a reader's descriptor is never written
again, and what a process holds in memory while it has the lock is what path holds.  From the last
conjunct `NoLostUpdate` and the refinement follow: the rename is the step `Perform`, and its guard holds
because the copy is the program of that instant.  The assumption that nobody writes without the
lock is needed: a bump saves what it loaded before (§5).  A failed write is a step of its own in the
abstract store (`Fail`: a legal edit that is not performed, and reported), so `StoreIsAtomic` tells it from a refusal.
`NoStrayTmp` names the inode: a tmp file is the one opened by somebody who still writes, was killed, or could not
write, and is inductive with the types and labels.

**Claims.** The strengthening `Shape` says that the claim lists hold claims and a body belongs to its
function.  A proof under way keeps the problem the stored program would give, and its artifact is on the disk or was
taken away (`InProgress`): no other command gets the lock in between, and only files can change.  With it
`PinnedArtifactsExist` says that what `claim prove` stored has its artifact, whichever step it dies at.  What was
added by hand has whatever its user cited.
`ProvedThenVerified` is then an argument about sequences (`RemoveAtLast`: the list without its
newest claim is the list the prover saw) and about the callee facts, which a proof on f changes only for
callers of f.  The assumption that f is not its own caller is needed: a recursive
function's new claim becomes a callee fact of its own problem, and `claim verify` then reports another problem.

`VerifiedMeansTrue` is what `claim verify` is for, and its assumptions are where the code stops keeping the
promise.  It is about the claims `claim prove` stored: those added by hand, as axioms or with `--regime
witness`, with or without a justification, are taken to be true (`AssertionsHold`), since `claim verify` skips a claim
without a justification (`cli/claim.py:416`) and believes a signature.  `Evident`: a claim's evidence is not the mark
for none.  `CarefulUsers`: nobody takes back what was added by hand, and nobody who edits bodies relaxes a claim
(`claim_repair` is a history of somebody who does, and ends in two false claims that verify).
`PlainPrograms`: no sum leaves its type, because Z3 adds without wrapping; and where claims compare the
result with the parameter, calls pass their parameter on, because the callee's claims are read with the
caller's `x`.  All of them hold in `claim_evidence`.  The proof has two halves (`Earned`).  Where nobody edits,
every claim was proved from claims that followed from what was asserted, so it follows from that, on whichever
inputs they are true; relaxing and proving again in another order changes nothing in this, although the
stored problems may then rest on one another in a circle.  Where nobody relaxes, a proof has just the claims before it as
hypotheses, while verification rebuilds the problem from all the others: a witness that verifies is the last
of its list and rests on what was asserted alone.  Its function may still call others, itself included, whose
witnesses rest on it: the claims are true of the runs of each depth by induction on the depth
(`VerifiedInOrder`), the callee's being one call less deep.  `Runs` is a recursive function of the depth, and
TLC checked both halves on the instance of `claim_evidence` before they were proved.

**Equivalences.** A saved pin has its artifact, although the artifact is written first, by a pass that may
still be refuted or killed.  `unsettled` holds the pairs whose file was last touched by somebody who has
not saved: a pass that died there, a dry run, a `git clean`.  For every other pair the invariant
(`Backed`) says that the saved pin verifies; that what a running pass has written and pinned in memory is on
the disk; and that what it has not written it pins as the saved program does, or not at all.  The second
part is what `Save` turns into the first.  Two pairs whose C functions have one name write one file (§5),
so the theorem is about pairs that do not (`Alone`); in `EvidenceStays` none do.  `AllCurrent`, the same for the
content of the pins, gives `BumpRepins`: a lift that is there, and a decompiled pair the walk accepts, is pinned to its
bodies.  A dry run re-pins too, to files it did not write (§5), and is outside the property.

**Imports.** `UserShadows` and `NoDisabledTier` follow from what each step merges.  For `NoFreeWirables` this is
not enough: `_apply_wires` refuses a wire to a type parameter and does not look into `Box[T]`, so that no `T` is left
there depends on what was substituted when the importing module was merged itself.  The invariant is about the queue
(`Forwarded`): a waiting import has no wirable inside an application, except one that an import wrote
where nobody around it declares it (`Loose`); so for each copy that was merged.  Traits are outside, since they
are merged unsubstituted (§5).  `Closed` and `NearestWins` are about paths.  The walk is at some distance d with j
imports of that distance to go (`AtLevel`): what is nearer was visited, nothing further was, the rest of
the queue is one further, and what a visited module imports was visited or is queued.  When the queue is
empty this closes the visited set.  Distances are unfolded by induction on their length
(`NatRecursion`).

**Instances.** The inductive invariant says what every step of the pass must know of what was built
before.  Each name that exists is accounted for (`NamesAccounted`): it comes from the program text or is a
method's symbol (`Given`: one token, or a name that does not end in `>`), or it is the name of an instance that was seen and no longer waits.
An instance's name has several tokens and ends in `>`, so the two kinds cannot meet (`InstanceNames`,
`MethodNames`), and two instances do not share one; so what waits is not built, which is
`TypeOK`.  For `Monomorphic`: substituting an environment of concrete types into what is in scope leaves no
parameter (`SubstitutedSite`), and rewriting leaves no arguments (`RewrittenSite`); and each method
the index promises has its function, which came from that very trait where `MethodsApart` holds (`Backed`).  `ImplsStayFit` is the induction
over the implementations of one template, `PushGains` the one over the fields that bring new instances.

That a trait call calls the method of *its* trait holds where `MethodsApart` does, which is a condition inside
`Monomorphic` and no assumption: the symbol of a method is the type and the method's
name, without the trait (`traits.py:70-72`), so the later of two traits overwrites the earlier one's
function and nothing refuses the program.  One choice of implementations in `mono` has such
traits; of its programs the rest of `Monomorphic` is checked and proved, that the call has a function at all included.

`ImplementsWorklist` maps the stack of batches to the set of instances that wait, and what is built to the instances
whose names exist.  Loading and the rewrite are stutters or the start and the end; building one instance
builds just that one (`BuildKeepsNames`: no implementation's method makes another instance appear) and queues just what its template mentions.
`NoneMissing` adds what the methods of the implementations it brings mention (`ImplMentions`): nothing queues these
(`ImplGap`), so they are sure to exist at the end only where the template mentions them too, which is what is left of
`monomorphize/__init__.py:3-6` and `traits.py:148-151`.  `BuiltIsLeast` goes on from the abstract worklist, where `Progress` is inductive: known is
waiting or built, and nothing is known that some closed set lacks.  Together: what is built does not show the
order in which Python's sets were walked.

The assumptions: names are in scope (`ProgramsAssumption`; the validators and `substitution.py:24-27` refuse other
programs); names tell instances apart and name nothing but tokens (`InstanceAssumption`; mangling writes
`<`, `,` and `>`, which no identifier contains); `Instance` is wide enough and `Mentioned` is what the pass finds in a
template (`MentionsAssumption`; TLC compares the two for every instance, with `InstancesMentioned` written
independently).  Naming, substitution and search within type arguments, which recurse over
types, are constants of `GenericTypes` (`ArgNames`, `SubstituteArgs`, `ArgInstances`), so the theorems hold
whatever they do within those assumptions; `MCMonomorphize` gives them their recursive definitions.

**Ingest.** These theorems are about the history alone: they hold of any translation that is the same each
time and of any walk, so of the parts of C that are not modelled too, and for any number of files.  A fold over
files is unfolded by induction on how many it has merged (`FoldAt`).  `Fits` says of a program what `TypeOK` checks,
with the shape of its records; every merge and every proof keeps it (`MergeFits`, `ProvedFits`).  For
`ClaimsOutliveIngests` the files before the one that defines a function leave it as it was, that one drops
just the claims without a target, and the files after it leave it alone (`FoldKeeps`); with two definers the
second may drop what the first would have kept, hence the condition on `Definers`.

`ReingestIsNoOp` is not shown by comparing the two folds' programs file by file: halfway through the second ingest,
where two files define one name, the program is neither what it was nor what the first ingest had there.
It is a mixture: each function, constant and unit is the final one or the one the first ingest had after the
same files, each lift is a proved one or a new one on trust beside it, and claims and hand edits are already
final (`Follows`, kept by `MergeFollows`).  The second half needs what a merge never undoes (`Grows`): names,
paths and lifted functions stay, claims only go, so a claim that survived the whole of the first ingest survives
every step of the second.  At the end both alternatives are one, and proving gives back each lift it finds
pinned to the record of the walk (`ProvedAgain`).

**qui.** None of the six properties is inductive.  Tabs and cursors fit because every change of program
resets the body, so the invariant is about all the fields at once: what is shown is what the server answered
about its active program, every project the server has open and every program it listed has its anchor in the
workspace, and so has the active program.  That is `Steady`, which every request keeps, refused or not.
`Good` adds that an open picker's rows are current; a handler may break this on the way, when it
adds or removes an anchor, and the lemmas about whole handlers show that it is mended before the next key.
The picker's cursor needs that a nonempty set of positions has a least and a greatest (`FirstAndLast`).
The command line, the picker's rows and every filter are recursive functions, unfolded by
`BoundedIterationExists`: a value for 0 and a step for each further number define a function.

Only model-checked: everything under fairness (`EveryCommandReturns`, `ResolutionEnds`, `PreparationEnds`),
because TLAPS does not treat ENABLED; `RunsAsIngested` and `WitnessedRunsAsSource` of `CIngest`, and the
properties of `FunctionBody`, whose operators recurse over cursors and trees of statements, which the
provers cannot follow (they know recursion over numbers, as functions).  `TypeOK` and `ReingestIsNoOp` of
`CIngest` are proved of `IngestHistory`, for any translation; TLC checks them of the translation modelled.

## 5. Not modelled

The script front end, rendering, schemas, `quod.toml` and the reading of binaries by Ghidra are functions on
large data types with tests of their own; a model would repeat them.  Of C, globals, typedefs, unions,
arrays and headers are left out; of the merge, externs with their claims, structs, enums, imports and
binary units.  `BuildArchive` (below), the canonical form of predicates and the lattice of derived claims
remain to be modelled.

### Known behaviours that no run shows

Met while modelling.  The store, claims and equivalences:

* `equiv prove --bump` loads and saves without the lock (`cli/equiv.py:88`, `:120`), so an edit saved in
  between is overwritten, against `cli/state.py:85-91`.  `--no-write-proofs` saves pins to artifacts it did
  not write (`lift_check.py:1635`): a dry run
  re-pins, where the docstring says that stale pins are re-pinned "only when `write=True`" (`:1563-1564`).  The
  witness of a decompiled pair that the walk refutes stays on the program, where `cli/equiv.py:171-172` says that no
  equivalence is left.
* `claim add --regime witness` without a justification gives a witness nobody proved, which `claim verify` skips
  (`cli/claim.py:416`): a false one passes.  A manual or derived justification always verifies.  `--justification`
  with a hash may cite a file that is not there (`cli/claim.py:278-323`).  Of a Z3 justification, `body_smt_hash` and
  `artifact_hash` are compared with the current problem and with the file, not with each other, so an artifact about another
  problem passes.
* A write that fails leaves `program.json.tmp` behind (`model/program.py:335`), until the next writer renames
  its own over it.
* `quod init` killed between `quod.toml` and the program leaves a checkout that the next `init` without `--force` refuses
  (`cli/app.py:112-139`).  No property covers it: that `init` returns.
* The claims a claim was proved beside change the problem it is verified with (`cli/claim.py:444`).  A proof
  under a new version makes the stamp current for all older pins (`version.py:81`).  Proofs use exact
  integers, the compiled code wraps (`predicate/proof.py:109`).
* Two programs of one `quod.toml` share `proofs/lift` (`cli/ingest.py:88`).  `equiv` classifies lifts without
  the program, so a function with a string literal is always reported as failing (`cli/equiv.py:444`).
* There is no `fsync` before the rename (`model/program.py:335`).

Imports, generics, bodies and qui:

* Two imports that wire one module differently get the first wiring (`resolve.py:104`).  `import m wire
  A=Box[T]` with a `T` nobody declares is accepted, and leaves `T` free (`resolve.py:188-198`; `Loose`).  The traits of
  a module with wirables are merged unsubstituted (`resolve.py:341-349`).
* A cycle of structs that arises by instantiation is not refused (`model/program.py:245`).  Whether a bound
  holds may depend on the order of instances.  Mentions inside implementations' bodies are not collected
  (`ImplGap`), so that a program which needs one is refused by the second validation.  A generic implementation for
  a type that is no struct or enum is a `ValueError` (`monomorphize/traits.py:133`).
  `IfExpr` is unknown to substitution: generic functions with one crash the pass, and an implementation's method with
  one is refused as soon as it is read, by `ImplDef`'s own validator, which walks it in the same way
  (`model/traits.py:93-101`).  Float arguments are unknown to mangling.  Two traits that have a method of one
  name for one type share its symbol (`monomorphize/traits.py:70`; `MethodsApart`).
* `validate.py:693` has no case for `Not`: reads below a negation are not analysed, against
  `model/statements.py:84-87`; nor does the analysis follow a `do`-`while` that is left early or a binding that
  hides a local (`InitGap` names the three).  `break`, `continue` and `?` leave an arena without dropping it
  (`ArenaGap`).  A function that owes a value and falls off its end is sealed with
  `unreachable` (`lower/function.py:121-128`), so that no verifier error follows, against `:112-114`; the
  properties leave such bodies open (`OwesValue`).
* The error about a trace that cannot be printed is raised again by the draw after its dismissal
  (`qui/src/main.rs:283`, `:890-903`).
* The docstring of closing a tab says that focus is left on the sidebar (`qui/src/body.rs:284`); it stays in
  the strip while tabs are left, and with none left a key moves it to the empty strip (`body.rs:151-159`) and back.  No property is about focus.

C, as ingested:

* Translated, accepted by the lift check, and not what C means: `switch` on a call evaluates the call at
  each test; `q += n` on a pointer moves by bytes; a compound assignment of operands that differ in sign; a
  `do`-`while` body that shadows a parameter; static locals, which become automatic.
* Translated and then never accepted, so that the whole ingest ends without a save: `-x` on floats, `z /= 2`
  unsigned, `*(n + p)`, a `switch` with only a default of two statements.
* Translated and not buildable: conditions that are not comparisons, `int x = a < b`, `p - n`, shifts of
  operands of different types.
* The lift check does not see a `return 1` and `return 0` swapped in a widened comparison
  (`lift_check.py:807-836`), nor structure definitions; casts and strides edited by hand are accepted once
  they are proved again.  Layer C may be edited without any witness noticing.
* Two files that define one static function: ingesting the first again always fails, and claims may be
  dropped on the way.  A function called from another file becomes an extern and a function.  After a
  rename, the strings of the function that stays behind are overwritten.
* A re-ingest drops traits, impls, wirables and the version stamp, against "purely additive" (`merge.py:3`),
  and keeps a claim when its parameter becomes another integer type.

The models contain those of the lock, `--bump`, dry runs, claims added by hand, the failed write, wires, the generics'
order, mentions and method names, negation, fall-off, focus
and the error overlay, and no property of a passing run denies them: where one would, the property names the gap
(`Loose`, `Traits`, `ImplGap`, `MethodsApart`, `InitGap`, `ArenaGap`, `OwesValue`, `unsettled`, `asserted`).  The corpus
of `c_ingest` leaves out the
sources that show those of C; the others lie in what is abstracted.

### Planned

1. `BuildArchive`: concurrent builds, freshness, unlink before `ar`; then a build that reads the store.
2. Externs with their claims, structs and enums in the merge; globals in the ingest.
3. `CanonicalPredicates`: canonical form as a recursive function against a reference semantics; that
   `add_claim` refuses what is equal, and only that.
4. `LatticeClaims`: `analysis.py`'s fixed point against the least solution.
5. Renames in `editor.py` over the collections that hold a name.
