------------------------------ MODULE CIngest -------------------------------
(***************************************************************************)
(* The translation of C files put into IngestHistory: what a file comes to *)
(* and what a lift's walk records are those of the modules below, and what *)
(* is built of a program is held against the meaning of its C source.      *)
(***************************************************************************)
EXTENDS IngestHistory, LiftCheck, CSemantics, QuodSemantics

CONSTANT Fuel   \* bound: iterations of the loops of a run

ASSUME FuelAssumption == Fuel \in Nat

-----------------------------------------------------------------------------
(* Translation of a file.                                                  *)

\* Strings are numbered in a file and named for its stem.
StringNames(file, version) ==
    [t \in Range(version.texts) |-> <<file.stem, CHOOSE i \in DOMAIN version.texts : version.texts[i] = t>>]

LayerB(file, version) ==
    Picks([i \in DOMAIN version.fns |-> TranslateFunction(version.fns[i], StringNames(file, version))])

\* All the functions of a file have a layer A, or none has.
LayerA(version) == Picks([i \in DOMAIN version.fns |-> TranslateFunctionA(version.fns[i])])

ByName(fns) == [f \in {fns[i].name : i \in DOMAIN fns} |-> fns[CHOOSE i \in DOMAIN fns : fns[i].name = f]]

IngestC(file, version) ==
    {[structured |-> ByName(bs),
      functions |-> ByName([i \in DOMAIN bs |-> [bs[i] EXCEPT !.body = LowerFamily(@)]]),
      claims |-> [f \in {b.name : b \in Range(bs)} |-> {}],
      constants |-> [n \in Range(StringNames(file, version)) |-> version.texts[n[2]]],
      units |-> {[path |-> file.name, fns |-> [i \in DOMAIN as |-> [a |-> as[i], c |-> version.fns[i]]]] :
                   as \in LayerA(version)},
      lifts |-> {OnTrust(b.name) : b \in IF LayerA(version) = {} THEN {} ELSE Range(bs)},
      origin |-> ByName(version.fns)] : bs \in LayerB(file, version)}

-----------------------------------------------------------------------------
(* Runs.                                                                   *)

\* Where a pointer parameter points: the middle of an array of four, or a
\* structure.
Base == 16
MemoryFor(t) ==
    IF t.kind = "RECORD"
      THEN [k \in {<<Base, f.name>> : f \in Range(Structs[t.name])} |-> Seen(FieldType(t.name, k[2]), 1)]
      ELSE [k \in {<<Base + i * SizeOf(t), "">> : i \in -1 .. 2} |-> Seen(t, k[1] \div 4)]
Memory(c) ==
    LET pointers == {p \in Range(c.params) : p.type.kind = "POINTER"}
    IN  IF pointers = {} THEN <<>> ELSE MemoryFor((CHOOSE p \in pointers : TRUE).type.pointee)

Arguments(c) ==
    Picks([i \in DOMAIN c.params |-> IF IsInt(c.params[i].type)
             THEN Lowest(c.params[i].type) .. Highest(c.params[i].type) ELSE {Base}])
ArgumentsOf(c, args) ==
    [x \in {p.name : p \in Range(c.params)} |->
        LET i == CHOOSE i \in DOMAIN c.params : c.params[i].name = x
        IN  Seen(c.params[i].type, args[i])]

Fulfils(does, meant) ==
    meant.status \in {"ub", "cut"} \/ does.status = "refused" \/ does = meant

\* Quod code fn, in layer C, does what C function c does, wherever c has a
\* meaning and fn builds.
RunsAs(constants, fn, c) ==
    /\ [i \in DOMAIN c.params |-> c.params[i].name] = [i \in DOMAIN fn.params |-> fn.params[i].name]
    /\ \A args \in Arguments(c) :
          Fulfils(RunQuod(fn, ArgumentsOf(c, args), constants, Memory(c), Fuel),
                  RunC(c, args, Memory(c), Fuel))

-----------------------------------------------------------------------------
(* Properties.                                                             *)

\* The promise of an ingest: what is built of a C function does what the
\* source it was last translated from says, whatever was ingested since.
RunsAsIngested ==
    \A f \in DOMAIN program.functions :
        RunsAs(program.constants, program.functions[f], program.origin[f])

\* cli/equiv.py:399-403: a witness pinned to what was translated is current, for
\* the walk gives its record again, only while layer B does what the C function
\* of the program says, whatever was ingested since and whichever translation of
\* another version was put in its place.  Edits of what the walk does not look at
\* (the branches of a widened comparison, lift_check.py:826-832) are not tried.
WitnessedRunsAsSource ==
    \A l \in program.lifts :
        l.own /\ l.pin # {} => \A x \in CFnOf(program, l.fn) :
            Walk(program, x) = l.pin =>
                LET b == program.structured[l.fn]
                IN  RunsAs(program.constants, [b EXCEPT !.body = LowerFamily(@)], x.c)
=============================================================================
