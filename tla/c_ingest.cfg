SPECIFICATION Spec
CONSTANTS
    Structs <- MCStructs
    Prototypes <- MCPrototypes
    Ingested <- IngestC
    Recorded <- WalkLift
    Projects <- MCProjects
    Fuel = 6
    MaxEdits = 2
    MaxClaims = 1
INVARIANT TypeOK
INVARIANT RunsAsIngested
INVARIANT WitnessedRunsAsSource
INVARIANT ReingestIsNoOp
PROPERTY ClaimsOutliveIngests
CHECK_DEADLOCK FALSE
