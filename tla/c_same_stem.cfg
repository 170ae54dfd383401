SPECIFICATION Spec
CONSTANTS
    Structs <- MCStructs
    Prototypes <- MCPrototypes
    Ingested <- IngestC
    Recorded <- WalkLift
    Projects <- MCSameStem
    Fuel = 6
    MaxEdits = 2
    MaxClaims = 1
INVARIANT RunsAsIngested
CHECK_DEADLOCK FALSE
