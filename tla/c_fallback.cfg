SPECIFICATION Spec
CONSTANTS
    Structs <- MCStructs
    Prototypes <- MCPrototypes
    Ingested <- IngestC
    Recorded <- WalkLift
    Projects <- MCFallback
    Fuel = 6
    MaxEdits = 2
    MaxClaims = 1
INVARIANT TranslatedFilesAreIngested
CHECK_DEADLOCK FALSE
