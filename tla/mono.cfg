SPECIFICATION Spec
CONSTANTS
    Programs <- MCPrograms
    Instance <- MCInstance
    Token <- MCToken
    ArgNames <- NestedNames
    SubstituteArgs <- NestedSubstitution
    ArgInstances <- NestedInstances
    Mentioned <- InstancesMentioned
    MaxMentions = 2
INVARIANT TypeOK
INVARIANT Monomorphic
PROPERTY BuildsLeastInstances
PROPERTY PreparationEnds
