SPECIFICATION Spec
CONSTANTS
    Chains <- AllChains
    MaxRenders = 2
INVARIANTS
    TypeOK
    FailureAnswered
    RequestIDSurvives
    NoLeakedHeaders
    NoStaleRepresentation
    LogMatchesWire
    UploadLifetime
PROPERTY OneResponseKept
CHECK_DEADLOCK FALSE
