SPECIFICATION Spec
CONSTANTS
    Documents <- MCDocuments
    Limit = 4
    MaxWrite = 3
INVARIANTS TypeOK LoggedAsSent NoSecretLogged
CHECK_DEADLOCK FALSE
