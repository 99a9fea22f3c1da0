SPECIFICATION Spec
CONSTANTS
    Bodies <- MCBodies
    Limit = 2
    MaxRead = 3
    MaxBytes = 5
INVARIANTS
    TypeOK
    LoggedWhole
    BoundedReadAhead
    MarkersTruthful
PROPERTY ByteStreamKept
CHECK_DEADLOCK FALSE
