SPECIFICATION Spec
CONSTANTS
    Dtos <- MCDtos
    Requests <- MCRequests
    Names = {"a", "b", "c", "E", "F"}
    Msgpack = FALSE
    MaxBinds = 2
INVARIANTS
    TypeOK
    IsolatedSources
    DeclaredFormatOnly
    OneWholeDocument
    BodyLeftAlone
PROPERTY AtomicBindKept
CHECK_DEADLOCK FALSE
