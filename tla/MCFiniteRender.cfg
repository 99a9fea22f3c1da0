SPECIFICATION Spec
CONSTANTS
    Keys = {"Content-Type", "Content-Length", "content-length", "Transfer-Encoding"}
    LiveMaps <- MCLiveMaps
    Requests <- MCRequests
    Statuses = {99, 200, 204}
    MaxLen = 2
INVARIANTS
    TypeOK
    FramingMatchesBody
    OnlyValidHeadersCommitted
    StatusAgrees
    CausesKept
    HeadDeclaresGetLength
PROPERTY PromiseKept
CHECK_DEADLOCK FALSE
