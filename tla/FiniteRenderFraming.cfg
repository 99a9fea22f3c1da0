SPECIFICATION Spec
CONSTANTS
    Keys = {"Content-Type", "Content-Length", "content-length", "Transfer-Encoding"}
    LiveMaps <- MCLiveMaps
    Requests <- MCRequests
    Statuses = {99, 200, 204}
    MaxLen = 2
INVARIANT FramingManaged
CHECK_DEADLOCK FALSE
