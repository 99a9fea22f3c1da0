SPECIFICATION FairSpec
CONSTANTS
    Values <- MCValues
    Configured = {0, 1}
    DefaultDepth = 2
INVARIANTS TypeOK NothingSkipped DepthExact FaultAttributed
PROPERTY Terminates
CHECK_DEADLOCK FALSE
