SPECIFICATION FairSpec
CONSTANTS
    Chains <- MiddlewareChain
    MaxRenders = 1
PROPERTY BrokenConnectionLeftAlone
CHECK_DEADLOCK FALSE
