SPECIFICATION FairSpec
CONSTANTS
    Chains <- MiddlewareChain
    MaxRenders = 1
PROPERTY Answered
CHECK_DEADLOCK FALSE
