SPECIFICATION Spec
CONSTANTS
    Bodies <- MCBodies
    Limit = 2
    MaxRead = 3
    MaxBytes = 5
INVARIANT CloseBehaviorKept
CHECK_DEADLOCK FALSE
