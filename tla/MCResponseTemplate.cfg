SPECIFICATION Spec
CONSTANTS
    Goroutines = {g1, g2}
    Shared = Shared
    Names = {"A", "B"}
    MaxSteps = 4
PROPERTY ValuesKept
CHECK_DEADLOCK FALSE
