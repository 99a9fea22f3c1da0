SPECIFICATION FairSpec
CONSTANTS
    Requests = {r1, r2, r3}
    NoOne = NoOne
    Usable = Usable
    Broken = Broken
    Leaf = Leaf
    Types = {Usable, Broken, Leaf}
    Stages = 3
    FailsAt <- MCFailsAt
    Fields <- MCFields
INVARIANTS TypeOK CompiledOnce
PROPERTIES AnsweredAsAlone Returned
CHECK_DEADLOCK FALSE
