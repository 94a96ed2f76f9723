SPECIFICATION FairSpec
CONSTANTS
    Tree <- MCTree
    Ways = {"cursor", "names", "own", "stack", "query"}
    MaxQueryRetries = 3
    Types = 2
    MaxNodes = 4
INVARIANTS
    TypeOK
    InOrder
    NothingMissed
    LeavesNothing
PROPERTY ExtractionReturns
