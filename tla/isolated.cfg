\* Two blocks on one object, three calls, a child that may die at any time.
SPECIFICATION FairSpec
CONSTANTS
    MaxCalls = 3
    MaxContexts = 2
    Deaths <- AllDeaths
    strict_mode = TRUE
INVARIANTS
    TypeOK
    LeavesNothing
    ResultOfCall
PROPERTIES
    ParentReturns
    OrphanEnds
