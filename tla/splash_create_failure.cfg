\* Tcl_CreateThread may fail: the screen is finalized twice.
SPECIFICATION Spec
CONSTANTS
    NumEntries = 1
    NumAppTexts = 0
    Dependencies <- NoDependencies
    Joinable <- OnlyJoinable
    CreationMayFail = TRUE
INVARIANTS
    NoCallIntoUnloadedTcl
