\* A onedir program with an entry that EXE passes on to COLLECT.
SPECIFICATION Spec
CONSTANTS
    MaxContent = 2
    Incompatible <- Second
    Reverts = FALSE
    MaxBuilds = 2
    Importing <- Second
    MaxOption = 1
    MaxTime = 2
    OneFileModes <- OneDir
INVARIANT
    CollectsPassedOn
