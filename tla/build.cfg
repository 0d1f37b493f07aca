\* A program, onefile or onedir, whose sources and options only move on.
SPECIFICATION Spec
CONSTANTS
    MaxContent = 2
    Incompatible <- Second
    Reverts = FALSE
    MaxBuilds = 3
    Importing <- Second
    MaxOption = 2
    MaxTime = 3
    OneFileModes <- BothModes
INVARIANTS
    TypeOK
    IndexedWasProcessed
    CollectedIsCurrent
    FinishedIsCurrent
    QuietIfSettled
