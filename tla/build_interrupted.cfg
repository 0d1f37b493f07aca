\* The script gives an import up and takes it up again; the PYZ in between is
\* interrupted.
SPECIFICATION Spec
CONSTANTS
    MaxContent = 3
    Incompatible <- Second
    Reverts = FALSE
    MaxBuilds = 3
    Importing <- FirstAndThird
    MaxOption = 1
    MaxTime = 3
    OneFileModes <- OneDir
INVARIANTS
    UpToDateIsWhole
