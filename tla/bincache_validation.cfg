\* Three builds of a source that may be downgraded again.
SPECIFICATION Spec
CONSTANTS
    MaxContent = 2
    Incompatible <- Second
    Reverts = TRUE
    MaxBuilds = 3
INVARIANT
    NeverBypassesValidation
