\* Two entries, one text of the application, both kinds of threads; the thread
\* cannot always be created.
SPECIFICATION FairSpec
CONSTANTS
    NumEntries = 2
    NumAppTexts = 1
    Dependencies <- NoDependencies
    Joinable <- BothKinds
    CreationMayFail = TRUE
INVARIANTS
    TypeOK
    CallsOnlyLoadedTcl
    JoinedBeforeUnload
    StartedAfterScript
    TextsInOrder
    ReleasedBeforeWipe
PROPERTIES
    EventuallyDone
    ImplementsPromise
