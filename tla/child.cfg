\* A parent and its child, with signals at any time, and Apple events.
SPECIFICATION FairSpec
CONSTANTS
    Modes <- AllModes
    MaxSignals = 2
    MaxEvents = 2
INVARIANTS
    TypeOK
    OpensInOrder
    ChildHasDirectory
    EndsLikeChild
    SignalledOnce
PROPERTIES
    EndsAfterChild
    EventsReachChild
