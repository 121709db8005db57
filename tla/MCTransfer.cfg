SPECIFICATION FairSpec
CONSTANTS
    NumRequests = 2
    Layouts <- MCLayouts
    DescCount = 2
    None = None
CHECK_DEADLOCK FALSE
INVARIANTS
    TypeOK
    NoBugcheck
    StoppedIsReported
    OrphansExplained
PROPERTIES
    ImplementsQueue
    RequestEnds
