SPECIFICATION Spec
CONSTANTS
    PageDescs = 16
    ReadSizes <- MCReadSizes
    MaxDescs = 48
CHECK_DEADLOCK FALSE
INVARIANTS
    TypeOK
    FetchWithinLimits
