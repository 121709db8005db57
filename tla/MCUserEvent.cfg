SPECIFICATION FairSpec
CONSTANTS
    NumEvents = 2
    Readers = {r1, r2}
INVARIANTS
    TypeOK
PROPERTIES
    HeldEventIsSeen
    ReadEnds
