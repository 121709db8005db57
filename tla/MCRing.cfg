SPECIFICATION FairSpec
CONSTANTS
    NumBlocks = 3
    BlockSize = 2
    ReadLengths <- MCReadLengths
    MaxBlocks = 4
    MaxTries = 2
CONSTRAINT DisturbedBriefly
INVARIANTS
    TypeOK
    CreditBalance
    NoOverrun
    NoSilentCompletion
PROPERTIES
    ImplementsFifo
    ReadCompletes
