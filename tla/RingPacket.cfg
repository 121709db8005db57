SPECIFICATION Spec
CONSTANTS
    NumBlocks = 3
    BlockSize = 2
    ReadLengths <- MCReadLengths
    MaxBlocks = 4
    MaxTries = 2
CONSTRAINT DisturbedBriefly
INVARIANT PacketIsSignalled
