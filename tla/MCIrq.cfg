SPECIFICATION FairSpec
CONSTANTS
    h2c = h2c
    c2h = c2h
    event = event
    Engines <- MCEngines
    Streams <- MCStreams
    Users <- MCUsers
    Order <- MCOrder
    Processors = {p1, p2}
    Line = Line
INVARIANTS
    TypeOK
    MaskedIsOwed
PROPERTIES
    ImplementsVectors
    EngineIsServed
