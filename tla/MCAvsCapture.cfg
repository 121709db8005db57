SPECIFICATION Spec
CONSTANTS
    WordSize = 256
    Ranges <- MCRanges
    Given <- MCGiven
    Pins = {p1, p2}
    NoPin = NoPin
    BarLayouts <- MCBarLayouts
    Lines = {"message", "line", "shared"}
    MaxStarts = 2
SYMMETRY MCSymmetry
CHECK_DEADLOCK FALSE
INVARIANTS
    TypeOK
    OneStream
    FormatsCovered
    StoppedIsReleased
    FaultsExplained
