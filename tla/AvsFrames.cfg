SPECIFICATION Spec
CONSTANTS
    WordSize = 256
    Ranges <- MCRanges
    Given <- MCGiven
    Pins = {p1}
    NoPin = NoPin
    BarLayouts <- MCBarLayouts
    Lines = {"message", "line", "shared"}
    MaxStarts = 1
CHECK_DEADLOCK FALSE
PROPERTIES
    FramesKeepComing
