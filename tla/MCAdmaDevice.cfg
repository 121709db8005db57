SPECIFICATION Spec
CONSTANTS
    NumUsers = 1
    BarLayouts <- MCBarLayouts
    Interrupts = {"single", "multi", "msix"}
    Files = {f1, f2}
    MaxStarts = 2
CHECK_DEADLOCK FALSE
INVARIANTS
    TypeOK
    StartedIsBound
    FaultsExplained
