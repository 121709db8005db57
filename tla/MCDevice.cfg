SPECIFICATION Spec
CONSTANTS
    NumChannels = 2
    NumUsers = 2
    RegWidth = 2
    Cards <- MCCards
    BarLayouts <- MCBarLayouts
    Interrupts <- MCInterrupts
    Files = {f1}
    MaxStarts = 2
CHECK_DEADLOCK FALSE
INVARIANTS
    TypeOK
    InterruptsServed
    StoppedIsUnmapped
    EnabledIsComplete
    FaultsExplained
