SPECIFICATION Spec
CONSTANTS
    NumRequests = 2
    Windows = {"w1", "w2"}
    NumEntries = 2
    Entry <- MCEntry
    Loads <- MCLoads
CHECK_DEADLOCK FALSE
PROPERTIES
    MovedIsCompleted
