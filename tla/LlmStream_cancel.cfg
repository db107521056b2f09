SPECIFICATION FairProvider
CONSTANTS
    Callers = {"agent"}
    Capacity = 2
    Attempts = 3
    Index = {0}
    Id = {c1}
    NoId = NoId
    MaxChunks = 4

PROPERTIES CancelReturns
CHECK_DEADLOCK FALSE
