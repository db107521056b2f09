SPECIFICATION FairProvider
CONSTANTS
    Callers = {"agent", "judge", "compact", "router", "preheat"}
    Capacity = 2
    Attempts = 3
    Index = {0, 1}
    Id = {c1, c2}
    NoId = NoId
    MaxChunks = 3
INVARIANTS EndsOnce JoinsEnded DeltasOnce AnswerWhole
PROPERTIES RouterReturns CallReturns
CHECK_DEADLOCK FALSE
