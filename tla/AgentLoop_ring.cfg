SPECIFICATION FairSpec
CONSTANTS
    MaxInMemory = 9
    Model = {m1}
    NoModel = NoModel
    Skills <- AllSkills
    KeepRecent = 1
    CompactAt = 3
    Cancellable = TRUE
    Commands = {"clear", "compact"}
    MaxTurns = 2
    MaxCalls = 3
    MaxBatch = 2
INVARIANTS RingBound DeriveInOrder
PROPERTIES KeptOrSummarised CancelEndsTurn ScriptedTurnEnds
