SPECIFICATION Spec
CONSTANTS
    MaxInMemory = 40
    Model = {m1, m2}
    NoModel = NoModel
    Skills <- AllSkills
    KeepRecent = 3
    CompactAt = 99
    Cancellable = TRUE
    Commands = {"clear"}
    MaxTurns = 2
    MaxCalls = 2
    MaxBatch = 2
INVARIANTS LogChained IdleClosed CallsAnswered SwitchAnnounced RecoveredClosed
PROPERTIES CancelStopsWork
