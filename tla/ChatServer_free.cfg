SPECIFICATION Spec
CONSTANTS
    Session = {s1, s2, s3}
    NoSession = NoSession
    Turn = {t1, t2}
    NoTurn = NoTurn
    CacheCapacity = 2
    SameMillis = FALSE
    DiskFaults = FALSE
    Overlaps = {"switch", "chat", "stop", "boot"}
SYMMETRY Sym
INVARIANTS NothingUnsaved CacheBound NothingOrphaned CancelTargetRuns
