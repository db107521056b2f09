SPECIFICATION Spec
CONSTANTS
    Session = {s1, s2, s3}
    NoSession = NoSession
    Turn = {t1, t2}
    NoTurn = NoTurn
    CacheCapacity = 2
    SameMillis = TRUE
    DiskFaults = FALSE
    Overlaps = {}
SYMMETRY Sym
INVARIANTS TypeOK StopWorks
PROPERTIES Promised
