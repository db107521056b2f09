SPECIFICATION Spec
CONSTANTS
    Session = {s1, s2, s3}
    NoSession = NoSession
    Turn = {t1}
    NoTurn = NoTurn
    CacheCapacity = 2
    SameMillis = FALSE
    DiskFaults = TRUE
    Overlaps = {}
SYMMETRY Sym
INVARIANTS TurnsStayHome ActiveInRam
