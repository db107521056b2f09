SPECIFICATION Spec
CONSTANTS
    Session = {s1, s2}
    NoSession = NoSession
    Turn = {t1}
    NoTurn = NoTurn
    CacheCapacity = 2
    SameMillis = FALSE
    DiskFaults = FALSE
    Overlaps = {"switch"}
INVARIANTS TurnsStayHome
