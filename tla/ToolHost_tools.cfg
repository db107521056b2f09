SPECIFICATION Spec
CONSTANTS
    Store = {s1, s2}
    Key = {k1, k2}
    NoKey = NoKey
    MaxEntries = 1
    MaxWrites = 2
    Task = {t1, t2, t3, t4}
    NoTask = NoTask
    MaxDepth = 2
SYMMETRY Sym
INVARIANTS NestingBound DepthRestored OneAnswer NothingLeftBehind Remembered
PROPERTIES OneMemory
