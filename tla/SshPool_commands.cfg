SPECIFICATION FairSpec
CONSTANTS
    Turn = {u1}
    Call = {c1, c2}
    Device = {d1, d2}
    Conn = {x1, x2, x3}
    NoConn = NoConn
    Survives = {TRUE, FALSE}
INVARIANTS OneOwner
PROPERTIES StaysOpen Released
