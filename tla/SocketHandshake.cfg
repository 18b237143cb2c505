SPECIFICATION Spec
CONSTANTS
    Pairs = {p1, p2, p3}
    Tasks = {t1, t2}
    Conns = {c1, c2}
    Hands = {h1}
    AccessTtl = 1
    SessionMax = 2
    MaxTime = 2
    MaxPresence = 2
    NoPair = NoPair
    NoConn = NoConn
SYMMETRY Symmetry
CONSTRAINT Bounded
INVARIANTS
    TypeOK
    OnlineIsRefreshable
    SessionEndsAtLimit
    BlacklistedSessionIsEnding
    ActiveIsPresent
CHECK_DEADLOCK FALSE
