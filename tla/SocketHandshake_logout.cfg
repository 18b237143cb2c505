SPECIFICATION Spec
CONSTANTS
    Pairs = {p1, p2, p3}
    Tasks = {t1, t2}
    Conns = {c1}
    Hands = {h1}
    AccessTtl = 1
    SessionMax = 2
    MaxTime = 2
    MaxPresence = 2
    NoPair = NoPair
    NoConn = NoConn
PROPERTIES
    LogoutClosesSockets
CHECK_DEADLOCK FALSE
