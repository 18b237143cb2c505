SPECIFICATION Spec
CONSTANTS
    Sids = {s1, s2}
    Tasks = {t1, t2}
    Socks = {k1, k2}
    MaxRequests = 2
    MaxOrphans = 1
    Pending = Pending
    NoKey = NoKey
    NoSock = NoSock
SYMMETRY Symmetry
PROPERTIES
    OwnWindowEndsPairing
CHECK_DEADLOCK FALSE
