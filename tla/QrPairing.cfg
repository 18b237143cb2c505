SPECIFICATION FairSpec
CONSTANTS
    Sids = {s1, s2}
    Tasks = {t1, t2}
    Socks = {k1, k2, k3}
    MaxRequests = 2
    MaxOrphans = 1
    Pending = Pending
    NoKey = NoKey
    NoSock = NoSock
INVARIANTS
    TypeOK
    WindowHasTimer
    SilentUntilAsked
PROPERTIES
    PairingEnds
    PairingKeepsItsPromise
CHECK_DEADLOCK FALSE
