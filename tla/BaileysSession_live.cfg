SPECIFICATION FairSpec
CONSTANTS
    Sessions = {s1}
    AutoReconnect = {s1}
    Tasks = {t1, t2}
    Socks = {k1, k2}
    Calls = {c1}
    UserActs = {"delete", "disconnect", "pair"}
    MaxRestarts = 0
    NoSession = NoSession
    NoTask = NoTask
    NoSock = NoSock
    NoCall = NoCall
PROPERTIES
    ActiveSessionIsReopened
    ConnectedRowIsCorrected
    DeletedSessionGoesQuiet
CHECK_DEADLOCK FALSE
