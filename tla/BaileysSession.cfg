SPECIFICATION Spec
CONSTANTS
    Sessions = {s1}
    AutoReconnect = {s1}
    Tasks = {t1, t2}
    Socks = {k1, k2}
    Calls = {c1}
    UserActs = {"connect", "reconnect", "replace", "create", "patch", "delete", "disconnect", "newQr", "pair", "register"}
    MaxRestarts = 1
    NoSession = NoSession
    NoTask = NoTask
    NoSock = NoSock
    NoCall = NoCall
SYMMETRY Symmetry
CONSTRAINT OneKindAtATime
INVARIANTS
    TypeOK
    ClosedSocketLeavesMap
    TimerEntryIsArmed
    OutcomeIsAwaited
    OneWorkspaceLoop
CHECK_DEADLOCK FALSE
