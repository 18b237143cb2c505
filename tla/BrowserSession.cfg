SPECIFICATION FairSpec
CONSTANTS
    Tokens = {a, b, c}
    Refreshes = {r1, r2}
    Socks = {k1, k2}
    MAX_RETRIES = 5
    MaxTokens = 3
    None = None
INVARIANTS
    TypeOK
    OneRealtimeSocket
    OneRetryTimer
    OfflineWhenSignedOut
    RealtimeIsReal
    SignedInIsRefreshed
PROPERTIES
    SignOutReachesTabs
    RealtimeSettles
CHECK_DEADLOCK FALSE
