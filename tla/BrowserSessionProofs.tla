------------------------ MODULE BrowserSessionProofs ------------------------
(***************************************************************************)
(* Theorems about BrowserSession, for every value of its constants.        *)
(*                                                                         *)
(* The socket properties hold together: that a retry is pending exactly    *)
(* while its timeout is referenced, and never beside a socket (RetryAlone),*)
(* is what keeps the listeners of a socket from arming a second timeout.   *)
(***************************************************************************)
EXTENDS BrowserSession, TLAPS

RetryAlone == pending = retryRef /\ (retryRef => socket = None)

SocketInv == OneRealtimeSocket /\ OneRetryTimer /\ OfflineWhenSignedOut /\ RealtimeIsReal /\ RetryAlone

-----------------------------------------------------------------------------
LEMMA FreshIsToken == ASSUME TypeOK PROVE Fresh \in Tokens
  <1>1. \E x \in Tokens : x \notin {token, effect}
    BY BrowserConstantsOK DEF BrowserConstantsOK, TypeOK
  <1> QED BY <1>1 DEF Fresh

(* A socket that can report anything is the one socketRef holds, and no    *)
(* retry is pending.                                                       *)
LEMMA Reporter ==
    ASSUME TypeOK, SocketInv, NEW k \in Socks, sock[k] # "free"
    PROVE  socket = k /\ ~pending /\ ~retryRef /\ armed = 0 /\ effect # None
  <1>1. socket = k /\ k # None
    BY BrowserConstantsOK DEF BrowserConstantsOK, SocketInv, OneRealtimeSocket
  <1>2. ~retryRef /\ ~pending
    BY <1>1 DEF SocketInv, RetryAlone, TypeOK
  <1>3. armed = 0
    BY <1>2 DEF SocketInv, OneRetryTimer
  <1>4. effect # None
    BY <1>1 DEF SocketInv, OfflineWhenSignedOut
  <1> QED BY <1>1, <1>2, <1>3, <1>4

LEMMA TornDownAll ==
    ASSUME TypeOK, SocketInv
    PROVE  TornDown = [k \in Socks |-> "free"]
  <1>1. CASE socket = None
    <2>1. \A k \in Socks : sock[k] = "free"
      BY <1>1, BrowserConstantsOK DEF BrowserConstantsOK, SocketInv, OneRealtimeSocket
    <2> QED BY <1>1, <2>1 DEF TypeOK, TornDown
  <1>2. CASE socket # None
    <2>1. \A k \in Socks : k # socket => sock[k] = "free"
      BY DEF SocketInv, OneRealtimeSocket
    <2> QED BY <1>2, <2>1 DEF TypeOK, TornDown
  <1> QED BY <1>1, <1>2

LEMMA DisarmedAll ==
    ASSUME TypeOK, SocketInv
    PROVE  Disarmed = 0
  BY DEF TypeOK, SocketInv, OneRetryTimer, Disarmed

-----------------------------------------------------------------------------
(* AuthProvider does not touch the socket, and the socket not the tokens.  *)
AuthType ==
    /\ stored \in BOOLEAN
    /\ token \in Tokens \cup {None}
    /\ phase \in {"mount", "booting", "ready"}
    /\ refreshTimer \in BOOLEAN
    /\ inflight \in [Refreshes -> {"no", "boot", "timer"}]
    /\ left \in 0..MaxTokens

RealtimeType ==
    /\ effect \in Tokens \cup {None}
    /\ pending \in BOOLEAN
    /\ retries \in 0..MAX_RETRIES
    /\ retryRef \in BOOLEAN
    /\ armed \in Nat
    /\ socket \in Socks \cup {None}
    /\ sock \in [Socks -> {"free", "connecting", "open", "authed", "rejected", "dropped", "closed"}]
    /\ ui \in {"idle", "connected", "retry", "error"}

LEMMA TypeParts == TypeOK <=> AuthType /\ RealtimeType
  BY DEF TypeOK, AuthType, RealtimeType

LEMMA AuthStays ==
    ASSUME AuthType, SignedInIsRefreshed, UNCHANGED auth
    PROVE  AuthType' /\ SignedInIsRefreshed'
  BY DEF AuthType, SignedInIsRefreshed, auth

LEMMA RealtimeStays ==
    ASSUME RealtimeType, SocketInv, UNCHANGED realtime
    PROVE  RealtimeType' /\ SocketInv'
  BY DEF RealtimeType, SocketInv, OneRealtimeSocket, OneRetryTimer, OfflineWhenSignedOut,
         RealtimeIsReal, RetryAlone, realtime

-----------------------------------------------------------------------------
(* The steps of AuthProvider.                                              *)
AuthStep ==
    \/ \E r \in Refreshes, e \in BOOLEAN : Boot(r, e)
    \/ \E r \in Refreshes : RefreshTimerFires(r) \/ RefreshSucceeds(r) \/ RefreshFails(r)
    \/ SignIn \/ SignOut \/ OtherTabSignsOut \/ OtherTabSignsIn

LEMMA TakesTokenKeeps ==
    ASSUME TypeOK, TakesToken, phase' \in {"mount", "booting", "ready"},
           inflight' \in [Refreshes -> {"no", "boot", "timer"}]
    PROVE  AuthType' /\ SignedInIsRefreshed'
  <1>1. left' \in 0..MaxTokens
    BY BrowserConstantsOK DEF BrowserConstantsOK, TypeOK, TakesToken
  <1> QED BY <1>1, FreshIsToken DEF TakesToken, AuthType, SignedInIsRefreshed

LEMMA SignsOutKeeps ==
    ASSUME TypeOK, SignsOut, phase' \in {"mount", "booting", "ready"},
           inflight' \in [Refreshes -> {"no", "boot", "timer"}], UNCHANGED left
    PROVE  AuthType' /\ SignedInIsRefreshed'
  BY DEF TypeOK, SignsOut, AuthType, SignedInIsRefreshed

LEMMA AuthSteps ==
    ASSUME TypeOK, SignedInIsRefreshed, AuthStep
    PROVE  AuthType' /\ SignedInIsRefreshed' /\ UNCHANGED realtime
  <1>1. ASSUME NEW r \in Refreshes, NEW e \in BOOLEAN, Boot(r, e)
        PROVE  AuthType' /\ SignedInIsRefreshed' /\ UNCHANGED realtime
    <2>1. CASE ~stored
      BY <1>1, <2>1 DEF Boot, TypeOK, AuthType, SignedInIsRefreshed
    <2>2. CASE stored /\ e
      BY <1>1, <2>2, FreshIsToken DEF Boot, TypeOK, AuthType, SignedInIsRefreshed
    <2>3. CASE stored /\ ~e
      BY <1>1, <2>3, FreshIsToken DEF Boot, TypeOK, AuthType, SignedInIsRefreshed
    <2> QED BY <2>1, <2>2, <2>3
  <1>2. ASSUME NEW r \in Refreshes, RefreshTimerFires(r)
        PROVE  AuthType' /\ SignedInIsRefreshed' /\ UNCHANGED realtime
    <2>1. CASE stored
      BY <1>2, <2>1 DEF RefreshTimerFires, TypeOK, AuthType, SignedInIsRefreshed
    <2>2. CASE ~stored
      BY <1>2, <2>2, SignsOutKeeps DEF RefreshTimerFires, TypeOK
    <2> QED BY <2>1, <2>2
  <1>3. ASSUME NEW r \in Refreshes, RefreshSucceeds(r)
        PROVE  AuthType' /\ SignedInIsRefreshed' /\ UNCHANGED realtime
    BY <1>3, TakesTokenKeeps DEF RefreshSucceeds, Answered, TypeOK
  <1>4. ASSUME NEW r \in Refreshes, RefreshFails(r)
        PROVE  AuthType' /\ SignedInIsRefreshed' /\ UNCHANGED realtime
    BY <1>4, SignsOutKeeps DEF RefreshFails, Answered, TypeOK
  <1>5. CASE SignIn
    BY <1>5, TakesTokenKeeps DEF SignIn, TypeOK
  <1>6. CASE SignOut
    BY <1>6, SignsOutKeeps DEF SignOut, TypeOK
  <1>7. CASE OtherTabSignsOut \/ OtherTabSignsIn
    BY <1>7 DEF OtherTabSignsOut, OtherTabSignsIn, TypeOK, AuthType, SignedInIsRefreshed
  <1> QED BY <1>1, <1>2, <1>3, <1>4, <1>5, <1>6, <1>7 DEF AuthStep

-----------------------------------------------------------------------------
(* The steps of SessionSocketProvider.                                     *)
SocketStep ==
    \/ Commit
    \/ \E k \in Socks :
          \/ RetryFires(k) \/ Opens(k) \/ FailsToConnect(k) \/ Authenticated(k)
          \/ Rejected(k) \/ Dropped(k) \/ Lost(k)

LEMMA CommitKeeps ==
    ASSUME TypeOK, SocketInv, Commit
    PROVE  RealtimeType' /\ SocketInv'
  <1>1. Wanted \in Tokens \cup {None}
    BY DEF TypeOK, Wanted
  <1>2. CASE Wanted = None
    <2>1. /\ effect' = None /\ ~pending' /\ ~retryRef' /\ armed' = 0 /\ ui' = "idle"
          /\ sock' = [k \in Socks |-> "free"] /\ socket' = None /\ retries' = retries
      BY <1>2, TornDownAll, DisarmedAll DEF Commit, GoesIdle
    <2>2. pending' = FALSE /\ retryRef' = FALSE
      BY DEF Commit
    <2> QED BY <2>1, <2>2 DEF TypeOK, RealtimeType, SocketInv, OneRealtimeSocket, OneRetryTimer,
                OfflineWhenSignedOut, RealtimeIsReal, RetryAlone
  <1>3. CASE Wanted # None
    <2>1. PICK k \in Socks : Connects(k, TornDown)
      BY <1>3 DEF Commit
    <2>2. /\ effect' \in Tokens /\ armed' = 0 /\ ui' = "idle"
          /\ sock' = [[j \in Socks |-> "free"] EXCEPT ![k] = "connecting"] /\ socket' = k
          /\ retries' = MAX_RETRIES
      BY <1>1, <1>3, <2>1, TornDownAll, DisarmedAll DEF Commit, Connects
    <2>3. pending' = FALSE /\ retryRef' = FALSE
      BY DEF Commit
    <2>4. MAX_RETRIES \in 0..MAX_RETRIES /\ None \notin Tokens
      BY BrowserConstantsOK DEF BrowserConstantsOK
    <2>5. RealtimeType'
      BY <2>2, <2>3, <2>4 DEF RealtimeType
    <2>6. OneRealtimeSocket'
      BY <2>2 DEF OneRealtimeSocket
    <2> QED BY <2>2, <2>3, <2>4, <2>5, <2>6 DEF SocketInv, OneRetryTimer, OfflineWhenSignedOut,
                RealtimeIsReal, RetryAlone
  <1> QED BY <1>2, <1>3

LEMMA RetryFiresKeeps ==
    ASSUME TypeOK, SocketInv, NEW k \in Socks, RetryFires(k)
    PROVE  RealtimeType' /\ SocketInv'
  <1>1. armed = 1 /\ retryRef /\ socket = None /\ effect # None
    BY DEF RetryFires, TypeOK, SocketInv, OneRetryTimer, OfflineWhenSignedOut, RetryAlone
  <1>2. ui # "connected"
    BY <1>1 DEF SocketInv, RealtimeIsReal
  <1>3. /\ armed' = 0 /\ socket' = k
        /\ sock' = [[j \in Socks |-> "free"] EXCEPT ![k] = "connecting"]
    BY <1>1, TornDownAll DEF RetryFires, Connects
  <1>4. pending' = FALSE /\ retryRef' = FALSE /\ UNCHANGED <<effect, retries, ui>>
    BY DEF RetryFires
  <1> QED BY <1>1, <1>2, <1>3, <1>4 DEF TypeOK, RealtimeType, SocketInv, OneRealtimeSocket,
              OneRetryTimer, OfflineWhenSignedOut, RealtimeIsReal, RetryAlone

LEMMA TroubleKeeps ==
    ASSUME TypeOK, SocketInv, NEW k \in Socks, sock[k] # "free",
           NEW state \in {"rejected", "dropped", "closed"}, Trouble(k, state)
    PROVE  RealtimeType' /\ SocketInv'
  <1> DEFINE after == [sock EXCEPT ![k] = state]
  <1>1. socket = k /\ ~pending /\ ~retryRef /\ armed = 0 /\ effect # None /\ effect' = effect
    BY Reporter DEF Trouble
  <1>2. \A j \in Socks : j # k => sock[j] = "free"
    BY <1>1 DEF SocketInv, OneRealtimeSocket
  <1>3. CASE GivesUp(after)
    <2>1. /\ ui' = "error" /\ sock' = [sock EXCEPT ![k] = state]
          /\ UNCHANGED <<retries, pending, socket, retryRef, armed>>
      BY <1>3 DEF GivesUp
    <2> QED BY <1>1, <1>2, <2>1 DEF TypeOK, RealtimeType, SocketInv, OneRealtimeSocket,
                OneRetryTimer, OfflineWhenSignedOut, RealtimeIsReal, RetryAlone
  <1>4. CASE Retries(after)
    <2>1. /\ retries > 0 /\ retries' = retries - 1 /\ ui' = "retry" /\ socket' = None /\ armed' = 1
          /\ sock' = [after EXCEPT ![k] = "free"]
      BY <1>1, <1>4 DEF Retries
    <2>2. pending' = TRUE /\ retryRef' = TRUE
      BY <1>4 DEF Retries
    <2>3. sock' = [j \in Socks |-> "free"]
      BY <1>2, <2>1 DEF TypeOK
    <2>4. retries' \in 0..MAX_RETRIES
      BY <2>1, BrowserConstantsOK DEF BrowserConstantsOK, TypeOK
    <2> QED BY <1>1, <2>1, <2>2, <2>3, <2>4 DEF TypeOK, RealtimeType, SocketInv, OneRealtimeSocket,
                OneRetryTimer, OfflineWhenSignedOut, RealtimeIsReal, RetryAlone
  <1> QED BY <1>1, <1>3, <1>4 DEF Trouble

LEMMA OpensKeeps ==
    ASSUME TypeOK, SocketInv, NEW k \in Socks, Opens(k)
    PROVE  RealtimeType' /\ SocketInv'
  <1>1. socket = k /\ sock[k] = "connecting"
    BY Reporter DEF Opens
  <1>2. ui # "connected"
    BY <1>1 DEF SocketInv, RealtimeIsReal
  <1> QED BY <1>1, <1>2 DEF Opens, TypeOK, RealtimeType, SocketInv, OneRealtimeSocket,
              OneRetryTimer, OfflineWhenSignedOut, RealtimeIsReal, RetryAlone

LEMMA AuthenticatedKeeps ==
    ASSUME TypeOK, SocketInv, NEW k \in Socks, Authenticated(k)
    PROVE  RealtimeType' /\ SocketInv'
  <1>1. socket = k /\ ~retryRef /\ armed = 0 /\ effect # None
    BY Reporter DEF Authenticated
  <1>2. /\ sock' = [sock EXCEPT ![k] = "authed"] /\ retries' = MAX_RETRIES /\ ui' = "connected"
        /\ UNCHANGED <<effect, retryRef, armed, socket>>
    BY <1>1 DEF Authenticated
  <1>3. pending' = FALSE
    BY <1>1 DEF Authenticated
  <1>4. k # None /\ MAX_RETRIES \in 0..MAX_RETRIES
    BY BrowserConstantsOK DEF BrowserConstantsOK
  <1> QED BY <1>1, <1>2, <1>3, <1>4 DEF TypeOK, RealtimeType, SocketInv, OneRealtimeSocket,
              OneRetryTimer, OfflineWhenSignedOut, RealtimeIsReal, RetryAlone

LEMMA SocketSteps ==
    ASSUME TypeOK, SocketInv, SocketStep
    PROVE  RealtimeType' /\ SocketInv' /\ UNCHANGED auth
  <1>1. CASE Commit
    BY <1>1, CommitKeeps DEF Commit
  <1>2. ASSUME NEW k \in Socks, RetryFires(k)
        PROVE  RealtimeType' /\ SocketInv' /\ UNCHANGED auth
    BY <1>2, RetryFiresKeeps DEF RetryFires
  <1>3. ASSUME NEW k \in Socks, Opens(k)
        PROVE  RealtimeType' /\ SocketInv' /\ UNCHANGED auth
    BY <1>3, OpensKeeps DEF Opens
  <1>4. ASSUME NEW k \in Socks, Authenticated(k)
        PROVE  RealtimeType' /\ SocketInv' /\ UNCHANGED auth
    BY <1>4, AuthenticatedKeeps DEF Authenticated
  <1>5. ASSUME NEW k \in Socks, FailsToConnect(k) \/ Rejected(k) \/ Dropped(k) \/ Lost(k)
        PROVE  RealtimeType' /\ SocketInv' /\ UNCHANGED auth
    <2>1. PICK state \in {"rejected", "dropped", "closed"} : sock[k] # "free" /\ Trouble(k, state)
      BY <1>5 DEF FailsToConnect, Rejected, Dropped, Lost
    <2> QED BY <2>1, TroubleKeeps DEF Trouble
  <1> QED BY <1>1, <1>2, <1>3, <1>4, <1>5 DEF SocketStep

LEMMA ReloadKeeps ==
    ASSUME TypeOK, Reload
    PROVE  AuthType' /\ RealtimeType' /\ SignedInIsRefreshed' /\ SocketInv'
  <1>1. MaxTokens \in 0..MaxTokens /\ MAX_RETRIES \in 0..MAX_RETRIES
    BY BrowserConstantsOK DEF BrowserConstantsOK
  <1> QED BY <1>1 DEF Reload, TypeOK, AuthType, RealtimeType, SignedInIsRefreshed, SocketInv,
              OneRealtimeSocket, OneRetryTimer, OfflineWhenSignedOut, RealtimeIsReal, RetryAlone

-----------------------------------------------------------------------------
LEMMA InitInv == Init => TypeOK /\ SignedInIsRefreshed /\ SocketInv
  <1> SUFFICES ASSUME Init PROVE TypeOK /\ SignedInIsRefreshed /\ SocketInv
    OBVIOUS
  <1>1. TypeOK
    <2>0. MaxTokens \in 0..MaxTokens /\ MAX_RETRIES \in 0..MAX_RETRIES /\ 0 \in Nat
      BY BrowserConstantsOK DEF BrowserConstantsOK
    <2>1. AuthType
      BY <2>0, Zenon DEF Init, AuthType
    <2>2. RealtimeType
      BY <2>0, Zenon DEF Init, RealtimeType
    <2> QED BY <2>1, <2>2, TypeParts
  <1>2. SignedInIsRefreshed
    BY DEF Init, SignedInIsRefreshed
  <1>3. OneRealtimeSocket /\ OneRetryTimer /\ OfflineWhenSignedOut /\ RealtimeIsReal
    BY DEF Init, OneRealtimeSocket, OneRetryTimer, OfflineWhenSignedOut, RealtimeIsReal
  <1>4. pending = FALSE /\ retryRef = FALSE
    BY DEF Init
  <1> QED BY <1>1, <1>2, <1>3, <1>4 DEF SocketInv, RetryAlone

LEMMA NextInv ==
    ASSUME TypeOK, SignedInIsRefreshed, SocketInv, [Next]_vars
    PROVE  TypeOK' /\ SignedInIsRefreshed' /\ SocketInv'
  <1>0. AuthType /\ RealtimeType
    BY TypeParts
  <1>1. CASE AuthStep
    BY <1>0, <1>1, AuthSteps, RealtimeStays, TypeParts, PTL
  <1>2. CASE SocketStep
    BY <1>0, <1>2, SocketSteps, AuthStays, TypeParts, PTL
  <1>3. CASE Reload
    BY <1>3, ReloadKeeps, TypeParts, PTL
  <1>4. CASE UNCHANGED vars
    <2>1. UNCHANGED auth /\ UNCHANGED realtime
      BY <1>4 DEF vars
    <2> QED BY <1>0, <2>1, RealtimeStays, AuthStays, TypeParts, PTL
  <1> QED BY <1>1, <1>2, <1>3, <1>4 DEF Next, AuthStep, SocketStep

LEMMA Invariants == Spec => [](TypeOK /\ SignedInIsRefreshed /\ SocketInv)
  BY InitInv, NextInv, PTL DEF Spec

(* Every state of the tab is well typed: in particular the retry budget    *)
(* never falls below zero, nor the number of armed timeouts.               *)
THEOREM TypeCorrect == Spec => []TypeOK
  BY Invariants, PTL

(* At any moment at most one socket has listeners, the one socketRef holds.*)
THEOREM SocketIsOne == Spec => []OneRealtimeSocket
  <1>1. SocketInv => OneRealtimeSocket
    BY DEF SocketInv
  <1> QED BY <1>1, Invariants, PTL

(* An armed retry timeout is the one clearRetryTimer would clear.          *)
THEOREM RetryIsOne == Spec => []OneRetryTimer
  <1>1. SocketInv => OneRetryTimer
    BY DEF SocketInv
  <1> QED BY <1>1, Invariants, PTL

(* Signed out, the tab has no socket and will not open one.                *)
THEOREM SignedOutIsOffline == Spec => []OfflineWhenSignedOut
  <1>1. SocketInv => OfflineWhenSignedOut
    BY DEF SocketInv
  <1> QED BY <1>1, Invariants, PTL

(* isRealtimeReady never speaks of a socket that is gone.                  *)
THEOREM ReadyIsReal == Spec => []RealtimeIsReal
  <1>1. SocketInv => RealtimeIsReal
    BY DEF SocketInv
  <1> QED BY <1>1, Invariants, PTL

(* A signed-in tab has its next refresh scheduled or under way.            *)
THEOREM RefreshIsComing == Spec => []SignedInIsRefreshed
  BY Invariants, PTL
=============================================================================
