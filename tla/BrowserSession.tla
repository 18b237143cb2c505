--------------------------- MODULE BrowserSession ---------------------------
(***************************************************************************)
(* One tab of the front end: AuthProvider, which keeps the token pair of   *)
(* the user alive, and SessionSocketProvider, which keeps one Socket.IO    *)
(* connection authenticated with it.                                       *)
(*                                                                         *)
(* The token pair is in localStorage, which every tab shares, and in the   *)
(* state of AuthProvider.  An effect of SessionSocketProvider runs when    *)
(* React commits a changed access token; until then the sockets, timers    *)
(* and answers of the previous token are still served.                     *)
(*                                                                         *)
(* What the server answers is chosen freely.  The tokens that may be       *)
(* issued to a page before it is loaded again are bounded by MaxTokens.    *)
(***************************************************************************)
EXTENDS Naturals

CONSTANTS
    Tokens,         \* access tokens; three, so that a new one differs
    Refreshes,      \* slots for runRefresh calls awaiting an answer
    Socks,          \* slots for Socket.IO client sockets
    MAX_RETRIES,
    MaxTokens,      \* bound on the tokens issued to one page load
    None

ASSUME BrowserConstantsOK ==
    /\ MAX_RETRIES \in Nat /\ MaxTokens \in Nat
    /\ None \notin Tokens \cup Socks
    /\ \A x, y \in Tokens \cup {None} : \E z \in Tokens : z # x /\ z # y

VARIABLES
    stored,         \* localStorage holds a token pair
    token,          \* accessToken in the state of AuthProvider
    phase,          \* bootstrap: not begun, awaiting its refresh, isReady
    refreshTimer,   \* the timeout of refreshTimerRef is armed
    inflight,       \* who awaits refreshTokenRequest in each slot
    effect,         \* the token the effect in force was run with
    pending,        \* reconnectPendingRef
    retries,        \* retriesLeftRef
    retryRef,       \* retryTimerRef holds a timeout
    armed,          \* retry timeouts that are armed, referenced or not
    socket,         \* socketRef
    sock,           \* the sockets
    ui,             \* uiState
    left            \* tokens this page may still be issued

auth == <<stored, token, phase, refreshTimer, inflight, left>>
realtime == <<effect, pending, retries, retryRef, armed, socket, sock, ui>>
vars == <<auth, realtime>>

(* "rejected": session:error has been delivered, session:disconnected and  *)
(* the close are to come.  Torn down sockets are "free": they have no      *)
(* listeners.                                                              *)
TypeOK ==
    /\ stored \in BOOLEAN
    /\ token \in Tokens \cup {None}
    /\ phase \in {"mount", "booting", "ready"}
    /\ refreshTimer \in BOOLEAN
    /\ inflight \in [Refreshes -> {"no", "boot", "timer"}]
    /\ effect \in Tokens \cup {None}
    /\ pending \in BOOLEAN
    /\ retries \in 0..MAX_RETRIES
    /\ retryRef \in BOOLEAN
    /\ armed \in Nat
    /\ socket \in Socks \cup {None}
    /\ sock \in [Socks -> {"free", "connecting", "open", "authed", "rejected", "dropped", "closed"}]
    /\ ui \in {"idle", "connected", "retry", "error"}
    /\ left \in 0..MaxTokens

Init ==
    /\ stored \in BOOLEAN
    /\ token = None
    /\ phase = "mount"
    /\ refreshTimer = FALSE
    /\ inflight = [r \in Refreshes |-> "no"]
    /\ left = MaxTokens
    /\ effect = None
    /\ pending = FALSE
    /\ retries = MAX_RETRIES
    /\ retryRef = FALSE
    /\ armed = 0
    /\ socket = None
    /\ sock = [k \in Socks |-> "free"]
    /\ ui = "idle"

-----------------------------------------------------------------------------
(* AuthProvider.                                                           *)

(* A token that neither the state nor the effect has.                      *)
Fresh == CHOOSE x \in Tokens : x \notin {token, effect}

SignsOut ==
    /\ stored' = FALSE
    /\ token' = None
    /\ refreshTimer' = FALSE

(* What signIn and an answered refresh do with the pair they got.          *)
TakesToken ==
    /\ left > 0
    /\ left' = left - 1
    /\ stored' = TRUE
    /\ token' = Fresh
    /\ refreshTimer' = TRUE

(* bootstrap: a stored token that has expired is refreshed before the      *)
(* provider is ready.                                                      *)
Boot(r, expired) ==
    /\ phase = "mount"
    /\ IF stored
         THEN /\ token' = Fresh
              /\ phase' = IF expired THEN "booting" ELSE "ready"
              /\ refreshTimer' = ~expired
              /\ inflight' = IF expired THEN [inflight EXCEPT ![r] = "boot"] ELSE inflight
         ELSE phase' = "ready" /\ UNCHANGED <<token, refreshTimer, inflight>>
    /\ UNCHANGED <<stored, left, realtime>>

SignIn ==
    /\ phase # "mount"
    /\ TakesToken
    /\ UNCHANGED <<phase, inflight, realtime>>

SignOut ==
    /\ token # None
    /\ SignsOut
    /\ UNCHANGED <<phase, inflight, left, realtime>>

(* Mutant of RefreshTimerFires: without a stored token nothing is done.    *)
RefreshTimerReturns(r) ==
    /\ refreshTimer /\ inflight[r] = "no"
    /\ refreshTimer' = FALSE
    /\ inflight' = IF stored THEN [inflight EXCEPT ![r] = "timer"] ELSE inflight
    /\ UNCHANGED <<stored, token, phase, left, realtime>>

(* runRefresh up to its await.                                             *)
RefreshTimerFires(r) ==
    /\ refreshTimer
    /\ inflight[r] = "no"
    /\ IF stored
         THEN /\ inflight' = [inflight EXCEPT ![r] = "timer"]
              /\ refreshTimer' = FALSE
              /\ UNCHANGED <<stored, token>>
         ELSE SignsOut /\ UNCHANGED inflight
    /\ UNCHANGED <<phase, left, realtime>>

Answered(r) ==
    /\ inflight[r] # "no"
    /\ inflight' = [inflight EXCEPT ![r] = "no"]
    /\ phase' = IF inflight[r] = "boot" THEN "ready" ELSE phase
    /\ UNCHANGED realtime

(* Mutant of RefreshSucceeds: the next refresh is not scheduled.           *)
RefreshUnscheduled(r) ==
    /\ Answered(r) /\ left > 0 /\ left' = left - 1
    /\ stored' = TRUE /\ token' = Fresh /\ UNCHANGED refreshTimer

(* The answer is taken whatever happened since: also a sign-out.           *)
RefreshSucceeds(r) == Answered(r) /\ TakesToken
RefreshFails(r) == Answered(r) /\ SignsOut /\ UNCHANGED left

(* localStorage is shared with the other tabs.                             *)
OtherTabSignsOut == stored /\ stored' = FALSE /\ UNCHANGED <<token, phase, refreshTimer, inflight, left, realtime>>
OtherTabSignsIn == ~stored /\ stored' = TRUE /\ UNCHANGED <<token, phase, refreshTimer, inflight, left, realtime>>

(* The page is loaded again: only localStorage survives.                   *)
Reload ==
    /\ phase # "mount"
    /\ token' = None /\ phase' = "mount" /\ refreshTimer' = FALSE
    /\ inflight' = [r \in Refreshes |-> "no"] /\ left' = MaxTokens
    /\ effect' = None /\ pending' = FALSE /\ retries' = MAX_RETRIES
    /\ retryRef' = FALSE /\ armed' = 0 /\ socket' = None
    /\ sock' = [k \in Socks |-> "free"] /\ ui' = "idle"
    /\ UNCHANGED stored

-----------------------------------------------------------------------------
(* SessionSocketProvider.                                                  *)

(* Mutant of TornDown: the socket is dropped with its listeners.           *)
TornDownLeaks == sock

(* teardownSocket.                                                         *)
TornDown == IF socket = None THEN sock ELSE [sock EXCEPT ![socket] = "free"]

(* Mutant of Disarmed: the reference is lost, the timeout goes on.         *)
DisarmedLeaks == armed

(* clearRetryTimer.                                                        *)
Disarmed == IF retryRef THEN armed - 1 ELSE armed

(* connectSocket, given the sockets that remain after teardownSocket.      *)
Connects(k, rest) ==
    /\ rest[k] = "free"
    /\ sock' = [rest EXCEPT ![k] = "connecting"]
    /\ socket' = k

Wanted == IF phase = "ready" THEN token ELSE None

(* Mutant of GoesIdle: the socket is kept.                                 *)
GoesIdleConnected == /\ UNCHANGED <<socket, sock, retries>>

(* The effect without a token.                                             *)
GoesIdle == sock' = TornDown /\ socket' = None /\ UNCHANGED retries

(* The effect's cleanup, then the effect for the token now wanted.         *)
Commit ==
    /\ Wanted # effect
    /\ effect' = Wanted
    /\ pending' = FALSE
    /\ retryRef' = FALSE
    /\ armed' = Disarmed
    /\ ui' = "idle"
    /\ IF Wanted = None
         THEN GoesIdle
         ELSE retries' = MAX_RETRIES /\ \E k \in Socks : Connects(k, TornDown)
    /\ UNCHANGED auth

(* scheduleReconnect, its two outcomes; after: the sockets after the event.*)
GivesUp(after) ==
    /\ retries = 0
    /\ ui' = "error"
    /\ sock' = after
    /\ UNCHANGED <<retries, pending, socket, retryRef, armed>>

(* Mutant of Retries: the budget is never spent.                           *)
RetriesForFree(after) ==
    /\ retries > 0 /\ UNCHANGED retries
    /\ pending' = TRUE /\ ui' = "retry"
    /\ sock' = [after EXCEPT ![socket] = "free"] /\ socket' = None
    /\ retryRef' = TRUE /\ armed' = armed + 1

(* Mutant of Retries: the state goes on saying connected.                  *)
RetriesSilently(after) ==
    /\ retries > 0 /\ retries' = retries - 1
    /\ pending' = TRUE /\ UNCHANGED ui
    /\ sock' = [after EXCEPT ![socket] = "free"] /\ socket' = None
    /\ retryRef' = TRUE /\ armed' = armed + 1

(* Mutant of Retries: one attempt too many.                                *)
RetriesOnceMore(after) ==
    /\ retries' = retries - 1
    /\ pending' = TRUE /\ ui' = "retry"
    /\ sock' = [after EXCEPT ![socket] = "free"] /\ socket' = None
    /\ retryRef' = TRUE /\ armed' = armed + 1

Retries(after) ==
    /\ retries > 0
    /\ retries' = retries - 1
    /\ pending' = TRUE
    /\ ui' = "retry"
    /\ sock' = [after EXCEPT ![socket] = "free"]
    /\ socket' = None
    /\ retryRef' = TRUE
    /\ armed' = armed + 1

(* A listener of a socket calls scheduleReconnect.                         *)
Trouble(k, state) ==
    LET after == [sock EXCEPT ![k] = state] IN
    /\ \/ (pending \/ effect = None) /\ sock' = after
          /\ UNCHANGED <<retries, pending, ui, socket, retryRef, armed>>
       \/ ~pending /\ effect # None /\ (GivesUp(after) \/ Retries(after))
    /\ UNCHANGED <<auth, effect>>

RetryFires(k) ==
    /\ armed > 0
    /\ armed' = armed - 1
    /\ retryRef' = FALSE
    /\ pending' = FALSE
    /\ IF effect = None THEN UNCHANGED <<socket, sock>> ELSE Connects(k, TornDown)
    /\ UNCHANGED <<auth, effect, retries, ui>>

(* The socket is connected and sends session:authenticate.                 *)
Opens(k) ==
    /\ sock[k] = "connecting"
    /\ sock' = [sock EXCEPT ![k] = "open"]
    /\ UNCHANGED <<auth, effect, pending, retries, retryRef, armed, socket, ui>>

Authenticated(k) ==
    /\ sock[k] = "open"
    /\ sock' = [sock EXCEPT ![k] = "authed"]
    /\ IF effect = None
         THEN UNCHANGED <<retries, pending, ui>>
         ELSE retries' = MAX_RETRIES /\ pending' = FALSE /\ ui' = "connected"
    /\ UNCHANGED <<auth, effect, retryRef, armed, socket>>

FailsToConnect(k) == sock[k] = "connecting" /\ Trouble(k, "closed")
Rejected(k) == sock[k] = "open" /\ Trouble(k, "rejected")
Dropped(k) == sock[k] = "rejected" /\ Trouble(k, "dropped")
Lost(k) == sock[k] \in {"open", "authed", "rejected", "dropped"} /\ Trouble(k, "closed")

Next ==
    \/ \E r \in Refreshes, e \in BOOLEAN : Boot(r, e)
    \/ \E r \in Refreshes : RefreshTimerFires(r) \/ RefreshSucceeds(r) \/ RefreshFails(r)
    \/ SignIn \/ SignOut \/ OtherTabSignsOut \/ OtherTabSignsIn \/ Reload
    \/ Commit
    \/ \E k \in Socks :
          \/ RetryFires(k) \/ Opens(k) \/ FailsToConnect(k) \/ Authenticated(k)
          \/ Rejected(k) \/ Dropped(k) \/ Lost(k)

Spec == Init /\ [][Next]_vars

(* The browser runs bootstrap, effects and timeouts, the HTTP client       *)
(* answers or fails, and a socket connects or times out.  An authenticate  *)
(* is answered, or the connection ends.  A refresh timeout is only relied  *)
(* upon when there is nothing left to refresh with; were every refresh     *)
(* forced, MaxTokens would end each session and RealtimeSettles with it.   *)
Fairness ==
    /\ WF_vars(\E r \in Refreshes, e \in BOOLEAN : Boot(r, e))
    /\ WF_vars(\E r \in Refreshes : ~stored /\ RefreshTimerFires(r))
    /\ \A r \in Refreshes : WF_vars(RefreshSucceeds(r) \/ RefreshFails(r))
    /\ WF_vars(Commit)
    /\ WF_vars(\E k \in Socks : RetryFires(k))
    /\ \A k \in Socks :
          /\ WF_vars(Opens(k) \/ FailsToConnect(k))
          /\ WF_vars(Authenticated(k) \/ Rejected(k) \/ (sock[k] = "open" /\ Lost(k)))

FairSpec == Spec /\ Fairness

-----------------------------------------------------------------------------
(* spec-driven/socket-io.md:12, no duplicated connection: a socket that    *)
(* still has listeners is the one socketRef holds.                         *)
OneRealtimeSocket == \A k \in Socks : sock[k] # "free" => socket = k

(* However effects and retries alternate, an armed retry is the one that   *)
(* clearRetryTimer would clear.                                            *)
OneRetryTimer == armed = IF retryRef THEN 1 ELSE 0

(* Without a token there is no socket, and no retry that would open one.   *)
OfflineWhenSignedOut == effect = None => socket = None /\ armed = 0

(* isRealtimeReady can be trusted: the socket is there and authenticated.  *)
RealtimeIsReal == ui = "connected" => socket # None /\ sock[socket] = "authed"

(* A token in the state is looked after: its refresh is scheduled or on    *)
(* its way.  On a path that forgot it the user would be cut off unnoticed. *)
SignedInIsRefreshed == token # None => refreshTimer \/ \E r \in Refreshes : inflight[r] # "no"

(* Signing out in one tab reaches this one, at its next refresh.           *)
SignOutReachesTabs == (~stored /\ token # None) ~> (stored \/ token = None)

(* spec-driven/socket-handshake.md:166: retries end, connected or with an  *)
(* error; nobody waits for ever, as long as tokens are not renewed for     *)
(* ever faster than a connection is established: each new token restarts   *)
(* the budget.  MaxTokens is that assumption.                              *)
RealtimeSettles == (effect # None /\ ui \in {"idle", "retry"}) ~> (effect = None \/ ui \in {"connected", "error"})
=============================================================================
