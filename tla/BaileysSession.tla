--------------------------- MODULE BaileysSession ---------------------------
(***************************************************************************)
(* The life cycle of persisted WhatsApp sessions in BaileysService: the    *)
(* maps `sockets`, `reconnectTimers` and `connectionOutcomes`, the rows of *)
(* the session collection, and every asynchronous flow that writes them -  *)
(* bootstrap, the reconciliation cron, the workspace retry loop, the       *)
(* reconnect timers, the socket's own events and the REST use cases.       *)
(*                                                                         *)
(* Node runs one callback at a time, so the code between two awaits is one *)
(* action.  A flow that is suspended at an await occupies a slot of Tasks; *)
(* its pc says which await.  Sockets have an identity, because the maps    *)
(* are indexed by sessionId while the listeners of a socket stay attached  *)
(* to the object: a socket that has been overwritten in the map still      *)
(* reports its events under its sessionId.                                 *)
(*                                                                         *)
(* Of the QR pairing flow, which is QrPairing's, it keeps what touches the *)
(* sessions: whether the key `pending:<workspaceId>` has a socket, and the *)
(* promotion of that socket to a session, which holds it over an await.    *)
(***************************************************************************)
EXTENDS Naturals, FiniteSets

CONSTANTS
    Sessions,       \* sessionIds of one workspace
    AutoReconnect,  \* those whose settings.autoReconnect is not false
    Tasks,          \* slots for suspended async flows and armed timeouts
    Socks,          \* slots for WASocket objects
    Calls,          \* slots for connect / reconnect / replace requests
    UserActs,       \* the kinds of request users make
    MaxRestarts,    \* how often the process may be killed and started
    NoSession, NoTask, NoSock, NoCall

ASSUME ConstantsOK ==
    /\ AutoReconnect \subseteq Sessions
    /\ UserActs \subseteq {"create", "patch", "delete", "disconnect", "register",
                         "connect", "reconnect", "replace", "newQr", "pair"}
    /\ MaxRestarts \in Nat
    /\ NoSession \notin Sessions
    /\ NoTask \notin Tasks
    /\ NoSock \notin Socks
    /\ NoCall \notin Calls
    /\ Calls \cap {"none", "cron", "bootstrap", "timer", "workspace",
                  "connecting", "open", "lost"} = {}

VARIABLES
    status,     \* status of each row; "absent" before insert, "deleted" after
    active,     \* isActive of each row
    sockets,    \* the map sessionId -> socket (runtime has the same keys)
    sock,       \* the socket objects
    timerOf,    \* the map reconnectTimers: sessionId -> armed timeout
    task,       \* suspended flows and armed timeouts
    outcome,    \* the map connectionOutcomes: sessionId -> waiting call
    call,       \* connect / reconnect / replace requests in progress
    cronLeft,   \* rows the running cron tick has still to look at
    wsPc,       \* where ensureWorkspaceConnected is suspended
    wsLeft,     \* sessions tryConnectWorkspace has still to open
    wsTimer,    \* workspaceRetryTimers has an entry for the workspace
    qrLeft,     \* sessions requestNewQrCode has still to deactivate
    qrCur,      \* the session whose deactivating update it awaits
    pending,    \* the socket under the pending key: none, or how far it is
    boot,       \* where onApplicationBootstrap is suspended
    bootLeft,   \* sessions bootstrapPersistedSessions has still to open
    restarts    \* starts of the process so far

db    == <<status, active>>
maps  == <<sockets, sock, timerOf>>
calls == <<outcome, call>>
ws    == <<wsPc, wsLeft, wsTimer>>
qr    == <<qrLeft, qrCur, pending>>
life  == <<boot, bootLeft, restarts>>
vars  == <<db, maps, task, calls, cronLeft, ws, qr, life>>

-----------------------------------------------------------------------------
Persisted == {"connecting", "connected", "disconnected", "failed", "reconnecting"}

(* What a promotion took from the pending key: a socket that has connected, *)
(* the newer one of an overlapping start, or one that has ended since.     *)
Taken == {"connecting", "open", "lost"}

(* Who awaits the open.                                                    *)
Origins == {"none", "cron", "bootstrap", "timer", "workspace"} \cup Calls

(* The awaits at which a flow can be suspended; "sleeping" is a setTimeout. *)
Pcs == {"version", "saveReconnecting", "arming", "sleeping", "find", "refind",
        "findConnected", "saveConnected", "connectedSaved",
        "findFailed", "saveFailed", "failedSaved", "saveDisconnected"}

Idle == [pc |-> "idle", sid |-> NoSession, origin |-> "none"]
Task(p, s, o) == [pc |-> p, sid |-> s, origin |-> o]

Free == [owner |-> NoSession, conn |-> "none"]
Sock(s, c) == [owner |-> s, conn |-> c]

NoRequest == [pc |-> "idle", sid |-> NoSession, kind |-> "none"]
Call(p, s, k) == [pc |-> p, sid |-> s, kind |-> k]

HasRow(s) == status[s] \in Persisted
ActiveRows == {s \in Sessions : HasRow(s) /\ active[s]}

TypeOK ==
    /\ status \in [Sessions -> Persisted \cup {"absent", "deleted"}]
    /\ active \in [Sessions -> BOOLEAN]
    /\ sockets \in [Sessions -> Socks \cup {NoSock}]
    /\ sock \in [Socks -> {Free} \cup [owner : Sessions,
                                       conn : {"connecting", "open", "closed", "lost"}]]
    /\ timerOf \in [Sessions -> Tasks \cup {NoTask}]
    /\ task \in [Tasks -> {Idle} \cup [pc : Pcs, sid : Sessions, origin : Origins]
                               \cup [pc : {"creating", "created"}, sid : Sessions, origin : Taken]]
    /\ outcome \in [Sessions -> Calls \cup {NoCall}]
    /\ call \in [Calls -> {NoRequest} \cup
                    [pc : {"saving", "starting", "ending", "reloading", "waiting", "qr", "open"},
                     sid : Sessions, kind : {"connect", "reconnect", "replace"}]]
    /\ cronLeft \subseteq Sessions
    /\ wsPc \in {"idle", "listing", "looping", "opening"}
    /\ wsLeft \subseteq Sessions
    /\ wsTimer \in BOOLEAN
    /\ qrLeft \subseteq Sessions
    /\ qrCur \in Sessions \cup {NoSession}
    /\ pending \in {"none", "connecting", "open"}
    /\ boot \in {"listing", "opening", "workspaces", "up"}
    /\ bootLeft \subseteq Sessions
    /\ restarts \in 0..MaxRestarts

Init ==
    /\ status \in [Sessions -> Persisted \cup {"absent"}]
    /\ active \in [Sessions -> BOOLEAN]
    /\ \A s \in Sessions : status[s] = "absent" => ~active[s]
    /\ sockets = [s \in Sessions |-> NoSock]
    /\ sock = [k \in Socks |-> Free]
    /\ timerOf = [s \in Sessions |-> NoTask]
    /\ task = [t \in Tasks |-> Idle]
    /\ outcome = [s \in Sessions |-> NoCall]
    /\ call = [c \in Calls |-> NoRequest]
    /\ cronLeft = {}
    /\ wsPc = "idle" /\ wsLeft = {} /\ wsTimer = FALSE
    /\ qrLeft = {} /\ qrCur = NoSession /\ pending = "none"
    /\ boot = "listing" /\ bootLeft = {} /\ restarts = 0

-----------------------------------------------------------------------------
(* Synchronous pieces shared by the flows.                                 *)

(* clearReconnectTimer: the timeout in the map is cancelled, no other one. *)
WithoutTimer(s) == [u \in Tasks |-> IF u = timerOf[s] THEN Idle ELSE task[u]]
(* Mutant of ClearTimer: the timeout is cancelled, the entry stays.        *)
ClearTimerKeepsEntry(s) == UNCHANGED timerOf

ClearTimer(s) == timerOf' = [timerOf EXCEPT ![s] = NoTask]

(* Mutant of Disposed: the socket is ended but its listeners stay.         *)
DisposedStaysBound(s) == [k \in Socks |-> IF k = sockets[s] THEN [sock[k] EXCEPT !.conn = "none"] ELSE sock[k]]

(* disposeSocketForReconnect: whatever socket the map holds for s now is   *)
(* silenced, ended and removed.                                            *)
Disposed(s) == [k \in Socks |-> IF k = sockets[s] THEN Free ELSE sock[k]]

Dispose(s) ==
    /\ sock' = Disposed(s)
    /\ sockets' = [sockets EXCEPT ![s] = NoSock]

EndSocketSession(s) == ClearTimer(s) /\ Dispose(s)

(* internalOpenSocket up to its await of the WhatsApp version.             *)
BeginOpen(t, s, o) ==
    /\ EndSocketSession(s)
    /\ task' = [WithoutTimer(s) EXCEPT ![t] = Task("version", s, o)]

(* scheduleReconnect up to its await of the status update.                 *)
ScheduleReconnect(t, s) ==
    /\ ClearTimer(s)
    /\ task' = [WithoutTimer(s) EXCEPT ![t] = Task("saveReconnecting", s, "none")]

Finish(t) == task' = [task EXCEPT ![t] = Idle]
Resume(t, p) == task' = [task EXCEPT ![t].pc = p]
At(t, p) == task[t].pc = p

(* updateBySessionId and update throw when the row is gone.                *)
Write(s, v) == status' = [status EXCEPT ![s] = IF HasRow(s) THEN v ELSE @]

(* isWorkspaceConnected reads sock.user of every socket in the map, also   *)
(* under the pending key: set on an open socket, possibly set (registered  *)
(* credentials) on another one.                                            *)
Live(b) ==
    /\ (\E s \in Sessions : sockets[s] # NoSock /\ sock[sockets[s]].conn = "open") => b
    /\ pending = "open" => b
    /\ b => pending # "none" \/ \E s \in Sessions : sockets[s] # NoSock

(* Mutant of Settle: the promise is settled but not forgotten.             *)
SettleKeepsOutcome(s, p) ==
    /\ UNCHANGED outcome
    /\ call' = [c \in Calls |-> IF c # outcome[s] THEN call[c]
                                ELSE IF p = "rejected" THEN NoRequest
                                ELSE [call[c] EXCEPT !.pc = p]]

(* The promise of the call registered for s is settled and forgotten.      *)
Settle(s, p) ==
    /\ outcome' = [outcome EXCEPT ![s] = NoCall]
    /\ call' = [c \in Calls |-> IF c # outcome[s] THEN call[c]
                                ELSE IF p = "rejected" THEN NoRequest
                                ELSE [call[c] EXCEPT !.pc = p]]

-----------------------------------------------------------------------------
(* Opening a socket: the continuation of internalOpenSocket.               *)

(* sockets.set: k replaces whatever the map holds.  Another open of the    *)
(* same session may have finished meanwhile, and its socket is neither     *)
(* ended nor silenced; one that has ended is nobody's any more.            *)
Registered(s, k, c) ==
    [j \in Socks |-> IF j = k THEN Sock(s, c)
                     ELSE IF j = sockets[s] /\ sock[j].conn \in {"closed", "lost"} THEN Free
                     ELSE sock[j]]

(* The socket is created and registered.                                   *)
BindSocket(t, k) ==
    LET s == task[t].sid IN
    /\ At(t, "version")
    /\ sock[k] = Free
    /\ sock' = Registered(s, k, "connecting")
    /\ sockets' = [sockets EXCEPT ![s] = k]
    /\ Finish(t)
    /\ wsPc' = IF task[t].origin = "workspace" THEN "looping" ELSE wsPc
    /\ UNCHANGED <<db, timerOf, calls, cronLeft, wsLeft, wsTimer, qr, life>>

(* makeWASocket (or reviving the stored credentials) throws, and the error *)
(* goes to the catch of whoever opened the socket.                         *)
OpenFailsRecover(t) ==
    LET s == task[t].sid IN
    /\ At(t, "version")
    /\ task[t].origin \in {"cron", "bootstrap"}
    /\ IF s \in AutoReconnect THEN ScheduleReconnect(t, s)
                              ELSE Finish(t) /\ UNCHANGED timerOf
    /\ UNCHANGED <<db, sockets, sock, calls, cronLeft, ws, qr, life>>

OpenFailsAfterTimer(t) ==
    /\ At(t, "version")
    /\ task[t].origin = "timer"
    /\ Resume(t, "refind")
    /\ UNCHANGED <<db, maps, calls, cronLeft, ws, qr, life>>

(* connect deletes the outcome of the session, whoever registered it, and  *)
(* rejects its own promise, which may have been settled already.           *)
OpenFailsForCall(t) ==
    LET s == task[t].sid
        c == task[t].origin
    IN
    /\ At(t, "version")
    /\ c \in Calls
    /\ outcome' = [outcome EXCEPT ![s] = NoCall]
    /\ call' = [call EXCEPT ![c] = IF @.pc = "waiting" THEN NoRequest ELSE @]
    /\ Finish(t)
    /\ UNCHANGED <<db, maps, cronLeft, ws, qr, life>>

(* The loop of tryConnectWorkspace is abandoned with its remaining rows.   *)
OpenFailsForWorkspace(t) ==
    /\ At(t, "version")
    /\ task[t].origin = "workspace"
    /\ Finish(t)
    /\ wsPc' = "idle"
    /\ wsLeft' = {}
    /\ \E b \in BOOLEAN : Live(b) /\ wsTimer' = (wsTimer \/ ~b)
    /\ UNCHANGED <<db, maps, calls, cronLeft, qr, life>>

OpenFails(t) ==
    \/ OpenFailsRecover(t)
    \/ OpenFailsAfterTimer(t)
    \/ OpenFailsForCall(t)
    \/ OpenFailsForWorkspace(t)

-----------------------------------------------------------------------------
(* Reconnecting: scheduleReconnect and the callback of its timeout.        *)

(* Mutant of WriteReconnecting: the row is left as it was.                 *)
WriteNothing(t) ==
    /\ At(t, "saveReconnecting")
    /\ Resume(t, "arming")
    /\ UNCHANGED <<db, maps, calls, cronLeft, ws, qr, life>>

WriteReconnecting(t) ==
    /\ At(t, "saveReconnecting")
    /\ Write(task[t].sid, "reconnecting")
    /\ Resume(t, "arming")
    /\ UNCHANGED <<active, maps, calls, cronLeft, ws, qr, life>>

(* setTimeout and reconnectTimers.set: an entry armed by another flow      *)
(* during the await is overwritten, its timeout stays armed.               *)
ArmTimer(t) ==
    /\ At(t, "arming")
    /\ timerOf' = [timerOf EXCEPT ![task[t].sid] = t]
    /\ Resume(t, "sleeping")
    /\ UNCHANGED <<db, sockets, sock, calls, cronLeft, ws, qr, life>>

(* The callback drops the entry of its session, its own or a newer one.    *)
TimerFires(t) ==
    /\ At(t, "sleeping")
    /\ ClearTimer(task[t].sid)
    /\ Resume(t, "find")
    /\ UNCHANGED <<db, sockets, sock, calls, cronLeft, ws, qr, life>>

(* internalOpenSocketFromRepo: a missing row is an error of the attempt.   *)
LoadSession(t) ==
    LET s == task[t].sid IN
    /\ At(t, "find")
    /\ IF HasRow(s) THEN BeginOpen(t, s, "timer")
                    ELSE Resume(t, "refind") /\ UNCHANGED maps
    /\ UNCHANGED <<db, calls, cronLeft, ws, qr, life>>

(* Mutant of RetryOrAbandon: the retry does not ask whether there is a row. *)
RetryWithoutRow(t) ==
    LET s == task[t].sid IN
    /\ At(t, "refind")
    /\ IF s \in AutoReconnect THEN ScheduleReconnect(t, s)
                              ELSE Finish(t) /\ UNCHANGED timerOf
    /\ UNCHANGED <<db, sockets, sock, calls, cronLeft, ws, qr, life>>

(* The attempt failed: schedule the next one, or give the session up.      *)
RetryOrAbandon(t) ==
    LET s == task[t].sid IN
    /\ At(t, "refind")
    /\ IF HasRow(s) /\ s \in AutoReconnect
         THEN ScheduleReconnect(t, s)
         ELSE Finish(t) /\ UNCHANGED timerOf
    /\ UNCHANGED <<db, sockets, sock, calls, cronLeft, ws, qr, life>>

-----------------------------------------------------------------------------
(* connection.update events of socket k, handled under its sessionId.      *)

(* A QR code resolves the promise of connect (its broadcast: QrPairing).   *)
QrEvent(k) ==
    LET s == sock[k].owner IN
    /\ sock[k].conn = "connecting"
    /\ outcome[s] # NoCall
    /\ Settle(s, "qr")
    /\ UNCHANGED <<db, maps, task, cronLeft, ws, qr, life>>

OpenEvent(k, t) ==
    LET s == sock[k].owner IN
    /\ sock[k].conn = "connecting"
    /\ task[t] = Idle
    /\ sock' = [sock EXCEPT ![k].conn = "open"]
    /\ ClearTimer(s)
    /\ task' = [WithoutTimer(s) EXCEPT ![t] = Task("findConnected", s, "none")]
    /\ wsTimer' = FALSE
    /\ UNCHANGED <<db, sockets, calls, cronLeft, wsPc, wsLeft, qr, life>>

(* persistConnectedSession.                                                *)
FindConnected(t) ==
    /\ At(t, "findConnected")
    /\ Resume(t, IF HasRow(task[t].sid) THEN "saveConnected" ELSE "connectedSaved")
    /\ UNCHANGED <<db, maps, calls, cronLeft, ws, qr, life>>

(* A row deleted since makes the update throw; the catch of the handler    *)
(* disposes the session's socket.                                          *)
SaveConnected(t) ==
    LET s == task[t].sid IN
    /\ At(t, "saveConnected")
    /\ Write(s, "connected")
    /\ active' = [active EXCEPT ![s] = HasRow(s)]
    /\ IF HasRow(s) THEN Resume(t, "connectedSaved") /\ UNCHANGED <<sockets, sock>>
                    ELSE Finish(t) /\ Dispose(s)
    /\ UNCHANGED <<timerOf, calls, cronLeft, ws, qr, life>>

AfterConnected(t) ==
    /\ At(t, "connectedSaved")
    /\ Settle(task[t].sid, "open")
    /\ Finish(t)
    /\ UNCHANGED <<db, maps, cronLeft, ws, qr, life>>

(* The connection is lost: the socket in the map goes, k or another, and   *)
(* a reconnect is scheduled whatever settings.autoReconnect says.          *)
CloseEvent(k, t) ==
    LET s == sock[k].owner IN
    /\ sock[k].conn \in {"connecting", "open"}
    /\ task[t] = Idle
    /\ Settle(s, "rejected")
    /\ sock' = [Disposed(s) EXCEPT ![k] = Free]
    /\ sockets' = [sockets EXCEPT ![s] = NoSock]
    /\ ScheduleReconnect(t, s)
    /\ UNCHANGED <<db, cronLeft, ws, qr, life>>

(* The phone logged the session out: markSessionFailed is awaited before   *)
(* the socket is disposed, so a dead socket stays in the map meanwhile.    *)
LoggedOutEvent(k, t) ==
    LET s == sock[k].owner IN
    /\ sock[k].conn \in {"connecting", "open"}
    /\ task[t] = Idle
    /\ Settle(s, "rejected")
    /\ sock' = [sock EXCEPT ![k] = IF sockets[s] = k THEN [@ EXCEPT !.conn = "closed"] ELSE Free]
    /\ task' = [task EXCEPT ![t] = Task("findFailed", s, "none")]
    /\ UNCHANGED <<db, sockets, timerOf, cronLeft, ws, qr, life>>

(* Mutant of FindFailed: a missing row returns before the socket is ended. *)
FindFailedReturns(t) ==
    /\ At(t, "findFailed")
    /\ IF HasRow(task[t].sid) THEN Resume(t, "saveFailed") ELSE Finish(t)
    /\ UNCHANGED <<db, maps, calls, cronLeft, ws, qr, life>>

FindFailed(t) ==
    /\ At(t, "findFailed")
    /\ Resume(t, IF HasRow(task[t].sid) THEN "saveFailed" ELSE "failedSaved")
    /\ UNCHANGED <<db, maps, calls, cronLeft, ws, qr, life>>

SaveFailed(t) ==
    /\ At(t, "saveFailed")
    /\ Write(task[t].sid, "failed")
    /\ Resume(t, "failedSaved")
    /\ UNCHANGED <<active, maps, calls, cronLeft, ws, qr, life>>

(* Mutant of AfterFailed: the logged-out socket is not disposed.           *)
AfterFailedKeepsSocket(t) ==
    /\ At(t, "failedSaved")
    /\ Finish(t)
    /\ UNCHANGED <<db, maps, calls, cronLeft, ws, qr, life>>

AfterFailed(t) ==
    /\ At(t, "failedSaved")
    /\ Dispose(task[t].sid)
    /\ Finish(t)
    /\ UNCHANGED <<db, timerOf, calls, cronLeft, ws, qr, life>>

-----------------------------------------------------------------------------
(* The pairing of a new number, as far as the sessions feel it: which      *)
(* events of which pending sockets bring these steps about is QrPairing's. *)

Promotions == {t \in Tasks : task[t].pc \in {"creating", "created"}}

(* The sockets the promotions D hold have ended.                           *)
Lost(D) == [t \in Tasks |-> IF t \in D THEN [task[t] EXCEPT !.origin = "lost"] ELSE task[t]]

(* What the pending key holds goes: it closed, timed out or was torn down, *)
(* with or without a socket a promotion has read before.  The events of    *)
(* such a socket are still handled under the pending key.                  *)
EndPairing ==
    /\ pending' = "none"
    /\ \E D \in SUBSET Promotions : task' = Lost(D)

PairingEnds ==
    /\ EndPairing
    /\ UNCHANGED <<db, maps, calls, cronLeft, ws, qrLeft, qrCur, life>>

PairingStarts ==
    /\ boot = "up" /\ "pair" \in UserActs
    /\ pending' = "connecting"
    /\ UNCHANGED <<db, maps, task, calls, cronLeft, ws, qrLeft, qrCur, life>>

(* A pending socket opens - the one under the key, or one that it replaced. *)
(* createWhatsappSessionAfterQrScan reads the key, draws the new sessionId *)
(* and awaits the row.  (A bound: one promotion at a time.)                *)
PairingOpens(s, t) ==
    /\ pending = "connecting" /\ Promotions = {}
    /\ status[s] = "absent" /\ \A u \in Tasks : task[u].sid # s
    /\ task[t] = Idle
    /\ pending' \in {"connecting", "open"}
    /\ task' = [task EXCEPT ![t] = Task("creating", s, pending')]
    /\ wsTimer' = FALSE
    /\ UNCHANGED <<db, maps, calls, cronLeft, wsPc, wsLeft, qrLeft, qrCur, life>>

PromotionCreates(t) ==
    LET s == task[t].sid IN
    /\ At(t, "creating")
    /\ status' = [status EXCEPT ![s] = "connected"]
    /\ active' = [active EXCEPT ![s] = TRUE]
    /\ Resume(t, "created")
    /\ UNCHANGED <<maps, calls, cronLeft, ws, qr, life>>

(* The catch of the handler disposes what the pending key holds.           *)
PromotionFails(t) ==
    /\ At(t, "creating")
    /\ pending' = "none"
    /\ Finish(t)
    /\ UNCHANGED <<db, maps, calls, cronLeft, ws, qrLeft, qrCur, life>>

(* The socket read before the await becomes the session's, whatever became *)
(* of it; its listeners move to the new sessionId, where a socket that has *)
(* ended reports nothing more.                                             *)
PromotionStores(t, k) ==
    LET s == task[t].sid IN
    /\ At(t, "created")
    /\ sock[k] = Free
    /\ sock' = Registered(s, k, task[t].origin)
    /\ sockets' = [sockets EXCEPT ![s] = k]
    /\ pending' = "none"
    /\ Finish(t)
    /\ UNCHANGED <<db, timerOf, calls, cronLeft, ws, qrLeft, qrCur, life>>

-----------------------------------------------------------------------------
(* The reconciliation cron.  cronLeft = {} stands for reconcileCronRunning *)
(* being false: a tick during a running one returns at once.               *)

CronTick ==
    /\ cronLeft = {}
    /\ ActiveRows # {}
    /\ cronLeft' = ActiveRows
    /\ UNCHANGED <<db, maps, task, calls, ws, qr, life>>

CronSkips(s) ==
    /\ s \in cronLeft
    /\ \/ ~HasRow(s)
       \/ sockets[s] # NoSock
       \/ timerOf[s] # NoTask
    /\ cronLeft' = cronLeft \ {s}
    /\ UNCHANGED <<db, maps, task, calls, ws, qr, life>>

(* The row is read again, but only its absence is looked at.               *)
CronOpens(s, t) ==
    /\ s \in cronLeft
    /\ HasRow(s)
    /\ sockets[s] = NoSock
    /\ timerOf[s] = NoTask
    /\ task[t] = Idle
    /\ BeginOpen(t, s, "cron")
    /\ cronLeft' = cronLeft \ {s}
    /\ UNCHANGED <<db, calls, ws, qr, life>>

-----------------------------------------------------------------------------
(* onApplicationBootstrap.  Eligible rows are active, not failed, and      *)
(* either have registered credentials (any subset) or are reconnecting.    *)

BootSessions ==
    /\ boot = "listing"
    /\ \E registered \in SUBSET Sessions :
         bootLeft' = {s \in ActiveRows : /\ status[s] # "failed"
                                         /\ s \in registered \/ status[s] = "reconnecting"}
    /\ boot' = "opening"
    /\ UNCHANGED <<db, maps, task, calls, cronLeft, ws, qr, restarts>>

(* registerWorkspaceConnection, called for a workspace just created: its   *)
(* active sessions, if it has any by then, are opened in the same way.     *)
WorkspaceRegisters ==
    /\ boot = "up" /\ "register" \in UserActs
    /\ bootLeft = {}
    /\ bootLeft' = ActiveRows
    /\ UNCHANGED <<db, maps, task, calls, cronLeft, ws, qr, boot, restarts>>

BootOpens(s, t) ==
    /\ s \in bootLeft
    /\ task[t] = Idle
    /\ BeginOpen(t, s, "bootstrap")
    /\ bootLeft' = bootLeft \ {s}
    /\ UNCHANGED <<db, calls, cronLeft, ws, qr, boot, restarts>>

BootListsWorkspaces ==
    /\ boot = "opening"
    /\ bootLeft = {}
    /\ boot' = "workspaces"
    /\ UNCHANGED <<db, maps, task, calls, cronLeft, ws, qr, bootLeft, restarts>>

(* ensureWorkspaceConnected up to its first await.                         *)
EnsureWorkspace ==
    \E b \in BOOLEAN : Live(b) /\ wsPc' = IF b THEN "idle" ELSE "listing"

BootWorkspaces ==
    /\ boot = "workspaces"
    /\ boot' = "up"
    /\ EnsureWorkspace
    /\ UNCHANGED <<db, maps, task, calls, cronLeft, wsLeft, wsTimer, qr, bootLeft, restarts>>

WorkspaceLists ==
    /\ wsPc = "listing"
    /\ wsLeft' = ActiveRows
    /\ wsPc' = "looping"
    /\ UNCHANGED <<db, maps, task, calls, cronLeft, wsTimer, qr, life>>

WorkspaceSkips(s) ==
    /\ wsPc = "looping"
    /\ s \in wsLeft
    /\ sockets[s] # NoSock \/ timerOf[s] # NoTask
    /\ wsLeft' = wsLeft \ {s}
    /\ UNCHANGED <<db, maps, task, calls, cronLeft, wsPc, wsTimer, qr, life>>

WorkspaceOpens(s, t) ==
    /\ wsPc = "looping"
    /\ s \in wsLeft
    /\ sockets[s] = NoSock
    /\ timerOf[s] = NoTask
    /\ task[t] = Idle
    /\ BeginOpen(t, s, "workspace")
    /\ wsLeft' = wsLeft \ {s}
    /\ wsPc' = "opening"
    /\ UNCHANGED <<db, calls, cronLeft, wsTimer, qr, life>>

WorkspaceDone ==
    /\ wsPc = "looping"
    /\ wsLeft = {}
    /\ wsPc' = "idle"
    /\ \E b \in BOOLEAN : Live(b) /\ wsTimer' = (wsTimer \/ ~b)
    /\ UNCHANGED <<db, maps, task, calls, cronLeft, wsLeft, qr, life>>

(* Mutant of WorkspaceRetryFires: the entry of the fired timer stays.      *)
WorkspaceRetryKeepsEntry ==
    /\ wsTimer
    /\ EnsureWorkspace
    /\ UNCHANGED <<db, maps, task, calls, cronLeft, wsLeft, wsTimer, qr, life>>

WorkspaceRetryFires ==
    /\ wsTimer
    /\ wsTimer' = FALSE
    /\ EnsureWorkspace
    /\ UNCHANGED <<db, maps, task, calls, cronLeft, wsLeft, qr, life>>

-----------------------------------------------------------------------------
(* The REST use cases; they run once the application listens.              *)

CreateSession(s) ==
    /\ boot = "up" /\ "create" \in UserActs
    /\ status[s] = "absent" /\ \A t \in Tasks : task[t].sid # s
    /\ status' = [status EXCEPT ![s] = "disconnected"]
    /\ active' = [active EXCEPT ![s] = TRUE]
    /\ UNCHANGED <<maps, task, calls, cronLeft, ws, qr, life>>

PatchSession(s, v) ==
    /\ boot = "up" /\ "patch" \in UserActs
    /\ HasRow(s)
    /\ status' = [status EXCEPT ![s] = v]
    /\ UNCHANGED <<active, maps, task, calls, cronLeft, ws, qr, life>>

(* Only the row goes: socket, timer and suspended flows stay.              *)
DeleteSession(s) ==
    /\ boot = "up" /\ "delete" \in UserActs
    /\ HasRow(s)
    /\ status' = [status EXCEPT ![s] = "deleted"]
    /\ active' = [active EXCEPT ![s] = FALSE]
    /\ UNCHANGED <<maps, task, calls, cronLeft, ws, qr, life>>

Disconnect(s, t) ==
    /\ boot = "up" /\ "disconnect" \in UserActs
    /\ HasRow(s)
    /\ task[t] = Idle
    /\ EndSocketSession(s)
    /\ task' = [WithoutTimer(s) EXCEPT ![t] = Task("saveDisconnected", s, "none")]
    /\ UNCHANGED <<db, calls, cronLeft, ws, qr, life>>

SaveDisconnected(t) ==
    /\ At(t, "saveDisconnected")
    /\ Write(task[t].sid, "disconnected")
    /\ Finish(t)
    /\ UNCHANGED <<active, maps, calls, cronLeft, ws, qr, life>>

(* connect, reconnect and replace.  A slot is not reused while an open it  *)
(* started is still under way: the code's promises are distinct objects.   *)
CallStart(c, s, kind) ==
    /\ boot = "up" /\ kind \in UserActs
    /\ call[c] = NoRequest
    /\ \A t \in Tasks : task[t].origin # c
    /\ HasRow(s)
    /\ call' = [call EXCEPT ![c] = Call("saving", s, kind)]
    /\ UNCHANGED <<db, maps, task, outcome, cronLeft, ws, qr, life>>

(* status := connecting; the request fails when the row is gone.           *)
CallSaves(c) ==
    LET s == call[c].sid IN
    /\ call[c].pc = "saving"
    /\ Write(s, "connecting")
    /\ call' = [call EXCEPT ![c] =
                  IF ~HasRow(s) THEN NoRequest
                  ELSE [@ EXCEPT !.pc = IF call[c].kind = "connect" THEN "starting" ELSE "ending"]]
    /\ UNCHANGED <<active, maps, task, outcome, cronLeft, ws, qr, life>>

(* reconnect and replaceAuth end the current socket first.                 *)
CallEnds(c) ==
    LET s == call[c].sid IN
    /\ call[c].pc = "ending"
    /\ EndSocketSession(s)
    /\ task' = WithoutTimer(s)
    /\ call' = [call EXCEPT ![c].pc = "reloading"]
    /\ UNCHANGED <<db, outcome, cronLeft, ws, qr, life>>

CallReloads(c) ==
    LET s == call[c].sid IN
    /\ call[c].pc = "reloading"
    /\ Write(s, IF call[c].kind = "replace" THEN "connecting" ELSE status[s])
    /\ call' = [call EXCEPT ![c] = IF HasRow(s) THEN [@ EXCEPT !.pc = "starting"] ELSE NoRequest]
    /\ UNCHANGED <<active, maps, task, outcome, cronLeft, ws, qr, life>>

(* BaileysService.connect: register the promise, start opening.            *)
CallConnects(c, t) ==
    LET s == call[c].sid IN
    /\ call[c].pc = "starting"
    /\ task[t] = Idle
    /\ outcome' = [outcome EXCEPT ![s] = c]
    /\ call' = [call EXCEPT ![c].pc = "waiting"]
    /\ BeginOpen(t, s, c)
    /\ UNCHANGED <<db, cronLeft, ws, qr, life>>

CallFinishes(c) ==
    /\ call[c].pc \in {"qr", "open"}
    /\ Write(call[c].sid, IF call[c].pc = "qr" THEN "connecting" ELSE "connected")
    /\ call' = [call EXCEPT ![c] = NoRequest]
    /\ UNCHANGED <<active, maps, task, outcome, cronLeft, ws, qr, life>>

(* requestNewQrCode ends the pairing under way and deactivates the active  *)
(* sessions of the workspace one by one.                                   *)
QrRequest ==
    /\ boot = "up" /\ "newQr" \in UserActs
    /\ qrLeft = {}
    /\ ActiveRows # {}
    /\ qrLeft' = ActiveRows
    /\ EndPairing
    /\ UNCHANGED <<db, maps, calls, cronLeft, ws, qrCur, life>>

QrEnds(s) ==
    /\ s \in qrLeft
    /\ qrCur = NoSession
    /\ EndSocketSession(s)
    /\ task' = WithoutTimer(s)
    /\ qrCur' = s
    /\ UNCHANGED <<db, calls, cronLeft, ws, qrLeft, pending, life>>

QrDeactivates(s) ==
    /\ qrCur = s
    /\ Write(s, "failed")
    /\ active' = [active EXCEPT ![s] = FALSE]
    /\ qrCur' = NoSession
    /\ qrLeft' = IF HasRow(s) THEN qrLeft \ {s} ELSE {}
    /\ UNCHANGED <<maps, task, calls, cronLeft, ws, pending, life>>

-----------------------------------------------------------------------------
(* The process is killed and started again: only the rows survive.         *)
Restart ==
    /\ restarts < MaxRestarts
    /\ restarts' = restarts + 1
    /\ sockets' = [s \in Sessions |-> NoSock]
    /\ sock' = [k \in Socks |-> Free]
    /\ timerOf' = [s \in Sessions |-> NoTask]
    /\ task' = [t \in Tasks |-> Idle]
    /\ outcome' = [s \in Sessions |-> NoCall]
    /\ call' = [c \in Calls |-> NoRequest]
    /\ cronLeft' = {}
    /\ wsPc' = "idle" /\ wsLeft' = {} /\ wsTimer' = FALSE
    /\ qrLeft' = {} /\ qrCur' = NoSession /\ pending' = "none"
    /\ boot' = "listing" /\ bootLeft' = {}
    /\ UNCHANGED db

Opening == \E t \in Tasks : OpenFails(t) \/ \E k \in Socks : BindSocket(t, k)

Reconnecting ==
    \E t \in Tasks :
        \/ WriteReconnecting(t) \/ ArmTimer(t) \/ TimerFires(t)
        \/ LoadSession(t) \/ RetryOrAbandon(t)

Events ==
    \/ \E k \in Socks :
          \/ QrEvent(k)
          \/ \E t \in Tasks : OpenEvent(k, t) \/ CloseEvent(k, t) \/ LoggedOutEvent(k, t)
    \/ \E t \in Tasks :
          \/ FindConnected(t) \/ SaveConnected(t) \/ AfterConnected(t)
          \/ FindFailed(t) \/ SaveFailed(t) \/ AfterFailed(t)

Pairing ==
    \/ PairingStarts \/ PairingEnds
    \/ \E t \in Tasks :
          \/ \E s \in Sessions : PairingOpens(s, t)
          \/ PromotionCreates(t) \/ PromotionFails(t)
          \/ \E k \in Socks : PromotionStores(t, k)

Cron == CronTick \/ \E s \in Sessions : CronSkips(s) \/ \E t \in Tasks : CronOpens(s, t)

Bootstrap ==
    \/ BootSessions \/ BootListsWorkspaces \/ BootWorkspaces \/ WorkspaceRegisters
    \/ \E s \in Sessions, t \in Tasks : BootOpens(s, t)

Workspace ==
    \/ WorkspaceLists \/ WorkspaceDone \/ WorkspaceRetryFires
    \/ \E s \in Sessions : WorkspaceSkips(s) \/ \E t \in Tasks : WorkspaceOpens(s, t)

Rows ==
    \E s \in Sessions :
        \/ CreateSession(s) \/ DeleteSession(s)
        \/ \E v \in Persisted : PatchSession(s, v)

Requests ==
    \/ \E s \in Sessions, t \in Tasks : Disconnect(s, t)
    \/ \E t \in Tasks : SaveDisconnected(t)
    \/ \E c \in Calls, s \in Sessions, kind \in {"connect", "reconnect", "replace"} : CallStart(c, s, kind)
    \/ \E c \in Calls : CallSaves(c) \/ CallEnds(c) \/ CallReloads(c) \/ CallFinishes(c)
    \/ \E c \in Calls, t \in Tasks : CallConnects(c, t)
    \/ QrRequest
    \/ \E s \in Sessions : QrEnds(s) \/ QrDeactivates(s)

Next ==
    \/ Opening \/ Reconnecting \/ Events \/ Pairing \/ Cron \/ Bootstrap
    \/ Workspace \/ Rows \/ Requests \/ Restart

Spec == Init /\ [][Next]_vars

(* Fairness.  Suspended flows resume: Mongo and the version lookup answer  *)
(* (or fail) and timeouts fire.  The cron ticks every 10 s and its loop is *)
(* sequential.  Strong fairness where a step needs a free slot of Tasks:   *)
(* the code has no such limit, so slots in use may not starve it.  Nothing *)
(* is assumed of WhatsApp, of users or of crashes.                         *)
Resumes(t) ==
    \/ OpenFails(t) \/ \E k \in Socks : BindSocket(t, k)
    \/ WriteReconnecting(t) \/ ArmTimer(t) \/ TimerFires(t)
    \/ LoadSession(t) \/ RetryOrAbandon(t)
    \/ FindConnected(t) \/ SaveConnected(t) \/ AfterConnected(t)
    \/ FindFailed(t) \/ SaveFailed(t) \/ AfterFailed(t)
    \/ PromotionCreates(t) \/ PromotionFails(t) \/ \E k \in Socks : PromotionStores(t, k)
    \/ SaveDisconnected(t)

Fairness ==
    /\ \A t \in Tasks : WF_vars(Resumes(t))
    /\ WF_vars(CronTick)
    /\ \A s \in Sessions : SF_vars(CronSkips(s) \/ \E t \in Tasks : CronOpens(s, t))

FairSpec == Spec /\ Fairness

-----------------------------------------------------------------------------
(* The map never shares a socket between sessions: a socket found under s  *)
(* has its listeners bound to s, so disposing it cannot hit another        *)
(* session (spec-driven/whatsapp-session-by-db.md: sessions are isolated). *)
MapHoldsOwnSockets ==
    \A s \in Sessions : sockets[s] # NoSock => sock[sockets[s]].owner = s

(* A socket that is dead but still in the map keeps the cron and the       *)
(* workspace loop away from its session, so one that ends while it is the  *)
(* session's may only be there while the loggedOut handler that will       *)
(* dispose it is suspended.  (One that had ended before its promotion      *)
(* stored it stays: EndedSocketIsFollowedUp.)                              *)
LoggedOutHandler(s) ==
    \E t \in Tasks : task[t].pc \in {"findFailed", "saveFailed", "failedSaved"} /\ task[t].sid = s

ClosedSocketLeavesMap ==
    \A s \in Sessions :
        sockets[s] # NoSock /\ sock[sockets[s]].conn = "closed" => LoggedOutHandler(s)

(* The cron and the workspace loop skip a session with an entry in         *)
(* reconnectTimers: a stale entry would keep it closed for ever.  So an    *)
(* entry is always a timeout that is still armed, for that session.        *)
TimerEntryIsArmed ==
    \A s \in Sessions :
        timerOf[s] # NoTask => task[timerOf[s]].pc = "sleeping" /\ task[timerOf[s]].sid = s

(* A registered outcome belongs to a call that still waits, for that       *)
(* session: no event settles a promise twice or settles one of another     *)
(* session's callers.                                                      *)
OutcomeIsAwaited ==
    \A s \in Sessions :
        outcome[s] # NoCall => call[outcome[s]].pc = "waiting" /\ call[outcome[s]].sid = s

(* ensureWorkspaceConnected never runs twice at a time for a workspace:    *)
(* while it is suspended no retry timer is pending, and the open it awaits *)
(* is the only one of its origin.                                          *)
OneWorkspaceLoop ==
    /\ wsPc # "idle" => ~wsTimer
    /\ wsPc = "opening" <=> \E t \in Tasks : task[t].pc = "version" /\ task[t].origin = "workspace"
    /\ \A t, u \in Tasks :
          task[t].origin = "workspace" /\ task[u].origin = "workspace" => t = u

(* A session whose row is active and that has no socket, or one that ended *)
(* as the session's, is opened again: it cannot stay down for ever without *)
(* a flow reaching the point of creating its socket, unless the row is     *)
(* deactivated or deleted first.                                           *)
Down(s) ==
    /\ s \in ActiveRows
    /\ sockets[s] # NoSock => sock[sockets[s]].conn = "closed"

ActiveSessionIsReopened ==
    \A s \in Sessions :
        []<>(~Down(s) \/ \E t \in Tasks : task[t].pc = "version" /\ task[t].sid = s)

(* A row that says connected while the session has no socket, or one that  *)
(* ended as the session's, is corrected: either a socket comes back or the *)
(* status stops saying so, provided the session reconnects automatically   *)
(* and its row stays active.                                               *)
ClaimsConnection(s) == status[s] = "connected" /\ Down(s)

ConnectedRowIsCorrected == \A s \in AutoReconnect : []<>~ClaimsConnection(s)

(* The flows of a deleted session die out: no retry loop survives the row, *)
(* and, as its id is never used again, none comes back.                    *)
DeletedSessionGoesQuiet ==
    \A s \in Sessions :
        <>[](status[s] = "deleted" => timerOf[s] = NoTask /\ \A t \in Tasks : task[t].sid # s)

-----------------------------------------------------------------------------
(* What the documentation and the comments promise and the code does not   *)
(* keep; each is refuted by a run of its own.                              *)

(* spec-driven/whatsapp-session-by-db.md:267-271: sessionId is the real    *)
(* unit of connection, one entry of Map<sessionId, socket> each.           *)
OneSocketPerSession ==
    \A j, k \in Socks :
        sock[j].conn \in {"connecting", "open"} /\ sock[k].conn \in {"connecting", "open"}
            /\ sock[j].owner = sock[k].owner => j = k

(* spec-driven/whatsapp-session-by-db.md:196: "erro desconhecido -> logar  *)
(* e tentar reconectar".  An active session whose socket has ended has a   *)
(* flow that will do something about it.                                   *)
EndedSocketIsFollowedUp ==
    \A s \in ActiveRows :
        sockets[s] # NoSock /\ sock[sockets[s]].conn \in {"closed", "lost"} =>
            \E t \in Tasks : task[t].sid = s
=============================================================================
