------------------------------ MODULE QrPairing ------------------------------
(***************************************************************************)
(* Pairing a new number with a workspace by QR code, in BaileysService and *)
(* the QR cache of SocketService: the socket under the key                 *)
(* `pending:<workspaceId>`, its five-minute window, the restart after a    *)
(* scan (error 515), and its promotion to a persisted session.             *)
(*                                                                         *)
(* As in BaileysSession the code between two awaits is one action, and the *)
(* listeners of a socket look everything up under the key they were        *)
(* attached with, whatever the maps hold under that key by then.           *)
(*                                                                         *)
(* An expiry timeout knows only the workspace and the key, so timeouts are *)
(* interchangeable: `own` says whether the runtime entry in the map refers *)
(* to an armed one, `orphans` counts the armed ones nothing refers to.     *)
(*                                                                         *)
(* The life of a session after its promotion is BaileysSession's.          *)
(***************************************************************************)
EXTENDS Naturals, FiniteSets

CONSTANTS
    Sids,           \* session ids randomUUID may produce
    Socks,          \* slots for WASocket objects
    Tasks,          \* slots for suspended flows
    MaxRequests,    \* how many QR codes users request
    MaxOrphans,     \* bound on armed timeouts nothing refers to
    Pending,        \* the key pending:<workspaceId>
    NoKey, NoSock

ASSUME QrConstantsOK ==
    /\ Pending \notin Sids
    /\ NoKey \notin Sids \cup {Pending}
    /\ NoSock \notin Socks
    /\ MaxRequests \in Nat
    /\ MaxOrphans \in Nat

VARIABLES
    sockets,    \* the map key -> socket; runtime has the same keys
    sock,       \* the socket objects
    emit,       \* emitNewConnectionQr of the pending runtime entry
    own,        \* its qrExpiryTimer is an armed timeout
    orphans,    \* armed expiry timeouts of entries that are gone
    cached,     \* pendingQrCache has a QR code for the workspace
    row,        \* the rows of sessions created by pairing
    task,       \* suspended flows
    requests    \* QR codes requested so far

entry == <<emit, own, orphans>>
vars  == <<sockets, sock, entry, cached, row, task, requests>>

Keys == Sids \cup {Pending}

Free == [key |-> NoKey, conn |-> "none", auth |-> "none"]

(* "dead": ended or closed while a suspended promotion or another key - two *)
(* promotions may have read one socket - still refers to it.               *)
(* auth: whether its QR code has been broadcast, has been scanned, or the  *)
(* socket was created with the credentials of a scan.                      *)
Auths == {"none", "shown", "scanned", "registered"}

SockStates ==
    {Free} \cup [key : Keys, conn : {"connecting", "open", "dead"}, auth : Auths]

(* Where a flow is suspended: requestNewQrCode at its list and its updates *)
(* (left: sessions still to end; sid: the one being updated),              *)
(* startPendingQrConnection at the version lookup ("version", within       *)
(* restartPendingQrSocket "restarting"), createWhatsappSessionAfterQrScan  *)
(* at repository.create (held: the socket it read before).                 *)
Idle == [pc |-> "idle", emit |-> FALSE, auth |-> "none", left |-> {}, sid |-> NoKey, held |-> NoSock]

Version(e) == [Idle EXCEPT !.pc = "version", !.emit = e]

TypeOK ==
    /\ sockets \in [Keys -> Socks \cup {NoSock}]
    /\ sock \in [Socks -> SockStates]
    /\ emit \in BOOLEAN /\ own \in BOOLEAN /\ cached \in BOOLEAN
    /\ orphans \in 0..MaxOrphans
    /\ row \in [Sids -> {"absent", "active", "inactive"}]
    /\ task \in [Tasks -> [pc : {"idle", "listing", "updating", "version", "restarting", "creating"},
                           emit : BOOLEAN, auth : Auths, left : SUBSET Sids,
                           sid : Sids \cup {NoKey}, held : Socks \cup {NoSock}]]
    /\ requests \in 0..MaxRequests

(* A workspace that has just been created: registerWorkspaceConnection     *)
(* finds no session and starts a pairing without broadcasts; or a server   *)
(* that has just started, with nothing pending.                            *)
Init ==
    /\ sockets = [x \in Keys |-> NoSock]
    /\ sock = [k \in Socks |-> Free]
    /\ emit = FALSE /\ own = FALSE /\ orphans = 0 /\ cached = FALSE
    /\ row = [s \in Sids |-> "absent"]
    /\ \E registered \in BOOLEAN :
          IF registered
            THEN \E t \in Tasks :
                    task = [u \in Tasks |-> IF u = t THEN Version(FALSE) ELSE Idle]
            ELSE task = [u \in Tasks |-> Idle]
    /\ requests = 0

-----------------------------------------------------------------------------
HeldBy(T) == {task[t].held : t \in T} \ {NoSock}

(* The sockets somebody still refers to once the key x refers to none,     *)
(* with the flows T suspended.                                             *)
ReferredTo(x, T) == HeldBy(T) \cup {sockets[y] : y \in Keys \ {x}}

(* Mutant of EndedFor: the ended socket keeps its listeners.               *)
EndedStaysBound(k, x, T) ==
    [sock[k] EXCEPT !.conn = IF k \in ReferredTo(x, T) THEN "dead" ELSE "none"]

(* The socket k ended, its listeners gone.                                 *)
EndedFor(k, x, T) == IF k \in ReferredTo(x, T) THEN [sock[k] EXCEPT !.conn = "dead"] ELSE Free
Ended(k) == EndedFor(k, Pending, Tasks)

(* endSocketSession: the socket in the map is silenced, ended and removed; *)
(* on the pending key the timeout its entry refers to is cancelled.        *)
EndSocketSession(x) ==
    /\ sock' = [k \in Socks |-> IF k = sockets[x] THEN EndedFor(k, x, Tasks) ELSE sock[k]]
    /\ sockets' = [sockets EXCEPT ![x] = NoSock]
    /\ own' = (x # Pending /\ own)
    /\ emit' = (x # Pending /\ emit)
    /\ UNCHANGED orphans

ActiveRows == {s \in Sids : row[s] = "active"}

-----------------------------------------------------------------------------
(* requestNewQrCode.                                                       *)

QrRequest(t) ==
    /\ requests < MaxRequests
    /\ task[t] = Idle
    /\ EndSocketSession(Pending)
    /\ task' = [task EXCEPT ![t].pc = "listing"]
    /\ requests' = requests + 1
    /\ UNCHANGED <<cached, row>>

(* The next session of the loop is ended and its update awaited; after the *)
(* last one the pairing starts.                                            *)
Deactivate(t, left) ==
    \/ /\ left = {}
       /\ EndSocketSession(Pending)
       /\ task' = [task EXCEPT ![t] = Version(TRUE)]
    \/ \E s \in left :
          /\ EndSocketSession(s)
          /\ task' = [task EXCEPT ![t] = [Idle EXCEPT !.pc = "updating", !.left = left \ {s}, !.sid = s]]

ListsActive(t) ==
    /\ task[t].pc = "listing"
    /\ Deactivate(t, ActiveRows)
    /\ UNCHANGED <<cached, row, requests>>

SavesInactive(t) ==
    /\ task[t].pc = "updating"
    /\ row' = [row EXCEPT ![task[t].sid] = "inactive"]
    /\ Deactivate(t, task[t].left)
    /\ UNCHANGED <<cached, requests>>

-----------------------------------------------------------------------------
(* startPendingQrConnection after the version lookup.                      *)

(* Mutant of BindPending: no timeout is armed for the window.              *)
BindPendingUntimed(t, k) ==
    /\ task[t].pc \in {"version", "restarting"}
    /\ sock[k] = Free
    /\ sock' = [sock EXCEPT ![k] = [key |-> Pending, conn |-> "connecting", auth |-> task[t].auth]]
    /\ sockets' = [sockets EXCEPT ![Pending] = k]
    /\ emit' = task[t].emit
    /\ own' = FALSE
    /\ UNCHANGED orphans
    /\ task' = [task EXCEPT ![t] = Idle]
    /\ UNCHANGED <<cached, row, requests>>

(* The socket and its entry replace whatever is in the maps: the socket of *)
(* an overlapping start stays connected and bound to the key, the timeout  *)
(* of its entry stays armed.                                               *)
BindPending(t, k) ==
    /\ task[t].pc \in {"version", "restarting"}
    /\ sock[k] = Free
    /\ sock' = [sock EXCEPT ![k] = [key |-> Pending, conn |-> "connecting", auth |-> task[t].auth]]
    /\ sockets' = [sockets EXCEPT ![Pending] = k]
    /\ emit' = task[t].emit
    /\ own' = task[t].emit
    /\ orphans' = IF own THEN orphans + 1 ELSE orphans
    /\ orphans' <= MaxOrphans
    /\ task' = [task EXCEPT ![t] = Idle]
    /\ UNCHANGED <<cached, row, requests>>

(* makeWASocket throws.  A restart's error reaches the handler of the      *)
(* event that caused it, which disposes what the key holds by now.         *)
BindFails(t) ==
    /\ \/ task[t].pc = "version" /\ UNCHANGED <<sockets, sock, entry>>
       \/ task[t].pc = "restarting" /\ EndSocketSession(Pending)
    /\ task' = [task EXCEPT ![t] = Idle]
    /\ UNCHANGED <<cached, row, requests>>

-----------------------------------------------------------------------------
(* connection.update of a socket whose listeners carry the pending key.    *)

Reports(k) == sock[k].key = Pending /\ sock[k].conn \in {"connecting", "open"}

(* Mutant of QrEvent: the flag of the entry is not looked at.              *)
QrEventAlways(k) ==
    /\ Reports(k)
    /\ sock[k].conn = "connecting"
    /\ sock[k].auth \in {"none", "shown"}
    /\ sockets[Pending] # NoSock
    /\ cached' = TRUE
    /\ sock' = [sock EXCEPT ![k].auth = "shown"]
    /\ UNCHANGED <<sockets, entry, row, task, requests>>

(* A QR code is broadcast and cached if the entry in the map says so.      *)
QrEvent(k) ==
    /\ Reports(k)
    /\ sock[k].conn = "connecting"
    /\ sock[k].auth \in {"none", "shown"}
    /\ sockets[Pending] # NoSock
    /\ emit
    /\ cached' = TRUE
    /\ sock' = [sock EXCEPT ![k].auth = "shown"]
    /\ UNCHANGED <<sockets, entry, row, task, requests>>

(* A user scans the code of k; the phone accepts the pairing, and WhatsApp *)
(* will close the socket with 515 for it to come back registered.          *)
Scan(k) ==
    /\ Reports(k)
    /\ sock[k].auth = "shown"
    /\ sock' = [sock EXCEPT ![k].auth = "scanned"]
    /\ UNCHANGED <<sockets, entry, cached, row, task, requests>>

(* Mutant of Restarted: the restarted pairing always broadcasts.           *)
RestartedEmits(k) == [Idle EXCEPT !.pc = "restarting", !.emit = TRUE, !.auth = sock[k].auth]

(* The new pairing takes over the flag and the credentials of socket k.    *)
Restarted(k) == [Idle EXCEPT !.pc = "restarting", !.emit = emit,
                      !.auth = IF sock[k].auth \in {"scanned", "registered"} THEN "registered" ELSE "none"]

(* Error 515: the socket in the map - k or another - is replaced by one    *)
(* with its credentials.  The timeout of its entry is not cancelled.  k    *)
(* has closed; if it is not the one replaced nobody ends it.               *)
RestartEvent(k, t) ==
    /\ Reports(k)
    /\ task[t] = Idle
    /\ sock' = [j \in Socks |-> IF j \in {k, sockets[Pending]} THEN Ended(j) ELSE sock[j]]
    /\ sockets' = [sockets EXCEPT ![Pending] = NoSock]
    /\ emit' = FALSE
    /\ own' = FALSE
    /\ orphans' = IF own THEN orphans + 1 ELSE orphans
    /\ orphans' <= MaxOrphans
    /\ IF sockets[Pending] = NoSock
         THEN UNCHANGED task
         ELSE task' = [task EXCEPT ![t] = Restarted(sockets[Pending])]
    /\ UNCHANGED <<cached, row, requests>>

(* Any other close: the socket in the map is disposed, k or another.       *)
CloseEvent(k) ==
    /\ Reports(k)
    /\ sock' = [j \in Socks |-> IF j \in {k, sockets[Pending]} THEN Ended(j) ELSE sock[j]]
    /\ sockets' = [sockets EXCEPT ![Pending] = NoSock]
    /\ emit' = FALSE
    /\ own' = FALSE
    /\ UNCHANGED <<orphans, cached, row, task, requests>>

(* The paired socket connects.  The promotion reads the socket and the     *)
(* entry of the key, cancels the timeout and awaits repository.create.     *)
OpenEvent(k, t) ==
    /\ Reports(k)
    /\ sock[k].conn = "connecting"
    /\ sock[k].auth = "registered"
    /\ task[t] = Idle
    /\ sock' = [sock EXCEPT ![k].conn = "open"]
    /\ cached' = FALSE
    /\ own' = FALSE
    /\ task' = IF sockets[Pending] = NoSock THEN task
               ELSE [task EXCEPT ![t] = [Idle EXCEPT !.pc = "creating", !.held = sockets[Pending]]]
    /\ UNCHANGED <<sockets, emit, orphans, row, requests>>

(* The row exists: the entry of the pending key is removed, whatever it is *)
(* by now, and the socket read before the await becomes the session's.     *)
Promote(t, s) ==
    LET k == task[t].held IN
    /\ task[t].pc = "creating"
    /\ row[s] = "absent"
    /\ row' = [row EXCEPT ![s] = "active"]
    /\ sockets' = [sockets EXCEPT ![Pending] = NoSock, ![s] = k]
    /\ sock' = [sock EXCEPT ![k].key = s]
    /\ emit' = FALSE /\ own' = FALSE
    /\ orphans' = IF own THEN orphans + 1 ELSE orphans
    /\ orphans' <= MaxOrphans
    /\ task' = [task EXCEPT ![t] = Idle]
    /\ UNCHANGED <<cached, requests>>

(* Mutant of CreateFails: the entry of the pending key stays.              *)
CreateFailsKeepsEntry(t) ==
    /\ task[t].pc = "creating"
    /\ task' = [task EXCEPT ![t] = Idle]
    /\ UNCHANGED <<sockets, sock, entry, cached, row, requests>>

(* repository.create fails: the catch of the handler disposes the key.     *)
CreateFails(t) ==
    LET k == task[t].held IN
    /\ task[t].pc = "creating"
    /\ sockets' = [sockets EXCEPT ![Pending] = NoSock]
    /\ sock' = [j \in Socks |->
                  IF j = sockets[Pending] \/ (j = k /\ sock[k].conn = "dead")
                  THEN EndedFor(j, Pending, Tasks \ {t}) ELSE sock[j]]
    /\ emit' = FALSE /\ own' = FALSE
    /\ task' = [task EXCEPT ![t] = Idle]
    /\ UNCHANGED <<orphans, cached, row, requests>>

-----------------------------------------------------------------------------
(* handleQrEmissionExpiry.  The entry in the map loses its reference to    *)
(* its own timeout, whichever timeout fired.                               *)
ExpiryFires(stale) ==
    /\ IF stale THEN orphans > 0 ELSE own
    /\ IF sockets[Pending] = NoSock
         THEN /\ orphans' = orphans - 1
              /\ UNCHANGED <<sockets, sock, emit, own, cached>>
         ELSE /\ cached' = FALSE
              /\ sock' = [k \in Socks |-> IF k = sockets[Pending] THEN Ended(k) ELSE sock[k]]
              /\ sockets' = [sockets EXCEPT ![Pending] = NoSock]
              /\ emit' = FALSE
              /\ own' = FALSE
              /\ orphans' = IF stale /\ ~own THEN orphans - 1 ELSE orphans
    /\ UNCHANGED <<row, task, requests>>

(* replayPendingQrToSocket drops a code whose deadline has passed.         *)
CacheExpires ==
    /\ cached /\ cached' = FALSE
    /\ UNCHANGED <<sockets, sock, entry, row, task, requests>>

Next ==
    \/ \E t \in Tasks :
          \/ QrRequest(t) \/ ListsActive(t) \/ SavesInactive(t)
          \/ BindFails(t) \/ CreateFails(t)
          \/ \E k \in Socks : BindPending(t, k) \/ RestartEvent(k, t) \/ OpenEvent(k, t)
          \/ \E s \in Sids : Promote(t, s)
    \/ \E k \in Socks : QrEvent(k) \/ Scan(k) \/ CloseEvent(k)
    \/ \E stale \in BOOLEAN : ExpiryFires(stale)
    \/ CacheExpires

Spec == Init /\ [][Next]_vars

(* Expiry timeouts fire and Mongo answers the promotion.                   *)
Fairness ==
    /\ WF_vars(\E stale \in BOOLEAN : ExpiryFires(stale))
    /\ \A t \in Tasks : WF_vars(CreateFails(t) \/ \E s \in Sids : Promote(t, s))

FairSpec == Spec /\ Fairness

-----------------------------------------------------------------------------
(* A pairing a user asked for cannot stay open: while its entry is in the  *)
(* map its own timeout is armed, unless the promotion has taken over - or  *)
(* some other promotion that will remove the entry.                        *)
WindowHasTimer ==
    sockets[Pending] # NoSock /\ emit => own \/ \E t \in Tasks : task[t].pc = "creating"

(* spec-driven/new-connection-explicit-request.md: a pairing nobody asked  *)
(* for stays silent, through any number of restarts.                       *)
SilentUntilAsked == requests = 0 => ~cached /\ \A k \in Socks : sock[k].auth = "none"

(* A pairing a user asked for ends: promoted, closed or timed out.         *)
PairingEnds == (sockets[Pending] # NoSock /\ emit) ~> sockets[Pending] = NoSock

(* The window of PairingWindow is the entry under the pending key, its     *)
(* code the cache.                                                         *)
Window == INSTANCE PairingWindow WITH
    window  <- IF sockets[Pending] = NoSock THEN "none" ELSE IF emit THEN "asked" ELSE "silent",
    offered <- cached

(* baileys.service.ts, through its overlapping requests, restarts,         *)
(* promotions and stale timeouts, keeps the promise the connect page is    *)
(* built on: a code is offered in a window that was asked for and in no    *)
(* other, and such a window ends.                                          *)
PairingKeepsItsPromise == Window!WindowSpec

-----------------------------------------------------------------------------
(* What the documentation promises and the code does not keep.             *)

(* baileys.service.ts:341: QR codes are emitted for QR_EMIT_WINDOW_MS: the *)
(* timeout that ends a pairing is the one armed for it.                    *)
OwnWindowEndsPairing == [][ExpiryFires(TRUE) => sockets[Pending] = NoSock]_vars
=============================================================================
