-------------------------- MODULE QrPairingProofs --------------------------
(***************************************************************************)
(* Theorems about QrPairing, for every value of its constants: its types,  *)
(* the two invariants of the pairing window, and that each of its steps is *)
(* a step of PairingWindow.                                                *)
(*                                                                         *)
(* Sockets outlive the map entries that point to them, so the types rest   *)
(* on who still refers to a socket: a slot is given back only when no key  *)
(* (MapHoldsBound) and no suspended promotion (HeldIsBound) does.          *)
(***************************************************************************)
EXTENDS QrPairing, TLAPS

-----------------------------------------------------------------------------
(* The inductive invariant of the maps.                                    *)

\* No key leads to a slot that was given back.
MapHoldsBound == \A x \in Keys : sockets[x] # NoSock => sock[sockets[x]] # Free

\* Nor does a promotion that is suspended.
HeldIsBound ==
    \A t \in Tasks :
        /\ task[t].pc = "creating" => task[t].held # NoSock
        /\ task[t].held # NoSock => sock[task[t].held] # Free

(* The runtime entry that refers to a timeout has a socket.                *)
TimerHasSocket == own => sockets[Pending] # NoSock

\* The inductive invariant.
PairingInv == TypeOK /\ MapHoldsBound /\ HeldIsBound /\ TimerHasSocket

Flows == [pc : {"idle", "listing", "updating", "version", "restarting", "creating"},
          emit : BOOLEAN, auth : Auths, left : SUBSET Sids,
          sid : Sids \cup {NoKey}, held : Socks \cup {NoSock}]

LEMMA KeysAreApart ==
    /\ Pending \in Keys /\ Sids \subseteq Keys /\ Pending \notin Sids
    /\ NoKey \notin Keys /\ NoSock \notin Socks
  BY QrConstantsOK DEF QrConstantsOK, Keys

LEMMA FlowsAreFlows ==
    /\ Idle \in Flows
    /\ \A e \in BOOLEAN : Version(e) \in Flows
    /\ \A e \in BOOLEAN : Version(e).pc = "version" /\ Version(e).held = NoSock
    /\ \A e \in BOOLEAN : Version(e).emit = e /\ Version(e).auth = "none"
    /\ Idle.pc = "idle" /\ Idle.held = NoSock /\ Idle.emit = FALSE /\ Idle.auth = "none"
  BY DEF Idle, Version, Flows, Auths

LEMMA BoundIsARecord ==
    ASSUME NEW k \in SockStates, k # Free
    PROVE  k \in [key : Keys, conn : {"connecting", "open", "dead"}, auth : Auths]
  BY DEF SockStates

LEMMA BoundIsNotFree ==
    ASSUME NEW k \in [key : Keys, conn : {"connecting", "open", "dead"}, auth : Auths]
    PROVE  k \in SockStates /\ k # Free
  BY KeysAreApart DEF SockStates, Free

(* A socket that ends stays bound while somebody refers to it.             *)
LEMMA EndedIsBound ==
    ASSUME PairingInv, NEW k \in Socks, sock[k] # Free, NEW x, NEW T
    PROVE  /\ EndedFor(k, x, T) \in SockStates
           /\ k \in ReferredTo(x, T) => EndedFor(k, x, T) # Free
  <1>1. sock[k] \in [key : Keys, conn : {"connecting", "open", "dead"}, auth : Auths]
    BY BoundIsARecord DEF PairingInv, TypeOK
  <1>2. [sock[k] EXCEPT !.conn = "dead"] \in
            [key : Keys, conn : {"connecting", "open", "dead"}, auth : Auths]
    BY <1>1
  <1>3. [sock[k] EXCEPT !.conn = "dead"] \in SockStates /\ [sock[k] EXCEPT !.conn = "dead"] # Free
    BY <1>2, BoundIsNotFree
  <1>4. Free \in SockStates
    BY DEF SockStates
  <1> QED BY <1>3, <1>4 DEF EndedFor

(* The sockets of a set end, and the key x loses the one it holds; the     *)
(* flows outside T hold none from then on.                                 *)
LEMMA SocketsEnd ==
    ASSUME PairingInv, NEW x \in Keys, NEW T \in SUBSET Tasks, NEW D,
           \A k \in D \cap Socks : sock[k] # Free,
           sock' = [k \in Socks |-> IF k \in D THEN EndedFor(k, x, T) ELSE sock[k]],
           sockets' = [sockets EXCEPT ![x] = NoSock],
           \A t \in Tasks : /\ task'[t].held \in {NoSock, task[t].held}
                            /\ t \notin T => task'[t].held = NoSock
    PROVE  /\ sock' \in [Socks -> SockStates]
           /\ sockets' \in [Keys -> Socks \cup {NoSock}]
           /\ MapHoldsBound'
           /\ \A t \in Tasks : task'[t].held # NoSock => sock'[task'[t].held] # Free
  <1>1. sock \in [Socks -> SockStates] /\ sockets \in [Keys -> Socks \cup {NoSock}]
    BY DEF PairingInv, TypeOK
  <1>2. sock' \in [Socks -> SockStates]
    BY <1>1, EndedIsBound
  <1>3. sockets' \in [Keys -> Socks \cup {NoSock}]
    BY <1>1
  <1>4. ASSUME NEW k \in Socks, k \in ReferredTo(x, T), sock[k] # Free
        PROVE  sock'[k] # Free
    BY <1>4, EndedIsBound
  <1>5. MapHoldsBound'
    <2>1. SUFFICES ASSUME NEW y \in Keys, sockets'[y] # NoSock
                   PROVE  sock'[sockets'[y]] # Free
      BY DEF MapHoldsBound, Keys
    <2>2. y # x /\ sockets'[y] = sockets[y] /\ sockets[y] \in Socks
      BY <1>1, <2>1
    <2>3. sockets[y] \in ReferredTo(x, T)
      BY <2>2 DEF ReferredTo
    <2>4. sock[sockets[y]] # Free
      BY <2>1, <2>2 DEF PairingInv, MapHoldsBound
    <2> QED BY <1>4, <2>2, <2>3, <2>4
  <1>6. ASSUME NEW t \in Tasks, task'[t].held # NoSock
        PROVE  sock'[task'[t].held] # Free
    <2>1. t \in T /\ task'[t].held = task[t].held
      BY <1>6
    <2>2. task[t].held \in Socks
      BY <1>6, <2>1 DEF PairingInv, TypeOK
    <2>3. task[t].held \in ReferredTo(x, T)
      BY <1>6, <2>1 DEF ReferredTo, HeldBy
    <2>4. sock[task[t].held] # Free
      BY <1>6, <2>1 DEF PairingInv, HeldIsBound
    <2> QED BY <1>4, <2>1, <2>2, <2>3, <2>4
  <1> QED BY <1>2, <1>3, <1>5, <1>6

(* A flow goes on without a socket.                                        *)
LEMMA FlowMoves ==
    ASSUME PairingInv, NEW t \in Tasks, NEW f \in Flows, f.held = NoSock, f.pc # "creating",
           task' = [task EXCEPT ![t] = f]
    PROVE  /\ task' \in [Tasks -> Flows]
           /\ \A u \in Tasks : /\ task'[u].held \in {NoSock, task[u].held}
                               /\ task'[u].pc = "creating" => task'[u].held # NoSock
           /\ task'[t].held = NoSock
  <1>1. task \in [Tasks -> Flows]
    BY DEF PairingInv, TypeOK, Flows
  <1>2. \A u \in Tasks : task'[u] = IF u = t THEN f ELSE task[u]
    BY <1>1
  <1> QED BY <1>1, <1>2 DEF PairingInv, HeldIsBound

(* One key loses its socket, which ends, and the flows go on.              *)
LEMMA EndsAndMoves ==
    ASSUME PairingInv, NEW x \in Keys, NEW T \in SUBSET Tasks, NEW D,
           \A k \in D \cap Socks : sock[k] # Free,
           sock' = [k \in Socks |-> IF k \in D THEN EndedFor(k, x, T) ELSE sock[k]],
           sockets' = [sockets EXCEPT ![x] = NoSock],
           task' \in [Tasks -> Flows],
           \A u \in Tasks : /\ task'[u].held \in {NoSock, task[u].held}
                            /\ task'[u].pc = "creating" => task'[u].held # NoSock
                            /\ u \notin T => task'[u].held = NoSock,
           emit' \in BOOLEAN, own' \in BOOLEAN, cached' \in BOOLEAN,
           own' => x # Pending /\ own,
           orphans' \in 0..MaxOrphans,
           row' \in [Sids -> {"absent", "active", "inactive"}],
           requests' \in 0..MaxRequests
    PROVE  PairingInv'
  <1>1. /\ sock' \in [Socks -> SockStates]
        /\ sockets' \in [Keys -> Socks \cup {NoSock}]
        /\ MapHoldsBound'
        /\ \A u \in Tasks : task'[u].held # NoSock => sock'[task'[u].held] # Free
    BY SocketsEnd
  <1>2. TypeOK'
    BY <1>1 DEF TypeOK, Flows
  <1>3. HeldIsBound'
    BY <1>1 DEF HeldIsBound
  <1>4. TimerHasSocket'
    <2>1. own' => sockets'[Pending] = sockets[Pending]
      BY KeysAreApart DEF PairingInv, TypeOK
    <2> QED BY <2>1 DEF PairingInv, TimerHasSocket
  <1> QED BY <1>1, <1>2, <1>3, <1>4 DEF PairingInv

LEMMA EndSocketSessionKeepsInv ==
    ASSUME PairingInv, NEW x \in Keys, NEW t \in Tasks, NEW f \in Flows,
           f.held = NoSock, f.pc # "creating", EndSocketSession(x),
           task' = [task EXCEPT ![t] = f], UNCHANGED cached,
           row' \in [Sids -> {"absent", "active", "inactive"}],
           requests' \in 0..MaxRequests
    PROVE  PairingInv'
  <1>1. sock' = [k \in Socks |-> IF k \in {sockets[x]} THEN EndedFor(k, x, Tasks) ELSE sock[k]]
    BY DEF EndSocketSession
  <1>2. \A k \in {sockets[x]} \cap Socks : sock[k] # Free
    BY QrConstantsOK DEF PairingInv, MapHoldsBound, QrConstantsOK
  <1>3. emit' \in BOOLEAN /\ own' \in BOOLEAN /\ cached' \in BOOLEAN /\ orphans' \in 0..MaxOrphans
    BY DEF EndSocketSession, PairingInv, TypeOK
  <1>4. sockets' = [sockets EXCEPT ![x] = NoSock] /\ (own' => x # Pending /\ own)
    BY DEF EndSocketSession
  <1>5. /\ task' \in [Tasks -> Flows]
        /\ \A u \in Tasks : /\ task'[u].held \in {NoSock, task[u].held}
                            /\ task'[u].pc = "creating" => task'[u].held # NoSock
    BY FlowMoves
  <1> QED BY <1>1, <1>2, <1>3, <1>4, <1>5, EndsAndMoves

LEMMA InitPairing == Init => PairingInv
  <1> SUFFICES ASSUME Init PROVE PairingInv
    OBVIOUS
  <1>1. task \in [Tasks -> Flows] /\ \A t \in Tasks : task[t].held = NoSock /\ task[t].pc # "creating"
    <2>1. CASE task = [u \in Tasks |-> Idle]
      BY <2>1, FlowsAreFlows
    <2>2. CASE \E t \in Tasks : task = [u \in Tasks |-> IF u = t THEN Version(FALSE) ELSE Idle]
      BY <2>2, FlowsAreFlows
    <2> QED BY <2>1, <2>2 DEF Init
  <1>2. 0 \in 0..MaxOrphans /\ 0 \in 0..MaxRequests
    BY QrConstantsOK DEF QrConstantsOK
  <1>3. sock \in [Socks -> SockStates] /\ sockets \in [Keys -> Socks \cup {NoSock}]
    BY DEF Init, SockStates
  <1>4. TypeOK
    BY <1>1, <1>2, <1>3 DEF Init, TypeOK, Flows
  <1> QED BY <1>1, <1>4 DEF Init, PairingInv, MapHoldsBound, HeldIsBound, TimerHasSocket

LEMMA QrRequestKeepsInv ==
    ASSUME PairingInv, NEW t \in Tasks, QrRequest(t)
    PROVE  PairingInv'
  <1>1. task' = [task EXCEPT ![t] = [Idle EXCEPT !.pc = "listing"]]
    BY DEF QrRequest, PairingInv, TypeOK
  <1>2. [Idle EXCEPT !.pc = "listing"] \in Flows
    BY DEF Idle, Flows, Auths
  <1>3. [Idle EXCEPT !.pc = "listing"].held = NoSock /\ [Idle EXCEPT !.pc = "listing"].pc # "creating"
    BY DEF Idle
  <1>4. requests' \in 0..MaxRequests /\ row' \in [Sids -> {"absent", "active", "inactive"}]
    BY QrConstantsOK DEF QrConstantsOK, QrRequest, PairingInv, TypeOK
  <1>5. EndSocketSession(Pending) /\ UNCHANGED cached
    BY DEF QrRequest
  <1> QED BY <1>1, <1>2, <1>3, <1>4, <1>5, KeysAreApart, EndSocketSessionKeepsInv

LEMMA DeactivateKeepsInv ==
    ASSUME PairingInv, NEW t \in Tasks, NEW left \in SUBSET Sids, Deactivate(t, left),
           UNCHANGED <<cached, requests>>,
           row' \in [Sids -> {"absent", "active", "inactive"}]
    PROVE  PairingInv'
  <1>1. requests' \in 0..MaxRequests
    BY DEF PairingInv, TypeOK
  <1>2. CASE EndSocketSession(Pending) /\ task' = [task EXCEPT ![t] = Version(TRUE)]
    BY <1>1, <1>2, KeysAreApart, FlowsAreFlows, EndSocketSessionKeepsInv
  <1>3. ASSUME NEW s \in left, EndSocketSession(s),
               task' = [task EXCEPT ![t] = [Idle EXCEPT !.pc = "updating", !.left = left \ {s}, !.sid = s]]
        PROVE  PairingInv'
    <2>1. [Idle EXCEPT !.pc = "updating", !.left = left \ {s}, !.sid = s] \in Flows
      BY DEF Idle, Flows, Auths
    <2>2. /\ [Idle EXCEPT !.pc = "updating", !.left = left \ {s}, !.sid = s].held = NoSock
          /\ [Idle EXCEPT !.pc = "updating", !.left = left \ {s}, !.sid = s].pc # "creating"
      BY DEF Idle
    <2>3. s \in Keys
      BY KeysAreApart
    <2> QED BY <1>1, <1>3, <2>1, <2>2, <2>3, EndSocketSessionKeepsInv
  <1> QED BY <1>2, <1>3 DEF Deactivate

LEMMA ListKeepsInv ==
    ASSUME PairingInv, NEW t \in Tasks, ListsActive(t) \/ SavesInactive(t)
    PROVE  PairingInv'
  <1>1. CASE ListsActive(t)
    <2>1. ActiveRows \in SUBSET Sids
      BY DEF ActiveRows
    <2>2. row' \in [Sids -> {"absent", "active", "inactive"}]
      BY <1>1 DEF ListsActive, PairingInv, TypeOK
    <2> QED BY <1>1, <2>1, <2>2, DeactivateKeepsInv DEF ListsActive
  <1>2. CASE SavesInactive(t)
    <2>1. task[t].left \in SUBSET Sids
      BY DEF PairingInv, TypeOK
    <2>2. row' \in [Sids -> {"absent", "active", "inactive"}]
      BY <1>2 DEF SavesInactive, PairingInv, TypeOK
    <2> QED BY <1>2, <2>1, <2>2, DeactivateKeepsInv DEF SavesInactive
  <1> QED BY <1>1, <1>2

LEMMA BindPendingKeepsInv ==
    ASSUME PairingInv, NEW t \in Tasks, NEW k \in Socks, BindPending(t, k)
    PROVE  PairingInv'
  <1> DEFINE new == [key |-> Pending, conn |-> "connecting", auth |-> task[t].auth]
  <1>1. task[t].auth \in Auths /\ task[t].emit \in BOOLEAN
    BY DEF PairingInv, TypeOK
  <1>2. new \in SockStates /\ new # Free
    BY <1>1, KeysAreApart, BoundIsNotFree
  <1>3. sock' = [sock EXCEPT ![k] = new] /\ sockets' = [sockets EXCEPT ![Pending] = k]
    BY DEF BindPending
  <1> HIDE DEF new
  <1>4. sock' \in [Socks -> SockStates] /\ sockets' \in [Keys -> Socks \cup {NoSock}]
    BY <1>2, <1>3 DEF PairingInv, TypeOK
  <1>5. \A j \in Socks : sock[j] # Free => sock'[j] # Free
    BY <1>2, <1>3 DEF PairingInv, TypeOK
  <1>6. sock'[k] # Free
    BY <1>2, <1>3 DEF PairingInv, TypeOK
  <1>7. task' = [task EXCEPT ![t] = Idle]
    BY DEF BindPending
  <1>8. /\ task' \in [Tasks -> Flows]
        /\ \A u \in Tasks : /\ task'[u].held \in {NoSock, task[u].held}
                            /\ task'[u].pc = "creating" => task'[u].held # NoSock
    BY <1>7, FlowsAreFlows, FlowMoves
  <1>9. TypeOK'
    <2>1. orphans' \in 0..MaxOrphans
      BY QrConstantsOK DEF QrConstantsOK, BindPending, PairingInv, TypeOK
    <2>2. /\ emit' \in BOOLEAN /\ own' \in BOOLEAN /\ cached' \in BOOLEAN
          /\ row' \in [Sids -> {"absent", "active", "inactive"}] /\ requests' \in 0..MaxRequests
      BY <1>1 DEF BindPending, PairingInv, TypeOK
    <2> QED BY <1>4, <1>8, <2>1, <2>2 DEF TypeOK, Flows
  <1>10. MapHoldsBound'
    <2>1. SUFFICES ASSUME NEW x \in Keys, sockets'[x] # NoSock
                   PROVE  sock'[sockets'[x]] # Free
      BY DEF MapHoldsBound, Keys
    <2>2. CASE x = Pending
      BY <1>3, <1>6, <2>2 DEF PairingInv, TypeOK
    <2>3. CASE x # Pending
      <3>1. sockets'[x] = sockets[x] /\ sockets[x] \in Socks
        BY <1>3, <1>4, <2>1, <2>3 DEF PairingInv, TypeOK
      <3> QED BY <1>5, <2>1, <3>1 DEF PairingInv, MapHoldsBound
    <2> QED BY <2>2, <2>3
  <1>11. HeldIsBound'
    <2>1. SUFFICES ASSUME NEW u \in Tasks, task'[u].held # NoSock
                   PROVE  sock'[task'[u].held] # Free
      BY <1>8 DEF HeldIsBound
    <2>2. task'[u].held = task[u].held /\ task[u].held \in Socks
      BY <1>8, <2>1 DEF PairingInv, TypeOK
    <2> QED BY <1>5, <2>1, <2>2 DEF PairingInv, HeldIsBound
  <1>12. TimerHasSocket'
    BY <1>3, KeysAreApart DEF PairingInv, TypeOK, TimerHasSocket
  <1> QED BY <1>9, <1>10, <1>11, <1>12 DEF PairingInv

LEMMA BindFailsKeepsInv ==
    ASSUME PairingInv, NEW t \in Tasks, BindFails(t)
    PROVE  PairingInv'
  <1>1. /\ task' = [task EXCEPT ![t] = Idle] /\ UNCHANGED <<cached, row, requests>>
        /\ row' \in [Sids -> {"absent", "active", "inactive"}] /\ requests' \in 0..MaxRequests
    BY DEF BindFails, PairingInv, TypeOK
  <1>2. CASE EndSocketSession(Pending)
    BY <1>1, <1>2, KeysAreApart, FlowsAreFlows, EndSocketSessionKeepsInv
  <1>3. CASE UNCHANGED <<sockets, sock, entry>>
    <2>1. /\ task' \in [Tasks -> Flows]
          /\ \A u \in Tasks : /\ task'[u].held \in {NoSock, task[u].held}
                              /\ task'[u].pc = "creating" => task'[u].held # NoSock
      BY <1>1, FlowsAreFlows, FlowMoves
    <2>2. TypeOK'
      BY <1>1, <1>3, <2>1 DEF entry, PairingInv, TypeOK, Flows
    <2>3. MapHoldsBound' /\ HeldIsBound' /\ TimerHasSocket'
      BY <1>3, <2>1 DEF entry, PairingInv, MapHoldsBound, HeldIsBound, TimerHasSocket
    <2> QED BY <2>2, <2>3 DEF PairingInv
  <1> QED BY <1>2, <1>3 DEF BindFails

(* What happens to one socket while it stays bound.                        *)
LEMMA SocketMoves ==
    ASSUME PairingInv, NEW k \in Socks, sock[k] # Free,
           NEW c \in {"connecting", "open", "dead"}, NEW a \in Auths, NEW x \in Keys,
           sock' = [sock EXCEPT ![k] = [key |-> x, conn |-> c, auth |-> a]]
    PROVE  /\ sock' \in [Socks -> SockStates]
           /\ \A j \in Socks : sock[j] # Free => sock'[j] # Free
  <1>1. [key |-> x, conn |-> c, auth |-> a] \in SockStates /\ [key |-> x, conn |-> c, auth |-> a] # Free
    BY BoundIsNotFree
  <1> QED BY <1>1 DEF PairingInv, TypeOK

LEMMA ReportsIsBound ==
    ASSUME PairingInv, NEW k \in Socks, Reports(k)
    PROVE  /\ sock[k] # Free /\ sock[k].auth \in Auths
           /\ sock[k] = [key |-> Pending, conn |-> sock[k].conn, auth |-> sock[k].auth]
  <1>1. sock[k] # Free
    BY KeysAreApart DEF Reports, Free
  <1>2. sock[k] \in [key : Keys, conn : {"connecting", "open", "dead"}, auth : Auths]
    BY <1>1, BoundIsARecord DEF PairingInv, TypeOK
  <1> QED BY <1>1, <1>2 DEF Reports

LEMMA BoundStays ==
    ASSUME PairingInv, UNCHANGED sockets,
           sock' \in [Socks -> SockStates],
           \A j \in Socks : sock[j] # Free => sock'[j] # Free,
           task' \in [Tasks -> Flows],
           \A u \in Tasks : \/ task'[u] = task[u]
                            \/ task'[u].held # NoSock /\ task'[u].held = sockets[Pending],
           emit' \in BOOLEAN, own' \in BOOLEAN, cached' \in BOOLEAN, own' => own,
           orphans' \in 0..MaxOrphans,
           row' \in [Sids -> {"absent", "active", "inactive"}],
           requests' \in 0..MaxRequests
    PROVE  PairingInv'
  <1>1. TypeOK' /\ TimerHasSocket'
    BY DEF PairingInv, TypeOK, Flows, TimerHasSocket
  <1>2. MapHoldsBound'
    BY DEF PairingInv, TypeOK, MapHoldsBound
  <1>3. HeldIsBound'
    <2>1. SUFFICES ASSUME NEW u \in Tasks
                   PROVE  /\ task'[u].pc = "creating" => task'[u].held # NoSock
                          /\ task'[u].held # NoSock => sock'[task'[u].held] # Free
      BY DEF HeldIsBound
    <2>2. CASE task'[u] = task[u]
      BY <2>2 DEF PairingInv, TypeOK, HeldIsBound
    <2>3. CASE task'[u].held # NoSock /\ task'[u].held = sockets[Pending]
      BY <2>3, KeysAreApart DEF PairingInv, TypeOK, MapHoldsBound
    <2> QED BY <2>1, <2>2, <2>3
  <1> QED BY <1>1, <1>2, <1>3 DEF PairingInv

LEMMA ScanKeepsInv ==
    ASSUME PairingInv, NEW k \in Socks, QrEvent(k) \/ Scan(k)
    PROVE  PairingInv'
  <1>1. Reports(k)
    BY DEF QrEvent, Scan
  <1>2. PICK a \in {"shown", "scanned"} : sock' = [sock EXCEPT ![k].auth = a]
    BY DEF QrEvent, Scan
  <1>3. /\ sock[k].conn \in {"connecting", "open", "dead"} /\ a \in Auths
        /\ sock' = [sock EXCEPT ![k] = [key |-> Pending, conn |-> sock[k].conn, auth |-> a]]
    <2>1. sock[k] = [key |-> Pending, conn |-> sock[k].conn, auth |-> sock[k].auth]
      BY <1>1, ReportsIsBound
    <2>2. [sock[k] EXCEPT !.auth = a] = [key |-> Pending, conn |-> sock[k].conn, auth |-> a]
      BY <2>1
    <2> QED BY <1>1, <1>2, <2>2 DEF Reports, Auths
  <1>4. /\ sock' \in [Socks -> SockStates]
        /\ \A j \in Socks : sock[j] # Free => sock'[j] # Free
    BY <1>1, <1>3, KeysAreApart, ReportsIsBound, SocketMoves
  <1>5. UNCHANGED <<sockets, entry, row, task, requests>> /\ cached' \in {cached, TRUE}
    BY DEF QrEvent, Scan
  <1>6. UNCHANGED sockets /\ task' \in [Tasks -> Flows] /\ \A u \in Tasks : task'[u] = task[u]
    BY <1>5 DEF PairingInv, TypeOK, Flows
  <1>7. /\ emit' \in BOOLEAN /\ own' \in BOOLEAN /\ cached' \in BOOLEAN
        /\ orphans' \in 0..MaxOrphans /\ requests' \in 0..MaxRequests
        /\ row' \in [Sids -> {"absent", "active", "inactive"}] /\ (own' => own)
    BY <1>5 DEF entry, PairingInv, TypeOK
  <1> QED BY <1>4, <1>6, <1>7, BoundStays

LEMMA OpenEventKeepsInv ==
    ASSUME PairingInv, NEW k \in Socks, NEW t \in Tasks, OpenEvent(k, t)
    PROVE  PairingInv'
  <1> DEFINE creating == [Idle EXCEPT !.pc = "creating", !.held = sockets[Pending]]
  <1>1. sock' = [sock EXCEPT ![k] = [key |-> Pending, conn |-> "open", auth |-> sock[k].auth]]
    <2>1. sock[k] = [key |-> Pending, conn |-> sock[k].conn, auth |-> sock[k].auth]
      BY ReportsIsBound DEF OpenEvent
    <2>2. [sock[k] EXCEPT !.conn = "open"] = [key |-> Pending, conn |-> "open", auth |-> sock[k].auth]
      BY <2>1
    <2> QED BY <2>2 DEF OpenEvent
  <1>2. /\ sock' \in [Socks -> SockStates]
        /\ \A j \in Socks : sock[j] # Free => sock'[j] # Free
    <2>1. sock[k] # Free /\ sock[k].auth \in Auths
      BY ReportsIsBound DEF OpenEvent
    <2> QED BY <1>1, <2>1, KeysAreApart, SocketMoves
  <1>3. task' \in [Tasks -> Flows]
        /\ \A u \in Tasks : \/ task'[u] = task[u]
                            \/ task'[u].held # NoSock /\ task'[u].held = sockets[Pending]
    <2>1. CASE sockets[Pending] = NoSock
      BY <2>1 DEF OpenEvent, PairingInv, TypeOK, Flows
    <2>2. CASE sockets[Pending] # NoSock
      <3>1. sockets[Pending] \in Socks
        BY <2>2, KeysAreApart DEF PairingInv, TypeOK
      <3>2. creating \in Flows /\ creating.held = sockets[Pending]
        BY <3>1 DEF Idle, Flows, Auths
      <3>3. task' = [task EXCEPT ![t] = creating]
        BY <2>2 DEF OpenEvent
      <3>4. task \in [Tasks -> Flows]
        BY DEF PairingInv, TypeOK, Flows
      <3> HIDE DEF creating
      <3> QED BY <2>2, <3>2, <3>3, <3>4
    <2> QED BY <2>1, <2>2
  <1>4. /\ emit' \in BOOLEAN /\ own' \in BOOLEAN /\ cached' \in BOOLEAN
        /\ orphans' \in 0..MaxOrphans /\ requests' \in 0..MaxRequests
        /\ row' \in [Sids -> {"absent", "active", "inactive"}]
        /\ UNCHANGED sockets /\ (own' => own)
    BY DEF OpenEvent, PairingInv, TypeOK
  <1> QED BY <1>2, <1>3, <1>4, BoundStays

(* Events that dispose of what the pending key holds, and of the socket    *)
(* that has closed.                                                        *)
LEMMA DisposesKeepsInv ==
    ASSUME PairingInv, NEW D, \A k \in D \cap Socks : k = sockets[Pending] \/ sock[k].key = Pending,
           sock' = [k \in Socks |-> IF k \in D THEN Ended(k) ELSE sock[k]],
           sockets' = [sockets EXCEPT ![Pending] = NoSock],
           emit' = FALSE, own' = FALSE, cached' \in BOOLEAN, orphans' \in 0..MaxOrphans,
           UNCHANGED <<row, requests>>,
           task' \in [Tasks -> Flows],
           \A u \in Tasks : /\ task'[u].held \in {NoSock, task[u].held}
                            /\ task'[u].pc = "creating" => task'[u].held # NoSock
    PROVE  PairingInv'
  <1>1. \A k \in D \cap Socks : sock[k] # Free
    <2>1. SUFFICES ASSUME NEW k \in D \cap Socks PROVE sock[k] # Free
      OBVIOUS
    <2>2. CASE k = sockets[Pending]
      BY <2>2, KeysAreApart DEF PairingInv, TypeOK, MapHoldsBound
    <2>3. CASE sock[k].key = Pending
      BY <2>3, KeysAreApart DEF Free
    <2> QED BY <2>2, <2>3
  <1>2. sock' = [k \in Socks |-> IF k \in D THEN EndedFor(k, Pending, Tasks) ELSE sock[k]]
    BY DEF Ended
  <1>3. /\ row' \in [Sids -> {"absent", "active", "inactive"}] /\ requests' \in 0..MaxRequests
        /\ emit' \in BOOLEAN /\ own' \in BOOLEAN
    BY DEF PairingInv, TypeOK
  <1>4. /\ Tasks \in SUBSET Tasks /\ Pending \in Keys
        /\ own' => Pending # Pending /\ own
        /\ \A u \in Tasks : /\ task'[u].held \in {NoSock, task[u].held}
                            /\ task'[u].pc = "creating" => task'[u].held # NoSock
                            /\ u \notin Tasks => task'[u].held = NoSock
    BY KeysAreApart
  <1> QED BY <1>1, <1>2, <1>3, <1>4, EndsAndMoves

(* No flow moves.                                                          *)
LEMMA FlowsStay ==
    ASSUME PairingInv, UNCHANGED task
    PROVE  /\ task' \in [Tasks -> Flows]
           /\ \A u \in Tasks : /\ task'[u].held \in {NoSock, task[u].held}
                               /\ task'[u].pc = "creating" => task'[u].held # NoSock
  BY DEF PairingInv, TypeOK, Flows, HeldIsBound

LEMMA RestartEventKeepsInv ==
    ASSUME PairingInv, NEW k \in Socks, NEW t \in Tasks, RestartEvent(k, t)
    PROVE  PairingInv'
  <1>1. sock[k].key = Pending
    BY DEF RestartEvent, Reports
  <1>2. orphans' \in 0..MaxOrphans /\ cached' \in BOOLEAN
    BY QrConstantsOK DEF QrConstantsOK, RestartEvent, PairingInv, TypeOK
  <1>3. /\ sock' = [j \in Socks |-> IF j \in {k, sockets[Pending]} THEN Ended(j) ELSE sock[j]]
        /\ sockets' = [sockets EXCEPT ![Pending] = NoSock]
        /\ emit' = FALSE /\ own' = FALSE /\ UNCHANGED <<row, requests>>
    BY DEF RestartEvent
  <1>4. CASE sockets[Pending] = NoSock
    <2>1. UNCHANGED task
      BY <1>4 DEF RestartEvent
    <2> QED BY <1>1, <1>2, <1>3, <2>1, FlowsStay, DisposesKeepsInv
  <1>5. CASE sockets[Pending] # NoSock
    <2>1. task' = [task EXCEPT ![t] = Restarted(sockets[Pending])]
      BY <1>5 DEF RestartEvent
    <2>2. /\ Restarted(sockets[Pending]) \in Flows
          /\ Restarted(sockets[Pending]).held = NoSock /\ Restarted(sockets[Pending]).pc # "creating"
      BY DEF Restarted, Idle, Flows, Auths, PairingInv, TypeOK
    <2>3. /\ task' \in [Tasks -> Flows]
          /\ \A u \in Tasks : /\ task'[u].held \in {NoSock, task[u].held}
                              /\ task'[u].pc = "creating" => task'[u].held # NoSock
      BY <2>1, <2>2, FlowMoves
    <2> QED BY <1>1, <1>2, <1>3, <2>3, DisposesKeepsInv
  <1> QED BY <1>4, <1>5

LEMMA CloseEventKeepsInv ==
    ASSUME PairingInv, NEW k \in Socks, CloseEvent(k)
    PROVE  PairingInv'
  <1>1. sock[k].key = Pending
    BY DEF CloseEvent, Reports
  <1>2. orphans' \in 0..MaxOrphans /\ cached' \in BOOLEAN
    BY DEF CloseEvent, PairingInv, TypeOK
  <1>3. /\ sock' = [j \in Socks |-> IF j \in {k, sockets[Pending]} THEN Ended(j) ELSE sock[j]]
        /\ sockets' = [sockets EXCEPT ![Pending] = NoSock]
        /\ emit' = FALSE /\ own' = FALSE /\ UNCHANGED <<row, task, requests>>
    BY DEF CloseEvent
  <1> QED BY <1>1, <1>2, <1>3, FlowsStay, DisposesKeepsInv

LEMMA ExpiryKeepsInv ==
    ASSUME PairingInv, NEW stale \in BOOLEAN, ExpiryFires(stale)
    PROVE  PairingInv'
  <1>1. orphans' \in 0..MaxOrphans /\ cached' \in BOOLEAN
    <2>1. orphans \in 0..MaxOrphans /\ MaxOrphans \in Nat
      BY QrConstantsOK DEF QrConstantsOK, PairingInv, TypeOK
    <2>2. \/ orphans > 0 /\ orphans' = orphans - 1
          \/ orphans' = orphans
      BY DEF ExpiryFires, PairingInv, TimerHasSocket
    <2>3. orphans' \in 0..MaxOrphans
      BY <2>1, <2>2
    <2>4. cached' \in BOOLEAN
      BY DEF ExpiryFires, PairingInv, TypeOK
    <2> QED BY <2>3, <2>4
  <1>2. CASE sockets[Pending] # NoSock
    <2>1. /\ sock' = [k \in Socks |-> IF k \in {sockets[Pending]} THEN Ended(k) ELSE sock[k]]
          /\ sockets' = [sockets EXCEPT ![Pending] = NoSock]
          /\ emit' = FALSE /\ own' = FALSE /\ UNCHANGED <<row, task, requests>>
      BY <1>2 DEF ExpiryFires
    <2> QED BY <1>1, <2>1, FlowsStay, DisposesKeepsInv
  <1>3. CASE sockets[Pending] = NoSock
    <2>1. UNCHANGED <<sockets, sock, emit, own, cached, row, task, requests>>
      BY <1>3 DEF ExpiryFires
    <2>2. TypeOK'
      BY <1>1, <2>1 DEF PairingInv, TypeOK
    <2> QED BY <2>1, <2>2 DEF PairingInv, MapHoldsBound, HeldIsBound, TimerHasSocket
  <1> QED BY <1>2, <1>3

LEMMA PromoteKeepsInv ==
    ASSUME PairingInv, NEW t \in Tasks, NEW s \in Sids, Promote(t, s)
    PROVE  PairingInv'
  <1> DEFINE k == task[t].held
  <1>1. k \in Socks /\ sock[k] # Free /\ s \in Keys /\ s # Pending
    BY KeysAreApart DEF Promote, PairingInv, TypeOK, HeldIsBound
  <1>2. sock[k] \in [key : Keys, conn : {"connecting", "open", "dead"}, auth : Auths]
    BY <1>1, BoundIsARecord DEF PairingInv, TypeOK
  <1>3. /\ sock' \in [Socks -> SockStates]
        /\ \A j \in Socks : sock[j] # Free => sock'[j] # Free
    <2>1. [sock[k] EXCEPT !.key = s] = [key |-> s, conn |-> sock[k].conn, auth |-> sock[k].auth]
      BY <1>2
    <2>2. sock' = [sock EXCEPT ![k] = [key |-> s, conn |-> sock[k].conn, auth |-> sock[k].auth]]
      BY <2>1 DEF Promote
    <2>3. sock[k].conn \in {"connecting", "open", "dead"} /\ sock[k].auth \in Auths
      BY <1>2
    <2> QED BY <1>1, <2>2, <2>3, SocketMoves
  <1>4. /\ task' \in [Tasks -> Flows]
        /\ \A u \in Tasks : /\ task'[u].held \in {NoSock, task[u].held}
                            /\ task'[u].pc = "creating" => task'[u].held # NoSock
    BY FlowsAreFlows, FlowMoves DEF Promote
  <1>5. \A x \in Keys : sockets'[x] = IF x = s THEN k ELSE IF x = Pending THEN NoSock ELSE sockets[x]
    BY DEF Promote, PairingInv, TypeOK
  <1>6. sockets' \in [Keys -> Socks \cup {NoSock}]
    BY <1>1 DEF Promote, PairingInv, TypeOK
  <1>7. TypeOK'
    <2>1. orphans' \in 0..MaxOrphans /\ requests' \in 0..MaxRequests
      BY QrConstantsOK DEF QrConstantsOK, Promote, PairingInv, TypeOK
    <2>2. /\ emit' \in BOOLEAN /\ own' \in BOOLEAN /\ cached' \in BOOLEAN
          /\ row' \in [Sids -> {"absent", "active", "inactive"}]
      BY DEF Promote, PairingInv, TypeOK
    <2> QED BY <1>3, <1>4, <1>6, <2>1, <2>2 DEF TypeOK, Flows
  <1>8. MapHoldsBound'
    <2>1. SUFFICES ASSUME NEW x \in Keys, sockets'[x] # NoSock
                   PROVE  sock'[sockets'[x]] # Free
      BY DEF MapHoldsBound, Keys
    <2>2. sockets'[x] \in Socks /\ sock[sockets'[x]] # Free
      BY <1>1, <1>5, <1>6, <2>1, KeysAreApart DEF PairingInv, MapHoldsBound
    <2> QED BY <1>3, <2>2
  <1>9. HeldIsBound'
    <2>1. SUFFICES ASSUME NEW u \in Tasks, task'[u].held # NoSock
                   PROVE  sock'[task'[u].held] # Free
      BY <1>4 DEF HeldIsBound
    <2>2. task'[u].held = task[u].held /\ task[u].held \in Socks
      BY <1>4, <2>1 DEF PairingInv, TypeOK
    <2> QED BY <1>3, <2>1, <2>2 DEF PairingInv, HeldIsBound
  <1>10. TimerHasSocket'
    BY DEF Promote, TimerHasSocket
  <1> QED BY <1>7, <1>8, <1>9, <1>10 DEF PairingInv

LEMMA CreateFailsKeepsInv ==
    ASSUME PairingInv, NEW t \in Tasks, CreateFails(t)
    PROVE  PairingInv'
  <1> DEFINE D == {j \in Socks : j = sockets[Pending] \/ (j = task[t].held /\ sock[j].conn = "dead")}
  <1>1. \A j \in D \cap Socks : sock[j] # Free
    <2>1. SUFFICES ASSUME NEW j \in Socks, j \in D PROVE sock[j] # Free
      OBVIOUS
    <2>2. CASE j = sockets[Pending]
      BY <2>2, KeysAreApart DEF PairingInv, MapHoldsBound
    <2>3. CASE sock[j].conn = "dead"
      BY <2>3 DEF Free
    <2> QED BY <2>1, <2>2, <2>3
  <1>2. sock' = [j \in Socks |-> IF j \in D THEN EndedFor(j, Pending, Tasks \ {t}) ELSE sock[j]]
    BY DEF CreateFails
  <1> HIDE DEF D
  <1>3. /\ task' \in [Tasks -> Flows]
        /\ \A u \in Tasks : /\ task'[u].held \in {NoSock, task[u].held}
                            /\ task'[u].pc = "creating" => task'[u].held # NoSock
                            /\ u \notin Tasks \ {t} => task'[u].held = NoSock
    BY FlowsAreFlows, FlowMoves DEF CreateFails
  <1>4. /\ sockets' = [sockets EXCEPT ![Pending] = NoSock]
        /\ emit' \in BOOLEAN /\ own' \in BOOLEAN /\ cached' \in BOOLEAN
        /\ own' => Pending # Pending /\ own
        /\ orphans' \in 0..MaxOrphans /\ requests' \in 0..MaxRequests
        /\ row' \in [Sids -> {"absent", "active", "inactive"}]
    BY DEF CreateFails, PairingInv, TypeOK
  <1>5. Pending \in Keys /\ Tasks \ {t} \in SUBSET Tasks
    BY KeysAreApart
  <1> QED BY <1>1, <1>2, <1>3, <1>4, <1>5, EndsAndMoves

LEMMA NextPairing == PairingInv /\ [Next]_vars => PairingInv'
  <1> SUFFICES ASSUME PairingInv, [Next]_vars PROVE PairingInv'
    OBVIOUS
  <1>1. ASSUME NEW t \in Tasks, QrRequest(t) PROVE PairingInv'
    BY <1>1, QrRequestKeepsInv
  <1>2. ASSUME NEW t \in Tasks, ListsActive(t) \/ SavesInactive(t) PROVE PairingInv'
    BY <1>2, ListKeepsInv
  <1>3. ASSUME NEW t \in Tasks, BindFails(t) PROVE PairingInv'
    BY <1>3, BindFailsKeepsInv
  <1>4. ASSUME NEW t \in Tasks, CreateFails(t) PROVE PairingInv'
    BY <1>4, CreateFailsKeepsInv
  <1>5. ASSUME NEW t \in Tasks, NEW k \in Socks, BindPending(t, k) PROVE PairingInv'
    BY <1>5, BindPendingKeepsInv
  <1>6. ASSUME NEW t \in Tasks, NEW k \in Socks, RestartEvent(k, t) PROVE PairingInv'
    BY <1>6, RestartEventKeepsInv
  <1>7. ASSUME NEW t \in Tasks, NEW k \in Socks, OpenEvent(k, t) PROVE PairingInv'
    BY <1>7, OpenEventKeepsInv
  <1>8. ASSUME NEW t \in Tasks, NEW s \in Sids, Promote(t, s) PROVE PairingInv'
    BY <1>8, PromoteKeepsInv
  <1>9. ASSUME NEW k \in Socks, QrEvent(k) \/ Scan(k) PROVE PairingInv'
    BY <1>9, ScanKeepsInv
  <1>10. ASSUME NEW k \in Socks, CloseEvent(k) PROVE PairingInv'
    BY <1>10, CloseEventKeepsInv
  <1>11. ASSUME NEW stale \in BOOLEAN, ExpiryFires(stale) PROVE PairingInv'
    BY <1>11, ExpiryKeepsInv
  <1>12. CASE CacheExpires \/ UNCHANGED vars
    <2>1. UNCHANGED <<sockets, sock, entry, row, task, requests>> /\ cached' \in {cached, FALSE}
      BY <1>12 DEF CacheExpires, vars
    <2> QED BY <2>1 DEF entry, PairingInv, TypeOK, MapHoldsBound, HeldIsBound, TimerHasSocket
  <1> QED BY <1>1, <1>2, <1>3, <1>4, <1>5, <1>6, <1>7, <1>8, <1>9, <1>10, <1>11, <1>12 DEF Next

(* The maps hold what they are meant to hold: no key and no suspended      *)
(* promotion of baileys.service.ts is left with a socket whose slot has    *)
(* been given back, whatever overlaps.                                     *)
THEOREM TypeCorrect == Spec => []TypeOK
  <1>1. PairingInv => TypeOK
    BY DEF PairingInv
  <1> QED BY <1>1, InitPairing, NextPairing, PTL DEF Spec

-----------------------------------------------------------------------------
(* The pairing window.                                                     *)

(* What a step may do to the entry of the pending key: it is removed, or   *)
(* it stays as it is with its timeout, or a promotion takes the timeout    *)
(* over, or a new entry comes with a timeout of its own.                   *)
LEMMA EntrySteps ==
    ASSUME PairingInv, [Next]_vars
    PROVE  \/ sockets'[Pending] = NoSock
           \/ /\ UNCHANGED <<sockets[Pending], emit, own>>
              /\ \A t \in Tasks : task[t].pc = "creating" => task'[t] = task[t]
           \/ /\ UNCHANGED <<sockets[Pending], emit>>
              /\ \E t \in Tasks : task'[t].pc = "creating"
           \/ emit' = own'
  <1> DEFINE Gone == sockets'[Pending] = NoSock
             Same == /\ UNCHANGED <<sockets[Pending], emit, own>>
                     /\ \A t \in Tasks : task[t].pc = "creating" => task'[t] = task[t]
             Taken == /\ UNCHANGED <<sockets[Pending], emit>>
                      /\ \E t \in Tasks : task'[t].pc = "creating"
  <1>1. sockets \in [Keys -> Socks \cup {NoSock}] /\ task \in [Tasks -> Flows]
    BY DEF PairingInv, TypeOK, Flows
  <1>2. ASSUME EndSocketSession(Pending) PROVE Gone
    BY <1>1, <1>2, KeysAreApart DEF EndSocketSession
  <1>3. ASSUME NEW t \in Tasks, QrRequest(t) PROVE Gone
    BY <1>2, <1>3 DEF QrRequest
  <1>4. ASSUME NEW t \in Tasks, NEW left, left \subseteq Sids, task[t].pc # "creating", Deactivate(t, left)
        PROVE  Gone \/ Same
    <2>1. CASE EndSocketSession(Pending)
      BY <1>2, <2>1
    <2>2. ASSUME NEW s \in left, EndSocketSession(s),
                 task' = [task EXCEPT ![t] = [Idle EXCEPT !.pc = "updating", !.left = left \ {s}, !.sid = s]]
          PROVE  Same
      <3>1. s # Pending
        BY <1>4, KeysAreApart
      <3>2. \A u \in Tasks : u # t => task'[u] = task[u]
        BY <1>1, <2>2
      <3>3. sockets'[Pending] = sockets[Pending]
        BY <1>1, <2>2, <3>1, KeysAreApart DEF EndSocketSession
      <3>4. emit' = emit /\ own' = own
        BY <2>2, <3>1 DEF EndSocketSession, PairingInv, TypeOK
      <3> QED BY <1>4, <3>2, <3>3, <3>4
    <2> QED BY <1>4, <2>1, <2>2 DEF Deactivate
  <1>5. ASSUME NEW t \in Tasks, ListsActive(t) \/ SavesInactive(t) PROVE Gone \/ Same
    <2>1. ActiveRows \subseteq Sids /\ task[t].left \subseteq Sids
      BY DEF ActiveRows, PairingInv, TypeOK
    <2> QED BY <1>4, <1>5, <2>1 DEF ListsActive, SavesInactive
  <1>6. ASSUME NEW t \in Tasks, BindFails(t) PROVE Gone \/ Same
    <2>1. CASE task[t].pc = "version" /\ UNCHANGED <<sockets, sock, entry>>
      <3>1. \A u \in Tasks : u # t => task'[u] = task[u]
        BY <1>1, <1>6 DEF BindFails
      <3> QED BY <2>1, <3>1 DEF entry
    <2> QED BY <1>2, <1>6, <2>1 DEF BindFails
  <1>7. ASSUME NEW t \in Tasks, CreateFails(t) PROVE Gone
    BY <1>1, <1>7, KeysAreApart DEF CreateFails
  <1>8. ASSUME NEW t \in Tasks, NEW k \in Socks, BindPending(t, k) PROVE emit' = own'
    BY <1>8 DEF BindPending
  <1>9. ASSUME NEW t \in Tasks, NEW k \in Socks, RestartEvent(k, t) PROVE Gone
    BY <1>1, <1>9, KeysAreApart DEF RestartEvent
  <1>10. ASSUME NEW t \in Tasks, NEW k \in Socks, OpenEvent(k, t) PROVE Gone \/ Taken
    <2>1. UNCHANGED sockets /\ UNCHANGED emit
      BY <1>10 DEF OpenEvent
    <2>2. sockets[Pending] # NoSock => task'[t].pc = "creating"
      BY <1>1, <1>10 DEF OpenEvent, Idle
    <2> QED BY <2>1, <2>2
  <1>11. ASSUME NEW t \in Tasks, NEW s \in Sids, Promote(t, s) PROVE Gone
    BY <1>1, <1>11, KeysAreApart DEF Promote
  <1>12. ASSUME NEW k \in Socks, QrEvent(k) \/ Scan(k) PROVE Same
    BY <1>12 DEF QrEvent, Scan, entry
  <1>13. ASSUME NEW k \in Socks, CloseEvent(k) PROVE Gone
    BY <1>1, <1>13, KeysAreApart DEF CloseEvent
  <1>14. ASSUME NEW stale \in BOOLEAN, ExpiryFires(stale) PROVE Gone
    BY <1>1, <1>14, KeysAreApart DEF ExpiryFires
  <1>15. ASSUME CacheExpires \/ UNCHANGED vars PROVE Same
    BY <1>15 DEF CacheExpires, vars, entry
  <1> HIDE DEF Gone, Same, Taken
  <1>16. Gone \/ Same \/ Taken \/ emit' = own'
    BY <1>3, <1>5, <1>6, <1>7, <1>8, <1>9, <1>10, <1>11, <1>12, <1>13, <1>14, <1>15 DEF Next
  <1> QED BY <1>16 DEF Gone, Same, Taken

(* handleQrEmissionExpiry, the promotions and the restarts together leave  *)
(* no pairing a user asked for without the timeout that will end it.       *)
THEOREM WindowIsTimed == Spec => []WindowHasTimer
  <1>1. Init => WindowHasTimer
    BY KeysAreApart DEF Init, WindowHasTimer
  <1>2. PairingInv /\ WindowHasTimer /\ [Next]_vars => WindowHasTimer'
    BY EntrySteps DEF WindowHasTimer
  <1> QED BY <1>1, <1>2, InitPairing, NextPairing, PTL DEF Spec

-----------------------------------------------------------------------------
(* Nothing that could broadcast exists before somebody asks: no flow that  *)
(* would open a window asked for, no flag, no scanned socket.              *)
FlowIsSilent(f) == f.pc \notin {"listing", "updating"} /\ ~f.emit /\ f.auth = "none"

NothingToSay ==
    requests = 0 => /\ ~cached /\ ~emit
                    /\ \A k \in Socks : sock[k].auth = "none"
                    /\ \A t \in Tasks : FlowIsSilent(task[t])

LEMMA EndedIsSilent ==
    ASSUME PairingInv, NEW k \in Socks, sock[k].auth = "none", NEW x, NEW T
    PROVE  EndedFor(k, x, T).auth = "none"
  <1>1. sock[k] \in [key : Keys \cup {NoKey}, conn : {"none", "connecting", "open", "dead"}, auth : Auths]
    BY DEF PairingInv, TypeOK, SockStates, Free, Auths
  <1> QED BY <1>1 DEF EndedFor, Free

(* A step in which sockets end and one flow goes on, silently.             *)
LEMMA SilentStep ==
    ASSUME PairingInv, NothingToSay, requests' = requests,
           requests = 0 => ~cached' /\ ~emit',
           requests = 0 => \A k \in Socks : sock'[k].auth = "none",
           requests = 0 => \A t \in Tasks : task'[t] = task[t] \/ FlowIsSilent(task'[t])
    PROVE  NothingToSay'
  BY DEF NothingToSay

LEMMA SocketsEndSilently ==
    ASSUME PairingInv, \A k \in Socks : sock[k].auth = "none", NEW D, NEW x, NEW T,
           sock' = [k \in Socks |-> IF k \in D THEN EndedFor(k, x, T) ELSE sock[k]]
    PROVE  \A k \in Socks : sock'[k].auth = "none"
  BY EndedIsSilent

LEMMA FlowsGoSilently ==
    ASSUME PairingInv, NEW t \in Tasks, NEW f, FlowIsSilent(f), task' = [task EXCEPT ![t] = f]
    PROVE  \A u \in Tasks : task'[u] = task[u] \/ FlowIsSilent(task'[u])
  BY DEF PairingInv, TypeOK

LEMMA InitSilent == Init => NothingToSay
  <1> SUFFICES ASSUME Init PROVE NothingToSay
    OBVIOUS
  <1>1. FlowIsSilent(Idle) /\ FlowIsSilent(Version(FALSE))
    BY DEF FlowIsSilent, Idle, Version
  <1>2. \A t \in Tasks : task[t] \in {Idle, Version(FALSE)}
    BY DEF Init
  <1> QED BY <1>1, <1>2 DEF Init, NothingToSay, Free

LEMMA EndsAnEntrySilently ==
    ASSUME PairingInv, NothingToSay, NEW D, NEW T, requests = 0,
           sock' = [k \in Socks |-> IF k \in D THEN EndedFor(k, Pending, T) ELSE sock[k]],
           emit' = FALSE
    PROVE  ~emit' /\ \A k \in Socks : sock'[k].auth = "none"
  BY SocketsEndSilently DEF NothingToSay

LEMMA NextSilent == PairingInv /\ NothingToSay /\ [Next]_vars => NothingToSay'
  <1> SUFFICES ASSUME PairingInv, NothingToSay, [Next]_vars, requests' = 0 PROVE NothingToSay'
    BY DEF NothingToSay
  <1>1. sockets \in [Keys -> Socks \cup {NoSock}] /\ task \in [Tasks -> Flows] /\ requests \in Nat
    BY QrConstantsOK DEF QrConstantsOK, PairingInv, TypeOK, Flows
  <1>2. FlowIsSilent(Idle)
    BY DEF FlowIsSilent, Idle
  <1>3. ASSUME NEW t \in Tasks, QrRequest(t) PROVE FALSE
    BY <1>1, <1>3 DEF QrRequest
  <1>4. requests' = requests /\ requests = 0
    BY <1>1, <1>3 DEF Next, vars, ListsActive, SavesInactive, BindFails, CreateFails, BindPending, RestartEvent,
       OpenEvent, Promote, QrEvent, Scan, CloseEvent, ExpiryFires, CacheExpires
  <1>5. /\ ~cached /\ ~emit
        /\ \A k \in Socks : sock[k].auth = "none"
        /\ \A t \in Tasks : FlowIsSilent(task[t])
    BY <1>4 DEF NothingToSay
  <1>6. ASSUME NEW t \in Tasks, ListsActive(t) \/ SavesInactive(t) PROVE FALSE
    BY <1>5, <1>6 DEF ListsActive, SavesInactive, FlowIsSilent
  <1>7. ASSUME NEW t \in Tasks, task' = [task EXCEPT ![t] = Idle]
        PROVE  \A u \in Tasks : task'[u] = task[u] \/ FlowIsSilent(task'[u])
    BY <1>2, <1>7, FlowsGoSilently
  <1>8. ASSUME NEW t \in Tasks, BindFails(t) PROVE NothingToSay'
    <2>1. ~cached' /\ \A u \in Tasks : task'[u] = task[u] \/ FlowIsSilent(task'[u])
      BY <1>5, <1>7, <1>8 DEF BindFails
    <2>2. CASE EndSocketSession(Pending)
      <3>1. /\ sock' = [k \in Socks |-> IF k \in {sockets[Pending]} THEN EndedFor(k, Pending, Tasks) ELSE sock[k]]
            /\ emit' = FALSE
        BY <2>2 DEF EndSocketSession
      <3> QED BY <1>4, <2>1, <3>1, EndsAnEntrySilently, SilentStep
    <2>3. CASE UNCHANGED <<sockets, sock, entry>>
      BY <1>4, <1>5, <2>1, <2>3, SilentStep DEF entry
    <2> QED BY <1>8, <2>2, <2>3 DEF BindFails
  <1>9. ASSUME NEW t \in Tasks, CreateFails(t) PROVE NothingToSay'
    <2> DEFINE D == {j \in Socks : j = sockets[Pending] \/ (j = task[t].held /\ sock[j].conn = "dead")}
    <2>1. sock' = [j \in Socks |-> IF j \in D THEN EndedFor(j, Pending, Tasks \ {t}) ELSE sock[j]]
      BY <1>9 DEF CreateFails
    <2> HIDE DEF D
    <2>2. ~cached' /\ emit' = FALSE
      BY <1>5, <1>9 DEF CreateFails
    <2>3. \A u \in Tasks : task'[u] = task[u] \/ FlowIsSilent(task'[u])
      BY <1>7, <1>9 DEF CreateFails
    <2> QED BY <1>4, <2>1, <2>2, <2>3, EndsAnEntrySilently, SilentStep
  <1>10. ASSUME NEW t \in Tasks, NEW k \in Socks, BindPending(t, k) PROVE NothingToSay'
    <2>1. task[t].auth = "none" /\ ~task[t].emit
      BY <1>5 DEF FlowIsSilent
    <2>2. ~cached' /\ ~emit'
      BY <1>5, <1>10, <2>1 DEF BindPending
    <2>3. \A j \in Socks : sock'[j].auth = "none"
      <3>1. sock' = [sock EXCEPT ![k] = [key |-> Pending, conn |-> "connecting", auth |-> "none"]]
        BY <1>10, <2>1 DEF BindPending
      <3> QED BY <1>5, <3>1 DEF PairingInv, TypeOK
    <2>4. \A u \in Tasks : task'[u] = task[u] \/ FlowIsSilent(task'[u])
      BY <1>7, <1>10 DEF BindPending
    <2> QED BY <1>4, <2>2, <2>3, <2>4, SilentStep
  <1>11. ASSUME NEW t \in Tasks, NEW k \in Socks, RestartEvent(k, t) PROVE NothingToSay'
    <2>1. /\ sock' = [j \in Socks |-> IF j \in {k, sockets[Pending]} THEN EndedFor(j, Pending, Tasks) ELSE sock[j]]
          /\ emit' = FALSE
      BY <1>11 DEF RestartEvent, Ended
    <2>2. ~cached'
      BY <1>5, <1>11 DEF RestartEvent
    <2>3. \A u \in Tasks : task'[u] = task[u] \/ FlowIsSilent(task'[u])
      <3>1. CASE sockets[Pending] = NoSock
        BY <1>11, <3>1 DEF RestartEvent
      <3>2. CASE sockets[Pending] # NoSock
        <4>1. sock[sockets[Pending]].auth = "none"
          BY <1>1, <1>5, <3>2, KeysAreApart
        <4>2. FlowIsSilent(Restarted(sockets[Pending]))
          BY <1>5, <4>1 DEF FlowIsSilent, Restarted, Idle
        <4>3. task' = [task EXCEPT ![t] = Restarted(sockets[Pending])]
          BY <1>11, <3>2 DEF RestartEvent
        <4> QED BY <4>2, <4>3, FlowsGoSilently
      <3> QED BY <3>1, <3>2
    <2> QED BY <1>4, <2>1, <2>2, <2>3, EndsAnEntrySilently, SilentStep
  <1>12. ASSUME NEW t \in Tasks, NEW k \in Socks, OpenEvent(k, t) PROVE FALSE
    BY <1>5, <1>12 DEF OpenEvent
  <1>13. ASSUME NEW t \in Tasks, NEW s \in Sids, Promote(t, s) PROVE NothingToSay'
    <2>1. ~cached' /\ ~emit'
      BY <1>5, <1>13 DEF Promote
    <2>2. \A k \in Socks : sock'[k].auth = "none"
      <3>1. \A k \in Socks : sock'[k] = sock[k] \/ sock'[k] = [sock[k] EXCEPT !.key = s]
        BY <1>13 DEF Promote, PairingInv, TypeOK
      <3>2. \A k \in Socks : sock[k] \in [key : Keys \cup {NoKey}, conn : {"none", "connecting", "open", "dead"}, auth : Auths]
        BY DEF PairingInv, TypeOK, SockStates, Free, Auths
      <3> QED BY <1>5, <3>1, <3>2
    <2>3. \A u \in Tasks : task'[u] = task[u] \/ FlowIsSilent(task'[u])
      BY <1>7, <1>13 DEF Promote
    <2> QED BY <1>4, <2>1, <2>2, <2>3, SilentStep
  <1>14. ASSUME NEW k \in Socks, QrEvent(k) \/ Scan(k) PROVE FALSE
    BY <1>5, <1>14 DEF QrEvent, Scan
  <1>15. ASSUME NEW k \in Socks, CloseEvent(k) PROVE NothingToSay'
    <2>1. /\ sock' = [j \in Socks |-> IF j \in {k, sockets[Pending]} THEN EndedFor(j, Pending, Tasks) ELSE sock[j]]
          /\ emit' = FALSE
      BY <1>15 DEF CloseEvent, Ended
    <2>2. ~cached' /\ task' = task
      BY <1>5, <1>15 DEF CloseEvent
    <2> QED BY <1>4, <2>1, <2>2, EndsAnEntrySilently, SilentStep
  <1>16. ASSUME NEW stale \in BOOLEAN, ExpiryFires(stale) PROVE NothingToSay'
    <2>1. ~cached' /\ task' = task
      BY <1>5, <1>16 DEF ExpiryFires
    <2>2. CASE sockets[Pending] = NoSock
      <3>1. sock' = sock /\ emit' = emit
        BY <1>16, <2>2 DEF ExpiryFires
      <3> QED BY <1>4, <1>5, <2>1, <3>1, SilentStep
    <2>3. CASE sockets[Pending] # NoSock
      <3>1. /\ sock' = [j \in Socks |-> IF j \in {sockets[Pending]} THEN EndedFor(j, Pending, Tasks) ELSE sock[j]]
            /\ emit' = FALSE
        BY <1>16, <2>3 DEF ExpiryFires, Ended
      <3> QED BY <1>4, <2>1, <3>1, EndsAnEntrySilently, SilentStep
    <2> QED BY <2>2, <2>3
  <1>17. CASE CacheExpires \/ UNCHANGED vars
    <2>1. UNCHANGED <<sock, emit, task>> /\ ~cached'
      BY <1>5, <1>17 DEF CacheExpires, vars, entry
    <2> QED BY <1>4, <1>5, <2>1, SilentStep
  <1> QED BY <1>3, <1>6, <1>8, <1>9, <1>10, <1>11, <1>12, <1>13, <1>14, <1>15, <1>16, <1>17 DEF Next

(* spec-driven/new-connection-explicit-request.md: the silence of a        *)
(* pairing nobody asked for survives every restart, close and promotion.   *)
THEOREM SilenceIsKept == Spec => []SilentUntilAsked
  <1>1. NothingToSay => SilentUntilAsked
    BY DEF NothingToSay, SilentUntilAsked
  <1> QED BY <1>1, InitPairing, NextPairing, InitSilent, NextSilent, PTL DEF Spec

-----------------------------------------------------------------------------
(* The refinement of PairingWindow.                                        *)

windowOf == IF sockets[Pending] = NoSock THEN "none" ELSE IF emit THEN "asked" ELSE "silent"

\* A step of the promise, or none.
WindowStep == [Window!WindowNext]_(Window!windowVars)

(* A window that ends, or a code that lapses, or neither.                  *)
LEMMA EndsOrLapses ==
    ASSUME PairingInv, requests' = requests, cached' \in {cached, FALSE},
           windowOf' \in {"none", windowOf}
    PROVE  WindowStep
  <1>1. cached \in BOOLEAN
    BY DEF PairingInv, TypeOK
  <1>2. CASE windowOf' = windowOf /\ cached' = cached
    BY <1>2 DEF WindowStep, Window!windowVars, windowOf
  <1>3. CASE windowOf' = windowOf /\ cached' # cached
    <2>1. cached /\ cached' = FALSE
      BY <1>1, <1>3
    <2>2. Window!Lapses
      BY <1>3, <2>1 DEF Window!Lapses, windowOf
    <2> QED BY <2>2 DEF WindowStep, Window!WindowNext
  <1>4. CASE windowOf' # windowOf
    <2>1. Window!Ends
      BY <1>4 DEF Window!Ends, windowOf
    <2> QED BY <2>1 DEF WindowStep, Window!WindowNext
  <1> QED BY <1>2, <1>3, <1>4

LEMMA StepIsWindowStep == PairingInv /\ NothingToSay /\ [Next]_vars => WindowStep
  <1> SUFFICES ASSUME PairingInv, NothingToSay, [Next]_vars PROVE WindowStep
    OBVIOUS
  <1>1. sockets \in [Keys -> Socks \cup {NoSock}]
    BY DEF PairingInv, TypeOK
  <1>2. ASSUME sockets' = [sockets EXCEPT ![Pending] = NoSock] PROVE windowOf' = "none"
    BY <1>1, <1>2, KeysAreApart DEF windowOf
  <1>3. ASSUME EndSocketSession(Pending) PROVE windowOf' = "none"
    BY <1>2, <1>3 DEF EndSocketSession
  <1>4. ASSUME NEW t \in Tasks, QrRequest(t) PROVE WindowStep
    <2>1. Window!Asks
      BY <1>3, <1>4 DEF QrRequest, Window!Asks, windowOf
    <2> QED BY <2>1 DEF WindowStep, Window!WindowNext
  <1>5. ASSUME NEW t \in Tasks, NEW left, left \subseteq Sids, Deactivate(t, left),
               UNCHANGED <<cached, requests>>
        PROVE  WindowStep
    <2>1. CASE EndSocketSession(Pending)
      BY <1>3, <1>5, <2>1, EndsOrLapses
    <2>2. ASSUME NEW s \in left, EndSocketSession(s) PROVE WindowStep
      <3>1. s # Pending
        BY <1>5, KeysAreApart
      <3>2. sockets'[Pending] = sockets[Pending]
        BY <1>1, <2>2, <3>1, KeysAreApart DEF EndSocketSession
      <3>3. emit' = emit
        BY <2>2, <3>1 DEF EndSocketSession, PairingInv, TypeOK
      <3>4. windowOf' = windowOf
        BY <3>2, <3>3 DEF windowOf
      <3> QED BY <1>5, <3>4, EndsOrLapses
    <2> QED BY <1>5, <2>1, <2>2 DEF Deactivate
  <1>6. ASSUME NEW t \in Tasks, ListsActive(t) \/ SavesInactive(t) PROVE WindowStep
    <2>1. ActiveRows \subseteq Sids /\ task[t].left \subseteq Sids
      BY DEF ActiveRows, PairingInv, TypeOK
    <2> QED BY <1>5, <1>6, <2>1 DEF ListsActive, SavesInactive
  <1>7. ASSUME NEW t \in Tasks, BindFails(t) PROVE WindowStep
    <2>1. requests' = requests /\ cached' = cached
      BY <1>7 DEF BindFails
    <2>2. CASE EndSocketSession(Pending)
      BY <1>3, <2>1, <2>2, EndsOrLapses
    <2>3. CASE UNCHANGED <<sockets, sock, entry>>
      BY <2>1, <2>3, EndsOrLapses DEF windowOf, entry
    <2> QED BY <1>7, <2>2, <2>3 DEF BindFails
  <1>8. ASSUME NEW t \in Tasks, NEW k \in Socks, BindPending(t, k) PROVE WindowStep
    <2>1. sockets'[Pending] = k /\ k # NoSock
      BY <1>1, <1>8, KeysAreApart DEF BindPending
    <2>2. emit' => requests # 0
      BY <1>8 DEF BindPending, NothingToSay, FlowIsSilent
    <2>3. requests # 0 => requests > 0
      BY QrConstantsOK DEF QrConstantsOK, PairingInv, TypeOK
    <2>4. windowOf' \in {"silent", "asked"} /\ (windowOf' = "asked" => requests > 0)
      BY <2>1, <2>2, <2>3 DEF windowOf
    <2>5. UNCHANGED <<cached, requests>>
      BY <1>8 DEF BindPending
    <2>6. Window!Opens
      BY <2>4, <2>5 DEF Window!Opens, windowOf
    <2> QED BY <2>6 DEF WindowStep, Window!WindowNext
  <1>9. ASSUME NEW k \in Socks, QrEvent(k) PROVE WindowStep
    <2>1. Window!Offers
      BY <1>9 DEF QrEvent, Window!Offers, windowOf, entry
    <2> QED BY <2>1 DEF WindowStep, Window!WindowNext
  <1>10. ASSUME NEW k \in Socks, Scan(k) PROVE WindowStep
    BY <1>10, EndsOrLapses DEF Scan, entry, windowOf
  <1>11. ASSUME NEW t \in Tasks, NEW k \in Socks, RestartEvent(k, t) PROVE WindowStep
    BY <1>2, <1>11, EndsOrLapses DEF RestartEvent
  <1>12. ASSUME NEW k \in Socks, CloseEvent(k) PROVE WindowStep
    BY <1>2, <1>12, EndsOrLapses DEF CloseEvent
  <1>13. ASSUME NEW t \in Tasks, NEW k \in Socks, OpenEvent(k, t) PROVE WindowStep
    BY <1>13, EndsOrLapses DEF OpenEvent, windowOf
  <1>14. ASSUME NEW t \in Tasks, NEW s \in Sids, Promote(t, s) PROVE WindowStep
    <2>1. sockets'[Pending] = NoSock
      BY <1>1, <1>14, KeysAreApart DEF Promote
    <2> QED BY <1>14, <2>1, EndsOrLapses DEF Promote, windowOf
  <1>15. ASSUME NEW t \in Tasks, CreateFails(t) PROVE WindowStep
    BY <1>2, <1>15, EndsOrLapses DEF CreateFails
  <1>16. ASSUME NEW stale \in BOOLEAN, ExpiryFires(stale) PROVE WindowStep
    <2>1. requests' = requests /\ cached' \in {cached, FALSE}
      BY <1>16 DEF ExpiryFires
    <2>2. windowOf' \in {"none", windowOf}
      BY <1>2, <1>16 DEF ExpiryFires, windowOf
    <2> QED BY <2>1, <2>2, EndsOrLapses
  <1>17. CASE CacheExpires \/ UNCHANGED vars
    <2>1. UNCHANGED <<sockets, emit, requests>> /\ cached' \in {cached, FALSE}
      BY <1>17 DEF CacheExpires, vars, entry
    <2> QED BY <2>1, EndsOrLapses DEF windowOf
  <1> QED BY <1>4, <1>6, <1>7, <1>8, <1>9, <1>10, <1>11, <1>12, <1>13, <1>14, <1>15, <1>16, <1>17 DEF Next

(* Every step of baileys.service.ts and socket.service.ts on a pairing     *)
(* opens, ends or uses a window the way PairingWindow promises, or does    *)
(* not touch it.                                                           *)
THEOREM StepsKeepThePromise == Spec => Window!WindowInit /\ [][Window!WindowNext]_(Window!windowVars)
  <1>1. Init => Window!WindowInit
    BY KeysAreApart DEF Init, Window!WindowInit
  <1>2. PairingInv /\ NothingToSay /\ [Next]_vars => [Window!WindowNext]_(Window!windowVars)
    BY StepIsWindowStep DEF WindowStep
  <1> QED BY <1>1, <1>2, InitPairing, NextPairing, InitSilent, NextSilent, PTL DEF Spec

(* What is left to the fairness of the timeouts and of Mongo is only that  *)
(* a pairing somebody asked for ends; the rest of the promise is theirs    *)
(* whatever is scheduled.                                                  *)
THEOREM PromiseNeedsOnlyTheEnd == Spec /\ PairingEnds => PairingKeepsItsPromise
  <1> DEFINE W == IF sockets[Pending] = NoSock THEN "none" ELSE IF emit THEN "asked" ELSE "silent"
  <1>1. W = "asked" => sockets[Pending] # NoSock /\ emit
    OBVIOUS
  <1>2. sockets[Pending] = NoSock => W # "asked"
    OBVIOUS
  <1>3. PairingEnds => Window!WindowEnds
    BY <1>1, <1>2, PTL DEF PairingEnds, Window!WindowEnds
  <1> QED BY <1>3, StepsKeepThePromise, PTL DEF PairingKeepsItsPromise, Window!WindowSpec
=============================================================================
