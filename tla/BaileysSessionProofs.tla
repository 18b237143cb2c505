------------------------ MODULE BaileysSessionProofs ------------------------
(***************************************************************************)
(* Theorems about BaileysSession, for every value of its constants.        *)
(*                                                                         *)
(* TypeOK and OutcomeIsAwaited need each other and one fact more, that an  *)
(* open started by a call is of the session of that call: together they    *)
(* are CallInv, proved first.  Given the types, TimerEntryIsArmed and      *)
(* MapHoldsOwnSockets are inductive each by itself; ClosedSocketLeavesMap  *)
(* needs both; the workspace loop (LoopInv) needs the timers and two facts *)
(* about the order of the boot and the steps of an automatic open.         *)
(***************************************************************************)
EXTENDS BaileysSession, TLAPS

SockType == {Free} \cup [owner : Sessions, conn : {"connecting", "open", "closed", "lost"}]
TaskType == {Idle} \cup [pc : Pcs, sid : Sessions, origin : Origins]
                   \cup [pc : {"creating", "created"}, sid : Sessions, origin : Taken]
CallType == {NoRequest} \cup
            [pc : {"saving", "starting", "ending", "reloading", "waiting", "qr", "open"},
             sid : Sessions, kind : {"connect", "reconnect", "replace"}]

-----------------------------------------------------------------------------
(* The pieces shared by the flows keep their types.                        *)

LEMMA TaskOf ==
    ASSUME TypeOK, NEW t \in Tasks,
           task[t].pc # "idle", task[t].pc # "creating", task[t].pc # "created"
    PROVE  /\ task[t] \in [pc : Pcs, sid : Sessions, origin : Origins]
           /\ task[t].sid \in Sessions
           /\ task[t].origin \in Origins
  BY DEF TypeOK, Idle

LEMMA PromotionOf ==
    ASSUME TypeOK, NEW t \in Promotions
    PROVE  /\ t \in Tasks
           /\ task[t] \in [pc : {"creating", "created"}, sid : Sessions, origin : Taken]
           /\ task[t].sid \in Sessions
           /\ task[t].origin \in Taken
  BY DEF TypeOK, Idle, Pcs, Promotions

LEMMA SockOf ==
    ASSUME TypeOK, NEW k \in Socks, sock[k].conn # "none"
    PROVE  /\ sock[k] \in [owner : Sessions, conn : {"connecting", "open", "closed", "lost"}]
           /\ sock[k].owner \in Sessions
  BY DEF TypeOK, Free

LEMMA CallOf ==
    ASSUME TypeOK, NEW c \in Calls, call[c].pc # "idle"
    PROVE  /\ call[c] \in [pc : {"saving", "starting", "ending", "reloading", "waiting", "qr", "open"},
                            sid : Sessions, kind : {"connect", "reconnect", "replace"}]
           /\ call[c].sid \in Sessions
  BY DEF TypeOK, NoRequest

LEMMA WithoutTimerType ==
    ASSUME TypeOK, NEW s \in Sessions
    PROVE  WithoutTimer(s) \in [Tasks -> TaskType]
  BY DEF TypeOK, WithoutTimer, TaskType

LEMMA DisposeType ==
    ASSUME TypeOK, NEW s \in Sessions, Dispose(s)
    PROVE  /\ sock' \in [Socks -> SockType]
           /\ sockets' \in [Sessions -> Socks \cup {NoSock}]
  BY DEF TypeOK, Dispose, Disposed, SockType

LEMMA ClearTimerType ==
    ASSUME TypeOK, NEW s \in Sessions, ClearTimer(s)
    PROVE  timerOf' \in [Sessions -> Tasks \cup {NoTask}]
  BY DEF TypeOK, ClearTimer

LEMMA BeginOpenType ==
    ASSUME TypeOK, NEW t \in Tasks, NEW s \in Sessions, NEW o \in Origins, BeginOpen(t, s, o)
    PROVE  /\ sock' \in [Socks -> SockType]
           /\ sockets' \in [Sessions -> Socks \cup {NoSock}]
           /\ timerOf' \in [Sessions -> Tasks \cup {NoTask}]
           /\ task' \in [Tasks -> TaskType]
  BY DisposeType, ClearTimerType, WithoutTimerType
     DEF BeginOpen, EndSocketSession, TaskType, Task, Pcs

LEMMA ScheduleReconnectType ==
    ASSUME TypeOK, NEW t \in Tasks, NEW s \in Sessions, ScheduleReconnect(t, s)
    PROVE  /\ timerOf' \in [Sessions -> Tasks \cup {NoTask}]
           /\ task' \in [Tasks -> TaskType]
  BY ClearTimerType, WithoutTimerType
     DEF ScheduleReconnect, TaskType, Task, Pcs, Origins

LEMMA FinishType ==
    ASSUME TypeOK, NEW t \in Tasks, Finish(t)
    PROVE  task' \in [Tasks -> TaskType]
  BY DEF TypeOK, Finish, TaskType

LEMMA ResumeType ==
    ASSUME TypeOK, NEW t \in Tasks, NEW p \in Pcs, Resume(t, p),
           task[t].pc # "idle", task[t].pc # "creating", task[t].pc # "created"
    PROVE  task' \in [Tasks -> TaskType]
  BY TaskOf DEF TypeOK, Resume, TaskType

LEMMA WriteType ==
    ASSUME TypeOK, NEW s \in Sessions, NEW v \in Persisted, Write(s, v)
    PROVE  status' \in [Sessions -> Persisted \cup {"absent", "deleted"}]
  BY DEF TypeOK, Write

LEMMA SettleType ==
    ASSUME TypeOK, NEW s \in Sessions, NEW p \in {"rejected", "qr", "open"}, Settle(s, p),
           outcome[s] \in Calls => call[outcome[s]].pc # "idle"
    PROVE  /\ outcome' \in [Sessions -> Calls \cup {NoCall}]
           /\ call' \in [Calls -> CallType]
  BY CallOf DEF TypeOK, Settle, CallType

(* Ending the pairing leaves every flow where it is; what changes is only  *)
(* what a promotion holds.                                                 *)
LEMMA EndPairingKeeps ==
    ASSUME TypeOK, EndPairing
    PROVE  /\ task' \in [Tasks -> TaskType]
           /\ \A u \in Tasks :
                 /\ task'[u].pc = task[u].pc
                 /\ task'[u].sid = task[u].sid
                 /\ task'[u] = task[u] \/ (u \in Promotions /\ task'[u].origin = "lost")
  <1>1. PICK D \in SUBSET Promotions : task' = Lost(D)
    BY DEF EndPairing
  <1>2. \A u \in D : /\ u \in Tasks
                    /\ [task[u] EXCEPT !.origin = "lost"] \in TaskType
                    /\ [task[u] EXCEPT !.origin = "lost"].pc = task[u].pc
                    /\ [task[u] EXCEPT !.origin = "lost"].sid = task[u].sid
                    /\ [task[u] EXCEPT !.origin = "lost"].origin = "lost"
    BY PromotionOf DEF TaskType, Taken
  <1>3. \A u \in Tasks : task'[u] = IF u \in D THEN [task[u] EXCEPT !.origin = "lost"] ELSE task[u]
    BY <1>1 DEF Lost
  <1>4. task' \in [Tasks -> TaskType]
    BY <1>1, <1>2 DEF TypeOK, Lost, TaskType
  <1> QED
    BY <1>2, <1>3, <1>4

-----------------------------------------------------------------------------
(* Type correctness and OutcomeIsAwaited need each other: settling the     *)
(* promise of a call that is over would put a call in no state at all.     *)
(* OpenOfItsCall is the strengthening both need: the open a call started   *)
(* is for the call's session, although the slot may be idle by then.       *)
OpenOfItsCall ==
    \A t \in Tasks : LET c == task[t].origin IN
        c \in Calls /\ call[c] # NoRequest => call[c].sid = task[t].sid

CallInv == TypeOK /\ OutcomeIsAwaited /\ OpenOfItsCall

LEMMA OutcomeOf ==
    ASSUME CallInv, NEW s \in Sessions
    PROVE  outcome[s] \in Calls => call[outcome[s]].pc # "idle"
  BY ConstantsOK DEF ConstantsOK, CallInv, TypeOK, OutcomeIsAwaited


LEMMA EmptyMaps ==
    /\ [s \in Sessions |-> NoSock] \in [Sessions -> Socks \cup {NoSock}]
    /\ [k \in Socks |-> Free] \in [Socks -> SockType]
    /\ [s \in Sessions |-> NoTask] \in [Sessions -> Tasks \cup {NoTask}]
    /\ [t \in Tasks |-> Idle] \in [Tasks -> TaskType]
    /\ [s \in Sessions |-> NoCall] \in [Sessions -> Calls \cup {NoCall}]
    /\ [c \in Calls |-> NoRequest] \in [Calls -> CallType]
  BY DEF SockType, TaskType, CallType

LEMMA InitType == Init => TypeOK
  <1> SUFFICES ASSUME Init PROVE TypeOK
    OBVIOUS
  <1>1. status \in [Sessions -> Persisted \cup {"absent", "deleted"}]
    BY DEF Init, Persisted
  <1>2. restarts \in 0..MaxRestarts
    BY ConstantsOK DEF ConstantsOK, Init
  <1> QED
    BY <1>1, <1>2, EmptyMaps DEF Init, TypeOK, SockType, TaskType, CallType

LEMMA TypeRestart ==
    ASSUME TypeOK, Restart
    PROVE  TypeOK'
  <1>1. restarts' \in 0..MaxRestarts
    BY ConstantsOK DEF ConstantsOK, TypeOK, Restart
  <1> QED
    BY <1>1, EmptyMaps DEF Restart, TypeOK, SockType, TaskType, CallType, db

LEMMA TypeOpening ==
    ASSUME CallInv, Opening
    PROVE  TypeOK'
  <1> USE DEF CallInv, TypeOK, SockType, TaskType, CallType
  <1>1. ASSUME NEW t \in Tasks, OpenFailsRecover(t) PROVE TypeOK'
    BY <1>1, TaskOf, ScheduleReconnectType, FinishType
       DEF OpenFailsRecover, At, db, calls, ws, qr, life
  <1>2. ASSUME NEW t \in Tasks, OpenFailsAfterTimer(t) PROVE TypeOK'
    BY <1>2, ResumeType DEF OpenFailsAfterTimer, At, Pcs, db, maps, calls, ws, qr, life
  <1>3. ASSUME NEW t \in Tasks, OpenFailsForCall(t) PROVE TypeOK'
    BY <1>3, FinishType DEF OpenFailsForCall, NoRequest, db, maps, ws, qr, life
  <1>4. ASSUME NEW t \in Tasks, OpenFailsForWorkspace(t) PROVE TypeOK'
    BY <1>4, FinishType DEF OpenFailsForWorkspace, db, maps, calls, qr, life
  <1>5. ASSUME NEW t \in Tasks, NEW k \in Socks, BindSocket(t, k)
        PROVE  TypeOK'
    BY <1>5, TaskOf, FinishType DEF BindSocket, At, Registered, Sock, db, calls, qr, life
  <1> QED
    BY <1>1, <1>2, <1>3, <1>4, <1>5 DEF Opening, OpenFails

LEMMA TypeReconnecting ==
    ASSUME CallInv, Reconnecting
    PROVE  TypeOK'
  <1> USE DEF CallInv, TypeOK, SockType, TaskType, CallType
  <1>1. ASSUME NEW t \in Tasks, WriteReconnecting(t) PROVE TypeOK'
    BY <1>1, TaskOf, WriteType, ResumeType
       DEF WriteReconnecting, At, Pcs, Persisted, maps, calls, ws, qr, life
  <1>2. ASSUME NEW t \in Tasks, ArmTimer(t) PROVE TypeOK'
    BY <1>2, TaskOf, ResumeType DEF ArmTimer, At, Pcs, db, calls, ws, qr, life
  <1>3. ASSUME NEW t \in Tasks, TimerFires(t) PROVE TypeOK'
    BY <1>3, TaskOf, ClearTimerType, ResumeType DEF TimerFires, At, Pcs, db, calls, ws, qr, life
  <1>4. ASSUME NEW t \in Tasks, LoadSession(t) PROVE TypeOK'
    BY <1>4, TaskOf, BeginOpenType, ResumeType
       DEF LoadSession, At, Pcs, Origins, db, maps, calls, ws, qr, life
  <1>5. ASSUME NEW t \in Tasks, RetryOrAbandon(t) PROVE TypeOK'
    BY <1>5, TaskOf, ScheduleReconnectType, FinishType
       DEF RetryOrAbandon, At, db, calls, ws, qr, life
  <1> QED
    BY <1>1, <1>2, <1>3, <1>4, <1>5 DEF Reconnecting

LEMMA TypeEvents ==
    ASSUME CallInv, Events
    PROVE  TypeOK'
  <1> USE DEF CallInv, TypeOK, SockType, TaskType, CallType
  <1>1. ASSUME NEW k \in Socks, QrEvent(k) PROVE TypeOK'
    BY <1>1, SockOf, OutcomeOf, SettleType DEF QrEvent, db, maps, ws, qr, life
  <1>2. ASSUME NEW k \in Socks, NEW t \in Tasks, OpenEvent(k, t) PROVE TypeOK'
    BY <1>2, SockOf, ClearTimerType, WithoutTimerType
       DEF OpenEvent, Task, TaskType, Pcs, Origins, db, calls, qr, life
  <1>3. ASSUME NEW k \in Socks, NEW t \in Tasks, CloseEvent(k, t)
        PROVE  TypeOK'
    BY <1>3, SockOf, OutcomeOf, SettleType, ScheduleReconnectType
       DEF CloseEvent, Disposed, db, ws, qr, life
  <1>4. ASSUME NEW k \in Socks, NEW t \in Tasks, LoggedOutEvent(k, t)
        PROVE  TypeOK'
    BY <1>4, SockOf, OutcomeOf, SettleType DEF LoggedOutEvent, Task, Pcs, Origins, db, ws, qr, life
  <1>5. ASSUME NEW t \in Tasks, FindConnected(t) PROVE TypeOK'
    BY <1>5, ResumeType DEF FindConnected, At, Pcs, db, maps, calls, ws, qr, life
  <1>6. ASSUME NEW t \in Tasks, SaveConnected(t) PROVE TypeOK'
    BY <1>6, TaskOf, WriteType, ResumeType, FinishType, DisposeType
       DEF SaveConnected, At, Pcs, Persisted, HasRow, calls, ws, qr, life
  <1>7. ASSUME NEW t \in Tasks, AfterConnected(t) PROVE TypeOK'
    BY <1>7, TaskOf, OutcomeOf, SettleType, FinishType
       DEF AfterConnected, At, db, maps, ws, qr, life
  <1>8. ASSUME NEW t \in Tasks, FindFailed(t) PROVE TypeOK'
    BY <1>8, ResumeType DEF FindFailed, At, Pcs, db, maps, calls, ws, qr, life
  <1>9. ASSUME NEW t \in Tasks, SaveFailed(t) PROVE TypeOK'
    BY <1>9, TaskOf, WriteType, ResumeType
       DEF SaveFailed, At, Pcs, Persisted, maps, calls, ws, qr, life
  <1>10. ASSUME NEW t \in Tasks, AfterFailed(t) PROVE TypeOK'
    BY <1>10, TaskOf, DisposeType, FinishType DEF AfterFailed, At, db, calls, ws, qr, life
  <1> QED
    BY <1>1, <1>2, <1>3, <1>4, <1>5, <1>6, <1>7, <1>8, <1>9, <1>10 DEF Events

LEMMA TypeCron ==
    ASSUME CallInv, Cron
    PROVE  TypeOK'
  <1> USE DEF CallInv, TypeOK, SockType, TaskType, CallType
  <1>1. ASSUME CronTick PROVE TypeOK'
    BY <1>1 DEF CronTick, ActiveRows, db, maps, calls, ws, qr, life
  <1>2. ASSUME NEW s \in Sessions, CronSkips(s) PROVE TypeOK'
    BY <1>2 DEF CronSkips, db, maps, calls, ws, qr, life
  <1>3. ASSUME NEW s \in Sessions, NEW t \in Tasks, CronOpens(s, t)
        PROVE  TypeOK'
    BY <1>3, BeginOpenType DEF CronOpens, Origins, db, calls, ws, qr, life
  <1> QED
    BY <1>1, <1>2, <1>3 DEF Cron

LEMMA TypeBootstrap ==
    ASSUME CallInv, Bootstrap
    PROVE  TypeOK'
  <1> USE DEF CallInv, TypeOK, SockType, TaskType, CallType
  <1>1. ASSUME BootSessions PROVE TypeOK'
    BY <1>1 DEF BootSessions, ActiveRows, db, maps, calls, ws, qr
  <1>2. ASSUME BootListsWorkspaces PROVE TypeOK'
    BY <1>2 DEF BootListsWorkspaces, db, maps, calls, ws, qr
  <1>3. ASSUME BootWorkspaces PROVE TypeOK'
    BY <1>3 DEF BootWorkspaces, EnsureWorkspace, db, maps, calls, qr
  <1>4. ASSUME NEW s \in Sessions, NEW t \in Tasks, BootOpens(s, t)
        PROVE  TypeOK'
    BY <1>4, BeginOpenType DEF BootOpens, Origins, db, calls, ws, qr
  <1>5. ASSUME WorkspaceRegisters PROVE TypeOK'
    BY <1>5 DEF WorkspaceRegisters, ActiveRows, db, maps, calls, ws, qr
  <1> QED
    BY <1>1, <1>2, <1>3, <1>4, <1>5 DEF Bootstrap

LEMMA TypeWorkspace ==
    ASSUME CallInv, Workspace
    PROVE  TypeOK'
  <1> USE DEF CallInv, TypeOK, SockType, TaskType, CallType
  <1>1. ASSUME WorkspaceLists PROVE TypeOK'
    BY <1>1 DEF WorkspaceLists, ActiveRows, db, maps, calls, qr, life
  <1>2. ASSUME WorkspaceDone PROVE TypeOK'
    BY <1>2 DEF WorkspaceDone, db, maps, calls, qr, life
  <1>3. ASSUME WorkspaceRetryFires PROVE TypeOK'
    BY <1>3 DEF WorkspaceRetryFires, EnsureWorkspace, db, maps, calls, qr, life
  <1>4. ASSUME NEW s \in Sessions, WorkspaceSkips(s) PROVE TypeOK'
    BY <1>4 DEF WorkspaceSkips, db, maps, calls, qr, life
  <1>5. ASSUME NEW s \in Sessions, NEW t \in Tasks, WorkspaceOpens(s, t)
        PROVE  TypeOK'
    BY <1>5, BeginOpenType DEF WorkspaceOpens, Origins, db, calls, qr, life
  <1> QED
    BY <1>1, <1>2, <1>3, <1>4, <1>5 DEF Workspace

LEMMA TypeRows ==
    ASSUME CallInv, Rows
    PROVE  TypeOK'
  <1> USE DEF CallInv, TypeOK, SockType, TaskType, CallType
  <1>1. ASSUME NEW s \in Sessions, CreateSession(s) PROVE TypeOK'
    BY <1>1 DEF CreateSession, Persisted, maps, calls, ws, qr, life
  <1>2. ASSUME NEW s \in Sessions, DeleteSession(s) PROVE TypeOK'
    BY <1>2 DEF DeleteSession, maps, calls, ws, qr, life
  <1>3. ASSUME NEW s \in Sessions, NEW v \in Persisted, PatchSession(s, v)
        PROVE  TypeOK'
    BY <1>3 DEF PatchSession, maps, calls, ws, qr, life
  <1> QED
    BY <1>1, <1>2, <1>3 DEF Rows

LEMMA TypeRequests ==
    ASSUME CallInv, Requests
    PROVE  TypeOK'
  <1> USE DEF CallInv, TypeOK, SockType, TaskType, CallType
  <1>1. ASSUME NEW s \in Sessions, NEW t \in Tasks, Disconnect(s, t)
        PROVE  TypeOK'
    BY <1>1, ClearTimerType, DisposeType, WithoutTimerType
       DEF Disconnect, EndSocketSession, Task, TaskType, Pcs, Origins, db,
           calls, ws, qr, life
  <1>2. ASSUME NEW t \in Tasks, SaveDisconnected(t) PROVE TypeOK'
    BY <1>2, TaskOf, WriteType, FinishType
       DEF SaveDisconnected, At, Persisted, maps, calls, ws, qr, life
  <1>3. ASSUME NEW c \in Calls, NEW s \in Sessions, NEW kind \in {"connect", "reconnect", "replace"}, CallStart(c, s, kind)
        PROVE  TypeOK'
    BY <1>3 DEF CallStart, Call, db, maps, ws, qr, life
  <1>4. ASSUME NEW c \in Calls, CallSaves(c) PROVE TypeOK'
    BY <1>4, CallOf, WriteType DEF CallSaves, Persisted, maps, ws, qr, life
  <1>5. ASSUME NEW c \in Calls, CallEnds(c) PROVE TypeOK'
    <2>1. call[c].sid \in Sessions /\ call' \in [Calls -> CallType]
      BY <1>5, CallOf DEF CallEnds
    <2>2. /\ timerOf' \in [Sessions -> Tasks \cup {NoTask}]
          /\ sock' \in [Socks -> SockType]
          /\ sockets' \in [Sessions -> Socks \cup {NoSock}]
          /\ task' \in [Tasks -> TaskType]
      BY <1>5, <2>1, ClearTimerType, DisposeType, WithoutTimerType DEF CallEnds, EndSocketSession
    <2> QED
      BY <1>5, <2>1, <2>2 DEF CallEnds, db, ws, qr, life
  <1>6. ASSUME NEW c \in Calls, CallReloads(c) PROVE TypeOK'
    BY <1>6, CallOf DEF CallReloads, Write, Persisted, maps, ws, qr, life
  <1>7. ASSUME NEW c \in Calls, CallFinishes(c) PROVE TypeOK'
    BY <1>7, CallOf, WriteType DEF CallFinishes, Persisted, maps, ws, qr, life
  <1>8. ASSUME NEW c \in Calls, NEW t \in Tasks, CallConnects(c, t)
        PROVE  TypeOK'
    BY <1>8, CallOf, BeginOpenType DEF CallConnects, Origins, db, ws, qr, life
  <1>9. ASSUME QrRequest PROVE TypeOK'
    BY <1>9, EndPairingKeeps DEF QrRequest, EndPairing, ActiveRows, db, maps, calls, ws, life
  <1>10. ASSUME NEW s \in Sessions, QrEnds(s) PROVE TypeOK'
    BY <1>10, ClearTimerType, DisposeType, WithoutTimerType
       DEF QrEnds, EndSocketSession, db, calls, ws, life
  <1>11. ASSUME NEW s \in Sessions, QrDeactivates(s) PROVE TypeOK'
    BY <1>11, WriteType DEF QrDeactivates, Persisted, maps, calls, ws, life
  <1> QED
    BY <1>1, <1>2, <1>3, <1>4, <1>5, <1>6, <1>7, <1>8, <1>9, <1>10, <1>11 DEF Requests

LEMMA TypePairing ==
    ASSUME CallInv, Pairing
    PROVE  TypeOK'
  <1> USE DEF CallInv, TypeOK, SockType, TaskType, CallType
  <1>1. ASSUME PairingStarts PROVE TypeOK'
    BY <1>1 DEF PairingStarts, db, maps, calls, ws, life
  <1>2. ASSUME PairingEnds PROVE TypeOK'
    BY <1>2, EndPairingKeeps DEF PairingEnds, EndPairing, db, maps, calls, ws, life
  <1>3. ASSUME NEW s \in Sessions, NEW t \in Tasks, PairingOpens(s, t) PROVE TypeOK'
    BY <1>3 DEF PairingOpens, Task, Taken, db, maps, calls, life
  <1>4. ASSUME NEW t \in Tasks, PromotionCreates(t) PROVE TypeOK'
    <2>1. task[t] \in [pc : {"creating", "created"}, sid : Sessions, origin : Taken]
      BY <1>4, PromotionOf DEF PromotionCreates, At, Promotions
    <2> QED
      BY <1>4, <2>1 DEF PromotionCreates, Resume, Persisted, maps, calls, ws, qr, life
  <1>5. ASSUME NEW t \in Tasks, PromotionFails(t) PROVE TypeOK'
    BY <1>5, FinishType DEF PromotionFails, db, maps, calls, ws, life
  <1>6. ASSUME NEW t \in Tasks, NEW k \in Socks, PromotionStores(t, k) PROVE TypeOK'
    <2>1. task[t].sid \in Sessions /\ task[t].origin \in Taken
      BY <1>6, PromotionOf DEF PromotionStores, At, Promotions
    <2>2. sock' \in [Socks -> SockType]
      BY <1>6, <2>1 DEF PromotionStores, Registered, Sock, Taken
    <2> QED
      BY <1>6, <2>1, <2>2, FinishType DEF PromotionStores, db, calls, ws, life
  <1> QED
    BY <1>1, <1>2, <1>3, <1>4, <1>5, <1>6 DEF Pairing

-----------------------------------------------------------------------------
(* The bookkeeping of requests.                                            *)

(* The flows that remain the open of a call were it before the step.       *)
NoNewCallOpen ==
    \A u \in Tasks : task'[u].origin \in Calls =>
        task'[u].origin = task[u].origin /\ task'[u].sid = task[u].sid

LEMMA BeginOpenCalls ==
    ASSUME TypeOK, NEW t \in Tasks, NEW s \in Sessions, NEW p, p \notin Calls, BeginOpen(t, s, p)
    PROVE  NoNewCallOpen
  BY ConstantsOK DEF ConstantsOK, TypeOK, NoNewCallOpen, BeginOpen, WithoutTimer, Task, Idle

LEMMA ScheduleReconnectCalls ==
    ASSUME TypeOK, NEW t \in Tasks, NEW s \in Sessions, ScheduleReconnect(t, s)
    PROVE  NoNewCallOpen
  BY ConstantsOK DEF ConstantsOK, TypeOK, NoNewCallOpen, ScheduleReconnect, WithoutTimer, Task, Idle

LEMMA FinishCalls ==
    ASSUME TypeOK, NEW t \in Tasks, Finish(t)
    PROVE  NoNewCallOpen
  BY ConstantsOK DEF ConstantsOK, TypeOK, NoNewCallOpen, Finish, Idle

LEMMA ResumeCalls ==
    ASSUME TypeOK, NEW t \in Tasks, NEW p, Resume(t, p)
    PROVE  NoNewCallOpen
  BY DEF TypeOK, NoNewCallOpen, Resume

LEMMA SettleCalls ==
    ASSUME CallInv, NEW s \in Sessions, NEW p \in {"rejected", "qr", "open"}, Settle(s, p),
           NoNewCallOpen
    PROVE  OutcomeIsAwaited' /\ OpenOfItsCall'
  <1>1. OutcomeIsAwaited'
    BY ConstantsOK DEF ConstantsOK, CallInv, TypeOK, OutcomeIsAwaited, Settle
  <1>2. \A c \in Calls : call'[c] # NoRequest => call[c] # NoRequest /\ call'[c].sid = call[c].sid
    BY ConstantsOK, OutcomeOf DEF ConstantsOK, CallInv, TypeOK, OutcomeIsAwaited, Settle, NoRequest
  <1>3. OpenOfItsCall'
    BY <1>2 DEF CallInv, OpenOfItsCall, NoNewCallOpen
  <1> QED BY <1>1, <1>3

LEMMA QuietCalls ==
    ASSUME CallInv, NoNewCallOpen, UNCHANGED calls
    PROVE  OutcomeIsAwaited' /\ OpenOfItsCall'
  BY DEF CallInv, OutcomeIsAwaited, OpenOfItsCall, NoNewCallOpen, calls

LEMMA CallsOpening ==
    ASSUME CallInv, Opening
    PROVE  OutcomeIsAwaited' /\ OpenOfItsCall'
  <1> USE ConstantsOK DEF ConstantsOK, CallInv, TypeOK, OutcomeIsAwaited, OpenOfItsCall, Idle,
               NoRequest
  <1>1. ASSUME NEW t \in Tasks, OpenFailsRecover(t)
        PROVE  OutcomeIsAwaited' /\ OpenOfItsCall'
    <2>1. CASE task[t].sid \in AutoReconnect
      <3>1. ScheduleReconnect(t, task[t].sid)
        BY <1>1, <2>1 DEF OpenFailsRecover
      <3> QED BY <1>1, <3>1, TaskOf, ScheduleReconnectCalls, QuietCalls DEF OpenFailsRecover, At, CallInv
    <2>2. CASE ~(task[t].sid \in AutoReconnect)
      <3>1. Finish(t) /\ UNCHANGED timerOf
        BY <1>1, <2>2 DEF OpenFailsRecover
      <3> QED BY <1>1, <3>1, FinishCalls, QuietCalls DEF OpenFailsRecover, CallInv
    <2> QED BY <2>1, <2>2
  <1>2. ASSUME NEW t \in Tasks, OpenFailsAfterTimer(t)
        PROVE  OutcomeIsAwaited' /\ OpenOfItsCall'
    BY <1>2 DEF OpenFailsAfterTimer, At, Resume, calls
  <1>3. ASSUME NEW t \in Tasks, OpenFailsForCall(t)
        PROVE  OutcomeIsAwaited' /\ OpenOfItsCall'
    BY <1>3 DEF OpenFailsForCall, At, Finish, Resume
  <1>4. ASSUME NEW t \in Tasks, OpenFailsForWorkspace(t)
        PROVE  OutcomeIsAwaited' /\ OpenOfItsCall'
    BY <1>4 DEF OpenFailsForWorkspace, At, Finish, Resume, calls
  <1>5. ASSUME NEW t \in Tasks, NEW k \in Socks, BindSocket(t, k)
        PROVE  OutcomeIsAwaited' /\ OpenOfItsCall'
    BY <1>5, TaskOf DEF BindSocket, At, Finish, Resume, calls
  <1> QED
    BY <1>1, <1>2, <1>3, <1>4, <1>5 DEF Opening, OpenFails

LEMMA CallsReconnecting ==
    ASSUME CallInv, Reconnecting
    PROVE  OutcomeIsAwaited' /\ OpenOfItsCall'
  <1> USE ConstantsOK DEF ConstantsOK, CallInv, TypeOK, OutcomeIsAwaited, OpenOfItsCall, Idle,
               NoRequest
  <1>1. ASSUME NEW t \in Tasks, WriteReconnecting(t)
        PROVE  OutcomeIsAwaited' /\ OpenOfItsCall'
    BY <1>1, TaskOf DEF WriteReconnecting, At, Resume, calls
  <1>2. ASSUME NEW t \in Tasks, ArmTimer(t)
        PROVE  OutcomeIsAwaited' /\ OpenOfItsCall'
    BY <1>2, TaskOf DEF ArmTimer, At, Resume, calls
  <1>3. ASSUME NEW t \in Tasks, TimerFires(t)
        PROVE  OutcomeIsAwaited' /\ OpenOfItsCall'
    BY <1>3, TaskOf DEF TimerFires, At, Resume, calls
  <1>4. ASSUME NEW t \in Tasks, LoadSession(t)
        PROVE  OutcomeIsAwaited' /\ OpenOfItsCall'
    <2>1. CASE HasRow(task[t].sid)
      <3>1. BeginOpen(t, task[t].sid, "timer")
        BY <1>4, <2>1 DEF LoadSession
      <3> QED BY <1>4, <3>1, TaskOf, BeginOpenCalls, QuietCalls, ConstantsOK DEF LoadSession, At, Origins, CallInv, ConstantsOK
    <2>2. CASE ~HasRow(task[t].sid)
      <3>1. Resume(t, "refind") /\ UNCHANGED maps
        BY <1>4, <2>2 DEF LoadSession
      <3> QED BY <1>4, <3>1, ResumeCalls, QuietCalls DEF LoadSession, At, maps, CallInv, ConstantsOK
    <2> QED BY <2>1, <2>2
  <1>5. ASSUME NEW t \in Tasks, RetryOrAbandon(t)
        PROVE  OutcomeIsAwaited' /\ OpenOfItsCall'
    <2>1. CASE HasRow(task[t].sid) /\ task[t].sid \in AutoReconnect
      <3>1. ScheduleReconnect(t, task[t].sid)
        BY <1>5, <2>1 DEF RetryOrAbandon
      <3> QED BY <1>5, <3>1, TaskOf, ScheduleReconnectCalls, QuietCalls DEF RetryOrAbandon, At, CallInv
    <2>2. CASE ~(HasRow(task[t].sid) /\ task[t].sid \in AutoReconnect)
      <3>1. Finish(t) /\ UNCHANGED timerOf
        BY <1>5, <2>2 DEF RetryOrAbandon
      <3> QED BY <1>5, <3>1, FinishCalls, QuietCalls DEF RetryOrAbandon, CallInv
    <2> QED BY <2>1, <2>2
  <1> QED
    BY <1>1, <1>2, <1>3, <1>4, <1>5 DEF Reconnecting

LEMMA CallsEvents ==
    ASSUME CallInv, Events
    PROVE  OutcomeIsAwaited' /\ OpenOfItsCall'
  <1> USE ConstantsOK DEF ConstantsOK, CallInv, TypeOK, OutcomeIsAwaited, OpenOfItsCall, Idle,
               NoRequest
  <1>1. ASSUME NEW k \in Socks, QrEvent(k)
        PROVE  OutcomeIsAwaited' /\ OpenOfItsCall'
    BY <1>1, SockOf DEF QrEvent, Settle
  <1>2. ASSUME NEW k \in Socks, NEW t \in Tasks, OpenEvent(k, t)
        PROVE  OutcomeIsAwaited' /\ OpenOfItsCall'
    BY <1>2, SockOf DEF OpenEvent, Task, WithoutTimer, calls
  <1>3. ASSUME NEW k \in Socks, NEW t \in Tasks, CloseEvent(k, t)
        PROVE  OutcomeIsAwaited' /\ OpenOfItsCall'
    <2>1. sock[k].owner \in Sessions
      BY <1>3, SockOf DEF CallInv, CloseEvent
    <2> QED
      BY <1>3, <2>1, ScheduleReconnectCalls, SettleCalls DEF CloseEvent, CallInv
  <1>4. ASSUME NEW k \in Socks, NEW t \in Tasks, LoggedOutEvent(k, t)
        PROVE  OutcomeIsAwaited' /\ OpenOfItsCall'
    BY <1>4, SockOf DEF LoggedOutEvent, Settle, Task
  <1>5. ASSUME NEW t \in Tasks, FindConnected(t)
        PROVE  OutcomeIsAwaited' /\ OpenOfItsCall'
    BY <1>5 DEF FindConnected, At, Resume, calls
  <1>6. ASSUME NEW t \in Tasks, SaveConnected(t)
        PROVE  OutcomeIsAwaited' /\ OpenOfItsCall'
    <2>1. NoNewCallOpen
      BY <1>6, FinishCalls, ResumeCalls DEF SaveConnected
    <2> QED BY <1>6, <2>1, QuietCalls DEF SaveConnected
  <1>7. ASSUME NEW t \in Tasks, AfterConnected(t)
        PROVE  OutcomeIsAwaited' /\ OpenOfItsCall'
    BY <1>7, TaskOf DEF AfterConnected, At, Finish, Resume, Settle
  <1>8. ASSUME NEW t \in Tasks, FindFailed(t)
        PROVE  OutcomeIsAwaited' /\ OpenOfItsCall'
    BY <1>8 DEF FindFailed, At, Resume, calls
  <1>9. ASSUME NEW t \in Tasks, SaveFailed(t)
        PROVE  OutcomeIsAwaited' /\ OpenOfItsCall'
    BY <1>9, TaskOf DEF SaveFailed, At, Resume, calls
  <1>10. ASSUME NEW t \in Tasks, AfterFailed(t)
        PROVE  OutcomeIsAwaited' /\ OpenOfItsCall'
    BY <1>10, TaskOf DEF AfterFailed, At, Finish, Resume, calls
  <1> QED
    BY <1>1, <1>2, <1>3, <1>4, <1>5, <1>6, <1>7, <1>8, <1>9, <1>10 DEF Events

LEMMA CallsCron ==
    ASSUME CallInv, Cron
    PROVE  OutcomeIsAwaited' /\ OpenOfItsCall'
  <1> USE ConstantsOK DEF ConstantsOK, CallInv, TypeOK, OutcomeIsAwaited, OpenOfItsCall, Idle,
               NoRequest
  <1>1. ASSUME CronTick PROVE OutcomeIsAwaited' /\ OpenOfItsCall'
    BY <1>1 DEF CronTick, calls
  <1>2. ASSUME NEW s \in Sessions, CronSkips(s)
        PROVE  OutcomeIsAwaited' /\ OpenOfItsCall'
    BY <1>2 DEF CronSkips, calls
  <1>3. ASSUME NEW s \in Sessions, NEW t \in Tasks, CronOpens(s, t)
        PROVE  OutcomeIsAwaited' /\ OpenOfItsCall'
    BY <1>3 DEF CronOpens, BeginOpen, Task, WithoutTimer, calls
  <1> QED
    BY <1>1, <1>2, <1>3 DEF Cron

LEMMA CallsBootstrap ==
    ASSUME CallInv, Bootstrap
    PROVE  OutcomeIsAwaited' /\ OpenOfItsCall'
  <1> USE ConstantsOK DEF ConstantsOK, CallInv, TypeOK, OutcomeIsAwaited, OpenOfItsCall, Idle,
               NoRequest
  <1>1. ASSUME BootSessions PROVE OutcomeIsAwaited' /\ OpenOfItsCall'
    BY <1>1 DEF BootSessions, calls
  <1>2. ASSUME BootListsWorkspaces PROVE OutcomeIsAwaited' /\ OpenOfItsCall'
    BY <1>2 DEF BootListsWorkspaces, calls
  <1>3. ASSUME BootWorkspaces PROVE OutcomeIsAwaited' /\ OpenOfItsCall'
    BY <1>3 DEF BootWorkspaces, calls
  <1>4. ASSUME NEW s \in Sessions, NEW t \in Tasks, BootOpens(s, t)
        PROVE  OutcomeIsAwaited' /\ OpenOfItsCall'
    BY <1>4 DEF BootOpens, BeginOpen, Task, WithoutTimer, calls
  <1>5. ASSUME WorkspaceRegisters PROVE OutcomeIsAwaited' /\ OpenOfItsCall'
    BY <1>5 DEF WorkspaceRegisters, calls
  <1> QED
    BY <1>1, <1>2, <1>3, <1>4, <1>5 DEF Bootstrap

LEMMA CallsWorkspace ==
    ASSUME CallInv, Workspace
    PROVE  OutcomeIsAwaited' /\ OpenOfItsCall'
  <1> USE ConstantsOK DEF ConstantsOK, CallInv, TypeOK, OutcomeIsAwaited, OpenOfItsCall, Idle,
               NoRequest
  <1>1. ASSUME WorkspaceLists PROVE OutcomeIsAwaited' /\ OpenOfItsCall'
    BY <1>1 DEF WorkspaceLists, calls
  <1>2. ASSUME WorkspaceDone PROVE OutcomeIsAwaited' /\ OpenOfItsCall'
    BY <1>2 DEF WorkspaceDone, calls
  <1>3. ASSUME WorkspaceRetryFires PROVE OutcomeIsAwaited' /\ OpenOfItsCall'
    BY <1>3 DEF WorkspaceRetryFires, calls
  <1>4. ASSUME NEW s \in Sessions, WorkspaceSkips(s)
        PROVE  OutcomeIsAwaited' /\ OpenOfItsCall'
    BY <1>4 DEF WorkspaceSkips, calls
  <1>5. ASSUME NEW s \in Sessions, NEW t \in Tasks, WorkspaceOpens(s, t)
        PROVE  OutcomeIsAwaited' /\ OpenOfItsCall'
    BY <1>5 DEF WorkspaceOpens, BeginOpen, Task, WithoutTimer, calls
  <1> QED
    BY <1>1, <1>2, <1>3, <1>4, <1>5 DEF Workspace

LEMMA CallsRows ==
    ASSUME CallInv, Rows
    PROVE  OutcomeIsAwaited' /\ OpenOfItsCall'
  <1> USE ConstantsOK DEF ConstantsOK, CallInv, TypeOK, OutcomeIsAwaited, OpenOfItsCall, Idle,
               NoRequest
  <1>1. ASSUME NEW s \in Sessions, CreateSession(s)
        PROVE  OutcomeIsAwaited' /\ OpenOfItsCall'
    BY <1>1 DEF CreateSession, calls
  <1>2. ASSUME NEW s \in Sessions, DeleteSession(s)
        PROVE  OutcomeIsAwaited' /\ OpenOfItsCall'
    BY <1>2 DEF DeleteSession, calls
  <1>3. ASSUME NEW s \in Sessions, NEW v \in Persisted, PatchSession(s, v)
        PROVE  OutcomeIsAwaited' /\ OpenOfItsCall'
    BY <1>3 DEF PatchSession, calls
  <1> QED
    BY <1>1, <1>2, <1>3 DEF Rows

LEMMA CallsRequests ==
    ASSUME CallInv, Requests
    PROVE  OutcomeIsAwaited' /\ OpenOfItsCall'
  <1> USE ConstantsOK DEF ConstantsOK, CallInv, TypeOK, OutcomeIsAwaited, OpenOfItsCall, Idle,
               NoRequest
  <1>1. ASSUME NEW s \in Sessions, NEW t \in Tasks, Disconnect(s, t)
        PROVE  OutcomeIsAwaited' /\ OpenOfItsCall'
    BY <1>1 DEF Disconnect, Task, WithoutTimer, calls
  <1>2. ASSUME NEW t \in Tasks, SaveDisconnected(t)
        PROVE  OutcomeIsAwaited' /\ OpenOfItsCall'
    BY <1>2, TaskOf DEF SaveDisconnected, At, Finish, Resume, calls
  <1>3. ASSUME NEW c \in Calls, NEW s \in Sessions, NEW kind \in {"connect", "reconnect", "replace"}, CallStart(c, s, kind)
        PROVE  OutcomeIsAwaited' /\ OpenOfItsCall'
    BY <1>3 DEF CallStart, Call
  <1>4. ASSUME NEW c \in Calls, CallSaves(c)
        PROVE  OutcomeIsAwaited' /\ OpenOfItsCall'
    BY <1>4, CallOf DEF CallSaves
  <1>5. ASSUME NEW c \in Calls, CallEnds(c)
        PROVE  OutcomeIsAwaited' /\ OpenOfItsCall'
    BY <1>5, CallOf DEF CallEnds, WithoutTimer
  <1>6. ASSUME NEW c \in Calls, CallReloads(c)
        PROVE  OutcomeIsAwaited' /\ OpenOfItsCall'
    BY <1>6, CallOf DEF CallReloads
  <1>7. ASSUME NEW c \in Calls, CallFinishes(c)
        PROVE  OutcomeIsAwaited' /\ OpenOfItsCall'
    BY <1>7, CallOf DEF CallFinishes
  <1>8. ASSUME NEW c \in Calls, NEW t \in Tasks, CallConnects(c, t)
        PROVE  OutcomeIsAwaited' /\ OpenOfItsCall'
    BY <1>8, CallOf DEF CallConnects, BeginOpen, Task, WithoutTimer
  <1>9. ASSUME QrRequest PROVE OutcomeIsAwaited' /\ OpenOfItsCall'
    <2>1. NoNewCallOpen
      BY <1>9, EndPairingKeeps DEF QrRequest, NoNewCallOpen
    <2> QED BY <1>9, <2>1, QuietCalls DEF QrRequest
  <1>10. ASSUME NEW s \in Sessions, QrEnds(s)
        PROVE  OutcomeIsAwaited' /\ OpenOfItsCall'
    BY <1>10 DEF QrEnds, WithoutTimer, calls
  <1>11. ASSUME NEW s \in Sessions, QrDeactivates(s)
        PROVE  OutcomeIsAwaited' /\ OpenOfItsCall'
    BY <1>11 DEF QrDeactivates, calls
  <1> QED
    BY <1>1, <1>2, <1>3, <1>4, <1>5, <1>6, <1>7, <1>8, <1>9, <1>10, <1>11 DEF Requests

LEMMA CallsPairing ==
    ASSUME CallInv, Pairing
    PROVE  OutcomeIsAwaited' /\ OpenOfItsCall'
  <1>1. UNCHANGED calls
    BY DEF Pairing, PairingStarts, PairingEnds, PairingOpens, PromotionCreates,
           PromotionFails, PromotionStores
  <1>2. NoNewCallOpen
    <2>1. CASE PairingStarts
      BY <2>1 DEF PairingStarts, NoNewCallOpen
    <2>2. CASE PairingEnds
      BY <2>2, EndPairingKeeps, ConstantsOK DEF ConstantsOK, CallInv, PairingEnds, NoNewCallOpen
    <2>3. ASSUME NEW s \in Sessions, NEW t \in Tasks, PairingOpens(s, t) PROVE NoNewCallOpen
      BY <2>3, ConstantsOK DEF ConstantsOK, CallInv, TypeOK, PairingOpens, Task, NoNewCallOpen
    <2>4. ASSUME NEW t \in Tasks, PromotionCreates(t) PROVE NoNewCallOpen
      BY <2>4, ResumeCalls DEF CallInv, PromotionCreates
    <2>5. ASSUME NEW t \in Tasks, PromotionFails(t) PROVE NoNewCallOpen
      BY <2>5, FinishCalls DEF CallInv, PromotionFails
    <2>6. ASSUME NEW t \in Tasks, NEW k \in Socks, PromotionStores(t, k) PROVE NoNewCallOpen
      BY <2>6, FinishCalls DEF CallInv, PromotionStores
    <2> QED
      BY <2>1, <2>2, <2>3, <2>4, <2>5, <2>6 DEF Pairing
  <1> QED
    BY <1>1, <1>2, QuietCalls

LEMMA CallInvInductive ==
    /\ Init => CallInv
    /\ CallInv /\ [Next]_vars => CallInv'
  <1>1. Init => CallInv
    <2>1. Init => OutcomeIsAwaited /\ OpenOfItsCall
      BY DEF Init, OutcomeIsAwaited, OpenOfItsCall
    <2> QED BY <2>1, InitType DEF CallInv
  <1>2. ASSUME CallInv, [Next]_vars
        PROVE  CallInv'
    <2> USE <1>2
    <2>1. CASE Next /\ ~Restart
      <3>1. TypeOK'
        BY <2>1, TypeOpening, TypePairing, TypeReconnecting, TypeEvents, TypeCron, TypeBootstrap,
           TypeWorkspace, TypeRows, TypeRequests DEF Next
      <3>2. OutcomeIsAwaited' /\ OpenOfItsCall'
        BY <2>1, CallsOpening, CallsPairing, CallsReconnecting, CallsEvents, CallsCron, CallsBootstrap,
           CallsWorkspace, CallsRows, CallsRequests DEF Next
      <3> QED BY <3>1, <3>2 DEF CallInv
    <2>2. CASE Restart
      <3>1. TypeOK'
        BY <2>2, TypeRestart DEF CallInv
      <3>2. OutcomeIsAwaited' /\ OpenOfItsCall'
        BY <2>2 DEF Restart, OutcomeIsAwaited, OpenOfItsCall
      <3> QED BY <3>1, <3>2 DEF CallInv
    <2>3. CASE UNCHANGED vars
      BY <2>3 DEF CallInv, TypeOK, OutcomeIsAwaited, OpenOfItsCall,
         vars, db, maps, calls, ws, qr, life
    <2> QED BY <2>1, <2>2, <2>3
  <1> QED BY <1>1, <1>2

(* Every variable keeps its type.                                          *)
THEOREM TypeCorrect == Spec => []TypeOK
  <1>1. Spec => []CallInv
    BY CallInvInductive, PTL DEF Spec
  <1>2. CallInv => TypeOK
    BY DEF CallInv
  <1> QED BY <1>1, <1>2, PTL

(* No event settles a promise of connect twice, or one of a call of        *)
(* another session: what connectionOutcomes holds is awaited.              *)
THEOREM OutcomesAwaited == Spec => []OutcomeIsAwaited
  <1>1. Spec => []CallInv
    BY CallInvInductive, PTL DEF Spec
  <1>2. CallInv => OutcomeIsAwaited
    BY DEF CallInv
  <1> QED BY <1>1, <1>2, PTL

-----------------------------------------------------------------------------
(* The map of reconnect timers.                                            *)

LEMMA BeginOpenTimer ==
    ASSUME TypeOK, TimerEntryIsArmed, NEW t \in Tasks, NEW s \in Sessions, NEW o \in Origins,
           task[t].pc # "sleeping", BeginOpen(t, s, o)
    PROVE  TimerEntryIsArmed'
  BY ConstantsOK DEF ConstantsOK, TypeOK, TimerEntryIsArmed, BeginOpen, EndSocketSession,
     ClearTimer, WithoutTimer, Task, Idle

LEMMA ScheduleReconnectTimer ==
    ASSUME TypeOK, TimerEntryIsArmed, NEW t \in Tasks, NEW s \in Sessions,
           task[t].pc # "sleeping", ScheduleReconnect(t, s)
    PROVE  TimerEntryIsArmed'
  BY ConstantsOK DEF ConstantsOK, TypeOK, TimerEntryIsArmed, ScheduleReconnect,
     ClearTimer, WithoutTimer, Task, Idle

LEMMA TimerOpening ==
    ASSUME TypeOK, TimerEntryIsArmed, Opening
    PROVE  TimerEntryIsArmed'
  <1> USE ConstantsOK DEF ConstantsOK, TypeOK, Idle, Free, TimerEntryIsArmed
  <1>1. ASSUME NEW t \in Tasks, OpenFailsRecover(t) PROVE TimerEntryIsArmed'
    <2>1. CASE task[t].sid \in AutoReconnect
      <3>1. ScheduleReconnect(t, task[t].sid)
        BY <1>1, <2>1 DEF OpenFailsRecover
      <3> QED BY <1>1, <3>1, TaskOf, ScheduleReconnectTimer DEF OpenFailsRecover, At
    <2>2. CASE ~(task[t].sid \in AutoReconnect)
      <3>1. Finish(t) /\ UNCHANGED timerOf
        BY <1>1, <2>2 DEF OpenFailsRecover
      <3> QED BY <1>1, <3>1, ConstantsOK DEF OpenFailsRecover, At, ConstantsOK, TypeOK, TimerEntryIsArmed, Finish, Idle
    <2> QED BY <2>1, <2>2
  <1>2. ASSUME NEW t \in Tasks, OpenFailsAfterTimer(t)
        PROVE  TimerEntryIsArmed'
    BY <1>2 DEF OpenFailsAfterTimer, At, Resume, maps
  <1>3. ASSUME NEW t \in Tasks, OpenFailsForCall(t) PROVE TimerEntryIsArmed'
    BY <1>3 DEF OpenFailsForCall, At, Finish, Resume, maps
  <1>4. ASSUME NEW t \in Tasks, OpenFailsForWorkspace(t)
        PROVE  TimerEntryIsArmed'
    BY <1>4 DEF OpenFailsForWorkspace, At, Finish, Resume, maps
  <1>5. ASSUME NEW t \in Tasks, NEW k \in Socks, BindSocket(t, k)
        PROVE  TimerEntryIsArmed'
    BY <1>5, TaskOf DEF BindSocket, At, Finish, Resume
  <1> QED
    BY <1>1, <1>2, <1>3, <1>4, <1>5 DEF Opening, OpenFails

LEMMA TimerReconnecting ==
    ASSUME TypeOK, TimerEntryIsArmed, Reconnecting
    PROVE  TimerEntryIsArmed'
  <1> USE ConstantsOK DEF ConstantsOK, TypeOK, Idle, Free, TimerEntryIsArmed
  <1>1. ASSUME NEW t \in Tasks, WriteReconnecting(t) PROVE TimerEntryIsArmed'
    BY <1>1, TaskOf DEF WriteReconnecting, At, Resume, maps
  <1>2. ASSUME NEW t \in Tasks, ArmTimer(t) PROVE TimerEntryIsArmed'
    BY <1>2, TaskOf DEF ArmTimer, At, Resume
  <1>3. ASSUME NEW t \in Tasks, TimerFires(t) PROVE TimerEntryIsArmed'
    BY <1>3, TaskOf DEF TimerFires, At, ClearTimer, Resume
  <1>4. ASSUME NEW t \in Tasks, LoadSession(t) PROVE TimerEntryIsArmed'
    <2>1. CASE HasRow(task[t].sid)
      <3>1. BeginOpen(t, task[t].sid, "timer")
        BY <1>4, <2>1 DEF LoadSession
      <3> QED BY <1>4, <3>1, TaskOf, BeginOpenTimer DEF LoadSession, At, Origins
    <2>2. CASE ~HasRow(task[t].sid)
      <3>1. Resume(t, "refind") /\ UNCHANGED maps
        BY <1>4, <2>2 DEF LoadSession
      <3> QED
        BY <1>4, <3>1, ConstantsOK DEF ConstantsOK, LoadSession, At, maps, Resume, TypeOK, TimerEntryIsArmed
    <2> QED BY <2>1, <2>2
  <1>5. ASSUME NEW t \in Tasks, RetryOrAbandon(t) PROVE TimerEntryIsArmed'
    <2>1. CASE HasRow(task[t].sid) /\ task[t].sid \in AutoReconnect
      <3>1. ScheduleReconnect(t, task[t].sid)
        BY <1>5, <2>1 DEF RetryOrAbandon
      <3> QED BY <1>5, <3>1, TaskOf, ScheduleReconnectTimer DEF RetryOrAbandon, At
    <2>2. CASE ~(HasRow(task[t].sid) /\ task[t].sid \in AutoReconnect)
      <3>1. Finish(t) /\ UNCHANGED timerOf
        BY <1>5, <2>2 DEF RetryOrAbandon
      <3> QED BY <1>5, <3>1, ConstantsOK DEF RetryOrAbandon, At, ConstantsOK, TypeOK, TimerEntryIsArmed, Finish, Idle
    <2> QED BY <2>1, <2>2
  <1> QED
    BY <1>1, <1>2, <1>3, <1>4, <1>5 DEF Reconnecting

LEMMA TimerEvents ==
    ASSUME TypeOK, TimerEntryIsArmed, Events
    PROVE  TimerEntryIsArmed'
  <1> USE ConstantsOK DEF ConstantsOK, TypeOK, Idle, Free, TimerEntryIsArmed
  <1>1. ASSUME NEW k \in Socks, QrEvent(k) PROVE TimerEntryIsArmed'
    BY <1>1, SockOf DEF QrEvent, maps
  <1>2. ASSUME NEW k \in Socks, NEW t \in Tasks, OpenEvent(k, t)
        PROVE  TimerEntryIsArmed'
    BY <1>2, SockOf DEF OpenEvent, ClearTimer, Task, WithoutTimer
  <1>3. ASSUME NEW k \in Socks, NEW t \in Tasks, CloseEvent(k, t)
        PROVE  TimerEntryIsArmed'
    BY <1>3, SockOf DEF CloseEvent, ClearTimer, ScheduleReconnect, Task, WithoutTimer
  <1>4. ASSUME NEW k \in Socks, NEW t \in Tasks, LoggedOutEvent(k, t)
        PROVE  TimerEntryIsArmed'
    BY <1>4, SockOf DEF LoggedOutEvent, Task
  <1>5. ASSUME NEW t \in Tasks, FindConnected(t) PROVE TimerEntryIsArmed'
    BY <1>5 DEF FindConnected, At, Resume, maps
  <1>6. ASSUME NEW t \in Tasks, SaveConnected(t) PROVE TimerEntryIsArmed'
    BY <1>6, TaskOf DEF SaveConnected, At, Finish, Resume
  <1>7. ASSUME NEW t \in Tasks, AfterConnected(t) PROVE TimerEntryIsArmed'
    BY <1>7, TaskOf DEF AfterConnected, At, Finish, Resume, maps
  <1>8. ASSUME NEW t \in Tasks, FindFailed(t) PROVE TimerEntryIsArmed'
    BY <1>8 DEF FindFailed, At, Resume, maps
  <1>9. ASSUME NEW t \in Tasks, SaveFailed(t) PROVE TimerEntryIsArmed'
    BY <1>9, TaskOf DEF SaveFailed, At, Resume, maps
  <1>10. ASSUME NEW t \in Tasks, AfterFailed(t) PROVE TimerEntryIsArmed'
    BY <1>10, TaskOf DEF AfterFailed, At, Finish, Resume
  <1> QED
    BY <1>1, <1>2, <1>3, <1>4, <1>5, <1>6, <1>7, <1>8, <1>9, <1>10 DEF Events

LEMMA TimerCron ==
    ASSUME TypeOK, TimerEntryIsArmed, Cron
    PROVE  TimerEntryIsArmed'
  <1> USE ConstantsOK DEF ConstantsOK, TypeOK, Idle, Free, TimerEntryIsArmed
  <1>1. ASSUME CronTick PROVE TimerEntryIsArmed'
    BY <1>1 DEF CronTick, maps
  <1>2. ASSUME NEW s \in Sessions, CronSkips(s) PROVE TimerEntryIsArmed'
    BY <1>2 DEF CronSkips, maps
  <1>3. ASSUME NEW s \in Sessions, NEW t \in Tasks, CronOpens(s, t)
        PROVE  TimerEntryIsArmed'
    BY <1>3 DEF CronOpens, BeginOpen, ClearTimer, EndSocketSession, Task, WithoutTimer
  <1> QED
    BY <1>1, <1>2, <1>3 DEF Cron

LEMMA TimerBootstrap ==
    ASSUME TypeOK, TimerEntryIsArmed, Bootstrap
    PROVE  TimerEntryIsArmed'
  <1> USE ConstantsOK DEF ConstantsOK, TypeOK, Idle, Free, TimerEntryIsArmed
  <1>1. ASSUME BootSessions PROVE TimerEntryIsArmed'
    BY <1>1 DEF BootSessions, maps
  <1>2. ASSUME BootListsWorkspaces PROVE TimerEntryIsArmed'
    BY <1>2 DEF BootListsWorkspaces, maps
  <1>3. ASSUME BootWorkspaces PROVE TimerEntryIsArmed'
    BY <1>3 DEF BootWorkspaces, maps
  <1>4. ASSUME NEW s \in Sessions, NEW t \in Tasks, BootOpens(s, t)
        PROVE  TimerEntryIsArmed'
    BY <1>4 DEF BootOpens, BeginOpen, ClearTimer, EndSocketSession, Task, WithoutTimer
  <1>5. ASSUME WorkspaceRegisters PROVE TimerEntryIsArmed'
    BY <1>5 DEF WorkspaceRegisters, maps
  <1> QED
    BY <1>1, <1>2, <1>3, <1>4, <1>5 DEF Bootstrap

LEMMA TimerWorkspace ==
    ASSUME TypeOK, TimerEntryIsArmed, Workspace
    PROVE  TimerEntryIsArmed'
  <1> USE ConstantsOK DEF ConstantsOK, TypeOK, Idle, Free, TimerEntryIsArmed
  <1>1. ASSUME WorkspaceLists PROVE TimerEntryIsArmed'
    BY <1>1 DEF WorkspaceLists, maps
  <1>2. ASSUME WorkspaceDone PROVE TimerEntryIsArmed'
    BY <1>2 DEF WorkspaceDone, maps
  <1>3. ASSUME WorkspaceRetryFires PROVE TimerEntryIsArmed'
    BY <1>3 DEF WorkspaceRetryFires, maps
  <1>4. ASSUME NEW s \in Sessions, WorkspaceSkips(s) PROVE TimerEntryIsArmed'
    BY <1>4 DEF WorkspaceSkips, maps
  <1>5. ASSUME NEW s \in Sessions, NEW t \in Tasks, WorkspaceOpens(s, t)
        PROVE  TimerEntryIsArmed'
    BY <1>5 DEF WorkspaceOpens, BeginOpen, ClearTimer, EndSocketSession, Task, WithoutTimer
  <1> QED
    BY <1>1, <1>2, <1>3, <1>4, <1>5 DEF Workspace

LEMMA TimerRows ==
    ASSUME TypeOK, TimerEntryIsArmed, Rows
    PROVE  TimerEntryIsArmed'
  <1> USE ConstantsOK DEF ConstantsOK, TypeOK, Idle, Free, TimerEntryIsArmed
  <1>1. ASSUME NEW s \in Sessions, CreateSession(s) PROVE TimerEntryIsArmed'
    BY <1>1 DEF CreateSession, maps
  <1>2. ASSUME NEW s \in Sessions, DeleteSession(s) PROVE TimerEntryIsArmed'
    BY <1>2 DEF DeleteSession, maps
  <1>3. ASSUME NEW s \in Sessions, NEW v \in Persisted, PatchSession(s, v)
        PROVE  TimerEntryIsArmed'
    BY <1>3 DEF PatchSession, maps
  <1> QED
    BY <1>1, <1>2, <1>3 DEF Rows

LEMMA TimerRequests ==
    ASSUME TypeOK, TimerEntryIsArmed, Requests
    PROVE  TimerEntryIsArmed'
  <1> USE ConstantsOK DEF ConstantsOK, TypeOK, Idle, Free, TimerEntryIsArmed
  <1>1. ASSUME NEW s \in Sessions, NEW t \in Tasks, Disconnect(s, t)
        PROVE  TimerEntryIsArmed'
    BY <1>1 DEF Disconnect, ClearTimer, EndSocketSession, Task, WithoutTimer
  <1>2. ASSUME NEW t \in Tasks, SaveDisconnected(t) PROVE TimerEntryIsArmed'
    BY <1>2, TaskOf DEF SaveDisconnected, At, Finish, Resume, maps
  <1>3. ASSUME NEW c \in Calls, NEW s \in Sessions, NEW kind \in {"connect", "reconnect", "replace"}, CallStart(c, s, kind)
        PROVE  TimerEntryIsArmed'
    BY <1>3 DEF CallStart, maps
  <1>4. ASSUME NEW c \in Calls, CallSaves(c) PROVE TimerEntryIsArmed'
    BY <1>4, CallOf DEF CallSaves, maps
  <1>5. ASSUME NEW c \in Calls, CallEnds(c) PROVE TimerEntryIsArmed'
    BY <1>5, CallOf DEF CallEnds, ClearTimer, EndSocketSession, WithoutTimer
  <1>6. ASSUME NEW c \in Calls, CallReloads(c) PROVE TimerEntryIsArmed'
    BY <1>6, CallOf DEF CallReloads, maps
  <1>7. ASSUME NEW c \in Calls, CallFinishes(c) PROVE TimerEntryIsArmed'
    BY <1>7, CallOf DEF CallFinishes, maps
  <1>8. ASSUME NEW c \in Calls, NEW t \in Tasks, CallConnects(c, t)
        PROVE  TimerEntryIsArmed'
    BY <1>8, CallOf DEF CallConnects, BeginOpen, ClearTimer, EndSocketSession, Task, WithoutTimer
  <1>9. ASSUME QrRequest PROVE TimerEntryIsArmed'
    BY <1>9, EndPairingKeeps DEF QrRequest, maps
  <1>10. ASSUME NEW s \in Sessions, QrEnds(s) PROVE TimerEntryIsArmed'
    BY <1>10 DEF QrEnds, ClearTimer, EndSocketSession, WithoutTimer
  <1>11. ASSUME NEW s \in Sessions, QrDeactivates(s) PROVE TimerEntryIsArmed'
    BY <1>11 DEF QrDeactivates, maps
  <1> QED
    BY <1>1, <1>2, <1>3, <1>4, <1>5, <1>6, <1>7, <1>8, <1>9, <1>10, <1>11 DEF Requests

LEMMA TimerPairing ==
    ASSUME TypeOK, TimerEntryIsArmed, Pairing
    PROVE  TimerEntryIsArmed'
  <1> USE ConstantsOK DEF ConstantsOK, TypeOK, Idle, TimerEntryIsArmed
  <1>1. ASSUME PairingStarts PROVE TimerEntryIsArmed'
    BY <1>1 DEF PairingStarts, maps
  <1>2. ASSUME PairingEnds PROVE TimerEntryIsArmed'
    BY <1>2, EndPairingKeeps DEF PairingEnds, maps
  <1>3. ASSUME NEW s \in Sessions, NEW t \in Tasks, PairingOpens(s, t) PROVE TimerEntryIsArmed'
    BY <1>3 DEF PairingOpens, maps
  <1>4. ASSUME NEW t \in Tasks, PromotionCreates(t) PROVE TimerEntryIsArmed'
    BY <1>4 DEF PromotionCreates, At, Resume, maps
  <1>5. ASSUME NEW t \in Tasks, PromotionFails(t) PROVE TimerEntryIsArmed'
    BY <1>5 DEF PromotionFails, At, Finish, maps
  <1>6. ASSUME NEW t \in Tasks, NEW k \in Socks, PromotionStores(t, k) PROVE TimerEntryIsArmed'
    BY <1>6 DEF PromotionStores, At, Finish
  <1> QED
    BY <1>1, <1>2, <1>3, <1>4, <1>5, <1>6 DEF Pairing

(* What reconnectTimers holds is always a timeout still armed, for that    *)
(* session: a session is never kept closed by an entry without a timeout.  *)
THEOREM TimerEntriesArmed == Spec => []TimerEntryIsArmed
  <1>1. Init => TimerEntryIsArmed
    BY DEF Init, TimerEntryIsArmed
  <1>2. ASSUME TypeOK /\ TimerEntryIsArmed, [Next]_vars
        PROVE  TimerEntryIsArmed'
    <2> USE <1>2
    <2>1. CASE Next /\ ~Restart
      BY <2>1, TimerOpening, TimerPairing, TimerReconnecting, TimerEvents, TimerCron,
         TimerBootstrap, TimerWorkspace, TimerRows, TimerRequests DEF Next
    <2>2. CASE Restart
      BY <2>2 DEF Restart, TimerEntryIsArmed
    <2>3. CASE UNCHANGED vars
      BY <2>3 DEF TimerEntryIsArmed, vars, maps
    <2> QED BY <2>1, <2>2, <2>3
  <1> QED BY <1>1, <1>2, TypeCorrect, PTL DEF Spec

-----------------------------------------------------------------------------
(* The map of sockets.                                                     *)

LEMMA MapOpening ==
    ASSUME TypeOK, MapHoldsOwnSockets, Opening
    PROVE  MapHoldsOwnSockets'
  <1> USE ConstantsOK DEF ConstantsOK, TypeOK, Idle, Free, MapHoldsOwnSockets
  <1>1. ASSUME NEW t \in Tasks, OpenFailsRecover(t) PROVE MapHoldsOwnSockets'
    BY <1>1, TaskOf DEF OpenFailsRecover, At
  <1>2. ASSUME NEW t \in Tasks, OpenFailsAfterTimer(t)
        PROVE  MapHoldsOwnSockets'
    BY <1>2 DEF OpenFailsAfterTimer, At, maps
  <1>3. ASSUME NEW t \in Tasks, OpenFailsForCall(t) PROVE MapHoldsOwnSockets'
    BY <1>3 DEF OpenFailsForCall, At, maps
  <1>4. ASSUME NEW t \in Tasks, OpenFailsForWorkspace(t)
        PROVE  MapHoldsOwnSockets'
    BY <1>4 DEF OpenFailsForWorkspace, At, maps
  <1>5. ASSUME NEW t \in Tasks, NEW k \in Socks, BindSocket(t, k)
        PROVE  MapHoldsOwnSockets'
    BY <1>5, TaskOf DEF BindSocket, At, Registered, Sock
  <1> QED
    BY <1>1, <1>2, <1>3, <1>4, <1>5 DEF Opening, OpenFails

LEMMA MapReconnecting ==
    ASSUME TypeOK, MapHoldsOwnSockets, Reconnecting
    PROVE  MapHoldsOwnSockets'
  <1> USE ConstantsOK DEF ConstantsOK, TypeOK, Idle, Free, MapHoldsOwnSockets
  <1>1. ASSUME NEW t \in Tasks, WriteReconnecting(t) PROVE MapHoldsOwnSockets'
    BY <1>1, TaskOf DEF WriteReconnecting, At, maps
  <1>2. ASSUME NEW t \in Tasks, ArmTimer(t) PROVE MapHoldsOwnSockets'
    BY <1>2, TaskOf DEF ArmTimer, At
  <1>3. ASSUME NEW t \in Tasks, TimerFires(t) PROVE MapHoldsOwnSockets'
    BY <1>3, TaskOf DEF TimerFires, At
  <1>4. ASSUME NEW t \in Tasks, LoadSession(t) PROVE MapHoldsOwnSockets'
    BY <1>4, TaskOf DEF LoadSession, At, BeginOpen, Dispose, Disposed, EndSocketSession, maps
  <1>5. ASSUME NEW t \in Tasks, RetryOrAbandon(t) PROVE MapHoldsOwnSockets'
    BY <1>5, TaskOf DEF RetryOrAbandon, At
  <1> QED
    BY <1>1, <1>2, <1>3, <1>4, <1>5 DEF Reconnecting

LEMMA MapEvents ==
    ASSUME TypeOK, MapHoldsOwnSockets, Events
    PROVE  MapHoldsOwnSockets'
  <1> USE ConstantsOK DEF ConstantsOK, TypeOK, Idle, Free, MapHoldsOwnSockets
  <1>1. ASSUME NEW k \in Socks, QrEvent(k) PROVE MapHoldsOwnSockets'
    BY <1>1, SockOf DEF QrEvent, maps
  <1>2. ASSUME NEW k \in Socks, NEW t \in Tasks, OpenEvent(k, t)
        PROVE  MapHoldsOwnSockets'
    BY <1>2, SockOf DEF OpenEvent
  <1>3. ASSUME NEW k \in Socks, NEW t \in Tasks, CloseEvent(k, t)
        PROVE  MapHoldsOwnSockets'
    BY <1>3, SockOf DEF CloseEvent, Disposed
  <1>4. ASSUME NEW k \in Socks, NEW t \in Tasks, LoggedOutEvent(k, t)
        PROVE  MapHoldsOwnSockets'
    BY <1>4, SockOf DEF LoggedOutEvent
  <1>5. ASSUME NEW t \in Tasks, FindConnected(t) PROVE MapHoldsOwnSockets'
    BY <1>5 DEF FindConnected, At, maps
  <1>6. ASSUME NEW t \in Tasks, SaveConnected(t) PROVE MapHoldsOwnSockets'
    BY <1>6, TaskOf DEF SaveConnected, At, Dispose, Disposed
  <1>7. ASSUME NEW t \in Tasks, AfterConnected(t) PROVE MapHoldsOwnSockets'
    BY <1>7, TaskOf DEF AfterConnected, At, maps
  <1>8. ASSUME NEW t \in Tasks, FindFailed(t) PROVE MapHoldsOwnSockets'
    BY <1>8 DEF FindFailed, At, maps
  <1>9. ASSUME NEW t \in Tasks, SaveFailed(t) PROVE MapHoldsOwnSockets'
    BY <1>9, TaskOf DEF SaveFailed, At, maps
  <1>10. ASSUME NEW t \in Tasks, AfterFailed(t) PROVE MapHoldsOwnSockets'
    BY <1>10, TaskOf DEF AfterFailed, At, Dispose, Disposed
  <1> QED
    BY <1>1, <1>2, <1>3, <1>4, <1>5, <1>6, <1>7, <1>8, <1>9, <1>10 DEF Events

LEMMA MapCron ==
    ASSUME TypeOK, MapHoldsOwnSockets, Cron
    PROVE  MapHoldsOwnSockets'
  <1> USE ConstantsOK DEF ConstantsOK, TypeOK, Idle, Free, MapHoldsOwnSockets
  <1>1. ASSUME CronTick PROVE MapHoldsOwnSockets'
    BY <1>1 DEF CronTick, maps
  <1>2. ASSUME NEW s \in Sessions, CronSkips(s) PROVE MapHoldsOwnSockets'
    BY <1>2 DEF CronSkips, maps
  <1>3. ASSUME NEW s \in Sessions, NEW t \in Tasks, CronOpens(s, t)
        PROVE  MapHoldsOwnSockets'
    BY <1>3 DEF CronOpens, BeginOpen, Dispose, Disposed, EndSocketSession
  <1> QED
    BY <1>1, <1>2, <1>3 DEF Cron

LEMMA MapBootstrap ==
    ASSUME TypeOK, MapHoldsOwnSockets, Bootstrap
    PROVE  MapHoldsOwnSockets'
  <1> USE ConstantsOK DEF ConstantsOK, TypeOK, Idle, Free, MapHoldsOwnSockets
  <1>1. ASSUME BootSessions PROVE MapHoldsOwnSockets'
    BY <1>1 DEF BootSessions, maps
  <1>2. ASSUME BootListsWorkspaces PROVE MapHoldsOwnSockets'
    BY <1>2 DEF BootListsWorkspaces, maps
  <1>3. ASSUME BootWorkspaces PROVE MapHoldsOwnSockets'
    BY <1>3 DEF BootWorkspaces, maps
  <1>4. ASSUME NEW s \in Sessions, NEW t \in Tasks, BootOpens(s, t)
        PROVE  MapHoldsOwnSockets'
    BY <1>4 DEF BootOpens, BeginOpen, Dispose, Disposed, EndSocketSession
  <1>5. ASSUME WorkspaceRegisters PROVE MapHoldsOwnSockets'
    BY <1>5 DEF WorkspaceRegisters, maps
  <1> QED
    BY <1>1, <1>2, <1>3, <1>4, <1>5 DEF Bootstrap

LEMMA MapWorkspace ==
    ASSUME TypeOK, MapHoldsOwnSockets, Workspace
    PROVE  MapHoldsOwnSockets'
  <1> USE ConstantsOK DEF ConstantsOK, TypeOK, Idle, Free, MapHoldsOwnSockets
  <1>1. ASSUME WorkspaceLists PROVE MapHoldsOwnSockets'
    BY <1>1 DEF WorkspaceLists, maps
  <1>2. ASSUME WorkspaceDone PROVE MapHoldsOwnSockets'
    BY <1>2 DEF WorkspaceDone, maps
  <1>3. ASSUME WorkspaceRetryFires PROVE MapHoldsOwnSockets'
    BY <1>3 DEF WorkspaceRetryFires, maps
  <1>4. ASSUME NEW s \in Sessions, WorkspaceSkips(s) PROVE MapHoldsOwnSockets'
    BY <1>4 DEF WorkspaceSkips, maps
  <1>5. ASSUME NEW s \in Sessions, NEW t \in Tasks, WorkspaceOpens(s, t)
        PROVE  MapHoldsOwnSockets'
    BY <1>5 DEF WorkspaceOpens, BeginOpen, Dispose, Disposed, EndSocketSession
  <1> QED
    BY <1>1, <1>2, <1>3, <1>4, <1>5 DEF Workspace

LEMMA MapRows ==
    ASSUME TypeOK, MapHoldsOwnSockets, Rows
    PROVE  MapHoldsOwnSockets'
  <1> USE ConstantsOK DEF ConstantsOK, TypeOK, Idle, Free, MapHoldsOwnSockets
  <1>1. ASSUME NEW s \in Sessions, CreateSession(s) PROVE MapHoldsOwnSockets'
    BY <1>1 DEF CreateSession, maps
  <1>2. ASSUME NEW s \in Sessions, DeleteSession(s) PROVE MapHoldsOwnSockets'
    BY <1>2 DEF DeleteSession, maps
  <1>3. ASSUME NEW s \in Sessions, NEW v \in Persisted, PatchSession(s, v)
        PROVE  MapHoldsOwnSockets'
    BY <1>3 DEF PatchSession, maps
  <1> QED
    BY <1>1, <1>2, <1>3 DEF Rows

LEMMA MapRequests ==
    ASSUME TypeOK, MapHoldsOwnSockets, Requests
    PROVE  MapHoldsOwnSockets'
  <1> USE ConstantsOK DEF ConstantsOK, TypeOK, Idle, Free, MapHoldsOwnSockets
  <1>1. ASSUME NEW s \in Sessions, NEW t \in Tasks, Disconnect(s, t)
        PROVE  MapHoldsOwnSockets'
    BY <1>1 DEF Disconnect, Dispose, Disposed, EndSocketSession
  <1>2. ASSUME NEW t \in Tasks, SaveDisconnected(t) PROVE MapHoldsOwnSockets'
    BY <1>2, TaskOf DEF SaveDisconnected, At, maps
  <1>3. ASSUME NEW c \in Calls, NEW s \in Sessions, NEW kind \in {"connect", "reconnect", "replace"}, CallStart(c, s, kind)
        PROVE  MapHoldsOwnSockets'
    BY <1>3 DEF CallStart, maps
  <1>4. ASSUME NEW c \in Calls, CallSaves(c) PROVE MapHoldsOwnSockets'
    BY <1>4, CallOf DEF CallSaves, maps
  <1>5. ASSUME NEW c \in Calls, CallEnds(c) PROVE MapHoldsOwnSockets'
    BY <1>5, CallOf DEF CallEnds, Dispose, Disposed, EndSocketSession
  <1>6. ASSUME NEW c \in Calls, CallReloads(c) PROVE MapHoldsOwnSockets'
    BY <1>6, CallOf DEF CallReloads, maps
  <1>7. ASSUME NEW c \in Calls, CallFinishes(c) PROVE MapHoldsOwnSockets'
    BY <1>7, CallOf DEF CallFinishes, maps
  <1>8. ASSUME NEW c \in Calls, NEW t \in Tasks, CallConnects(c, t)
        PROVE  MapHoldsOwnSockets'
    BY <1>8, CallOf DEF CallConnects, BeginOpen, Dispose, Disposed, EndSocketSession
  <1>9. ASSUME QrRequest PROVE MapHoldsOwnSockets'
    BY <1>9 DEF QrRequest, maps
  <1>10. ASSUME NEW s \in Sessions, QrEnds(s) PROVE MapHoldsOwnSockets'
    BY <1>10 DEF QrEnds, Dispose, Disposed, EndSocketSession
  <1>11. ASSUME NEW s \in Sessions, QrDeactivates(s) PROVE MapHoldsOwnSockets'
    BY <1>11 DEF QrDeactivates, maps
  <1> QED
    BY <1>1, <1>2, <1>3, <1>4, <1>5, <1>6, <1>7, <1>8, <1>9, <1>10, <1>11 DEF Requests

LEMMA MapPairing ==
    ASSUME TypeOK, MapHoldsOwnSockets, Pairing
    PROVE  MapHoldsOwnSockets'
  <1> USE ConstantsOK DEF ConstantsOK, TypeOK, Idle, Free, MapHoldsOwnSockets
  <1>1. ASSUME NEW t \in Tasks, NEW k \in Socks, PromotionStores(t, k) PROVE MapHoldsOwnSockets'
    <2>1. task[t].sid \in Sessions
      BY <1>1, PromotionOf DEF PromotionStores, At, Promotions
    <2> QED
      BY <1>1, <2>1 DEF PromotionStores, Registered, Sock
  <1>2. CASE UNCHANGED maps
    BY <1>2 DEF maps
  <1> QED
    BY <1>1, <1>2
       DEF Pairing, PairingStarts, PairingEnds, PairingOpens, PromotionCreates, PromotionFails

(* A socket found in the map under s was opened for s, and reports its     *)
(* events under s.                                                         *)
THEOREM MapHoldsOwn == Spec => []MapHoldsOwnSockets
  <1>1. Init => MapHoldsOwnSockets
    BY DEF Init, MapHoldsOwnSockets
  <1>2. ASSUME TypeOK /\ MapHoldsOwnSockets, [Next]_vars
        PROVE  MapHoldsOwnSockets'
    <2> USE <1>2
    <2>1. CASE Next /\ ~Restart
      BY <2>1, MapOpening, MapPairing, MapReconnecting, MapEvents, MapCron, MapBootstrap,
         MapWorkspace, MapRows, MapRequests DEF Next
    <2>2. CASE Restart
      BY <2>2 DEF Restart, MapHoldsOwnSockets
    <2>3. CASE UNCHANGED vars
      BY <2>3 DEF MapHoldsOwnSockets, vars, maps
    <2> QED BY <2>1, <2>2, <2>3
  <1> QED BY <1>1, <1>2, TypeCorrect, PTL DEF Spec

-----------------------------------------------------------------------------
(* Dead sockets.  The handler that will dispose one is never cancelled:    *)
(* what clearReconnectTimer cancels is an armed timeout.                   *)
HandlerPcs == {"findFailed", "saveFailed", "failedSaved"}

LEMMA HandlerSurvivesClear ==
    ASSUME TypeOK, TimerEntryIsArmed, NEW s \in Sessions, NEW u \in Tasks,
           task[u].pc \in HandlerPcs
    PROVE  WithoutTimer(s)[u] = task[u]
  BY ConstantsOK DEF ConstantsOK, TypeOK, TimerEntryIsArmed, WithoutTimer, HandlerPcs

LEMMA ScheduleReconnectKeeps ==
    ASSUME TypeOK, TimerEntryIsArmed, NEW s \in Sessions, NEW t \in Tasks,
           task[t].pc \notin HandlerPcs, ScheduleReconnect(t, s)
    PROVE  \A u \in Tasks : task[u].pc \in HandlerPcs => task'[u] = task[u]
  BY HandlerSurvivesClear, WithoutTimerType DEF ScheduleReconnect

LEMMA DisposeDead ==
    ASSUME TypeOK, MapHoldsOwnSockets, NEW s \in Sessions, Dispose(s), NEW r \in Sessions,
           sockets'[r] # NoSock, sock'[sockets'[r]].conn = "closed"
    PROVE  r # s /\ sockets[r] # NoSock /\ sock[sockets[r]].conn = "closed"
  BY ConstantsOK DEF ConstantsOK, TypeOK, MapHoldsOwnSockets, Dispose, Disposed, Free

LEMMA HandlersStay ==
    ASSUME ClosedSocketLeavesMap,
           \A u \in Tasks : task[u].pc \in HandlerPcs => task'[u] = task[u],
           \A r \in Sessions : sockets'[r] # NoSock /\ sock'[sockets'[r]].conn = "closed" =>
                sockets[r] # NoSock /\ sock[sockets[r]].conn = "closed"
    PROVE  ClosedSocketLeavesMap'
  BY DEF ClosedSocketLeavesMap, LoggedOutHandler, HandlerPcs

LEMMA BeginOpenDead ==
    ASSUME TypeOK, TimerEntryIsArmed, MapHoldsOwnSockets, ClosedSocketLeavesMap,
           NEW t \in Tasks, NEW s \in Sessions, NEW o,
           task[t].pc \notin HandlerPcs, BeginOpen(t, s, o)
    PROVE  ClosedSocketLeavesMap'
  <1>1. \A u \in Tasks : task[u].pc \in HandlerPcs => task'[u] = task[u]
    BY HandlerSurvivesClear, WithoutTimerType DEF BeginOpen
  <1>2. Dispose(s)
    BY DEF BeginOpen, EndSocketSession
  <1> QED BY <1>1, <1>2, DisposeDead, HandlersStay

LEMMA DeadOpening ==
    ASSUME TypeOK, TimerEntryIsArmed, MapHoldsOwnSockets, ClosedSocketLeavesMap, Opening
    PROVE  ClosedSocketLeavesMap'
  <1> USE ConstantsOK DEF ConstantsOK, TypeOK, Idle, Free, TimerEntryIsArmed, MapHoldsOwnSockets,
               ClosedSocketLeavesMap, LoggedOutHandler
  <1>1. ASSUME NEW t \in Tasks, OpenFailsRecover(t) PROVE ClosedSocketLeavesMap'
    <2>1. CASE task[t].sid \in AutoReconnect
      <3>1. ScheduleReconnect(t, task[t].sid)
        BY <1>1, <2>1 DEF OpenFailsRecover
      <3> QED
        BY <1>1, <3>1, TaskOf, ScheduleReconnectKeeps, HandlersStay DEF OpenFailsRecover, At, HandlerPcs
    <2>2. CASE ~(task[t].sid \in AutoReconnect)
      BY <1>1, <2>2, HandlersStay DEF OpenFailsRecover, Finish, At, HandlerPcs, TypeOK
    <2> QED BY <2>1, <2>2
  <1>2. ASSUME NEW t \in Tasks, OpenFailsAfterTimer(t)
        PROVE  ClosedSocketLeavesMap'
    BY <1>2 DEF OpenFailsAfterTimer, At, Resume, maps
  <1>3. ASSUME NEW t \in Tasks, OpenFailsForCall(t) PROVE ClosedSocketLeavesMap'
    BY <1>3 DEF OpenFailsForCall, At, Finish, Resume, maps
  <1>4. ASSUME NEW t \in Tasks, OpenFailsForWorkspace(t)
        PROVE  ClosedSocketLeavesMap'
    BY <1>4 DEF OpenFailsForWorkspace, At, Finish, Resume, maps
  <1>5. ASSUME NEW t \in Tasks, NEW k \in Socks, BindSocket(t, k)
        PROVE  ClosedSocketLeavesMap'
    BY <1>5, TaskOf DEF BindSocket, At, Finish, Resume, Registered, Sock
  <1> QED
    BY <1>1, <1>2, <1>3, <1>4, <1>5 DEF Opening, OpenFails

LEMMA DeadReconnecting ==
    ASSUME TypeOK, TimerEntryIsArmed, MapHoldsOwnSockets, ClosedSocketLeavesMap, Reconnecting
    PROVE  ClosedSocketLeavesMap'
  <1> USE ConstantsOK DEF ConstantsOK, TypeOK, Idle, Free, TimerEntryIsArmed, MapHoldsOwnSockets,
               ClosedSocketLeavesMap, LoggedOutHandler
  <1>1. ASSUME NEW t \in Tasks, WriteReconnecting(t) PROVE ClosedSocketLeavesMap'
    BY <1>1, TaskOf DEF WriteReconnecting, At, Resume, maps
  <1>2. ASSUME NEW t \in Tasks, ArmTimer(t) PROVE ClosedSocketLeavesMap'
    BY <1>2, TaskOf DEF ArmTimer, At, Resume
  <1>3. ASSUME NEW t \in Tasks, TimerFires(t) PROVE ClosedSocketLeavesMap'
    BY <1>3, TaskOf DEF TimerFires, At, Resume
  <1>4. ASSUME NEW t \in Tasks, LoadSession(t) PROVE ClosedSocketLeavesMap'
    <2>1. CASE HasRow(task[t].sid)
      <3>1. task[t].sid \in Sessions /\ task[t].pc \notin HandlerPcs
        BY <1>4, TaskOf DEF LoadSession, At, HandlerPcs
      <3>2. BeginOpen(t, task[t].sid, "timer")
        BY <1>4, <2>1 DEF LoadSession
      <3> HIDE DEF TypeOK, TimerEntryIsArmed, MapHoldsOwnSockets, ClosedSocketLeavesMap
      <3> QED BY <3>1, <3>2, BeginOpenDead
    <2>2. CASE ~HasRow(task[t].sid)
      BY <1>4, <2>2, HandlersStay DEF LoadSession, Resume, At, HandlerPcs, TypeOK, maps
    <2> QED BY <2>1, <2>2
  <1>5. ASSUME NEW t \in Tasks, RetryOrAbandon(t) PROVE ClosedSocketLeavesMap'
    <2>1. CASE HasRow(task[t].sid) /\ task[t].sid \in AutoReconnect
      <3>1. ScheduleReconnect(t, task[t].sid)
        BY <1>5, <2>1 DEF RetryOrAbandon
      <3> QED
        BY <1>5, <3>1, TaskOf, ScheduleReconnectKeeps, HandlersStay DEF RetryOrAbandon, At, HandlerPcs
    <2>2. CASE ~(HasRow(task[t].sid) /\ task[t].sid \in AutoReconnect)
      BY <1>5, <2>2, HandlersStay DEF RetryOrAbandon, Finish, At, HandlerPcs, TypeOK
    <2> QED BY <2>1, <2>2
  <1> QED
    BY <1>1, <1>2, <1>3, <1>4, <1>5 DEF Reconnecting

LEMMA DeadEvents ==
    ASSUME TypeOK, TimerEntryIsArmed, MapHoldsOwnSockets, ClosedSocketLeavesMap, Events
    PROVE  ClosedSocketLeavesMap'
  <1> USE ConstantsOK DEF ConstantsOK, TypeOK, Idle, Free, TimerEntryIsArmed, MapHoldsOwnSockets,
               ClosedSocketLeavesMap, LoggedOutHandler
  <1>1. ASSUME NEW k \in Socks, QrEvent(k) PROVE ClosedSocketLeavesMap'
    BY <1>1, SockOf DEF QrEvent, maps
  <1>2. ASSUME NEW k \in Socks, NEW t \in Tasks, OpenEvent(k, t)
        PROVE  ClosedSocketLeavesMap'
    <2>1. sock[k].owner \in Sessions
      BY <1>2, SockOf DEF OpenEvent
    <2>2. \A u \in Tasks : task[u].pc \in HandlerPcs => task'[u] = task[u]
      BY <1>2, <2>1, HandlerSurvivesClear, WithoutTimerType DEF OpenEvent, Idle, HandlerPcs
    <2> QED BY <1>2, <2>2, HandlersStay DEF OpenEvent, TypeOK
  <1>3. ASSUME NEW k \in Socks, NEW t \in Tasks, CloseEvent(k, t)
        PROVE  ClosedSocketLeavesMap'
    <2> DEFINE s == sock[k].owner
    <2>1. s \in Sessions
      BY <1>3, SockOf DEF CloseEvent
    <2>2. \A u \in Tasks : task[u].pc \in HandlerPcs => task'[u] = task[u]
      BY <1>3, <2>1, ScheduleReconnectKeeps DEF CloseEvent, Idle, HandlerPcs
    <2>3. \A r \in Sessions : sockets'[r] # NoSock /\ sock'[sockets'[r]].conn = "closed" =>
             sockets[r] # NoSock /\ sock[sockets[r]].conn = "closed"
      BY <1>3, <2>1, ConstantsOK
         DEF CloseEvent, ConstantsOK, TypeOK, MapHoldsOwnSockets, Disposed, Free
    <2> QED BY <2>2, <2>3, HandlersStay
  <1>4. ASSUME NEW k \in Socks, NEW t \in Tasks, LoggedOutEvent(k, t)
        PROVE  ClosedSocketLeavesMap'
    BY <1>4, SockOf DEF LoggedOutEvent, Task
  <1>5. ASSUME NEW t \in Tasks, FindConnected(t) PROVE ClosedSocketLeavesMap'
    BY <1>5 DEF FindConnected, At, Resume, maps
  <1>6. ASSUME NEW t \in Tasks, SaveConnected(t) PROVE ClosedSocketLeavesMap'
    <2>1. \A u \in Tasks : task[u].pc \in HandlerPcs => task'[u] = task[u]
      BY <1>6 DEF SaveConnected, At, Finish, Resume, HandlerPcs
    <2>2. CASE HasRow(task[t].sid)
      <3>1. UNCHANGED <<sockets, sock>>
        BY <1>6, <2>2 DEF SaveConnected
      <3> QED BY <2>1, <3>1, HandlersStay
    <2>3. CASE ~HasRow(task[t].sid)
      <3>1. Dispose(task[t].sid) /\ task[t].sid \in Sessions
        BY <1>6, <2>3, TaskOf DEF SaveConnected, At
      <3> QED BY <2>1, <3>1, DisposeDead, HandlersStay
    <2> QED BY <2>2, <2>3
  <1>7. ASSUME NEW t \in Tasks, AfterConnected(t) PROVE ClosedSocketLeavesMap'
    BY <1>7, TaskOf DEF AfterConnected, At, Finish, Resume, maps
  <1>8. ASSUME NEW t \in Tasks, FindFailed(t) PROVE ClosedSocketLeavesMap'
    BY <1>8 DEF FindFailed, At, Resume, maps
  <1>9. ASSUME NEW t \in Tasks, SaveFailed(t) PROVE ClosedSocketLeavesMap'
    BY <1>9, TaskOf DEF SaveFailed, At, Resume, maps
  <1>10. ASSUME NEW t \in Tasks, AfterFailed(t) PROVE ClosedSocketLeavesMap'
    BY <1>10, TaskOf DEF AfterFailed, At, Dispose, Disposed, Finish, Resume
  <1> QED
    BY <1>1, <1>2, <1>3, <1>4, <1>5, <1>6, <1>7, <1>8, <1>9, <1>10 DEF Events

LEMMA DeadCron ==
    ASSUME TypeOK, TimerEntryIsArmed, MapHoldsOwnSockets, ClosedSocketLeavesMap, Cron
    PROVE  ClosedSocketLeavesMap'
  <1> USE ConstantsOK DEF ConstantsOK, TypeOK, Idle, Free, TimerEntryIsArmed, MapHoldsOwnSockets,
               ClosedSocketLeavesMap, LoggedOutHandler
  <1>1. ASSUME CronTick PROVE ClosedSocketLeavesMap'
    BY <1>1 DEF CronTick, maps
  <1>2. ASSUME NEW s \in Sessions, CronSkips(s) PROVE ClosedSocketLeavesMap'
    BY <1>2 DEF CronSkips, maps
  <1>3. ASSUME NEW s \in Sessions, NEW t \in Tasks, CronOpens(s, t)
        PROVE  ClosedSocketLeavesMap'
    <2>1. task[t].pc \notin HandlerPcs /\ BeginOpen(t, s, "cron")
      BY <1>3 DEF CronOpens, Idle, HandlerPcs
    <2> QED BY <1>3, <2>1, BeginOpenDead
  <1> QED
    BY <1>1, <1>2, <1>3 DEF Cron

LEMMA DeadBootstrap ==
    ASSUME TypeOK, TimerEntryIsArmed, MapHoldsOwnSockets, ClosedSocketLeavesMap, Bootstrap
    PROVE  ClosedSocketLeavesMap'
  <1> USE ConstantsOK DEF ConstantsOK, TypeOK, Idle, Free, TimerEntryIsArmed, MapHoldsOwnSockets,
               ClosedSocketLeavesMap, LoggedOutHandler
  <1>1. ASSUME BootSessions PROVE ClosedSocketLeavesMap'
    BY <1>1 DEF BootSessions, maps
  <1>2. ASSUME BootListsWorkspaces PROVE ClosedSocketLeavesMap'
    BY <1>2 DEF BootListsWorkspaces, maps
  <1>3. ASSUME BootWorkspaces PROVE ClosedSocketLeavesMap'
    BY <1>3 DEF BootWorkspaces, maps
  <1>4. ASSUME NEW s \in Sessions, NEW t \in Tasks, BootOpens(s, t)
        PROVE  ClosedSocketLeavesMap'
    <2>1. task[t].pc \notin HandlerPcs /\ BeginOpen(t, s, "bootstrap")
      BY <1>4 DEF BootOpens, Idle, HandlerPcs
    <2> QED BY <1>4, <2>1, BeginOpenDead
  <1>5. ASSUME WorkspaceRegisters PROVE ClosedSocketLeavesMap'
    BY <1>5 DEF WorkspaceRegisters, maps
  <1> QED
    BY <1>1, <1>2, <1>3, <1>4, <1>5 DEF Bootstrap

LEMMA DeadWorkspace ==
    ASSUME TypeOK, TimerEntryIsArmed, MapHoldsOwnSockets, ClosedSocketLeavesMap, Workspace
    PROVE  ClosedSocketLeavesMap'
  <1> USE ConstantsOK DEF ConstantsOK, TypeOK, Idle, Free, TimerEntryIsArmed, MapHoldsOwnSockets,
               ClosedSocketLeavesMap, LoggedOutHandler
  <1>1. ASSUME WorkspaceLists PROVE ClosedSocketLeavesMap'
    BY <1>1 DEF WorkspaceLists, maps
  <1>2. ASSUME WorkspaceDone PROVE ClosedSocketLeavesMap'
    BY <1>2 DEF WorkspaceDone, maps
  <1>3. ASSUME WorkspaceRetryFires PROVE ClosedSocketLeavesMap'
    BY <1>3 DEF WorkspaceRetryFires, maps
  <1>4. ASSUME NEW s \in Sessions, WorkspaceSkips(s) PROVE ClosedSocketLeavesMap'
    BY <1>4 DEF WorkspaceSkips, maps
  <1>5. ASSUME NEW s \in Sessions, NEW t \in Tasks, WorkspaceOpens(s, t)
        PROVE  ClosedSocketLeavesMap'
    <2>1. task[t].pc \notin HandlerPcs /\ BeginOpen(t, s, "workspace")
      BY <1>5 DEF WorkspaceOpens, Idle, HandlerPcs
    <2> QED BY <1>5, <2>1, BeginOpenDead
  <1> QED
    BY <1>1, <1>2, <1>3, <1>4, <1>5 DEF Workspace

LEMMA DeadRows ==
    ASSUME TypeOK, TimerEntryIsArmed, MapHoldsOwnSockets, ClosedSocketLeavesMap, Rows
    PROVE  ClosedSocketLeavesMap'
  <1> USE ConstantsOK DEF ConstantsOK, TypeOK, Idle, Free, TimerEntryIsArmed, MapHoldsOwnSockets,
               ClosedSocketLeavesMap, LoggedOutHandler
  <1>1. ASSUME NEW s \in Sessions, CreateSession(s) PROVE ClosedSocketLeavesMap'
    BY <1>1 DEF CreateSession, maps
  <1>2. ASSUME NEW s \in Sessions, DeleteSession(s) PROVE ClosedSocketLeavesMap'
    BY <1>2 DEF DeleteSession, maps
  <1>3. ASSUME NEW s \in Sessions, NEW v \in Persisted, PatchSession(s, v)
        PROVE  ClosedSocketLeavesMap'
    BY <1>3 DEF PatchSession, maps
  <1> QED
    BY <1>1, <1>2, <1>3 DEF Rows

LEMMA DeadRequests ==
    ASSUME TypeOK, TimerEntryIsArmed, MapHoldsOwnSockets, ClosedSocketLeavesMap, Requests
    PROVE  ClosedSocketLeavesMap'
  <1> USE ConstantsOK DEF ConstantsOK, TypeOK, Idle, Free, TimerEntryIsArmed, MapHoldsOwnSockets,
               ClosedSocketLeavesMap, LoggedOutHandler
  <1>1. ASSUME NEW s \in Sessions, NEW t \in Tasks, Disconnect(s, t)
        PROVE  ClosedSocketLeavesMap'
    <2>1. \A u \in Tasks : task[u].pc \in HandlerPcs => task'[u] = task[u]
      BY <1>1, HandlerSurvivesClear, WithoutTimerType DEF Disconnect, Idle, HandlerPcs
    <2> QED BY <1>1, <2>1, DisposeDead, HandlersStay DEF Disconnect, EndSocketSession
  <1>2. ASSUME NEW t \in Tasks, SaveDisconnected(t) PROVE ClosedSocketLeavesMap'
    BY <1>2, TaskOf DEF SaveDisconnected, At, Finish, Resume, maps
  <1>3. ASSUME NEW c \in Calls, NEW s \in Sessions, NEW kind \in {"connect", "reconnect", "replace"}, CallStart(c, s, kind)
        PROVE  ClosedSocketLeavesMap'
    BY <1>3 DEF CallStart, maps
  <1>4. ASSUME NEW c \in Calls, CallSaves(c) PROVE ClosedSocketLeavesMap'
    BY <1>4, CallOf DEF CallSaves, maps
  <1>5. ASSUME NEW c \in Calls, CallEnds(c) PROVE ClosedSocketLeavesMap'
    BY <1>5, CallOf DEF CallEnds, Dispose, Disposed, EndSocketSession, WithoutTimer
  <1>6. ASSUME NEW c \in Calls, CallReloads(c) PROVE ClosedSocketLeavesMap'
    BY <1>6, CallOf DEF CallReloads, maps
  <1>7. ASSUME NEW c \in Calls, CallFinishes(c) PROVE ClosedSocketLeavesMap'
    BY <1>7, CallOf DEF CallFinishes, maps
  <1>8. ASSUME NEW c \in Calls, NEW t \in Tasks, CallConnects(c, t)
        PROVE  ClosedSocketLeavesMap'
    <2>1. task[t].pc \notin HandlerPcs /\ BeginOpen(t, call[c].sid, c)
      BY <1>8 DEF CallConnects, Idle, HandlerPcs
    <2>2. call[c].sid \in Sessions
      BY <1>8, CallOf DEF CallConnects
    <2> HIDE DEF TypeOK, TimerEntryIsArmed, MapHoldsOwnSockets, ClosedSocketLeavesMap
    <2> QED BY <2>1, <2>2, BeginOpenDead
  <1>9. ASSUME QrRequest PROVE ClosedSocketLeavesMap'
    <2>1. \A u \in Tasks : task[u].pc \in HandlerPcs => task'[u] = task[u]
      BY <1>9, EndPairingKeeps DEF QrRequest, Promotions, HandlerPcs
    <2> QED BY <1>9, <2>1, HandlersStay DEF QrRequest, maps
  <1>10. ASSUME NEW s \in Sessions, QrEnds(s) PROVE ClosedSocketLeavesMap'
    BY <1>10 DEF QrEnds, Dispose, Disposed, EndSocketSession, WithoutTimer
  <1>11. ASSUME NEW s \in Sessions, QrDeactivates(s) PROVE ClosedSocketLeavesMap'
    BY <1>11 DEF QrDeactivates, maps
  <1> QED
    BY <1>1, <1>2, <1>3, <1>4, <1>5, <1>6, <1>7, <1>8, <1>9, <1>10, <1>11 DEF Requests

LEMMA DeadPairing ==
    ASSUME TypeOK, TimerEntryIsArmed, MapHoldsOwnSockets, ClosedSocketLeavesMap, Pairing
    PROVE  ClosedSocketLeavesMap'
  <1>1. \A u \in Tasks : task[u].pc \in HandlerPcs => task'[u] = task[u]
    <2>1. CASE PairingStarts
      BY <2>1 DEF PairingStarts
    <2>2. CASE PairingEnds
      BY <2>2, EndPairingKeeps DEF PairingEnds, Promotions, HandlerPcs
    <2>3. ASSUME NEW s \in Sessions, NEW t \in Tasks, PairingOpens(s, t)
          PROVE  \A u \in Tasks : task[u].pc \in HandlerPcs => task'[u] = task[u]
      BY <2>3 DEF PairingOpens, Idle, HandlerPcs, TypeOK
    <2>4. ASSUME NEW t \in Tasks,
                 PromotionCreates(t) \/ PromotionFails(t) \/ \E k \in Socks : PromotionStores(t, k)
          PROVE  \A u \in Tasks : task[u].pc \in HandlerPcs => task'[u] = task[u]
      BY <2>4 DEF PromotionCreates, PromotionFails, PromotionStores, At, Resume, Finish,
                  HandlerPcs, TypeOK
    <2> QED
      BY <2>1, <2>2, <2>3, <2>4 DEF Pairing
  <1>2. \A r \in Sessions : sockets'[r] # NoSock /\ sock'[sockets'[r]].conn = "closed" =>
           sockets[r] # NoSock /\ sock[sockets[r]].conn = "closed"
    <2>1. CASE UNCHANGED maps
      BY <2>1 DEF maps
    <2>2. ASSUME NEW t \in Tasks, NEW k \in Socks, PromotionStores(t, k)
          PROVE  \A r \in Sessions : sockets'[r] # NoSock /\ sock'[sockets'[r]].conn = "closed" =>
                    sockets[r] # NoSock /\ sock[sockets[r]].conn = "closed"
      <3>1. task[t].sid \in Sessions /\ task[t].origin \in Taken
        BY <2>2, PromotionOf DEF PromotionStores, At, Promotions
      <3> QED
        BY <2>2, <3>1, ConstantsOK
           DEF PromotionStores, Registered, Sock, Taken, ConstantsOK, TypeOK, MapHoldsOwnSockets, Free
    <2> QED
      BY <2>1, <2>2
         DEF Pairing, PairingStarts, PairingEnds, PairingOpens, PromotionCreates, PromotionFails
  <1> QED
    BY <1>1, <1>2, HandlersStay

(* A socket that ended as its session's is in the map only while the       *)
(* loggedOut handler that will dispose it is suspended.  (Of one that had  *)
(* ended before its promotion stored it, this is not true, and not said.)  *)
THEOREM ClosedSocketsLeave == Spec => []ClosedSocketLeavesMap
  <1>1. Init => ClosedSocketLeavesMap
    BY DEF Init, ClosedSocketLeavesMap
  <1>2. ASSUME TypeOK /\ TimerEntryIsArmed /\ MapHoldsOwnSockets /\ ClosedSocketLeavesMap, [Next]_vars
        PROVE  ClosedSocketLeavesMap'
    <2> USE <1>2
    <2>1. CASE Next /\ ~Restart
      BY <2>1, DeadOpening, DeadPairing, DeadReconnecting, DeadEvents, DeadCron,
         DeadBootstrap, DeadWorkspace, DeadRows, DeadRequests DEF Next
    <2>2. CASE Restart
      BY <2>2 DEF Restart, ClosedSocketLeavesMap
    <2>3. CASE UNCHANGED vars
      BY <2>3 DEF ClosedSocketLeavesMap, LoggedOutHandler, vars, maps
    <2> QED BY <2>1, <2>2, <2>3
  <1> QED BY <1>1, <1>2, TypeCorrect, TimerEntriesArmed, MapHoldsOwn, PTL DEF Spec

-----------------------------------------------------------------------------
(* The workspace loop.  Its open is the only flow of origin "workspace",   *)
(* it is suspended at the version lookup, and no loop runs before boot.    *)
BootFirst == boot # "up" => wsPc = "idle" /\ ~wsTimer

OnlyVersion == \A t \in Tasks : task[t].origin = "workspace" => task[t].pc = "version"

LoopInv == OneWorkspaceLoop /\ BootFirst /\ OnlyVersion

SameWorkspaceOpens ==
    \A u \in Tasks :
        task[u].origin = "workspace" \/ task'[u].origin = "workspace" => task'[u] = task[u]

LEMMA ClearLoop ==
    ASSUME TypeOK, TimerEntryIsArmed, OnlyVersion, NEW s \in Sessions, task' = WithoutTimer(s)
    PROVE  SameWorkspaceOpens
  BY ConstantsOK DEF ConstantsOK, TypeOK, TimerEntryIsArmed, OnlyVersion, SameWorkspaceOpens,
     WithoutTimer, Idle

LEMMA StartLoop ==
    ASSUME TypeOK, TimerEntryIsArmed, OnlyVersion, NEW s \in Sessions, NEW t \in Tasks,
           task[t].origin # "workspace",
           NEW p, NEW o, o # "workspace", task' = [WithoutTimer(s) EXCEPT ![t] = Task(p, s, o)]
    PROVE  SameWorkspaceOpens
  BY ConstantsOK, WithoutTimerType
     DEF ConstantsOK, TypeOK, TimerEntryIsArmed, OnlyVersion, SameWorkspaceOpens,
         WithoutTimer, Idle, Task

LEMMA BeginOpenLoop ==
    ASSUME TypeOK, TimerEntryIsArmed, OnlyVersion, NEW s \in Sessions, NEW t \in Tasks,
           task[t].origin # "workspace", NEW o, o # "workspace", BeginOpen(t, s, o)
    PROVE  SameWorkspaceOpens
  BY StartLoop DEF BeginOpen

LEMMA ScheduleReconnectLoop ==
    ASSUME TypeOK, TimerEntryIsArmed, OnlyVersion, NEW s \in Sessions, NEW t \in Tasks,
           task[t].origin # "workspace", ScheduleReconnect(t, s)
    PROVE  SameWorkspaceOpens
  BY StartLoop DEF ScheduleReconnect

LEMMA FinishLoop ==
    ASSUME TypeOK, NEW t \in Tasks, task[t].origin # "workspace", Finish(t)
    PROVE  SameWorkspaceOpens
  BY DEF TypeOK, Finish, SameWorkspaceOpens, Idle

LEMMA ResumeLoop ==
    ASSUME TypeOK, NEW t \in Tasks, task[t].origin # "workspace", NEW p, Resume(t, p)
    PROVE  SameWorkspaceOpens
  BY DEF TypeOK, Resume, SameWorkspaceOpens

LEMMA SameOpens ==
    ASSUME SameWorkspaceOpens
    PROVE  /\ OnlyVersion => OnlyVersion'
           /\ (\E t \in Tasks : task[t].pc = "version" /\ task[t].origin = "workspace")
                <=> (\E t \in Tasks : task'[t].pc = "version" /\ task'[t].origin = "workspace")
           /\ \A t, u \in Tasks : task'[t].origin = "workspace" /\ task'[u].origin = "workspace"
                => task[t].origin = "workspace" /\ task[u].origin = "workspace"
  BY DEF SameWorkspaceOpens, OnlyVersion

LEMMA LoopStays ==
    ASSUME SameWorkspaceOpens, LoopInv, UNCHANGED ws, UNCHANGED boot
    PROVE  LoopInv'
  BY SameOpens DEF LoopInv, OneWorkspaceLoop, BootFirst, ws

LEMMA LoopOpening ==
    ASSUME TypeOK, TimerEntryIsArmed, LoopInv, Opening
    PROVE  LoopInv'
  <1> USE ConstantsOK DEF ConstantsOK, TypeOK, Idle, LoopInv, OneWorkspaceLoop, BootFirst,
               OnlyVersion
  <1>1. ASSUME NEW t \in Tasks, OpenFailsRecover(t) PROVE LoopInv'
    <2>1. SameWorkspaceOpens
      <3>1. CASE task[t].sid \in AutoReconnect
        BY <1>1, <3>1, TaskOf, ScheduleReconnectLoop DEF OpenFailsRecover, At
      <3>2. CASE ~(task[t].sid \in AutoReconnect)
        BY <1>1, <3>2, FinishLoop DEF OpenFailsRecover, At
      <3> QED BY <3>1, <3>2
    <2> QED BY <1>1, <2>1, LoopStays DEF OpenFailsRecover, life
  <1>2. ASSUME NEW t \in Tasks, OpenFailsAfterTimer(t) PROVE LoopInv'
    BY <1>2 DEF OpenFailsAfterTimer, At, Resume, ws, life
  <1>3. ASSUME NEW t \in Tasks, OpenFailsForCall(t) PROVE LoopInv'
    BY <1>3 DEF OpenFailsForCall, At, Finish, Resume, ws, life
  <1>4. ASSUME NEW t \in Tasks, OpenFailsForWorkspace(t) PROVE LoopInv'
    BY <1>4 DEF OpenFailsForWorkspace, At, Finish, Resume, life
  <1>5. ASSUME NEW t \in Tasks, NEW k \in Socks, BindSocket(t, k)
        PROVE  LoopInv'
    BY <1>5, TaskOf DEF BindSocket, At, Finish, Resume, life
  <1> QED
    BY <1>1, <1>2, <1>3, <1>4, <1>5 DEF Opening, OpenFails

LEMMA LoopReconnecting ==
    ASSUME TypeOK, TimerEntryIsArmed, LoopInv, Reconnecting
    PROVE  LoopInv'
  <1> USE ConstantsOK DEF ConstantsOK, TypeOK, Idle, LoopInv, OneWorkspaceLoop, BootFirst,
               OnlyVersion
  <1>1. ASSUME NEW t \in Tasks, WriteReconnecting(t) PROVE LoopInv'
    BY <1>1, TaskOf DEF WriteReconnecting, At, Resume, ws, life
  <1>2. ASSUME NEW t \in Tasks, ArmTimer(t) PROVE LoopInv'
    BY <1>2, TaskOf DEF ArmTimer, At, Resume, ws, life
  <1>3. ASSUME NEW t \in Tasks, TimerFires(t) PROVE LoopInv'
    BY <1>3, TaskOf DEF TimerFires, At, Resume, ws, life
  <1>4. ASSUME NEW t \in Tasks, LoadSession(t) PROVE LoopInv'
    <2>1. SameWorkspaceOpens
      <3>1. CASE HasRow(task[t].sid)
        BY <1>4, <3>1, TaskOf, BeginOpenLoop DEF LoadSession, OnlyVersion, LoopInv, At
      <3>2. CASE ~(HasRow(task[t].sid))
        BY <1>4, <3>2, ResumeLoop DEF LoadSession, OnlyVersion, LoopInv, At
      <3> QED BY <3>1, <3>2
    <2> QED BY <1>4, <2>1, LoopStays DEF LoadSession, life
  <1>5. ASSUME NEW t \in Tasks, RetryOrAbandon(t) PROVE LoopInv'
    <2>1. SameWorkspaceOpens
      <3>1. CASE HasRow(task[t].sid) /\ task[t].sid \in AutoReconnect
        BY <1>5, <3>1, TaskOf, ScheduleReconnectLoop DEF RetryOrAbandon, OnlyVersion, LoopInv, At
      <3>2. CASE ~(HasRow(task[t].sid) /\ task[t].sid \in AutoReconnect)
        BY <1>5, <3>2, FinishLoop DEF RetryOrAbandon, OnlyVersion, LoopInv, At
      <3> QED BY <3>1, <3>2
    <2> QED BY <1>5, <2>1, LoopStays DEF RetryOrAbandon, life
  <1> QED
    BY <1>1, <1>2, <1>3, <1>4, <1>5 DEF Reconnecting

LEMMA LoopEvents ==
    ASSUME TypeOK, TimerEntryIsArmed, LoopInv, Events
    PROVE  LoopInv'
  <1> USE ConstantsOK DEF ConstantsOK, TypeOK, Idle, LoopInv, OneWorkspaceLoop, BootFirst,
               OnlyVersion
  <1>1. ASSUME NEW k \in Socks, QrEvent(k) PROVE LoopInv'
    BY <1>1, SockOf DEF QrEvent, ws, life
  <1>2. ASSUME NEW k \in Socks, NEW t \in Tasks, OpenEvent(k, t)
        PROVE  LoopInv'
    <2>1. SameWorkspaceOpens
      <3>1. sock[k].owner \in Sessions
        BY <1>2, SockOf DEF OpenEvent
      <3> QED
        BY <1>2, <3>1, WithoutTimerType
           DEF OpenEvent, TimerEntryIsArmed, SameWorkspaceOpens, WithoutTimer, Task
    <2> QED BY <1>2, <2>1, SameOpens DEF OpenEvent, life, LoopInv, OneWorkspaceLoop, BootFirst
  <1>3. ASSUME NEW k \in Socks, NEW t \in Tasks, CloseEvent(k, t)
        PROVE  LoopInv'
    <2>1. SameWorkspaceOpens
      BY <1>3, SockOf, ScheduleReconnectLoop DEF CloseEvent, Idle
    <2> QED BY <1>3, <2>1, LoopStays DEF CloseEvent, life
  <1>4. ASSUME NEW k \in Socks, NEW t \in Tasks, LoggedOutEvent(k, t)
        PROVE  LoopInv'
    BY <1>4, SockOf DEF LoggedOutEvent, Task, ws, life
  <1>5. ASSUME NEW t \in Tasks, FindConnected(t) PROVE LoopInv'
    BY <1>5 DEF FindConnected, At, Resume, ws, life
  <1>6. ASSUME NEW t \in Tasks, SaveConnected(t) PROVE LoopInv'
    <2>1. SameWorkspaceOpens
      <3>1. CASE HasRow(task[t].sid)
        BY <1>6, <3>1, ResumeLoop DEF SaveConnected, OnlyVersion, LoopInv, At
      <3>2. CASE ~(HasRow(task[t].sid))
        BY <1>6, <3>2, FinishLoop DEF SaveConnected, OnlyVersion, LoopInv, At
      <3> QED BY <3>1, <3>2
    <2> QED BY <1>6, <2>1, LoopStays DEF SaveConnected, life
  <1>7. ASSUME NEW t \in Tasks, AfterConnected(t) PROVE LoopInv'
    BY <1>7, TaskOf DEF AfterConnected, At, Finish, Resume, ws, life
  <1>8. ASSUME NEW t \in Tasks, FindFailed(t) PROVE LoopInv'
    BY <1>8 DEF FindFailed, At, Resume, ws, life
  <1>9. ASSUME NEW t \in Tasks, SaveFailed(t) PROVE LoopInv'
    BY <1>9, TaskOf DEF SaveFailed, At, Resume, ws, life
  <1>10. ASSUME NEW t \in Tasks, AfterFailed(t) PROVE LoopInv'
    BY <1>10, TaskOf DEF AfterFailed, At, Finish, Resume, ws, life
  <1> QED
    BY <1>1, <1>2, <1>3, <1>4, <1>5, <1>6, <1>7, <1>8, <1>9, <1>10 DEF Events

LEMMA LoopCron ==
    ASSUME TypeOK, TimerEntryIsArmed, LoopInv, Cron
    PROVE  LoopInv'
  <1> USE ConstantsOK DEF ConstantsOK, TypeOK, Idle, LoopInv, OneWorkspaceLoop, BootFirst,
               OnlyVersion
  <1>1. ASSUME CronTick PROVE LoopInv'
    BY <1>1 DEF CronTick, ws, life
  <1>2. ASSUME NEW s \in Sessions, CronSkips(s) PROVE LoopInv'
    BY <1>2 DEF CronSkips, ws, life
  <1>3. ASSUME NEW s \in Sessions, NEW t \in Tasks, CronOpens(s, t)
        PROVE  LoopInv'
    <2>1. SameWorkspaceOpens
      BY <1>3, BeginOpenLoop DEF CronOpens, Idle
    <2> QED BY <1>3, <2>1, LoopStays DEF CronOpens, life
  <1> QED
    BY <1>1, <1>2, <1>3 DEF Cron

LEMMA LoopBootstrap ==
    ASSUME TypeOK, TimerEntryIsArmed, LoopInv, Bootstrap
    PROVE  LoopInv'
  <1> USE ConstantsOK DEF ConstantsOK, TypeOK, Idle, LoopInv, OneWorkspaceLoop, BootFirst,
               OnlyVersion
  <1>1. ASSUME BootSessions PROVE LoopInv'
    BY <1>1 DEF BootSessions, ws
  <1>2. ASSUME BootListsWorkspaces PROVE LoopInv'
    BY <1>2 DEF BootListsWorkspaces, ws
  <1>3. ASSUME BootWorkspaces PROVE LoopInv'
    BY <1>3 DEF BootWorkspaces, EnsureWorkspace
  <1>4. ASSUME NEW s \in Sessions, NEW t \in Tasks, BootOpens(s, t)
        PROVE  LoopInv'
    <2>1. SameWorkspaceOpens
      BY <1>4, BeginOpenLoop DEF BootOpens, Idle
    <2> QED BY <1>4, <2>1, LoopStays DEF BootOpens, life
  <1>5. ASSUME WorkspaceRegisters PROVE LoopInv'
    BY <1>5 DEF WorkspaceRegisters, ws
  <1> QED
    BY <1>1, <1>2, <1>3, <1>4, <1>5 DEF Bootstrap

LEMMA LoopWorkspace ==
    ASSUME TypeOK, TimerEntryIsArmed, LoopInv, Workspace
    PROVE  LoopInv'
  <1> USE ConstantsOK DEF ConstantsOK, TypeOK, Idle, LoopInv, OneWorkspaceLoop, BootFirst,
               OnlyVersion
  <1>1. ASSUME WorkspaceLists PROVE LoopInv'
    BY <1>1 DEF WorkspaceLists, life
  <1>2. ASSUME WorkspaceDone PROVE LoopInv'
    BY <1>2 DEF WorkspaceDone, life
  <1>3. ASSUME WorkspaceRetryFires PROVE LoopInv'
    BY <1>3 DEF WorkspaceRetryFires, EnsureWorkspace, life
  <1>4. ASSUME NEW s \in Sessions, WorkspaceSkips(s) PROVE LoopInv'
    BY <1>4 DEF WorkspaceSkips, life
  <1>5. ASSUME NEW s \in Sessions, NEW t \in Tasks, WorkspaceOpens(s, t)
        PROVE  LoopInv'
    BY <1>5 DEF WorkspaceOpens, BeginOpen, Task, WithoutTimer, life
  <1> QED
    BY <1>1, <1>2, <1>3, <1>4, <1>5 DEF Workspace

LEMMA LoopRows ==
    ASSUME TypeOK, TimerEntryIsArmed, LoopInv, Rows
    PROVE  LoopInv'
  <1> USE ConstantsOK DEF ConstantsOK, TypeOK, Idle, LoopInv, OneWorkspaceLoop, BootFirst,
               OnlyVersion
  <1>1. ASSUME NEW s \in Sessions, CreateSession(s) PROVE LoopInv'
    BY <1>1 DEF CreateSession, ws, life
  <1>2. ASSUME NEW s \in Sessions, DeleteSession(s) PROVE LoopInv'
    BY <1>2 DEF DeleteSession, ws, life
  <1>3. ASSUME NEW s \in Sessions, NEW v \in Persisted, PatchSession(s, v)
        PROVE  LoopInv'
    BY <1>3 DEF PatchSession, ws, life
  <1> QED
    BY <1>1, <1>2, <1>3 DEF Rows

LEMMA LoopRequests ==
    ASSUME TypeOK, TimerEntryIsArmed, LoopInv, Requests
    PROVE  LoopInv'
  <1> USE ConstantsOK DEF ConstantsOK, TypeOK, Idle, LoopInv, OneWorkspaceLoop, BootFirst,
               OnlyVersion
  <1>1. ASSUME NEW s \in Sessions, NEW t \in Tasks, Disconnect(s, t)
        PROVE  LoopInv'
    <2>1. SameWorkspaceOpens
      BY <1>1, WithoutTimerType DEF Disconnect, TimerEntryIsArmed, SameWorkspaceOpens, WithoutTimer, Task
    <2> QED BY <1>1, <2>1, LoopStays DEF Disconnect, life
  <1>2. ASSUME NEW t \in Tasks, SaveDisconnected(t) PROVE LoopInv'
    BY <1>2, TaskOf DEF SaveDisconnected, At, Finish, Resume, ws, life
  <1>3. ASSUME NEW c \in Calls, NEW s \in Sessions, NEW kind \in {"connect", "reconnect", "replace"}, CallStart(c, s, kind)
        PROVE  LoopInv'
    BY <1>3 DEF CallStart, ws, life
  <1>4. ASSUME NEW c \in Calls, CallSaves(c) PROVE LoopInv'
    BY <1>4, CallOf DEF CallSaves, ws, life
  <1>5. ASSUME NEW c \in Calls, CallEnds(c) PROVE LoopInv'
    <2>1. SameWorkspaceOpens
      BY <1>5, CallOf, ClearLoop DEF CallEnds
    <2> QED BY <1>5, <2>1, LoopStays DEF CallEnds, life
  <1>6. ASSUME NEW c \in Calls, CallReloads(c) PROVE LoopInv'
    BY <1>6, CallOf DEF CallReloads, ws, life
  <1>7. ASSUME NEW c \in Calls, CallFinishes(c) PROVE LoopInv'
    BY <1>7, CallOf DEF CallFinishes, ws, life
  <1>8. ASSUME NEW c \in Calls, NEW t \in Tasks, CallConnects(c, t)
        PROVE  LoopInv'
    <2>1. SameWorkspaceOpens
      BY <1>8, CallOf, BeginOpenLoop, ConstantsOK DEF ConstantsOK, CallConnects, Idle
    <2> QED BY <1>8, <2>1, LoopStays DEF CallConnects, life
  <1>9. ASSUME QrRequest PROVE LoopInv'
    <2>1. SameWorkspaceOpens
      BY <1>9, EndPairingKeeps DEF QrRequest, Promotions, SameWorkspaceOpens
    <2> QED BY <1>9, <2>1, LoopStays DEF QrRequest, life
  <1>10. ASSUME NEW s \in Sessions, QrEnds(s) PROVE LoopInv'
    <2>1. SameWorkspaceOpens
      BY <1>10, ClearLoop DEF QrEnds
    <2> QED BY <1>10, <2>1, LoopStays DEF QrEnds, life
  <1>11. ASSUME NEW s \in Sessions, QrDeactivates(s) PROVE LoopInv'
    BY <1>11 DEF QrDeactivates, ws, life
  <1> QED
    BY <1>1, <1>2, <1>3, <1>4, <1>5, <1>6, <1>7, <1>8, <1>9, <1>10, <1>11 DEF Requests

LEMMA LoopPairing ==
    ASSUME TypeOK, TimerEntryIsArmed, LoopInv, Pairing
    PROVE  LoopInv'
  <1> USE DEF TypeOK, Idle, LoopInv, OneWorkspaceLoop, BootFirst, OnlyVersion
  <1>1. ASSUME PairingStarts PROVE LoopInv'
    BY <1>1 DEF PairingStarts, ws, life
  <1>2. ASSUME PairingEnds PROVE LoopInv'
    <2>1. SameWorkspaceOpens
      BY <1>2, EndPairingKeeps DEF PairingEnds, Promotions, SameWorkspaceOpens
    <2> QED BY <1>2, <2>1, LoopStays DEF PairingEnds, life
  <1>3. ASSUME NEW s \in Sessions, NEW t \in Tasks, PairingOpens(s, t) PROVE LoopInv'
    <2>1. SameWorkspaceOpens
      BY <1>3 DEF PairingOpens, Task, SameWorkspaceOpens
    <2> QED BY <1>3, <2>1, SameOpens DEF PairingOpens, life
  <1>4. ASSUME NEW t \in Tasks, PromotionCreates(t) PROVE LoopInv'
    <2>1. SameWorkspaceOpens
      BY <1>4, ResumeLoop DEF PromotionCreates, At
    <2> QED BY <1>4, <2>1, LoopStays DEF PromotionCreates, life
  <1>5. ASSUME NEW t \in Tasks, PromotionFails(t) PROVE LoopInv'
    <2>1. SameWorkspaceOpens
      BY <1>5, FinishLoop DEF PromotionFails, At
    <2> QED BY <1>5, <2>1, LoopStays DEF PromotionFails, life
  <1>6. ASSUME NEW t \in Tasks, NEW k \in Socks, PromotionStores(t, k) PROVE LoopInv'
    <2>1. SameWorkspaceOpens
      BY <1>6, FinishLoop DEF PromotionStores, At
    <2> QED BY <1>6, <2>1, LoopStays DEF PromotionStores, life
  <1> QED
    BY <1>1, <1>2, <1>3, <1>4, <1>5, <1>6 DEF Pairing

(* ensureWorkspaceConnected is never running twice for the workspace, nor  *)
(* running with its retry timer pending.                                   *)
THEOREM WorkspaceLoopIsOne == Spec => []OneWorkspaceLoop
  <1>1. Init => LoopInv
    BY DEF Init, LoopInv, OneWorkspaceLoop, BootFirst, OnlyVersion, Idle
  <1>2. ASSUME TypeOK, TimerEntryIsArmed, LoopInv, [Next]_vars
        PROVE  LoopInv'
    <2> USE <1>2
    <2>1. CASE Next /\ ~Restart
      BY <2>1, LoopOpening, LoopPairing, LoopReconnecting, LoopEvents, LoopCron, LoopBootstrap,
         LoopWorkspace, LoopRows, LoopRequests DEF Next
    <2>2. CASE Restart
      BY <2>2 DEF Restart, LoopInv, OneWorkspaceLoop, BootFirst, OnlyVersion, Idle
    <2>3. CASE UNCHANGED vars
      BY <2>3 DEF LoopInv, OneWorkspaceLoop, BootFirst, OnlyVersion, vars, ws, life
    <2> QED BY <2>1, <2>2, <2>3
  <1>3. LoopInv => OneWorkspaceLoop
    BY DEF LoopInv
  <1> QED BY <1>1, <1>2, <1>3, TypeCorrect, TimerEntriesArmed, PTL DEF Spec
=============================================================================
