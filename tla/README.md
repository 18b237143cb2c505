# easy-service-all: TLA+ verification project

easy-service connects customer service teams to WhatsApp. A NestJS server
(`src/apps/easy-service`) keeps WhatsApp sockets through the Baileys library,
stores conversations in MongoDB and login sessions in Redis, and talks to
browsers over REST and Socket.IO. A Next.js front end
(`src/apps/easy-service-front`) shows the chats.

This directory holds TLA+ modules of the parts of it that are concurrent, the
TLC configurations that check them, and theorems with TLAPS proofs.
`PROJECT.json` lists components, runs, mutants, hazards and theorems, and gives
for every definition the source lines it stands for.

    tlc -workers 2 -config BrowserSession.cfg MCBrowserSession     # one run
    tlapm BaileysSessionProofs.tla                                 # one module of proofs

Paths below are relative to `src/apps/easy-service/src` (server) or
`src/apps/easy-service-front/src` (front).

## 1. Inventory

| Component | State it keeps | Operations | Module |
| --- | --- | --- | --- |
| WhatsApp session life cycle (`modules/baileys/app/baileys.service.ts`) | maps `sockets`, `runtime`, `reconnectTimers`, `workspaceRetryTimers`, `connectionOutcomes`; rows of the session collection | boot, cron every 10 s, workspace retry loop, registration of a workspace, promotion of a scanned pairing, reconnect timers, events of each socket, REST: create, patch, delete, connect, reconnect, disconnect, replace, new QR | `BaileysSession` |
| QR pairing (same file, `modules/socket/app/socket.service.ts`) | the `pending:<workspaceId>` entries of the maps, `qrEmit`, `qrExpiryTimer`, cached QR | register, request a new QR, QR / 515 restart / open / close events, promotion to a stored session, timeout | `QrPairing`, abstractly `PairingWindow` |
| Token sessions (`infra/auth/jwt`, `infra/redis`, `modules/auth`) | Redis: `online:`, `refresh:`, `blacklist:` entries with TTLs | login, validate, refresh, logout, hourly cleanup | `JwtSession` |
| Socket gateway (`modules/socket`, `shared/guards`) | user id and rooms of each socket, count of sockets per user | handshake, disconnect, logout, guard; join and leave of rooms | `SocketHandshake`; rooms in `ConnectPage` |
| Browser session (`contexts/auth-context.tsx`, `contexts/session-socket-context.tsx`) | tokens in localStorage and React state, refresh timer, socket, retry timer and budget | bootstrap, sign in and out, refresh, connect, retry, give up | `BrowserSession` |
| Message ingest, conversations (`baileys.service.ts`, `modules/conversation`, `modules/baileys/app/message.service.ts`) | conversation and message collections | upsert handler, send text, read marks, names, notations | `ChatDelivery`; notations in `ChatDesk` |
| Chat panel (`components/chat`) | conversation list, open conversation, its messages, forms of the details, requests in flight | load, open, send, receive, close, rename, save as contact, notes | `ChatDelivery`, `ChatDesk` |
| Voice messages (`components/chat/message-view.tsx`, `modules/baileys/app/audio-upload.service.ts`) | recorder, microphone, interval and fragments of the input; map of uploads | record, cancel, send; start, chunk, complete, eviction | `AudioRecorder` |
| Workspace service (`modules/workspace`) | workspace collection, one cache of listings | create, update, delete, get, list | `WorkspaceService` |
| Workspace pages (`components/workspaces`, `app/(app)/workspaces`) | route, list, page, search, form | navigate, search, page, delete, create, edit | `WorkspacePages` |
| Connection page (`workspace-connection-client.tsx`, `hooks/use-workspace-rooms.ts`) | phase, code, whether it asked; room of its socket | join, ask for a code, hear of codes and connections, delete a session | `ConnectPage` |
| Contacts (`modules/contact`, `components/contacts`) | contact collection; cards, panel, form | list, create, edit, delete, import, upsert by a message | `Contacts` |
| Users (`modules/user`, `components/users`) | user collection; table, modal | list, create, update, delete | `UserAccounts` |
| Login form, queue and rate limiter, credential storage, contracts and PDF templates, seed, swagger, HTTP helpers | little or none | | not modelled, see section 6 |

How they interact. REST handlers call the use cases, which call
`BaileysService`. Socket events, cron and timers call it too; everything shares
the maps and the rows. `BaileysService` emits QR codes and messages to a room of
the gateway, named by the workspace. A browser gets into the room by the
handshake, which asks the token sessions, and then `workspace:join`. A logout
revokes tokens and closes the user's sockets. Every guarded REST request asks
for a valid token and, in most controllers, for presence. In the browser a
renewed token tears down the socket and opens another, so the chat panel's
events depend on both contexts.

What makes it hard. Node runs one callback at a time, but every `await` lets
another run: the code between two awaits is one atomic step, and whatever was
read before an await may be stale after it. On the server there is no lock
around a session, a pairing or a user; timers outlive the entry they were armed
for; listeners stay bound to sockets that have left the maps; the process may
restart with rows saying "connected". Redis commands of different requests
interleave one by one. WhatsApp repeats messages; sockets close at any point of
a handshake; HTTP answers arrive in any order. A page of the front end does not
cancel its requests: their answers find another page, another conversation, or
the same page with another form open.

What each component owes (the properties, by module, are in section 3): a
socket that closes leaves the maps and no entry is without its timer; an active
session comes back, a deleted one falls silent, a row does not claim a dead
connection; a pairing ends and does not speak unasked; a user online can
refresh, until the limit of the login and not beyond; presence counts no less
than the sockets; one socket and one retry per tab; a message is filed where it
is found and shown once; a control that is busy is waiting for something that
will come; what a page writes goes to the contact or the conversation it was
meant for; what was deleted stays so, and a listing shows nobody else's rows.

## 2. Plan

Done, in this order:

1. `BaileysSession`, then `BaileysSessionProofs`: the core, shared by all else.
2. `QrPairing`, then `QrPairingProofs`: the pairing entries, which share its
   maps under other keys.
3. `JwtSession`, and `SocketHandshake`, which EXTENDS it: a handshake and a
   logout are composed with the commands of every token request. Then
   `SocketHandshakeProofs` about both.
4. `BrowserSession`, then `BrowserSessionProofs`: the other end of the handshake.
5. `ChatDelivery`, then `ChatDeliveryProofs`: from WhatsApp to the panel.
6. `PairingWindow`, what the pairing promises, implemented by `QrPairing`, and
   `ConnectPage`, which EXTENDS it: page, room and pairing together.
7. `ChatDesk` and `AudioRecorder`: the rest of the chat, with its services.
8. `UserAccounts`, `Contacts`, `WorkspaceService`, `WorkspacePages`: the pages
   of the administration and their services.
9. `Pages`, which puts these pages into one tab, and `DeskProofs`, `AdminProofs`
   and `ContactsProofs` about it.

To come:

10. Read marks, and the participants of groups.
11. An abstract specification of the life cycle of a session, as the connection
    page sees it, and its refinement by `BaileysSession`.

The modules are written for proof as well as for TLC: constants with named
assumptions, one action per step, no RECURSIVE operator.

## 3. Modules, runs and what they show

### BaileysSession

One workspace. An action is the code from one await to the next. A suspended
flow or an armed timeout holds a slot of `task`, whose `pc` names the await;
`connect`-like requests hold a slot of `call`; the loops of the cron, the boot,
the workspace and `requestNewQrCode` have variables of their own. Sockets have
identity, because a socket overwritten in the map still reports events under
its `sessionId`. `runtime` has the keys of `sockets` and is not a variable.
Database reads are merged with the resumption that uses them; a write has its
own step where the resumption changes state. An open may fail or succeed at
any time, a socket may emit open and close at any time.

Of the pairing, which is `QrPairing`'s, the module keeps what the sessions feel:
`pending`, the socket under `pending:<workspaceId>`, which the workspace loop
also consults, and the promotion. `createWhatsappSessionAfterQrScan` reads that
socket, awaits the row, and stores it as the session's: `PairingOpens`,
`PromotionCreates` or `PromotionFails`, `PromotionStores`. Meanwhile it may close
or be disposed (`Lost`), or a newer one take its key; which events bring that
about is left open here. `PromotionStores` stores what it read whatever became
of it. A socket stored after it ended is `"lost"`: it reports no further event,
while the map entry keeps the cron and the workspace loop away from an active
session. That is the finding `session_promoted`. `WorkspaceRegisters` opens the
active sessions of a workspace with the steps the boot has for it, since both
call `internalOpenSocket` and recover alike.

The passing properties say what the code does keep in spite of it: a socket that
closes *as its session's* leaves the map (`ClosedSocketLeavesMap`), and an active
session without a socket, or with one that closed as its own, is opened again
(`ActiveSessionIsReopened`). Neither speaks of a `"lost"` socket.

`Init` takes every combination of row contents with empty maps: the states a
process may find when it starts after a crash. `MaxRestarts` adds restarts
during the run.

| Run | Instance | Shows |
| --- | --- | --- |
| `session` | 1 session, 2 flows, 2 sockets, 1 call; every kind of request, pairings and registrations among them, one restart; 630 thousand states | `TypeOK`, `ClosedSocketLeavesMap`, `TimerEntryIsArmed`, `OutcomeIsAwaited`, `OneWorkspaceLoop` |
| `session_live` | delete, disconnect and pairings, fairness; 350 thousand states | `ActiveSessionIsReopened`, `ConnectedRowIsCorrected`, `DeletedSessionGoesQuiet` |
| `session_leak` | two overlapping opens | finding: `OneSocketPerSession` is violated |
| `session_promoted` | one pairing | finding: `EndedSocketIsFollowedUp` is violated |

Bounds. The flows of a session meet through its own row, map entry and timer,
so one session with two flows and two sockets has every pairwise race. All
requests at once exceed what TLC enumerates: under `OneKindAtATime` a request
that waits for an outcome (connect, reconnect, replace), a pairing and a
registration run one at a time, without a restart behind them and without a
disconnect or a QR request beside them, and with one of the loops of cron and
workspace besides, which for a request that waits is the cron; a QR request runs
without a restart behind it and without the workspace loop. The proofs below have no bounds of this kind. Two bounds are
in the module itself and so in the proofs: one promotion is under way at a time,
and a registration waits for the one before it. `MapHoldsOwnSockets` rests on
the first: two promotions may read one socket, and the later one then takes its
listeners along. `QrPairing` has that case.

Fairness. The event loop runs every callback and timeout, the database answers,
the cron fires: weak fairness of each. The cron has strong fairness because its
flow needs a free slot, which in the program it always has; the slots are a
bound of the model. Whether WhatsApp accepts a connection is left open, and
`ActiveSessionIsReopened` asks for the attempt only. Pairings start and end as
they like.

Left out: the reconnect attempt counter (nothing reads it), the debounced save
of credentials, wording of statuses beyond those the code compares.

### QrPairing

The entries `pending:<workspaceId>` and the sockets behind them, the QR window
and its timeout, the cached QR, the 515 restart and the promotion of a pairing
to a session. A timeout is modelled as armed for the present entry or as an
orphan of an earlier one: orphans are interchangeable. A socket that ended
frees its slot once nothing refers to it any more, which a promotion suspended
before it stores its session still does; two of them may have read one socket
(`ReferredTo`). Bounds: `MaxRequests` QR requests and `MaxOrphans` orphaned
timeouts.

`qr_pairing` shows that a requested pairing always has an armed timeout
(`WindowHasTimer`) and ends (`PairingEnds`), that a pairing nobody asked for
emits nothing (`SilentUntilAsked`), and that all this implements
`PairingWindow` (`PairingKeepsItsPromise`, a refinement: the window is the entry
under the pending key, the code on offer the cached one, the end of a window
its only liveness). `qr_stale_timeout` is a finding: a
restart deletes the entry without cancelling its timeout, which later ends the
pairing that took its place. Two requests, two sockets and one orphan are what
these races need; the passing run has three sockets. Fairness: timeouts fire
and flows resume; phones and WhatsApp owe nothing.

### JwtSession, SocketHandshake

One user with several token pairs. Each Redis command is one action, joined
with the code it resumes: the server has one connection, answered in order.
Time is a counter; entries expire at their TTL or later, never before. A pair
can be used by a client from the moment it is stored. `SocketHandshake` EXTENDS
`JwtSession` and adds the sockets, the two awaits of `session:authenticate`,
the count of `SocketAuthenticatedPresenceService`, the guard, and the
disconnection a logout makes before it revokes.

`access` shows, over all interleavings of logins, refreshes, logouts, expiry,
cleanup and handshakes: whoever is online can refresh
(`OnlineIsRefreshable`); no token outlives the limit counted from its login
(`SessionEndsAtLimit`); a revoked session that is still online is on its way
out (`BlacklistedSessionIsEnding`); an authenticated socket is counted
(`ActiveIsPresent`). A finding: a handshake between the two steps of a logout
survives it (`access_logout`). The count may also be too high, since it keeps
sockets that closed during their handshake; the model reaches that.

Bounds: 3 pairs, 2 requests at a time, 2 connections, 1 handshake, access TTL
1, limit 2, time to 2: a login, a refresh that is cut by the limit, and one
beyond. `Bounded` in `MCSocketHandshake` explores races of requests without
sockets and races of sockets with one request at a time: the two meet only
through the online entry. Left out: passwords, users other than one, roles.

### BrowserSession

One tab: `AuthProvider` and `SessionSocketProvider`. `Commit` is React running
the effect of a changed token; before it, sockets and timers of the older token
are still served. `effect = None` stands for `intentionalCloseRef`. Server
answers, sign-outs here or in another tab and reloads come at any time.

`browser` shows that the tab has no socket but the one it refers to and no
timer but the one it can clear, however effects and retries alternate; none
without a token; that "connected" is true; that a signed-in tab has its refresh
scheduled or in flight; that a sign-out in another tab arrives; and that a tab
that tries ends up connected or in error.

Bounds: 5 retries as in the code, 2 refreshes in flight, 2 sockets (teardown
precedes connect), 3 new tokens per page load. The last is also an assumption:
every token restarts the budget, so tokens renewed faster than connections fail
would keep a tab trying. The code comes close to that in the last minute of a
session, a hazard listed without a property. Fairness: effects, timeouts and
HTTP answers; a refresh timeout is relied upon only when there is nothing left
to refresh with. Left out: the session cookie, and the handshake repeated on
`client-file-logs`, whose listener is registered though nothing in the
repository sends it; `ConnectPage` has it, because a repeated handshake is what
its rooms would notice.

### ChatDelivery

Handlers of `messages.upsert` with their awaits (lookup, upsert, insert, store)
before the emission; repeated deliveries of one message; MongoDB upserts that
may both insert, since a conversation's key ends in a random hash; the unique
index on `whatsappMessageId`. On the panel: the list and histories over HTTP,
read by the server at one moment and taken at another; live messages; bubbles
of texts just sent. The messages of the panel are a bag: their order is not
modelled.

`chat` shows that a stored message is filed under an existing conversation of
its chat, is shown once, and never stands beside its own bubble. Instance: one
chat with two documents, a message of the client, two equal messages of the
attendant, two handlers, two requests. Two handlers are what a race over a
conversation or a repeated message needs; equal texts are the hard case for
bubbles. Left out: participants and names, mentions (a replaced mention changes
the text the bubble is matched with), read marks, all but the first
message of a batch, which the handler drops.

No property says that the panel shows the conversation that is open, nor all
of it: a late history replaces whatever is there. Both are listed as hazards.

### PairingWindow, ConnectPage

`PairingWindow` is the pairing without sockets, timers and rows: a window is
closed, silent or asked for; a code is offered only in one that was asked for;
an asked window ends. `ConnectPage` EXTENDS it and adds a tab: its socket and
the room it is in, with joins and leaves in flight (each awaits the database, so
one may overtake the other), the events on the wire, the page with its phase and
its code, its requests over HTTP, its list of sessions with the delete dialog.
The room also hears the codes of stored sessions that are connected again
(`OffersForStored`), beside the window. A renewed token takes the client off the
screen and mounts it anew, with the request of the old one still in flight.
`RequestingIsAwaited`: a page that says it is asking for a code, which leaves it
no button to ask again, has a request of its own mount in flight that will end
that. What the model also reaches, and no document excludes: the client mounted
for a renewed token asks by itself and so ends the pairing being scanned; a
socket left outside its room by an overtaking leave; and a code replaced by
"waiting" when the HTTP answer comes after it.

### ChatDesk

The details of the open conversation with their five forms, the notes as the
panel lists them, `NotationService` over the conversations, and a colleague who
works on the same notes. The forms are not keyed by conversation, which the
model keeps. `NotesAreNotLost`: the stored notes are those created and not
deleted, however updates and deletes overlap. `NotesStayInTheirChat`: the answer
to a note goes to the conversation it was written in. Closing a conversation
calls a route the server does not have, and so fails.

### AudioRecorder

`useAudioRecorder`, the upload in pieces, the delivery. A recorder stops in its
own time: its last fragment and its `stop` event come after the handler that
stopped it, into references a next recording shares, and so does the state the
input shows. `InputIsAwaited`: an input that says it records has a recorder that
will stop, and one that says it sends has an upload that will end, so it is never
left without its button. `audio_cancel` is a finding: the last fragment of a
cancelled recording is sent. What the model also reaches, and no document
excludes: a recording is uploaded for the conversation its button was clicked
in, but from the one list of fragments, so a permission that comes late can send
there what was recorded in another conversation.

### WorkspaceService, WorkspacePages

`WorkspaceService` serves requests of an admin and a super admin step by step
over the collection and the shared cache; a listing may be kept after an update
cleared the cache. `ListsStayPrivate`: an admin is answered with its own rows
only, from the cache or not. `WorkspacePages` is the front end of one user:
list, search, pages, dialog, forms. Its server answers anything, in any order,
which includes whatever `WorkspaceService` answers. `BusyIsAwaited`: every
control that is disabled while something runs waits for a call that is still to
be answered, so nothing stays disabled. A save that is answered late takes the
user to the list from wherever they are; that is in the model, and no document
says otherwise.

### Contacts

The page with its cards and its panel, the service, the unique index on
workspace and phone, and messages that create contacts. A phone is the string
stored: `normalizePhone` keeps a `+` that was typed, a message brings digits
(`BarePhones`), so one number may be two phones, and two contacts, of which the
index sees nothing. `FormIsOfContact`: the form holds the fields of the contact
it will change. `SpinnersAreAwaited`: the list is busy only while a list is being
loaded, and the buttons of a form only while its own call, not that of a form
that is gone, is in flight; lists, saves and refused saves of several forms
overlap.

### UserAccounts

The page and `UserService`, whose update reads the row and writes it after an
await. `DeletedAccountStaysDeleted`: no update brings an account back. Of a row
the model keeps the password and how often it was hashed, as the code does it:
an update that leaves the password out merges the stored hash into a new
`UserEntity`, which hashes it again (`Merged`;
`modules/user/app/user.service.ts:50`), so editing a user with the field "Nova
senha (opcional)" left empty locks the user out. One call shows it, and it has
no run of its own.

### Pages

A tab has one page on the screen, and the pages share no collection, so `Pages`
instantiates their modules with one set of constants: `page` is chosen in the
initial state and that page's modules take the steps, while what the others keep
stays as it is. One run, `pages`, checks them all; `MCPages` adds the symmetry
of model values. Bounds: two calls in flight, which is what a race of answers
needs; two workspaces or conversations, so that there is another one to be
confused with; one user, one note, two contacts and one phone,
typed or brought by a message, one workspace of the service, which are what the properties are violated
with when a guard is dropped; one click and two mounts of the connection page.
TLC finds 1.2 million states. No fairness: the run has safety properties only.
Deadlock is off because a bounded page may run out of calls. The proofs have
none of these bounds.

## 4. Proofs

Every invariant and every action property that a passing run checks is also a
theorem, for all values of the constants. But for one, which names its
hypothesis, they rest on nothing but the named assumptions on constants, which
TLC evaluates in the runs:

| Assumption | Says |
| --- | --- |
| `ConstantsOK`, `QrConstantsOK`, `BrowserConstantsOK` | bounds are numbers; markers such as `NoSock` are no member of the sets they stand beside |
| `JwtConstantsOK` | an access token lives a positive time and no longer than a session may; `NoPair` is no pair |
| `HandshakeConstantsOK` | finitely many sockets, so that presence can count them |
| `ChatConstantsOK` | each message has a text and a chat |
| `PagesConstantsOK` | "nobody" is not a user |

TLC checked the inductive invariants, too, on the instances of section 3. Below,
for each module of proofs, what it shows and why the invariants of the runs are
not inductive alone.

### Sessions

`BaileysSessionProofs` proves for every choice of the constants, from
`ConstantsOK` alone:

| Theorem | Says |
| --- | --- |
| `TypeCorrect` | `TypeOK` |
| `OutcomesAwaited` | an outcome belongs to a call that waits: none is settled twice |
| `TimerEntriesArmed` | an entry of `reconnectTimers` has a timeout that will fire |
| `MapHoldsOwn` | a map entry is a socket whose listeners carry its id |
| `ClosedSocketsLeave` | `ClosedSocketLeavesMap`: a socket that closed as its session's is in the map only while the handler of its close is suspended |
| `WorkspaceLoopIsOne` | at most one workspace loop runs, its retry timer counted |

The argument. `TypeOK` is not inductive alone: what settles an outcome writes
to the call it names, which must be a call in progress. `CallInv` joins it with
`OutcomeIsAwaited` and `OpenOfItsCall`, that an open started by a call is of
the call's session, and is inductive. Given the types, `TimerEntryIsArmed` is
inductive: a step that ends a flow was not the armed timeout of an entry, or
clears the entry. So is `MapHoldsOwnSockets`. `ClosedSocketLeavesMap` needs both:
disposing the socket of one session leaves the others' entries alone, and the
handler that will dispose a dead socket is never cancelled, because what
`clearReconnectTimer` cancels is an armed timeout; what a promotion stores is
another matter, `"lost"` and not closed. `LoopInv` joins
`OneWorkspaceLoop` with `BootFirst` (no loop and no retry timer before the boot
is over) and `OnlyVersion` (a flow of workspace origin is suspended at the
version lookup, so none of them is a timer's). Each proof has one lemma per
group of actions and one step per action.

### Browser

`BrowserSessionProofs` proves, from `BrowserConstantsOK` alone:

| Theorem | Says |
| --- | --- |
| `TypeCorrect` | `TypeOK`: the retry budget stays between zero and `MAX_RETRIES` |
| `SocketIsOne` | only the socket of `socketRef` has listeners |
| `RetryIsOne` | one armed retry timeout while `retryTimerRef` is set, none otherwise |
| `SignedOutIsOffline` | without a token the effect keeps neither a socket nor a retry |
| `ReadyIsReal` | `isRealtimeReady` means the held socket completed the handshake |
| `RefreshIsComing` | a signed-in tab has its next refresh scheduled or under way |

The argument. `AuthProvider` does not touch the socket and the socket does not
touch the tokens, so `TypeOK` is split into `AuthType` and `RealtimeType`, and a
step of either side keeps the other's part by `UNCHANGED`. `SignedInIsRefreshed`
is inductive with `AuthType`. The four socket invariants are inductive only
together and with `RetryAlone`, that a retry is pending exactly while its
timeout is referenced and never beside a socket: without it a socket's failure
could arm a second timeout. From it follows `Reporter`: a socket that can
report anything is the one `socketRef` holds, and nothing is armed.

### Pairing

`QrPairingProofs`, from `QrConstantsOK`:

| Theorem | Says |
| --- | --- |
| `TypeCorrect` | `TypeOK` |
| `WindowIsTimed` | `WindowHasTimer`: a pairing somebody asked for has the timeout that ends it |
| `SilenceIsKept` | `SilentUntilAsked`: nothing is emitted or kept before the first request |
| `StepsKeepThePromise` | each step is a step of `PairingWindow` or a stutter |
| `PromiseNeedsOnlyTheEnd` | with `PairingEnds`, which TLC checks under fairness, the whole of `PairingWindow` is implemented |

The argument. That a map entry leads to a bound socket is no consequence of the
types: slots are given back. `PairingInv` joins `TypeOK` with `MapHoldsBound` and
`HeldIsBound`, that neither a key nor a suspended promotion refers to a slot that
was given back, and `TimerHasSocket`, that the entry which owns a timeout has a
socket. The attempt showed the model wrong: two promotions may hold one
socket, and the end of one gave its slot back under the other. `EndedFor` now
asks who refers to the socket (`ReferredTo`). For `WindowHasTimer` every step is
classified by what it does to the pending entry (`EntrySteps`): it goes, stays
with its timeout, passes the timeout to a promotion, or is new with a timeout of
its own. Silence needs `NothingToSay`: no flag in the entry, no socket that was
scanned, no flow under way that would open a window for a user. Both together
give the refinement, action by action, with the mapping of section 3.

### Tokens and sockets

`SocketHandshakeProofs`, from `JwtConstantsOK` for the first four and
`HandshakeConstantsOK` for the last two:

| Theorem | Says |
| --- | --- |
| `TokensTyped` | `JwtTypeOK` |
| `SessionIsWhole` | `OnlineIsRefreshable` |
| `SessionIsBounded` | `SessionEndsAtLimit`, for chains of refreshes of any length |
| `RevocationGoesOn` | `BlacklistedSessionIsEnding` |
| `SocketsUseTokens` | a behaviour of the sockets is one of `JwtSession`, which carries the four theorems over to it |
| `TypeCorrect` | `TypeOK` |
| `ActiveIsCounted` | `ActiveIsPresent` |

The argument. A refresh replaces the online session in steps between which a
logout may read it. What protects the new one is that nobody knows it:
`UnstoredIsUnseen` says that a pair which was signed and not stored is in no
other flow and in no Redis entry, so no revocation that is under way can name
it; and `RevokesAnother`, that a revocation which is about to delete a refresh
session deletes that of a pair other than the one online by then.
`SessionShared` says that the pairs of one session have the start of its login,
from which the limit follows without induction over the chain. `ActiveIsPresent`
is not inductive: one socket that closes could take the count of another. The
invariant is that the count is not below the number of authenticated sockets
(`Cardinality(Live) <= presence`), by the lemmas on cardinalities of
`FiniteSetTheorems`.

### Chat

`ChatDeliveryProofs`, from `ChatConstantsOK`:

| Theorem | Says |
| --- | --- |
| `TypeCorrect` | `TypeOK` |
| `FiledWhereItBelongs` | `FiledInAConversation` |
| `NothingTwice` | `ShownOnce` |
| `BubbleIsReplaced` | `BubbleGivesWay` |

The argument. `HandlerKnows` says what a handler of `messages.upsert` has
established by each of its awaits; with `StoredWasSent` it makes
`FiledInAConversation` inductive. The panel's part follows from what is known
about events and answers on their way: they speak of stored messages
(`EventIsStored`, `AnswerIsStored`), and where a message is stored never changes
again. So is a message shown under the document it is stored in and a bubble
under the open one (`ShownIsStored`), each with multiplicity one, which leaves
one place for each message.

### Pages

`DeskProofs` and `ContactsProofs` assume nothing, `AdminProofs` assumes
`PagesConstantsOK`. Each shows its invariant preserved by the steps of its page
and lifts it to `Pages`, where the others' steps leave the page's state alone.

| Theorem | Module | Says |
| --- | --- | --- |
| `NotesAreKept`, `NotesAreFiled` | `DeskProofs` | `NotesAreNotLost`, `NotesStayInTheirChat` |
| `InputWaits` | `DeskProofs` | `InputIsAwaited` |
| `RequestsAreAwaited` | `DeskProofs` | `RequestingIsAwaited` |
| `PageSeesThePromise` | `DeskProofs` | the steps of `ConnectPage` on the pairing are steps of `PairingWindow`, or the code of a stored session (`OffersForStored`) |
| `DeletedIsDeleted` | `AdminProofs` | `DeletedAccountStaysDeleted` |
| `ListsArePrivate` | `AdminProofs` | `ListsStayPrivate` |
| `BusyPagesWait` | `AdminProofs` | `BusyIsAwaited` |
| `SpinnersEnd`, `FormIsTheirs` | `ContactsProofs` | `SpinnersAreAwaited`, `FormIsOfContact` |

The arguments. Notes: lists, answers and calls that found their note speak of
notes that were made (`NotesWereMade`), and the answer to a creation has the
conversation that was asked for (`MadeWhereAsked`). Voice: what the input waits
for, a recorder that stops or an upload that ends, goes on doing so (`GoOn`)
until the step that also gives the input its button back (`VoiceInv`). Code
requests: the answer to a request the page holds is the step that ends its wait,
and a new mount holds none (`ConnectInv`). Listings: what is in the cache or in
a request between its read and its answer is of the owner it was read for
(`ServiceInv`). Busy pages: a form that saves is not the list (`FormsInv`);
without that the answer that opens the list could end another wait. Contacts:
from the click to the answer a call keeps its kind and whether its form is there
(`SameCall`), and a panel that takes the place of another takes its form's wait
away (`ShowsIs`).

With `StepsKeepThePromise` and `PageSeesThePromise`, both sides of the pairing
are proved against the one specification they meet in: what the service does is
allowed by `PairingWindow`, and the page relies on no more than it but for the
codes of stored sessions, which come from `BaileysSession`'s requests.

### What TLC alone checks

The liveness properties (`ActiveSessionIsReopened`, `ConnectedRowIsCorrected`,
`DeletedSessionGoesQuiet`, `PairingEnds`, `SignOutReachesTabs`,
`RealtimeSettles`, and the end of a window in `PairingKeepsItsPromise`): they
rest on fairness, and the prover handles neither fairness nor ENABLED. The
findings of section 5, which are counterexamples. The types of the pages have no
run and no theorem of their own: the invariants above say of them what the
proofs need.

## 5. Findings

Five statements of documents, comments or labels that the code does not keep,
each a run that TLC must find violated:

| Run | The code |
| --- | --- |
| `session_leak` | two overlapping opens leave a socket nobody owns |
| `session_promoted` | a scanned pairing whose socket ends during the promotion leaves an active session that nobody reopens |
| `qr_stale_timeout` | the timeout of an earlier pairing ends a later one |
| `access_logout` | a handshake during a logout survives it |
| `audio_cancel` | cancelling a recording sends its end |

`PROJECT.json` quotes the statement and the line. Hazards that the model reaches
but no document speaks of are listed there with a note, and have no property.

## 6. Not modelled

- The queue broker, its consumers and the rate limiter: nothing in the
  repository publishes the first event.
- Contracts and PDF templates: one form, one request, one file.
- The login form's lockout: a counter and a date of one tab.
- Serialisation of credentials and their debounced save; the password check.
- Read marks, unread counters, participants of groups and mentions.
- Seed, swagger, database connection and HTTP helpers: plumbing of libraries.
