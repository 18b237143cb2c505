----------------------------- MODULE AdminProofs -----------------------------
(***************************************************************************)
(* Theorems about the pages of Pages that administer accounts and          *)
(* workspaces, for every value of the constants: UserAccounts,             *)
(* WorkspaceService and WorkspacePages.                                    *)
(*                                                                         *)
(* A listing that the service holds, in its cache or in a request that has *)
(* read it, is of the owner it was read for (ServiceInv), whoever asks. A  *)
(* page that is busy waits in a slot whose call answers that very button   *)
(* (FormsInv); saving is never done from the list, so that the answer      *)
(* which opens the list ends no other wait.                                *)
(***************************************************************************)
EXTENDS Pages, TLAPS

\* The rows of accounts, and the ids that were ever given to one.
AccountsInv == DOMAIN accounts = UserIds /\ issued \subseteq UserIds

\* Before the first account.
LEMMA AccountsStart == Accounts!UserInit => AccountsInv
BY DEF Accounts!UserInit, AccountsInv

\* Rows are made for new ids, and changed where there is one.
LEMMA AccountStep ==
    ASSUME AccountsInv, Accounts!UserNext
    PROVE  AccountsInv' /\ \A u \in issued : accounts[u] = None => accounts'[u] = None
<1> USE DEF AccountsInv
<1>1. CASE Accounts!UserActs
  BY <1>1 DEF Accounts!UserActs, Accounts!OpenCreate, Accounts!CloseModal, Accounts!Submit,
    Accounts!CancelDelete, Accounts!ConfirmDelete, Accounts!OpenDetails, Accounts!OpenEdit,
    Accounts!AskDelete, Accounts!TypePassword, Accounts!TokenRenewed, Accounts!Server
<1>2. CASE Accounts!UserAnswers
  BY <1>2 DEF Accounts!UserAnswers, Accounts!SaveSucceeds, Accounts!SaveFails, Accounts!DeleteSucceeds,
    Accounts!DeleteFails, Accounts!LoadEnds, Accounts!Server
<1>3. ASSUME NEW c \in userCalls,
             Accounts!ListRows(c) \/ Accounts!UpdateFinds(c) \/ Accounts!CallFails(c)
      PROVE  AccountsInv' /\ \A u \in issued : accounts[u] = None => accounts'[u] = None
  BY <1>3 DEF Accounts!ListRows, Accounts!UpdateFinds, Accounts!CallFails, Accounts!Server
<1>4. ASSUME NEW c \in userCalls, Accounts!CreateRow(c)
      PROVE  AccountsInv' /\ \A u \in issued : accounts[u] = None => accounts'[u] = None
  BY <1>4 DEF Accounts!CreateRow
<1>5. ASSUME NEW c \in userCalls, Accounts!UpdateWrites(c)
      PROVE  AccountsInv' /\ \A u \in issued : accounts[u] = None => accounts'[u] = None
  BY <1>5 DEF Accounts!UpdateWrites
<1>6. ASSUME NEW c \in userCalls, Accounts!DeleteRow(c)
      PROVE  AccountsInv' /\ \A u \in issued : accounts[u] = None => accounts'[u] = None
  BY <1>6 DEF Accounts!DeleteRow
<1>7. ASSUME NEW u0, NEW p, Accounts!PatchesPassword(u0, p)
      PROVE  AccountsInv' /\ \A u \in issued : accounts[u] = None => accounts'[u] = None
  BY <1>7 DEF Accounts!PatchesPassword
<1> QED
  BY <1>1, <1>2, <1>3, <1>4, <1>5, <1>6, <1>7 DEF Accounts!UserNext, Accounts!UserServes

\* On every page of Pages: the others leave the accounts alone.
LEMMA AccountsIsInvariant == Spec => []AccountsInv
<1>1. Init => AccountsInv
  BY AccountsStart DEF Init
<1>2. AccountsInv /\ [Next]_vars => AccountsInv'
  <2> SUFFICES ASSUME AccountsInv, [Next]_vars PROVE AccountsInv'
    OBVIOUS
  <2>1. CASE OnUsers
    BY <2>1, AccountStep DEF OnUsers
  <2>2. CASE UNCHANGED <<accounts, issued>>
    BY <2>2 DEF AccountsInv
  <2> QED
    BY <2>1, <2>2 DEF Next, vars, OnService, OnWorkspaces, OnContacts, OnConnect, OnDesk, OnVoice, usersIdle
<1> QED  BY <1>1, <1>2, PTL DEF Spec

\* user.service.ts: an account that was deleted stays so, whatever update had read it before.
THEOREM DeletedIsDeleted == Spec => DeletedAccountStaysDeleted
<1>1. AccountsInv /\ [Next]_vars =>
        [\A u \in issued : accounts[u] = None => accounts'[u] = None]_(Accounts!userVars)
  <2> SUFFICES ASSUME AccountsInv, [Next]_vars
               PROVE  [\A u \in issued : accounts[u] = None => accounts'[u] = None]_(Accounts!userVars)
    OBVIOUS
  <2>1. CASE OnUsers
    BY <2>1, AccountStep DEF OnUsers
  <2>2. CASE UNCHANGED <<accounts, issued, usersPage, userCalls>>
    BY <2>2 DEF Accounts!userVars
  <2> QED
    BY <2>1, <2>2 DEF Next, vars, OnService, OnWorkspaces, OnContacts, OnConnect, OnDesk, OnVoice, usersIdle
<1> QED
  BY <1>1, AccountsIsInvariant, PTL DEF Spec, DeletedAccountStaysDeleted, Accounts!DeletedAccountStaysDeleted

-----------------------------------------------------------------------------
\* The fields of the requests.
ServiceShape ==
    /\ DOMAIN requests = Slots
    /\ \A t \in Slots :
          /\ DOMAIN requests[t] = {"op", "step", "user", "ws", "search", "key", "reply"}
          /\ DOMAIN requests[t].key = {"page", "owner"}

\* A listing of one owner's workspaces; of anybody's, when nobody is asked for.
OnlyOf(owner, listing) ==
    owner # None => \A w \in DOMAIN listing.items : listing.items[w].owner = owner

\* The inductive invariant of WorkspaceService.
ServiceInv ==
    /\ ServiceShape /\ ListsStayPrivate
    /\ \A e \in findCache : OnlyOf(e.key.owner, e.data)
    /\ \A t \in Slots : requests[t].op = "find" =>
          /\ requests[t].user \in Admins \cup SuperAdmins /\ requests[t].step # "written"
          /\ requests[t].step = "read" => OnlyOf(Service!OwnerFilter(requests[t]), requests[t].reply)

\* Before the first request.
LEMMA ServiceStarts == Service!ServiceInit => ServiceInv
BY DEF Service!ServiceInit, Service!Idle, ServiceInv, ServiceShape, ListsStayPrivate, Service!ListsStayPrivate

\* What find reads is of the owner it filters by.
LEMMA ListingIsOf == \A key : OnlyOf(key.owner, Service!Listing(key))
BY DEF OnlyOf, Service!Listing, Service!Slice, Service!Matching

\* A request that is sent, and one at a step where it holds no listing.
Asked(r) ==
    /\ DOMAIN r = {"op", "step", "user", "ws", "search", "key", "reply"}
    /\ DOMAIN r.key = {"page", "owner"}
    /\ r.op = "find" => r.user \in Admins \cup SuperAdmins /\ r.step \in {"sent", "failed"}

\* A step that puts such a request in a slot.
LEMMA OneRequest ==
    ASSUME ServiceInv, NEW t \in Slots, NEW r, Asked(r),
           requests' = [requests EXCEPT ![t] = r], findCache' \subseteq findCache
    PROVE  ServiceInv'
BY DEF Asked, ServiceInv, ServiceShape, ListsStayPrivate, Service!ListsStayPrivate, OnlyOf, Service!OwnerFilter

\* A step of a request that holds no listing.
LEMMA OneStep ==
    ASSUME ServiceInv, NEW t \in Slots, NEW s, Service!Moves(t, s),
           requests[t].op = "find" => s = "failed", findCache' \subseteq findCache
    PROVE  ServiceInv'
BY DEF Service!Moves, ServiceInv, ServiceShape, ListsStayPrivate, Service!ListsStayPrivate, OnlyOf, Service!OwnerFilter

\* Every user asks that way.
LEMMA AskedIsNew ==
    ASSUME NEW u \in Admins \cup SuperAdmins, NEW t \in Slots, Service!Asks(t, u)
    PROVE  \E r : Asked(r) /\ requests' = [requests EXCEPT ![t] = r]
<1>1. CASE \E key \in Service!Keys, search \in BOOLEAN :
             requests' = [requests EXCEPT ![t] = Service!Find(u, key, search)]
  <2> PICK key \in Service!Keys, search \in BOOLEAN :
             requests' = [requests EXCEPT ![t] = Service!Find(u, key, search)]
    BY <1>1
  <2>1. Asked(Service!Find(u, key, search))
    BY DEF Asked, Service!Find, Service!Idle, Service!Keys
  <2> QED  BY <2>1
<1>2. CASE \E op \in {"create", "get", "update", "delete"} : \E w :
             requests' = [requests EXCEPT ![t] = Service!Ask(op, u, w)]
  <2> PICK op \in {"create", "get", "update", "delete"} : \E w :
             requests' = [requests EXCEPT ![t] = Service!Ask(op, u, w)]
    BY <1>2
  <2> PICK w : requests' = [requests EXCEPT ![t] = Service!Ask(op, u, w)]
    OBVIOUS
  <2>1. Asked(Service!Ask(op, u, w))
    BY DEF Asked, Service!Ask, Service!Idle
  <2> QED  BY <2>1
<1> QED  BY <1>1, <1>2 DEF Service!Asks

\* find, from its cache look-up to its cache write.
LEMMA FindKeeps ==
    ASSUME ServiceInv, None \notin Admins \cup SuperAdmins, NEW t \in Slots,
           Service!FindsInCache(t) \/ Service!FindsInDatabase(t) \/ Service!KeepsListing(t)
    PROVE  ServiceInv'
<1> DEFINE r == requests[t]
           key == Service!CacheKey(r)
<1>1. key.owner = Service!OwnerFilter(r)
  BY DEF ServiceInv, ServiceShape, Service!CacheKey
<1>2. Service!OwnerFilter(r') = Service!OwnerFilter(r) /\ r'.user = r.user /\ r'.op = r.op /\ r.op = "find"
  BY DEF ServiceInv, ServiceShape, Service!FindsInCache, Service!FindsInDatabase, Service!KeepsListing,
    Service!Moves, Service!OwnerFilter
<1>3. DOMAIN requests' = Slots /\ (\A u \in Slots \ {t} : requests'[u] = requests[u])
      /\ DOMAIN r' = DOMAIN r /\ r'.key = r.key
  BY DEF ServiceInv, ServiceShape, Service!FindsInCache, Service!FindsInDatabase, Service!KeepsListing,
    Service!Moves
<1>4. /\ r'.step \in {"read", "done"} /\ OnlyOf(Service!OwnerFilter(r), r'.reply)
      /\ \A e \in findCache' : OnlyOf(e.key.owner, e.data)
  <2> USE DEF ServiceInv, ServiceShape
  <2>1. CASE Service!FindsInCache(t)
    <3>1. PICK e \in findCache :
            /\ e.key = key
            /\ requests' = [requests EXCEPT ![t].step = "done", ![t].reply = e.data]
      BY <2>1 DEF Service!FindsInCache, Service!Kept
    <3>2. r'.step = "done" /\ r'.reply = e.data /\ UNCHANGED findCache
      BY <2>1, <3>1 DEF Service!FindsInCache
    <3> HIDE DEF key, r
    <3>3. OnlyOf(key.owner, e.data)
      BY <3>1
    <3> QED  BY <1>1, <3>2, <3>3
  <2>2. CASE Service!FindsInDatabase(t)
    BY <1>1, <2>2, ListingIsOf DEF Service!FindsInDatabase
  <2>3. CASE Service!KeepsListing(t)
    <3>1. OnlyOf(key.owner, r.reply)
      BY <1>1, <2>3 DEF Service!KeepsListing
    <3>2. findCache' = (findCache \ Service!Kept(key)) \cup {[key |-> key, data |-> r.reply]}
      BY <2>3 DEF Service!KeepsListing
    <3> HIDE DEF key, r
    <3>3. \A e \in findCache' : OnlyOf(e.key.owner, e.data)
      BY <3>1, <3>2
    <3>4. r'.step = "done" /\ r'.reply = r.reply
      BY <2>3 DEF r, Service!KeepsListing, Service!Moves
    <3> QED  BY <1>1, <3>1, <3>3, <3>4
  <2> QED  BY <2>1, <2>2, <2>3
<1>5. r.user \notin SuperAdmins => Service!OwnerFilter(r) = r.user /\ r.user # None
  BY <1>2 DEF ServiceInv, Service!OwnerFilter
<1>6. ListsStayPrivate'
  BY <1>2, <1>3, <1>4, <1>5 DEF ServiceInv, ListsStayPrivate, Service!ListsStayPrivate, OnlyOf
<1>7. ServiceShape'
  BY <1>3 DEF ServiceInv, ServiceShape
<1>8. \A u \in Slots : requests'[u].op = "find" =>
          /\ requests'[u].user \in Admins \cup SuperAdmins /\ requests'[u].step # "written"
          /\ requests'[u].step = "read" => OnlyOf(Service!OwnerFilter(requests'[u]), requests'[u].reply)
  BY <1>2, <1>3, <1>4 DEF ServiceInv
<1> QED  BY <1>4, <1>6, <1>7, <1>8 DEF ServiceInv

\* Every step of WorkspaceService.
LEMMA ServiceStepKeeps ==
    ASSUME ServiceInv, None \notin Admins \cup SuperAdmins, Service!ServiceNext
    PROVE  ServiceInv'
<1>1. CASE Service!ListingExpires
  BY <1>1 DEF Service!ListingExpires, ServiceInv, ServiceShape, ListsStayPrivate, Service!ListsStayPrivate
<1>2. ASSUME NEW t \in Slots, NEW u \in Admins \cup SuperAdmins, Service!Asks(t, u)
      PROVE  ServiceInv'
  BY <1>2, AskedIsNew, OneRequest DEF Service!Asks
<1>3. ASSUME NEW t \in Slots, Service!IsAnswered(t) PROVE ServiceInv'
  <2>1. Asked(Service!Idle)
    BY DEF Asked, Service!Idle
  <2> QED  BY <1>3, <2>1, OneRequest DEF Service!IsAnswered
<1>4. ASSUME NEW t \in Slots,
             \/ Service!FindIsRefused(t) \/ Service!UpdateFinds(t) \/ Service!UpdateWrites(t)
             \/ Service!DeletesSessions(t) \/ Service!DeletesCompany(t) \/ Service!ClearsCache(t)
             \/ Service!StepFails(t)
      PROVE  ServiceInv'
  <2>1. PICK s : Service!Moves(t, s) /\ (requests[t].op = "find" => s = "failed")
    BY <1>4 DEF Service!FindIsRefused, Service!UpdateFinds, Service!UpdateWrites, Service!DeletesSessions,
      Service!DeletesCompany, Service!ClearsCache, Service!StepFails, ServiceInv
  <2>2. findCache' \subseteq findCache
    BY <1>4 DEF Service!FindIsRefused, Service!UpdateFinds, Service!UpdateWrites, Service!DeletesSessions,
      Service!DeletesCompany, Service!ClearsCache, Service!StepFails
  <2> QED  BY <2>1, <2>2, OneStep
<1>5. ASSUME NEW t \in Slots, Service!CreatesCompany(t) \/ Service!GetsCompany(t) PROVE ServiceInv'
  <2>1. /\ requests[t].op # "find" /\ requests'[t].op = requests[t].op /\ UNCHANGED findCache
        /\ DOMAIN requests' = Slots /\ (\A u \in Slots \ {t} : requests'[u] = requests[u])
        /\ DOMAIN requests'[t] = DOMAIN requests[t] /\ requests'[t].key = requests[t].key
    BY <1>5 DEF Service!CreatesCompany, Service!GetsCompany, Service!Moves, ServiceInv, ServiceShape
  <2> QED
    BY <2>1 DEF ServiceInv, ServiceShape, ListsStayPrivate, Service!ListsStayPrivate
<1> QED
  BY <1>1, <1>2, <1>3, <1>4, <1>5, FindKeeps DEF Service!ServiceNext, Service!ServiceStep, Service!Users

\* On every page of Pages.
LEMMA ServiceIsInvariant == Spec => []ServiceInv
<1>1. Init => ServiceInv
  BY ServiceStarts DEF Init
<1>2. ServiceInv /\ [Next]_vars => ServiceInv'
  <2> SUFFICES ASSUME ServiceInv, [Next]_vars PROVE ServiceInv'
    OBVIOUS
  <2>1. CASE OnService
    BY <2>1, ServiceStepKeeps, PagesConstantsOK DEF OnService
  <2>2. CASE UNCHANGED <<findCache, requests>>
    BY <2>2 DEF ServiceInv, ServiceShape, ListsStayPrivate, Service!ListsStayPrivate
  <2> QED
    BY <2>1, <2>2 DEF Next, vars, OnUsers, OnWorkspaces, OnContacts, OnConnect, OnDesk, OnVoice, serviceIdle
<1> QED  BY <1>1, <1>2, PTL DEF Spec

\* workspace.service.ts: what an admin is answered, from the cache or from the collection, is
\* its own workspaces, whatever other users list, change and delete meanwhile.
THEOREM ListsArePrivate == Spec => []ListsStayPrivate
<1>1. ServiceInv => ListsStayPrivate
  BY DEF ServiceInv
<1> QED  BY <1>1, ServiceIsInvariant, PTL

-----------------------------------------------------------------------------
\* The fields of the page and of its calls.
FormsShape ==
    /\ DOMAIN calls = Slots
    /\ \A t \in Slots : DOMAIN calls[t] = {"op", "step", "ws", "page", "search", "reply"}
    /\ DOMAIN view = {"route", "ws", "waits", "loading", "page", "typed", "search", "items", "total",
                      "pending", "deleting", "loaded", "failed", "dirty", "submitting"}
    /\ view.waits \subseteq Slots

\* The page waits for the answer to one of these operations.
Awaits(ops) == \E t \in view.waits : calls[t].op \in ops

\* A form that is being saved is not the list: an answer that comes to the list is not its.
FormsInv ==
    /\ FormsShape
    /\ view.loading    => Awaits({"find", "get"})
    /\ view.submitting => Awaits({"create", "update"}) /\ view.route # "list"
    /\ view.deleting   => Awaits({"delete"})

\* The invariant says what the property does.
LEMMA FormsImply == FormsInv => BusyIsAwaited
BY DEF FormsInv, Awaits, BusyIsAwaited, Forms!BusyIsAwaited

\* A page that has just been mounted saves and deletes nothing.
MountedShape(v) ==
    /\ DOMAIN v = {"route", "ws", "waits", "loading", "page", "typed", "search", "items", "total",
                      "pending", "deleting", "loaded", "failed", "dirty", "submitting"}
    /\ ~v.submitting /\ ~v.deleting

\* The useState cells of a mounted page.
LEMMA MountedIs ==
    ASSUME NEW route, NEW w, NEW waits
    PROVE  /\ MountedShape(Forms!Mounted(route, w, waits))
           /\ Forms!Mounted(route, w, waits).waits = waits
           /\ Forms!Mounted(route, w, waits).loading => route \in {"list", "detail", "edit"}
<1> DEFINE v == Forms!Mounted(route, w, waits)
<1>1. /\ DOMAIN v = {"route", "ws", "waits", "loading", "page", "typed", "search", "items", "total",
                      "pending", "deleting", "loaded", "failed", "dirty", "submitting"}
      /\ v.waits = waits
  BY DEF Forms!Mounted
<1>2. ~v.submitting /\ ~v.deleting
  BY DEF Forms!Mounted
<1>3. v.loading => route \in {"list", "detail", "edit"}
  BY DEF Forms!Mounted
<1> QED  BY <1>1, <1>2, <1>3 DEF MountedShape

\* Before the first page.
LEMMA FormsStart == Forms!PagesInit => FormsInv
<1> SUFFICES ASSUME Forms!PagesInit PROVE FormsInv
  OBVIOUS
<1>1. MountedShape(view) /\ view.waits = {} /\ ~view.loading
  BY MountedIs DEF Forms!PagesInit
<1>2. DOMAIN calls = Slots
      /\ \A t \in Slots : DOMAIN calls[t] = {"op", "step", "ws", "page", "search", "reply"}
  BY DEF Forms!PagesInit, Forms!Idle
<1> QED  BY <1>1, <1>2 DEF MountedShape, FormsInv, FormsShape

\* A call is sent in a slot that waits for nothing.
LEMMA CallIs ==
    ASSUME NEW op, NEW w, NEW p, NEW search
    PROVE  /\ Forms!Ask(op, w).op = op
           /\ DOMAIN Forms!Ask(op, w) = {"op", "step", "ws", "page", "search", "reply"}
           /\ Forms!ListCall(p, search).op = "find"
           /\ DOMAIN Forms!ListCall(p, search) = {"op", "step", "ws", "page", "search", "reply"}
BY DEF Forms!Ask, Forms!ListCall, Forms!Idle

\* A page that mounts, with its first call or with none.
LEMMA PageMounts ==
    ASSUME FormsInv, NEW route, NEW w, NEW waits, view' = Forms!Mounted(route, w, waits),
           waits \subseteq Slots, DOMAIN calls' = Slots,
           \A t \in Slots : DOMAIN calls'[t] = {"op", "step", "ws", "page", "search", "reply"},
           route \in {"list", "detail", "edit"} => \E t \in waits : calls'[t].op \in {"find", "get"}
    PROVE  FormsInv'
BY MountedIs DEF MountedShape, FormsInv, FormsShape, Awaits

\* A call sent in a free slot, by a page that stays.
LEMMA PageSends ==
    ASSUME FormsInv, NEW t \in Forms!Free, NEW c, Forms!Sends(t, c),
           DOMAIN c = {"op", "step", "ws", "page", "search", "reply"},
           DOMAIN view' = DOMAIN view, view'.route = view.route,
           view'.waits = view.waits \cup {t},
           view'.loading => view.loading \/ c.op \in {"find", "get"},
           view'.submitting => view.submitting \/ (c.op \in {"create", "update"} /\ view.route # "list"),
           view'.deleting => view.deleting \/ c.op = "delete"
    PROVE  FormsInv'
BY DEF Forms!Sends, Forms!Free, FormsInv, FormsShape, Awaits

\* An answer is taken from its slot, and nothing waits there.
LEMMA PageHears ==
    ASSUME FormsInv, NEW t \in Slots, Forms!Sends(t, Forms!Idle),
           DOMAIN view' = DOMAIN view, view'.route = view.route, view'.waits = view.waits \ {t},
           view'.loading => view.loading /\ calls[t].op \notin {"find", "get"},
           view'.submitting => view.submitting /\ calls[t].op \notin {"create", "update"},
           view'.deleting => view.deleting /\ calls[t].op # "delete"
    PROVE  FormsInv'
BY DEF Forms!Sends, Forms!Idle, FormsInv, FormsShape, Awaits

\* The fields of a page whose form is gone.
LEMMA FormGoneIs ==
    ASSUME FormsInv
    PROVE  LET v == Forms!FormGone(view) IN
           /\ DOMAIN v = DOMAIN view /\ v.route = view.route /\ v.deleting = view.deleting
           /\ v.waits = {u \in view.waits : calls[u].op # "update"} /\ ~v.submitting
BY DEF Forms!FormGone, FormsInv, FormsShape

\* The page loads again, and nothing waits for the save of its form.
LEMMA PageReloads ==
    ASSUME FormsInv, NEW t \in Forms!Free, NEW c, Forms!Sends(t, c), c.op \in {"find", "get"},
           DOMAIN c = {"op", "step", "ws", "page", "search", "reply"},
           DOMAIN view' = DOMAIN view, ~view'.submitting, view'.deleting = view.deleting,
           view'.waits = {u \in view.waits : calls[u].op # "update"} \cup {t}
    PROVE  FormsInv'
BY DEF Forms!Sends, Forms!Free, FormsInv, FormsShape, Awaits

\* A load that fails takes the form, with its save, off the screen.
LEMMA FormLeaves ==
    ASSUME FormsInv, NEW t \in Slots, Forms!Sends(t, Forms!Idle), calls[t].op = "get",
           DOMAIN view' = DOMAIN view, ~view'.loading, ~view'.submitting, view'.deleting = view.deleting,
           view'.waits = {u \in view.waits : calls[u].op # "update"} \ {t}
    PROVE  FormsInv'
BY DEF Forms!Sends, Forms!Idle, FormsInv, FormsShape, Awaits

\* A page that waits on as it did.
LEMMA PageRests ==
    ASSUME FormsInv, UNCHANGED calls, DOMAIN view' = DOMAIN view,
           view'.route = view.route, view'.waits = view.waits,
           view'.loading = view.loading, view'.submitting = view.submitting, view'.deleting = view.deleting
    PROVE  FormsInv'
BY DEF FormsInv, FormsShape, Awaits

\* An answer after which the page asks for its list, in the same slot.
LEMMA PageAsksAgain ==
    ASSUME FormsInv, NEW t \in view.waits, NEW c, Forms!Sends(t, c), c.op = "find",
           DOMAIN c = {"op", "step", "ws", "page", "search", "reply"},
           DOMAIN view' = DOMAIN view, view'.route = view.route, view'.waits = view.waits,
           view'.submitting => view.submitting /\ calls[t].op \notin {"create", "update"},
           view'.deleting => view.deleting /\ calls[t].op # "delete"
    PROVE  FormsInv'
BY DEF Forms!Sends, FormsInv, FormsShape, Awaits

\* Another page is opened.
LEMMA RoutesKeep ==
    ASSUME FormsInv,
           \/ Forms!OpenList \/ Forms!OpenNew \/ Forms!GoElsewhere
           \/ \E w \in ListedCompanies : Forms!OpenDetail(w) \/ Forms!OpenEdit(w)
    PROVE  FormsInv'
<1>1. ASSUME NEW route \in {"new", "elsewhere"}, UNCHANGED calls,
             view' = Forms!Mounted(route, Forms!NoWorkspace, {})
      PROVE  FormsInv'
  <2>1. /\ DOMAIN calls' = Slots
        /\ \A t \in Slots : DOMAIN calls'[t] = {"op", "step", "ws", "page", "search", "reply"}
    BY <1>1 DEF FormsInv, FormsShape
  <2> QED  BY <1>1, <2>1, PageMounts
<1>2. ASSUME NEW t \in Forms!Free, NEW route, NEW w, NEW c, Forms!Sends(t, c),
             c.op \in {"find", "get"}, DOMAIN c = {"op", "step", "ws", "page", "search", "reply"},
             view' = Forms!Mounted(route, w, {t})
      PROVE  FormsInv'
  <2>1. /\ DOMAIN calls' = Slots /\ t \in Slots /\ calls'[t].op \in {"find", "get"}
        /\ \A u \in Slots : DOMAIN calls'[u] = {"op", "step", "ws", "page", "search", "reply"}
    BY <1>2 DEF Forms!Sends, Forms!Free, FormsInv, FormsShape
  <2> QED  BY <1>2, <2>1, PageMounts
<1>3. CASE Forms!OpenList
  <2> PICK t \in Forms!Free : /\ Forms!Sends(t, Forms!ListCall(1, FALSE))
                              /\ view' = Forms!Mounted("list", Forms!NoWorkspace, {t})
    BY <1>3 DEF Forms!OpenList
  <2> DEFINE list == Forms!ListCall(1, FALSE)
  <2>1. list.op = "find" /\ DOMAIN list = {"op", "step", "ws", "page", "search", "reply"}
    BY DEF Forms!ListCall, Forms!Ask, Forms!Idle
  <2> HIDE DEF list
  <2>2. Forms!Sends(t, list)
    BY DEF list
  <2> QED  BY <1>2, <2>1, <2>2
<1>4. CASE Forms!OpenNew
  BY <1>1, <1>4 DEF Forms!OpenNew
<1>5. CASE Forms!GoElsewhere
  BY <1>1, <1>5 DEF Forms!GoElsewhere
<1>6. ASSUME NEW w \in ListedCompanies, Forms!OpenDetail(w) \/ Forms!OpenEdit(w)
      PROVE  FormsInv'
  <2> PICK t \in Forms!Free, route \in {"detail", "edit"} :
         Forms!Sends(t, Forms!Ask("get", w)) /\ view' = Forms!Mounted(route, w, {t})
    BY <1>6 DEF Forms!OpenDetail, Forms!OpenEdit
  <2> QED  BY <1>2, CallIs
<1> QED  BY <1>3, <1>4, <1>5, <1>6

\* A button, or a renewed token, sends a call.
LEMMA ButtonsKeep ==
    ASSUME FormsInv,
           \/ Forms!TokenRenewed \/ Forms!ConfirmDelete \/ Forms!Submit
           \/ \E p \in 1 .. Forms!TotalPages(view.total) : Forms!TurnPage(p)
    PROVE  FormsInv'
<1> USE DEF FormsInv, FormsShape
<1>1. CASE Forms!TokenRenewed
  <2> DEFINE v == Forms!FormGone(view)
  <2>1. PICK t \in Forms!Free :
          /\ Forms!Sends(t, Forms!Reload)
          /\ view' = [v EXCEPT !.loading = TRUE, !.failed = FALSE, !.waits = @ \cup {t}]
    BY <1>1 DEF Forms!TokenRenewed
  <2>2. /\ DOMAIN v = DOMAIN view /\ v.deleting = view.deleting
        /\ v.waits = {u \in view.waits : calls[u].op # "update"} /\ ~v.submitting
    BY FormGoneIs
  <2> HIDE DEF v
  <2>3. /\ DOMAIN view' = DOMAIN view /\ ~view'.submitting /\ view'.deleting = view.deleting
        /\ view'.waits = {u \in view.waits : calls[u].op # "update"} \cup {t}
    BY <2>1, <2>2
  <2>4. /\ Forms!Reload.op \in {"find", "get"}
        /\ DOMAIN Forms!Reload = {"op", "step", "ws", "page", "search", "reply"}
    BY CallIs DEF Forms!Reload
  <2> QED  BY <2>1, <2>3, <2>4, PageReloads
<1>2. CASE Forms!ConfirmDelete
  <2>1. PICK t \in Forms!Free :
          /\ Forms!Sends(t, [Forms!Ask("delete", view.pending) EXCEPT !.page = view.page,
                                                                     !.search = view.search])
          /\ view' = [view EXCEPT !.deleting = TRUE, !.waits = @ \cup {t}]
    BY <1>2 DEF Forms!ConfirmDelete
  <2> DEFINE ask == Forms!Ask("delete", view.pending)
             c == [ask EXCEPT !.page = view.page, !.search = view.search]
  <2>2. ask.op = "delete" /\ DOMAIN ask = {"op", "step", "ws", "page", "search", "reply"}
    BY CallIs
  <2> HIDE DEF ask
  <2>3. c.op = "delete" /\ DOMAIN c = {"op", "step", "ws", "page", "search", "reply"}
    BY <2>2
  <2>4. Forms!Sends(t, c)
    BY <2>1 DEF ask
  <2> HIDE DEF c
  <2>5. /\ DOMAIN view' = DOMAIN view /\ view'.route = view.route /\ view'.waits = view.waits \cup {t}
        /\ (view'.loading => view.loading) /\ (view'.submitting => view.submitting)
    BY <2>1
  <2> QED  BY <2>3, <2>4, <2>5, PageSends
<1>3. CASE Forms!Submit
  <2>1. PICK t \in Forms!Free :
          /\ Forms!Sends(t, IF view.route = "new" THEN Forms!Ask("create", Forms!NoWorkspace)
                                                  ELSE Forms!Ask("update", view.ws))
          /\ view' = [view EXCEPT !.submitting = TRUE, !.waits = @ \cup {t}]
    BY <1>3 DEF Forms!Submit
  <2>2. /\ DOMAIN view' = DOMAIN view /\ view'.route = view.route /\ view'.waits = view.waits \cup {t}
        /\ (view'.loading => view.loading) /\ (view'.deleting => view.deleting)
    BY <2>1
  <2>3. view.route # "list"
    BY <1>3 DEF Forms!Submit, Forms!FormIsShown
  <2> QED  BY <2>1, <2>2, <2>3, CallIs, PageSends
<1>4. ASSUME NEW p, Forms!TurnPage(p) PROVE FormsInv'
  <2>1. PICK t \in Forms!Free :
          /\ Forms!Sends(t, Forms!ListCall(p, view.search))
          /\ view' = [view EXCEPT !.page = p, !.loading = TRUE, !.waits = @ \cup {t}]
    BY <1>4 DEF Forms!TurnPage
  <2>2. /\ DOMAIN view' = DOMAIN view /\ view'.route = view.route /\ view'.waits = view.waits \cup {t}
        /\ (view'.submitting => view.submitting) /\ (view'.deleting => view.deleting)
    BY <2>1
  <2> QED  BY <2>1, <2>2, CallIs, PageSends
<1> QED  BY <1>1, <1>2, <1>3, <1>4

\* Nothing is sent.
LEMMA FieldsKeep ==
    ASSUME FormsInv,
           \/ Forms!TypeSearch \/ Forms!CancelDelete \/ Forms!TypeInForm
           \/ \E w \in ListedCompanies : Forms!AskDelete(w)
    PROVE  FormsInv'
<1>1. /\ UNCHANGED calls /\ DOMAIN view' = DOMAIN view
      /\ view'.route = view.route /\ view'.waits = view.waits
      /\ view'.loading = view.loading /\ view'.submitting = view.submitting /\ view'.deleting = view.deleting
  BY DEF Forms!TypeSearch, Forms!CancelDelete, Forms!TypeInForm, Forms!AskDelete, FormsInv, FormsShape
<1> QED  BY <1>1, PageRests

\* The search takes effect: from another page than the first the list is asked for twice.
LEMMA SearchKeeps ==
    ASSUME FormsInv, Forms!SearchSettles
    PROVE  FormsInv'
<1> USE DEF FormsInv, FormsShape
<1>1. CASE view.page = 1
  <2>1. PICK t \in Forms!Free :
          /\ Forms!Sends(t, Forms!ListCall(1, view.typed))
          /\ view' = [view EXCEPT !.search = view.typed, !.loading = TRUE, !.waits = @ \cup {t}]
    BY <1>1 DEF Forms!SearchSettles
  <2>2. /\ DOMAIN view' = DOMAIN view /\ view'.route = view.route /\ view'.waits = view.waits \cup {t}
        /\ (view'.submitting => view.submitting) /\ (view'.deleting => view.deleting)
    BY <2>1
  <2> QED  BY <2>1, <2>2, CallIs, PageSends
<1>2. CASE view.page # 1
  <2>1. PICK t \in Forms!Free, u \in Forms!Free :
          /\ u # t
          /\ calls' = [calls EXCEPT ![t] = Forms!ListCall(view.page, view.typed),
                                    ![u] = Forms!ListCall(1, view.typed)]
          /\ view' = [view EXCEPT !.search = view.typed, !.page = 1, !.loading = TRUE,
                                  !.waits = @ \cup {t, u}]
    BY <1>2 DEF Forms!SearchSettles
  <2>2. /\ DOMAIN view' = DOMAIN view /\ view'.route = view.route /\ view'.waits = view.waits \cup {t, u}
        /\ (view'.submitting => view.submitting) /\ (view'.deleting => view.deleting)
    BY <2>1
  <2>3. /\ DOMAIN calls' = Slots /\ calls'[t].op = "find"
        /\ \A v \in Slots : DOMAIN calls'[v] = {"op", "step", "ws", "page", "search", "reply"}
        /\ \A v \in Slots \ {t, u} : calls'[v] = calls[v]
    BY <2>1, CallIs DEF Forms!Free
  <2>4. calls[t].op = "none" /\ calls[u].op = "none" /\ t \in Slots /\ u \in Slots
    BY <2>1 DEF Forms!Free
  <2> QED  BY <2>2, <2>3, <2>4 DEF Awaits
<1> QED  BY <1>1, <1>2

\* The page hears an answer.
LEMMA FormAnswersKeep ==
    ASSUME FormsInv, NEW t \in Slots, Forms!PageAnswers(t)
    PROVE  FormsInv'
<1> USE DEF FormsInv, FormsShape
<1>1. CASE Forms!GetEnds(t)
  <2>1. calls[t].op = "get" /\ Forms!Sends(t, Forms!Idle)
    BY <1>1 DEF Forms!GetEnds
  <2>2. CASE calls[t].step = "done"
    <3>1. view' = [view EXCEPT !.loading = FALSE, !.waits = @ \ {t}, !.loaded = TRUE]
      BY <1>1, <2>2 DEF Forms!GetEnds
    <3>2. /\ DOMAIN view' = DOMAIN view /\ view'.route = view.route /\ view'.waits = view.waits \ {t}
          /\ ~view'.loading
          /\ view'.submitting = view.submitting /\ view'.deleting = view.deleting
      BY <3>1
    <3> QED  BY <2>1, <3>2, PageHears
  <2>3. CASE calls[t].step # "done"
    <3> DEFINE v == Forms!FormGone(view)
    <3>1. view' = [v EXCEPT !.loading = FALSE, !.waits = @ \ {t}, !.loaded = FALSE, !.failed = TRUE]
      BY <1>1, <2>3 DEF Forms!GetEnds
    <3>2. /\ DOMAIN v = DOMAIN view /\ v.deleting = view.deleting
          /\ v.waits = {u \in view.waits : calls[u].op # "update"} /\ ~v.submitting
      BY FormGoneIs
    <3> HIDE DEF v
    <3>3. /\ DOMAIN view' = DOMAIN view /\ ~view'.loading /\ ~view'.submitting
          /\ view'.deleting = view.deleting
          /\ view'.waits = {u \in view.waits : calls[u].op # "update"} \ {t}
      BY <3>1, <3>2
    <3> QED  BY <2>1, <3>3, FormLeaves
  <2> QED  BY <2>2, <2>3
<1>2. CASE Forms!ListEnds(t)
  <2>1. t \in view.waits /\ calls[t].op = "find"
    BY <1>2 DEF Forms!ListEnds
  <2>2. PICK last :
          \/ /\ Forms!Sends(t, Forms!ListCall(last, view.search))
             /\ view'.waits = view.waits
          \/ /\ Forms!Sends(t, Forms!Idle)
             /\ view'.waits = view.waits \ {t} /\ ~view'.loading
    BY <1>2 DEF Forms!ListEnds
  <2>3. /\ DOMAIN view' = DOMAIN view /\ view'.route = view.route
        /\ (view'.submitting => view.submitting) /\ (view'.deleting => view.deleting)
    BY <1>2 DEF Forms!ListEnds
  <2> QED  BY <2>1, <2>2, <2>3, CallIs, PageAsksAgain, PageHears
<1>3. CASE Forms!DeleteEnds(t)
  <2>1. t \in view.waits /\ calls[t].op = "delete"
    BY <1>3 DEF Forms!DeleteEnds
  <2>2. \/ /\ Forms!Sends(t, Forms!ListCall(calls[t].page, calls[t].search))
           /\ view'.waits = view.waits
        \/ /\ Forms!Sends(t, Forms!Idle)
           /\ view'.waits = view.waits \ {t} /\ (view'.loading => view.loading)
    BY <1>3 DEF Forms!DeleteEnds
  <2>3. /\ DOMAIN view' = DOMAIN view /\ view'.route = view.route
        /\ (view'.submitting => view.submitting) /\ ~view'.deleting
    BY <1>3 DEF Forms!DeleteEnds
  <2> QED  BY <2>1, <2>2, <2>3, CallIs, PageAsksAgain, PageHears
<1>4. CASE Forms!SaveSucceeds(t)
  <2>1. CASE view.route = "list"
    <3>1. Forms!Sends(t, Forms!Idle) /\ UNCHANGED view /\ calls[t].op \in {"create", "update"}
      BY <1>4, <2>1 DEF Forms!SaveSucceeds
    <3>2. /\ DOMAIN calls' = Slots /\ \A u \in Slots \ {t} : calls'[u] = calls[u]
          /\ \A u \in Slots : DOMAIN calls'[u] = {"op", "step", "ws", "page", "search", "reply"}
      BY <3>1 DEF Forms!Sends, Forms!Idle
    <3> QED  BY <2>1, <3>1, <3>2 DEF Awaits
  <2>2. CASE view.route # "list"
    <3>1. /\ Forms!Sends(t, Forms!ListCall(1, FALSE))
          /\ view' = Forms!Mounted("list", Forms!NoWorkspace, {t})
      BY <1>4, <2>2 DEF Forms!SaveSucceeds
    <3> DEFINE list == Forms!ListCall(1, FALSE)
    <3>2. list.op = "find" /\ DOMAIN list = {"op", "step", "ws", "page", "search", "reply"}
      BY DEF Forms!ListCall, Forms!Ask, Forms!Idle
    <3>3. calls' = [calls EXCEPT ![t] = list]
      BY <3>1 DEF Forms!Sends
    <3> HIDE DEF list
    <3>4. /\ DOMAIN calls' = Slots /\ calls'[t].op \in {"find", "get"}
          /\ \A u \in Slots : DOMAIN calls'[u] = {"op", "step", "ws", "page", "search", "reply"}
      BY <3>2, <3>3
    <3>5. {t} \subseteq Slots /\ \E u \in {t} : calls'[u].op \in {"find", "get"}
      BY <3>4
    <3> DEFINE waits == {t}
    <3>6. view' = Forms!Mounted("list", Forms!NoWorkspace, waits)
      BY <3>1
    <3>7. waits \subseteq Slots /\ \E u \in waits : calls'[u].op \in {"find", "get"}
      BY <3>5
    <3> HIDE DEF waits
    <3> HIDE DEF FormsInv, FormsShape
    <3> QED  BY <3>4, <3>6, <3>7, PageMounts
  <2> QED  BY <2>1, <2>2
<1>5. CASE Forms!SaveFails(t)
  <2>1. /\ DOMAIN view' = DOMAIN view /\ view'.route = view.route /\ view'.waits = view.waits \ {t}
        /\ ~view'.submitting
        /\ (view'.loading => view.loading) /\ (view'.deleting => view.deleting)
    BY <1>5 DEF Forms!SaveFails
  <2> QED  BY <1>5, <2>1, PageHears DEF Forms!SaveFails
<1>6. CASE Forms!AnswerIsDropped(t)
  BY <1>6 DEF Forms!AnswerIsDropped, Forms!Sends, Forms!Idle, Awaits
<1> QED  BY <1>1, <1>2, <1>3, <1>4, <1>5, <1>6 DEF Forms!PageAnswers

\* The server answers.
LEMMA ServerAnswersKeep ==
    ASSUME FormsInv, NEW t \in Slots, Forms!Answers(t)
    PROVE  FormsInv'
<1>1. /\ DOMAIN calls' = Slots /\ UNCHANGED view
      /\ \A u \in Slots : DOMAIN calls'[u] = DOMAIN calls[u] /\ calls'[u].op = calls[u].op
  <2> USE DEF Forms!Sends, FormsInv, FormsShape
  <2>1. CASE Forms!Sends(t, [calls[t] EXCEPT !.step = "failed"])
    BY <2>1 DEF Forms!Answers
  <2>2. CASE \E l : Forms!Sends(t, [calls[t] EXCEPT !.step = "done", !.reply = l])
    <3> PICK l : calls' = [calls EXCEPT ![t] = [calls[t] EXCEPT !.step = "done", !.reply = l]]
      BY <2>2
    <3> DEFINE answered == [calls[t] EXCEPT !.step = "done", !.reply = l]
    <3>1. DOMAIN answered = DOMAIN calls[t] /\ answered.op = calls[t].op
      OBVIOUS
    <3>2. calls' = [calls EXCEPT ![t] = answered] /\ UNCHANGED view
      BY DEF Forms!Answers
    <3> HIDE DEF answered
    <3> QED  BY <3>1, <3>2
  <2>3. CASE Forms!Sends(t, [calls[t] EXCEPT !.step = "done"])
    BY <2>3 DEF Forms!Answers
  <2> QED  BY <2>1, <2>2, <2>3 DEF Forms!Answers
<1> QED  BY <1>1 DEF FormsInv, FormsShape, Awaits

\* Every step of WorkspacePages.
LEMMA FormsStepKeeps ==
    ASSUME FormsInv, Forms!PagesNext
    PROVE  FormsInv'
<1>1. CASE Forms!PageActs
  BY <1>1, RoutesKeep, ButtonsKeep, FieldsKeep, SearchKeeps DEF Forms!PageActs
<1> QED  BY <1>1, FormAnswersKeep, ServerAnswersKeep DEF Forms!PagesNext

\* On every page of Pages.
LEMMA FormsIsInvariant == Spec => []FormsInv
<1>1. Init => FormsInv
  BY FormsStart DEF Init
<1>2. FormsInv /\ [Next]_vars => FormsInv'
  <2> SUFFICES ASSUME FormsInv, [Next]_vars PROVE FormsInv'
    OBVIOUS
  <2>1. CASE OnWorkspaces
    BY <2>1, FormsStepKeeps DEF OnWorkspaces
  <2>2. CASE UNCHANGED <<calls, view>>
    BY <2>2 DEF FormsInv, FormsShape, Awaits
  <2> QED
    BY <2>1, <2>2 DEF Next, vars, OnUsers, OnService, OnContacts, OnConnect, OnDesk, OnVoice, formsIdle
<1> QED  BY <1>1, <1>2, PTL DEF Spec

\* workspaces-list.tsx, workspace-form.tsx: no page stays busy with a call that will not be
\* answered, or whose answer will not be heard.
THEOREM BusyPagesWait == Spec => []BusyIsAwaited
BY FormsIsInvariant, FormsImply, PTL
=============================================================================
