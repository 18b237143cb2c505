--------------------------- MODULE WorkspacePages ---------------------------
(***************************************************************************)
(* The workspace pages of one user of the front end: the list with its     *)
(* search, its pages and its delete dialog, the page of one workspace, the *)
(* form that creates a workspace and the one that edits it.                *)
(*                                                                         *)
(* One page is mounted at a time.  A page that is left keeps its calls in  *)
(* flight: their answers change nothing, except that a form that has saved *)
(* goes to the list from wherever the user is by then.  The server may     *)
(* answer a call with anything it can hold (WorkspaceService says what it  *)
(* does hold), and answers in any order.                                   *)
(***************************************************************************)
EXTENDS Naturals

CONSTANTS Tasks,         \* calls in flight at once (a bound)
          Companies,     \* ids of workspaces, not 0
          Mine,          \* those that belong to the user of these pages
          PageSize,
          MaxTotal       \* the longest listing of the server (a bound)

VARIABLES calls,         \* the HTTP calls in flight
          view           \* the route, and the useState cells of the page mounted there

pageVars == <<calls, view>>

Routes == {"list", "new", "detail", "edit", "elsewhere"}

NoWorkspace == 0

NoListing == [items |-> {}, total |-> 0]

Listings == [items : SUBSET Companies, total : 0 .. MaxTotal]

Idle == [op |-> "none", step |-> "idle", ws |-> NoWorkspace, page |-> 1, search |-> FALSE, reply |-> NoListing]

Ask(op, w) == [Idle EXCEPT !.op = op, !.step = "sent", !.ws = w]

ListCall(page, search) == [Ask("find", NoWorkspace) EXCEPT !.page = page, !.search = search]

\* A page as it mounts; `waits` are the tasks whose answers its state waits for.
Mounted(route, w, waits) ==
    [route |-> route, ws |-> w, waits |-> waits, loading |-> route \in {"list", "detail", "edit"},
     page |-> 1, typed |-> FALSE, search |-> FALSE, items |-> {}, total |-> 0, pending |-> NoWorkspace,
     deleting |-> FALSE, loaded |-> FALSE, failed |-> FALSE, dirty |-> FALSE, submitting |-> FALSE]

Free == {t \in Tasks : calls[t].op = "none"}

Sends(t, c) == calls' = [calls EXCEPT ![t] = c]

PagesInit ==
    /\ calls = [t \in Tasks |-> Idle]
    /\ view = Mounted("elsewhere", NoWorkspace, {})

TotalPages(total) == IF total = 0 THEN 1 ELSE (total + PageSize - 1) \div PageSize

\* The owner's rows have links to the edit and connect pages and a delete button.
Owned == view.items \cap Mine

-----------------------------------------------------------------------------
(* Going from page to page. *)

OpenList ==
    /\ view.route # "list"
    /\ \E t \in Free : Sends(t, ListCall(1, FALSE)) /\ view' = Mounted("list", NoWorkspace, {t})

OpenNew ==
    /\ view.route = "list"
    /\ view' = Mounted("new", NoWorkspace, {})
    /\ UNCHANGED calls

OpenDetail(w) ==
    /\ view.route = "list" /\ ~view.loading /\ w \in view.items
    /\ \E t \in Free : Sends(t, Ask("get", w)) /\ view' = Mounted("detail", w, {t})

\* An error that an overlapped load left behind hides the workspace a later one brought.
IsLoaded == view.loaded /\ ~view.failed

OpenEdit(w) ==
    /\ ~view.loading
    /\ \/ view.route = "list" /\ w \in Owned
       \/ view.route = "detail" /\ view.ws = w /\ IsLoaded /\ w \in Mine
    /\ \E t \in Free : Sends(t, Ask("get", w)) /\ view' = Mounted("edit", w, {t})

GoElsewhere ==
    /\ view' = Mounted("elsewhere", NoWorkspace, {})
    /\ UNCHANGED calls

\* The form of an edit leaves the screen, and the answer to its save with it.
FormGone(v) ==
    [v EXCEPT !.dirty = FALSE, !.submitting = FALSE, !.waits = {t \in @ : calls[t].op # "update"}]

Reload == IF view.route = "list" THEN ListCall(view.page, view.search) ELSE Ask("get", view.ws)

\* Mutant of TokenRenewed: the new `load` makes the page deaf to every earlier answer.
TokenRenewedDeaf ==
    /\ view.route \in {"list", "detail", "edit"}
    /\ \E t \in Free :
          /\ Sends(t, Reload)
          /\ view' = [FormGone(view) EXCEPT !.loading = TRUE, !.failed = FALSE, !.waits = {t}]

\* A renewed access token is a new `load`: every mounted page that loads starts
\* again, and the edit page takes its form off the screen while it does.
TokenRenewed ==
    /\ view.route \in {"list", "detail", "edit"}
    /\ \E t \in Free :
          /\ Sends(t, Reload)
          /\ view' = [FormGone(view) EXCEPT !.loading = TRUE, !.failed = FALSE, !.waits = @ \cup {t}]

\* The answer to getWorkspace. The form of an edit starts from it and stays through a
\* second one, unless that fails.
GetEnds(t) ==
    /\ t \in view.waits /\ calls[t].op = "get" /\ calls[t].step \in {"done", "failed"}
    /\ view' = IF calls[t].step = "done"
                 THEN [view EXCEPT !.loading = FALSE, !.waits = @ \ {t}, !.loaded = TRUE]
                 ELSE [FormGone(view) EXCEPT !.loading = FALSE, !.waits = @ \ {t},
                                             !.loaded = FALSE, !.failed = TRUE]
    /\ Sends(t, Idle)

\* The answer of a call whose page is gone, and that is not a save.
AnswerIsDropped(t) ==
    /\ t \notin view.waits /\ calls[t].step \in {"done", "failed"}
    /\ calls[t].op \in {"create", "update"} => calls[t].step = "failed"
    /\ Sends(t, Idle)
    /\ UNCHANGED view

-----------------------------------------------------------------------------
(* The list. *)

TypeSearch ==
    /\ view.route = "list"
    /\ view' = [view EXCEPT !.typed = ~@]
    /\ UNCHANGED calls

\* 400 ms later: one effect loads the page shown, the other goes to page one, which
\* loads again; whichever is answered last is what the list shows.
SearchSettles ==
    /\ view.route = "list" /\ view.typed # view.search
    /\ \E t \in Free :
          IF view.page = 1
            THEN /\ Sends(t, ListCall(1, view.typed))
                 /\ view' = [view EXCEPT !.search = view.typed, !.loading = TRUE, !.waits = @ \cup {t}]
            ELSE \E u \in Free \ {t} :
                 /\ calls' = [calls EXCEPT ![t] = ListCall(view.page, view.typed),
                                                 ![u] = ListCall(1, view.typed)]
                 /\ view' = [view EXCEPT !.search = view.typed, !.page = 1, !.loading = TRUE,
                                         !.waits = @ \cup {t, u}]

TurnPage(p) ==
    /\ view.route = "list" /\ ~view.loading
    /\ p \in {view.page - 1, view.page + 1} /\ p \in 1 .. TotalPages(view.total)
    /\ \E t \in Free :
          /\ Sends(t, ListCall(p, view.search))
          /\ view' = [view EXCEPT !.page = p, !.loading = TRUE, !.waits = @ \cup {t}]

\* What a listing leaves in the cells; a failure empties the list.
Shows(r) == IF r.step = "done" THEN r.reply ELSE NoListing

\* A page past the last one is left for the last one, which loads again.
ListEnds(t) ==
    /\ t \in view.waits /\ calls[t].op = "find" /\ calls[t].step \in {"done", "failed"}
    /\ LET shown == Shows(calls[t])
           last == TotalPages(shown.total)
       IN IF view.page > last
            THEN /\ Sends(t, ListCall(last, view.search))
                 /\ view' = [view EXCEPT !.items = shown.items, !.total = shown.total, !.page = last,
                                         !.loading = TRUE]
            ELSE /\ Sends(t, Idle)
                 /\ view' = [view EXCEPT !.items = shown.items, !.total = shown.total,
                                         !.loading = FALSE, !.waits = @ \ {t}]

AskDelete(w) ==
    /\ view.route = "list" /\ ~view.loading /\ view.pending = NoWorkspace /\ w \in Owned
    /\ view' = [view EXCEPT !.pending = w]
    /\ UNCHANGED calls

CancelDelete ==
    /\ view.pending # NoWorkspace /\ ~view.deleting
    /\ view' = [view EXCEPT !.pending = NoWorkspace]
    /\ UNCHANGED calls

\* The call remembers the `load` of the moment it was confirmed.
ConfirmDelete ==
    /\ view.pending # NoWorkspace /\ ~view.deleting
    /\ \E t \in Free :
          /\ Sends(t, [Ask("delete", view.pending) EXCEPT !.page = view.page,
                                                           !.search = view.search])
          /\ view' = [view EXCEPT !.deleting = TRUE, !.waits = @ \cup {t}]

DeleteEnds(t) ==
    /\ t \in view.waits /\ calls[t].op = "delete" /\ calls[t].step \in {"done", "failed"}
    /\ IF calls[t].step = "done"
         THEN /\ Sends(t, ListCall(calls[t].page, calls[t].search))
              /\ view' = [view EXCEPT !.deleting = FALSE, !.pending = NoWorkspace, !.loading = TRUE]
         ELSE /\ Sends(t, Idle)
              /\ view' = [view EXCEPT !.deleting = FALSE, !.waits = @ \ {t}]

-----------------------------------------------------------------------------
(* The form, of a new workspace or of one that has been loaded. *)

FormIsShown ==
    \/ view.route = "new"
    \/ view.route = "edit" /\ ~view.loading /\ IsLoaded /\ view.ws \in Mine

TypeInForm ==
    /\ FormIsShown /\ ~view.submitting
    /\ view' = [view EXCEPT !.dirty = TRUE]
    /\ UNCHANGED calls

Submit ==
    /\ FormIsShown /\ ~view.submitting
    /\ view.route = "new" => view.dirty
    /\ \E t \in Free :
          /\ Sends(t, IF view.route = "new" THEN Ask("create", NoWorkspace) ELSE Ask("update", view.ws))
          /\ view' = [view EXCEPT !.submitting = TRUE, !.waits = @ \cup {t}]

\* The push to the list follows the answer, even after its form is gone.
SaveSucceeds(t) ==
    /\ calls[t].op \in {"create", "update"} /\ calls[t].step = "done"
    /\ IF view.route = "list"
         THEN Sends(t, Idle) /\ UNCHANGED view
         ELSE Sends(t, ListCall(1, FALSE)) /\ view' = Mounted("list", NoWorkspace, {t})

SaveFails(t) ==
    /\ t \in view.waits /\ calls[t].op \in {"create", "update"} /\ calls[t].step = "failed"
    /\ view' = [view EXCEPT !.submitting = FALSE, !.waits = @ \ {t}]
    /\ Sends(t, Idle)

-----------------------------------------------------------------------------
(* The server: any answer; a search is a parameter the query does not have. *)
Answers(t) ==
    /\ calls[t].step = "sent"
    /\ \/ Sends(t, [calls[t] EXCEPT !.step = "failed"])
       \/ /\ calls[t].op = "find" /\ ~calls[t].search
          /\ \E l \in Listings : Sends(t, [calls[t] EXCEPT !.step = "done", !.reply = l])
       \/ /\ calls[t].op # "find"
          /\ Sends(t, [calls[t] EXCEPT !.step = "done"])
    /\ UNCHANGED view

PageActs ==
    \/ OpenList \/ OpenNew \/ GoElsewhere \/ TokenRenewed \/ TypeSearch \/ SearchSettles
    \/ CancelDelete \/ ConfirmDelete \/ TypeInForm \/ Submit
    \/ \E w \in Companies : OpenDetail(w) \/ OpenEdit(w) \/ AskDelete(w)
    \/ \E p \in 1 .. TotalPages(view.total) : TurnPage(p)

PageAnswers(t) ==
    \/ GetEnds(t) \/ ListEnds(t) \/ DeleteEnds(t) \/ SaveSucceeds(t) \/ SaveFails(t)
    \/ AnswerIsDropped(t)

PagesNext == PageActs \/ \E t \in Tasks : PageAnswers(t) \/ Answers(t)

PagesSpec == PagesInit /\ [][PagesNext]_pageVars

-----------------------------------------------------------------------------
(* workspaces-list.tsx, workspace-form.tsx: what is busy is waiting for an answer that *)
(* will end it.  No skeleton, disabled button or disabled form is left over from a call  *)
(* whose answer came already, or comes to a page that no longer listens to it, though    *)
(* pages, searches, tokens and routes change while calls are in flight.                  *)
BusyIsAwaited ==
    LET awaits(ops) == \E t \in view.waits : calls[t].op \in ops IN
    /\ view.loading    => awaits({"find", "get"})
    /\ view.submitting => awaits({"create", "update"})
    /\ view.deleting   => awaits({"delete"})
=============================================================================
