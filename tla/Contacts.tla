------------------------------ MODULE Contacts ------------------------------
(***************************************************************************)
(* The contacts of the workspaces: the page of the front end               *)
(* (ContactsPage with its cards, its side panel and its forms), the HTTP   *)
(* calls it has in flight, ContactService and the contacts collection.     *)
(*                                                                         *)
(* Of a contact the model keeps its workspace and its phone, which is the   *)
(* string stored: a form's may start with '+' and stays so, a message's is *)
(* digits, and the same number in both forms is two phones.  A call holds  *)
(* how far the service has come with it; its form is told of the answer    *)
(* only while it is still mounted.  The total of a listing never reaches   *)
(* the page (the client looks for it under other names), so there is one   *)
(* page of contacts and no pager.                                          *)
(***************************************************************************)
EXTENDS Naturals, FiniteSets

CONSTANTS Workspaces,
          Phones,         \* what a form may send as a phone, once normalised
          BarePhones,     \* those of digits alone, which messages come from
          MaxContacts,    \* how many contacts are ever created (a bound)
          MaxCalls,       \* calls in flight at once (a bound)
          All, Absent     \* the view of every workspace; an id or a phone that is none

VARIABLES contacts,       \* the collection: a contact, or Absent, for every id
          given,          \* how many ids have been handed out
          contactsPage,   \* the useState cells of ContactsPage and of the form in its panel
          contactCalls    \* the HTTP calls in flight

contactVars == <<contacts, given, contactsPage, contactCalls>>

Ids == 1 .. MaxContacts

\* A deleted contact has no phone; a page may still have it, with its workspace, on a card.
Contact == [ws : Workspaces, phone : Phones \cup {Absent}]

NoId == 0

Exists(i) == contacts[i] # Absent /\ contacts[i].phone # Absent

\* What the panel shows, and of which contact.
Panel(type, id) == [type |-> type, id |-> id]

ContactInit ==
    /\ contacts = [i \in Ids |-> Absent]
    /\ given = 0
    /\ contactsPage = [known |-> FALSE, selected |-> All, shown |-> {}, isLoading |-> FALSE,
                       panel |-> Panel("none", NoId), formOf |-> NoId, saving |-> FALSE]
    /\ contactCalls = {}

Stored == UNCHANGED <<contacts, given>>

CallOf(op, ws, id, phone) ==
    [op |-> op, step |-> "sent", ws |-> ws, id |-> id, phone |-> phone, rest |-> {}, read |-> {},
     reload |-> All, mounted |-> op \in {"create", "import", "update"}]

\* loadContacts: one workspace, or every workspace the page knows of.
LoadCall(ws) ==
    [CallOf("load", ws, NoId, Absent) EXCEPT
        !.rest = IF ws # All THEN {ws} ELSE IF contactsPage.known THEN Workspaces ELSE {}]

\* The answer to a call, with the contact it is about or without one.
Answer(c, step, id) ==
    [CallOf(c.op, All, id, Absent) EXCEPT !.step = step, !.reload = c.reload, !.mounted = c.mounted]

Done(c, id) == Answer(c, "done", id)

Failed(c) == Answer(c, "failed", NoId)

Becomes(c, d) == contactCalls' = (contactCalls \ {c}) \cup {d}

Room == Cardinality(contactCalls) < MaxCalls

\* Another panel takes the place of this one, and of its form.
Shows(page, panel) == [page EXCEPT !.panel = panel, !.saving = FALSE,
                                   !.formOf = IF panel.type = "edit" THEN panel.id ELSE NoId]

\* Only the forms ask whether they are still there when their answer comes.
Unmounted(calls) == {[c EXCEPT !.mounted = FALSE] : c \in calls}

Opens(panel) ==
    /\ contactsPage' = Shows(contactsPage, panel)
    /\ contactCalls' = Unmounted(contactCalls)
    /\ Stored

-----------------------------------------------------------------------------
(* What the user does. *)

\* The cards are there when no list is loading.
Cards == IF contactsPage.isLoading THEN {} ELSE contactsPage.shown

\* Importing and creating need one workspace.
CanCreate == contactsPage.selected # All

WorkspacesArrive ==
    /\ ~contactsPage.known /\ Room
    /\ contactsPage' = [contactsPage EXCEPT !.known = TRUE, !.isLoading = TRUE]
    /\ contactCalls' = contactCalls \cup
           {IF contactsPage.selected = All THEN [LoadCall(All) EXCEPT !.rest = Workspaces]
                                           ELSE LoadCall(contactsPage.selected)}
    /\ Stored

\* The chips of the workspaces: none while they load.
Choices == IF contactsPage.known THEN Workspaces \cup {All} ELSE {}

\* The chip of the view that is shown only closes the panel.
SelectAgain == contactsPage.selected \in Choices /\ Opens(Panel("none", NoId))

SelectWorkspace(ws) ==
    /\ ws \in Choices \ {contactsPage.selected} /\ Room
    /\ contactsPage' = [Shows(contactsPage, Panel("none", NoId)) EXCEPT !.selected = ws, !.isLoading = TRUE]
    /\ contactCalls' = Unmounted(contactCalls) \cup {LoadCall(ws)}
    /\ Stored

\* The text typed settles, or the token is renewed: the same view is loaded again.
LoadAgain ==
    /\ Room
    /\ contactsPage' = [contactsPage EXCEPT !.isLoading = TRUE]
    /\ contactCalls' = contactCalls \cup {LoadCall(contactsPage.selected)}
    /\ Stored

\* A form that is open already stays, with what was typed and asked in it.
OpenForm(type) ==
    /\ CanCreate
    /\ contactsPage.panel.type # type
    /\ Opens(Panel(type, NoId))

OpenCreate == OpenForm("create")

OpenImport == OpenForm("import")

SelectCard(i) == i \in Cards /\ Opens(Panel("detail", i))

ClosePanel ==
    /\ contactsPage.panel.type \in {"create", "import", "detail"} /\ ~contactsPage.saving
    /\ Opens(Panel("none", NoId))

\* Mutant of IsSelected: every card has its buttons while a panel is open.
IsAnyCard(i) == contactsPage.panel.type \in {"detail", "edit"} /\ i \in Cards \cup {contactsPage.panel.id}

\* A card has its buttons while it is the selected one; the details have one too.
IsSelected(i) == contactsPage.panel.type \in {"detail", "edit"} /\ contactsPage.panel.id = i

\* The form takes its fields from the contact when it mounts, and keeps them.
OpenEdit(i) ==
    /\ IsSelected(i) /\ (i \in Cards \/ contactsPage.panel.type = "detail")
    /\ IF contactsPage.panel.type = "edit"
         THEN contactsPage' = [contactsPage EXCEPT !.panel = Panel("edit", i)] /\ UNCHANGED contactCalls /\ Stored
         ELSE Opens(Panel("edit", i))

CancelEdit ==
    /\ contactsPage.panel.type = "edit" /\ ~contactsPage.saving
    /\ Opens(Panel("detail", contactsPage.panel.id))

\* The workspace a call about a contact of the page is addressed to: the contact's.
AddressOf(i) == contacts[i].ws

Submits(c) ==
    /\ ~contactsPage.saving /\ Room
    /\ contactsPage' = [contactsPage EXCEPT !.saving = TRUE]
    /\ contactCalls' = contactCalls \cup {c}
    /\ Stored

SubmitCreate(p) ==
    /\ contactsPage.panel.type = "create"
    /\ Submits([CallOf("create", contactsPage.selected, NoId, p) EXCEPT !.reload = contactsPage.selected])

\* The id was given out of band: of any contact of any workspace.
SubmitImport(i) ==
    /\ contactsPage.panel.type = "import"
    /\ Submits([CallOf("import", contactsPage.selected, i, Absent) EXCEPT !.reload = contactsPage.selected])

SubmitEdit ==
    LET i == contactsPage.panel.id
    IN /\ contactsPage.panel.type = "edit"
       /\ Submits(CallOf("update", AddressOf(i), i, Absent))

ConfirmDelete(i) ==
    /\ IsSelected(i) /\ i \in Cards /\ Room
    /\ contactCalls' = contactCalls \cup {CallOf("delete", AddressOf(i), i, Absent)}
    /\ UNCHANGED contactsPage /\ Stored

-----------------------------------------------------------------------------
(* What the answers do. *)

LoadEnds(c) ==
    /\ c.op = "load" /\ c.step \in {"done", "failed"}
    /\ contactsPage' = [contactsPage EXCEPT !.isLoading = FALSE,
                                            !.shown = IF c.step = "failed" THEN @ ELSE c.read]
    /\ contactCalls' = contactCalls \ {c}
    /\ Stored

\* The contact made or imported is shown, and the view in which it was asked for is
\* loaded, even when another workspace is selected by now.
CreateSucceeds(c) ==
    /\ c.op \in {"create", "import"} /\ c.step = "done"
    /\ contactsPage' = [Shows(contactsPage, Panel("detail", c.id)) EXCEPT !.isLoading = TRUE]
    /\ contactCalls' = Unmounted(contactCalls \ {c}) \cup {LoadCall(c.reload)}
    /\ Stored

UpdateSucceeds(c) ==
    /\ c.op = "update" /\ c.step = "done"
    /\ contactsPage' = Shows(contactsPage, Panel("detail", c.id))
    /\ contactCalls' = Unmounted(contactCalls \ {c})
    /\ Stored

DeleteSucceeds(c) ==
    /\ c.op = "delete" /\ c.step = "done"
    /\ contactsPage' = [Shows(contactsPage, Panel("none", NoId)) EXCEPT !.shown = @ \ {c.id}]
    /\ contactCalls' = Unmounted(contactCalls \ {c})
    /\ Stored

\* Mutant of CallFailed: the form that was refused is not given back.
CallFailedSilently(c) ==
    /\ c.op # "load" /\ c.step = "failed"
    /\ contactCalls' = contactCalls \ {c}
    /\ UNCHANGED contactsPage /\ Stored

CallFailed(c) ==
    /\ c.op # "load" /\ c.step = "failed"
    /\ contactsPage' = [contactsPage EXCEPT !.saving = @ /\ ~c.mounted]
    /\ contactCalls' = contactCalls \ {c}
    /\ Stored

-----------------------------------------------------------------------------
(* The service and the collection. *)

Of(ws) == {i \in Ids : Exists(i) /\ contacts[i].ws = ws}

WithPhone(ws, p) == {i \in Of(ws) : contacts[i].phone = p}

\* The unique index (workspaceId, phone), of equal strings.
IndexAllows(ws, p) == WithPhone(ws, p) = {}

Inserts(ws, p) ==
    /\ given < MaxContacts
    /\ given' = given + 1
    /\ contacts' = [contacts EXCEPT ![given + 1] = [ws |-> ws, phone |-> p]]

\* Of several workspaces, one that cannot be read counts as empty.  They are read at
\* one moment here.
ListsWorkspace(c) ==
    /\ c.op = "load" /\ c.step = "sent"
    /\ \/ \E readable \in IF c.ws = All THEN SUBSET c.rest ELSE {c.rest} :
             Becomes(c, [Done(c, NoId) EXCEPT !.read = UNION {Of(ws) : ws \in readable}])
       \/ c.ws # All /\ Becomes(c, Failed(c))
    /\ UNCHANGED contactsPage /\ Stored

\* A contact is made, unless the index refuses it.
Creates(c) ==
    IF IndexAllows(c.ws, c.phone)
      THEN Inserts(c.ws, c.phone) /\ Becomes(c, Done(c, given + 1))
      ELSE Stored /\ Becomes(c, Failed(c))

CreatesContact(c) ==
    /\ c.op = "create" /\ c.step = "sent"
    /\ Creates(c)
    /\ UNCHANGED contactsPage

\* An update and a delete first look the contact up, in the workspace of the request.
FindsContact(c) ==
    /\ c.op \in {"update", "delete"} /\ c.step = "sent"
    /\ Becomes(c, IF c.id \in Of(c.ws) THEN [c EXCEPT !.step = "found"] ELSE Failed(c))
    /\ UNCHANGED contactsPage /\ Stored

\* $set changes a row that is still there, and fails otherwise.
UpdatesContact(c) ==
    /\ c.op = "update" /\ c.step = "found"
    /\ Becomes(c, IF Exists(c.id) THEN Done(c, c.id) ELSE Failed(c))
    /\ UNCHANGED contactsPage /\ Stored

DeletesContact(c) ==
    /\ c.op = "delete" /\ c.step = "found"
    /\ contacts' = [contacts EXCEPT ![c.id].phone = Absent]
    /\ Becomes(c, Done(c, c.id))
    /\ UNCHANGED <<given, contactsPage>>

\* The string of the source is looked for, and stored, as it is.
ImportFindsSource(c) ==
    /\ c.op = "import" /\ c.step = "sent"
    /\ Becomes(c, IF Exists(c.id) THEN [c EXCEPT !.step = "source", !.phone = contacts[c.id].phone, !.id = NoId]
                                  ELSE Failed(c))
    /\ UNCHANGED contactsPage /\ Stored

\* A contact of that phone in the target is the answer; otherwise one is made.
ImportFindsPhone(c) ==
    /\ c.op = "import" /\ c.step = "source"
    /\ IF WithPhone(c.ws, c.phone) = {}
         THEN Becomes(c, [c EXCEPT !.step = "missing"])
         ELSE \E i \in WithPhone(c.ws, c.phone) : Becomes(c, Done(c, i))
    /\ UNCHANGED contactsPage /\ Stored

ImportCreates(c) ==
    /\ c.op = "import" /\ c.step = "missing"
    /\ Creates(c)
    /\ UNCHANGED contactsPage

\* A message arrives from a phone, or mentions one: the contact stored under its
\* digits is found or made in one operation.
GetOrCreate(ws, p) ==
    /\ WithPhone(ws, p) = {}
    /\ Inserts(ws, p)
    /\ UNCHANGED <<contactsPage, contactCalls>>

CallFails(c) ==
    /\ c.op # "load" /\ c.step # "failed"
    /\ Becomes(c, Failed(c))
    /\ UNCHANGED contactsPage /\ Stored

-----------------------------------------------------------------------------
ContactActs ==
    \/ WorkspacesArrive \/ SelectAgain \/ LoadAgain \/ OpenCreate \/ OpenImport \/ ClosePanel \/ CancelEdit \/ SubmitEdit
    \/ \E ws \in Workspaces \cup {All} : SelectWorkspace(ws)
    \/ \E i \in Ids : SelectCard(i) \/ OpenEdit(i) \/ SubmitImport(i) \/ ConfirmDelete(i)
    \/ \E p \in Phones : SubmitCreate(p)

ContactAnswers == \E c \in contactCalls :
    LoadEnds(c) \/ CreateSucceeds(c) \/ UpdateSucceeds(c) \/ DeleteSucceeds(c) \/ CallFailed(c)

ContactServes == \E c \in contactCalls :
    \/ ListsWorkspace(c) \/ CreatesContact(c) \/ FindsContact(c) \/ UpdatesContact(c)
    \/ DeletesContact(c) \/ ImportFindsSource(c) \/ ImportFindsPhone(c) \/ ImportCreates(c)
    \/ CallFails(c)

ContactNext ==
    \/ ContactActs \/ ContactAnswers \/ ContactServes
    \/ \E ws \in Workspaces, p \in BarePhones : GetOrCreate(ws, p)

ContactSpec == ContactInit /\ [][ContactNext]_contactVars

-----------------------------------------------------------------------------
ContactTypeOK ==
    /\ contacts \in [Ids -> Contact \cup {Absent}]
    /\ given \in 0 .. MaxContacts
    /\ contactsPage.selected \in Workspaces \cup {All} /\ contactsPage.shown \subseteq Ids
    /\ contactsPage.panel.type \in {"none", "create", "import", "detail", "edit"}
    /\ contactsPage.panel.id \in Ids \cup {NoId}
    /\ contactsPage.saving => contactsPage.panel.type \in {"create", "import", "edit"}

(* The fields on the screen are those of the contact the PATCH will change. *)
FormIsOfContact ==
    contactsPage.panel.type = "edit" => contactsPage.formOf = contactsPage.panel.id

(* What is busy is waiting for an answer: the list shows its spinner only while a list *)
(* is being loaded, and the buttons of a form are disabled only while its own call, and  *)
(* not that of a form that is gone, is in flight.                                        *)
SpinnersAreAwaited ==
    /\ contactsPage.isLoading => \E c \in contactCalls : c.op = "load"
    /\ contactsPage.saving    => \E c \in contactCalls : c.mounted
=============================================================================
