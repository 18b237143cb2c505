---------------------------- MODULE ContactsProofs ----------------------------
(***************************************************************************)
(* Theorems about the Contacts of Pages, for every value of the constants. *)
(*                                                                         *)
(* The form of a panel is filled from that panel's contact, because every  *)
(* panel takes the place of the one before with its form.  What is busy is *)
(* awaited: an answer of the service keeps the operation of its call and   *)
(* whether its form is still there (SameCall), and the answer that ends    *)
(* the last call a spinner waits for also ends the spinner.                *)
(***************************************************************************)
EXTENDS Pages, TLAPS

\* The fields of the page.
PageShape(p) ==
    /\ DOMAIN p = {"known", "selected", "shown", "isLoading", "panel", "formOf", "saving"}
    /\ DOMAIN p.panel = {"type", "id"}

\* The fields of a call; no form waits for a list.
CallOK(c) ==
    /\ DOMAIN c = {"op", "step", "ws", "id", "phone", "rest", "read", "reload", "mounted"}
    /\ c.op = "load" => ~c.mounted

\* The fields of the page and of its calls.
ContactShape == PageShape(contactsPage) /\ \A c \in contactCalls : CallOK(c)

\* The inductive invariant.
ContactInv == ContactShape /\ FormIsOfContact /\ SpinnersAreAwaited

\* The page p, with the calls cs in flight, satisfies it.
FormFits(p) == p.panel.type = "edit" => p.formOf = p.panel.id

Awaited(p, cs) ==
    /\ p.isLoading => \E c \in cs : c.op = "load"
    /\ p.saving    => \E c \in cs : c.mounted

PageOK(p, cs) ==
    PageShape(p) /\ (\A c \in cs : CallOK(c)) /\ FormFits(p) /\ Awaited(p, cs)

\* The invariant says this of the page as it is.
LEMMA PageOKIsInv ==
    /\ ContactInv = PageOK(contactsPage, contactCalls)
    /\ ContactInv' = PageOK(contactsPage', contactCalls')
BY DEF ContactInv, ContactShape, PageOK, FormFits, Awaited, FormIsOfContact, ContactBook!FormIsOfContact,
       SpinnersAreAwaited, ContactBook!SpinnersAreAwaited, PageShape, CallOK

-----------------------------------------------------------------------------
\* Before the first contact.
LEMMA ContactsStart == ContactBook!ContactInit => ContactInv
BY DEF ContactBook!ContactInit, ContactBook!Panel, ContactBook!NoId, ContactInv, ContactShape, PageShape,
       FormIsOfContact, ContactBook!FormIsOfContact, SpinnersAreAwaited, ContactBook!SpinnersAreAwaited

\* A call as the page sends it.
LEMMA CallOfIs ==
    ASSUME NEW op, NEW ws, NEW id, NEW phone
    PROVE  LET c == ContactBook!CallOf(op, ws, id, phone) IN
           CallOK(c) /\ c.op = op /\ (c.mounted <=> op \in {"create", "import", "update"})
BY DEF ContactBook!CallOf, CallOK

\* A list is asked for, of whatever is known by then.
LEMMA LoadCallIs ==
    ASSUME NEW ws
    PROVE  LET c == ContactBook!LoadCall(ws) IN
           CallOK(c) /\ c.op = "load" /\ \A rest : CallOK([c EXCEPT !.rest = rest]) /\ [c EXCEPT !.rest = rest].op = "load"
<1> DEFINE c == ContactBook!CallOf("load", ws, ContactBook!NoId, None)
           d(rest) == [c EXCEPT !.rest = rest]
<1>1. CallOK(c) /\ c.op = "load"
  BY CallOfIs
<1> HIDE DEF c
<1>2. \A rest : CallOK(d(rest)) /\ d(rest).op = "load"
  BY <1>1 DEF CallOK
<1>3. \A r, rest : [d(r) EXCEPT !.rest = rest] = d(rest)
  BY <1>1 DEF CallOK
<1>4. PICK r : ContactBook!LoadCall(ws) = d(r)
  BY DEF c, ContactBook!LoadCall
<1> HIDE DEF d
<1> QED  BY <1>2, <1>3, <1>4

\* A call of the same operation, of a form that is there as long.
SameCall(c, d) == CallOK(d) /\ d.op = c.op /\ (d.mounted <=> c.mounted)

\* An answer is one.
LEMMA AnswerIs ==
    ASSUME NEW c, CallOK(c), NEW step, NEW id
    PROVE  LET d == ContactBook!Answer(c, step, id) IN
           SameCall(c, d) /\ \A read : SameCall(c, [d EXCEPT !.read = read])
<1> DEFINE d0 == ContactBook!CallOf(c.op, None, id, None)
           d == [d0 EXCEPT !.step = step, !.reload = c.reload, !.mounted = c.mounted]
<1>1. CallOK(d0) /\ d0.op = c.op
  BY CallOfIs
<1> HIDE DEF d0
<1>2. SameCall(c, d)
  BY <1>1 DEF SameCall, CallOK
<1>3. d = ContactBook!Answer(c, step, id)
  BY DEF d0, ContactBook!Answer
<1> HIDE DEF d
<1>4. \A read : SameCall(c, [d EXCEPT !.read = read])
  BY <1>2 DEF SameCall, CallOK
<1> QED  BY <1>2, <1>3, <1>4

\* Another panel on the page, and its form.
LEMMA ShowsIs ==
    ASSUME NEW p, PageShape(p), NEW type, NEW id
    PROVE  LET q == ContactBook!Shows(p, ContactBook!Panel(type, id)) IN
           PageShape(q) /\ FormFits(q) /\ ~q.saving /\ q.isLoading = p.isLoading
BY DEF PageShape, FormFits, ContactBook!Shows, ContactBook!Panel

\* A form that is gone hears no answer; the lists on their way still come.
LEMMA UnmountedIs ==
    ASSUME NEW cs, \A c \in cs : CallOK(c)
    PROVE  /\ \A c \in ContactBook!Unmounted(cs) : CallOK(c)
           /\ (\E c \in cs : c.op = "load") => \E c \in ContactBook!Unmounted(cs) : c.op = "load"
<1> DEFINE gone(c) == [c EXCEPT !.mounted = FALSE]
<1>1. \A c \in cs : CallOK(gone(c)) /\ gone(c).op = c.op
  BY DEF CallOK
<1>2. ContactBook!Unmounted(cs) = {gone(c) : c \in cs}
  BY DEF ContactBook!Unmounted
<1> HIDE DEF gone
<1> QED  BY <1>1, <1>2

-----------------------------------------------------------------------------
\* The page opens a panel.
LEMMA OpensKeeps ==
    ASSUME ContactInv, NEW type, NEW id, ContactBook!Opens(ContactBook!Panel(type, id))
    PROVE  ContactInv'
<1>1. /\ PageShape(contactsPage') /\ FormFits(contactsPage')
      /\ ~contactsPage'.saving /\ contactsPage'.isLoading = contactsPage.isLoading
  BY PageOKIsInv, ShowsIs DEF ContactBook!Opens, PageOK
<1>2. /\ \A c \in contactCalls' : CallOK(c)
      /\ (\E c \in contactCalls : c.op = "load") => \E c \in contactCalls' : c.op = "load"
  BY PageOKIsInv, UnmountedIs DEF ContactBook!Opens, PageOK
<1> QED  BY <1>1, <1>2, PageOKIsInv DEF PageOK, Awaited

\* Cards and buttons that send nothing.
LEMMA PanelsKeep ==
    ASSUME ContactInv,
           \/ ContactBook!SelectAgain \/ ContactBook!OpenCreate \/ ContactBook!OpenImport
           \/ ContactBook!ClosePanel \/ ContactBook!CancelEdit
           \/ \E i \in ContactBook!Ids : ContactBook!SelectCard(i) \/ ContactBook!OpenEdit(i)
    PROVE  ContactInv'
<1>1. ASSUME NEW i, ContactBook!OpenEdit(i), contactsPage.panel.type = "edit" PROVE ContactInv'
  <2>1. /\ contactsPage' = [contactsPage EXCEPT !.panel = ContactBook!Panel("edit", i)]
        /\ UNCHANGED contactCalls /\ contactsPage.panel.id = i
    BY <1>1 DEF ContactBook!OpenEdit, ContactBook!IsSelected
  <2> QED
    BY <1>1, <2>1, PageOKIsInv DEF PageOK, PageShape, FormFits, Awaited, ContactBook!Panel
<1> QED
  BY <1>1, OpensKeeps DEF ContactBook!SelectAgain, ContactBook!OpenCreate, ContactBook!OpenImport,
    ContactBook!OpenForm, ContactBook!ClosePanel, ContactBook!CancelEdit, ContactBook!SelectCard, ContactBook!OpenEdit

\* What makes the page load its list.
LEMMA LoadsKeep ==
    ASSUME ContactInv,
           \/ ContactBook!WorkspacesArrive \/ ContactBook!LoadAgain
           \/ \E ws \in Places \cup {None} : ContactBook!SelectWorkspace(ws)
    PROVE  ContactInv'
<1> USE PageOKIsInv DEF PageOK, Awaited
<1>1. CASE ContactBook!WorkspacesArrive \/ ContactBook!LoadAgain
  <2>1. PICK c : CallOK(c) /\ c.op = "load" /\ contactCalls' = contactCalls \cup {c}
    BY <1>1, LoadCallIs DEF ContactBook!WorkspacesArrive, ContactBook!LoadAgain
  <2>2. PageShape(contactsPage') /\ FormFits(contactsPage') /\ contactsPage'.saving = contactsPage.saving
    BY <1>1 DEF PageShape, FormFits, ContactBook!WorkspacesArrive, ContactBook!LoadAgain
  <2> QED  BY <2>1, <2>2
<1>2. ASSUME NEW ws, ContactBook!SelectWorkspace(ws) PROVE ContactInv'
  <2> DEFINE page0 == ContactBook!Shows(contactsPage, ContactBook!Panel("none", ContactBook!NoId))
  <2>1. PageShape(page0) /\ FormFits(page0) /\ ~page0.saving
    BY ShowsIs
  <2>2. contactsPage' = [page0 EXCEPT !.selected = ws, !.isLoading = TRUE]
    BY <1>2 DEF ContactBook!SelectWorkspace
  <2> HIDE DEF page0
  <2>3. PageShape(contactsPage') /\ FormFits(contactsPage') /\ ~contactsPage'.saving
    BY <2>1, <2>2 DEF PageShape, FormFits
  <2>4. (\A c \in contactCalls' : CallOK(c)) /\ \E c \in contactCalls' : c.op = "load"
    BY <1>2, LoadCallIs, UnmountedIs DEF ContactBook!SelectWorkspace
  <2> QED  BY <2>3, <2>4
<1> QED  BY <1>1, <1>2

\* A form sends its call, and waits for it.
LEMMA SubmitKeeps ==
    ASSUME ContactInv, NEW c, CallOK(c), c.mounted, ContactBook!Submits(c)
    PROVE  ContactInv'
BY PageOKIsInv DEF PageOK, PageShape, FormFits, Awaited, ContactBook!Submits

\* Buttons that send a call.
LEMMA SubmitsKeep ==
    ASSUME ContactInv,
           \/ ContactBook!SubmitEdit
           \/ \E i \in ContactBook!Ids : ContactBook!SubmitImport(i) \/ ContactBook!ConfirmDelete(i)
           \/ \E p \in Phones : ContactBook!SubmitCreate(p)
    PROVE  ContactInv'
<1>1. ASSUME NEW op \in {"create", "import"}, NEW ws, NEW i, NEW p,
             ContactBook!Submits([ContactBook!CallOf(op, ws, i, p) EXCEPT !.reload = ws])
      PROVE  ContactInv'
  <2> DEFINE c0 == ContactBook!CallOf(op, ws, i, p)
             c == [c0 EXCEPT !.reload = ws]
  <2>1. CallOK(c0) /\ c0.op = op /\ c0.mounted
    BY CallOfIs
  <2>2. ContactBook!Submits(c)
    BY <1>1
  <2> HIDE DEF c0
  <2>3. CallOK(c) /\ c.mounted
    BY <2>1 DEF CallOK
  <2> HIDE DEF c
  <2> QED  BY <2>2, <2>3, SubmitKeeps
<1>2. CASE ContactBook!SubmitEdit
  BY <1>2, CallOfIs, SubmitKeeps DEF ContactBook!SubmitEdit
<1>3. ASSUME NEW i, ContactBook!SubmitImport(i) PROVE ContactInv'
  BY <1>1, <1>3 DEF ContactBook!SubmitImport
<1>4. ASSUME NEW p, ContactBook!SubmitCreate(p) PROVE ContactInv'
  BY <1>1, <1>4 DEF ContactBook!SubmitCreate
<1>5. ASSUME NEW i, ContactBook!ConfirmDelete(i) PROVE ContactInv'
  <2>1. PICK c : CallOK(c) /\ contactCalls' = contactCalls \cup {c} /\ UNCHANGED contactsPage
    BY <1>5, CallOfIs DEF ContactBook!ConfirmDelete
  <2> QED  BY <2>1, PageOKIsInv DEF PageOK, Awaited
<1> QED  BY <1>2, <1>3, <1>4, <1>5

\* The page hears an answer.
LEMMA AnswersKeep ==
    ASSUME ContactInv, NEW c \in contactCalls,
           \/ ContactBook!LoadEnds(c) \/ ContactBook!CreateSucceeds(c) \/ ContactBook!UpdateSucceeds(c)
           \/ ContactBook!DeleteSucceeds(c) \/ ContactBook!CallFailed(c)
    PROVE  ContactInv'
<1> USE PageOKIsInv DEF PageOK, Awaited
<1>1. CASE ContactBook!LoadEnds(c)
  <2>1. /\ PageShape(contactsPage') /\ FormFits(contactsPage')
        /\ ~contactsPage'.isLoading /\ contactsPage'.saving = contactsPage.saving
        /\ contactCalls' = contactCalls \ {c} /\ ~c.mounted
    BY <1>1 DEF ContactBook!LoadEnds, CallOK, PageShape, FormFits
  <2> QED  BY <2>1
<1>2. CASE ContactBook!CreateSucceeds(c)
  <2> DEFINE page0 == ContactBook!Shows(contactsPage, ContactBook!Panel("detail", c.id))
  <2>1. PageShape(page0) /\ FormFits(page0) /\ ~page0.saving
    BY ShowsIs
  <2>2. contactsPage' = [page0 EXCEPT !.isLoading = TRUE]
    BY <1>2 DEF ContactBook!CreateSucceeds
  <2> HIDE DEF page0
  <2>3. PageShape(contactsPage') /\ FormFits(contactsPage') /\ ~contactsPage'.saving
    BY <2>1, <2>2 DEF PageShape, FormFits
  <2>4. (\A d \in contactCalls' : CallOK(d)) /\ \E d \in contactCalls' : d.op = "load"
    BY <1>2, LoadCallIs, UnmountedIs DEF ContactBook!CreateSucceeds
  <2> QED  BY <2>3, <2>4
<1>3. CASE ContactBook!UpdateSucceeds(c) \/ ContactBook!DeleteSucceeds(c)
  <2>1. contactCalls' = ContactBook!Unmounted(contactCalls \ {c}) /\ c.op # "load"
    BY <1>3 DEF ContactBook!UpdateSucceeds, ContactBook!DeleteSucceeds
  <2>2. /\ \A d \in contactCalls' : CallOK(d)
        /\ (\E d \in contactCalls : d.op = "load") => \E d \in contactCalls' : d.op = "load"
    BY <2>1, UnmountedIs
  <2>3. PICK type, id : LET page0 == ContactBook!Shows(contactsPage, ContactBook!Panel(type, id))
                        IN  contactsPage' = page0 \/ contactsPage' = [page0 EXCEPT !.shown = @ \ {c.id}]
    BY <1>3 DEF ContactBook!UpdateSucceeds, ContactBook!DeleteSucceeds
  <2> DEFINE page0 == ContactBook!Shows(contactsPage, ContactBook!Panel(type, id))
  <2>4. PageShape(page0) /\ FormFits(page0) /\ ~page0.saving /\ page0.isLoading = contactsPage.isLoading
    BY ShowsIs
  <2>5. contactsPage' = page0 \/ contactsPage' = [page0 EXCEPT !.shown = @ \ {c.id}]
    BY <2>3
  <2> HIDE DEF page0
  <2>6. /\ PageShape(contactsPage') /\ FormFits(contactsPage')
        /\ ~contactsPage'.saving /\ contactsPage'.isLoading = contactsPage.isLoading
    BY <2>4, <2>5 DEF PageShape, FormFits
  <2> QED  BY <2>2, <2>6
<1>4. CASE ContactBook!CallFailed(c)
  <2>1. /\ PageShape(contactsPage') /\ FormFits(contactsPage')
        /\ contactsPage'.isLoading = contactsPage.isLoading
        /\ contactsPage'.saving => contactsPage.saving /\ ~c.mounted
        /\ contactCalls' = contactCalls \ {c} /\ c.op # "load"
    BY <1>4 DEF ContactBook!CallFailed, PageShape, FormFits
  <2> QED  BY <2>1
<1> QED  BY <1>1, <1>2, <1>3, <1>4

-----------------------------------------------------------------------------
\* A step of the server that changes one call.
LEMMA CallMoves ==
    ASSUME ContactInv, UNCHANGED contactsPage, NEW c \in contactCalls, NEW d, SameCall(c, d),
           ContactBook!Becomes(c, d)
    PROVE  ContactInv'
BY PageOKIsInv DEF PageOK, Awaited, SameCall, ContactBook!Becomes

\* The service and the collection: every step changes one call of the same operation.
LEMMA ServesKeep ==
    ASSUME ContactInv, NEW c \in contactCalls,
           \/ ContactBook!ListsWorkspace(c) \/ ContactBook!CreatesContact(c) \/ ContactBook!FindsContact(c)
           \/ ContactBook!UpdatesContact(c) \/ ContactBook!DeletesContact(c) \/ ContactBook!ImportFindsSource(c)
           \/ ContactBook!ImportFindsPhone(c) \/ ContactBook!ImportCreates(c) \/ ContactBook!CallFails(c)
    PROVE  ContactInv'
<1>1. CallOK(c)
  BY PageOKIsInv DEF PageOK
<1>2. UNCHANGED contactsPage
  BY DEF ContactBook!ListsWorkspace, ContactBook!CreatesContact, ContactBook!FindsContact,
    ContactBook!UpdatesContact, ContactBook!DeletesContact, ContactBook!ImportFindsSource,
    ContactBook!ImportFindsPhone, ContactBook!ImportCreates, ContactBook!CallFails
<1>3. \A step, id : SameCall(c, ContactBook!Answer(c, step, id))
  BY <1>1, AnswerIs
<1>4. \A id : SameCall(c, ContactBook!Done(c, id)) /\ \A read : SameCall(c, [ContactBook!Done(c, id) EXCEPT !.read = read])
  BY <1>1, AnswerIs DEF ContactBook!Done
<1>5. SameCall(c, ContactBook!Failed(c))
  BY <1>3 DEF ContactBook!Failed
<1>6. \A step, phone, id : /\ SameCall(c, [c EXCEPT !.step = step])
                           /\ SameCall(c, [c EXCEPT !.step = step, !.phone = phone, !.id = id])
  BY <1>1 DEF SameCall, CallOK
<1>7. ASSUME NEW d, SameCall(c, d), ContactBook!Becomes(c, d) PROVE ContactInv'
  BY <1>2, <1>7, CallMoves
<1>8. CASE ContactBook!ListsWorkspace(c)
  BY <1>4, <1>5, <1>7, <1>8 DEF ContactBook!ListsWorkspace
<1>9. CASE ContactBook!CreatesContact(c) \/ ContactBook!ImportCreates(c)
  BY <1>4, <1>5, <1>7, <1>9 DEF ContactBook!CreatesContact, ContactBook!ImportCreates, ContactBook!Creates
<1>10. CASE ContactBook!FindsContact(c) \/ ContactBook!UpdatesContact(c)
  <2>1. \/ ContactBook!Becomes(c, [c EXCEPT !.step = "found"])
        \/ ContactBook!Becomes(c, ContactBook!Done(c, c.id)) \/ ContactBook!Becomes(c, ContactBook!Failed(c))
    BY <1>10 DEF ContactBook!FindsContact, ContactBook!UpdatesContact
  <2> QED  BY <1>4, <1>5, <1>6, <1>7, <2>1
<1>11. CASE ContactBook!DeletesContact(c)
  BY <1>4, <1>7, <1>11 DEF ContactBook!DeletesContact
<1>12. CASE ContactBook!ImportFindsSource(c)
  <2>1. \/ \E phone : ContactBook!Becomes(c, [c EXCEPT !.step = "source", !.phone = phone, !.id = ContactBook!NoId])
        \/ ContactBook!Becomes(c, ContactBook!Failed(c))
    BY <1>12 DEF ContactBook!ImportFindsSource
  <2> QED  BY <1>5, <1>6, <1>7, <2>1
<1>13. CASE ContactBook!ImportFindsPhone(c)
  BY <1>4, <1>6, <1>7, <1>13 DEF ContactBook!ImportFindsPhone
<1>14. CASE ContactBook!CallFails(c)
  BY <1>5, <1>7, <1>14 DEF ContactBook!CallFails
<1> QED  BY <1>8, <1>9, <1>10, <1>11, <1>12, <1>13, <1>14

\* Every step of Contacts.
LEMMA ContactStepKeeps ==
    ASSUME ContactInv, ContactBook!ContactNext
    PROVE  ContactInv'
<1>1. CASE ContactBook!ContactActs
  BY <1>1, PanelsKeep, LoadsKeep, SubmitsKeep DEF ContactBook!ContactActs
<1>2. CASE ContactBook!ContactAnswers
  BY <1>2, AnswersKeep DEF ContactBook!ContactAnswers
<1>3. CASE ContactBook!ContactServes
  BY <1>3, ServesKeep DEF ContactBook!ContactServes
<1>4. ASSUME NEW ws \in Places, NEW p \in BarePhones, ContactBook!GetOrCreate(ws, p)
      PROVE  ContactInv'
  BY <1>4, PageOKIsInv DEF ContactBook!GetOrCreate
<1> QED  BY <1>1, <1>2, <1>3, <1>4 DEF ContactBook!ContactNext

\* On every page of Pages.
LEMMA ContactIsInvariant == Spec => []ContactInv
<1>1. Init => ContactInv
  BY ContactsStart DEF Init
<1>2. ContactInv /\ [Next]_vars => ContactInv'
  <2> SUFFICES ASSUME ContactInv, [Next]_vars PROVE ContactInv'
    OBVIOUS
  <2>1. CASE OnContacts
    BY <2>1, ContactStepKeeps DEF OnContacts
  <2>2. CASE UNCHANGED <<contacts, given, contactsPage, contactCalls>>
    BY <2>2, PageOKIsInv
  <2> QED
    BY <2>1, <2>2 DEF Next, vars, OnUsers, OnService, OnWorkspaces, OnConnect, OnDesk, OnVoice, bookIdle
<1> QED  BY <1>1, <1>2, PTL DEF Spec

\* contacts-page.tsx: the list shows its spinner, and the buttons of a form are disabled, only
\* while a call is in flight whose answer ends that; however loads, forms that were left and
\* failures overlap.
THEOREM SpinnersEnd == Spec => []SpinnersAreAwaited
<1>1. ContactInv => SpinnersAreAwaited
  BY DEF ContactInv
<1> QED  BY <1>1, ContactIsInvariant, PTL

\* contacts-page.tsx: the form in the panel is of the contact that will be changed.
THEOREM FormIsTheirs == Spec => []FormIsOfContact
<1>1. ContactInv => FormIsOfContact
  BY DEF ContactInv
<1> QED  BY <1>1, ContactIsInvariant, PTL
=============================================================================
