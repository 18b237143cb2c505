------------------------------ MODULE ChatDesk ------------------------------
(***************************************************************************)
(* The details of the open conversation in ChatPanel - its names, its      *)
(* notes, the client saved as a contact, the end of the conversation - and *)
(* NotationService behind the notes.                                       *)
(*                                                                         *)
(* The panel is one component for all conversations: opening another one   *)
(* keeps every form but those of single notes, whose key is the note.      *)
(* A handler that awaits keeps the conversation it started with.  `Ana`    *)
(* has the panel; a colleague works on the same notes from another one.    *)
(***************************************************************************)
EXTENDS Naturals, FiniteSets

CONSTANTS DeskCalls,     \* calls in flight at once (a bound)
          Chats,         \* conversations of the workspace
          Notes,         \* ids randomUUID may produce
          NoChat, NoNote

VARIABLES notebook,      \* the notes of the database, and what became of each
          desk,          \* the useState cells of ChatPanel and of its details
          deskCalls      \* the HTTP calls in flight, from both panels

deskVars == <<notebook, desk, deskCalls>>

Kinds == {"name", "client", "contact", "create", "update"}

NoCall == [op |-> "none", step |-> "idle", by |-> "Ana", chat |-> NoChat, note |-> NoNote,
           seen |-> {}]

Call(op, u, c) == [NoCall EXCEPT !.op = op, !.step = "sent", !.by = u, !.chat = c]

\* The form on the screen: of the chat's name, the client's, a contact, a new note, or
\* a note.  The panel has them all side by side; here one is open at a time (a bound).
NoForm == [kind |-> "none", note |-> NoNote, step |-> "closed"]

DeskInit ==
    /\ notebook = [stored |-> {}, created |-> {}, deleted |-> {}, old |-> {},
                   chat |-> [n \in Notes |-> NoChat], owner |-> [n \in Notes |-> "Ana"]]
    /\ desk = [active |-> NoChat, details |-> FALSE, form |-> NoForm, deleting |-> {},
               listed |-> [c \in Chats |-> {}]]
    /\ deskCalls = [t \in DeskCalls |-> NoCall]

Waiting(t, op) == deskCalls[t].op = op
Sends(t, c) == deskCalls[t] = NoCall /\ deskCalls' = [deskCalls EXCEPT ![t] = c]
Moves(t, step) == deskCalls' = [deskCalls EXCEPT ![t].step = step]
Ends(t) == deskCalls' = [deskCalls EXCEPT ![t] = NoCall]

StoredIn(c) == {n \in notebook.stored : notebook.chat[n] = c}
Panel == desk.details /\ desk.active # NoChat
Mine(n) == n \in desk.listed[desk.active] /\ notebook.owner[n] = "Ana"

-----------------------------------------------------------------------------
(* Ana's panel. *)

\* The forms stay as they are; the form of a note goes with its note.
Opens(c) ==
    /\ c # desk.active
    /\ desk' = [desk EXCEPT !.active = c,
                            !.form = IF @.kind = "update" /\ @.note \notin desk.listed[c] THEN NoForm ELSE @]
    /\ UNCHANGED <<notebook, deskCalls>>

TogglesDetails ==
    /\ desk' = [desk EXCEPT !.details = ~@, !.form = NoForm, !.deleting = {}]
    /\ UNCHANGED <<notebook, deskCalls>>

\* Another workspace or access token: no conversation is open, the list is asked for.
Lists(t) ==
    /\ Sends(t, Call("list", "Ana", NoChat))
    /\ desk' = [desk EXCEPT !.active = NoChat, !.form = NoForm, !.deleting = {}]
    /\ UNCHANGED notebook

\* A note has its edit button for its owner and for a day.
OpensForm(kind, n) ==
    /\ Panel /\ desk.form = NoForm
    /\ IF kind = "update" THEN Mine(n) /\ n \notin notebook.old ELSE n = NoNote
    /\ desk' = [desk EXCEPT !.form = [kind |-> kind, note |-> n, step |-> "open"]]
    /\ UNCHANGED <<notebook, deskCalls>>

\* Escape and Enter work in the fields of the two names while they are being saved.
WhileSaving == desk.form.kind \in {"name", "client"} /\ desk.form.step = "saving"

CancelsForm ==
    /\ desk.form.step = "open" \/ WhileSaving
    /\ desk' = [desk EXCEPT !.form = NoForm]
    /\ UNCHANGED <<notebook, deskCalls>>

\* The handler works on the chat that is open by now.
SavesForm(t) ==
    /\ Panel
    /\ desk.form.step = "open" \/ WhileSaving
    /\ Sends(t, [Call(desk.form.kind, "Ana", desk.active) EXCEPT !.note = desk.form.note])
    /\ desk' = [desk EXCEPT !.form.step = "saving"]
    /\ UNCHANGED notebook

\* A note may be edited while its deletion is under way, not the other way round.
DeletesNote(t, n) ==
    /\ Panel /\ Mine(n)
    /\ n \notin desk.deleting /\ n # desk.form.note
    /\ Sends(t, [Call("delete", "Ana", desk.active) EXCEPT !.note = n])
    /\ desk' = [desk EXCEPT !.deleting = @ \cup {n}]
    /\ UNCHANGED notebook

\* Closing a conversation asks for a route the server does not have.
ClosesConversation(t) ==
    /\ desk.active # NoChat
    /\ Sends(t, [Call("close", "Ana", desk.active) EXCEPT !.step = "failed"])
    /\ UNCHANGED <<notebook, desk>>

-----------------------------------------------------------------------------
(* The colleague's calls, of the same front end. *)

ColleagueCalls(t) ==
    /\ \/ \E c \in Chats : Sends(t, Call("create", "colleague", c))
       \/ \E n \in notebook.stored, op \in {"update", "delete"} :
             /\ notebook.owner[n] = "colleague"
             /\ Sends(t, [Call(op, "colleague", notebook.chat[n]) EXCEPT !.note = n])
    /\ UNCHANGED <<notebook, desk>>

-----------------------------------------------------------------------------
(* The server. *)

\* A day passes after the note was made.
Ages(n) ==
    /\ n \in notebook.stored \ notebook.old
    /\ notebook' = [notebook EXCEPT !.old = @ \cup {n}]
    /\ UNCHANGED <<desk, deskCalls>>

CreatesNote(t) ==
    /\ Waiting(t, "create") /\ deskCalls[t].step = "sent"
    /\ \E n \in Notes \ notebook.created :
          /\ notebook' = [notebook EXCEPT !.stored = @ \cup {n}, !.created = @ \cup {n},
                             !.chat[n] = deskCalls[t].chat, !.owner[n] = deskCalls[t].by]
          /\ deskCalls' = [deskCalls EXCEPT ![t].step = "done", ![t].note = n]
    /\ UNCHANGED desk

\* update and delete find the conversation, and check the note they find in it.
FindsNote(t) ==
    LET n == deskCalls[t].note IN
    /\ deskCalls[t].op \in {"update", "delete"} /\ deskCalls[t].step = "sent"
    /\ IF /\ n \in StoredIn(deskCalls[t].chat)
          /\ notebook.owner[n] = deskCalls[t].by
          /\ Waiting(t, "update") => n \notin notebook.old
         THEN deskCalls' = [deskCalls EXCEPT ![t].step = "found", ![t].seen = notebook.stored]
         ELSE Moves(t, "failed")
    /\ UNCHANGED <<notebook, desk>>

\* Mutant of UpdatesNote: it writes back the array of notes it found.
UpdatesWhole(t) ==
    LET c == deskCalls[t].chat IN
    /\ Waiting(t, "update") /\ deskCalls[t].step = "found"
    /\ notebook' = [notebook EXCEPT !.stored =
                      {n \in @ : notebook.chat[n] # c} \cup {n \in deskCalls[t].seen : notebook.chat[n] = c}]
    /\ Moves(t, "done")
    /\ UNCHANGED desk

\* updateNotation sets the content of the one note, if it is there still.
UpdatesNote(t) ==
    /\ Waiting(t, "update") /\ deskCalls[t].step = "found"
    /\ Moves(t, IF deskCalls[t].note \in notebook.stored THEN "done" ELSE "failed")
    /\ UNCHANGED <<notebook, desk>>

DropsNote(t) ==
    LET n == deskCalls[t].note IN
    /\ Waiting(t, "delete") /\ deskCalls[t].step = "found"
    /\ notebook' = [notebook EXCEPT !.stored = @ \ {n}, !.deleted = @ \cup {n}]
    /\ Moves(t, "done")
    /\ UNCHANGED desk

ReadsList(t) ==
    /\ Waiting(t, "list") /\ deskCalls[t].step = "sent"
    /\ deskCalls' = [deskCalls EXCEPT ![t].step = "done", ![t].seen = notebook.stored]
    /\ UNCHANGED <<notebook, desk>>

\* The names of a chat and of its client, and the contact, are kept elsewhere.
TakesForm(t) ==
    /\ deskCalls[t].op \in {"name", "client", "contact"} /\ deskCalls[t].step = "sent"
    /\ Moves(t, "done")
    /\ UNCHANGED <<notebook, desk>>

\* The server or the network fails the call, before it had its effect or after.
CallFails(t) ==
    /\ deskCalls[t].step \in {"sent", "found", "done"}
    /\ Moves(t, "failed")
    /\ UNCHANGED <<notebook, desk>>

-----------------------------------------------------------------------------
(* The answers, in the panel the call came from. *)

\* Mutant of AnswerChat: the handler reads the conversation that is open by now.
AnswerChatOpen(t) == IF desk.active = NoChat THEN deskCalls[t].chat ELSE desk.active

\* The conversation a handler applies its answer to.
AnswerChat(t) == deskCalls[t].chat

\* The form the answer finds, if it is its own: gone, or the contact's thanks.
FormAfter(t) ==
    IF desk.form.kind # deskCalls[t].op \/ desk.form.note \notin {NoNote, deskCalls[t].note} THEN desk.form
    ELSE IF desk.form.kind = "contact" THEN [desk.form EXCEPT !.step = "saved"]
    ELSE NoForm

FormAnswered(t) ==
    LET n == deskCalls[t].note   c == AnswerChat(t) IN
    /\ deskCalls[t].by = "Ana" /\ deskCalls[t].step = "done"
    /\ deskCalls[t].op \in Kinds
    /\ desk' = [desk EXCEPT !.form = FormAfter(t),
                            !.listed[c] = IF Waiting(t, "create") THEN @ \cup {n} ELSE @]
    /\ Ends(t)
    /\ UNCHANGED notebook

DeleteAnswered(t) ==
    LET n == deskCalls[t].note   c == AnswerChat(t) IN
    /\ deskCalls[t].by = "Ana" /\ deskCalls[t].step = "done"
    /\ Waiting(t, "delete")
    /\ desk' = [desk EXCEPT !.listed[c] = @ \ {n}, !.deleting = @ \ {n},
                            !.form = IF desk.form.note = n THEN NoForm ELSE @]
    /\ Ends(t)
    /\ UNCHANGED notebook

ListAnswered(t) ==
    /\ Waiting(t, "list") /\ deskCalls[t].step = "done"
    /\ desk' = [desk EXCEPT !.listed =
                   [c \in Chats |-> {n \in deskCalls[t].seen : notebook.chat[n] = c}]]
    /\ Ends(t)
    /\ UNCHANGED notebook

FailureAnswered(t) ==
    /\ deskCalls[t].by = "Ana" /\ deskCalls[t].step = "failed"
    /\ desk' = [desk EXCEPT
          !.form.step = IF desk.form.kind = deskCalls[t].op /\ @ = "saving" THEN "open" ELSE @,
          !.deleting  = IF Waiting(t, "delete") THEN @ \ {deskCalls[t].note} ELSE @]
    /\ Ends(t)
    /\ UNCHANGED notebook

ColleagueAnswered(t) ==
    /\ deskCalls[t].by = "colleague" /\ deskCalls[t].step \in {"done", "failed"}
    /\ Ends(t)
    /\ UNCHANGED <<notebook, desk>>

DeskNext ==
    \/ (\E c \in Chats : Opens(c)) \/ TogglesDetails \/ CancelsForm
    \/ \E kind \in Kinds, n \in Notes \cup {NoNote} : OpensForm(kind, n)
    \/ \E n \in Notes : Ages(n)
    \/ \E t \in DeskCalls :
          \/ Lists(t) \/ SavesForm(t) \/ ClosesConversation(t)
          \/ \E n \in Notes : DeletesNote(t, n)
          \/ ColleagueCalls(t)
          \/ CreatesNote(t) \/ FindsNote(t) \/ UpdatesNote(t) \/ DropsNote(t)
          \/ ReadsList(t) \/ TakesForm(t) \/ CallFails(t)
          \/ FormAnswered(t) \/ DeleteAnswered(t) \/ ListAnswered(t)
          \/ FailureAnswered(t) \/ ColleagueAnswered(t)

DeskSpec == DeskInit /\ [][DeskNext]_deskVars

-----------------------------------------------------------------------------
\* notation.service.ts: the notes of a conversation are those that were added and
\* not deleted, however the calls of two panels overlap.
NotesAreNotLost == notebook.stored = notebook.created \ notebook.deleted

\* chat-panel.tsx: a panel lists every note under the conversation it was written in,
\* whatever conversation is open when the server answers.
NotesStayInTheirChat == \A c \in Chats : \A n \in desk.listed[c] : notebook.chat[n] = c
=============================================================================
