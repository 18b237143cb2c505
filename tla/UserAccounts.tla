---------------------------- MODULE UserAccounts ----------------------------
(***************************************************************************)
(* The user administration: the page of the front end (UsersPage), the     *)
(* HTTP calls it has in flight, and UserService over the users collection. *)
(*                                                                         *)
(* A call is a record that moves through its steps: "sent" to the server,  *)
(* "found" once an update has read the row it will merge with, "done" or   *)
(* "failed" when the page is still to see the answer.  Validation, a       *)
(* duplicate e-mail or user name and a broken connection all reach the     *)
(* page as a failure.  Of a row the model keeps the password: the value    *)
(* somebody chose and how many times it has been hashed.                   *)
(***************************************************************************)
EXTENDS Naturals, FiniteSets

CONSTANTS Users,      \* the ids the database can hand out, in any order
          Passwords,  \* what can be typed in the password field
          Empty,      \* a password field left empty
          MaxCalls,   \* a bound: no more calls than this are in flight
          NoUser

VARIABLES accounts,   \* the collection: a row or NoUser for every id
          issued,     \* the ids handed out so far: an ObjectId is never reused
          usersPage,  \* the useState cells of UsersPage
          userCalls   \* the HTTP calls in flight

userVars == <<accounts, issued, usersPage, userCalls>>

MaxHashes == 2        \* a bound: a hash of a hash already fits no password

Row == [password : Passwords, hashes : 0 .. MaxHashes]

Modal == [mode : {"none", "create"}, user : {NoUser}]
           \cup [mode : {"edit", "details"}, user : Users]

Closed == [mode |-> "none", user |-> NoUser]

Call == [op : {"load"}, step : {"sent", "failed"}, found : {{}}]
          \cup [op : {"load"}, step : {"done"}, found : SUBSET Users]
          \cup [op : {"save"}, step : {"sent", "found", "done", "failed"}, modal : Modal,
                password : Passwords \cup {Empty}, current : Row \cup {NoUser}]
          \cup [op : {"delete"}, step : {"sent", "done", "failed"}, user : Users]

Load == [op |-> "load", step |-> "sent", found |-> {}]

UserInit ==
    /\ accounts = [u \in Users |-> NoUser]
    /\ issued = {}
    /\ usersPage = [loading |-> TRUE, users |-> {}, modal |-> Closed, typed |-> Empty,
                    saving |-> FALSE, target |-> NoUser, deleting |-> FALSE]
    /\ userCalls = {Load}

Becomes(c, d) == userCalls' = (userCalls \ {c}) \cup {d}

Server == UNCHANGED <<accounts, issued>>

Room == Cardinality(userCalls) < MaxCalls

-----------------------------------------------------------------------------
(* The page. *)

\* The rows of the table: while a list is loading there are only skeletons.
Listed == IF usersPage.loading THEN {} ELSE usersPage.users

OpenCreate ==
    /\ usersPage.modal = Closed
    /\ usersPage' = [usersPage EXCEPT !.modal = [mode |-> "create", user |-> NoUser], !.typed = Empty]
    /\ Server /\ UNCHANGED userCalls

OpenDetails(u) ==
    /\ usersPage.modal = Closed /\ u \in Listed
    /\ usersPage' = [usersPage EXCEPT !.modal = [mode |-> "details", user |-> u]]
    /\ Server /\ UNCHANGED userCalls

\* From the menu of a row, or from the details of the same user.
OpenEdit(u) ==
    /\ \/ usersPage.modal = Closed /\ u \in Listed
       \/ usersPage.modal = [mode |-> "details", user |-> u]
    /\ usersPage' = [usersPage EXCEPT !.modal = [mode |-> "edit", user |-> u], !.typed = Empty]
    /\ Server /\ UNCHANGED userCalls

CloseModal ==
    /\ usersPage.modal # Closed
    /\ usersPage' = [usersPage EXCEPT !.modal = Closed]
    /\ Server /\ UNCHANGED userCalls

TypePassword(p) ==
    /\ usersPage.modal.mode \in {"create", "edit"}
    /\ usersPage' = [usersPage EXCEPT !.typed = p]
    /\ Server /\ UNCHANGED userCalls

\* The submit button is disabled while a save runs, whichever modal it came from;
\* the password is required unless an existing user is edited.
Submit ==
    /\ usersPage.modal.mode \in {"create", "edit"}
    /\ ~usersPage.saving /\ Room
    /\ usersPage.modal.mode = "create" => usersPage.typed # Empty
    /\ usersPage' = [usersPage EXCEPT !.saving = TRUE]
    /\ userCalls' = userCalls \cup {[op |-> "save", step |-> "sent", modal |-> usersPage.modal,
                                     password |-> usersPage.typed, current |-> NoUser]}
    /\ Server

\* A save that succeeds closes whatever modal is open by then and loads the list.
SaveSucceeds(c) ==
    /\ c.op = "save" /\ c.step = "done"
    /\ usersPage' = [usersPage EXCEPT !.modal = Closed, !.saving = FALSE, !.loading = TRUE]
    /\ Becomes(c, Load)
    /\ Server

SaveFails(c) ==
    /\ c.op = "save" /\ c.step = "failed"
    /\ usersPage' = [usersPage EXCEPT !.saving = FALSE]
    /\ userCalls' = userCalls \ {c}
    /\ Server

AskDelete(u) ==
    /\ usersPage.modal = Closed /\ usersPage.target = NoUser /\ u \in Listed
    /\ usersPage' = [usersPage EXCEPT !.target = u]
    /\ Server /\ UNCHANGED userCalls

\* Escape closes the dialog, even while its buttons are disabled by an earlier delete.
CancelDelete ==
    /\ usersPage.target # NoUser
    /\ usersPage' = [usersPage EXCEPT !.target = NoUser]
    /\ Server /\ UNCHANGED userCalls

\* The action of an AlertDialog closes it as it is clicked.
ConfirmDelete ==
    /\ usersPage.target # NoUser /\ ~usersPage.deleting /\ Room
    /\ usersPage' = [usersPage EXCEPT !.deleting = TRUE, !.target = NoUser]
    /\ userCalls' = userCalls \cup {[op |-> "delete", step |-> "sent", user |-> usersPage.target]}
    /\ Server

DeleteSucceeds(c) ==
    /\ c.op = "delete" /\ c.step = "done"
    /\ usersPage' = [usersPage EXCEPT !.target = NoUser, !.deleting = FALSE, !.loading = TRUE]
    /\ Becomes(c, Load)
    /\ Server

DeleteFails(c) ==
    /\ c.op = "delete" /\ c.step = "failed"
    /\ usersPage' = [usersPage EXCEPT !.deleting = FALSE]
    /\ userCalls' = userCalls \ {c}
    /\ Server

\* `load` is another function with another access token, and is called.
TokenRenewed ==
    /\ Room
    /\ usersPage' = [usersPage EXCEPT !.loading = TRUE]
    /\ userCalls' = userCalls \cup {Load}
    /\ Server

LoadEnds(c) ==
    /\ c.op = "load" /\ c.step \in {"done", "failed"}
    /\ usersPage' = [usersPage EXCEPT !.loading = FALSE,
                                      !.users = IF c.step = "done" THEN c.found ELSE @]
    /\ userCalls' = userCalls \ {c}
    /\ Server

-----------------------------------------------------------------------------
(* The service and the collection. *)

\* UserEntity hashes whatever password it is given.
Hashed(row) == [row EXCEPT !.hashes = IF @ = MaxHashes THEN @ ELSE @ + 1]

ListRows(c) ==
    /\ c.op = "load" /\ c.step = "sent"
    /\ Becomes(c, [c EXCEPT !.step = "done", !.found = {u \in Users : accounts[u] # NoUser}])
    /\ UNCHANGED usersPage /\ Server

CreateRow(c) ==
    /\ c.op = "save" /\ c.step = "sent" /\ c.modal.mode = "create"
    /\ \E u \in Users \ issued :
          /\ accounts' = [accounts EXCEPT ![u] = [password |-> c.password, hashes |-> 1]]
          /\ issued' = issued \cup {u}
    /\ Becomes(c, [c EXCEPT !.step = "done"])
    /\ UNCHANGED usersPage

UpdateFinds(c) ==
    /\ c.op = "save" /\ c.step = "sent" /\ c.modal.mode = "edit"
    /\ Becomes(c, [c EXCEPT !.step = "found", !.current = accounts[c.modal.user]])
    /\ UNCHANGED usersPage /\ Server

\* What the entity built of the request and the row read before makes of the password.
Merged(c) == IF c.password = Empty THEN Hashed(c.current)
                                   ELSE [password |-> c.password, hashes |-> 1]

\* Mutant of UpdateWrites: the update inserts the row it does not find.
UpdateUpserts(c) ==
    /\ c.op = "save" /\ c.step = "found" /\ c.current # NoUser
    /\ accounts' = [accounts EXCEPT ![c.modal.user] = Merged(c)]
    /\ Becomes(c, [c EXCEPT !.step = "done"])
    /\ UNCHANGED <<issued, usersPage>>

\* findByIdAndUpdate finds nothing when the row is gone: the null fails the call.
UpdateWrites(c) ==
    /\ c.op = "save" /\ c.step = "found"
    /\ IF c.current # NoUser /\ accounts[c.modal.user] # NoUser
         THEN /\ accounts' = [accounts EXCEPT ![c.modal.user] = Merged(c)]
              /\ Becomes(c, [c EXCEPT !.step = "done"])
         ELSE /\ UNCHANGED accounts
              /\ Becomes(c, [c EXCEPT !.step = "failed"])
    /\ UNCHANGED <<issued, usersPage>>

\* A PATCH that brings nothing but a password, which the page never sends, is written as
\* it came: no entity is made of it.
PatchesPassword(u, p) ==
    /\ accounts[u] # NoUser
    /\ accounts' = [accounts EXCEPT ![u] = [password |-> p, hashes |-> 0]]
    /\ UNCHANGED <<issued, usersPage, userCalls>>

DeleteRow(c) ==
    /\ c.op = "delete" /\ c.step = "sent"
    /\ accounts' = [accounts EXCEPT ![c.user] = NoUser]
    /\ Becomes(c, [c EXCEPT !.step = "done"])
    /\ UNCHANGED <<issued, usersPage>>

\* A refused body, a duplicate key, a lost request or a lost answer.
CallFails(c) ==
    /\ c.step \in {"sent", "done"}
    /\ Becomes(c, IF c.op = "load" THEN [Load EXCEPT !.step = "failed"] ELSE [c EXCEPT !.step = "failed"])
    /\ UNCHANGED usersPage /\ Server

-----------------------------------------------------------------------------
UserAnswers == \E c \in userCalls :
    \/ SaveSucceeds(c) \/ SaveFails(c) \/ DeleteSucceeds(c) \/ DeleteFails(c) \/ LoadEnds(c)

UserServes == \E c \in userCalls :
    \/ ListRows(c) \/ CreateRow(c) \/ UpdateFinds(c) \/ UpdateWrites(c) \/ DeleteRow(c) \/ CallFails(c)

UserActs ==
    \/ TokenRenewed \/ OpenCreate \/ CloseModal \/ Submit \/ CancelDelete \/ ConfirmDelete
    \/ \E u \in Users : OpenDetails(u) \/ OpenEdit(u) \/ AskDelete(u)
    \/ \E p \in Passwords \cup {Empty} : TypePassword(p)

UserNext ==
    \/ UserActs \/ UserAnswers \/ UserServes
    \/ \E u \in Users, p \in Passwords : PatchesPassword(u, p)

UserSpec == UserInit /\ [][UserNext]_userVars

-----------------------------------------------------------------------------
UserTypeOK ==
    /\ accounts \in [Users -> Row \cup {NoUser}]
    /\ issued \subseteq Users
    /\ usersPage \in [loading : BOOLEAN, users : SUBSET Users, modal : Modal,
                      typed : Passwords \cup {Empty}, saving : BOOLEAN,
                      target : Users \cup {NoUser}, deleting : BOOLEAN]
    /\ userCalls \subseteq Call

(* A deleted account does not come back: an update that read the row before *)
(* the delete, and writes after it, must not put it back.                   *)
DeletedAccountStaysDeleted ==
    [][\A u \in issued : accounts[u] = NoUser => accounts'[u] = NoUser]_userVars
=============================================================================
