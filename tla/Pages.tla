-------------------------------- MODULE Pages --------------------------------
(***************************************************************************)
(* The pages of a signed-in user and the services behind them.  A tab has  *)
(* one of them on the screen at a time and they share no collection, so    *)
(* every behaviour of the tab is made of behaviours of its pages: `page`   *)
(* is chosen in the initial state and its modules take all the steps.      *)
(*                                                                         *)
(* The components share their model values: `Slots` names the calls, the   *)
(* clicks and the tasks, `Places` the workspaces and the conversations.    *)
(***************************************************************************)
EXTENDS Naturals, FiniteSets

CONSTANTS Slots,                  \* calls, clicks and tasks in flight at once (a bound)
          Places, Notes, Sessions, Phones, BarePhones, Passwords, UserIds,
          Admins, SuperAdmins,    \* who asks the workspace service
          SuperAdmin,             \* whether the user of the page that connects is one
          ListedCompanies, OwnCompanies,    \* what the workspace pages list, and their user owns
          PageSize, MaxTotal,
          MaxCalls, MaxCompanies, MaxContacts, MaxRequests, MaxVisits, MaxClicks, Pieces,
          None                    \* what is absent, empty or nobody

ASSUME PagesConstantsOK == None \notin Admins \cup SuperAdmins

VARIABLES page,
          accounts, issued, usersPage, userCalls,
          companies, created, findCache, requests,
          calls, view,
          contacts, given, contactsPage, contactCalls,
          window, offered, asked, link, screen, posts, rows, tally,
          notebook, desk, deskCalls,
          recordings, recorder, uploads

Accounts == INSTANCE UserAccounts WITH Users <- UserIds, Empty <- None, NoUser <- None

Service == INSTANCE WorkspaceService WITH Tasks <- Slots, Nobody <- None

Forms == INSTANCE WorkspacePages WITH
    Tasks <- Slots, Companies <- ListedCompanies, Mine <- OwnCompanies

ContactBook == INSTANCE Contacts WITH Workspaces <- Places, All <- None, Absent <- None

Connect == INSTANCE ConnectPage WITH requests <- asked, Posts <- Slots, Rows <- Sessions

Desk == INSTANCE ChatDesk WITH DeskCalls <- Slots, Chats <- Places, NoChat <- None, NoNote <- None

Voice == INSTANCE AudioRecorder WITH
    Recordings <- Slots, Dialogs <- Places, NoDialog <- None, NoRecording <- None

Init ==
    /\ page \in {"users", "service", "workspaces", "contacts", "connect", "desk", "voice"}
    /\ Accounts!UserInit /\ Service!ServiceInit /\ Forms!PagesInit /\ ContactBook!ContactInit
    /\ Connect!ConnectInit /\ Desk!DeskInit /\ Voice!AudioInit

\* What the other pages leave alone.
usersIdle   == UNCHANGED <<accounts, issued, usersPage, userCalls>>
serviceIdle == UNCHANGED <<companies, created, findCache, requests>>
formsIdle   == UNCHANGED <<calls, view>>
bookIdle    == UNCHANGED <<contacts, given, contactsPage, contactCalls>>
connectIdle == UNCHANGED <<window, offered, asked, link, screen, posts, rows, tally>>
deskIdle    == UNCHANGED <<notebook, desk, deskCalls>>
voiceIdle   == UNCHANGED <<recordings, recorder, uploads>>

OnUsers      == page = "users" /\ Accounts!UserNext /\ UNCHANGED page
                /\ serviceIdle /\ formsIdle /\ bookIdle /\ connectIdle /\ deskIdle /\ voiceIdle
OnService    == page = "service" /\ Service!ServiceNext /\ UNCHANGED page
                /\ usersIdle /\ formsIdle /\ bookIdle /\ connectIdle /\ deskIdle /\ voiceIdle
OnWorkspaces == page = "workspaces" /\ Forms!PagesNext /\ UNCHANGED page
                /\ usersIdle /\ serviceIdle /\ bookIdle /\ connectIdle /\ deskIdle /\ voiceIdle
OnContacts   == page = "contacts" /\ ContactBook!ContactNext /\ UNCHANGED page
                /\ usersIdle /\ serviceIdle /\ formsIdle /\ connectIdle /\ deskIdle /\ voiceIdle
OnConnect    == page = "connect" /\ Connect!ConnectNext /\ UNCHANGED page
                /\ usersIdle /\ serviceIdle /\ formsIdle /\ bookIdle /\ deskIdle /\ voiceIdle
OnDesk       == page = "desk" /\ Desk!DeskNext /\ UNCHANGED page
                /\ usersIdle /\ serviceIdle /\ formsIdle /\ bookIdle /\ connectIdle /\ voiceIdle
OnVoice      == page = "voice" /\ Voice!AudioNext /\ UNCHANGED page
                /\ usersIdle /\ serviceIdle /\ formsIdle /\ bookIdle /\ connectIdle /\ deskIdle

Next == OnUsers \/ OnService \/ OnWorkspaces \/ OnContacts \/ OnConnect \/ OnDesk \/ OnVoice

vars == <<page, accounts, issued, usersPage, userCalls,
          companies, created, findCache, requests,
          calls, view,
          contacts, given, contactsPage, contactCalls,
          window, offered, asked, link, screen, posts, rows, tally,
          notebook, desk, deskCalls,
          recordings, recorder, uploads>>

Spec == Init /\ [][Next]_vars

-----------------------------------------------------------------------------
\* The properties are stated, with the code they are about, in the pages' own modules.
DeletedAccountStaysDeleted == Accounts!DeletedAccountStaysDeleted
BusyIsAwaited              == Forms!BusyIsAwaited
ListsStayPrivate           == Service!ListsStayPrivate
FormIsOfContact            == ContactBook!FormIsOfContact
SpinnersAreAwaited         == ContactBook!SpinnersAreAwaited
RequestingIsAwaited        == Connect!RequestingIsAwaited
NotesAreNotLost            == Desk!NotesAreNotLost
NotesStayInTheirChat       == Desk!NotesStayInTheirChat
InputIsAwaited             == Voice!InputIsAwaited
=============================================================================
