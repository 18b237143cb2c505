---------------------------- MODULE ConnectPage ----------------------------
(***************************************************************************)
(* The page that connects a workspace to WhatsApp, in one tab of the       *)
(* browser, with the room of the workspace on the server and the pairing   *)
(* window it asks for.                                                     *)
(*                                                                         *)
(* The page joins the room as soon as it is mounted and the socket has     *)
(* made its handshake, asks for a code the first time it does, and hears   *)
(* of codes and connections through the room.  The join and the leave of   *)
(* a socket each read the database before they take effect, so they may    *)
(* overtake one another; the answer to the request comes by HTTP, in no    *)
(* order with what the room hears.                                         *)
(***************************************************************************)
EXTENDS PairingWindow, Sequences, FiniteSets

CONSTANTS Posts,        \* requests for a code in flight at once (a bound)
          Rows,         \* WhatsApp sessions of the workspace
          SuperAdmin,   \* whether the user is one: others may not delete sessions
          MaxVisits,    \* times the client is mounted (a bound)
          MaxClicks     \* times its button is clicked (a bound)

VARIABLES link,         \* the tab's socket, with what is in flight on it
          screen,       \* the route and the useState cells of the page
          posts,        \* the requests for a code
          rows,         \* the stored sessions of the workspace
          tally         \* how often the client was mounted, and its button clicked

connectVars == <<window, offered, requests, link, screen, posts, rows, tally>>

MaxJoins == 1           \* joins in flight at once, and leaves
MaxWire  == 1           \* events in flight to the tab

Down == [ready |-> FALSE, room |-> FALSE, joins |-> 0, leaves |-> 0, wire |-> <<>>]

Away == [at |-> "away", phase |-> "idle", qr |-> FALSE, asked |-> FALSE, posts |-> {},
         lists |-> 0, pending |-> FALSE, deleting |-> FALSE]

ConnectInit ==
    /\ WindowInit
    /\ link = Down /\ screen = Away /\ rows = {}
    /\ posts = [p \in Posts |-> "none"]
    /\ tally = [visits |-> 0, clicks |-> 0]

Listens == screen.at = "shown" /\ link.ready

-----------------------------------------------------------------------------
(* The room.  Every step of the page is one rendering with its effects.    *)

Joined(l) == [l EXCEPT !.joins = @ + 1]
Left(l)   == [l EXCEPT !.leaves = @ + 1]

\* The events of the server, for a socket that is in the room.
Broadcast(event) ==
    link' = IF link.room THEN [link EXCEPT !.wire = Append(@, event)] ELSE link

Request(p, s) ==
    /\ posts[p] = "none"
    /\ posts' = [posts EXCEPT ![p] = "sent"]
    /\ screen' = [s EXCEPT !.phase = "requesting", !.qr = FALSE, !.asked = TRUE,
                           !.posts = @ \cup {p}]

\* onOpen, after the join was sent: the first one of a mounted page asks for a code.
SocketOpen(s, visit) ==
    IF s.asked
      THEN /\ screen' = s
           /\ tally' = [tally EXCEPT !.visits = @ + visit]
           /\ UNCHANGED posts
      ELSE \E p \in Posts :
              /\ Request(p, s)
              /\ tally' = [tally EXCEPT !.visits = @ + visit]

\* The handshake of a new socket.
Handshake ==
    /\ ~link.ready
    /\ IF screen.at = "shown"
         THEN link' = Joined([Down EXCEPT !.ready = TRUE]) /\ SocketOpen(screen, 0)
         ELSE link' = [Down EXCEPT !.ready = TRUE] /\ UNCHANGED <<screen, posts, tally>>
    /\ UNCHANGED <<windowVars, rows>>

LinkLost ==
    /\ link.ready
    /\ link' = Down
    /\ UNCHANGED <<windowVars, screen, posts, rows, tally>>

\* The server asks for the handshake again: the page leaves the room and joins it.
HandshakeAgain ==
    /\ Listens
    /\ link.joins < MaxJoins /\ link.leaves = 0
    /\ link' = Joined(Left(link))
    /\ SocketOpen(screen, 0)
    /\ UNCHANGED <<windowVars, rows>>

\* handleWorkspaceJoin after its read: the socket is in, and hears the code on offer.
JoinEnds ==
    /\ link.joins > 0
    /\ link' = [link EXCEPT !.joins = @ - 1, !.room = TRUE,
                            !.wire = IF offered THEN Append(@, "code") ELSE @]
    /\ Len(link'.wire) <= MaxWire
    /\ UNCHANGED <<windowVars, screen, posts, rows, tally>>

LeaveEnds ==
    /\ link.leaves > 0
    /\ link' = [link EXCEPT !.leaves = @ - 1, !.room = FALSE]
    /\ UNCHANGED <<windowVars, screen, posts, rows, tally>>

\* The workspace could not be read: the handler throws, or refuses.
RoomCallFails ==
    /\ \/ link.joins > 0 /\ link' = [link EXCEPT !.joins = @ - 1]
       \/ link.leaves > 0 /\ link' = [link EXCEPT !.leaves = @ - 1]
    /\ UNCHANGED <<windowVars, screen, posts, rows, tally>>

-----------------------------------------------------------------------------
(* The page. *)

Load ==
    /\ screen.at = "away"
    /\ screen' = [Away EXCEPT !.at = "loading"]
    /\ UNCHANGED <<windowVars, link, posts, rows, tally>>

\* With another access token the page loads its workspace again, which takes the
\* client off the screen: the one mounted after it has not asked yet and asks again,
\* while the request of the first may be in flight. The socket is closed for a new one.
TokenRenewed ==
    /\ screen.at # "away"
    /\ screen' = [Away EXCEPT !.at = "loading"]
    /\ link' = Down
    /\ UNCHANGED <<windowVars, posts, rows, tally>>

\* The workspace is not there, the call failed, or the user does not own it.
LoadRefused ==
    /\ screen.at = "loading"
    /\ screen' = [Away EXCEPT !.at = "refused"]
    /\ UNCHANGED <<windowVars, link, posts, rows, tally>>

\* WorkspaceConnectionClient is mounted: it loads the sessions and joins the room.
Mounts ==
    LET fresh == [Away EXCEPT !.at = "shown", !.lists = 1] IN
    /\ screen.at = "loading"
    /\ tally.visits < MaxVisits
    /\ IF link.ready
         THEN link.joins < MaxJoins /\ link' = Joined(link) /\ SocketOpen(fresh, 1)
         ELSE /\ screen' = fresh
              /\ tally' = [tally EXCEPT !.visits = @ + 1]
              /\ UNCHANGED <<link, posts>>
    /\ UNCHANGED <<windowVars, rows>>

GoAway ==
    /\ screen.at # "away"
    /\ IF Listens THEN link.leaves = 0 /\ link' = Left(link) ELSE UNCHANGED link
    /\ screen' = Away
    /\ UNCHANGED <<windowVars, posts, rows, tally>>

\* The button is enabled after a failure and after a success only.
Click(p) ==
    /\ screen.at = "shown" /\ screen.phase \in {"error", "success"}
    /\ tally.clicks < MaxClicks
    /\ Request(p, screen)
    /\ tally' = [tally EXCEPT !.clicks = @ + 1]
    /\ UNCHANGED <<windowVars, link, rows>>

\* Mutant of Answered: a refusal is told, and the phase is left as it was.
AnsweredInWords(p, phase) ==
    IF p \in screen.posts
      THEN [screen EXCEPT !.phase = IF phase = "error" THEN @ ELSE phase, !.posts = @ \ {p}]
      ELSE screen

\* The phase after the answer to p, whatever the room was told in the meantime.
Answered(p, phase) ==
    IF p \in screen.posts THEN [screen EXCEPT !.phase = phase, !.posts = @ \ {p}] ELSE screen

\* requestNewQrCode takes the request (QrPairing says what it does).
PostTaken(p) ==
    /\ posts[p] = "sent"
    /\ Asks
    /\ posts' = [posts EXCEPT ![p] = "taken"]
    /\ UNCHANGED <<link, screen, rows, tally>>

PostSucceeds(p) ==
    /\ posts[p] = "taken"
    /\ posts' = [posts EXCEPT ![p] = "none"]
    /\ screen' = Answered(p, "awaiting_qr")
    /\ UNCHANGED <<windowVars, link, rows, tally>>

\* A guard refuses it, or the network loses the request or its answer.
PostFails(p) ==
    /\ posts[p] # "none"
    /\ posts' = [posts EXCEPT ![p] = "none"]
    /\ screen' = Answered(p, "error")
    /\ UNCHANGED <<windowVars, link, rows, tally>>

\* The next event of the room; a page that is not there has no listener for it.
Hears ==
    /\ link.wire # <<>>
    /\ link' = [link EXCEPT !.wire = Tail(@)]
    /\ screen' =
         IF ~Listens THEN screen
         ELSE IF Head(link.wire) = "code"
           THEN [screen EXCEPT !.qr = TRUE, !.phase = "qr_ready"]
           ELSE [screen EXCEPT !.qr = FALSE, !.phase = "success", !.lists = 1]
    /\ UNCHANGED <<windowVars, posts, rows, tally>>

-----------------------------------------------------------------------------
(* The list of sessions.  Which rows it shows is left out: the one that is *)
(* deleted may be any, there still or not.                                 *)

Refreshes ==
    /\ screen.at = "shown" /\ screen.lists = 0
    /\ screen' = [screen EXCEPT !.lists = 1]
    /\ UNCHANGED <<windowVars, link, posts, rows, tally>>

ListEnds ==
    /\ screen.lists > 0
    /\ screen' = [screen EXCEPT !.lists = 0]
    /\ UNCHANGED <<windowVars, link, posts, rows, tally>>

AskDelete ==
    /\ screen.at = "shown" /\ screen.lists = 0
    /\ ~screen.pending
    /\ screen' = [screen EXCEPT !.pending = TRUE]
    /\ UNCHANGED <<windowVars, link, posts, rows, tally>>

CancelDelete ==
    /\ screen.pending /\ ~screen.deleting
    /\ screen' = [screen EXCEPT !.pending = FALSE]
    /\ UNCHANGED <<windowVars, link, posts, rows, tally>>

ConfirmDelete ==
    /\ screen.pending /\ ~screen.deleting
    /\ screen' = [screen EXCEPT !.deleting = TRUE]
    /\ UNCHANGED <<windowVars, link, posts, rows, tally>>

\* The server lets super administrators delete sessions, and nobody else.
DeleteEnds ==
    /\ screen.deleting
    /\ \/ /\ SuperAdmin
          /\ \E r \in Rows : rows' = rows \ {r}
          /\ screen' = [screen EXCEPT !.deleting = FALSE, !.pending = FALSE, !.lists = 1]
       \/ /\ screen' = [screen EXCEPT !.deleting = FALSE]
          /\ UNCHANGED rows
    /\ UNCHANGED <<windowVars, link, posts, tally>>

-----------------------------------------------------------------------------
(* The server's side: PairingWindow, and what it tells the room. *)

OffersToRoom ==
    /\ Offers
    /\ Broadcast("code")
    /\ Len(link'.wire) <= MaxWire
    /\ UNCHANGED <<screen, posts, rows, tally>>

\* The window ends with a new session, and the room is told of it.
Connects ==
    /\ Ends
    /\ \E r \in Rows \ rows : rows' = rows \cup {r}
    /\ Broadcast("connected")
    /\ Len(link'.wire) <= MaxWire
    /\ UNCHANGED <<screen, posts, tally>>

\* A stored session is connected, reconnected or given other credentials: its codes
\* reach the room, and the cache for those who join it, as those of a pairing do.
OffersForStored ==
    /\ rows # {}
    /\ Broadcast("code")
    /\ Len(link'.wire) <= MaxWire
    /\ offered' = TRUE
    /\ UNCHANGED <<window, requests, screen, posts, rows, tally>>

\* A stored session of the workspace opens again: the room is told the same.
Reconnects ==
    /\ rows # {}
    /\ Broadcast("connected")
    /\ Len(link'.wire) <= MaxWire
    /\ offered' = FALSE
    /\ UNCHANGED <<window, requests, screen, posts, rows, tally>>

WindowMoves ==
    /\ Opens \/ Lapses \/ Ends
    /\ UNCHANGED <<link, screen, posts, rows, tally>>

ConnectNext ==
    \/ Handshake \/ LinkLost \/ HandshakeAgain \/ JoinEnds \/ LeaveEnds \/ RoomCallFails
    \/ Load \/ TokenRenewed \/ LoadRefused \/ Mounts \/ GoAway
    \/ \E p \in Posts : Click(p) \/ PostTaken(p) \/ PostSucceeds(p) \/ PostFails(p)
    \/ Hears
    \/ Refreshes \/ ListEnds \/ AskDelete \/ CancelDelete
    \/ ConfirmDelete \/ DeleteEnds
    \/ OffersToRoom \/ OffersForStored \/ Connects \/ Reconnects \/ WindowMoves

ConnectSpec == ConnectInit /\ [][ConnectNext]_connectVars

-----------------------------------------------------------------------------
\* workspace-connection-client.tsx: a page that says it is asking for a code, and keeps its
\* button disabled for it, has a request of its own in flight whose answer will end that,
\* whichever of its requests are answered, lost, overtaken by the room or left from before
\* it was mounted.
RequestingIsAwaited ==
    screen.phase = "requesting" => \E p \in screen.posts : posts[p] # "none"
=============================================================================
