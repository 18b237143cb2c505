--------------------------- MODULE SocketHandshake ---------------------------
(***************************************************************************)
(* The session:authenticate handshake of SocketGateway, the count of       *)
(* authenticated sockets that SocketHandshakeGuard asks, and the sockets a *)
(* logout disconnects, over the token sessions of JwtSession.              *)
(*                                                                         *)
(* A handshake is suspended twice inside validateToken.  Joining the room  *)
(* is synchronous with the in-memory adapter, so what follows the second   *)
(* answer is one step.  A socket may close while a handshake of its is     *)
(* suspended; the handler goes on with the closed socket.                  *)
(***************************************************************************)
EXTENDS JwtSession

CONSTANTS
    Conns,          \* slots for sockets
    Hands,          \* slots for suspended session:authenticate handlers
    MaxPresence,    \* bound on the count
    NoConn

(* A server has as many sockets as its memory holds.                       *)
ASSUME HandshakeConstantsOK == MaxPresence \in Nat /\ NoConn \notin Conns /\ IsFiniteSet(Conns)

VARIABLES
    conn,       \* the sockets
    hand,       \* suspended handlers
    presence    \* userIdToCount of the user

sockVars == <<conn, hand, presence>>
vars == <<jwtVars, sockVars>>

(* by: the token its last completed handshake presented (client.data       *)
(* .userId is set from then on).                                           *)
FreeConn == [state |-> "free", by |-> NoPair]
NoHand == [conn |-> NoConn, pair |-> NoPair]

TypeOK ==
    /\ JwtTypeOK
    /\ conn \in [Conns -> [state : {"free", "open", "closed"}, by : Issued \cup {NoPair}]]
    /\ hand \in [Hands -> [conn : Conns \cup {NoConn}, pair : Issued \cup {NoPair}]]
    /\ presence \in 0..MaxPresence

Init ==
    /\ JwtInit
    /\ conn = [c \in Conns |-> FreeConn]
    /\ hand = [h \in Hands |-> NoHand]
    /\ presence = 0

Active(c) == conn[c].state = "open" /\ conn[c].by # NoPair

-----------------------------------------------------------------------------
(* The socket c closed, given the handlers H that go on.                   *)
Closed(c, H) ==
    IF \E h \in Hands : H[h].conn = c THEN [conn[c] EXCEPT !.state = "closed"] ELSE FreeConn

(* removeAuthenticatedSocket, n times.                                     *)
Without(n) == IF n < presence THEN presence - n ELSE 0

(* Mutant of Dropped: every socket that closes is subtracted.              *)
DroppedUnasked(C) == Without(Cardinality(C))

(* handleDisconnect of the sockets C: those with a user id are subtracted. *)
Dropped(C) == Without(Cardinality({c \in C : conn[c].by # NoPair}))

Connects(c) ==
    /\ conn[c] = FreeConn
    /\ conn' = [conn EXCEPT ![c].state = "open"]
    /\ UNCHANGED <<jwtVars, hand, presence>>

Disconnects(c) ==
    /\ conn[c].state = "open"
    /\ conn' = [conn EXCEPT ![c] = Closed(c, hand)]
    /\ presence' = Dropped({c})
    /\ UNCHANGED <<jwtVars, hand>>

(* session:authenticate, also on a socket that is authenticated already:   *)
(* the blacklist is read and the token verified.  A rejected socket is     *)
(* disconnected.                                                           *)
Authenticates(h, c, p) ==
    /\ conn[c].state = "open"
    /\ hand[h] = NoHand
    /\ p \in Known
    /\ IF Verified(p)
         THEN /\ hand' = [hand EXCEPT ![h] = [conn |-> c, pair |-> p]]
              /\ UNCHANGED <<conn, presence>>
         ELSE /\ conn' = [conn EXCEPT ![c] = Closed(c, hand)]
              /\ presence' = Dropped({c})
              /\ UNCHANGED hand
    /\ UNCHANGED jwtVars

(* The online session is read: the socket gets its user and is counted, or *)
(* is disconnected - in both cases whether or not it is still open.        *)
Completes(h) ==
    LET c == hand[h].conn
        p == hand[h].pair
        left == [hand EXCEPT ![h] = NoHand]
    IN  /\ hand[h] # NoHand
        /\ hand' = left
        /\ IF IsOnline(p)
             THEN /\ presence < MaxPresence
                  /\ presence' = presence + 1
                  /\ conn' = [conn EXCEPT ![c] = IF @.state = "open" THEN [@ EXCEPT !.by = p]
                                                 ELSE Closed(c, left)]
             ELSE /\ presence' = IF conn[c].state = "open" THEN Dropped({c}) ELSE presence
                  /\ conn' = [conn EXCEPT ![c] = Closed(c, left)]
        /\ UNCHANGED jwtVars

(* A logout whose token is valid disconnects every socket in the room of   *)
(* the user, then goes on to revoke the token.                             *)
LogoutDisconnects(t) ==
    LET C == {c \in Conns : Active(c)} IN
    /\ LogoutReadsOnline(t, TRUE)
    /\ conn' = [c \in Conns |-> IF c \in C THEN Closed(c, hand) ELSE conn[c]]
    /\ presence' = Dropped(C)
    /\ UNCHANGED hand

Next ==
    \/ TokenStep /\ UNCHANGED sockVars
    \/ \E t \in Tasks : LogoutDisconnects(t)
    \/ \E c \in Conns : Connects(c) \/ Disconnects(c)
    \/ \E h \in Hands : Completes(h) \/ \E c \in Conns, p \in Pairs : Authenticates(h, c, p)

Spec == Init /\ [][Next]_vars

-----------------------------------------------------------------------------
(* SocketHandshakeGuard never turns away a user whose socket has completed *)
(* the handshake, whatever other sockets of the user did meanwhile.        *)
ActiveIsPresent == (\E c \in Conns : Active(c)) => presence > 0

-----------------------------------------------------------------------------
(* What the code and its documentation say and the code does not keep.     *)

(* spec-driven/socket-handshake.md: logging out closes the connection: no  *)
(* socket of the session is left when the request ends.                    *)
LogoutClosesSockets ==
    [][\A t \in Tasks :
          flow[t].kind = "logout" /\ flow'[t].kind = "none" =>
              \A c \in Conns : conn[c].state = "open" /\ conn[c].by # NoPair =>
                  token[conn[c].by].login # token[flow[t].pair].login]_vars
=============================================================================
