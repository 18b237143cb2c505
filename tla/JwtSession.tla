----------------------------- MODULE JwtSession -----------------------------
(***************************************************************************)
(* The token sessions of one user: JwtService over Redis, as AuthService   *)
(* drives it on login, refresh and logout.                                 *)
(*                                                                         *)
(* A pair is an access token and the refresh token issued with it.  Redis  *)
(* holds one online session of the user, a refresh session per refresh     *)
(* token and a blacklist of access tokens.  Every Redis command is one     *)
(* step; between two of them any other flow may run.  All commands share   *)
(* one connection and are answered in order, so what a flow does with an   *)
(* answer is part of the step that reads it.                               *)
(*                                                                         *)
(* Users share nothing but the hourly cleanup, which looks at each key by  *)
(* itself, so one user is enough.  Requests that are refused without a     *)
(* command that writes are left out.                                       *)
(***************************************************************************)
EXTENDS Naturals, FiniteSets

CONSTANTS
    Pairs,          \* token pairs that may be issued
    Tasks,          \* slots for suspended refresh and logout requests
    AccessTtl,      \* ACCESS_TOKEN_TTL_SECONDS, in ticks
    SessionMax,     \* SESSION_MAX_AGE_MILLISECONDS, in ticks
    MaxTime,        \* bound on the clock
    NoPair

ASSUME JwtConstantsOK ==
    /\ AccessTtl \in Nat \ {0} /\ SessionMax \in Nat /\ MaxTime \in Nat
    /\ AccessTtl <= SessionMax
    /\ NoPair \notin Pairs

VARIABLES
    now,        \* Date.now()
    token,      \* the pairs issued so far
    online,     \* online-session:<user>: the pair it names
    refresh,    \* refresh-session:<refresh token> of these pairs exist
    black,      \* black-list:<access token> of these pairs exist
    flow,       \* suspended requests
    sweeping    \* the cleanup has seen an expired online session

redis == <<online, refresh, black>>
jwtVars == <<now, token, redis, flow, sweeping>>

(* exp: when the access token expires; start: its sessionStart claim;      *)
(* login (not in the code): the pair the login of this session issued.     *)
Unissued == [exp |-> 0, start |-> 0, login |-> NoPair]

(* pair: the token presented; new: the pair a refresh has signed and will  *)
(* store; seen: the pair the online session named when it was read.        *)
Idle == [pc |-> "idle", kind |-> "none", pair |-> NoPair, new |-> NoPair, seen |-> NoPair]

Issued == {p \in Pairs : token[p] # Unissued}

(* A client has a pair once the request that issued it has stored it.      *)
Known == Issued \ {flow[t].new : t \in Tasks}

(* expiresAt of the entries of p, and what is left of SESSION_MAX_AGE.     *)
Limit(p) == token[p].start + SessionMax

(* What validateToken accepts.                                             *)
Verified(p) == p \notin black /\ now < token[p].exp
IsOnline(p) == online = p /\ now < Limit(p)
Accepted(p) == Verified(p) /\ IsOnline(p)

JwtTypeOK ==
    /\ now \in 0..MaxTime
    /\ token \in [Pairs -> [exp : Nat, start : 0..MaxTime, login : Pairs \cup {NoPair}]]
    /\ online \in Issued \cup {NoPair}
    /\ refresh \subseteq Issued
    /\ black \subseteq Issued
    /\ flow \in [Tasks -> [pc : {"idle", "refreshBlack", "refreshOnline", "logoutOnline", "blacklist",
                                 "readOnline", "delOnline", "delRefresh", "store"},
                           kind : {"none", "refresh", "logout"},
                           pair : Issued \cup {NoPair}, new : Issued \cup {NoPair},
                           seen : Issued \cup {NoPair}]]
    /\ sweeping \in BOOLEAN

JwtInit ==
    /\ now = 0
    /\ token = [p \in Pairs |-> Unissued]
    /\ online = NoPair /\ refresh = {} /\ black = {}
    /\ flow = [t \in Tasks |-> Idle]
    /\ sweeping = FALSE

At(t, pc) == flow[t].pc = pc
Goto(t, pc) == flow' = [flow EXCEPT ![t].pc = pc]
Finish(t) == flow' = [flow EXCEPT ![t] = Idle]

-----------------------------------------------------------------------------
(* A login: both entries are sent to Redis in one tick.                    *)
Login(p) ==
    /\ p \notin Issued
    /\ token' = [token EXCEPT ![p] = [exp |-> now + AccessTtl, start |-> now, login |-> p]]
    /\ online' = p
    /\ refresh' = refresh \cup {p}
    /\ UNCHANGED <<now, black, flow, sweeping>>

-----------------------------------------------------------------------------
(* refreshToken, one action per command.                                   *)

RefreshReads(t, p) ==
    /\ At(t, "idle")
    /\ p \in refresh
    /\ now < Limit(p)
    /\ flow' = [flow EXCEPT ![t] = [Idle EXCEPT !.pc = "refreshBlack", !.kind = "refresh", !.pair = p]]
    /\ UNCHANGED <<now, token, redis, sweeping>>

RefreshReadsBlacklist(t) ==
    /\ At(t, "refreshBlack")
    /\ IF flow[t].pair \in black THEN Finish(t) ELSE Goto(t, "refreshOnline")
    /\ UNCHANGED <<now, token, redis, sweeping>>

(* Mutant of Renewed: the new pair starts a new hour.                      *)
RenewedFromNow(p) == [exp |-> now + AccessTtl, start |-> now, login |-> token[p].login]

(* The claims of the pair that replaces p.                                 *)
Renewed(p) ==
    [exp |-> IF now + AccessTtl < Limit(p) THEN now + AccessTtl ELSE Limit(p),
     start |-> token[p].start, login |-> token[p].login]

(* A pair of another session is refused; a session past its limit is       *)
(* revoked; otherwise the new pair is signed and the old one revoked.      *)
RefreshReadsOnline(t) ==
    LET p == flow[t].pair IN
    /\ At(t, "refreshOnline")
    /\ \/ online # p /\ Finish(t) /\ UNCHANGED token
       \/ online = p /\ now >= Limit(p) /\ Goto(t, "blacklist") /\ UNCHANGED token
       \/ /\ online = p /\ now < Limit(p)
          /\ \E n \in Pairs \ Issued :
                /\ token' = [token EXCEPT ![n] = Renewed(p)]
                /\ flow' = [flow EXCEPT ![t].pc = "blacklist", ![t].new = n]
    /\ UNCHANGED <<now, redis, sweeping>>

RefreshStores(t) ==
    /\ At(t, "store")
    /\ online' = flow[t].new
    /\ refresh' = refresh \cup {flow[t].new}
    /\ Finish(t)
    /\ UNCHANGED <<now, token, black, sweeping>>

-----------------------------------------------------------------------------
(* invalidToken.                                                           *)

(* Mutant of Revoked: a session past its limit is stored again.            *)
RevokedStores(t) == Goto(t, "store")

(* The caller of invalidToken goes on.                                     *)
Revoked(t) == IF flow[t].new = NoPair THEN Finish(t) ELSE Goto(t, "store")

Blacklists(t) ==
    /\ At(t, "blacklist")
    /\ black' = black \cup {flow[t].pair}
    /\ Goto(t, "readOnline")
    /\ UNCHANGED <<now, token, online, refresh, sweeping>>

(* Mutant of RevokeReadsOnline: only a session of another token is ended.  *)
RevokeReadsOtherOnline(t) ==
    /\ At(t, "readOnline")
    /\ IF online \in {NoPair, flow[t].pair}
         THEN Revoked(t)
         ELSE flow' = [flow EXCEPT ![t].pc = "delOnline", ![t].seen = online]
    /\ UNCHANGED <<now, token, redis, sweeping>>

(* Whatever session the user has online is ended, the token's or not.      *)
RevokeReadsOnline(t) ==
    /\ At(t, "readOnline")
    /\ IF online = NoPair
         THEN Revoked(t)
         ELSE flow' = [flow EXCEPT ![t].pc = "delOnline", ![t].seen = online]
    /\ UNCHANGED <<now, token, redis, sweeping>>

(* Mutant of DeletesOnline: the refresh session is deleted first.          *)
DeletesRefreshFirst(t) ==
    /\ At(t, "delOnline")
    /\ refresh' = refresh \ {flow[t].seen}
    /\ Goto(t, "delRefresh")
    /\ UNCHANGED <<now, token, online, black, sweeping>>

(* DEL names the user's key: a session stored since it was read goes too.  *)
DeletesOnline(t) ==
    /\ At(t, "delOnline")
    /\ online' = NoPair
    /\ Goto(t, "delRefresh")
    /\ UNCHANGED <<now, token, refresh, black, sweeping>>

DeletesRefresh(t) ==
    /\ At(t, "delRefresh")
    /\ refresh' = refresh \ {flow[t].seen}
    /\ Revoked(t)
    /\ UNCHANGED <<now, token, online, black, sweeping>>

-----------------------------------------------------------------------------
(* logout: validateToken, whose failure is ignored, then invalidToken.     *)

LogoutReadsBlacklist(t, p) ==
    /\ At(t, "idle")
    /\ p \in Known
    /\ flow' = [flow EXCEPT ![t] = [Idle EXCEPT !.kind = "logout", !.pair = p,
                                       !.pc = IF Verified(p) THEN "logoutOnline" ELSE "blacklist"]]
    /\ UNCHANGED <<now, token, redis, sweeping>>

(* valid: the sockets of the user are disconnected (SocketHandshake).      *)
LogoutReadsOnline(t, valid) ==
    /\ At(t, "logoutOnline")
    /\ valid = IsOnline(flow[t].pair)
    /\ Goto(t, "blacklist")
    /\ UNCHANGED <<now, token, redis, sweeping>>

-----------------------------------------------------------------------------
(* Time, Redis's own expiry, and the hourly JwtCleanupService.             *)

Tick ==
    /\ now < MaxTime
    /\ now' = now + 1
    /\ UNCHANGED <<token, redis, flow, sweeping>>

(* psetex: an entry disappears when its TTL has run out, at the earliest.  *)
(* On a refresh session or blacklist entry the cleanup does the same.      *)
Expires(p) ==
    /\ \/ online = p /\ now >= Limit(p) /\ online' = NoPair /\ UNCHANGED <<refresh, black>>
       \/ p \in refresh /\ now >= Limit(p) /\ refresh' = refresh \ {p} /\ UNCHANGED <<online, black>>
       \/ p \in black /\ now >= token[p].exp /\ black' = black \ {p} /\ UNCHANGED <<online, refresh>>
    /\ UNCHANGED <<now, token, flow, sweeping>>

CleanupReads ==
    /\ online # NoPair
    /\ now >= Limit(online)
    /\ sweeping' = TRUE
    /\ UNCHANGED <<now, token, redis, flow>>

CleanupDeletes ==
    /\ sweeping
    /\ sweeping' = FALSE
    /\ online' = NoPair
    /\ UNCHANGED <<now, token, refresh, black, flow>>

(* Everything but the step of logout that disconnects sockets.             *)
TokenStep ==
    \/ \E p \in Pairs : Login(p) \/ Expires(p)
    \/ \E t \in Tasks :
          \/ RefreshReadsBlacklist(t) \/ RefreshReadsOnline(t) \/ RefreshStores(t)
          \/ Blacklists(t) \/ RevokeReadsOnline(t) \/ DeletesOnline(t) \/ DeletesRefresh(t)
          \/ LogoutReadsOnline(t, FALSE)
          \/ \E p \in Pairs : RefreshReads(t, p) \/ LogoutReadsBlacklist(t, p)
    \/ Tick \/ CleanupReads \/ CleanupDeletes

JwtNext == TokenStep \/ \E t \in Tasks : LogoutReadsOnline(t, TRUE)

JwtSpec == JwtInit /\ [][JwtNext]_jwtVars

-----------------------------------------------------------------------------
(* A user who is online can stay so: the session's refresh token works.    *)
(* Deletes and stores of overlapping requests never leave half a session.  *)
OnlineIsRefreshable == online # NoPair /\ now < Limit(online) => online \in refresh

(* However often it is refreshed, a session ends an hour after its login.  *)
SessionEndsAtLimit ==
    \A p \in Issued : Accepted(p) => now < token[token[p].login].start + SessionMax

(* A revoked session does not stay online: if the token it names is        *)
(* blacklisted, the request that did it has still to delete the session.   *)
BlacklistedSessionIsEnding ==
    online \in black =>
        \E t \in Tasks : flow[t].pair = online /\ flow[t].pc \in {"readOnline", "delOnline"}
=============================================================================
