----------------------- MODULE SocketHandshakeProofs -----------------------
(***************************************************************************)
(* Theorems about JwtSession and SocketHandshake, for every value of their *)
(* constants.  A step of SocketHandshake is a step of JwtSession or leaves *)
(* the tokens alone, so what holds of the token sessions holds beneath the *)
(* sockets as well.                                                        *)
(*                                                                         *)
(* What keeps an online session whole is who may still name its pair: a    *)
(* pair that a refresh has signed and not stored is known to that refresh  *)
(* alone (UnstoredIsUnseen), and a revocation that has deleted the online  *)
(* session goes on to delete the refresh session of another pair than the  *)
(* one that is online by then (RevokesAnother).                            *)
(***************************************************************************)
EXTENDS SocketHandshake, FiniteSetTheorems, TLAPS

-----------------------------------------------------------------------------
(* The inductive invariant of the token sessions.                          *)

(* The pairs of one session share the start of their login.                *)
SessionShared ==
    \A p \in Issued :
        token[p].login \in Issued /\ token[token[p].login].start = token[p].start

\* A flow at work is about a pair, and has signed another one only to store it.
FlowShape ==
    \A t \in Tasks :
        /\ flow[t].pc # "idle" => flow[t].pair # NoPair
        /\ flow[t].pc \in {"idle", "refreshBlack", "refreshOnline"} => flow[t].new = NoPair
        /\ flow[t].pc = "store" => flow[t].new # NoPair

\* A pair that was signed and not stored yet is known to its refresh alone.
UnstoredIsUnseen ==
    \A t \in Tasks : flow[t].new # NoPair =>
        /\ flow[t].new \notin refresh \cup black \cup {online}
        /\ \A u \in Tasks :
              /\ flow[t].new \notin {flow[u].pair, flow[u].seen}
              /\ u # t => flow[u].new # flow[t].new

\* A revocation does not take what has gone online since it read.
RevokesAnother ==
    \A t \in Tasks : flow[t].pc = "delRefresh" => flow[t].seen = NoPair \/ flow[t].seen # online

\* The inductive invariant of JwtSession.
TokenInv ==
    /\ JwtTypeOK /\ SessionShared /\ FlowShape /\ UnstoredIsUnseen /\ RevokesAnother
    /\ OnlineIsRefreshable /\ BlacklistedSessionIsEnding

-----------------------------------------------------------------------------
LEMMA IssuedArePairs == Issued \subseteq Pairs /\ NoPair \notin Issued /\ NoPair \notin Pairs
  BY JwtConstantsOK DEF JwtConstantsOK, Issued

LEMMA InitToken == JwtInit => TokenInv
  <1> SUFFICES ASSUME JwtInit PROVE TokenInv
    OBVIOUS
  <1>1. Issued = {}
    BY DEF JwtInit, Issued
  <1>2. JwtTypeOK
    <2>1. 0 \in 0..MaxTime /\ 0 \in Nat
      BY JwtConstantsOK DEF JwtConstantsOK
    <2>2. token \in [Pairs -> [exp : Nat, start : 0..MaxTime, login : Pairs \cup {NoPair}]]
      BY <2>1 DEF JwtInit, Unissued
    <2> QED BY <1>1, <2>1, <2>2, Zenon DEF JwtInit, JwtTypeOK, Idle
  <1> QED BY <1>1, <1>2 DEF JwtInit, TokenInv, SessionShared, FlowShape, UnstoredIsUnseen,
              RevokesAnother, OnlineIsRefreshable, BlacklistedSessionIsEnding, Idle

LEMMA IssuedStays ==
    ASSUME UNCHANGED token
    PROVE  Issued' = Issued /\ \A p \in Pairs : Limit(p)' = Limit(p)
  BY DEF Issued, Limit

Flows == [pc : {"idle", "refreshBlack", "refreshOnline", "logoutOnline", "blacklist",
                "readOnline", "delOnline", "delRefresh", "store"},
          kind : {"none", "refresh", "logout"},
          pair : Issued \cup {NoPair}, new : Issued \cup {NoPair}, seen : Issued \cup {NoPair}]

LEMMA FlowIsFlows == JwtTypeOK => flow \in [Tasks -> Flows]
  BY DEF JwtTypeOK, Flows

(* Steps that only move a flow, which may forget what it knew, and learn   *)
(* a pair a client has or the one that is online.                          *)
LEMMA FlowMoves ==
    ASSUME TokenInv, NEW t \in Tasks, NEW f \in Flows,
           flow' = [flow EXCEPT ![t] = f], UNCHANGED <<now, token, redis, sweeping>>,
           f.pc # "idle" => f.pair # NoPair,
           f.pc \in {"idle", "refreshBlack", "refreshOnline"} => f.new = NoPair,
           f.pc = "store" => f.new # NoPair,
           f.pc # "delRefresh",
           f.new \in {NoPair, flow[t].new},
           f.pair \in Known \cup {NoPair, flow[t].pair},
           f.seen \in {NoPair, flow[t].seen, online},
           flow[t].pc \in {"readOnline", "delOnline"} /\ flow[t].pair = online /\ online # NoPair
               => f.pc = "delOnline" /\ f.pair = online
    PROVE  TokenInv'
  <1>1. Issued' = Issued /\ \A p \in Pairs : Limit(p)' = Limit(p)
    BY IssuedStays
  <1>2. /\ now' = now /\ token' = token /\ online' = online /\ refresh' = refresh
        /\ black' = black /\ sweeping' = sweeping
    BY DEF redis
  <1>3. flow \in [Tasks -> Flows]
    BY FlowIsFlows DEF TokenInv
  <1>4. \A u \in Tasks : flow'[u] = IF u = t THEN f ELSE flow[u]
    BY <1>3
  <1>5. JwtTypeOK'
    <2>1. flow' \in [Tasks -> Flows]
      BY <1>3
    <2> QED BY <1>1, <1>2, <2>1 DEF TokenInv, JwtTypeOK, Flows
  <1>6. SessionShared'
    BY <1>1, <1>2 DEF TokenInv, SessionShared
  <1>7. FlowShape'
    BY <1>4 DEF TokenInv, FlowShape
  <1>8. UnstoredIsUnseen'
    BY <1>2, <1>4 DEF TokenInv, UnstoredIsUnseen, Known
  <1>9. RevokesAnother'
    BY <1>2, <1>4 DEF TokenInv, RevokesAnother
  <1>10. OnlineIsRefreshable'
    BY <1>2 DEF TokenInv, OnlineIsRefreshable, Limit
  <1>11. BlacklistedSessionIsEnding'
    <2>1. SUFFICES ASSUME online \in black
                   PROVE  \E u \in Tasks : flow'[u].pair = online /\ flow'[u].pc \in {"readOnline", "delOnline"}
      BY <1>2 DEF BlacklistedSessionIsEnding
    <2>2. PICK u \in Tasks : flow[u].pair = online /\ flow[u].pc \in {"readOnline", "delOnline"}
      BY <2>1 DEF TokenInv, BlacklistedSessionIsEnding
    <2>3. online # NoPair
      BY <2>1, IssuedArePairs DEF TokenInv, JwtTypeOK
    <2> QED BY <1>4, <2>2, <2>3
  <1> QED BY <1>5, <1>6, <1>7, <1>8, <1>9, <1>10, <1>11 DEF TokenInv

-----------------------------------------------------------------------------
(* refreshToken and logout up to the revocation.                           *)

LEMMA FlowFacts ==
    ASSUME TokenInv, NEW t \in Tasks
    PROVE  /\ flow[t] \in Flows
           /\ flow[t].pc # "idle" => flow[t].pair \in Issued
           /\ flow[t].pc \in {"idle", "refreshBlack", "refreshOnline"} => flow[t].new = NoPair
           /\ flow[t].pc = "store" => flow[t].new # NoPair
  <1>1. flow[t] \in Flows
    BY FlowIsFlows DEF TokenInv
  <1> QED BY <1>1 DEF TokenInv, FlowShape, Flows

LEMMA RestIsFlow == Idle \in Flows /\ Idle.pc = "idle" /\ Idle.new = NoPair /\ Idle.pair = NoPair /\ Idle.seen = NoPair
  BY DEF Idle, Flows

LEMMA RefreshReadsKeeps ==
    ASSUME TokenInv, NEW t \in Tasks, NEW p \in Pairs, RefreshReads(t, p)
    PROVE  TokenInv'
  <1> DEFINE f == [Idle EXCEPT !.pc = "refreshBlack", !.kind = "refresh", !.pair = p]
  <1>1. p \in Known
    BY IssuedArePairs DEF RefreshReads, TokenInv, JwtTypeOK, UnstoredIsUnseen, Known
  <1>2. p \in Issued /\ p # NoPair
    BY <1>1, IssuedArePairs DEF Known
  <1>3. /\ f \in Flows /\ f.pc = "refreshBlack" /\ f.pair = p /\ f.new = NoPair /\ f.seen = NoPair
    BY <1>2 DEF Idle, Flows
  <1>4. flow[t].pc = "idle"
    BY DEF RefreshReads, At
  <1> QED BY <1>1, <1>2, <1>3, <1>4, FlowMoves DEF RefreshReads

LEMMA LogoutReadsBlacklistKeeps ==
    ASSUME TokenInv, NEW t \in Tasks, NEW p \in Pairs, LogoutReadsBlacklist(t, p)
    PROVE  TokenInv'
  <1>1. PICK pc \in {"logoutOnline", "blacklist"} :
          flow' = [flow EXCEPT ![t] = [Idle EXCEPT !.kind = "logout", !.pair = p, !.pc = pc]]
    BY DEF LogoutReadsBlacklist
  <1> DEFINE f == [Idle EXCEPT !.kind = "logout", !.pair = p, !.pc = pc]
  <1>2. p \in Known /\ p \in Issued /\ p # NoPair
    BY IssuedArePairs DEF Known, LogoutReadsBlacklist
  <1>3. f \in Flows /\ f.pc = pc /\ f.pair = p /\ f.new = NoPair /\ f.seen = NoPair
    BY <1>2 DEF Idle, Flows
  <1>4. flow[t].pc = "idle"
    BY DEF LogoutReadsBlacklist, At
  <1> QED BY <1>1, <1>2, <1>3, <1>4, FlowMoves DEF LogoutReadsBlacklist

(* A flow that ends before it has read the online session.                 *)
LEMMA Finishes ==
    ASSUME TokenInv, NEW t \in Tasks, flow[t].pc \notin {"readOnline", "delOnline"} \/ online = NoPair,
           Finish(t), UNCHANGED <<now, token, redis, sweeping>>
    PROVE  TokenInv'
  BY RestIsFlow, FlowMoves DEF Finish

(* A flow that goes on with what it knows.                                 *)
LEMMA GoesOn ==
    ASSUME TokenInv, NEW t \in Tasks, flow[t].pc # "idle",
           NEW pc \in {"refreshOnline", "blacklist", "store"},
           flow[t].pc \notin {"readOnline", "delOnline"} \/ online = NoPair,
           pc = "refreshOnline" => flow[t].new = NoPair,
           pc = "store" => flow[t].new # NoPair,
           Goto(t, pc), UNCHANGED <<now, token, redis, sweeping>>
    PROVE  TokenInv'
  <1> DEFINE f == [flow[t] EXCEPT !.pc = pc]
  <1>1. flow[t] \in Flows /\ flow[t].pair \in Issued
    BY FlowFacts
  <1>2. f \in Flows /\ f.pc = pc /\ f.pair = flow[t].pair /\ f.new = flow[t].new /\ f.seen = flow[t].seen
    BY <1>1 DEF Flows
  <1>3. flow' = [flow EXCEPT ![t] = f]
    BY DEF Goto
  <1> QED BY <1>1, <1>2, <1>3, IssuedArePairs, FlowMoves

LEMMA RefreshReadsBlacklistKeeps ==
    ASSUME TokenInv, NEW t \in Tasks, RefreshReadsBlacklist(t)
    PROVE  TokenInv'
  BY FlowFacts, Finishes, GoesOn DEF RefreshReadsBlacklist, At

LEMMA LogoutReadsOnlineKeeps ==
    ASSUME TokenInv, NEW t \in Tasks, NEW valid \in BOOLEAN, LogoutReadsOnline(t, valid)
    PROVE  TokenInv'
  BY GoesOn DEF LogoutReadsOnline, At

LEMMA RevokeReadsOnlineKeeps ==
    ASSUME TokenInv, NEW t \in Tasks, RevokeReadsOnline(t)
    PROVE  TokenInv'
  <1>1. CASE online = NoPair /\ flow[t].new = NoPair
    BY <1>1, Finishes DEF RevokeReadsOnline, Revoked
  <1>2. CASE online = NoPair /\ flow[t].new # NoPair
    BY <1>2, GoesOn DEF RevokeReadsOnline, Revoked, At
  <1>3. CASE online # NoPair
    <2> DEFINE f == [flow[t] EXCEPT !.pc = "delOnline", !.seen = online]
    <2>1. flow[t] \in Flows /\ flow[t].pair \in Issued
      BY FlowFacts DEF RevokeReadsOnline, At
    <2>2. online \in Issued
      BY <1>3 DEF TokenInv, JwtTypeOK
    <2>3. f \in Flows /\ f.pc = "delOnline" /\ f.pair = flow[t].pair /\ f.new = flow[t].new /\ f.seen = online
      BY <2>1, <2>2 DEF Flows
    <2>4. flow' = [flow EXCEPT ![t] = f] /\ UNCHANGED <<now, token, redis, sweeping>>
      BY <1>3 DEF RevokeReadsOnline
    <2> QED BY <2>1, <2>3, <2>4, IssuedArePairs, FlowMoves
  <1> QED BY <1>1, <1>2, <1>3

(* A refresh or a login signs the pair n.                                  *)
LEMMA Issues ==
    ASSUME TokenInv, NEW n \in Pairs \ Issued, NEW e \in Nat \ {0}, NEW s \in 0..MaxTime,
           NEW l \in Issued \cup {n},
           token' = [token EXCEPT ![n] = [exp |-> e, start |-> s, login |-> l]],
           l = n \/ s = token[l].start
    PROVE  /\ Issued' = Issued \cup {n}
           /\ token' \in [Pairs -> [exp : Nat, start : 0..MaxTime, login : Pairs \cup {NoPair}]]
           /\ SessionShared'
           /\ \A p \in Issued : Limit(p)' = Limit(p)
  <1>1. token \in [Pairs -> [exp : Nat, start : 0..MaxTime, login : Pairs \cup {NoPair}]]
    BY DEF TokenInv, JwtTypeOK
  <1>2. token'[n] # Unissued
    BY <1>1 DEF Unissued
  <1>3. Issued' = Issued \cup {n}
    BY <1>1, <1>2 DEF Issued
  <1>4. token' \in [Pairs -> [exp : Nat, start : 0..MaxTime, login : Pairs \cup {NoPair}]]
    BY <1>1, IssuedArePairs
  <1>5. \A p \in Issued : token'[p] = token[p]
    BY <1>1, IssuedArePairs
  <1>6. token'[n] = [exp |-> e, start |-> s, login |-> l]
    BY <1>1
  <1>7. SessionShared'
    BY <1>3, <1>5, <1>6 DEF TokenInv, SessionShared
  <1> QED BY <1>3, <1>4, <1>5, <1>7 DEF Limit

LEMMA ExpiresLater ==
    ASSUME now \in Nat, NEW l \in Nat, now < l
    PROVE  (IF now + AccessTtl < l THEN now + AccessTtl ELSE l) \in Nat \ {0}
  BY JwtConstantsOK DEF JwtConstantsOK

LEMMA LimitIsNat == ASSUME TokenInv, NEW p \in Pairs PROVE Limit(p) \in Nat
  BY JwtConstantsOK DEF JwtConstantsOK, TokenInv, JwtTypeOK, Limit

(* The pair it signs is nobody's yet; the one it revokes stays its own.    *)
LEMMA RefreshSigns ==
    ASSUME TokenInv, NEW t \in Tasks, NEW n \in Pairs \ Issued, flow[t].pc = "refreshOnline",
           now < Limit(flow[t].pair),
           token' = [token EXCEPT ![n] = Renewed(flow[t].pair)],
           flow' = [flow EXCEPT ![t].pc = "blacklist", ![t].new = n],
           UNCHANGED <<now, redis, sweeping>>
    PROVE  TokenInv'
  <1> DEFINE p == flow[t].pair
  <1>1. p \in Issued /\ flow[t] \in Flows
    BY FlowFacts
  <1>2. /\ token[p].login \in Issued /\ token[token[p].login].start = token[p].start
        /\ token[p].start \in 0..MaxTime /\ now \in Nat /\ Limit(p) \in Nat
    BY <1>1, IssuedArePairs, LimitIsNat, JwtConstantsOK DEF TokenInv, JwtTypeOK, SessionShared, JwtConstantsOK
  <1>3. /\ Issued' = Issued \cup {n} /\ SessionShared'
        /\ token' \in [Pairs -> [exp : Nat, start : 0..MaxTime, login : Pairs \cup {NoPair}]]
        /\ \A q \in Issued : Limit(q)' = Limit(q)
    BY <1>2, Issues, ExpiresLater DEF Renewed
  <1>4. /\ now' = now /\ online' = online /\ refresh' = refresh /\ black' = black /\ sweeping' = sweeping
    BY DEF redis
  <1>5. flow \in [Tasks -> Flows] /\ n # NoPair
    BY FlowIsFlows, IssuedArePairs DEF TokenInv
  <1>6. /\ flow'[t].pc = "blacklist" /\ flow'[t].pair = flow[t].pair /\ flow'[t].new = n
        /\ flow'[t].seen = flow[t].seen
    BY <1>1, <1>5 DEF Flows
  <1>7. \A u \in Tasks : u # t => flow'[u] = flow[u]
    BY <1>5
  <1>8. JwtTypeOK'
    <2>1. [flow[t] EXCEPT !.pc = "blacklist", !.new = n] \in Flows'
      BY <1>1, <1>3 DEF Flows
    <2>2. Flows \subseteq Flows'
      BY <1>3 DEF Flows
    <2>3. flow' \in [Tasks -> Flows']
      BY <1>5, <2>1, <2>2
    <2>4. /\ online' \in Issued' \cup {NoPair} /\ refresh' \subseteq Issued' /\ black' \subseteq Issued'
          /\ now' \in 0..MaxTime /\ sweeping' \in BOOLEAN
      BY <1>3, <1>4 DEF TokenInv, JwtTypeOK
    <2> QED BY <1>3, <2>3, <2>4 DEF JwtTypeOK, Flows
  <1>9. FlowShape'
    BY <1>1, <1>5, <1>6, <1>7, IssuedArePairs DEF TokenInv, FlowShape
  <1>10. UnstoredIsUnseen'
    <2>1. \A u \in Tasks : n \notin {flow[u].pair, flow[u].seen, flow[u].new}
      BY <1>5 DEF Flows
    <2>2. n \notin refresh \cup black \cup {online}
      BY <1>5 DEF TokenInv, JwtTypeOK
    <2>3. ASSUME NEW u \in Tasks, flow'[u].new # NoPair
          PROVE  /\ flow'[u].new \notin refresh \cup black \cup {online}
                 /\ \A v \in Tasks : /\ flow'[u].new \notin {flow'[v].pair, flow'[v].seen}
                                     /\ v # u => flow'[v].new # flow'[u].new
      <3>1. CASE u = t
        BY <1>6, <1>7, <2>1, <2>2, <3>1
      <3>2. CASE u # t
        <4>1. flow'[u].new = flow[u].new /\ flow[u].new # NoPair /\ flow[u].new # n
          BY <1>7, <2>1, <2>3, <3>2
        <4>2. /\ flow[u].new \notin refresh \cup black \cup {online}
              /\ \A v \in Tasks : /\ flow[u].new \notin {flow[v].pair, flow[v].seen}
                                  /\ v # u => flow[v].new # flow[u].new
          BY <4>1 DEF TokenInv, UnstoredIsUnseen
        <4> QED BY <1>6, <1>7, <4>1, <4>2
      <3> QED BY <3>1, <3>2
    <2> QED BY <1>4, <2>3 DEF UnstoredIsUnseen
  <1>11. RevokesAnother'
    BY <1>4, <1>6, <1>7 DEF TokenInv, RevokesAnother
  <1>12. OnlineIsRefreshable'
    BY <1>3, <1>4 DEF TokenInv, JwtTypeOK, OnlineIsRefreshable
  <1>13. BlacklistedSessionIsEnding'
    BY <1>4, <1>6, <1>7 DEF TokenInv, BlacklistedSessionIsEnding
  <1> QED BY <1>3, <1>8, <1>9, <1>10, <1>11, <1>12, <1>13 DEF TokenInv

LEMMA RefreshReadsOnlineKeeps ==
    ASSUME TokenInv, NEW t \in Tasks, RefreshReadsOnline(t)
    PROVE  TokenInv'
  <1>1. flow[t].pc = "refreshOnline" /\ flow[t].new = NoPair
    BY FlowFacts DEF RefreshReadsOnline, At
  <1>2. CASE online # flow[t].pair /\ Finish(t) /\ UNCHANGED token
    BY <1>1, <1>2, Finishes DEF RefreshReadsOnline
  <1>3. CASE Goto(t, "blacklist") /\ UNCHANGED token
    BY <1>1, <1>3, GoesOn DEF RefreshReadsOnline
  <1>4. ASSUME NEW n \in Pairs \ Issued, now < Limit(flow[t].pair),
               token' = [token EXCEPT ![n] = Renewed(flow[t].pair)],
               flow' = [flow EXCEPT ![t].pc = "blacklist", ![t].new = n]
        PROVE  TokenInv'
    BY <1>1, <1>4, RefreshSigns DEF RefreshReadsOnline
  <1> QED BY <1>2, <1>3, <1>4 DEF RefreshReadsOnline

-----------------------------------------------------------------------------
(* Logins and stores.                                                      *)

LEMMA LoginKeeps ==
    ASSUME TokenInv, NEW p \in Pairs, Login(p)
    PROVE  TokenInv'
  <1>1. now \in 0..MaxTime /\ now \in Nat /\ now + AccessTtl \in Nat \ {0} /\ p \in Pairs \ Issued
    BY JwtConstantsOK DEF TokenInv, JwtTypeOK, JwtConstantsOK, Login
  <1>2. /\ Issued' = Issued \cup {p} /\ SessionShared'
        /\ token' \in [Pairs -> [exp : Nat, start : 0..MaxTime, login : Pairs \cup {NoPair}]]
        /\ \A q \in Issued : Limit(q)' = Limit(q)
    BY <1>1, Issues DEF Login
  <1>3. /\ now' = now /\ online' = p /\ refresh' = refresh \cup {p} /\ black' = black
        /\ sweeping' = sweeping /\ flow' = flow
    BY DEF Login
  <1>4. flow \in [Tasks -> Flows] /\ p # NoPair
    BY FlowIsFlows, IssuedArePairs DEF TokenInv
  <1>5. JwtTypeOK'
    <2>1. Flows \subseteq Flows'
      BY <1>2 DEF Flows
    <2>2. flow' \in [Tasks -> Flows']
      BY <1>3, <1>4, <2>1
    <2> QED BY <1>2, <1>3, <2>2 DEF TokenInv, JwtTypeOK, Flows
  <1>6. UnstoredIsUnseen' /\ RevokesAnother'
    <2>1. \A u \in Tasks : p \notin {flow[u].pair, flow[u].seen, flow[u].new}
      BY <1>1, <1>4 DEF Flows
    <2> QED BY <1>3, <2>1 DEF TokenInv, UnstoredIsUnseen, RevokesAnother
  <1>7. FlowShape'
    BY <1>3 DEF TokenInv, FlowShape
  <1>8. OnlineIsRefreshable'
    BY <1>3 DEF OnlineIsRefreshable
  <1>9. BlacklistedSessionIsEnding'
    BY <1>1, <1>3 DEF TokenInv, JwtTypeOK, BlacklistedSessionIsEnding
  <1> QED BY <1>2, <1>5, <1>6, <1>7, <1>8, <1>9 DEF TokenInv

LEMMA RefreshStoresKeeps ==
    ASSUME TokenInv, NEW t \in Tasks, RefreshStores(t)
    PROVE  TokenInv'
  <1> DEFINE n == flow[t].new
  <1>1. flow[t].pc = "store" /\ n # NoPair /\ n \in Issued /\ flow[t].pair \in Issued
    BY FlowFacts DEF RefreshStores, At, Flows
  <1>2. /\ now' = now /\ token' = token /\ online' = n /\ refresh' = refresh \cup {n} /\ black' = black
        /\ sweeping' = sweeping
    BY DEF RefreshStores
  <1>3. flow \in [Tasks -> Flows]
    BY FlowIsFlows DEF TokenInv
  <1>4. \A u \in Tasks : flow'[u] = IF u = t THEN Idle ELSE flow[u]
    BY <1>3 DEF RefreshStores, Finish
  <1>5. Issued' = Issued /\ \A q \in Pairs : Limit(q)' = Limit(q)
    BY <1>2, IssuedStays
  <1>6. JwtTypeOK'
    <2>1. flow' \in [Tasks -> Flows]
      BY <1>3, RestIsFlow DEF RefreshStores, Finish
    <2> QED BY <1>1, <1>2, <1>5, <2>1 DEF TokenInv, JwtTypeOK, Flows
  <1>7. SessionShared'
    BY <1>2, <1>5 DEF TokenInv, SessionShared
  <1>8. FlowShape'
    BY <1>4, RestIsFlow DEF TokenInv, FlowShape
  <1>9. \A u \in Tasks : n \notin {flow[u].pair, flow[u].seen} /\ (u # t => flow[u].new # n)
    BY <1>1 DEF TokenInv, UnstoredIsUnseen
  <1>10. UnstoredIsUnseen'
    BY <1>2, <1>4, <1>9, RestIsFlow DEF TokenInv, UnstoredIsUnseen
  <1>11. RevokesAnother'
    BY <1>2, <1>4, <1>9, RestIsFlow DEF TokenInv, RevokesAnother
  <1>12. OnlineIsRefreshable'
    BY <1>2 DEF OnlineIsRefreshable
  <1>13. BlacklistedSessionIsEnding'
    BY <1>1, <1>2 DEF TokenInv, UnstoredIsUnseen, BlacklistedSessionIsEnding
  <1> QED BY <1>6, <1>7, <1>8, <1>10, <1>11, <1>12, <1>13 DEF TokenInv

-----------------------------------------------------------------------------
(* invalidToken, time and the cleanup: entries disappear.                  *)

(* A step that moves no flow and only removes entries.                     *)
LEMMA EntriesGo ==
    ASSUME TokenInv, UNCHANGED <<token, flow>>,
           now' \in now..MaxTime, online' \in {online, NoPair}, refresh' \subseteq refresh,
           black' \subseteq black, sweeping' \in BOOLEAN,
           online' # NoPair /\ now' < Limit(online) => online \in refresh \ refresh' \/ online \in refresh',
           \A p \in refresh \ refresh' : now' >= Limit(p)
    PROVE  TokenInv'
  <1>1. Issued' = Issued /\ \A q \in Pairs : Limit(q)' = Limit(q)
    BY IssuedStays
  <1>2. JwtTypeOK'
    <2>1. now' \in 0..MaxTime
      BY JwtConstantsOK DEF JwtConstantsOK, TokenInv, JwtTypeOK
    <2> QED BY <1>1, <2>1 DEF TokenInv, JwtTypeOK
  <1>3. SessionShared' /\ FlowShape'
    BY <1>1 DEF TokenInv, SessionShared, FlowShape
  <1>4. UnstoredIsUnseen'
    BY DEF TokenInv, UnstoredIsUnseen
  <1>5. RevokesAnother'
    BY DEF TokenInv, RevokesAnother
  <1>6. OnlineIsRefreshable'
    <2> SUFFICES ASSUME online' # NoPair, now' < token'[online'].start + SessionMax
                 PROVE  online' \in refresh'
      BY DEF OnlineIsRefreshable, Limit
    <2>1. online' = online /\ online \in Issued /\ online \in Pairs
      BY IssuedArePairs DEF TokenInv, JwtTypeOK
    <2>2. now' < Limit(online) /\ Limit(online) \in Nat /\ now' \in Nat
      BY <1>2, <2>1, LimitIsNat DEF JwtTypeOK, Limit
    <2>3. online \in refresh \ refresh' \/ online \in refresh'
      BY <2>1, <2>2
    <2> QED BY <2>1, <2>2, <2>3
  <1>7. BlacklistedSessionIsEnding'
    BY IssuedArePairs DEF TokenInv, JwtTypeOK, BlacklistedSessionIsEnding
  <1> QED BY <1>2, <1>3, <1>4, <1>5, <1>6, <1>7 DEF TokenInv

LEMMA TickKeeps ==
    ASSUME TokenInv, Tick
    PROVE  TokenInv'
  <1>1. now' \in now..MaxTime
    BY JwtConstantsOK DEF JwtConstantsOK, TokenInv, JwtTypeOK, Tick
  <1>2. online # NoPair /\ now' < Limit(online) => online \in refresh
    <2>1. ASSUME online # NoPair PROVE Limit(online) \in Nat
      BY <2>1, IssuedArePairs, LimitIsNat DEF TokenInv, JwtTypeOK
    <2>2. now' = now + 1 /\ now \in Nat
      BY DEF Tick, TokenInv, JwtTypeOK
    <2> QED BY <2>1, <2>2 DEF TokenInv, OnlineIsRefreshable
  <1>3. /\ UNCHANGED <<token, flow>> /\ online' = online /\ refresh' = refresh /\ black' = black
        /\ sweeping' = sweeping /\ sweeping \in BOOLEAN
    BY DEF Tick, redis, TokenInv, JwtTypeOK
  <1> QED BY <1>1, <1>2, <1>3, EntriesGo

(* The entries that Redis or the cleanup drops are past their end.         *)
LEMMA StoppedClock == ASSUME TokenInv, UNCHANGED now PROVE now' \in now..MaxTime /\ sweeping \in BOOLEAN
  BY JwtConstantsOK DEF JwtConstantsOK, TokenInv, JwtTypeOK

LEMMA ExpiresKeeps ==
    ASSUME TokenInv, NEW p \in Pairs, Expires(p)
    PROVE  TokenInv'
  <1>1. now' = now /\ UNCHANGED <<token, flow>> /\ sweeping' = sweeping
    BY DEF Expires
  <1>2. online # NoPair /\ now < Limit(online) => online \in refresh
    BY DEF TokenInv, OnlineIsRefreshable
  <1>3. CASE online = p /\ online' = NoPair /\ UNCHANGED <<refresh, black>>
    BY <1>1, <1>3, StoppedClock, EntriesGo
  <1>4. CASE now >= Limit(p) /\ refresh' = refresh \ {p} /\ UNCHANGED <<online, black>>
    BY <1>1, <1>2, <1>4, StoppedClock, EntriesGo
  <1>5. CASE black' = black \ {p} /\ UNCHANGED <<online, refresh>>
    BY <1>1, <1>2, <1>5, StoppedClock, EntriesGo
  <1> QED BY <1>3, <1>4, <1>5 DEF Expires

LEMMA CleanupKeeps ==
    ASSUME TokenInv, CleanupReads \/ CleanupDeletes
    PROVE  TokenInv'
  <1>1. now' = now /\ UNCHANGED <<token, flow>>
    BY DEF CleanupReads, CleanupDeletes
  <1>2. online # NoPair /\ now < Limit(online) => online \in refresh
    BY DEF TokenInv, OnlineIsRefreshable
  <1>3. refresh' = refresh /\ black' = black /\ online' \in {online, NoPair} /\ sweeping' \in BOOLEAN
    BY DEF CleanupReads, CleanupDeletes, redis
  <1> QED BY <1>1, <1>2, <1>3, StoppedClock, EntriesGo

(* A step of a revocation, which has a pair and perhaps a new one.         *)
LEMMA BlacklistsKeeps ==
    ASSUME TokenInv, NEW t \in Tasks, Blacklists(t)
    PROVE  TokenInv'
  <1>1. flow[t] \in Flows /\ flow[t].pair \in Issued /\ flow[t].pc = "blacklist"
    BY FlowFacts DEF Blacklists, At
  <1>2. flow \in [Tasks -> Flows]
    BY FlowIsFlows DEF TokenInv
  <1>3. /\ now' = now /\ token' = token /\ online' = online /\ refresh' = refresh
        /\ black' = black \cup {flow[t].pair} /\ sweeping' = sweeping
    BY DEF Blacklists
  <1>4. Issued' = Issued /\ \A q \in Pairs : Limit(q)' = Limit(q)
    BY <1>3, IssuedStays
  <1>5. flow' = [flow EXCEPT ![t] = [flow[t] EXCEPT !.pc = "readOnline"]]
    BY <1>2 DEF Blacklists, Goto
  <1>6. /\ flow'[t].pc = "readOnline" /\ flow'[t].pair = flow[t].pair
        /\ flow'[t].new = flow[t].new /\ flow'[t].seen = flow[t].seen
        /\ \A u \in Tasks : u # t => flow'[u] = flow[u]
    BY <1>1, <1>2, <1>5 DEF Flows
  <1>7. JwtTypeOK'
    <2>1. [flow[t] EXCEPT !.pc = "readOnline"] \in Flows
      BY <1>1 DEF Flows
    <2>2. flow' \in [Tasks -> Flows]
      BY <1>2, <1>5, <2>1
    <2> QED BY <1>1, <1>3, <1>4, <2>2 DEF TokenInv, JwtTypeOK, Flows
  <1>8. SessionShared'
    BY <1>3, <1>4 DEF TokenInv, SessionShared
  <1>9. FlowShape'
    BY <1>1, <1>6, IssuedArePairs DEF TokenInv, FlowShape
  <1>10. UnstoredIsUnseen'
    <2>1. \A u \in Tasks : /\ flow'[u].new = flow[u].new /\ flow'[u].pair = flow[u].pair
                           /\ flow'[u].seen = flow[u].seen
      BY <1>6
    <2> QED BY <1>3, <2>1 DEF TokenInv, UnstoredIsUnseen
  <1>11. RevokesAnother'
    BY <1>3, <1>6 DEF TokenInv, RevokesAnother
  <1>12. OnlineIsRefreshable'
    BY <1>3 DEF TokenInv, OnlineIsRefreshable, Limit
  <1>13. BlacklistedSessionIsEnding'
    BY <1>1, <1>3, <1>6 DEF TokenInv, BlacklistedSessionIsEnding
  <1> QED BY <1>7, <1>8, <1>9, <1>10, <1>11, <1>12, <1>13 DEF TokenInv

LEMMA DeletesOnlineKeeps ==
    ASSUME TokenInv, NEW t \in Tasks, DeletesOnline(t)
    PROVE  TokenInv'
  <1>1. flow[t] \in Flows /\ flow[t].pair \in Issued /\ flow[t].pc = "delOnline"
    BY FlowFacts DEF DeletesOnline, At
  <1>2. flow \in [Tasks -> Flows]
    BY FlowIsFlows DEF TokenInv
  <1>3. /\ now' = now /\ token' = token /\ online' = NoPair /\ refresh' = refresh
        /\ black' = black /\ sweeping' = sweeping
    BY DEF DeletesOnline
  <1>4. Issued' = Issued /\ \A q \in Pairs : Limit(q)' = Limit(q)
    BY <1>3, IssuedStays
  <1>5. flow' = [flow EXCEPT ![t] = [flow[t] EXCEPT !.pc = "delRefresh"]]
    BY <1>2 DEF DeletesOnline, Goto
  <1>6. /\ flow'[t].pc = "delRefresh" /\ flow'[t].pair = flow[t].pair
        /\ flow'[t].new = flow[t].new /\ flow'[t].seen = flow[t].seen
        /\ \A u \in Tasks : u # t => flow'[u] = flow[u]
    BY <1>1, <1>2, <1>5 DEF Flows
  <1>7. JwtTypeOK'
    <2>1. [flow[t] EXCEPT !.pc = "delRefresh"] \in Flows
      BY <1>1 DEF Flows
    <2>2. flow' \in [Tasks -> Flows]
      BY <1>2, <1>5, <2>1
    <2> QED BY <1>1, <1>3, <1>4, <2>2 DEF TokenInv, JwtTypeOK, Flows
  <1>8. SessionShared'
    BY <1>3, <1>4 DEF TokenInv, SessionShared
  <1>9. FlowShape'
    BY <1>1, <1>6, IssuedArePairs DEF TokenInv, FlowShape
  <1>10. UnstoredIsUnseen'
    <2>1. \A u \in Tasks : /\ flow'[u].new = flow[u].new /\ flow'[u].pair = flow[u].pair
                           /\ flow'[u].seen = flow[u].seen
      BY <1>6
    <2> QED BY <1>3, <2>1 DEF TokenInv, UnstoredIsUnseen
  <1>11. RevokesAnother'
    BY <1>3 DEF RevokesAnother
  <1>12. OnlineIsRefreshable'
    BY <1>3 DEF OnlineIsRefreshable
  <1>13. BlacklistedSessionIsEnding'
    BY <1>3, IssuedArePairs DEF TokenInv, JwtTypeOK, BlacklistedSessionIsEnding
  <1> QED BY <1>7, <1>8, <1>9, <1>10, <1>11, <1>12, <1>13 DEF TokenInv

LEMMA DeletesRefreshKeeps ==
    ASSUME TokenInv, NEW t \in Tasks, DeletesRefresh(t)
    PROVE  TokenInv'
  <1> DEFINE f == IF flow[t].new = NoPair THEN Idle ELSE [flow[t] EXCEPT !.pc = "store"]
  <1>1. flow[t] \in Flows /\ flow[t].pair \in Issued /\ flow[t].pc = "delRefresh"
    BY FlowFacts DEF DeletesRefresh, At
  <1>2. flow \in [Tasks -> Flows]
    BY FlowIsFlows DEF TokenInv
  <1>3. /\ now' = now /\ token' = token /\ online' = online /\ refresh' = refresh \ {flow[t].seen}
        /\ black' = black /\ sweeping' = sweeping
    BY DEF DeletesRefresh
  <1>4. Issued' = Issued /\ \A q \in Pairs : Limit(q)' = Limit(q)
    BY <1>3, IssuedStays
  <1>5. flow' = [flow EXCEPT ![t] = f]
    BY <1>2 DEF DeletesRefresh, Revoked, Goto, Finish
  <1>6. /\ f \in Flows /\ f.pc \in {"idle", "store"} /\ f.new = flow[t].new
        /\ f.pc = "store" => f.new # NoPair /\ f.pair = flow[t].pair /\ f.seen = flow[t].seen
        /\ f.pc = "idle" => f.new = NoPair /\ f.pair = NoPair /\ f.seen = NoPair
    BY <1>1, RestIsFlow DEF Flows
  <1> HIDE DEF f
  <1>7. flow'[t] = f /\ \A u \in Tasks : u # t => flow'[u] = flow[u]
    BY <1>2, <1>5
  <1>8. JwtTypeOK'
    <2>1. flow' \in [Tasks -> Flows]
      BY <1>2, <1>5, <1>6
    <2> QED BY <1>3, <1>4, <2>1 DEF TokenInv, JwtTypeOK, Flows
  <1>9. SessionShared'
    BY <1>3, <1>4 DEF TokenInv, SessionShared
  <1>10. FlowShape'
    BY <1>1, <1>6, <1>7, IssuedArePairs DEF TokenInv, FlowShape
  <1>11. UnstoredIsUnseen'
    <2>1. \A u \in Tasks : /\ flow'[u].new = flow[u].new
                           /\ flow'[u].pair \in {NoPair, flow[u].pair}
                           /\ flow'[u].seen \in {NoPair, flow[u].seen}
      BY <1>6, <1>7
    <2> QED BY <1>3, <2>1 DEF TokenInv, UnstoredIsUnseen
  <1>12. RevokesAnother'
    BY <1>3, <1>6, <1>7 DEF TokenInv, RevokesAnother
  <1>13. OnlineIsRefreshable'
    <2>1. flow[t].seen = NoPair \/ flow[t].seen # online
      BY <1>1 DEF TokenInv, RevokesAnother
    <2> QED BY <1>3, <2>1 DEF TokenInv, OnlineIsRefreshable, Limit
  <1>14. BlacklistedSessionIsEnding'
    BY <1>1, <1>3, <1>7 DEF TokenInv, BlacklistedSessionIsEnding
  <1> QED BY <1>8, <1>9, <1>10, <1>11, <1>12, <1>13, <1>14 DEF TokenInv

-----------------------------------------------------------------------------
LEMMA TokenStepKeeps ==
    ASSUME TokenInv, JwtNext
    PROVE  TokenInv'
  <1>1. ASSUME NEW p \in Pairs, Login(p) \/ Expires(p) PROVE TokenInv'
    BY <1>1, LoginKeeps, ExpiresKeeps
  <1>2. ASSUME NEW t \in Tasks, RefreshReadsBlacklist(t) \/ RefreshReadsOnline(t) \/ RefreshStores(t)
        PROVE  TokenInv'
    BY <1>2, RefreshReadsBlacklistKeeps, RefreshReadsOnlineKeeps, RefreshStoresKeeps
  <1>3. ASSUME NEW t \in Tasks, Blacklists(t) \/ RevokeReadsOnline(t) \/ DeletesOnline(t) \/ DeletesRefresh(t)
        PROVE  TokenInv'
    BY <1>3, BlacklistsKeeps, RevokeReadsOnlineKeeps, DeletesOnlineKeeps, DeletesRefreshKeeps
  <1>4. ASSUME NEW t \in Tasks, NEW valid \in BOOLEAN, LogoutReadsOnline(t, valid)
        PROVE  TokenInv'
    BY <1>4, LogoutReadsOnlineKeeps
  <1>5. ASSUME NEW t \in Tasks, NEW p \in Pairs, RefreshReads(t, p) \/ LogoutReadsBlacklist(t, p)
        PROVE  TokenInv'
    BY <1>5, RefreshReadsKeeps, LogoutReadsBlacklistKeeps
  <1>6. CASE Tick \/ CleanupReads \/ CleanupDeletes
    BY <1>6, TickKeeps, CleanupKeeps
  <1> QED BY <1>1, <1>2, <1>3, <1>4, <1>5, <1>6 DEF JwtNext, TokenStep

LEMMA TokenStays ==
    ASSUME TokenInv, UNCHANGED jwtVars
    PROVE  TokenInv'
  <1>1. /\ now' = now /\ token' = token /\ online' = online /\ refresh' = refresh /\ black' = black
        /\ flow' = flow /\ sweeping' = sweeping
    BY DEF jwtVars, redis
  <1>2. Issued' = Issued
    BY <1>1, IssuedStays
  <1> QED BY <1>1, <1>2 DEF TokenInv, JwtTypeOK, SessionShared, FlowShape, UnstoredIsUnseen, RevokesAnother,
              OnlineIsRefreshable, BlacklistedSessionIsEnding, Limit

LEMMA TokenInvariant == JwtSpec => []TokenInv
  <1>1. TokenInv /\ [JwtNext]_jwtVars => TokenInv'
    BY TokenStepKeeps, TokenStays
  <1> QED BY InitToken, <1>1, PTL DEF JwtSpec

(* The token sessions of a user are well typed.                            *)
THEOREM TokensTyped == JwtSpec => []JwtTypeOK
  <1>1. TokenInv => JwtTypeOK
    BY DEF TokenInv
  <1> QED BY <1>1, TokenInvariant, PTL

(* jwt.service.ts: however the commands of logins, refreshes, logouts and  *)
(* the cleanup interleave, a live online session has its refresh session.  *)
THEOREM SessionIsWhole == JwtSpec => []OnlineIsRefreshable
  <1>1. TokenInv => OnlineIsRefreshable
    BY DEF TokenInv
  <1> QED BY <1>1, TokenInvariant, PTL

(* No chain of refreshes, of any length, outlives SESSION_MAX_AGE.         *)
THEOREM SessionIsBounded == JwtSpec => []SessionEndsAtLimit
  <1>1. TokenInv => SessionEndsAtLimit
    BY DEF TokenInv, SessionShared, SessionEndsAtLimit, Accepted, IsOnline, Limit
  <1> QED BY <1>1, TokenInvariant, PTL

(* A blacklisted token is online only while its revocation runs.           *)
THEOREM RevocationGoesOn == JwtSpec => []BlacklistedSessionIsEnding
  <1>1. TokenInv => BlacklistedSessionIsEnding
    BY DEF TokenInv
  <1> QED BY <1>1, TokenInvariant, PTL

-----------------------------------------------------------------------------
(* The sockets take no step on the tokens that JwtSession does not have.   *)
THEOREM SocketsUseTokens == Spec => JwtSpec
  <1>1. Init => JwtInit
    BY DEF Init
  <1>2. [Next]_vars => [JwtNext]_jwtVars
    BY DEF Next, vars, JwtNext, LogoutDisconnects, Connects, Disconnects, Completes, Authenticates
  <1> QED BY <1>1, <1>2, PTL DEF Spec, JwtSpec

(* The inductive invariant of the sockets: presence counts every socket    *)
(* with a user at least once.                                              *)
Live == {c \in Conns : Active(c)}

\* TypeOK of the sockets, without the tokens.
SocketTypeOK ==
    /\ conn \in [Conns -> [state : {"free", "open", "closed"}, by : Issued \cup {NoPair}]]
    /\ hand \in [Hands -> [conn : Conns \cup {NoConn}, pair : Issued \cup {NoPair}]]
    /\ presence \in 0..MaxPresence

\* A handshake under way is that of a socket, with a token that was signed.
HandShape == \A h \in Hands : hand[h] = NoHand \/ (hand[h].conn \in Conns /\ hand[h].pair \in Issued)

\* The inductive invariant of SocketHandshake, beside TokenInv.
SocketInv == SocketTypeOK /\ HandShape /\ Cardinality(Live) <= presence

\* Sockets can be counted.
LEMMA LiveIsFinite == IsFiniteSet(Live) /\ Cardinality(Live) \in Nat
  <1>1. Live \subseteq Conns
    BY DEF Live
  <1>2. IsFiniteSet(Live)
    BY <1>1, HandshakeConstantsOK, FS_Subset DEF HandshakeConstantsOK
  <1> QED BY <1>2, FS_CardinalityType

(* Issued pairs stay issued, with the claims they have.                    *)
LEMMA IssuedStaysIssued ==
    ASSUME TokenInv, JwtNext
    PROVE  Issued \subseteq Issued'
  <1>1. ASSUME NEW n \in Pairs \ Issued, NEW r, token' = [token EXCEPT ![n] = r]
        PROVE  \A p \in Issued : token'[p] = token[p]
    BY <1>1, IssuedArePairs DEF TokenInv, JwtTypeOK
  <1>2. ASSUME NEW t \in Tasks, RefreshReadsOnline(t)
        PROVE  \A p \in Issued : token'[p] = token[p]
    BY <1>1, <1>2 DEF RefreshReadsOnline
  <1>3. ASSUME NEW p \in Pairs, Login(p)
        PROVE  \A q \in Issued : token'[q] = token[q]
    BY <1>1, <1>3 DEF Login
  <1>4. (\A p \in Issued : token'[p] = token[p]) => Issued \subseteq Issued'
    BY DEF Issued
  <1>5. token' = token \/ (\E t \in Tasks : RefreshReadsOnline(t)) \/ (\E p \in Pairs : Login(p))
    BY DEF JwtNext, TokenStep, Expires, RefreshReadsBlacklist, RefreshStores, Blacklists, RevokeReadsOnline,
           DeletesOnline, DeletesRefresh, LogoutReadsOnline, RefreshReads, LogoutReadsBlacklist,
           Tick, CleanupReads, CleanupDeletes
  <1> QED BY <1>2, <1>3, <1>4, <1>5

LEMMA InitSockets == Init => SocketInv
  <1> SUFFICES ASSUME Init PROVE SocketInv
    OBVIOUS
  <1>1. Live = {} /\ 0 \in 0..MaxPresence
    BY HandshakeConstantsOK DEF HandshakeConstantsOK, Init, Live, Active, FreeConn
  <1>2. SocketTypeOK
    BY <1>1, Zenon DEF Init, SocketTypeOK, FreeConn, NoHand
  <1>3. Cardinality(Live) = 0 /\ presence = 0
    BY <1>1, FS_EmptySet DEF Init
  <1>4. Cardinality(Live) <= presence
    BY <1>3
  <1>5. ASSUME NEW h \in Hands PROVE hand[h] = NoHand
    BY DEF Init
  <1> QED BY <1>2, <1>4, <1>5 DEF SocketInv, HandShape

(* A socket that is no longer open, and the count without those dropped.   *)
LEMMA ClosedIsNotOpen ==
    ASSUME SocketInv, NEW c \in Conns, NEW H
    PROVE  /\ Closed(c, H) \in [state : {"free", "closed"}, by : Issued \cup {NoPair}]
           /\ Closed(c, H).state # "open"
  BY DEF SocketInv, SocketTypeOK, Closed, FreeConn

LEMMA WithoutIsNat ==
    ASSUME SocketInv, NEW n \in Nat
    PROVE  Without(n) \in 0..MaxPresence /\ Without(n) + n >= presence
  BY HandshakeConstantsOK DEF HandshakeConstantsOK, SocketInv, SocketTypeOK, Without

LEMMA DroppedIsNat ==
    ASSUME SocketInv, NEW C \in SUBSET Conns
    PROVE  Dropped(C) \in 0..MaxPresence
  <1> DEFINE D == {c \in C : conn[c].by # NoPair}
  <1>1. IsFiniteSet(D)
    BY HandshakeConstantsOK, FS_Subset DEF HandshakeConstantsOK
  <1>2. Cardinality(D) \in Nat
    BY <1>1, FS_CardinalityType
  <1> QED BY <1>2, WithoutIsNat DEF Dropped

(* One open socket closes.                                                 *)
LEMMA OneCloses ==
    ASSUME SocketInv, NEW c \in Conns, conn[c].state = "open", NEW H,
           conn' = [conn EXCEPT ![c] = Closed(c, H)], presence' = Dropped({c}), UNCHANGED token
    PROVE  /\ Cardinality(Live') <= presence' /\ presence' \in 0..MaxPresence
           /\ conn' \in [Conns -> [state : {"free", "open", "closed"}, by : Issued \cup {NoPair}]]
  <1>1. conn \in [Conns -> [state : {"free", "open", "closed"}, by : Issued \cup {NoPair}]]
    BY DEF SocketInv, SocketTypeOK
  <1>2. Live' = Live \ {c}
    BY <1>1, ClosedIsNotOpen DEF Live, Active
  <1>3. presence \in Nat /\ Cardinality(Live) <= presence /\ Cardinality(Live) \in Nat
    BY LiveIsFinite, HandshakeConstantsOK DEF HandshakeConstantsOK, SocketInv, SocketTypeOK
  <1>4. CASE conn[c].by # NoPair
    <2>1. c \in Live
      BY <1>4 DEF Live, Active
    <2>2. Cardinality(Live') = Cardinality(Live) - 1
      BY <1>2, <2>1, LiveIsFinite, FS_RemoveElement
    <2>3. {d \in {c} : conn[d].by # NoPair} = {c}
      BY <1>4
    <2>4. presence' = Without(1)
      BY <2>3, FS_Singleton DEF Dropped
    <2>5. Without(1) + 1 >= presence /\ Without(1) \in Nat
      BY WithoutIsNat, HandshakeConstantsOK DEF HandshakeConstantsOK
    <2>6. Cardinality(Live') <= presence'
      BY <1>3, <2>2, <2>4, <2>5
    <2> QED BY <1>1, <2>6, ClosedIsNotOpen, DroppedIsNat
  <1>5. CASE conn[c].by = NoPair
    <2>1. Live' = Live
      BY <1>2, <1>5 DEF Live, Active
    <2>2. {d \in {c} : conn[d].by # NoPair} = {}
      BY <1>5
    <2>3. presence' = Without(0)
      BY <2>2, FS_EmptySet DEF Dropped
    <2>4. Without(0) + 0 >= presence /\ Without(0) \in Nat
      BY WithoutIsNat, HandshakeConstantsOK DEF HandshakeConstantsOK
    <2>5. Cardinality(Live') <= presence'
      BY <1>3, <2>1, <2>3, <2>4
    <2> QED BY <1>1, <2>5, ClosedIsNotOpen, DroppedIsNat
  <1> QED BY <1>4, <1>5

LEMMA TokensDoNotMove ==
    ASSUME UNCHANGED jwtVars
    PROVE  Issued' = Issued /\ UNCHANGED token
  BY IssuedStays DEF jwtVars

LEMMA ConnectsKeeps ==
    ASSUME SocketInv, NEW c \in Conns, Connects(c)
    PROVE  SocketInv'
  <1>1. Issued' = Issued
    BY TokensDoNotMove DEF Connects
  <1>2. conn \in [Conns -> [state : {"free", "open", "closed"}, by : Issued \cup {NoPair}]]
    BY DEF SocketInv, SocketTypeOK
  <1>3. conn' = [conn EXCEPT ![c].state = "open"] /\ conn[c].by = NoPair /\ hand' = hand /\ presence' = presence
    BY DEF Connects, FreeConn
  <1>4. conn' \in [Conns -> [state : {"free", "open", "closed"}, by : Issued \cup {NoPair}]]
    BY <1>2, <1>3
  <1>5. Live' = Live
    BY <1>2, <1>3 DEF Live, Active
  <1> QED BY <1>1, <1>3, <1>4, <1>5 DEF SocketInv, SocketTypeOK, HandShape, NoHand

LEMMA DisconnectsKeeps ==
    ASSUME SocketInv, NEW c \in Conns, Disconnects(c)
    PROVE  SocketInv'
  <1>1. Issued' = Issued /\ UNCHANGED token
    BY TokensDoNotMove DEF Disconnects
  <1>2. /\ Cardinality(Live') <= presence' /\ presence' \in 0..MaxPresence
        /\ conn' \in [Conns -> [state : {"free", "open", "closed"}, by : Issued \cup {NoPair}]]
    BY <1>1, OneCloses DEF Disconnects
  <1> QED BY <1>1, <1>2 DEF Disconnects, SocketInv, SocketTypeOK, HandShape, NoHand

LEMMA AuthenticatesKeeps ==
    ASSUME SocketInv, NEW h \in Hands, NEW c \in Conns, NEW p \in Pairs, Authenticates(h, c, p)
    PROVE  SocketInv'
  <1>1. Issued' = Issued /\ UNCHANGED token
    BY TokensDoNotMove DEF Authenticates
  <1>2. CASE Verified(p)
    <2>1. p \in Issued
      BY DEF Authenticates, Known
    <2>2. hand' = [hand EXCEPT ![h] = [conn |-> c, pair |-> p]] /\ conn' = conn /\ presence' = presence
      BY <1>2 DEF Authenticates
    <2>3. hand' \in [Hands -> [conn : Conns \cup {NoConn}, pair : Issued \cup {NoPair}]]
      BY <2>1, <2>2 DEF SocketInv, SocketTypeOK
    <2>4. HandShape'
      BY <1>1, <2>1, <2>2 DEF SocketInv, SocketTypeOK, HandShape, NoHand
    <2>5. Live' = Live
      BY <2>2 DEF Live, Active
    <2> QED BY <1>1, <2>2, <2>3, <2>4, <2>5 DEF SocketInv, SocketTypeOK
  <1>3. CASE ~Verified(p)
    <2>1. conn[c].state = "open" /\ conn' = [conn EXCEPT ![c] = Closed(c, hand)]
          /\ presence' = Dropped({c}) /\ hand' = hand
      BY <1>3 DEF Authenticates
    <2>2. /\ Cardinality(Live') <= presence' /\ presence' \in 0..MaxPresence
          /\ conn' \in [Conns -> [state : {"free", "open", "closed"}, by : Issued \cup {NoPair}]]
      BY <1>1, <2>1, OneCloses
    <2> QED BY <1>1, <2>1, <2>2 DEF SocketInv, SocketTypeOK, HandShape, NoHand
  <1> QED BY <1>2, <1>3

(* A handshake that completes counts its socket, open or not; one that is  *)
(* refused closes it.                                                      *)
LEMMA CompletesKeeps ==
    ASSUME SocketInv, NEW h \in Hands, Completes(h)
    PROVE  SocketInv'
  <1> DEFINE c == hand[h].conn
             p == hand[h].pair
             left == [hand EXCEPT ![h] = NoHand]
  <1>1. Issued' = Issued /\ UNCHANGED token
    BY TokensDoNotMove DEF Completes
  <1>2. c \in Conns /\ p \in Issued
    BY DEF Completes, SocketInv, HandShape
  <1>3. hand' = left
    BY DEF Completes
  <1>4. hand \in [Hands -> [conn : Conns \cup {NoConn}, pair : Issued \cup {NoPair}]]
    BY DEF SocketInv, SocketTypeOK
  <1>5. hand' \in [Hands -> [conn : Conns \cup {NoConn}, pair : Issued \cup {NoPair}]]
    BY <1>3, <1>4 DEF NoHand
  <1>6. HandShape'
    <2>1. \A g \in Hands : hand'[g] \in {hand[g], NoHand}
      BY <1>3, <1>4
    <2> QED BY <1>1, <2>1 DEF SocketInv, HandShape
  <1>7. conn \in [Conns -> [state : {"free", "open", "closed"}, by : Issued \cup {NoPair}]]
        /\ presence \in 0..MaxPresence /\ Cardinality(Live) <= presence
    BY DEF SocketInv, SocketTypeOK
  <1>8. CASE IsOnline(p)
    <2>1. /\ presence < MaxPresence /\ presence' = presence + 1
          /\ conn' = [conn EXCEPT ![c] = IF conn[c].state = "open" THEN [conn[c] EXCEPT !.by = p]
                                         ELSE Closed(c, left)]
      BY <1>8 DEF Completes
    <2>2. conn' \in [Conns -> [state : {"free", "open", "closed"}, by : Issued \cup {NoPair}]]
      BY <1>2, <1>7, <2>1, ClosedIsNotOpen
    <2>3. Live' \subseteq Live \cup {c}
      BY <1>2, <1>7, <2>1, ClosedIsNotOpen DEF Live, Active
    <2>4. Cardinality(Live \cup {c}) <= Cardinality(Live) + 1 /\ IsFiniteSet(Live \cup {c})
          /\ Cardinality(Live \cup {c}) \in Nat
      <3>1. IsFiniteSet(Live \cup {c}) /\ Cardinality(Live) \in Nat
        BY LiveIsFinite, FS_AddElement
      <3>2. Cardinality(Live \cup {c}) \in Nat
        BY <3>1, FS_CardinalityType
      <3>3. c \in Live \/ Cardinality(Live \cup {c}) = Cardinality(Live) + 1
        BY LiveIsFinite, FS_AddElement
      <3>4. c \in Live => Live \cup {c} = Live
        OBVIOUS
      <3>5. CASE c \in Live
        BY <3>1, <3>4, <3>2, <3>5
      <3>6. CASE c \notin Live
        BY <3>1, <3>3, <3>2, <3>6
      <3> QED BY <3>5, <3>6
    <2>5. Cardinality(Live') <= Cardinality(Live \cup {c}) /\ Cardinality(Live') \in Nat
      BY <2>3, <2>4, FS_Subset, FS_CardinalityType
    <2>6. Cardinality(Live') <= presence' /\ presence' \in 0..MaxPresence
      BY <1>7, <2>1, <2>4, <2>5, LiveIsFinite, HandshakeConstantsOK DEF HandshakeConstantsOK
    <2> QED BY <1>1, <1>5, <1>6, <2>2, <2>6 DEF SocketInv, SocketTypeOK
  <1>9. CASE ~IsOnline(p)
    <2>1. /\ presence' = IF conn[c].state = "open" THEN Dropped({c}) ELSE presence
          /\ conn' = [conn EXCEPT ![c] = Closed(c, left)]
      BY <1>9 DEF Completes
    <2>2. /\ Cardinality(Live') <= presence' /\ presence' \in 0..MaxPresence
          /\ conn' \in [Conns -> [state : {"free", "open", "closed"}, by : Issued \cup {NoPair}]]
      <3>1. CASE conn[c].state = "open"
        BY <1>1, <1>2, <2>1, <3>1, OneCloses
      <3>2. CASE conn[c].state # "open"
        <4>1. Live' = Live
          BY <1>2, <1>7, <2>1, <3>2, ClosedIsNotOpen DEF Live, Active
        <4> QED BY <1>2, <1>7, <2>1, <3>2, <4>1, ClosedIsNotOpen
      <3> QED BY <3>1, <3>2
    <2> QED BY <1>1, <1>5, <1>6, <2>2 DEF SocketInv, SocketTypeOK
  <1> QED BY <1>8, <1>9

LEMMA LogoutDisconnectsKeeps ==
    ASSUME SocketInv, NEW t \in Tasks, LogoutDisconnects(t)
    PROVE  SocketInv'
  <1> DEFINE C == {c \in Conns : Active(c)}
  <1>1. Issued' = Issued /\ UNCHANGED token
    BY IssuedStays DEF LogoutDisconnects, LogoutReadsOnline
  <1>2. /\ conn' = [c \in Conns |-> IF c \in C THEN Closed(c, hand) ELSE conn[c]]
        /\ presence' = Dropped(C) /\ hand' = hand
    BY DEF LogoutDisconnects
  <1>3. conn' \in [Conns -> [state : {"free", "open", "closed"}, by : Issued \cup {NoPair}]]
    BY <1>2, ClosedIsNotOpen DEF SocketInv, SocketTypeOK
  <1>4. presence' \in 0..MaxPresence
    BY <1>2, DroppedIsNat
  <1>5. Live' = {}
    BY <1>2, ClosedIsNotOpen DEF Live, Active
  <1>6. Cardinality(Live') <= presence'
    BY <1>4, <1>5, FS_EmptySet, HandshakeConstantsOK DEF HandshakeConstantsOK
  <1> QED BY <1>1, <1>2, <1>3, <1>4, <1>6 DEF SocketInv, SocketTypeOK, HandShape, NoHand

LEMMA SocketsStay ==
    ASSUME SocketInv, UNCHANGED sockVars, Issued \subseteq Issued'
    PROVE  SocketInv'
  <1>1. conn' = conn /\ hand' = hand /\ presence' = presence
    BY DEF sockVars
  <1>2. Live' = Live
    BY <1>1 DEF Live, Active
  <1> QED BY <1>1, <1>2 DEF SocketInv, SocketTypeOK, HandShape, NoHand

LEMMA NextSockets ==
    ASSUME TokenInv, SocketInv, [Next]_vars
    PROVE  SocketInv'
  <1>1. CASE TokenStep /\ UNCHANGED sockVars
    BY <1>1, IssuedStaysIssued, SocketsStay DEF JwtNext
  <1>2. CASE UNCHANGED vars
    BY <1>2, TokensDoNotMove, SocketsStay DEF vars
  <1> QED BY <1>1, <1>2, ConnectsKeeps, DisconnectsKeeps, AuthenticatesKeeps, CompletesKeeps,
             LogoutDisconnectsKeeps DEF Next

LEMMA SocketInvariant == Spec => [](TokenInv /\ SocketInv)
  <1>1. Spec => []TokenInv
    BY SocketsUseTokens, TokenInvariant, PTL
  <1>2. TokenInv /\ SocketInv /\ [Next]_vars => SocketInv'
    BY NextSockets
  <1> QED BY <1>1, <1>2, InitSockets, PTL DEF Spec

(* Every state of a user's tokens and sockets is well typed.               *)
THEOREM TypeCorrect == Spec => []TypeOK
  <1>1. TokenInv /\ SocketInv => TypeOK
    BY DEF TokenInv, SocketInv, SocketTypeOK, TypeOK
  <1> QED BY <1>1, SocketInvariant, PTL

(* socket-handshake.guard.ts: a user with an authenticated socket is in    *)
(* the count the guard asks, with any number of sockets and handshakes.    *)
THEOREM ActiveIsCounted == Spec => []ActiveIsPresent
  <1>1. ASSUME SocketInv PROVE ActiveIsPresent
    <2> SUFFICES ASSUME NEW c \in Conns, Active(c) PROVE presence > 0
      BY DEF ActiveIsPresent
    <2>1. c \in Live
      BY DEF Live
    <2>2. Cardinality(Live) # 0
      BY <2>1, LiveIsFinite, FS_EmptySet
    <2> QED BY <1>1, <2>2, LiveIsFinite, HandshakeConstantsOK DEF SocketInv, SocketTypeOK, HandshakeConstantsOK
  <1> QED BY <1>1, SocketInvariant, PTL
=============================================================================
