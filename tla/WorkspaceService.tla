-------------------------- MODULE WorkspaceService --------------------------
(***************************************************************************)
(* WorkspaceService over the workspaces collection, with the cache of the  *)
(* paginated listing that all requests share.                              *)
(*                                                                         *)
(* A request is served by a task, step by step: every await of the service *)
(* is a step of its own, so the reads, the writes and the clearing of the  *)
(* cache of two requests interleave.  Any step on the database can fail.   *)
(***************************************************************************)
EXTENDS Naturals, FiniteSets

CONSTANTS Tasks,         \* requests being served at once (a bound)
          Admins,        \* users with the role admin
          SuperAdmins,   \* users with the role super admin
          Nobody,        \* no owner: a listing that filters by none, an unset field
          PageSize,
          MaxCompanies   \* how many workspaces are ever created (a bound)

Users == Admins \cup SuperAdmins

Companies == 1 .. MaxCompanies      \* ids, in the order the collection lists them

Row == [owner : Users, active : BOOLEAN]

Gone == [owner |-> Nobody, active |-> FALSE]

VARIABLES companies,     \* the collection: a row, or Gone, for every id
          created,       \* how many ids have been handed out
          findCache,     \* WorkspaceFindCache: a key and the listing kept under it
          requests       \* what every task is serving

serviceVars == <<companies, created, findCache, requests>>

Exists(w) == companies[w] # Gone

Pages == 1 .. (MaxCompanies + PageSize - 1) \div PageSize

Keys == [page : Pages, owner : Users \cup {Nobody}]

\* repository.find: a slice of the matching rows and how many there are.
Matching(owner) == {w \in Companies : Exists(w) /\ owner \in {Nobody, companies[w].owner}}

Slice(key) ==
    {w \in Matching(key.owner) :
        Cardinality({v \in Matching(key.owner) : v < w}) \div PageSize = key.page - 1}

Listing(key) == [items |-> [w \in Slice(key) |-> companies[w]],
                 total |-> Cardinality(Matching(key.owner))]

NoListing == [items |-> <<>>, total |-> 0]

Idle == [op |-> "none", step |-> "idle", user |-> Nobody, ws |-> 0, search |-> FALSE,
         key |-> [page |-> 1, owner |-> Nobody], reply |-> NoListing]

Find(u, key, search) == [Idle EXCEPT !.op = "find", !.step = "sent", !.user = u,
                                     !.key = key, !.search = search]

Ask(op, u, w) == [Idle EXCEPT !.op = op, !.step = "sent", !.user = u, !.ws = w]

ServiceInit ==
    /\ companies = [w \in Companies |-> Gone]
    /\ created = 0
    /\ findCache = {}
    /\ requests = [t \in Tasks |-> Idle]

Moves(t, step) == requests' = [requests EXCEPT ![t].step = step]

-----------------------------------------------------------------------------
(* Listing. *)

\* A super admin lists what it asks for; anybody else only its own.
OwnerFilter(r) == IF r.user \in SuperAdmins THEN r.key.owner ELSE r.user

MayFilter(r) == r.user \in SuperAdmins \/ r.key.owner \in {Nobody, r.user}

\* The query may hold page, pageSize and ownerId: any other parameter is refused.
IsValid(r) == ~r.search

\* Mutant of CacheKey: the owner asked for is in the key, not the one listed.
CacheKeyAsked(r) == r.key

CacheKey(r) == [r.key EXCEPT !.owner = OwnerFilter(r)]

Kept(key) == {e \in findCache : e.key = key}

FindIsRefused(t) ==
    /\ requests[t].op = "find" /\ requests[t].step = "sent"
    /\ ~(IsValid(requests[t]) /\ MayFilter(requests[t]))
    /\ Moves(t, "failed")
    /\ UNCHANGED <<companies, created, findCache>>

FindsInCache(t) ==
    /\ requests[t].op = "find" /\ requests[t].step = "sent"
    /\ IsValid(requests[t]) /\ MayFilter(requests[t])
    /\ \E e \in Kept(CacheKey(requests[t])) :
          requests' = [requests EXCEPT ![t].step = "done", ![t].reply = e.data]
    /\ UNCHANGED <<companies, created, findCache>>

FindsInDatabase(t) ==
    /\ requests[t].op = "find" /\ requests[t].step = "sent"
    /\ IsValid(requests[t]) /\ MayFilter(requests[t])
    /\ Kept(CacheKey(requests[t])) = {}
    /\ requests' = [requests EXCEPT ![t].step = "read",
                                    ![t].reply = Listing(CacheKey(requests[t]))]
    /\ UNCHANGED <<companies, created, findCache>>

\* The listing is kept as it was read, whatever was written since.
KeepsListing(t) ==
    /\ requests[t].op = "find" /\ requests[t].step = "read"
    /\ LET key == CacheKey(requests[t])
       IN findCache' = (findCache \ Kept(key)) \cup {[key |-> key, data |-> requests[t].reply]}
    /\ Moves(t, "done")
    /\ UNCHANGED <<companies, created>>

\* Ten minutes after it was kept a listing is no longer answered.
ListingExpires ==
    /\ \E e \in findCache : findCache' = findCache \ {e}
    /\ UNCHANGED <<companies, created, requests>>

-----------------------------------------------------------------------------
(* Changes: the write, then the cache is cleared, then the answer. *)

CreatesCompany(t) ==
    /\ requests[t].op = "create" /\ requests[t].step = "sent"
    /\ created < MaxCompanies
    /\ created' = created + 1
    /\ companies' = [companies EXCEPT ![created + 1] = [owner |-> requests[t].user, active |-> TRUE]]
    /\ requests' = [requests EXCEPT ![t].step = "written", ![t].ws = created + 1]
    /\ UNCHANGED <<findCache>>

\* The row is read to tell whether it is there and whose it is.
UpdateFinds(t) ==
    /\ requests[t].op = "update" /\ requests[t].step = "sent"
    /\ Moves(t, IF Exists(requests[t].ws) /\ companies[requests[t].ws].owner = requests[t].user
                  THEN "allowed" ELSE "failed")
    /\ UNCHANGED <<companies, created, findCache>>

UpdateWrites(t) ==
    /\ requests[t].op = "update" /\ requests[t].step = "allowed"
    /\ LET w == requests[t].ws
       IN IF Exists(w)
            THEN /\ companies' = [companies EXCEPT ![w].active = ~@]
                 /\ Moves(t, "written")
            ELSE /\ UNCHANGED companies
                 /\ Moves(t, "failed")
    /\ UNCHANGED <<created, findCache>>

\* The session rows of the workspace go first (BaileysSession has those rows).
DeletesSessions(t) ==
    /\ requests[t].op = "delete" /\ requests[t].step = "sent"
    /\ Moves(t, IF requests[t].user \in SuperAdmins THEN "swept" ELSE "failed")
    /\ UNCHANGED <<companies, created, findCache>>

DeletesCompany(t) ==
    /\ requests[t].op = "delete" /\ requests[t].step = "swept"
    /\ companies' = [companies EXCEPT ![requests[t].ws] = Gone]
    /\ Moves(t, "written")
    /\ UNCHANGED <<created, findCache>>

ClearsCache(t) ==
    /\ requests[t].step = "written"
    /\ findCache' = {}
    /\ Moves(t, "done")
    /\ UNCHANGED <<companies, created>>

\* One workspace, for its owner or a super admin.
GetsCompany(t) ==
    /\ requests[t].op = "get" /\ requests[t].step = "sent"
    /\ LET w == requests[t].ws
       IN IF Exists(w) /\ (requests[t].user \in SuperAdmins \/ companies[w].owner = requests[t].user)
            THEN requests' = [requests EXCEPT ![t].step = "done",
                                ![t].reply = [items |-> [v \in {w} |-> companies[v]], total |-> 1]]
            ELSE Moves(t, "failed")
    /\ UNCHANGED <<companies, created, findCache>>

\* The database rejects the step the request waits for, and what was done before stays.
StepFails(t) ==
    /\ requests[t].step \in {"sent", "allowed", "swept"}
    /\ Moves(t, "failed")
    /\ UNCHANGED <<companies, created, findCache>>

ServiceStep(t) ==
    \/ FindIsRefused(t) \/ FindsInCache(t) \/ FindsInDatabase(t) \/ KeepsListing(t)
    \/ CreatesCompany(t) \/ UpdateFinds(t) \/ UpdateWrites(t)
    \/ DeletesSessions(t) \/ DeletesCompany(t) \/ ClearsCache(t) \/ GetsCompany(t)
    \/ StepFails(t)

\* Any user of the API sends a request, and takes the answer.
Asks(t, u) ==
    /\ requests[t].op = "none"
    /\ \/ \E key \in Keys, search \in BOOLEAN :
             requests' = [requests EXCEPT ![t] = Find(u, key, search)]
       \/ requests' = [requests EXCEPT ![t] = Ask("create", u, 0)]
       \/ \E w \in Companies, op \in {"get", "update", "delete"} :
             requests' = [requests EXCEPT ![t] = Ask(op, u, w)]
    /\ UNCHANGED <<companies, created, findCache>>

IsAnswered(t) ==
    /\ requests[t].step \in {"done", "failed"}
    /\ requests' = [requests EXCEPT ![t] = Idle]
    /\ UNCHANGED <<companies, created, findCache>>

ServiceNext ==
    \/ ListingExpires
    \/ \E t \in Tasks : ServiceStep(t) \/ IsAnswered(t) \/ \E u \in Users : Asks(t, u)

ServiceSpec == ServiceInit /\ [][ServiceNext]_serviceVars

-----------------------------------------------------------------------------
(* An admin is answered with its own workspaces only, from the cache or not. *)
ListsStayPrivate ==
    \A t \in Tasks :
        requests[t].op = "find" /\ requests[t].step = "done" /\ requests[t].user \notin SuperAdmins =>
            \A w \in DOMAIN requests[t].reply.items :
                requests[t].reply.items[w].owner = requests[t].user
=============================================================================
