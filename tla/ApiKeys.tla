------------------------------ MODULE ApiKeys ------------------------------
(***************************************************************************)
(* The bearer credentials of the agent API (api_keys/services.py,          *)
(* signals.py, views.py; api/auth.py): one key and its issuer, the web     *)
(* workers that keep the key's row in a cache for a while, and the         *)
(* administrators who narrow or revoke the key meanwhile.                  *)
(***************************************************************************)
EXTENDS Naturals, FiniteSets

CONSTANTS
    Powers,       \* permissions
    Caches,       \* one, if the workers share it; else one for each worker
    Calls,        \* requests with the key or with an OAuth token
    CacheTtl,     \* REVOCATION_CACHE_TTL
    LastSecond,   \* bound: time
    MaxOrders     \* bound: what administrators do

ASSUME ApiKeysAssumption ==
    /\ Caches # {}
    /\ {CacheTtl, LastSecond, MaxOrders} \subseteq Nat /\ CacheTtl > 0   \* half a minute

NoKeyYet == [revoked |-> FALSE, powers |-> {}, until |-> 0]
Nowhere == [row |-> NoKeyYet, until |-> 0]
Waiting == [pc |-> "waiting"]

VARIABLES
    second,
    key,        \* the row of ApiKey: revoked_at, permissions, expires_at
    holds,      \* the issuer's permissions in the workspace; {} if no member
    member,     \* the issuer's membership
    archived,   \* the workspace
    entry,      \* the cached row
    call,       \* requests
    admin,      \* an administrator's request
    orders,
    elders,     \* history: requests that had read the row before it changed
    frontier    \* history: when the row last changed, or an elder cached what it had read

KeyVars == <<second, key, holds, member, archived, entry, call, admin, orders, elders, frontier>>

Ticks ==
    /\ second < LastSecond
    /\ second' = second + 1
    /\ UNCHANGED <<key, holds, member, archived, entry, call, admin, orders, elders, frontier>>

Orders == orders < MaxOrders /\ orders' = orders + 1
Issued == key # NoKeyYet

\* ApiKey.is_active, of a row that may be stale.
IsActive(row) == ~row.revoked /\ second < row.until

-----------------------------------------------------------------------------
(* Administrators *)

\* issue_api_key checks what the issuer holds, ...
IssueChecks ==
    \E asked \in SUBSET Powers, until \in {CacheTtl, LastSecond + 1} :
        /\ ~Issued /\ admin = Waiting /\ Orders
        /\ member /\ asked \subseteq holds /\ asked # {}
        /\ admin' = [pc |-> "issue", row |-> [revoked |-> FALSE, powers |-> asked, until |-> until]]
        /\ UNCHANGED <<second, key, holds, member, archived, entry, call, elders, frontier>>

\* ... and creates the key.
IssueCreates ==
    /\ admin.pc = "issue"
    /\ key' = admin.row
    /\ admin' = Waiting
    /\ UNCHANGED <<second, holds, member, archived, entry, call, orders, elders, frontier>>

HaveRead == {c \in Calls : call[c].pc = "store"}

\* revoke_key, and the administration's forms, save the row; ...
SaveKey(row, cache) ==
    /\ Issued /\ admin = Waiting /\ Orders
    /\ row # key
    /\ key' = row
    /\ admin' = [pc |-> "invalidate", cache |-> cache]
    /\ elders' = HaveRead
    /\ frontier' = second
    /\ UNCHANGED <<second, holds, member, archived, entry, call>>

RevokeKey == \E cache \in Caches : ~key.revoked /\ SaveKey([key EXCEPT !.revoked = TRUE], cache)
EditKey == \E cache \in Caches, powers \in SUBSET Powers : SaveKey([key EXCEPT !.powers = powers], cache)

\* ... the signal deletes what is cached.
Invalidate ==
    /\ admin.pc = "invalidate"
    /\ entry' = [entry EXCEPT ![admin.cache] = Nowhere]
    /\ admin' = Waiting
    /\ UNCHANGED <<second, key, holds, member, archived, call, orders, elders, frontier>>

\* The worker dies before that.
AdminDies ==
    /\ admin # Waiting /\ Orders
    /\ admin' = Waiting
    /\ UNCHANGED <<second, key, holds, member, archived, entry, call, elders, frontier>>

\* What a request may have met: it is kept while the request lasts.
Witnessed(is, has) ==
    call' = [c \in Calls |-> IF call[c].pc \in {"waiting", "served", "refused"} THEN call[c]
                             ELSE [call[c] EXCEPT !.met = @ \cup has, !.met_member = @ \/ is]]

\* The issuer is demoted, promoted, or leaves the workspace.
IssuerChanges ==
    \E is \in BOOLEAN, has \in SUBSET Powers :
        /\ Orders
        /\ ~is => has = {}
        /\ <<is, has>> # <<member, holds>>
        /\ member' = is /\ holds' = has
        /\ Witnessed(is, has)
        /\ UNCHANGED <<second, key, archived, entry, admin, elders, frontier>>

\* workspace_settings: the workspace is archived, or taken back.
Archive ==
    /\ Orders
    /\ archived' = ~archived
    /\ UNCHANGED <<second, key, holds, member, entry, call, admin, elders, frontier>>

-----------------------------------------------------------------------------
(* A request with the key: verify_token, authenticate *)

\* What cache.get still finds.
Cached(cache) == second < entry[cache].until

CallBegins(c, cache, pc, row) ==
    /\ call[c] = Waiting
    /\ call' = [call EXCEPT ![c] = [pc |-> pc, cache |-> cache, row |-> row,
                                    late |-> pc = "check" /\ row # key, age |-> IF pc = "check" THEN second - frontier ELSE 0,
                                    met |-> holds, met_member |-> member]]

VerifyToken(c) ==
    /\ \E cache \in Caches :
         IF Cached(cache) THEN CallBegins(c, cache, "check", entry[cache].row) ELSE CallBegins(c, cache, "miss", NoKeyYet)
    /\ Issued
    /\ UNCHANGED <<second, key, holds, member, archived, entry, admin, orders, elders, frontier>>

ReadKey(c) ==
    /\ call[c].pc = "miss"
    /\ call' = [call EXCEPT ![c].pc = "store", ![c].row = key]
    /\ UNCHANGED <<second, key, holds, member, archived, entry, admin, orders, elders, frontier>>

\* Mutant: a row that has been read may be kept for as long as it likes.
MutantEntryStored(row) == [row |-> row, until |-> LastSecond + 1]

\* cache.set with a time to live.
EntryStored(row) == [row |-> row, until |-> second + CacheTtl]

StoreRow(c) ==
    LET w == call[c] IN
    /\ w.pc = "store"
    /\ entry' = IF IsActive(w.row) THEN [entry EXCEPT ![w.cache] = EntryStored(w.row)] ELSE entry
    /\ frontier' = IF c \in elders THEN second ELSE frontier
    /\ call' = [call EXCEPT ![c].pc = "check"]
    /\ elders' = elders \ {c}
    /\ UNCHANGED <<second, key, holds, member, archived, admin, orders>>

\* The row is active, and the issuer has not left: _issuer_still_authorized.
Authorized(row) == IsActive(row) /\ member

CheckKey(c) ==
    LET w == call[c] IN
    /\ w.pc = "check"
    /\ entry' = IF Authorized(w.row) THEN entry ELSE [entry EXCEPT ![w.cache] = Nowhere]
    /\ call' = [call EXCEPT ![c] = IF Authorized(w.row) THEN [@ EXCEPT !.pc = "powers", !.late = FALSE, !.age = 0]
                                    ELSE [pc |-> "refused"]]
    /\ UNCHANGED <<second, key, holds, member, archived, admin, orders, elders, frontier>>

\* _resolve_effective_permissions.
Effective(row) == row.powers \cap holds

Authenticate(c) ==
    /\ call[c].pc = "powers"
    /\ call' = [call EXCEPT ![c] = [pc |-> "served", powers |-> Effective(@.row), met |-> @.met, met_member |-> @.met_member]]
    /\ UNCHANGED <<second, key, holds, member, archived, entry, admin, orders, elders, frontier>>

\* A request to the MCP server with an OAuth token acts as the person:
\* _resolve_active_membership.
OauthCall(c) ==
    LET usable == member /\ ~archived IN
    /\ call[c] = Waiting
    /\ call' = [call EXCEPT ![c] = IF usable THEN [pc |-> "oauth", met |-> holds, met_member |-> TRUE,
                                                   powers |-> holds]
                                             ELSE [pc |-> "refused"]]
    /\ UNCHANGED <<second, key, holds, member, archived, entry, admin, orders, elders, frontier>>

OauthServed(c) ==
    /\ call[c].pc = "oauth"
    /\ call' = [call EXCEPT ![c].pc = "served"]
    /\ UNCHANGED <<second, key, holds, member, archived, entry, admin, orders, elders, frontier>>

Returns(c) ==
    /\ call[c].pc \in {"served", "refused"}
    /\ call' = [call EXCEPT ![c] = Waiting]
    /\ UNCHANGED <<second, key, holds, member, archived, entry, admin, orders, elders, frontier>>

-----------------------------------------------------------------------------
ApiKeysInit ==
    /\ second = 0
    /\ key = NoKeyYet
    /\ holds = Powers /\ member = TRUE /\ archived = FALSE
    /\ entry = [x \in Caches |-> Nowhere]
    /\ call = [c \in Calls |-> Waiting]
    /\ admin = Waiting
    /\ orders = 0
    /\ elders = {} /\ frontier = 0

ApiKeysNext ==
    \/ Ticks
    \/ IssueChecks \/ IssueCreates \/ RevokeKey \/ EditKey \/ Invalidate \/ AdminDies
    \/ IssuerChanges \/ Archive
    \/ \E c \in Calls : \/ VerifyToken(c) \/ ReadKey(c) \/ StoreRow(c) \/ CheckKey(c) \/ Authenticate(c)
                        \/ OauthCall(c) \/ OauthServed(c) \/ Returns(c)

ApiKeysSpec == ApiKeysInit /\ [][ApiKeysNext]_KeyVars

-----------------------------------------------------------------------------
\* A request is served from a row that has changed since (revoked, for one)
\* no later than the time to live after the change; or after a request, which had
\* read the row before the change, cached it: on any worker, shared cache or not.
ChangesReachEveryWorker ==
    \A c \in Calls : call[c].pc = "check" /\ call[c].late => call[c].age < CacheTtl

\* What a request may do, its issuer could do at some time during the request;
\* and an issuer who has left serves nobody from the next request on.
NoMoreThanTheIssuer ==
    \A c \in Calls : call[c].pc = "served" => call[c].met_member /\ call[c].powers \subseteq call[c].met

\* What a key may do follows its row and its issuer.
KeysFollowTheirIssuer == ChangesReachEveryWorker /\ NoMoreThanTheIssuer
=============================================================================
