--------------------------- MODULE AccountTokens ---------------------------
(***************************************************************************)
(* One connected account and its OAuth tokens: the health check, the       *)
(* refresh on the way to a publication or a composer panel, connecting,    *)
(* reconnecting and disconnecting.  Each of them loads the row, talks to   *)
(* the platform, and saves columns of the row it loaded.                   *)
(* Tokens are numbered in the order the platform issues them; 0 is the     *)
(* empty column.  What a platform accepts is taken from how its client     *)
(* uses it.                                                                *)
(***************************************************************************)
EXTENDS Naturals, FiniteSets

CONSTANTS
    Checkers,        \* processes that run health checks
    Refreshers,      \* engine threads and composer requests
    Closers,         \* disconnect requests
    TokenBound,      \* bound: how many tokens each platform of the instance ever issues
    MaxTokenFaults        \* bound: replies lost, failures of the platform and crashes

ASSUME AccountTokensAssumption == TokenBound \in [DOMAIN TokenBound -> Nat \ {0}] /\ MaxTokenFaults \in Nat

VARIABLES
    brand,        \* the account's platform
    account,      \* the SocialAccount row
    queued,       \* a health check is queued
    agent,        \* the processes: where they are and the instance they hold
    issued,       \* tokens issued so far
    age,          \* of each issued token: fresh, soon (within seven days of its end) or past
    accessLive,   \* access tokens the platform accepts
    refreshLive,  \* refresh tokens the platform accepts
    faults,
    overlapped,   \* history: tokens were saved over tokens saved since the load
    grantLost     \* history: a crash or a lost reply kept a renewal or a revocation from the row

TokenVars == <<brand, account, queued, agent, issued, age, accessLive, refreshLive,
               faults, overlapped, grantLost>>

MaxTokens == TokenBound[brand]
Generations == 1..MaxTokens
Processes == Checkers \cup Refreshers \cup Closers
NoAccount == [status |-> "none"]
Accounts == [access : 0..MaxTokens, refresh : 0..MaxTokens, expires : 0..MaxTokens,
             status : {"connected", "token_expiring", "error"}]
NoWork == [pc |-> "idle"]
Exists == account # NoAccount

-----------------------------------------------------------------------------
(* The clients.  grant: what exchange_code or create_session answers with, *)
(* a refresh token, none, or the access token in its place.  renewal: what *)
(* refresh_token answers with, a rotated token, none (the column is kept), *)
(* the one it was given, or the new access token.  expires: whether the    *)
(* connection records when the access token ends.  short: it ends within   *)
(* a day.  revoked: revoke_token tells the platform.                       *)

BlueskyTokens   == [grant |-> {"new"},    renewal |-> {"rotated"}, expires |-> TRUE, short |-> TRUE, revoked |-> TRUE]
LinkedInTokens  == [grant |-> {"new", "none"}, renewal |-> {"rotated", "none"}, expires |-> TRUE, short |-> FALSE, revoked |-> TRUE]
TikTokTokens    == [grant |-> {"new", "none"}, renewal |-> {"rotated", "none"}, expires |-> TRUE, short |-> TRUE, revoked |-> TRUE]
YouTubeTokens   == [grant |-> {"new", "none"}, renewal |-> {"rotated", "same"}, expires |-> TRUE, short |-> TRUE, revoked |-> TRUE]
PinterestTokens == [grant |-> {"new", "none"}, renewal |-> {"rotated", "same"}, expires |-> TRUE, short |-> FALSE, revoked |-> FALSE]
GoogleTokens    == [grant |-> {"new", "none"}, renewal |-> {"same"}, expires |-> TRUE, short |-> TRUE, revoked |-> TRUE]
InstagramLoginTokens == [grant |-> {"access"}, renewal |-> {"access"}, expires |-> TRUE, short |-> FALSE, revoked |-> TRUE]
ThreadsTokens   == [grant |-> {"none"}, renewal |-> {"none"}, expires |-> TRUE, short |-> FALSE, revoked |-> FALSE]
FacebookTokens  == [grant |-> {"none"}, renewal |-> {"none"}, expires |-> TRUE, short |-> FALSE, revoked |-> TRUE]
InstagramTokens == [FacebookTokens EXCEPT !.revoked = FALSE]
MastodonTokens  == [grant |-> {"none"}, renewal |-> {"same"}, expires |-> FALSE, short |-> FALSE, revoked |-> TRUE]

\* A page picked from a list is stored without the end of its token.
Picked(tokens) == [tokens EXCEPT !.expires = FALSE]

Tokens ==
    CASE brand = "bluesky"           -> BlueskyTokens
      [] brand = "linkedin_personal" -> LinkedInTokens
      [] brand = "linkedin_company"  -> Picked(LinkedInTokens)
      [] brand = "tiktok"            -> TikTokTokens
      [] brand = "youtube"           -> YouTubeTokens
      [] brand = "pinterest"         -> PinterestTokens
      [] brand = "google_business"   -> GoogleTokens
      [] brand = "instagram_login"   -> InstagramLoginTokens
      [] brand = "threads"           -> ThreadsTokens
      [] brand = "facebook"          -> Picked(FacebookTokens)
      [] brand = "instagram"         -> Picked(InstagramTokens)
      [] brand = "mastodon"          -> MastodonTokens

SessionAuth == brand = "bluesky"
InstanceAuth == brand = "mastodon"

-----------------------------------------------------------------------------
(* The platform *)

\* A refresh token that is the access token ends with it.
Accepts(token) == token \in refreshLive

IssueToken(refreshable) ==
    LET g == issued + 1 IN
    /\ issued < MaxTokens
    /\ issued' = g
    /\ age' = [age EXCEPT ![g] = IF Tokens.short THEN "soon" ELSE "fresh"]
    /\ accessLive' = accessLive \cup {g}
    /\ refreshLive' = refreshable

\* Tokens somebody still has; the others may age unseen.
Held ==
    (IF Exists THEN {account.access, account.refresh} ELSE {})
        \cup UNION {{agent[p].row.access, agent[p].row.refresh} :
                      p \in {q \in Processes : agent[q].pc \notin {"idle", "delete"}}}

\* Time passes for one token; a token without an end stays as it is.
TokenAges ==
    \E g \in Held \ {0} :
        /\ age[g] # "past"
        /\ brand \notin {"mastodon", "facebook", "instagram"}
        /\ age' = [age EXCEPT ![g] = IF @ = "fresh" THEN "soon" ELSE "past"]
        /\ IF age[g] = "soon"
             THEN /\ accessLive' = accessLive \ {g}
                  /\ refreshLive' = IF "access" \in Tokens.grant THEN refreshLive \ {g} ELSE refreshLive
             ELSE UNCHANGED <<accessLive, refreshLive>>
        /\ UNCHANGED <<brand, account, queued, agent, issued, faults, overlapped, grantLost>>

TokenFault == faults < MaxTokenFaults /\ faults' = faults + 1

-----------------------------------------------------------------------------
(* social_accounts/models.py and views.py *)

ExpiringSoon(loadedRow) == loadedRow.expires # 0 /\ age[loadedRow.expires] # "fresh"

\* The columns a refreshed grant writes: an absent refresh token keeps the old one.
WithTokens(loadedRow, g, refresh) ==
    [loadedRow EXCEPT !.access = g, !.refresh = IF refresh # 0 THEN refresh ELSE @, !.expires = g,
                !.status = "connected"]

\* update_or_create with the tokens of a new grant, whatever is in flight.
CreateOrUpdateAccount ==
    \E kind \in Tokens.grant :
        LET g == issued + 1
            refresh == IF kind = "none" THEN 0 ELSE g
        IN /\ IssueToken(IF refresh = 0 THEN refreshLive ELSE refreshLive \cup {g})
           /\ account' = [access |-> g, refresh |-> refresh,
                          expires |-> IF Tokens.expires THEN g ELSE 0, status |-> "connected"]
           /\ UNCHANGED <<brand, queued, agent, faults, overlapped, grantLost>>

\* Disconnecting revokes the token it has loaded, on a best effort.
Disconnect(p) ==
    /\ agent[p] = NoWork
    /\ Exists
    /\ \/ /\ Tokens.revoked
          /\ accessLive' = accessLive \ {account.access}
          /\ refreshLive' = refreshLive \ {account.refresh}
          /\ UNCHANGED faults
       \/ /\ IF Tokens.revoked THEN TokenFault ELSE UNCHANGED faults
          /\ UNCHANGED <<accessLive, refreshLive>>
    /\ agent' = [agent EXCEPT ![p] = [pc |-> "delete"]]
    /\ UNCHANGED <<brand, account, queued, issued, age, overlapped, grantLost>>

DeleteAccount(p) ==
    /\ agent[p].pc = "delete"
    /\ account' = NoAccount
    /\ agent' = [agent EXCEPT ![p] = NoWork]
    /\ UNCHANGED <<brand, queued, issued, age, accessLive, refreshLive, faults, overlapped, grantLost>>

-----------------------------------------------------------------------------
(* refresh_token, called by a health check or on the way to a publication *)

\* The columns of a row that an update of a loaded instance writes back.
SaveTokens(p, loadedRow) ==
    /\ account' = loadedRow
    /\ overlapped' = (overlapped \/ (Exists /\ <<account.access, account.refresh>> # agent[p].loaded))

\* The platform renews the grant and the reply arrives; a rotated token replaces its predecessor.
RefreshAnswers(p, next) ==
    LET old == agent[p].row.refresh
        g == issued + 1
    IN /\ agent[p].pc = "refresh"
       /\ Accepts(old)
       /\ \E kind \in Tokens.renewal :
            /\ IssueToken(CASE kind = "rotated" -> (refreshLive \ {old}) \cup {g}
                            [] kind = "access"  -> refreshLive \cup {g}
                            [] OTHER            -> refreshLive)
            /\ agent' = [agent EXCEPT
                 ![p].row = WithTokens(@, g, CASE kind \in {"rotated", "access"} -> g
                                               [] kind = "same" -> old
                                               [] OTHER -> 0),
                 ![p].pc = next]
       /\ UNCHANGED <<brand, account, queued, faults, overlapped, grantLost>>

\* The platform renews the grant and the reply is lost.
RefreshLosesReply(p, next) ==
    LET old == agent[p].row.refresh
        g == issued + 1
    IN /\ agent[p].pc = "refresh"
       /\ Accepts(old)
       /\ TokenFault
       /\ IssueToken(IF "rotated" \in Tokens.renewal THEN (refreshLive \ {old}) \cup {g} ELSE refreshLive)
       /\ grantLost' = TRUE
       /\ agent' = [agent EXCEPT ![p] = next]
       /\ UNCHANGED <<brand, account, queued, overlapped>>

\* It refuses the token, or the call does not get through; a platform at the
\* bound on its tokens refuses.
RefreshFails(p, next) ==
    /\ agent[p].pc = "refresh"
    /\ IF Accepts(agent[p].row.refresh) /\ issued < MaxTokens THEN TokenFault ELSE UNCHANGED faults
    /\ agent' = [agent EXCEPT ![p] = next]
    /\ UNCHANGED <<brand, account, queued, issued, age, accessLive, refreshLive, overlapped, grantLost>>

-----------------------------------------------------------------------------
(* The engine and the composer's panels: only accounts with OAuth tokens   *)
(* whose end is recorded.  What they save they save at once.               *)

StartRefresh(p) ==
    /\ agent[p] = NoWork
    /\ Exists
    /\ ExpiringSoon(account)
    /\ ~SessionAuth /\ ~InstanceAuth
    /\ agent' = [agent EXCEPT ![p] = [pc |-> "refresh", row |-> account,
                                      loaded |-> <<account.access, account.refresh>>]]
    /\ UNCHANGED <<brand, account, queued, issued, age, accessLive, refreshLive, faults, overlapped, grantLost>>

\* Without the row the update raises; what called it goes on with the old token.
SaveRefreshed(p) ==
    /\ agent[p].pc = "store"
    /\ IF Exists THEN SaveTokens(p, agent[p].row) ELSE UNCHANGED <<account, overlapped>>
    /\ agent' = [agent EXCEPT ![p] = NoWork]
    /\ UNCHANGED <<brand, queued, issued, age, accessLive, refreshLive, faults, grantLost>>

RefreshToken(p) ==
    \/ StartRefresh(p)
    \/ RefreshAnswers(p, "store")
    \/ RefreshLosesReply(p, NoWork)
    \/ RefreshFails(p, NoWork)
    \/ SaveRefreshed(p)

-----------------------------------------------------------------------------
(* social_accounts/tasks.py *)

\* Mutant: only accounts whose refresh failed are checked again.
MutantRechecked == {"token_expiring"}

Rechecked == {"connected", "token_expiring"}

\* Every six hours a check is queued for each account of these states.
ScheduleAllHealthChecks ==
    /\ ~queued
    /\ account.status \in Rechecked
    /\ queued' = TRUE
    /\ UNCHANGED <<brand, account, agent, issued, age, accessLive, refreshLive, faults, overlapped, grantLost>>

NeedsRefresh(loadedRow) ==
    /\ ExpiringSoon(loadedRow) \/ (SessionAuth /\ loadedRow.expires = 0)
    /\ loadedRow.refresh # 0

\* A queued check finds no account and ends, or loads it.
StartHealthCheck(p) ==
    /\ agent[p] = NoWork
    /\ queued
    /\ queued' = FALSE
    /\ agent' = IF Exists
         THEN [agent EXCEPT ![p] = [pc |-> IF NeedsRefresh(account) THEN "refresh" ELSE "profile",
                                    row |-> account, loaded |-> <<account.access, account.refresh>>]]
         ELSE agent
    /\ UNCHANGED <<brand, account, issued, age, accessLive, refreshLive, faults, overlapped, grantLost>>

RefreshFailed(p) == [agent[p] EXCEPT !.row.status = "token_expiring", !.pc = "profile"]

ProfileAnswers(p) ==
    /\ agent[p].pc = "profile"
    /\ agent[p].row.access \in accessLive
    /\ agent' = [agent EXCEPT
         ![p].row.status = IF @ = "token_expiring" THEN @ ELSE "connected",
         ![p].pc = "save"]
    /\ UNCHANGED <<brand, account, queued, issued, age, accessLive, refreshLive, faults, overlapped, grantLost>>

ProfileFails(p) ==
    /\ agent[p].pc = "profile"
    /\ IF agent[p].row.access \in accessLive THEN TokenFault ELSE UNCHANGED faults
    /\ agent' = [agent EXCEPT ![p].row.status = "error", ![p].pc = "save"]
    /\ UNCHANGED <<brand, account, queued, issued, age, accessLive, refreshLive, overlapped, grantLost>>

\* Mutant: the row is saved whole, which inserts it when it is gone.
MutantSaveHealth(p) ==
    /\ agent[p].pc = "save"
    /\ SaveTokens(p, agent[p].row)
    /\ agent' = [agent EXCEPT ![p] = NoWork]
    /\ UNCHANGED <<brand, queued, issued, age, accessLive, refreshLive, faults, grantLost>>

\* An update with a list of columns fails when the row is gone; the task is
\* tried again and finds nothing.
SaveHealth(p) ==
    /\ agent[p].pc = "save"
    /\ IF Exists
         THEN SaveTokens(p, agent[p].row) /\ UNCHANGED queued
         ELSE queued' = TRUE /\ UNCHANGED <<account, overlapped>>
    /\ agent' = [agent EXCEPT ![p] = NoWork]
    /\ UNCHANGED <<brand, issued, age, accessLive, refreshLive, faults, grantLost>>

\* The process holds tokens the row has not got yet.
Renewed(p) ==
    /\ agent[p].pc \in {"store", "profile", "save"}
    /\ <<agent[p].row.access, agent[p].row.refresh>> # agent[p].loaded

\* A process dies; what a refresh has brought is lost with it.
TokenCrash(p) ==
    /\ agent[p] # NoWork
    /\ TokenFault
    /\ grantLost' = (grantLost \/ Renewed(p) \/ agent[p].pc = "delete")
    /\ agent' = [agent EXCEPT ![p] = NoWork]
    /\ queued' = (queued \/ p \in Checkers)
    /\ UNCHANGED <<brand, account, issued, age, accessLive, refreshLive, overlapped>>

HealthStep(p) ==
    \/ RefreshAnswers(p, "profile")
    \/ RefreshLosesReply(p, RefreshFailed(p))
    \/ RefreshFails(p, RefreshFailed(p))
    \/ ProfileAnswers(p)
    \/ ProfileFails(p)
    \/ SaveHealth(p)

-----------------------------------------------------------------------------
TokensInit ==
    /\ brand \in DOMAIN TokenBound
    /\ account = NoAccount
    /\ queued = FALSE
    /\ agent = [p \in Processes |-> NoWork]
    /\ issued = 0
    /\ age = [g \in Generations |-> "fresh"]
    /\ accessLive = {} /\ refreshLive = {}
    /\ faults = 0 /\ overlapped = FALSE /\ grantLost = FALSE

TokensNext ==
    \/ TokenAges
    \/ CreateOrUpdateAccount
    \/ ScheduleAllHealthChecks
    \/ \E p \in Checkers : StartHealthCheck(p) \/ HealthStep(p) \/ TokenCrash(p)
    \/ \E p \in Refreshers : RefreshToken(p) \/ TokenCrash(p)
    \/ \E p \in Closers : Disconnect(p) \/ DeleteAccount(p) \/ TokenCrash(p)

\* The worker runs what is queued, and a call ends by its answer or its timeout.
TokensFairness ==
    /\ WF_TokenVars(ScheduleAllHealthChecks)
    /\ WF_TokenVars(\E p \in Checkers : StartHealthCheck(p))
    /\ \A p \in Checkers : WF_TokenVars(HealthStep(p))

TokensSpec == TokensInit /\ [][TokensNext]_TokenVars /\ TokensFairness
-----------------------------------------------------------------------------
\* The row, the processes and the tokens are what they can be.
TokensTypeOK ==
    /\ account \in Accounts \cup {NoAccount}
    /\ queued \in BOOLEAN
    /\ \A p \in Processes : agent[p].pc \in {"idle", "refresh", "profile", "save", "store", "delete"}
    /\ issued \in 0..MaxTokens
    /\ accessLive \cup refreshLive \subseteq 1..issued

\* The stored refresh token works, unless it has run out by itself, a renewal
\* or a disconnect is under way, a reply or a process was lost, or a process
\* saved tokens over those another one had saved since it loaded the row: the
\* columns the refreshes write are enough as long as nobody overlap.
DeadGrantIsExplained ==
    Exists /\ account.refresh # 0 /\ account.refresh \notin refreshLive =>
        \/ overlapped \/ grantLost
        \/ age[account.refresh] = "past"
        \/ \E p \in Processes : Renewed(p) \/ agent[p].pc = "delete"

\* Only connecting brings an account into being: a health check or a refresh
\* that ends after a disconnect does not restore what it had loaded.
DisconnectedStaysGone ==
    [][~Exists /\ Exists' => issued' > issued]_TokenVars

\* An access token that no longer works is replaced, or the account's state
\* says so, however checks, refreshes and reconnects overlap: the "connected"
\* a late check writes is not the last word.
DeadTokenIsReported ==
    (account.status = "connected" /\ account.access \notin accessLive)
        ~> (account.status # "connected" \/ account.access \in accessLive)

\* Whatever is saved over whatever was loaded: no grant is thrown away, and no
\* disconnected account comes back.
GrantsAreKept == [](TokensTypeOK /\ DeadGrantIsExplained) /\ DisconnectedStaysGone
=============================================================================
