---------------------------- MODULE ConnectFlows ----------------------------
(***************************************************************************)
(* Connecting an account through a platform's authorization page, by a     *)
(* member of the workspace (social_accounts/views.py) or by a client who   *)
(* has a connection link (onboarding/views.py).  A flow starts in one      *)
(* request, leaves for the platform, and comes back in another; between    *)
(* them its nonce waits in the browser's session, a row that every request *)
(* loads when it begins and saves whole when it ends.                      *)
(***************************************************************************)
EXTENDS Naturals, FiniteSets, Sequences

CONSTANTS
    Requests,   \* requests of the browser that can be in progress together
    Kinds,      \* of platforms: one account, pages to pick from, an instance of one's own
    Instances,  \* Mastodon instances
    MaxFlows,   \* bound: flows started
    MAX_OAUTH_INITIATIONS_PER_HOUR,
    NoApp       \* no MastodonAppRegistration

ASSUME ConnectFlowsAssumption ==
    /\ Kinds \subseteq {"single", "pages", "mastodon", "bluesky"}
    /\ MaxFlows \in Nat \ {0} /\ MAX_OAUTH_INITIATIONS_PER_HOUR \in Nat \ {0}
    /\ NoApp \notin Instances /\ NoApp \notin [client : Requests, way : {"member", "link"}]

VARIABLES
    open,       \* of each way in, whether it is open: the permission, the active link
    session,    \* the session row: the pending nonce of each way in, the pages to pick from; 0 is absent
    flows,      \* the flows started, by nonce
    leaving,    \* nonces whose redirect has reached the browser
    codes,      \* nonces the platform has issued a code for
    spent,      \* codes exchanged
    apps,       \* MastodonAppRegistration by instance
    rate,       \* the link's counter in the cache
    request,    \* the requests in progress
    starts,     \* history: initiations let through, and counts overwritten by other counts
    exchanges,  \* history: exchange_code calls
    inside,     \* history: flows past the checks when their way in was closed
    late        \* history: flows that stored an account after that

FlowVars == <<open, session, flows, leaving, codes, spent, apps, rate, request,
              starts, exchanges, inside, late>>

Ways == {"member", "link"}
NoRequest == [pc |-> "idle"]
Nonces == 0..MaxFlows

\* The session as a request holds it.
Holds(r) == request[r].sess
Goes(r, pc) == request' = [request EXCEPT ![r].pc = pc]
Leaves(r, sess) == request' = [request EXCEPT ![r] = [pc |-> "end", sess |-> sess]]

-----------------------------------------------------------------------------
(* Starting a flow *)

\* Any request: it changes nothing in the session and saves it.
ViewPage(r) ==
    /\ request[r] = NoRequest
    /\ request' = [request EXCEPT ![r] = [pc |-> "end", sess |-> session]]
    /\ UNCHANGED <<open, session, flows, leaving, codes, spent, apps, rate, starts, exchanges, inside, late>>

\* A fresh nonce replaces the one that waited for the same way in.
Begins(r, flow, sess) ==
    LET n == Len(flows) + 1 IN
    /\ n <= MaxFlows
    /\ flows' = Append(flows, flow)
    /\ request' = [request EXCEPT ![r] = [pc |-> "end", sess |-> [sess EXCEPT ![flow.way] = n], to |-> n]]

Redirecting == Kinds \ {"mastodon", "bluesky"}
FlowOf(way, kind) == [way |-> way, kind |-> kind, instance |-> NoApp, client |-> NoApp]

\* The buttons for a new account and for one that is there: nothing is shared
\* before the redirect.
MemberStarts(r) ==
    /\ request[r] = NoRequest
    /\ open["member"]
    /\ \E kind \in Redirecting : Begins(r, FlowOf("member", kind), session)
    /\ UNCHANGED <<open, session, leaving, codes, spent, apps, rate, starts, exchanges, inside, late>>

ConnectPlatform(r) == MemberStarts(r)
Reconnect(r) == MemberStarts(r)

\* The link's counter is read and compared, and written in a second call.
UnderLimit == rate < MAX_OAUTH_INITIATIONS_PER_HOUR

\* connection_oauth_start.
ConnectionOAuthStart(r) ==
    /\ request[r] = NoRequest
    /\ open["link"]
    /\ \E kind \in Redirecting :
        request' = [request EXCEPT ![r] =
            IF UnderLimit
              THEN [pc |-> "count", sess |-> session, count |-> rate, flow |-> FlowOf("link", kind)]
              ELSE [pc |-> "end", sess |-> session]]
    /\ UNCHANGED <<open, session, flows, leaving, codes, spent, apps, rate, starts, exchanges, inside, late>>

CountInitiation(r) ==
    /\ request[r].pc = "count"
    /\ rate' = request[r].count + 1
    /\ starts' = [passed |-> starts.passed + 1, overwritten |-> starts.overwritten + (rate - request[r].count)]
    /\ Begins(r, request[r].flow, Holds(r))
    /\ UNCHANGED <<open, session, leaving, codes, spent, apps, exchanges, inside, late>>

\* The registration of the instance, if there is one.
MastodonStarts(r, way) ==
    /\ request[r] = NoRequest
    /\ open[way]
    /\ "mastodon" \in Kinds
    /\ \E i \in Instances :
        LET app == apps[i]
            flow == [FlowOf(way, "mastodon") EXCEPT
                       !.instance = i, !.client = IF app = NoApp THEN NoApp ELSE app.client]
        IN IF app = NoApp
             THEN /\ request' = [request EXCEPT ![r] = [pc |-> "register", sess |-> session, flow |-> flow]]
                  /\ UNCHANGED flows
             ELSE Begins(r, flow, session)
    /\ UNCHANGED <<open, session, leaving, codes, spent, apps, rate, starts, exchanges, inside, late>>

ConnectMastodon(r) == MastodonStarts(r, "member")
ConnectionMastodonStart(r) == MastodonStarts(r, "link")

\* The instance issues a client, for the redirect of this way in.
BeginsAs(r, client) == Begins(r, [request[r].flow EXCEPT !.client = client], Holds(r))

\* register_app, then the row of the instance, of which there is one; an error
\* of either ends the request.
RegisterApp(r) ==
    /\ request[r].pc = "register"
    /\ \/ /\ apps[request[r].flow.instance] = NoApp
          /\ apps' = [apps EXCEPT ![request[r].flow.instance] = [client |-> r, way |-> request[r].flow.way]]
          /\ BeginsAs(r, r)
       \/ Leaves(r, Holds(r)) /\ UNCHANGED <<apps, flows>>
    /\ UNCHANGED <<open, session, leaving, codes, spent, rate, starts, exchanges, inside, late>>

\* A password in place of a redirect: the session with the platform is made,
\* and the account stored, in one request.
BlueskyConnects(r, way) ==
    LET n == Len(flows) + 1 IN
    /\ request[r] = NoRequest
    /\ open[way]
    /\ "bluesky" \in Kinds /\ n <= MaxFlows
    /\ flows' = Append(flows, FlowOf(way, "bluesky"))
    /\ \/ request' = [request EXCEPT ![r] = [pc |-> "store", sess |-> session, nonce |-> n]]
       \/ Leaves(r, session)
    /\ UNCHANGED <<open, session, leaving, codes, spent, apps, rate, starts, exchanges, inside, late>>

ConnectBluesky(r) == BlueskyConnects(r, "member")
ConnectionBlueskyConnect(r) == BlueskyConnects(r, "link")

\* The response leaves, and the session is saved as this request holds it.
EndRequest(r) ==
    /\ request[r].pc = "end"
    /\ session' = Holds(r)
    /\ leaving' = IF "to" \in DOMAIN request[r] THEN leaving \cup {request[r].to} ELSE leaving
    /\ request' = [request EXCEPT ![r] = NoRequest]
    /\ UNCHANGED <<open, flows, codes, spent, apps, rate, starts, exchanges, inside, late>>

-----------------------------------------------------------------------------
(* The platform *)

\* A Mastodon instance serves the redirect its client was registered with.
Servable(flow) == flow.kind = "mastodon" => apps[flow.instance].way = flow.way

Authorize ==
    \E n \in leaving :
        /\ Servable(flows[n])
        /\ leaving' = leaving \ {n}
        /\ codes' = codes \cup {n}
        /\ UNCHANGED <<open, session, flows, spent, apps, rate, request, starts, exchanges, inside, late>>

\* The user never comes back, or after the signed state has run out of time.
Abandon ==
    \E n \in leaving :
        /\ leaving' = leaving \ {n}
        /\ UNCHANGED <<open, session, flows, codes, spent, apps, rate, request, starts, exchanges, inside, late>>

\* The user declines: the nonce that waits is taken out, whichever it is.
Decline(r) ==
    /\ request[r] = NoRequest
    /\ \E n \in leaving :
        /\ leaving' = leaving \ {n}
        /\ Leaves(r, [session EXCEPT ![flows[n].way] = 0])
    /\ UNCHANGED <<open, session, flows, codes, spent, apps, rate, starts, exchanges, inside, late>>

-----------------------------------------------------------------------------
(* Coming back *)

\* Mutant: a session without the nonce is let through.
MutantMatches(waiting, n) == waiting # 0

Matches(waiting, n) == waiting = n

StillOpen(way) == open[way]

\* Up to the exchange: the nonce is taken out of the session and matched, and
\* the way in is looked at again.
Callback(r, way) ==
    /\ request[r] = NoRequest
    /\ \E n \in codes :
        LET waiting == session[way]
            popped == [session EXCEPT ![way] = 0]
        IN /\ flows[n].way = way
           /\ request' = [request EXCEPT ![r] =
                IF Matches(waiting, n) /\ StillOpen(way)
                  THEN [pc |-> "exchange", sess |-> popped, nonce |-> n, instance |-> flows[waiting].instance]
                  ELSE [pc |-> "end", sess |-> popped]]
    /\ UNCHANGED <<open, session, flows, leaving, codes, spent, apps, rate, starts, exchanges, inside, late>>

OAuthCallback(r) == Callback(r, "member")
ConnectionOAuthCallback(r) == Callback(r, "link")

\* The provider that exchanges the code: an instance's, with the client of its row.
ExchangedWith(flow, instance) ==
    IF instance # NoApp
      THEN [instance |-> instance, client |-> IF apps[instance] = NoApp THEN NoApp ELSE apps[instance].client]
      ELSE [instance |-> NoApp, client |-> NoApp]

\* exchange_code and the profile: a code works once; any failure is reported
\* on the next page and ends the request.
ExchangeCode(r) ==
    LET n == request[r].nonce IN
    /\ request[r].pc = "exchange"
    /\ exchanges' = exchanges \cup {[nonce |-> n, with |-> ExchangedWith(flows[n], request[r].instance)]}
    /\ \/ /\ n \notin spent
          /\ spent' = spent \cup {n}
          /\ Goes(r, "store") \/ Leaves(r, Holds(r))
       \/ Leaves(r, Holds(r)) /\ UNCHANGED spent
    /\ UNCHANGED <<open, session, flows, leaving, codes, apps, rate, starts, inside, late>>

Stored(r) ==
    LET n == request[r].nonce IN
    /\ Leaves(r, Holds(r))
    /\ late' = IF open[flows[n].way] THEN late ELSE late \cup {n}

\* A member picks from the pages first.
StoreForMember(r) ==
    LET n == request[r].nonce IN
    /\ request[r].pc = "store"
    /\ flows[n].way = "member"
    /\ IF flows[n].kind = "pages"
         THEN Leaves(r, [Holds(r) EXCEPT !.pages = n]) /\ UNCHANGED late
         ELSE Stored(r)
    /\ UNCHANGED <<open, session, flows, leaving, codes, spent, apps, rate, starts, exchanges, inside>>

\* A link connects every page.
StoreForLink(r) ==
    /\ request[r].pc = "store"
    /\ flows[request[r].nonce].way = "link"
    /\ Stored(r)
    /\ UNCHANGED <<open, session, flows, leaving, codes, spent, apps, rate, starts, exchanges, inside>>

\* select_account: the pages are taken from the session, not from the page shown.
SelectAccount(r) ==
    /\ request[r] = NoRequest
    /\ session.pages # 0
    /\ request' = [request EXCEPT ![r] = [pc |-> "end", sess |-> [session EXCEPT !.pages = 0]]]
    /\ UNCHANGED <<open, session, flows, leaving, codes, spent, apps, rate, starts, exchanges, inside, late>>

\* The member loses the permission, or the link is revoked or runs out.
Close ==
    \E way \in Ways :
        /\ open[way]
        /\ open' = [open EXCEPT ![way] = FALSE]
        /\ inside' = inside \cup {request[r].nonce : r \in
                        {q \in Requests : /\ request[q].pc \in {"exchange", "store"}
                                          /\ flows[request[q].nonce].way = way}}
        /\ UNCHANGED <<session, flows, leaving, codes, spent, apps, rate, request, starts, exchanges, late>>

-----------------------------------------------------------------------------
FlowsInit ==
    /\ open = [w \in Ways |-> TRUE]
    /\ session = [w \in Ways \cup {"pages"} |-> 0]
    /\ flows = <<>>
    /\ leaving = {} /\ codes = {} /\ spent = {}
    /\ apps = [i \in Instances |-> NoApp]
    /\ rate = 0
    /\ request = [r \in Requests |-> NoRequest]
    /\ starts = [passed |-> 0, overwritten |-> 0]
    /\ exchanges = {} /\ inside = {} /\ late = {}

FlowsNext ==
    \/ \E r \in Requests :
        \/ ViewPage(r) \/ EndRequest(r)
        \/ ConnectPlatform(r) \/ Reconnect(r) \/ ConnectionOAuthStart(r) \/ CountInitiation(r)
        \/ ConnectMastodon(r) \/ ConnectionMastodonStart(r) \/ RegisterApp(r)
        \/ ConnectBluesky(r) \/ ConnectionBlueskyConnect(r) \/ Decline(r)
        \/ OAuthCallback(r) \/ ConnectionOAuthCallback(r) \/ ExchangeCode(r)
        \/ StoreForMember(r) \/ StoreForLink(r) \/ SelectAccount(r)
    \/ Authorize \/ Abandon \/ Close

FlowsSpec == FlowsInit /\ [][FlowsNext]_FlowVars

-----------------------------------------------------------------------------
\* What waits, leaves and comes back are nonces of flows that were started.
FlowsTypeOK ==
    /\ session \in [Ways \cup {"pages"} -> Nonces]
    /\ leaving \cup codes \cup spent \subseteq 1..Len(flows)
    /\ rate \in Nat
    /\ late \cup inside \subseteq 1..Len(flows)

\* A code is taken to the instance that issued it, with the client its flow
\* was started with, although two tabs start flows at different instances in
\* one session, a page that loads and ends late puts an old session back, and
\* two first flows register the same instance at once.
ExchangedWhereIssued ==
    \A e \in exchanges :
        e.with = [instance |-> flows[e.nonce].instance, client |-> flows[e.nonce].client]

\* Once a link is revoked or the permission is gone, only the callbacks that
\* were already past the check store an account.
ClosedIsClosed == late \subseteq inside

\* A link lets through no more initiations than the limit and those whose
\* count another request's count has overwritten.
InitiationsBounded ==
    starts.passed <= MAX_OAUTH_INITIATIONS_PER_HOUR + starts.overwritten

\* What a flow ends with is what it was started with, by whom it was allowed to.
FlowsEndAsTheyBegan ==
    FlowsTypeOK /\ ExchangedWhereIssued /\ ClosedIsClosed /\ InitiationsBounded
=============================================================================
