-------------------------------- MODULE Portal --------------------------------
(***************************************************************************)
(* The client portal of one client in one workspace                        *)
(* (client_portal/services.py, views.py, views_admin.py, decorators.py):   *)
(* magic links that are sent, opened once and withdrawn, the sessions they *)
(* open, and what a session may do once the client has been removed.       *)
(***************************************************************************)
EXTENDS Naturals, FiniteSets

CONSTANTS
    Links,        \* rows of MagicLinkToken
    Managers,     \* requests of managers that can be in progress together
    Browsers,     \* browsers of the client, each with one request at a time
    MaxVisits     \* bound: requests, and links that run out

ASSUME PortalAssumption == Links # {} /\ Managers # {} /\ Browsers # {} /\ MaxVisits \in Nat

Absent == [pc |-> "absent"]

VARIABLES
    link,        \* MagicLinkToken: "none", "live" or "expired"
    consumed,    \* MagicLinkToken.is_consumed
    isClient,    \* the client's membership
    manager,     \* requests of managers
    browser,     \* requests of the client
    portalSession,     \* browsers with a portal session
    visits,
    opened,      \* history: sessions opened with each link
    crowded,     \* history: two managers' requests were in progress together
    intruded     \* history: a request acted for who was no member throughout it

PortalVars == <<link, consumed, isClient, manager, browser, portalSession, visits, opened, crowded, intruded>>

Visits == visits < MaxVisits /\ visits' = visits + 1
Usable == {l \in Links : link[l] = "live" /\ ~consumed[l]}

\* generate_magic_link expires the links that may still be used, remove_client
\* all that have not expired.
Withdrawn(kind) ==
    [l \in Links |-> IF link[l] = "live" /\ (kind = "remove" \/ ~consumed[l]) THEN "expired" ELSE link[l]]

-----------------------------------------------------------------------------
(* Managers *)

\* send_magic_link and remove_client find the client, ...
ManagerBegins(m, kind) ==
    /\ manager[m] = Absent /\ isClient /\ Visits
    /\ manager' = [manager EXCEPT ![m] = [pc |-> "withdraw", kind |-> kind]]
    /\ crowded' = (crowded \/ \E o \in Managers : manager[o] # Absent)
    /\ UNCHANGED <<link, consumed, isClient, browser, portalSession, opened, intruded>>

\* ... withdraw the links there are, ...
Withdraws(m) ==
    /\ manager[m].pc = "withdraw"
    /\ link' = Withdrawn(manager[m].kind)
    /\ manager' = [manager EXCEPT ![m].pc = manager[m].kind]
    /\ UNCHANGED <<consumed, isClient, browser, portalSession, visits, opened, crowded, intruded>>

\* ... and create the new one, which is sent by mail, ...
Sends(m) ==
    /\ manager[m].pc = "send"
    /\ \E l \in Links : link[l] = "none" /\ link' = [link EXCEPT ![l] = "live"]
    /\ manager' = [manager EXCEPT ![m] = Absent]
    /\ UNCHANGED <<consumed, isClient, browser, portalSession, visits, opened, crowded, intruded>>

\* ... or delete the membership.
Removes(m) ==
    /\ manager[m].pc = "remove"
    /\ isClient' = FALSE
    /\ manager' = [manager EXCEPT ![m] = Absent]
    /\ UNCHANGED <<link, consumed, browser, portalSession, visits, opened, crowded, intruded>>

\* The worker dies in between, or the insert fails.
ManagerDies(m) ==
    /\ manager[m] # Absent /\ Visits
    /\ manager' = [manager EXCEPT ![m] = Absent]
    /\ UNCHANGED <<link, consumed, isClient, browser, portalSession, opened, crowded, intruded>>

\* The client accepts another invitation.
IsInvited ==
    /\ ~isClient /\ Visits
    /\ isClient' = TRUE
    /\ browser' = [b \in Browsers |-> IF browser[b] = Absent THEN Absent ELSE [browser[b] EXCEPT !.met = TRUE]]
    /\ UNCHANGED <<link, consumed, manager, portalSession, opened, crowded, intruded>>

\* Thirty days are over; revoke_magic_link does the same.
Expires(l) ==
    /\ link[l] = "live" /\ Visits
    /\ link' = [link EXCEPT ![l] = "expired"]
    /\ UNCHANGED <<consumed, isClient, manager, browser, portalSession, opened, crowded, intruded>>

-----------------------------------------------------------------------------
(* The client *)

\* magic_link_entry: consume_magic_link reads the token, ...
OpensLink(b, l) ==
    /\ browser[b] = Absent /\ link[l] = "live" /\ Visits
    /\ browser' = [browser EXCEPT ![b] = [pc |-> "consume", link |-> l, met |-> isClient]]
    /\ UNCHANGED <<link, consumed, isClient, manager, portalSession, opened, crowded, intruded>>

\* Mutant: what the token said when it was read.
MutantUnused(l) == TRUE

\* The update counts the rows with is_consumed false.
Unused(l) == ~consumed[l]

\* ... the first to mark it has consumed it, and gets a session.
Consumes(b) ==
    LET l == browser[b].link IN
    /\ browser[b].pc = "consume"
    /\ consumed' = [consumed EXCEPT ![l] = TRUE]
    /\ portalSession' = IF Unused(l) THEN portalSession \cup {b} ELSE portalSession
    /\ opened' = IF Unused(l) THEN [opened EXCEPT ![l] = IF @ < 2 THEN @ + 1 ELSE @] ELSE opened
    /\ browser' = [browser EXCEPT ![b] = Absent]
    /\ UNCHANGED <<link, isClient, manager, visits, crowded, intruded>>

\* portal_auth_required.
Admitted(b) == b \in portalSession /\ isClient

\* A decision in the portal is admitted, ...
PortalRequest(b) ==
    /\ browser[b] = Absent /\ b \in portalSession /\ Visits
    /\ browser' = IF Admitted(b) THEN [browser EXCEPT ![b] = [pc |-> "decide", met |-> isClient]] ELSE browser
    /\ UNCHANGED <<link, consumed, isClient, manager, portalSession, opened, crowded, intruded>>

\* ... and made.
PortalApprove(b) ==
    /\ browser[b].pc = "decide"
    /\ intruded' = (intruded \/ ~browser[b].met)
    /\ browser' = [browser EXCEPT ![b] = Absent]
    /\ UNCHANGED <<link, consumed, isClient, manager, portalSession, visits, opened, crowded>>

-----------------------------------------------------------------------------
PortalInit ==
    /\ link = [l \in Links |-> "none"]
    /\ consumed = [l \in Links |-> FALSE]
    /\ isClient = TRUE
    /\ manager = [m \in Managers |-> Absent]
    /\ browser = [b \in Browsers |-> Absent]
    /\ portalSession = {}
    /\ visits = 0
    /\ opened = [l \in Links |-> 0]
    /\ crowded = FALSE /\ intruded = FALSE

PortalNext ==
    \/ IsInvited
    \/ \E m \in Managers : \/ ManagerBegins(m, "send") \/ ManagerBegins(m, "remove")
                           \/ Withdraws(m) \/ Sends(m) \/ Removes(m) \/ ManagerDies(m)
    \/ \E l \in Links : Expires(l)
    \/ \E b \in Browsers : \/ Consumes(b) \/ PortalRequest(b) \/ PortalApprove(b)
                           \/ \E l \in Links : OpensLink(b, l)

PortalSpec == PortalInit /\ [][PortalNext]_PortalVars

-----------------------------------------------------------------------------
\* A link opens one session, whoever opens it at the same time; and the client
\* has one link to open, unless two managers sent or removed at the same time.
OneWayIn ==
    /\ \A l \in Links : opened[l] <= 1
    /\ ~crowded => Cardinality(Usable) <= 1

\* No session, however old, decides for a client who has been removed, except in a
\* request that was under way.
RemovedClientDecidesNothing == ~intruded

\* A client has one way in, and none once removed.
PortalIsTheClients == OneWayIn /\ RemovedClientDecidesNothing
=============================================================================
