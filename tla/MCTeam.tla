------------------------------- MODULE MCTeam -------------------------------
(***************************************************************************)
(* Who may do what, and what reaches them, as one instance for TLC: its    *)
(* behaviours are those of each component, and share no state.             *)
(***************************************************************************)
EXTENDS Team, ConnectFlows, ApiKeys, Portal, Inbox, TLC

VARIABLE part   \* the component this behaviour is of

\* The components may use the same values for their requests and for their things,
\* since a behaviour is of one of them.
Interchangeable == Permutations(Desks) \cup Permutations(Founders)

OnlyOf(p) ==
    /\ p # "team" => UNCHANGED TeamVars
    /\ p # "connections" => UNCHANGED FlowVars
    /\ p # "keys" => UNCHANGED KeyVars
    /\ p # "portal" => UNCHANGED PortalVars
    /\ p # "inbox" => UNCHANGED InboxVars
    /\ UNCHANGED part

PeopleInit ==
    /\ part \in {"team", "connections", "keys", "portal", "inbox"}
    /\ TeamInit
    /\ FlowsInit
    /\ ApiKeysInit
    /\ PortalInit
    /\ InboxInit

PeopleNext ==
    \/ part = "team" /\ TeamNext /\ OnlyOf("team")
    \/ part = "connections" /\ FlowsNext /\ OnlyOf("connections")
    \/ part = "keys" /\ ApiKeysNext /\ OnlyOf("keys")
    \/ part = "portal" /\ PortalNext /\ OnlyOf("portal")
    \/ part = "inbox" /\ InboxNext /\ OnlyOf("inbox")

PeopleVars == <<TeamVars, FlowVars, KeyVars, PortalVars, InboxVars, part>>

PeopleSpec == PeopleInit /\ [][PeopleNext]_PeopleVars
=============================================================================
