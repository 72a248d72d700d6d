-------------------------------- MODULE Team --------------------------------
(***************************************************************************)
(* Who belongs to an organization and to one of its workspaces: signing    *)
(* up, invitations, roles, removals, clients, the deletion of accounts and *)
(* of the organization (members/services.py, accounts/signals.py and       *)
(* views.py, organizations/, client_portal/views_admin.py).  Hardly any of *)
(* it runs in a transaction: a request checks what it has loaded and       *)
(* writes afterwards, row by row.                                          *)
(* Roles are their levels: 0 is no membership.                             *)
(***************************************************************************)
EXTENDS Naturals, FiniteSets, Sequences

CONSTANTS
    Users,
    Founders,     \* owners at the start; more than one only through the admin site
    Staff,        \* an admin at the start
    Desks,        \* requests and tasks that can be in progress together
    MaxInvites,   \* bound: invitations created
    MaxRequests,  \* bound: requests that pass their checks
    MaxDeaths     \* bound: processes that die

ASSUME TeamAssumption ==
    /\ Founders \subseteq Users /\ Staff \subseteq Users \ Founders
    /\ Founders # {} /\ IsFiniteSet(Founders)
    /\ MaxInvites \in Nat /\ MaxRequests \in Nat /\ MaxDeaths \in Nat

VARIABLES
    account,   \* none, open or closed; a closed account's rows never come back
    orgRole,   \* OrgMembership.org_role
    wsRole,    \* WorkspaceMembership.workspace_role
    home,      \* users with a default organization of their own
    invites,   \* the Invitation rows
    exists,    \* the organization
    purge,     \* deletion requested, grace elapsed, tasks queued
    work,      \* what is in progress
    requests, deaths,
    excused,   \* history: whose memberships a removal and an admission have met over
    raced,     \* history: an owner went although another had gone since the count
    limbo,     \* history: users taken out of the organization, or left by a process that died
    lifted     \* history: an owner has given somebody a role

TeamVars == <<account, orgRole, wsRole, home, invites, exists, purge, work, requests, deaths,
              excused, raced, limbo, lifted>>

MEMBER == 1
ADMIN == 2
OWNER == 3
WS_VIEWER == 1
WS_CLIENT == 2
WS_MANAGER == 5
WS_OWNER == 6
WsRoles == {WS_VIEWER, WS_CLIENT, WS_MANAGER, WS_OWNER}

Free == [pc |-> "free"]
Owners == {u \in Users : orgRole[u] = OWNER}
HasAccount(u) == account[u] = "open"
Done(d) == work' = [work EXCEPT ![d] = Free]

\* A request that passes its checks and has something left to write.
Takes(d, w) ==
    /\ work[d] = Free
    /\ requests < MaxRequests
    /\ requests' = requests + 1
    /\ work' = [work EXCEPT ![d] = w]

\* Admissions in progress for a user, and removals.
Admitting(u) == \E d \in Desks : work[d].pc \in {"accept", "joined", "seated", "assign"} /\ work[d].user = u
Removing(u) == \E d \in Desks : work[d].pc \in {"remove", "removeOrg", "removeClient"} /\ work[d].user = u

-----------------------------------------------------------------------------
(* Levels *)

_inviter_org_level(a) == orgRole[a]

\* Owners of the organization count as owners of every workspace.
_inviter_workspace_level(a) == IF orgRole[a] = OWNER THEN WS_OWNER ELSE wsRole[a]

\* Mutant: a workspace role is not compared with the inviter's.
MutantMayGrant(a, org, ws) == org >= ADMIN => org < _inviter_org_level(a)

\* What create_invitation lets somebody give away.
MayGrant(a, org, ws) ==
    /\ org >= ADMIN => org < _inviter_org_level(a)
    /\ ws <= _inviter_workspace_level(a)

-----------------------------------------------------------------------------
(* Invitations *)

Open(i) == invites[i].open /\ ~invites[i].accepted

\* create_invitation up to the insertion.
Invites(d, a, org, ws) ==
    \E u \in Users :
        /\ orgRole[u] = 0
        /\ ~\E i \in DOMAIN invites : invites[i].email = u /\ Open(i)
        /\ MayGrant(a, org, ws)
        /\ Takes(d, [pc |-> "invite", row |-> [email |-> u, org |-> org, ws |-> ws, open |-> TRUE, accepted |-> FALSE]])
        /\ lifted' = (lifted \/ orgRole[a] = OWNER)
        /\ UNCHANGED <<account, orgRole, wsRole, home, invites, exists, purge, deaths, excused, raced, limbo>>

\* invite_member: an admin invites into the organization, with or without the workspace.
InviteMember(d) ==
    \E a \in Users, org \in {MEMBER, ADMIN}, ws \in {0} \cup WsRoles :
        orgRole[a] >= ADMIN /\ Invites(d, a, org, ws)

\* invite_client: a manager of the workspace, whatever the role in the organization.
InviteClient(d) ==
    \E a \in Users : wsRole[a] >= WS_MANAGER /\ Invites(d, a, MEMBER, WS_CLIENT)

CreateInvitation(d) ==
    /\ work[d].pc = "invite"
    /\ invites' = IF exists /\ Len(invites) < MaxInvites THEN Append(invites, work[d].row) ELSE invites
    /\ Done(d)
    /\ UNCHANGED <<account, orgRole, wsRole, home, exists, purge, requests, deaths, excused, raced, limbo, lifted>>

\* resend_invitation: a fresh token and expiry; revoke_invitation, or time.
ResendInvitation ==
    \E i \in DOMAIN invites :
        /\ ~invites[i].accepted /\ ~invites[i].open
        /\ requests < MaxRequests /\ requests' = requests + 1
        /\ invites' = [invites EXCEPT ![i].open = TRUE]
        /\ UNCHANGED <<account, orgRole, wsRole, home, exists, purge, work, deaths, excused, raced, limbo, lifted>>

RevokeInvitation ==
    \E i \in DOMAIN invites :
        /\ Open(i)
        /\ invites' = [invites EXCEPT ![i].open = FALSE]
        /\ UNCHANGED <<account, orgRole, wsRole, home, exists, purge, work, requests, deaths,
                       excused, raced, limbo, lifted>>

\* accept_invite: somebody with an account and the invited address.
AcceptInvite(d) ==
    \E i \in DOMAIN invites :
        LET u == invites[i].email IN
        /\ HasAccount(u)
        /\ Open(i)
        /\ Takes(d, [pc |-> "accept", user |-> u, row |-> i, signup |-> FALSE])
        /\ excused' = IF Removing(u) THEN excused \cup {u} ELSE excused
        /\ UNCHANGED <<account, orgRole, wsRole, home, invites, exists, purge, deaths, raced, limbo, lifted>>

\* Signing up creates a default organization; with an invitation in the
\* session it is then accepted, whatever the address.
SignUp(d) ==
    \E u \in Users :
        /\ account[u] = "none"
        /\ account' = [account EXCEPT ![u] = "open"]
        /\ home' = home \cup {u}
        /\ limbo' = limbo \ {u}
        /\ \/ work[d] = Free /\ UNCHANGED <<work, requests>>
           \/ \E i \in DOMAIN invites :
                /\ Open(i)
                /\ Takes(d, [pc |-> "accept", user |-> u, row |-> i, signup |-> TRUE])
        /\ UNCHANGED <<orgRole, wsRole, invites, exists, purge, deaths, excused, raced, lifted>>

\* accept_invitation: get_or_create of both memberships, then accepted_at.
JoinOrganization(d) ==
    LET u == work[d].user
        row == invites[work[d].row]
    IN /\ work[d].pc = "accept"
       /\ IF exists /\ HasAccount(u)
            THEN /\ orgRole' = [orgRole EXCEPT ![u] = IF @ = 0 THEN row.org ELSE @]
                 /\ work' = [work EXCEPT ![d].pc = "joined"]
                 /\ limbo' = limbo \ {u}
            ELSE Done(d) /\ UNCHANGED <<orgRole, limbo>>
       /\ UNCHANGED <<account, wsRole, home, invites, exists, purge, requests, deaths, excused, raced, lifted>>

JoinWorkspace(d) ==
    LET u == work[d].user
        row == invites[work[d].row]
    IN /\ work[d].pc = "joined"
       /\ IF exists /\ HasAccount(u)
            THEN /\ wsRole' = [wsRole EXCEPT ![u] = IF @ = 0 THEN row.ws ELSE @]
                 /\ work' = [work EXCEPT ![d].pc = "seated"]
            ELSE Done(d) /\ UNCHANGED wsRole
       /\ UNCHANGED <<account, orgRole, home, invites, exists, purge, requests, deaths, excused, raced, limbo, lifted>>

\* After a signup the default organization goes.
FinishAccept(d) ==
    LET u == work[d].user IN
    /\ work[d].pc = "seated"
    /\ invites' = IF exists THEN [invites EXCEPT ![work[d].row].accepted = TRUE] ELSE invites
    /\ home' = IF work[d].signup /\ exists THEN home \ {u} ELSE home
    /\ Done(d)
    /\ UNCHANGED <<account, orgRole, wsRole, exists, purge, requests, deaths, excused, raced, limbo, lifted>>

-----------------------------------------------------------------------------
(* Roles and removals *)

\* Mutant: the last owner is not spared.
MutantMayLose(u) == TRUE

\* The last owner is neither removed nor demoted.
MayLose(u) == orgRole[u] = OWNER => Cardinality(Owners) > 1

\* The owners a request has counted before it takes one of them out.
Counted(u) == IF orgRole[u] = OWNER THEN Cardinality(Owners) ELSE 0
Loses(u, counted) == raced' = (raced \/ (orgRole[u] = OWNER /\ Cardinality(Owners) # counted))

\* remove_member: an admin removes anybody but themselves.
RemoveMember(d) ==
    \E a, u \in Users :
        /\ orgRole[a] >= ADMIN /\ orgRole[u] > 0 /\ a # u
        /\ MayLose(u)
        /\ Takes(d, [pc |-> "remove", user |-> u, counted |-> Counted(u)])
        /\ excused' = IF Admitting(u) THEN excused \cup {u} ELSE excused
        /\ UNCHANGED <<account, orgRole, wsRole, home, invites, exists, purge, deaths, raced, limbo, lifted>>

RemoveFromWorkspaces(d) ==
    /\ work[d].pc = "remove"
    /\ wsRole' = [wsRole EXCEPT ![work[d].user] = 0]
    /\ work' = [work EXCEPT ![d].pc = "removeOrg"]
    /\ UNCHANGED <<account, orgRole, home, invites, exists, purge, requests, deaths, excused, raced, limbo, lifted>>

RemoveFromOrganization(d) ==
    LET u == work[d].user IN
    /\ work[d].pc = "removeOrg"
    /\ orgRole' = [orgRole EXCEPT ![u] = 0]
    /\ Loses(u, work[d].counted)
    /\ limbo' = limbo \cup {u}
    /\ Done(d)
    /\ UNCHANGED <<account, wsRole, home, invites, exists, purge, requests, deaths, excused, lifted>>

\* update_member_org_role: not above one's own, nor of somebody above.
UpdateMemberRole(d) ==
    \E a, u \in Users, new \in {MEMBER, ADMIN} :
        /\ orgRole[a] >= ADMIN /\ orgRole[u] > 0
        /\ orgRole[a] >= orgRole[u]
        /\ new >= ADMIN => new < orgRole[a]
        /\ MayLose(u)
        /\ Takes(d, [pc |-> "role", user |-> u, new |-> new, counted |-> Counted(u)])
        /\ lifted' = (lifted \/ orgRole[a] = OWNER)
        /\ UNCHANGED <<account, orgRole, wsRole, home, invites, exists, purge, deaths, excused, raced, limbo>>

\* A row that is gone is not updated.
SaveRole(d) ==
    LET u == work[d].user IN
    /\ work[d].pc = "role"
    /\ IF orgRole[u] = 0 THEN UNCHANGED <<orgRole, raced>>
       ELSE orgRole' = [orgRole EXCEPT ![u] = work[d].new] /\ Loses(u, work[d].counted)
    /\ Done(d)
    /\ UNCHANGED <<account, wsRole, home, invites, exists, purge, requests, deaths, excused, limbo, lifted>>

\* Neither the role there is nor the one asked for outranks the inviter.
MayReassign(a, old, new) ==
    /\ new <= _inviter_workspace_level(a)
    /\ new # old => old <= _inviter_workspace_level(a)

\* update_workspace_assignments: the membership it finds is kept for the write.
AssignWorkspace(d) ==
    \E a, u \in Users, new \in {0} \cup WsRoles :
        /\ orgRole[a] >= ADMIN /\ orgRole[u] > 0
        /\ new # wsRole[u]
        /\ MayReassign(a, wsRole[u], new)
        /\ Takes(d, [pc |-> "assign", user |-> u, old |-> wsRole[u], new |-> new])
        /\ excused' = IF Removing(u) THEN excused \cup {u} ELSE excused
        /\ lifted' = (lifted \/ orgRole[a] = OWNER)
        /\ UNCHANGED <<account, orgRole, wsRole, home, invites, exists, purge, deaths, raced, limbo>>

\* A membership that was there is updated or deleted if it still is; one that
\* was not is inserted unless another request has done so.
SaveAssignment(d) ==
    LET u == work[d].user
        newRole == wsRole[u]
    IN /\ work[d].pc = "assign"
       /\ IF exists /\ HasAccount(u) /\ (work[d].old > 0 <=> newRole > 0)
            THEN wsRole' = [wsRole EXCEPT ![u] = work[d].new]
            ELSE UNCHANGED wsRole
       /\ Done(d)
       /\ UNCHANGED <<account, orgRole, home, invites, exists, purge, requests, deaths, excused, raced, limbo, lifted>>

\* remove_client: the workspace only.
RemoveClient ==
    \E a, u \in Users :
        /\ wsRole[a] >= WS_MANAGER /\ wsRole[u] = WS_CLIENT
        /\ requests < MaxRequests /\ requests' = requests + 1
        /\ wsRole' = [wsRole EXCEPT ![u] = 0]
        /\ UNCHANGED <<account, orgRole, home, invites, exists, purge, work, deaths, excused, raced, limbo, lifted>>

\* _handle_account_deletion: unless the user is the only owner.
DeleteAccountRequest(d) ==
    \E u \in Users :
        /\ HasAccount(u)
        /\ MayLose(u)
        /\ Takes(d, [pc |-> "close", user |-> u, counted |-> Counted(u)])
        /\ UNCHANGED <<account, orgRole, wsRole, home, invites, exists, purge, deaths, excused, raced, limbo, lifted>>

DeleteUser(d) ==
    LET u == work[d].user IN
    /\ work[d].pc = "close"
    /\ account' = [account EXCEPT ![u] = "closed"]
    /\ home' = home \ {u}
    /\ orgRole' = [orgRole EXCEPT ![u] = 0]
    /\ wsRole' = [wsRole EXCEPT ![u] = 0]
    /\ Loses(u, work[d].counted)
    /\ Done(d)
    /\ UNCHANGED <<invites, exists, purge, requests, deaths, excused, limbo, lifted>>

-----------------------------------------------------------------------------
(* Deleting the organization *)

NoPurge == [requested |-> FALSE, due |-> FALSE, queued |-> FALSE]

\* _handle_org_deletion: an owner starts the grace period, or starts it again.
ScheduleDeletion ==
    /\ Owners # {}
    /\ requests < MaxRequests /\ requests' = requests + 1
    /\ purge' = [requested |-> TRUE, due |-> FALSE, queued |-> TRUE]
    /\ UNCHANGED <<account, orgRole, wsRole, home, invites, exists, work, deaths, excused, raced, limbo, lifted>>

\* _handle_cancel_deletion
CancelDeletion ==
    /\ Owners # {}
    /\ purge.requested
    /\ purge' = NoPurge
    /\ UNCHANGED <<account, orgRole, wsRole, home, invites, exists, work, requests, deaths,
                   excused, raced, limbo, lifted>>

GraceElapses ==
    /\ purge.requested /\ ~purge.due
    /\ purge' = [purge EXCEPT !.due = TRUE]
    /\ UNCHANGED <<account, orgRole, wsRole, home, invites, exists, work, requests, deaths,
                   excused, raced, limbo, lifted>>

\* execute_scheduled_org_deletion reads the organization again.
ExecuteScheduledDeletion(d) ==
    /\ work[d] = Free
    /\ purge.queued /\ purge.due
    /\ purge' = [purge EXCEPT !.queued = FALSE]
    /\ work' = IF exists /\ purge.requested
                 THEN [work EXCEPT ![d] = [pc |-> "purge", by |-> {}]] ELSE work
    /\ UNCHANGED <<account, orgRole, wsRole, home, invites, exists, requests, deaths, excused, raced, limbo, lifted>>

\* _handle_immediate_org_deletion
DeleteNow(d) ==
    \E a \in Owners :
        /\ Takes(d, [pc |-> "purge", by |-> {a}])
        /\ purge' = [purge EXCEPT !.queued = FALSE]
        /\ UNCHANGED <<account, orgRole, wsRole, home, invites, exists, deaths, excused, raced, limbo, lifted>>

\* hard_delete: the members are listed, the organization and all it holds is
\* deleted, and the members are settled one by one.
HardDelete(d) ==
    /\ work[d].pc = "purge"
    /\ IF exists
         THEN /\ exists' = FALSE
              /\ work' = [work EXCEPT ![d] = [pc |-> "settle", by |-> work[d].by,
                                              left |-> {u \in Users : orgRole[u] > 0}]]
              /\ orgRole' = [u \in Users |-> 0]
              /\ wsRole' = [u \in Users |-> 0]
              /\ invites' = <<>>
              /\ purge' = NoPurge
         ELSE Done(d) /\ UNCHANGED <<exists, orgRole, wsRole, invites, purge>>
    /\ UNCHANGED <<account, home, requests, deaths, excused, raced, limbo, lifted>>

\* provision_organization_and_workspace
Settled(u) == IF HasAccount(u) THEN home \cup {u} ELSE home

SettleMember(d) ==
    /\ work[d].pc = "settle"
    /\ IF work[d].left = {} THEN Done(d) /\ UNCHANGED <<account, home>>
       ELSE \E u \in work[d].left :
              /\ work' = [work EXCEPT ![d].left = @ \ {u}]
              /\ IF u \in work[d].by
                   THEN account' = [account EXCEPT ![u] = "closed"] /\ home' = home \ {u}
                   ELSE home' = Settled(u) /\ UNCHANGED account
    /\ UNCHANGED <<orgRole, wsRole, invites, exists, purge, requests, deaths, excused, raced, limbo, lifted>>

\* A process dies: what it has written stays.
Dies(d) ==
    /\ work[d] # Free
    /\ deaths < MaxDeaths
    /\ deaths' = deaths + 1
    /\ limbo' = IF work[d].pc = "settle" THEN limbo \cup work[d].left ELSE limbo
    /\ Done(d)
    /\ UNCHANGED <<account, orgRole, wsRole, home, invites, exists, purge, requests, excused, raced, lifted>>

-----------------------------------------------------------------------------
TeamInit ==
    /\ account = [u \in Users |-> IF u \in Founders \cup Staff THEN "open" ELSE "none"]
    /\ orgRole = [u \in Users |-> IF u \in Founders THEN OWNER ELSE IF u \in Staff THEN ADMIN ELSE 0]
    /\ wsRole = [u \in Users |-> IF u \in Founders THEN WS_OWNER ELSE IF u \in Staff THEN WS_MANAGER ELSE 0]
    /\ home = {} /\ invites = <<>> /\ exists = TRUE /\ purge = NoPurge
    /\ work = [d \in Desks |-> Free]
    /\ requests = 0 /\ deaths = 0
    /\ excused = {} /\ raced = FALSE /\ limbo = {} /\ lifted = FALSE

Invitation(d) ==
    \/ InviteMember(d) \/ InviteClient(d) \/ CreateInvitation(d)
    \/ AcceptInvite(d) \/ SignUp(d) \/ JoinOrganization(d) \/ JoinWorkspace(d) \/ FinishAccept(d)

Membership(d) ==
    \/ RemoveMember(d) \/ RemoveFromWorkspaces(d) \/ RemoveFromOrganization(d)
    \/ UpdateMemberRole(d) \/ SaveRole(d) \/ AssignWorkspace(d) \/ SaveAssignment(d)
    \/ DeleteAccountRequest(d) \/ DeleteUser(d)

Deletion(d) == ExecuteScheduledDeletion(d) \/ DeleteNow(d) \/ HardDelete(d) \/ SettleMember(d)

TeamNext ==
    \/ \E d \in Desks : Invitation(d) \/ Membership(d) \/ Deletion(d) \/ Dies(d)
    \/ ResendInvitation \/ RevokeInvitation \/ RemoveClient
    \/ ScheduleDeletion \/ CancelDeletion \/ GraceElapses

TeamSpec == TeamInit /\ [][TeamNext]_TeamVars

-----------------------------------------------------------------------------
\* Memberships and invitations have their roles.
TeamTypeOK ==
    /\ account \in [Users -> {"none", "open", "closed"}]
    /\ home \cup excused \cup limbo \subseteq Users
    /\ orgRole \in [Users -> 0..OWNER]
    /\ wsRole \in [Users -> {0} \cup WsRoles]
    /\ Len(invites) <= MaxInvites

\* The organization keeps an owner, whoever is removed, demoted or deletes the
\* account, as long as no two owners go at the same time.
AnOwnerRemains == exists /\ ~raced => Owners # {}

\* A member of the workspace is a member of the organization, after any chain of
\* invitations, assignments and removals, unless one of the user's admissions
\* and one of the user's removals were in progress together.
WorkspaceMembersBelong ==
    \A u \in Users : wsRole[u] > 0 /\ orgRole[u] = 0 => u \in excused

\* Everybody with an account has an organization to land in: the common one or
\* one of their own, except who was removed, or left behind by a process that
\* died while it deleted the organization.
NobodyInLimbo ==
    \A u \in Users :
        HasAccount(u) /\ orgRole[u] = 0 /\ u \notin home =>
            \/ u \in limbo
            \/ \E d \in Desks : work[d].pc = "settle" /\ u \in work[d].left

\* Nobody climbs: until an owner gives somebody a role, no chain of invitations
\* and assignments among the others leads above the roles they had between them.
NobodyClimbs ==
    ~lifted => \A u \in Users \ Founders :
                 /\ wsRole[u] <= WS_MANAGER
                 /\ orgRole[u] >= ADMIN => u \in Staff

\* The organization, its workspace and its people hold together.
NobodyIsLost == TeamTypeOK /\ AnOwnerRemains /\ WorkspaceMembersBelong /\ NobodyInLimbo
=============================================================================
