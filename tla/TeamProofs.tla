----------------------------- MODULE TeamProofs -----------------------------
(***************************************************************************)
(* For every set of people and of requests in progress: an organization    *)
(* keeps an owner, its workspaces only have its members, nobody is left    *)
(* without an organization to land in, and nobody climbs.                  *)
(***************************************************************************)
EXTENDS Team, FiniteSetTheorems, TLAPS

-----------------------------------------------------------------------------
(* Types                                                                   *)

Seats == {0} \cup WsRoles
Row == [email : Users, org : {MEMBER, ADMIN}, ws : Seats, open : BOOLEAN, accepted : BOOLEAN]

Inviting == [pc : {"invite"}, row : Row]
Accepting == [pc : {"accept", "joined", "seated"}, user : Users, row : Nat \ {0}, signup : BOOLEAN]
Removal == [pc : {"remove", "removeOrg"}, user : Users, counted : Nat]
RoleChange == [pc : {"role"}, user : Users, new : {MEMBER, ADMIN}, counted : Nat]
Assignment == [pc : {"assign"}, user : Users, old : Seats, new : Seats]
Closing == [pc : {"close"}, user : Users, counted : Nat]
Purging == [pc : {"purge"}, by : SUBSET Users]
Settling == [pc : {"settle"}, by : SUBSET Users, left : SUBSET Users]

Work == {Free} \cup Inviting \cup Accepting \cup Removal \cup RoleChange
               \cup Assignment \cup Closing \cup Purging \cup Settling

TeamTyped ==
  /\ account \in [Users -> {"none", "open", "closed"}]
  /\ orgRole \in [Users -> 0 .. OWNER]
  /\ wsRole \in [Users -> Seats]
  /\ home \in SUBSET Users
  /\ invites \in Seq(Row) /\ Len(invites) <= MaxInvites
  /\ exists \in BOOLEAN
  /\ purge \in [requested : BOOLEAN, due : BOOLEAN, queued : BOOLEAN]
  /\ work \in [Desks -> Work]
  /\ excused \in SUBSET Users /\ limbo \in SUBSET Users
  /\ raced \in BOOLEAN /\ lifted \in BOOLEAN

-----------------------------------------------------------------------------
(* The inductive invariant                                                 *)

Admits == {"accept", "joined", "seated", "assign"}
Removes == {"remove", "removeOrg"}

\* What a request or task knows of the rows it is about: the invitation is there as
\* long as the organization is; who is taken out is not the last owner counted; nobody
\* without an account is admitted or removed; who is being seated in the workspace is
\* in the organization, unless a removal met the admission, and has somewhere else to
\* land if not; and a removal empties the workspace first.
Fits(w) ==
  LET u == w.user IN
  /\ w.pc \in {"accept", "joined", "seated"} /\ exists => w.row \in DOMAIN invites
  /\ w.pc \in {"remove", "removeOrg", "role", "close"} => w.counted = 0 \/ w.counted > 1
  /\ w.pc \in Admits \cup Removes => account[u] # "none"
  /\ w.pc \in {"joined", "seated", "assign"} /\ exists /\ HasAccount(u) /\ orgRole[u] = 0 => u \in excused
  /\ w.pc \in {"joined", "seated"} /\ exists /\ HasAccount(u) /\ orgRole[u] = 0 => u \in limbo
  /\ w.pc = "removeOrg" => wsRole[u] = 0 \/ u \in excused

WorkFits == \A d \in Desks : Fits(work[d])

\* An admission and a removal in progress together are excused.
MeetingsAreExcused ==
  \A d, e \in Desks :
    work[d].pc \in Admits /\ work[e].pc \in Removes /\ work[d].user = work[e].user
      => work[d].user \in excused

\* Who has no account, or no organization, is no member; owners are founders.
MembersFit ==
  \A u \in Users :
    /\ account[u] = "none" \/ ~exists => orgRole[u] = 0 /\ wsRole[u] = 0
    /\ orgRole[u] = OWNER => u \in Founders

TeamInv ==
  /\ WorkFits /\ MeetingsAreExcused /\ MembersFit
  /\ ~exists => invites = <<>>
  /\ AnOwnerRemains /\ WorkspaceMembersBelong /\ NobodyInLimbo

\* No row gives away more than the others have between them.
Modest(row) == row.org = MEMBER /\ row.ws <= WS_MANAGER

\* Until an owner has given somebody a role, only owners own the workspace, and
\* nothing in progress leads there.
Climbs(w) ==
  \/ w.pc = "invite" /\ ~Modest(w.row)
  \/ w.pc = "role" /\ (w.new = ADMIN \/ orgRole[w.user] = OWNER)
  \/ w.pc = "assign" /\ w.new > WS_MANAGER
  \/ w.pc = "removeOrg" /\ wsRole[w.user] > WS_MANAGER

ClimbInv ==
  ~lifted =>
    /\ \A u \in Users : /\ orgRole[u] # OWNER => wsRole[u] <= WS_MANAGER
                        /\ orgRole[u] = ADMIN => u \in Staff
    /\ \A i \in DOMAIN invites : Modest(invites[i])
    /\ \A d \in Desks : ~Climbs(work[d])

-----------------------------------------------------------------------------
(* Lemmas on the parts                                                     *)

\* What is in progress at a desk is of the kind its pc says.
LEMMA KindOfWork ==
  ASSUME TeamTyped, NEW d \in Desks
  PROVE  /\ work[d].pc = "free" => work[d] = Free
         /\ work[d].pc = "invite" => work[d] \in Inviting
         /\ work[d].pc \in {"accept", "joined", "seated"} => work[d] \in Accepting
         /\ work[d].pc \in {"remove", "removeOrg"} => work[d] \in Removal
         /\ work[d].pc = "role" => work[d] \in RoleChange
         /\ work[d].pc = "assign" => work[d] \in Assignment
         /\ work[d].pc = "close" => work[d] \in Closing
         /\ work[d].pc = "purge" => work[d] \in Purging
         /\ work[d].pc = "settle" => work[d] \in Settling
  BY DEF TeamTyped, Work, Free, Inviting, Accepting, Removal, RoleChange, Assignment,
         Closing, Purging, Settling

\* The levels of the workspace.
LEMMA SeatLevels == Seats = {0, 1, 2, 5, 6} /\ WS_CLIENT \in Seats
  BY DEF Seats, WsRoles, WS_VIEWER, WS_CLIENT, WS_MANAGER, WS_OWNER

\* The owners are finitely many, so that they can be counted.
LEMMA OwnersAreCounted ==
  ASSUME MembersFit
  PROVE  IsFiniteSet(Owners) /\ Cardinality(Owners) \in Nat
<1>1. Owners \subseteq Founders
  BY DEF MembersFit, Owners
<1>2. IsFiniteSet(Owners)
  BY <1>1, TeamAssumption, FS_Subset
<1> QED BY <1>2, FS_CardinalityType

\* When more than one owner has been counted, another one is there.
LEMMA AnotherOwner ==
  ASSUME NEW u, Cardinality(Owners) > 1
  PROVE  \E v \in Owners : v # u
<1>1. Owners # {} /\ Owners # {u}
  BY FS_EmptySet, FS_Singleton
<1> QED BY <1>1

\* At a desk something begins, goes on or ends, and no membership changes.
LEMMA DeskMoves ==
  ASSUME TeamTyped, TeamInv, ClimbInv,
         NEW d \in Desks, NEW w \in Work, work' = [work EXCEPT ![d] = w],
         work[d].pc # "settle",
         UNCHANGED <<account, orgRole, wsRole, home, exists, raced, limbo>>,
         invites' \in Seq(Row), Len(invites') <= MaxInvites,
         DOMAIN invites \subseteq DOMAIN invites', ~exists => invites' = <<>>,
         purge' \in [requested : BOOLEAN, due : BOOLEAN, queued : BOOLEAN],
         excused' \in SUBSET Users, excused \subseteq excused',
         lifted' \in BOOLEAN, lifted => lifted',
         Fits(w)',
         \A e \in Desks \ {d} :
           /\ work[e].pc \in Admits /\ w.pc \in Removes /\ work[e].user = w.user => w.user \in excused'
           /\ work[e].pc \in Removes /\ w.pc \in Admits /\ work[e].user = w.user => w.user \in excused',
         ~lifted' => ~Climbs(w) /\ \A i \in DOMAIN invites' : Modest(invites'[i])
  PROVE  TeamTyped' /\ TeamInv' /\ ClimbInv'
<1>d. /\ work \in [Desks -> Work] /\ work'[d] = w
      /\ \A e \in Desks \ {d} : work'[e] = work[e]
  BY DEF TeamTyped
<1>1. TeamTyped'
  BY DEF TeamTyped
<1>2. WorkFits'
  <2>1. ASSUME NEW e \in Desks \ {d}, NEW x, x = work[e] PROVE Fits(x)'
    BY <2>1 DEF TeamInv, WorkFits, Fits, HasAccount
  <2> QED BY <1>d, <2>1 DEF WorkFits, Fits, HasAccount
<1>3. MeetingsAreExcused'
  <2>1. w.pc \in Admits => w.pc \notin Removes
    BY DEF Admits, Removes
  <2>2. MeetingsAreExcused
    BY DEF TeamInv
  <2>3. ASSUME NEW e \in Desks, NEW f \in Desks,
               work'[e].pc \in Admits, work'[f].pc \in Removes, work'[e].user = work'[f].user
        PROVE  work'[e].user \in excused'
    <3>1. CASE e = d
      BY <1>d, <2>1, <2>3, <3>1
    <3>2. CASE f = d
      BY <1>d, <2>1, <2>3, <3>2
    <3>3. CASE e # d /\ f # d
      BY <1>d, <2>2, <2>3, <3>3 DEF MeetingsAreExcused
    <3> QED BY <3>1, <3>2, <3>3
  <2> QED BY <2>3 DEF MeetingsAreExcused
<1>4. MembersFit' /\ (~exists => invites = <<>>)' /\ WorkspaceMembersBelong' /\ AnOwnerRemains'
  BY DEF TeamInv, MembersFit, WorkspaceMembersBelong, AnOwnerRemains, Owners
<1>5. NobodyInLimbo'
  BY <1>d DEF TeamInv, NobodyInLimbo, HasAccount
<1>6. ClimbInv'
  <2>1. ASSUME NEW e \in Desks \ {d}, NEW x, x = work[e], ~lifted PROVE ~Climbs(x)'
    BY <2>1 DEF ClimbInv, Climbs
  <2>2. ASSUME ~lifted' PROVE \A e \in Desks : ~Climbs(work[e])'
    BY <1>d, <2>1, <2>2 DEF Climbs
  <2>3. ASSUME ~lifted'
        PROVE  \A u \in Users : /\ orgRole'[u] # OWNER => wsRole'[u] <= WS_MANAGER
                                /\ orgRole'[u] = ADMIN => u \in Staff
    BY <2>3 DEF ClimbInv
  <2> QED BY <2>2, <2>3 DEF ClimbInv
<1> QED BY <1>1, <1>2, <1>3, <1>4, <1>5, <1>6 DEF TeamInv

\* A desk that ends what it does, whatever it was but the settling of members.
LEMMA DeskEnds ==
  ASSUME TeamTyped, TeamInv, ClimbInv, NEW d \in Desks, Done(d), work[d].pc # "settle",
         UNCHANGED <<account, orgRole, wsRole, home, exists, raced, limbo, excused, lifted>>,
         invites' \in Seq(Row), Len(invites') <= MaxInvites,
         DOMAIN invites \subseteq DOMAIN invites', ~exists => invites' = <<>>,
         purge' \in [requested : BOOLEAN, due : BOOLEAN, queued : BOOLEAN],
         ~lifted => \A i \in DOMAIN invites' : Modest(invites'[i])
  PROVE  TeamTyped' /\ TeamInv' /\ ClimbInv'
<1>1. Free \in Work /\ Free.pc = "free"
  BY DEF Work, Free
<1>2. Fits(Free)' /\ ~Climbs(Free)
  BY <1>1 DEF Fits, Climbs, Admits, Removes
<1>3. Free.pc \notin Admits /\ Free.pc \notin Removes
  BY <1>1 DEF Admits, Removes
<1>4. /\ work' = [work EXCEPT ![d] = Free] /\ (~lifted' => ~lifted)
      /\ excused' \in SUBSET Users /\ excused \subseteq excused'
      /\ lifted' \in BOOLEAN /\ (lifted => lifted')
  BY DEF Done, TeamTyped
<1> HIDE DEF Free
<1> QED BY <1>1, <1>2, <1>3, <1>4, DeskMoves

\* Invitations: an inviter gives away no more than there is.
LEMMA InvitingKeepsTeam ==
  ASSUME TeamTyped, TeamInv, ClimbInv, NEW d \in Desks,
         InviteMember(d) \/ InviteClient(d) \/ CreateInvitation(d)
  PROVE  TeamTyped' /\ TeamInv' /\ ClimbInv'
<1>1. ASSUME NEW a \in Users, NEW org \in {MEMBER, ADMIN}, NEW ws \in Seats, Invites(d, a, org, ws)
      PROVE  TeamTyped' /\ TeamInv' /\ ClimbInv'
  <2>1. PICK u \in Users :
          /\ MayGrant(a, org, ws)
          /\ Takes(d, [pc |-> "invite", row |-> [email |-> u, org |-> org, ws |-> ws, open |-> TRUE, accepted |-> FALSE]])
          /\ lifted' = (lifted \/ orgRole[a] = OWNER)
          /\ UNCHANGED <<account, orgRole, wsRole, home, invites, exists, purge, deaths, excused, raced, limbo>>
    BY <1>1 DEF Invites
  <2> DEFINE row == [email |-> u, org |-> org, ws |-> ws, open |-> TRUE, accepted |-> FALSE]
             w == [pc |-> "invite", row |-> row]
  <2>2. row \in Row
    BY DEF Row
  <2>3. w \in Work
    BY <2>2 DEF Work, Inviting
  <2>4. w.pc = "invite" /\ w.row = row /\ row.org = org /\ row.ws = ws
    OBVIOUS
  <2>5. ASSUME ~lifted' PROVE Modest(row)
    <3>1. ~lifted /\ orgRole[a] # OWNER
      BY <2>1, <2>5
    <3>2. org = MEMBER
      <4>1. orgRole[a] \in 0 .. 3 /\ orgRole[a] # 3 /\ org \in {1, 2} /\ (org >= 2 => org < orgRole[a])
        BY <2>1, <3>1 DEF MayGrant, _inviter_org_level, TeamTyped, MEMBER, ADMIN, OWNER
      <4> QED BY <4>1 DEF MEMBER
    <3>3. ws <= wsRole[a] /\ wsRole[a] <= 5
      BY <2>1, <3>1 DEF MayGrant, _inviter_workspace_level, ClimbInv, WS_MANAGER
    <3>4. ws <= 5
      BY <3>3, SeatLevels DEF TeamTyped
    <3> QED BY <2>4, <3>2, <3>4 DEF Modest, WS_MANAGER
  <2>6. work' = [work EXCEPT ![d] = w] /\ work[d].pc = "free"
    BY <2>1 DEF Takes, Free
  <2> HIDE DEF w, row
  <2>7. Fits(w)' /\ w.pc \notin Admits /\ w.pc \notin Removes
    BY <2>4 DEF Fits, Admits, Removes
  <2>8. ~lifted' => ~Climbs(w)
    BY <2>4, <2>5 DEF Climbs
  <2>9. ~lifted' => \A i \in DOMAIN invites : Modest(invites[i])
    BY <2>1 DEF ClimbInv
  <2> QED BY <2>1, <2>3, <2>6, <2>7, <2>8, <2>9, DeskMoves DEF TeamTyped, TeamInv
<1>2. CASE CreateInvitation(d)
  <2>1. work[d] \in Inviting /\ work[d].row \in Row
    BY <1>2, KindOfWork DEF CreateInvitation, Inviting
  <2>2. CASE exists /\ Len(invites) < MaxInvites
    <3>1. invites' = Append(invites, work[d].row) /\ invites \in Seq(Row)
      BY <1>2, <2>2 DEF CreateInvitation, TeamTyped
    <3>2. /\ invites' \in Seq(Row) /\ Len(invites') = Len(invites) + 1
          /\ \A i \in 1 .. Len(invites) : invites'[i] = invites[i]
          /\ invites'[Len(invites) + 1] = work[d].row
      BY <2>1, <3>1
    <3>3. DOMAIN invites = 1 .. Len(invites) /\ DOMAIN invites' = 1 .. Len(invites) + 1
      BY <3>1, <3>2
    <3>4. ~lifted => Modest(work[d].row) /\ \A i \in DOMAIN invites : Modest(invites[i])
      BY <1>2 DEF ClimbInv, Climbs, CreateInvitation
    <3>5. ~lifted => \A i \in DOMAIN invites' : Modest(invites'[i])
      BY <3>2, <3>3, <3>4
    <3>6. Len(invites') <= MaxInvites /\ DOMAIN invites \subseteq DOMAIN invites'
      BY <2>2, <3>1, <3>2, <3>3, TeamAssumption
    <3>7. /\ Done(d) /\ work[d].pc # "settle"
          /\ UNCHANGED <<account, orgRole, wsRole, home, exists, raced, limbo, excused, lifted, purge>>
          /\ purge \in [requested : BOOLEAN, due : BOOLEAN, queued : BOOLEAN]
      BY <1>2 DEF CreateInvitation, TeamTyped
    <3> QED BY <2>2, <3>2, <3>5, <3>6, <3>7, DeskEnds
  <2>3. CASE ~(exists /\ Len(invites) < MaxInvites)
    BY <1>2, <2>3, DeskEnds DEF CreateInvitation, TeamTyped, TeamInv, ClimbInv
  <2> QED BY <2>2, <2>3
<1>3. CASE InviteMember(d)
  <2>1. PICK a \in Users, org \in {MEMBER, ADMIN}, ws \in {0} \cup WsRoles : Invites(d, a, org, ws)
    BY <1>3 DEF InviteMember
  <2> QED BY <1>1, <2>1 DEF Seats
<1>4. CASE InviteClient(d)
  <2>1. PICK a \in Users : Invites(d, a, MEMBER, WS_CLIENT)
    BY <1>4 DEF InviteClient
  <2> QED BY <1>1, <2>1, SeatLevels
<1> QED BY <1>2, <1>3, <1>4

\* A request begins, which meets nobody without an excuse.
LEMMA RequestBegins ==
  ASSUME TeamTyped, TeamInv, ClimbInv, NEW d \in Desks, NEW w \in Work, Takes(d, w),
         UNCHANGED <<account, orgRole, wsRole, home, invites, exists, raced, limbo>>,
         purge' \in [requested : BOOLEAN, due : BOOLEAN, queued : BOOLEAN],
         lifted' \in BOOLEAN, lifted => lifted',
         w.pc \in Admits \cup Removes => w.user \in Users,
         \/ UNCHANGED excused /\ w.pc \notin Admits \cup Removes
         \/ w.pc \in Admits /\ excused' = IF Removing(w.user) THEN excused \cup {w.user} ELSE excused
         \/ w.pc \in Removes /\ excused' = IF Admitting(w.user) THEN excused \cup {w.user} ELSE excused,
         Fits(w)', ~lifted' => ~Climbs(w)
  PROVE  TeamTyped' /\ TeamInv' /\ ClimbInv'
<1>1. work[d].pc = "free" /\ work' = [work EXCEPT ![d] = w]
  BY DEF Takes, Free
<1>2. excused' \in SUBSET Users /\ excused \subseteq excused'
  BY DEF TeamTyped
<1>3. ASSUME NEW e \in Desks
      PROVE  /\ work[e].pc \in Admits /\ w.pc \in Removes /\ work[e].user = w.user => w.user \in excused'
             /\ work[e].pc \in Removes /\ w.pc \in Admits /\ work[e].user = w.user => w.user \in excused'
  BY <1>3 DEF Admits, Removes, Admitting, Removing
<1>4. /\ invites' \in Seq(Row) /\ Len(invites') <= MaxInvites
      /\ DOMAIN invites \subseteq DOMAIN invites' /\ (~exists => invites' = <<>>)
      /\ ~lifted' => \A i \in DOMAIN invites' : Modest(invites'[i])
  BY DEF TeamTyped, TeamInv, ClimbInv
<1> QED BY <1>1, <1>2, <1>3, <1>4, DeskMoves

\* An invitation is accepted by somebody with an account.
LEMMA AcceptingKeepsTeam ==
  ASSUME TeamTyped, TeamInv, ClimbInv, NEW d \in Desks, AcceptInvite(d)
  PROVE  TeamTyped' /\ TeamInv' /\ ClimbInv'
<1> DEFINE Accepts(i, u) ==
        /\ HasAccount(u)
        /\ Takes(d, [pc |-> "accept", user |-> u, row |-> i, signup |-> FALSE])
        /\ excused' = IF Removing(u) THEN excused \cup {u} ELSE excused
        /\ UNCHANGED <<account, orgRole, wsRole, home, invites, exists, purge, deaths, raced, limbo, lifted>>
<1>0. PICK i \in DOMAIN invites : Accepts(i, invites[i].email)
  BY DEF AcceptInvite
<1>1. PICK u : u = invites[i].email /\ Accepts(i, u)
  BY <1>0
<1> DEFINE w == [pc |-> "accept", user |-> u, row |-> i, signup |-> FALSE]
<1>2. i \in Nat \ {0} /\ invites[i] \in Row
  BY DEF TeamTyped
<1>3. u \in Users
  BY <1>1, <1>2 DEF Row
<1>4. w \in Work
  BY <1>2, <1>3 DEF Work, Accepting
<1>5. w.pc = "accept" /\ w.user = u /\ w.row = i /\ Takes(d, w)
  BY <1>1
<1> HIDE DEF w
<1>6. Fits(w)'
  <2>1. account'[u] # "none" /\ i \in DOMAIN invites'
    BY <1>1 DEF HasAccount
  <2> QED BY <1>5, <2>1 DEF Fits
<1>7. w.pc \in Admits /\ w.pc \notin Removes /\ ~Climbs(w)
  BY <1>5 DEF Admits, Removes, Climbs
<1>8. /\ UNCHANGED <<account, orgRole, wsRole, home, invites, exists, raced, limbo, purge, lifted>>
      /\ excused' = IF Removing(w.user) THEN excused \cup {w.user} ELSE excused
  BY <1>1, <1>5
<1> QED BY <1>3, <1>4, <1>5, <1>6, <1>7, <1>8, RequestBegins DEF TeamTyped

\* The last owner is spared.
LEMMA CountedTwo ==
  ASSUME TeamTyped, MembersFit, NEW u \in Users, MayLose(u)
  PROVE  Counted(u) \in Nat /\ (Counted(u) = 0 \/ Counted(u) > 1)
  BY OwnersAreCounted DEF Counted, MayLose

\* A removal passes its checks.
LEMMA RemovingKeepsTeam ==
  ASSUME TeamTyped, TeamInv, ClimbInv, NEW d \in Desks, RemoveMember(d)
  PROVE  TeamTyped' /\ TeamInv' /\ ClimbInv'
<1>1. PICK u \in Users :
        /\ orgRole[u] > 0 /\ MayLose(u)
        /\ Takes(d, [pc |-> "remove", user |-> u, counted |-> Counted(u)])
        /\ excused' = IF Admitting(u) THEN excused \cup {u} ELSE excused
        /\ UNCHANGED <<account, orgRole, wsRole, home, invites, exists, purge, deaths, raced, limbo, lifted>>
  BY DEF RemoveMember
<1>2. PICK n \in Nat : n = Counted(u) /\ (n = 0 \/ n > 1)
  BY <1>1, CountedTwo DEF TeamInv
<1> DEFINE w == [pc |-> "remove", user |-> u, counted |-> n]
<1>3. w \in Work
  BY DEF Work, Removal
<1>4. w.pc = "remove" /\ w.user = u /\ w.counted = n /\ Takes(d, w)
  BY <1>1, <1>2
<1> HIDE DEF w
<1>5. account[u] # "none"
  BY <1>1 DEF TeamInv, MembersFit
<1>6. Fits(w)' /\ ~Climbs(w)
  BY <1>1, <1>2, <1>4, <1>5 DEF Fits, Climbs, Admits, Removes
<1>7. w.pc \in Removes /\ w.pc \notin Admits
  BY <1>4 DEF Admits, Removes
<1> QED BY <1>1, <1>3, <1>4, <1>6, <1>7, RequestBegins DEF TeamTyped

\* A change of role passes its checks: nobody rises above, or brings down somebody above.
LEMMA RoleChangeKeepsTeam ==
  ASSUME TeamTyped, TeamInv, ClimbInv, NEW d \in Desks, UpdateMemberRole(d)
  PROVE  TeamTyped' /\ TeamInv' /\ ClimbInv'
<1>1. PICK a \in Users, u \in Users, new \in {MEMBER, ADMIN} :
        /\ orgRole[a] >= ADMIN /\ orgRole[u] > 0 /\ orgRole[a] >= orgRole[u]
        /\ new >= ADMIN => new < orgRole[a]
        /\ MayLose(u)
        /\ Takes(d, [pc |-> "role", user |-> u, new |-> new, counted |-> Counted(u)])
        /\ lifted' = (lifted \/ orgRole[a] = OWNER)
        /\ UNCHANGED <<account, orgRole, wsRole, home, invites, exists, purge, deaths, excused, raced, limbo>>
  BY DEF UpdateMemberRole
<1>2. PICK n \in Nat : n = Counted(u) /\ (n = 0 \/ n > 1)
  BY <1>1, CountedTwo DEF TeamInv
<1> DEFINE w == [pc |-> "role", user |-> u, new |-> new, counted |-> n]
<1>3. w \in Work
  BY DEF Work, RoleChange
<1>4. w.pc = "role" /\ w.user = u /\ w.new = new /\ w.counted = n /\ Takes(d, w)
  BY <1>1, <1>2
<1> HIDE DEF w
<1>5. ASSUME ~lifted' PROVE new # ADMIN /\ orgRole[u] # OWNER
  <2>1. orgRole[a] \in 0 .. 3 /\ orgRole[a] # 3 /\ orgRole[u] \in 0 .. 3
    BY <1>1, <1>5 DEF TeamTyped, OWNER
  <2> QED BY <1>1, <2>1 DEF ADMIN, OWNER
<1>6. Fits(w)' /\ (~lifted' => ~Climbs(w))
  BY <1>2, <1>4, <1>5 DEF Fits, Climbs, Admits, Removes
<1>7. w.pc \notin Removes /\ w.pc \notin Admits
  BY <1>4 DEF Admits, Removes
<1> QED BY <1>1, <1>3, <1>4, <1>6, <1>7, RequestBegins DEF TeamTyped

\* An assignment passes its checks.
LEMMA AssigningKeepsTeam ==
  ASSUME TeamTyped, TeamInv, ClimbInv, NEW d \in Desks, AssignWorkspace(d)
  PROVE  TeamTyped' /\ TeamInv' /\ ClimbInv'
<1> DEFINE Assigns(a, u, new, old) ==
        /\ orgRole[u] > 0 /\ old = wsRole[u]
        /\ MayReassign(a, old, new)
        /\ Takes(d, [pc |-> "assign", user |-> u, old |-> old, new |-> new])
        /\ excused' = IF Removing(u) THEN excused \cup {u} ELSE excused
        /\ lifted' = (lifted \/ orgRole[a] = OWNER)
        /\ UNCHANGED <<account, orgRole, wsRole, home, invites, exists, purge, deaths, raced, limbo>>
<1>0. PICK a \in Users, u \in Users, new \in {0} \cup WsRoles : Assigns(a, u, new, wsRole[u])
  BY DEF AssignWorkspace
<1>1. PICK old : Assigns(a, u, new, old)
  BY <1>0
<1> DEFINE w == [pc |-> "assign", user |-> u, old |-> old, new |-> new]
<1>2. old \in Seats /\ new \in Seats
  BY <1>1 DEF TeamTyped, Seats
<1>3. w \in Work
  BY <1>2 DEF Work, Assignment
<1>4. w.pc = "assign" /\ w.user = u /\ w.new = new /\ Takes(d, w)
  BY <1>1
<1> HIDE DEF w
<1>5. account[u] # "none" /\ orgRole[u] # 0
  BY <1>1 DEF TeamInv, MembersFit
<1>6. Fits(w)'
  BY <1>1, <1>4, <1>5 DEF Fits
<1>7. ASSUME ~lifted' PROVE ~Climbs(w)
  <2>1. new <= wsRole[a] /\ wsRole[a] <= 5
    BY <1>1, <1>7 DEF MayReassign, _inviter_workspace_level, ClimbInv, WS_MANAGER
  <2>2. new <= 5
    BY <1>2, <2>1, SeatLevels DEF TeamTyped
  <2> QED BY <1>2, <1>4, <2>2, SeatLevels DEF Climbs, WS_MANAGER
<1>8. w.pc \in Admits /\ w.pc \notin Removes
  BY <1>4 DEF Admits, Removes
<1>9. /\ UNCHANGED <<account, orgRole, wsRole, home, invites, exists, raced, limbo, purge>>
      /\ excused' = IF Removing(w.user) THEN excused \cup {w.user} ELSE excused
      /\ lifted' \in BOOLEAN /\ (lifted => lifted')
  BY <1>1, <1>4 DEF TeamTyped
<1> QED BY <1>3, <1>4, <1>6, <1>7, <1>8, <1>9, RequestBegins DEF TeamTyped

\* The deletion of an account, and of the organization, begins.
LEMMA DeletingKeepsTeam ==
  ASSUME TeamTyped, TeamInv, ClimbInv, NEW d \in Desks,
         DeleteAccountRequest(d) \/ DeleteNow(d) \/ ExecuteScheduledDeletion(d)
  PROVE  TeamTyped' /\ TeamInv' /\ ClimbInv'
<1>1. CASE DeleteAccountRequest(d)
  <2>1. PICK u \in Users :
          /\ HasAccount(u) /\ MayLose(u)
          /\ Takes(d, [pc |-> "close", user |-> u, counted |-> Counted(u)])
          /\ UNCHANGED <<account, orgRole, wsRole, home, invites, exists, purge, deaths, excused, raced, limbo, lifted>>
    BY <1>1 DEF DeleteAccountRequest
  <2>2. PICK n \in Nat : n = Counted(u) /\ (n = 0 \/ n > 1)
    BY <2>1, CountedTwo DEF TeamInv
  <2> DEFINE w == [pc |-> "close", user |-> u, counted |-> n]
  <2>3. w \in Work
    BY DEF Work, Closing
  <2>4. w.pc = "close" /\ w.counted = n /\ Takes(d, w)
    BY <2>1, <2>2
  <2> HIDE DEF w
  <2>5. Fits(w)' /\ ~Climbs(w) /\ w.pc \notin Removes /\ w.pc \notin Admits
    BY <2>2, <2>4 DEF Fits, Climbs, Admits, Removes
  <2> QED BY <2>1, <2>3, <2>4, <2>5, RequestBegins DEF TeamTyped
<1>2. ASSUME NEW by \in SUBSET Users, work[d] = Free, work' = [work EXCEPT ![d] = [pc |-> "purge", by |-> by]],
             purge' = [purge EXCEPT !.queued = FALSE],
             UNCHANGED <<account, orgRole, wsRole, home, invites, exists, excused, raced, limbo, lifted>>
      PROVE  TeamTyped' /\ TeamInv' /\ ClimbInv'
  <2> DEFINE w == [pc |-> "purge", by |-> by]
  <2>1. w \in Work /\ w.pc = "purge" /\ work[d].pc = "free" /\ work' = [work EXCEPT ![d] = w]
    BY <1>2 DEF Work, Purging, Free
  <2> HIDE DEF w
  <2>2. Fits(w)' /\ ~Climbs(w) /\ w.pc \notin Removes /\ w.pc \notin Admits
    BY <2>1 DEF Fits, Climbs, Admits, Removes
  <2>3. purge' \in [requested : BOOLEAN, due : BOOLEAN, queued : BOOLEAN]
    BY <1>2 DEF TeamTyped
  <2> QED BY <1>2, <2>1, <2>2, <2>3, DeskMoves DEF TeamTyped, TeamInv, ClimbInv
<1>3. CASE DeleteNow(d)
  <2>1. PICK a \in Owners : /\ Takes(d, [pc |-> "purge", by |-> {a}])
                            /\ purge' = [purge EXCEPT !.queued = FALSE]
                            /\ UNCHANGED <<account, orgRole, wsRole, home, invites, exists, excused, raced, limbo, lifted>>
    BY <1>3 DEF DeleteNow
  <2>2. {a} \in SUBSET Users
    BY DEF Owners
  <2> QED BY <1>2, <2>1, <2>2 DEF Takes
<1>4. CASE ExecuteScheduledDeletion(d)
  <2>1. CASE exists /\ purge.requested
    <3>1. /\ work[d] = Free /\ work' = [work EXCEPT ![d] = [pc |-> "purge", by |-> {}]]
          /\ purge' = [purge EXCEPT !.queued = FALSE]
          /\ UNCHANGED <<account, orgRole, wsRole, home, invites, exists, excused, raced, limbo, lifted>>
      BY <1>4, <2>1 DEF ExecuteScheduledDeletion
    <3>2. {} \in SUBSET Users
      OBVIOUS
    <3> QED BY <1>2, <3>1, <3>2
  <2>2. CASE ~(exists /\ purge.requested)
    <3>0. work' = work /\ work[d] = Free
      BY <1>4, <2>2 DEF ExecuteScheduledDeletion
    <3>1. work' = [work EXCEPT ![d] = Free] /\ work[d].pc # "settle"
      BY <3>0 DEF TeamTyped, Free
    <3>2. purge' \in [requested : BOOLEAN, due : BOOLEAN, queued : BOOLEAN]
      BY <1>4 DEF ExecuteScheduledDeletion, TeamTyped
    <3> QED BY <1>4, <3>1, <3>2, DeskEnds DEF ExecuteScheduledDeletion, Done, TeamTyped, TeamInv, ClimbInv
  <2> QED BY <2>1, <2>2
<1> QED BY <1>1, <1>3, <1>4

\* Somebody signs up, who was not in anybody's hands.
LEMMA SignUpKeepsTeam ==
  ASSUME TeamTyped, TeamInv, ClimbInv, NEW d \in Desks, SignUp(d)
  PROVE  TeamTyped' /\ TeamInv' /\ ClimbInv'
<1>1. PICK u \in Users, w \in Work :
        /\ account[u] = "none" /\ account' = [account EXCEPT ![u] = "open"]
        /\ home' = home \cup {u} /\ limbo' = limbo \ {u}
        /\ work' = [work EXCEPT ![d] = w]
        /\ w = work[d] \/ (work[d] = Free /\ w.pc = "accept" /\ w.user = u /\ w.row \in DOMAIN invites)
        /\ UNCHANGED <<orgRole, wsRole, invites, exists, purge, deaths, excused, raced, lifted>>
  <2>1. PICK u \in Users :
          /\ account[u] = "none" /\ account' = [account EXCEPT ![u] = "open"]
          /\ home' = home \cup {u} /\ limbo' = limbo \ {u}
          /\ \/ work[d] = Free /\ UNCHANGED <<work, requests>>
             \/ \E i \in DOMAIN invites :
                  /\ Open(i)
                  /\ Takes(d, [pc |-> "accept", user |-> u, row |-> i, signup |-> TRUE])
          /\ UNCHANGED <<orgRole, wsRole, invites, exists, purge, deaths, excused, raced, lifted>>
    BY DEF SignUp
  <2>2. CASE work[d] = Free /\ UNCHANGED work
    <3>1. work' = [work EXCEPT ![d] = work[d]] /\ work[d] \in Work
      BY <2>2 DEF TeamTyped
    <3> QED BY <2>1, <3>1
  <2>3. ASSUME NEW i \in DOMAIN invites, Takes(d, [pc |-> "accept", user |-> u, row |-> i, signup |-> TRUE])
        PROVE  \E w \in Work : /\ work' = [work EXCEPT ![d] = w] /\ work[d] = Free
                               /\ w.pc = "accept" /\ w.user = u /\ w.row = i
    <3> DEFINE w == [pc |-> "accept", user |-> u, row |-> i, signup |-> TRUE]
    <3>1. i \in Nat \ {0}
      BY DEF TeamTyped
    <3>2. w \in Work /\ w.pc = "accept" /\ w.user = u /\ w.row = i
      BY <3>1 DEF Work, Accepting
    <3>3. work' = [work EXCEPT ![d] = w] /\ work[d] = Free
      BY <2>3 DEF Takes
    <3> HIDE DEF w
    <3> QED BY <3>2, <3>3
  <2>4. CASE \E i \in DOMAIN invites : Takes(d, [pc |-> "accept", user |-> u, row |-> i, signup |-> TRUE])
    <3>1. PICK w \in Work : /\ work' = [work EXCEPT ![d] = w] /\ work[d] = Free
                            /\ w.pc = "accept" /\ w.user = u /\ w.row \in DOMAIN invites
      BY <2>3, <2>4
    <3> QED BY <2>1, <3>1
  <2> QED BY <2>1, <2>2, <2>4
<1>2. /\ work'[d] = w /\ \A e \in Desks \ {d} : work'[e] = work[e]
      /\ account'[u] = "open" /\ \A v \in Users \ {u} : account'[v] = account[v]
  BY <1>1 DEF TeamTyped
<1>3. orgRole[u] = 0 /\ wsRole[u] = 0
  BY <1>1 DEF TeamInv, MembersFit
<1>4. \A e \in Desks : work[e].pc \in Admits \cup Removes => work[e].user # u
  BY <1>1 DEF TeamInv, WorkFits, Fits
<1>5. TeamTyped'
  BY <1>1 DEF TeamTyped
<1>6. WorkFits'
  <2>1. ASSUME NEW e \in Desks, NEW x, x = work[e] PROVE Fits(x)'
    <3>1. Fits(x) /\ (x.pc \in Admits \cup Removes => x.user # u /\ x.user \in Users)
      BY <1>4, <2>1, KindOfWork DEF TeamInv, WorkFits, Admits, Removes, Accepting, Removal, Assignment
    <3>2. x.pc \in Admits \cup Removes =>
            /\ account'[x.user] = account[x.user]
            /\ x.user \in limbo => x.user \in limbo'
      BY <1>1, <1>2, <3>1
    <3> QED BY <1>1, <3>1, <3>2 DEF Fits, HasAccount, Admits, Removes
  <2>2. ASSUME w.pc = "accept", w.user = u, w.row \in DOMAIN invites PROVE Fits(w)'
    BY <1>1, <1>2, <2>2 DEF Fits, Admits, Removes
  <2>3. Fits(w)'
    BY <1>1, <2>1, <2>2
  <2>4. ASSUME NEW e \in Desks PROVE Fits(work[e])'
    BY <1>2, <2>1, <2>3 DEF Fits, HasAccount
  <2> QED BY <2>4 DEF WorkFits
<1>7. MeetingsAreExcused'
  <2>1. \A e \in Desks : work'[e].pc \in Admits => \/ work'[e] = work[e]
                                                   \/ work'[e].user = u
    BY <1>1, <1>2
  <2>2. \A e \in Desks : work'[e].pc \in Removes => work'[e] = work[e]
    BY <1>1, <1>2 DEF Removes
  <2> QED BY <1>1, <1>4, <2>1, <2>2 DEF MeetingsAreExcused, TeamInv
<1>8. MembersFit' /\ AnOwnerRemains' /\ WorkspaceMembersBelong' /\ (~exists => invites = <<>>)'
  BY <1>1, <1>2 DEF TeamInv, MembersFit, AnOwnerRemains, WorkspaceMembersBelong, Owners
<1>9. NobodyInLimbo'
  <2>1. \A e \in Desks : work[e].pc = "settle" => work'[e] = work[e]
    BY <1>1, <1>2 DEF Free
  <2> QED BY <1>1, <1>2, <2>1 DEF NobodyInLimbo, HasAccount, TeamInv
<1>10. ClimbInv'
  <2>1. \A e \in Desks : work'[e] = work[e] \/ (work'[e] = w /\ w.pc = "accept")
    BY <1>1, <1>2
  <2> QED BY <1>1, <2>1 DEF ClimbInv, Climbs
<1> QED BY <1>5, <1>6, <1>7, <1>8, <1>9, <1>10 DEF TeamInv

\* No new meeting: what is in progress is what was, or is over.
LEMMA MeetingsStay ==
  ASSUME MeetingsAreExcused, excused \subseteq excused',
         \A e \in Desks :
           /\ work'[e].pc \in Admits => work[e].pc \in Admits /\ work'[e].user = work[e].user
           /\ work'[e].pc \in Removes => work[e].pc \in Removes /\ work'[e].user = work[e].user
  PROVE  MeetingsAreExcused'
  BY DEF MeetingsAreExcused

\* An acceptance that goes on to its next statement.
LEMMA AcceptanceGoesOn ==
  ASSUME TeamTyped, NEW d \in Desks, work[d].pc \in {"accept", "joined"}, NEW pc \in {"joined", "seated"},
         NEW w, w = [work[d] EXCEPT !.pc = pc]
  PROVE  w \in Work /\ w.pc = pc /\ w.user = work[d].user /\ w.user \in Users /\ w.row = work[d].row
<1>1. work[d] \in Accepting
  BY KindOfWork
<1>2. w \in Accepting
  BY <1>1 DEF Accepting
<1> QED BY <1>1, <1>2 DEF Work, Accepting

\* The invitation of an acceptance, while the organization is there.
LEMMA InvitationIsThere ==
  ASSUME TeamTyped, TeamInv, NEW d \in Desks, work[d].pc \in {"accept", "joined", "seated"}, exists
  PROVE  work[d].row \in DOMAIN invites /\ invites[work[d].row] \in Row
<1>1. work[d].row \in DOMAIN invites
  BY DEF TeamInv, WorkFits, Fits
<1> QED BY <1>1 DEF TeamTyped

\* The membership of the organization, which comes before that of the workspace.
LEMMA JoiningKeepsTeam ==
  ASSUME TeamTyped, TeamInv, ClimbInv, NEW d \in Desks, JoinOrganization(d)
  PROVE  TeamTyped' /\ TeamInv' /\ ClimbInv'
<1>1. CASE ~(exists /\ HasAccount(work[d].user))
  BY <1>1, DeskEnds DEF JoinOrganization, TeamTyped, TeamInv, ClimbInv
<1>2. CASE exists /\ HasAccount(work[d].user)
  <2>1. PICK u, row, w, lev :
          /\ u = work[d].user /\ row = invites[work[d].row] /\ w = [work[d] EXCEPT !.pc = "joined"]
          /\ lev = IF orgRole[u] = 0 THEN row.org ELSE orgRole[u]
    OBVIOUS
  <2>2. /\ work[d].pc = "accept" /\ orgRole' = [orgRole EXCEPT ![u] = lev]
        /\ limbo' = limbo \ {u}
        /\ UNCHANGED <<account, wsRole, home, invites, exists, purge, deaths, excused, raced, lifted>>
    BY <1>2, <2>1 DEF JoinOrganization
  <2>3. w \in Work /\ w.pc = "joined" /\ w.user = u /\ u \in Users /\ w.row = work[d].row
    BY <2>1, <2>2, AcceptanceGoesOn
  <2>4. w.row \in DOMAIN invites /\ row \in Row
    BY <1>2, <2>1, <2>2, <2>3, InvitationIsThere
  <2>5. row.org \in {1, 2} /\ orgRole[u] \in 0 .. 3 /\ lev \in 1 .. 3 /\ (lev = 3 <=> orgRole[u] = 3)
    BY <2>1, <2>3, <2>4 DEF Row, TeamTyped, MEMBER, ADMIN, OWNER
  <2>6. /\ work' = [work EXCEPT ![d] = w] /\ work'[d] = w
        /\ \A e \in Desks \ {d} : work'[e] = work[e]
        /\ orgRole'[u] = lev /\ \A v \in Users \ {u} : orgRole'[v] = orgRole[v]
    BY <1>2, <2>1, <2>2, <2>3 DEF JoinOrganization, TeamTyped
  <2>7. TeamTyped'
    BY <2>2, <2>3, <2>5, <2>6 DEF TeamTyped, OWNER
  <2>8. WorkFits'
    <3>1. ASSUME NEW e \in Desks \ {d}, NEW x, x = work[e] PROVE Fits(x)'
      <4>1. Fits(x) /\ (x.pc \in {"joined", "seated", "assign"} => x.user \in Users)
        BY <3>1, KindOfWork DEF TeamInv, WorkFits, Accepting, Assignment
      <4>2. x.pc \in {"joined", "seated", "assign"} /\ orgRole'[x.user] = 0 =>
              orgRole[x.user] = 0 /\ (x.user \in limbo => x.user \in limbo')
        BY <2>2, <2>5, <2>6, <4>1
      <4> QED BY <2>2, <4>1, <4>2 DEF Fits, HasAccount
    <3>2. Fits(w)'
      BY <1>2, <2>1, <2>2, <2>3, <2>4, <2>5, <2>6 DEF Fits, HasAccount
    <3>3. ASSUME NEW e \in Desks PROVE Fits(work[e])'
      BY <2>6, <3>1, <3>2 DEF Fits, HasAccount
    <3> QED BY <3>3 DEF WorkFits
  <2>9. MeetingsAreExcused'
    BY <2>1, <2>2, <2>3, <2>6, MeetingsStay DEF TeamInv, Admits, Removes
  <2>10. MembersFit' /\ (~exists => invites = <<>>)' /\ Owners' = Owners
    <3>1. account[u] # "none"
      BY <1>2, <2>1 DEF HasAccount
    <3> QED BY <1>2, <2>1, <2>2, <2>5, <2>6, <3>1 DEF TeamInv, MembersFit, OWNER, Owners
  <2>11. AnOwnerRemains' /\ WorkspaceMembersBelong'
    BY <2>2, <2>5, <2>6, <2>10 DEF TeamInv, AnOwnerRemains, WorkspaceMembersBelong
  <2>12. NobodyInLimbo'
    <3>1. \A e \in Desks : work[e].pc = "settle" => work'[e] = work[e]
      BY <2>2, <2>6
    <3> QED BY <2>2, <2>5, <2>6, <3>1 DEF NobodyInLimbo, HasAccount, TeamInv
  <2>13. ClimbInv'
    <3>1. ASSUME ~lifted'
          PROVE  \A v \in Users : /\ orgRole'[v] # OWNER => wsRole'[v] <= WS_MANAGER
                                  /\ orgRole'[v] = ADMIN => v \in Staff
      <4>1. row.org = MEMBER
        BY <2>1, <2>2, <2>3, <2>4, <3>1 DEF ClimbInv, Modest
      <4> QED BY <2>1, <2>2, <2>5, <2>6, <3>1, <4>1 DEF ClimbInv, MEMBER, ADMIN, OWNER
    <3>2. ASSUME ~lifted', NEW e \in Desks, NEW x, x = work'[e] PROVE ~Climbs(x)'
      <4>1. CASE e = d
        BY <2>3, <2>6, <3>2, <4>1 DEF Climbs
      <4>2. CASE e # d
        <5>1. ~Climbs(x) /\ (x.pc = "role" => x.user \in Users)
          BY <2>2, <2>6, <3>2, <4>2, KindOfWork DEF ClimbInv, RoleChange
        <5> QED BY <2>2, <2>5, <2>6, <5>1 DEF Climbs, OWNER
      <4> QED BY <4>1, <4>2
    <3>3. ~lifted' => \A e \in Desks : ~Climbs(work[e])'
      BY <3>2 DEF Climbs
    <3> QED BY <2>2, <3>1, <3>3 DEF ClimbInv
  <2> QED BY <2>7, <2>8, <2>9, <2>10, <2>11, <2>12, <2>13 DEF TeamInv
<1> QED BY <1>1, <1>2

\* A seat in the workspace changes: it is given to members only, or with an excuse, and
\* not to somebody under removal without one.
LEMMA SeatChanges ==
  ASSUME TeamTyped, TeamInv, ClimbInv,
         NEW u \in Users, NEW lev \in Seats, wsRole' = [wsRole EXCEPT ![u] = lev],
         UNCHANGED <<account, orgRole, home, invites, exists, purge, excused, raced, limbo, lifted>>,
         lev # 0 => exists /\ account[u] # "none" /\ (orgRole[u] = 0 => u \in excused),
         lev # 0 => \A e \in Desks : work[e].pc \in Removes /\ work[e].user = u => u \in excused,
         ~lifted => lev <= WS_MANAGER \/ lev = wsRole[u],
         work' \in [Desks -> Work],
         \A e \in Desks :
           /\ work'[e].pc \in Admits => work[e].pc \in Admits /\ work'[e].user = work[e].user
           /\ work'[e].pc \in Removes => work[e].pc \in Removes /\ work'[e].user = work[e].user
           /\ work[e].pc = "settle" => work'[e] = work[e],
         \A e \in Desks : \A x \in Work :
           x = work'[e] => x = work[e] \/ (Fits(x)' /\ (~lifted => ~Climbs(x)'))
  PROVE  TeamTyped' /\ TeamInv' /\ ClimbInv'
<1>0. wsRole'[u] = lev /\ \A v \in Users \ {u} : wsRole'[v] = wsRole[v]
  BY DEF TeamTyped
<1>1. TeamTyped'
  BY DEF TeamTyped
<1>2. ASSUME NEW e \in Desks, NEW x \in Work, x = work[e]
      PROVE  Fits(x)' /\ (~lifted => ~Climbs(x)')
  <2>1. Fits(x) /\ (x.pc \in Removes => x.user \in Users) /\ (~lifted => ~Climbs(x))
    BY <1>2, KindOfWork DEF TeamInv, WorkFits, Removal, Removes, ClimbInv
  <2>2. x.pc = "removeOrg" => wsRole'[x.user] = 0 \/ x.user \in excused
    <3>1. CASE x.user = u /\ lev # 0
      BY <1>2, <3>1 DEF Removes
    <3>2. CASE x.user = u /\ lev = 0
      BY <1>0, <3>2
    <3>3. CASE x.user # u
      BY <1>0, <2>1, <3>3 DEF Fits, Removes
    <3> QED BY <3>1, <3>2, <3>3
  <2>3. Fits(x)'
    BY <2>1, <2>2 DEF Fits, HasAccount
  <2>4. ~lifted /\ x.pc = "removeOrg" => ~(wsRole'[x.user] > WS_MANAGER)
    <3>1. CASE x.user = u
      BY <1>0, <2>1, <3>1, SeatLevels DEF WS_MANAGER, Climbs
    <3>2. CASE x.user # u
      BY <1>0, <2>1, <3>2 DEF Climbs, Removes
    <3> QED BY <3>1, <3>2
  <2> QED BY <2>1, <2>3, <2>4 DEF Climbs
<1>3. ASSUME NEW e \in Desks PROVE Fits(work[e])' /\ (~lifted => ~Climbs(work[e])')
  <2>1. PICK x \in Work : x = work'[e]
    OBVIOUS
  <2>2. Fits(x)' /\ (~lifted => ~Climbs(x)')
    BY <1>2, <2>1
  <2> QED BY <2>1, <2>2 DEF Fits, Climbs, HasAccount
<1>4. MeetingsAreExcused'
  BY MeetingsStay DEF TeamInv
<1>5. MembersFit' /\ (~exists => invites = <<>>)' /\ AnOwnerRemains' /\ WorkspaceMembersBelong'
  <2>1. MembersFit'
    BY <1>0 DEF TeamInv, MembersFit
  <2>2. WorkspaceMembersBelong'
    BY <1>0 DEF TeamInv, WorkspaceMembersBelong
  <2> QED BY <2>1, <2>2 DEF TeamInv, AnOwnerRemains, Owners
<1>6. NobodyInLimbo'
  BY DEF TeamInv, NobodyInLimbo, HasAccount
<1>7. ClimbInv'
  <2>1. ASSUME ~lifted'
        PROVE  \A v \in Users : /\ orgRole'[v] # OWNER => wsRole'[v] <= WS_MANAGER
                                /\ orgRole'[v] = ADMIN => v \in Staff
    BY <1>0, <2>1 DEF ClimbInv
  <2>2. ASSUME ~lifted' PROVE \A i \in DOMAIN invites' : Modest(invites'[i])
    BY <2>2 DEF ClimbInv
  <2> QED BY <1>3, <2>1, <2>2 DEF ClimbInv
<1> QED BY <1>1, <1>3, <1>4, <1>5, <1>6, <1>7 DEF TeamInv, WorkFits

\* The seats given by acceptances and assignments, and those taken away.
LEMMA SeatingKeepsTeam ==
  ASSUME TeamTyped, TeamInv, ClimbInv, NEW d \in Desks,
         JoinWorkspace(d) \/ RemoveFromWorkspaces(d) \/ SaveAssignment(d)
  PROVE  TeamTyped' /\ TeamInv' /\ ClimbInv'
<1>0. PICK u : u = work[d].user
  OBVIOUS
<1>1. CASE JoinWorkspace(d)
  <2>1. CASE ~(exists /\ HasAccount(u))
    BY <1>0, <1>1, <2>1, DeskEnds DEF JoinWorkspace, TeamTyped, TeamInv, ClimbInv
  <2>2. CASE exists /\ HasAccount(u)
    <3>1. PICK row, w, lev : /\ row = invites[work[d].row] /\ w = [work[d] EXCEPT !.pc = "seated"]
                             /\ lev = IF wsRole[u] = 0 THEN row.ws ELSE wsRole[u]
      OBVIOUS
    <3>2. /\ work[d].pc = "joined" /\ wsRole' = [wsRole EXCEPT ![u] = lev]
          /\ work' = [work EXCEPT ![d] = w]
          /\ UNCHANGED <<account, orgRole, home, invites, exists, purge, excused, raced, limbo, lifted>>
      BY <1>0, <1>1, <2>2, <3>1 DEF JoinWorkspace
    <3>3. w \in Work /\ w.pc = "seated" /\ w.user = u /\ u \in Users /\ w.row = work[d].row
      BY <1>0, <3>1, <3>2, AcceptanceGoesOn
    <3>4. row \in Row
      BY <2>2, <3>1, <3>2, InvitationIsThere
    <3>5. lev \in Seats
      BY <3>1, <3>3, <3>4 DEF Row, TeamTyped
    <3>6. Fits(work[d]) /\ (orgRole[u] = 0 => u \in excused) /\ account[u] # "none"
      BY <1>0, <2>2, <3>2 DEF TeamInv, WorkFits, Fits, HasAccount
    <3>7. \A e \in Desks : work[e].pc \in Removes /\ work[e].user = u => u \in excused
      BY <1>0, <3>2 DEF TeamInv, MeetingsAreExcused, Admits
    <3>8. ~lifted => lev <= WS_MANAGER \/ lev = wsRole[u]
      <4>1. ~lifted => row.ws <= WS_MANAGER
        BY <2>2, <3>1, <3>2, InvitationIsThere DEF ClimbInv, Modest
      <4> QED BY <3>1, <4>1
    <3>9. work' \in [Desks -> Work] /\ work'[d] = w /\ \A e \in Desks \ {d} : work'[e] = work[e]
      BY <3>2, <3>3 DEF TeamTyped
    <3>10. \A e \in Desks :
             /\ work'[e].pc \in Admits => work[e].pc \in Admits /\ work'[e].user = work[e].user
             /\ work'[e].pc \in Removes => work[e].pc \in Removes /\ work'[e].user = work[e].user
             /\ work[e].pc = "settle" => work'[e] = work[e]
      BY <1>0, <3>2, <3>3, <3>9 DEF Admits, Removes
    <3>11. Fits(w)' /\ ~Climbs(w)'
      BY <1>0, <2>2, <3>2, <3>3, <3>6 DEF Fits, Climbs, HasAccount
    <3> QED BY <2>2, <3>2, <3>3, <3>5, <3>6, <3>7, <3>8, <3>9, <3>10, <3>11, SeatChanges
  <2> QED BY <2>1, <2>2
<1>f. Free \in Work /\ Free.pc = "free"
  BY DEF Work, Free
<1>2. CASE RemoveFromWorkspaces(d)
  <2>1. PICK w : w = [work[d] EXCEPT !.pc = "removeOrg"]
    OBVIOUS
  <2>2. /\ work[d].pc = "remove" /\ wsRole' = [wsRole EXCEPT ![u] = 0]
        /\ work' = [work EXCEPT ![d] = w]
        /\ UNCHANGED <<account, orgRole, home, invites, exists, purge, excused, raced, limbo, lifted>>
    BY <1>0, <1>2, <2>1 DEF RemoveFromWorkspaces
  <2>3. work[d] \in Removal
    BY <2>2, KindOfWork
  <2>4. w \in Removal /\ w.pc = "removeOrg" /\ w.user = u /\ u \in Users /\ w.counted = work[d].counted
    BY <1>0, <2>1, <2>3 DEF Removal
  <2>5. w \in Work
    BY <2>4 DEF Work
  <2>6. work' \in [Desks -> Work] /\ work'[d] = w /\ \A e \in Desks \ {d} : work'[e] = work[e]
    BY <2>2, <2>5 DEF TeamTyped
  <2>7. \A e \in Desks :
           /\ work'[e].pc \in Admits => work[e].pc \in Admits /\ work'[e].user = work[e].user
           /\ work'[e].pc \in Removes => work[e].pc \in Removes /\ work'[e].user = work[e].user
           /\ work[e].pc = "settle" => work'[e] = work[e]
    BY <1>0, <2>2, <2>4, <2>6 DEF Admits, Removes
  <2>8. wsRole'[u] = 0
    BY <2>2, <2>4 DEF TeamTyped
  <2>9. Fits(work[d])
    BY DEF TeamInv, WorkFits
  <2>10. Fits(w)' /\ ~Climbs(w)'
    <3>1. account[u] # "none" /\ (w.counted = 0 \/ w.counted > 1)
      BY <1>0, <2>2, <2>4, <2>9 DEF Fits, Removes
    <3>2. Fits(w)'
      BY <2>2, <2>4, <2>8, <3>1 DEF Fits
    <3> QED BY <2>4, <2>8, <3>2 DEF Climbs, WS_MANAGER
  <2>11. 0 \in Seats /\ 0 <= WS_MANAGER
    BY SeatLevels DEF WS_MANAGER
  <2> QED BY <2>2, <2>4, <2>6, <2>7, <2>10, <2>11, SeatChanges
<1>3. CASE SaveAssignment(d)
  <2>1. work[d] \in Assignment /\ u \in Users /\ work[d].new \in Seats
    BY <1>0, <1>3, KindOfWork DEF SaveAssignment, Assignment
  <2>2. CASE exists /\ HasAccount(u) /\ (work[d].old > 0 <=> wsRole[u] > 0)
    <3>1. PICK lev \in Seats : lev = work[d].new
      BY <2>1
    <3>2. /\ work[d].pc = "assign" /\ wsRole' = [wsRole EXCEPT ![u] = lev]
          /\ work' = [work EXCEPT ![d] = Free]
          /\ UNCHANGED <<account, orgRole, home, invites, exists, purge, excused, raced, limbo, lifted>>
      BY <1>0, <1>3, <2>2, <3>1 DEF SaveAssignment, Done
    <3>3. (orgRole[u] = 0 => u \in excused) /\ account[u] # "none"
      BY <1>0, <2>2, <3>2 DEF TeamInv, WorkFits, Fits, HasAccount
    <3>4. \A e \in Desks : work[e].pc \in Removes /\ work[e].user = u => u \in excused
      BY <1>0, <3>2 DEF TeamInv, MeetingsAreExcused, Admits
    <3>5. ~lifted => lev <= WS_MANAGER
      <4>1. ~lifted => ~Climbs(work[d])
        BY DEF ClimbInv
      <4> QED BY <3>1, <3>2, <4>1, SeatLevels DEF Climbs, WS_MANAGER
    <3>6. work' \in [Desks -> Work] /\ work'[d] = Free /\ \A e \in Desks \ {d} : work'[e] = work[e]
      BY <1>f, <3>2 DEF TeamTyped
    <3>7. \A e \in Desks :
             /\ work'[e].pc \in Admits => work[e].pc \in Admits /\ work'[e].user = work[e].user
             /\ work'[e].pc \in Removes => work[e].pc \in Removes /\ work'[e].user = work[e].user
             /\ work[e].pc = "settle" => work'[e] = work[e]
      BY <1>f, <3>2, <3>6 DEF Admits, Removes
    <3>8. Fits(Free)' /\ ~Climbs(Free)'
      BY <1>f DEF Fits, Climbs, Admits, Removes
    <3> HIDE DEF Free
    <3> QED BY <2>1, <2>2, <3>2, <3>3, <3>4, <3>5, <3>6, <3>7, <3>8, SeatChanges
  <2>3. CASE ~(exists /\ HasAccount(u) /\ (work[d].old > 0 <=> wsRole[u] > 0))
    BY <1>0, <1>3, <2>3, DeskEnds DEF SaveAssignment, TeamTyped, TeamInv, ClimbInv
  <2> QED BY <2>2, <2>3
<1> QED BY <1>1, <1>2, <1>3

\* A manager takes a client out of the workspace.
LEMMA ClientLeavesTeam ==
  ASSUME TeamTyped, TeamInv, ClimbInv, RemoveClient
  PROVE  TeamTyped' /\ TeamInv' /\ ClimbInv'
<1>1. PICK u \in Users :
        /\ wsRole' = [wsRole EXCEPT ![u] = 0]
        /\ UNCHANGED <<account, orgRole, home, invites, exists, purge, work, excused, raced, limbo, lifted>>
  BY DEF RemoveClient
<1>2. 0 \in Seats /\ 0 <= WS_MANAGER
  BY SeatLevels DEF WS_MANAGER
<1>3. work' \in [Desks -> Work] /\ \A e \in Desks : work'[e] = work[e]
  BY <1>1 DEF TeamTyped
<1> QED BY <1>1, <1>2, <1>3, SeatChanges

\* An owner who goes leaves another one, or is known to have raced.
LEMMA OwnerStays ==
  ASSUME TeamTyped, MembersFit, AnOwnerRemains, NEW u \in Users, NEW lev, lev # OWNER,
         orgRole' = [orgRole EXCEPT ![u] = lev], UNCHANGED exists,
         NEW n, n = 0 \/ n > 1, Loses(u, n)
  PROVE  AnOwnerRemains'
<1>1. orgRole'[u] = lev /\ \A v \in Users \ {u} : orgRole'[v] = orgRole[v]
  BY DEF TeamTyped
<1>2. CASE orgRole[u] # OWNER
  <2>1. Owners' = Owners
    BY <1>1, <1>2 DEF Owners
  <2> QED BY <2>1, <1>2 DEF AnOwnerRemains, Loses
<1>3. ASSUME orgRole[u] = OWNER, ~raced' PROVE Owners' # {}
  <2>1. n = Cardinality(Owners) /\ u \in Owners
    BY <1>3 DEF Loses, Owners
  <2>2. Cardinality(Owners) # 0
    BY <2>1, OwnersAreCounted, FS_EmptySet
  <2>3. PICK v \in Owners : v # u
    BY <2>1, <2>2, AnotherOwner
  <2> QED BY <1>1, <2>3 DEF Owners
<1> QED BY <1>2, <1>3 DEF AnOwnerRemains

\* A removal ends: who leaves the organization has left the workspace before, or met
\* an admission.
LEMMA LeavingKeepsTeam ==
  ASSUME TeamTyped, TeamInv, ClimbInv, NEW d \in Desks, RemoveFromOrganization(d)
  PROVE  TeamTyped' /\ TeamInv' /\ ClimbInv'
<1>1. PICK u, n : u = work[d].user /\ n = work[d].counted
  OBVIOUS
<1>2. /\ work[d].pc = "removeOrg" /\ orgRole' = [orgRole EXCEPT ![u] = 0]
      /\ Loses(u, n) /\ limbo' = limbo \cup {u} /\ work' = [work EXCEPT ![d] = Free]
      /\ UNCHANGED <<account, wsRole, home, invites, exists, purge, excused, lifted>>
  BY <1>1 DEF RemoveFromOrganization, Done
<1>3. u \in Users /\ work[d] \in Removal
  BY <1>1, <1>2, KindOfWork DEF Removal
<1>f. Free \in Work /\ Free.pc = "free"
  BY DEF Work, Free
<1>4. /\ work'[d] = Free /\ \A e \in Desks \ {d} : work'[e] = work[e]
      /\ orgRole'[u] = 0 /\ \A v \in Users \ {u} : orgRole'[v] = orgRole[v]
  BY <1>2, <1>3, <1>f DEF TeamTyped
<1>5. TeamTyped'
  BY <1>2, <1>3, <1>f DEF TeamTyped, OWNER, Loses
<1>6. Fits(work[d]) /\ (n = 0 \/ n > 1) /\ (wsRole[u] = 0 \/ u \in excused)
  BY <1>1, <1>2 DEF TeamInv, WorkFits, Fits
<1>7. WorkFits'
  <2>1. ASSUME NEW e \in Desks \ {d}, NEW x, x = work[e] PROVE Fits(x)'
    <3>1. Fits(x) /\ (x.pc \in Admits \cup Removes => x.user \in Users)
      BY <2>1, KindOfWork DEF TeamInv, WorkFits, Accepting, Removal, Assignment, Admits, Removes
    <3>2. x.pc \in Admits /\ x.user = u => u \in excused
      BY <1>1, <1>2, <2>1 DEF TeamInv, MeetingsAreExcused, Removes
    <3>3. x.pc \in Admits \cup Removes /\ x.user # u => orgRole'[x.user] = orgRole[x.user]
      BY <1>4, <3>1
    <3> QED BY <1>2, <3>1, <3>2, <3>3 DEF Fits, HasAccount, Admits, Removes
  <2>2. Fits(Free)'
    BY <1>f DEF Fits, Admits, Removes
  <2>3. ASSUME NEW e \in Desks PROVE Fits(work[e])'
    BY <1>4, <2>1, <2>2 DEF Fits, HasAccount
  <2> QED BY <2>3 DEF WorkFits
<1>8. MeetingsAreExcused'
  BY <1>2, <1>4, <1>f, MeetingsStay DEF TeamInv, Admits, Removes
<1>9. MembersFit' /\ (~exists => invites = <<>>)'
  BY <1>2, <1>4 DEF TeamInv, MembersFit, OWNER
<1>10. AnOwnerRemains'
  <2>1. 0 # OWNER /\ MembersFit /\ AnOwnerRemains /\ UNCHANGED exists
    BY <1>2 DEF OWNER, TeamInv
  <2> QED BY <1>2, <1>3, <1>6, <2>1, OwnerStays
<1>11. WorkspaceMembersBelong' /\ NobodyInLimbo'
  <2>1. \A e \in Desks : work[e].pc = "settle" => work'[e] = work[e]
    BY <1>2, <1>4
  <2>2. WorkspaceMembersBelong'
    BY <1>2, <1>4, <1>6 DEF TeamInv, WorkspaceMembersBelong, TeamTyped
  <2>3. NobodyInLimbo'
    BY <1>2, <1>4, <2>1 DEF TeamInv, NobodyInLimbo, HasAccount
  <2> QED BY <2>2, <2>3
<1>12. ClimbInv'
  <2>1. ASSUME ~lifted
        PROVE  \A v \in Users : /\ orgRole'[v] # OWNER => wsRole'[v] <= WS_MANAGER
                                /\ orgRole'[v] = ADMIN => v \in Staff
    <3>1. wsRole[u] <= WS_MANAGER
      <4>1. ~Climbs(work[d])
        BY <2>1 DEF ClimbInv
      <4> QED BY SMTT(30), <1>1, <1>2, <1>3, <4>1, SeatLevels DEF Climbs, TeamTyped, WS_MANAGER
    <3> QED BY <1>2, <1>4, <2>1, <3>1 DEF ClimbInv, ADMIN
  <2>2. ASSUME ~lifted, NEW e \in Desks, NEW x, x = work'[e] PROVE ~Climbs(x)'
    <3>1. CASE e = d
      BY <1>4, <1>f, <2>2, <3>1 DEF Climbs
    <3>2. CASE e # d
      <4>1. ~Climbs(x) /\ (x.pc = "role" => x.user \in Users)
        BY <1>4, <2>2, <3>2, KindOfWork DEF ClimbInv, RoleChange
      <4> QED BY <1>2, <1>4, <4>1 DEF Climbs, OWNER
    <3> QED BY <3>1, <3>2
  <2>3. ~lifted => \A e \in Desks : ~Climbs(work[e])'
    BY <2>2 DEF Climbs
  <2> QED BY <1>2, <2>1, <2>3 DEF ClimbInv
<1> QED BY <1>5, <1>7, <1>8, <1>9, <1>10, <1>11, <1>12 DEF TeamInv

\* A role is saved, unless the membership has gone.
LEMMA SavingRoleKeepsTeam ==
  ASSUME TeamTyped, TeamInv, ClimbInv, NEW d \in Desks, SaveRole(d)
  PROVE  TeamTyped' /\ TeamInv' /\ ClimbInv'
<1>1. PICK u, n, lev : u = work[d].user /\ n = work[d].counted /\ lev = work[d].new
  OBVIOUS
<1>2. work[d].pc = "role" /\ work[d] \in RoleChange /\ u \in Users /\ lev \in {1, 2}
  BY <1>1, KindOfWork DEF SaveRole, RoleChange, MEMBER, ADMIN
<1>f. Free \in Work /\ Free.pc = "free"
  BY DEF Work, Free
<1>3. CASE orgRole[u] = 0
  BY <1>1, <1>2, <1>3, DeskEnds DEF SaveRole, TeamTyped, TeamInv, ClimbInv
<1>4. CASE orgRole[u] # 0
  <2>1. /\ orgRole' = [orgRole EXCEPT ![u] = lev] /\ Loses(u, n) /\ work' = [work EXCEPT ![d] = Free]
        /\ UNCHANGED <<account, wsRole, home, invites, exists, purge, excused, limbo, lifted>>
    BY <1>1, <1>4 DEF SaveRole, Done
  <2>2. /\ work'[d] = Free /\ \A e \in Desks \ {d} : work'[e] = work[e]
        /\ orgRole'[u] = lev /\ \A v \in Users \ {u} : orgRole'[v] = orgRole[v]
        /\ lev # 0 /\ lev # OWNER
    BY <1>2, <1>f, <2>1 DEF TeamTyped, OWNER
  <2>3. TeamTyped'
    BY <1>2, <1>f, <2>1 DEF TeamTyped, OWNER, Loses
  <2>4. WorkFits'
    <3>1. ASSUME NEW e \in Desks \ {d}, NEW x, x = work[e] PROVE Fits(x)'
      <4>1. Fits(x) /\ (x.pc \in {"joined", "seated", "assign"} => x.user \in Users)
        BY <3>1, KindOfWork DEF TeamInv, WorkFits, Accepting, Assignment
      <4>2. x.pc \in {"joined", "seated", "assign"} /\ orgRole'[x.user] = 0 => orgRole[x.user] = 0
        BY <2>2, <4>1
      <4> QED BY <2>1, <4>1, <4>2 DEF Fits, HasAccount
    <3>2. Fits(Free)'
      BY <1>f DEF Fits, Admits, Removes
    <3>3. ASSUME NEW e \in Desks PROVE Fits(work[e])'
      BY <2>2, <3>1, <3>2 DEF Fits, HasAccount
    <3> QED BY <3>3 DEF WorkFits
  <2>5. MeetingsAreExcused'
    BY <2>1, <2>2, <1>f, MeetingsStay DEF TeamInv, Admits, Removes
  <2>6. MembersFit' /\ (~exists => invites = <<>>)'
    BY <1>2, <1>4, <2>1, <2>2 DEF TeamInv, MembersFit
  <2>7. AnOwnerRemains'
    <3>1. n = 0 \/ n > 1
      BY <1>1, <1>2 DEF TeamInv, WorkFits, Fits
    <3> QED BY <1>2, <2>1, <2>2, <3>1, OwnerStays DEF TeamInv
  <2>8. WorkspaceMembersBelong' /\ NobodyInLimbo'
    <3>1. \A e \in Desks : work[e].pc = "settle" => work'[e] = work[e]
      BY <1>2, <2>2
    <3> QED BY <2>1, <2>2, <3>1 DEF TeamInv, WorkspaceMembersBelong, NobodyInLimbo, HasAccount
  <2>9. ClimbInv'
    <3>1. ASSUME ~lifted PROVE lev = MEMBER /\ orgRole[u] # OWNER
      <4>1. ~Climbs(work[d])
        BY <3>1 DEF ClimbInv
      <4> QED BY <1>1, <1>2, <4>1 DEF Climbs, MEMBER, ADMIN
    <3>2. ASSUME ~lifted
          PROVE  \A v \in Users : /\ orgRole'[v] # OWNER => wsRole'[v] <= WS_MANAGER
                                  /\ orgRole'[v] = ADMIN => v \in Staff
      BY <1>2, <2>1, <2>2, <3>1, <3>2 DEF ClimbInv, MEMBER, ADMIN
    <3>3. ASSUME ~lifted, NEW e \in Desks, NEW x, x = work'[e] PROVE ~Climbs(x)'
      <4>1. CASE e = d
        BY <1>f, <2>2, <3>3, <4>1 DEF Climbs
      <4>2. CASE e # d
        <5>1. ~Climbs(x) /\ (x.pc = "role" => x.user \in Users)
          BY <2>2, <3>3, <4>2, KindOfWork DEF ClimbInv, RoleChange
        <5> QED BY <2>1, <2>2, <5>1 DEF Climbs
      <4> QED BY <4>1, <4>2
    <3>4. ~lifted => \A e \in Desks : ~Climbs(work[e])'
      BY <3>3 DEF Climbs
    <3> QED BY <2>1, <3>2, <3>4 DEF ClimbInv
  <2> QED BY <2>3, <2>4, <2>5, <2>6, <2>7, <2>8, <2>9 DEF TeamInv
<1> QED BY <1>3, <1>4

\* An account is deleted with all that belongs to it.
LEMMA ClosingKeepsTeam ==
  ASSUME TeamTyped, TeamInv, ClimbInv, NEW d \in Desks, DeleteUser(d)
  PROVE  TeamTyped' /\ TeamInv' /\ ClimbInv'
<1>1. PICK u, n : u = work[d].user /\ n = work[d].counted
  OBVIOUS
<1>2. /\ work[d].pc = "close" /\ account' = [account EXCEPT ![u] = "closed"] /\ home' = home \ {u}
      /\ orgRole' = [orgRole EXCEPT ![u] = 0] /\ wsRole' = [wsRole EXCEPT ![u] = 0]
      /\ Loses(u, n) /\ work' = [work EXCEPT ![d] = Free]
      /\ UNCHANGED <<invites, exists, purge, excused, limbo, lifted>>
  BY <1>1 DEF DeleteUser, Done
<1>3. u \in Users
  BY <1>1, <1>2, KindOfWork DEF Closing
<1>f. Free \in Work /\ Free.pc = "free" /\ 0 \in Seats
  BY SeatLevels DEF Work, Free
<1>4. /\ work'[d] = Free /\ \A e \in Desks \ {d} : work'[e] = work[e]
      /\ account'[u] = "closed" /\ orgRole'[u] = 0 /\ wsRole'[u] = 0
      /\ \A v \in Users \ {u} : /\ orgRole'[v] = orgRole[v] /\ wsRole'[v] = wsRole[v]
                                /\ account'[v] = account[v]
  BY <1>2, <1>3, <1>f DEF TeamTyped
<1>5. TeamTyped'
  BY <1>2, <1>3, <1>f DEF TeamTyped, OWNER, Loses
<1>7. WorkFits'
  <2>1. ASSUME NEW e \in Desks \ {d}, NEW x, x = work[e] PROVE Fits(x)'
    <3>1. Fits(x) /\ (x.pc \in Admits \cup Removes => x.user \in Users)
      BY <2>1, KindOfWork DEF TeamInv, WorkFits, Accepting, Removal, Assignment, Admits, Removes
    <3>2. CASE x.user = u
      BY <1>2, <1>4, <3>1, <3>2 DEF Fits, HasAccount
    <3>3. CASE x.user # u
      <4>1. x.pc \in Admits \cup Removes =>
              /\ orgRole'[x.user] = orgRole[x.user] /\ wsRole'[x.user] = wsRole[x.user]
              /\ account'[x.user] = account[x.user]
        BY <1>4, <3>1, <3>3
      <4> QED BY <1>2, <3>1, <4>1 DEF Fits, HasAccount, Admits, Removes
    <3> QED BY <3>2, <3>3
  <2>2. Fits(Free)'
    BY <1>f DEF Fits, Admits, Removes
  <2>3. ASSUME NEW e \in Desks PROVE Fits(work[e])'
    BY <1>4, <2>1, <2>2 DEF Fits, HasAccount
  <2> QED BY <2>3 DEF WorkFits
<1>8. MeetingsAreExcused'
  BY <1>2, <1>4, <1>f, MeetingsStay DEF TeamInv, Admits, Removes
<1>9. MembersFit' /\ (~exists => invites = <<>>)'
  BY <1>2, <1>4 DEF TeamInv, MembersFit, OWNER
<1>10. AnOwnerRemains'
  <2>1. n = 0 \/ n > 1
    BY <1>1, <1>2 DEF TeamInv, WorkFits, Fits
  <2>2. 0 # OWNER /\ MembersFit /\ AnOwnerRemains /\ UNCHANGED exists
    BY <1>2 DEF OWNER, TeamInv
  <2> QED BY <1>2, <1>3, <2>1, <2>2, OwnerStays
<1>11. WorkspaceMembersBelong' /\ NobodyInLimbo'
  <2>1. \A e \in Desks : work[e].pc = "settle" => work'[e] = work[e]
    BY <1>2, <1>4
  <2>2. WorkspaceMembersBelong'
    BY <1>2, <1>4 DEF TeamInv, WorkspaceMembersBelong
  <2>3. NobodyInLimbo'
    BY <1>2, <1>4, <2>1 DEF TeamInv, NobodyInLimbo, HasAccount
  <2> QED BY <2>2, <2>3
<1>12. ClimbInv'
  <2>1. ASSUME ~lifted
        PROVE  \A v \in Users : /\ orgRole'[v] # OWNER => wsRole'[v] <= WS_MANAGER
                                /\ orgRole'[v] = ADMIN => v \in Staff
    BY <1>4, <2>1 DEF ClimbInv, ADMIN, WS_MANAGER
  <2>2. ASSUME ~lifted, NEW e \in Desks, NEW x, x = work'[e] PROVE ~Climbs(x)'
    <3>1. CASE e = d
      BY <1>4, <1>f, <2>2, <3>1 DEF Climbs
    <3>2. CASE e # d
      <4>1. ~Climbs(x) /\ (x.pc \in {"role", "removeOrg"} => x.user \in Users)
        BY <1>4, <2>2, <3>2, KindOfWork DEF ClimbInv, RoleChange, Removal
      <4>2. x.pc = "role" /\ orgRole'[x.user] = OWNER => orgRole[x.user] = OWNER
        BY <1>4, <4>1 DEF OWNER
      <4>3. x.pc = "removeOrg" /\ wsRole'[x.user] > WS_MANAGER => wsRole[x.user] > WS_MANAGER
        BY <1>4, <4>1 DEF WS_MANAGER
      <4> QED BY <4>1, <4>2, <4>3 DEF Climbs
    <3> QED BY <3>1, <3>2
  <2>3. ~lifted => \A e \in Desks : ~Climbs(work[e])'
    BY <2>2 DEF Climbs
  <2> QED BY <1>2, <2>1, <2>3 DEF ClimbInv
<1> QED BY <1>5, <1>7, <1>8, <1>9, <1>10, <1>11, <1>12 DEF TeamInv

\* An acceptance ends: who loses the default organization is in the common one, or has
\* been removed from it.
LEMMA FinishingKeepsTeam ==
  ASSUME TeamTyped, TeamInv, ClimbInv, NEW d \in Desks, FinishAccept(d)
  PROVE  TeamTyped' /\ TeamInv' /\ ClimbInv'
<1>1. PICK u, i : u = work[d].user /\ i = work[d].row
  OBVIOUS
<1>2. /\ work[d].pc = "seated" /\ work' = [work EXCEPT ![d] = Free]
      /\ invites' = IF exists THEN [invites EXCEPT ![i].accepted = TRUE] ELSE invites
      /\ home' = IF work[d].signup /\ exists THEN home \ {u} ELSE home
      /\ UNCHANGED <<account, orgRole, wsRole, exists, purge, excused, raced, limbo, lifted>>
  BY <1>1 DEF FinishAccept, Done
<1>f. Free \in Work /\ Free.pc = "free"
  BY DEF Work, Free
<1>3. work'[d] = Free /\ \A e \in Desks \ {d} : work'[e] = work[e]
  BY <1>2, <1>f DEF TeamTyped
<1>4. /\ invites' \in Seq(Row) /\ Len(invites') = Len(invites) /\ DOMAIN invites' = DOMAIN invites
      /\ \A j \in DOMAIN invites : invites'[j].org = invites[j].org /\ invites'[j].ws = invites[j].ws
  <2>1. CASE ~exists
    BY <1>2, <2>1 DEF TeamTyped
  <2>2. CASE exists
    <3>1. i \in DOMAIN invites /\ invites[i] \in Row /\ invites \in Seq(Row)
      BY <1>1, <1>2, <2>2, InvitationIsThere DEF TeamTyped
    <3>2. PICK r : r = [invites[i] EXCEPT !.accepted = TRUE]
      OBVIOUS
    <3>3. r \in Row /\ r.org = invites[i].org /\ r.ws = invites[i].ws
      BY <3>1, <3>2 DEF Row
    <3>4. invites' = [invites EXCEPT ![i] = r]
      BY <1>2, <2>2, <3>2
    <3> QED BY <3>1, <3>3, <3>4
  <2> QED BY <2>1, <2>2
<1>5. TeamTyped'
  BY <1>2, <1>4, <1>f DEF TeamTyped
<1>6. WorkFits' /\ MeetingsAreExcused'
  <2>1. ASSUME NEW e \in Desks \ {d}, NEW x, x = work[e] PROVE Fits(x)'
    BY <1>2, <1>4, <2>1 DEF TeamInv, WorkFits, Fits, HasAccount
  <2>2. Fits(Free)'
    BY <1>f DEF Fits, Admits, Removes
  <2>3. ASSUME NEW e \in Desks PROVE Fits(work[e])'
    BY <1>3, <2>1, <2>2 DEF Fits, HasAccount
  <2>4. MeetingsAreExcused'
    BY <1>2, <1>3, <1>f, MeetingsStay DEF TeamInv, Admits, Removes
  <2> QED BY <2>3, <2>4 DEF WorkFits
<1>7. MembersFit' /\ (~exists => invites = <<>>)' /\ AnOwnerRemains' /\ WorkspaceMembersBelong'
  BY <1>2 DEF TeamInv, MembersFit, AnOwnerRemains, WorkspaceMembersBelong, Owners
<1>8. NobodyInLimbo'
  <2>1. exists /\ HasAccount(u) /\ orgRole[u] = 0 => u \in limbo
    BY <1>1, <1>2 DEF TeamInv, WorkFits, Fits
  <2>2. \A e \in Desks : work[e].pc = "settle" => work'[e] = work[e]
    BY <1>2, <1>3
  <2> QED BY <1>2, <2>1, <2>2 DEF TeamInv, NobodyInLimbo, HasAccount
<1>9. ClimbInv'
  <2>1. ASSUME ~lifted, NEW e \in Desks, NEW x, x = work'[e] PROVE ~Climbs(x)'
    BY <1>2, <1>3, <1>f, <2>1 DEF ClimbInv, Climbs
  <2>2. ~lifted => \A e \in Desks : ~Climbs(work[e])'
    BY <2>1 DEF Climbs
  <2>3. ~lifted => \A j \in DOMAIN invites' : Modest(invites'[j])
    BY <1>4 DEF ClimbInv, Modest
  <2> QED BY <1>2, <2>2, <2>3 DEF ClimbInv
<1> QED BY <1>5, <1>6, <1>7, <1>8, <1>9 DEF TeamInv

\* The organization is deleted: its members are to be settled.
LEMMA HardDeleteKeepsTeam ==
  ASSUME TeamTyped, TeamInv, ClimbInv, NEW d \in Desks, HardDelete(d)
  PROVE  TeamTyped' /\ TeamInv' /\ ClimbInv'
<1>1. CASE ~exists
  BY <1>1, DeskEnds DEF HardDelete, TeamTyped, TeamInv, ClimbInv
<1>2. CASE exists
  <2>1. PICK w, left : /\ left = {u \in Users : orgRole[u] > 0}
                       /\ w = [pc |-> "settle", by |-> work[d].by, left |-> left]
    OBVIOUS
  <2>2. /\ work[d].pc = "purge" /\ exists' = FALSE /\ work' = [work EXCEPT ![d] = w]
        /\ orgRole' = [u \in Users |-> 0] /\ wsRole' = [u \in Users |-> 0]
        /\ invites' = <<>> /\ purge' = NoPurge
        /\ UNCHANGED <<account, home, excused, raced, limbo, lifted>>
    BY <1>2, <2>1 DEF HardDelete
  <2>3. w \in Work /\ w.pc = "settle" /\ w.left = left
    BY <2>1, <2>2, KindOfWork DEF Purging, Work, Settling
  <2>4. work'[d] = w /\ \A e \in Desks \ {d} : work'[e] = work[e]
    BY <2>2, <2>3 DEF TeamTyped
  <2>5. TeamTyped'
    <3>1. 0 \in Seats /\ 0 \in 0 .. OWNER /\ Len(<<>>) <= MaxInvites /\ <<>> \in Seq(Row)
      BY SeatLevels, TeamAssumption DEF OWNER
    <3>2. NoPurge \in [requested : BOOLEAN, due : BOOLEAN, queued : BOOLEAN]
      BY DEF NoPurge
    <3> QED BY <2>2, <2>3, <3>1, <3>2 DEF TeamTyped
  <2>6. WorkFits' /\ MeetingsAreExcused'
    <3>1. ASSUME NEW e \in Desks \ {d}, NEW x, x = work[e] PROVE Fits(x)'
      <4>1. Fits(x) /\ (x.pc \in Removes => x.user \in Users)
        BY <3>1, KindOfWork DEF TeamInv, WorkFits, Removal, Removes
      <4> QED BY <2>2, <4>1 DEF Fits, Removes
    <3>2. Fits(w)'
      BY <2>3 DEF Fits, Admits, Removes
    <3>3. ASSUME NEW e \in Desks PROVE Fits(work[e])'
      BY <2>4, <3>1, <3>2 DEF Fits, HasAccount
    <3>4. MeetingsAreExcused'
      BY <2>2, <2>3, <2>4, MeetingsStay DEF TeamInv, Admits, Removes
    <3> QED BY <3>3, <3>4 DEF WorkFits
  <2>7. MembersFit' /\ (~exists => invites = <<>>)' /\ AnOwnerRemains' /\ WorkspaceMembersBelong'
    BY <2>2 DEF MembersFit, AnOwnerRemains, WorkspaceMembersBelong, OWNER
  <2>8. NobodyInLimbo'
    <3>1. \A e \in Desks : work[e].pc = "settle" => work'[e] = work[e]
      BY <2>2, <2>4
    <3>2. ASSUME NEW u \in Users, HasAccount(u), u \notin home, u \notin limbo, orgRole[u] # 0
          PROVE  u \in left
      BY <2>1, <3>2 DEF TeamTyped
    <3> QED BY <2>2, <2>3, <2>4, <3>1, <3>2 DEF TeamInv, NobodyInLimbo, HasAccount
  <2>9. ClimbInv'
    <3>1. ASSUME ~lifted, NEW e \in Desks, NEW x, x = work'[e] PROVE ~Climbs(x)'
      <4>1. CASE e = d
        BY <2>3, <2>4, <3>1, <4>1 DEF Climbs
      <4>2. CASE e # d
        <5>1. ~Climbs(x) /\ (x.pc \in {"role", "removeOrg"} => x.user \in Users)
          BY <2>4, <3>1, <4>2, KindOfWork DEF ClimbInv, RoleChange, Removal
        <5> QED BY <2>2, <5>1 DEF Climbs, OWNER, WS_MANAGER
      <4> QED BY <4>1, <4>2
    <3>2. ~lifted => \A e \in Desks : ~Climbs(work[e])'
      BY <3>1 DEF Climbs
    <3> QED BY <2>2, <3>2 DEF ClimbInv, ADMIN, WS_MANAGER
  <2> QED BY <2>5, <2>6, <2>7, <2>8, <2>9 DEF TeamInv
<1> QED BY <1>1, <1>2

\* Settling: a member with an account is left with an organization, or without the
\* account; if the process dies, the others are left behind.
LEMMA SettlingKeepsTeam ==
  ASSUME TeamTyped, TeamInv, ClimbInv, NEW d \in Desks, work[d].pc = "settle", SettleMember(d) \/ Dies(d)
  PROVE  TeamTyped' /\ TeamInv' /\ ClimbInv'
<1>f. Free \in Work /\ Free.pc = "free"
  BY DEF Work, Free
<1>s. work[d] \in Settling
  BY KindOfWork
<1>1. PICK w \in Work :
        /\ w.pc \in {"free", "settle"} /\ work' = [work EXCEPT ![d] = w]
        /\ \A v \in work[d].left : \/ w.pc = "settle" /\ v \in w.left
                                   \/ v \in limbo' \/ v \in home' \/ account'[v] # "open"
  <2>1. CASE Dies(d)
    BY <1>f, <2>1 DEF Dies, Done
  <2>2. CASE SettleMember(d) /\ work[d].left = {}
    BY <1>f, <2>2 DEF SettleMember, Done
  <2>3. CASE SettleMember(d) /\ work[d].left # {}
    <3>1. PICK u \in work[d].left :
            /\ work' = [work EXCEPT ![d].left = @ \ {u}]
            /\ IF u \in work[d].by
                 THEN account' = [account EXCEPT ![u] = "closed"] /\ home' = home \ {u}
                 ELSE home' = Settled(u) /\ UNCHANGED account
      BY <2>3 DEF SettleMember
    <3>2. PICK w : w = [work[d] EXCEPT !.left = @ \ {u}]
      OBVIOUS
    <3>3. w \in Settling /\ w.pc = "settle" /\ w.left = work[d].left \ {u} /\ u \in Users
      BY <1>s, <3>2 DEF Settling
    <3>4. u \in home' \/ account'[u] # "open"
      BY <3>1, <3>3 DEF Settled, HasAccount, TeamTyped
    <3>5. work' = [work EXCEPT ![d] = w] /\ w \in Work
      BY <3>1, <3>2, <3>3 DEF Work
    <3> QED BY <3>3, <3>4, <3>5
  <2> QED BY <2>1, <2>2, <2>3
<1>2. /\ UNCHANGED <<orgRole, wsRole, invites, exists, purge, excused, raced, lifted>>
      /\ limbo \subseteq limbo' /\ limbo' \in SUBSET Users
      /\ home' \in SUBSET Users /\ account' \in [Users -> {"none", "open", "closed"}]
      /\ \A v \in Users : /\ account'[v] = account[v] \/ account'[v] = "closed"
                          /\ v \in home => v \in home' \/ account'[v] = "closed"
  <2>1. CASE Dies(d)
    BY <1>s, <2>1 DEF Dies, TeamTyped, Settling
  <2>2. CASE SettleMember(d)
    BY <1>s, <2>2 DEF SettleMember, TeamTyped, Settling, Settled
  <2> QED BY <2>1, <2>2
<1>3. work'[d] = w /\ \A e \in Desks \ {d} : work'[e] = work[e]
  BY <1>1 DEF TeamTyped
<1>4. TeamTyped'
  BY <1>1, <1>2 DEF TeamTyped
<1>5. WorkFits' /\ MeetingsAreExcused'
  <2>1. ASSUME NEW e \in Desks \ {d}, NEW x, x = work[e] PROVE Fits(x)'
    <3>1. Fits(x) /\ (x.pc \in Admits \cup Removes => x.user \in Users)
      BY <2>1, KindOfWork DEF TeamInv, WorkFits, Accepting, Removal, Assignment, Admits, Removes
    <3> QED BY <1>2, <3>1 DEF Fits, HasAccount, Admits, Removes
  <2>2. Fits(w)'
    BY <1>1 DEF Fits, Admits, Removes
  <2>3. ASSUME NEW e \in Desks PROVE Fits(work[e])'
    BY <1>3, <2>1, <2>2 DEF Fits, HasAccount
  <2>4. MeetingsAreExcused'
    BY <1>1, <1>2, <1>3, MeetingsStay DEF TeamInv, Admits, Removes
  <2> QED BY <2>3, <2>4 DEF WorkFits
<1>6. MembersFit' /\ (~exists => invites = <<>>)' /\ AnOwnerRemains' /\ WorkspaceMembersBelong'
  BY <1>2 DEF TeamInv, MembersFit, AnOwnerRemains, WorkspaceMembersBelong, Owners
<1>7. NobodyInLimbo'
  <2>1. ASSUME NEW v \in Users, HasAccount(v)', orgRole'[v] = 0, v \notin home', v \notin limbo'
        PROVE  \E e \in Desks : work'[e].pc = "settle" /\ v \in work'[e].left
    <3>1. HasAccount(v) /\ orgRole[v] = 0 /\ v \notin home /\ v \notin limbo /\ account'[v] = "open"
      BY <1>2, <2>1 DEF HasAccount
    <3>2. PICK e \in Desks : work[e].pc = "settle" /\ v \in work[e].left
      BY <3>1 DEF TeamInv, NobodyInLimbo
    <3> QED BY <1>1, <1>3, <2>1, <3>1, <3>2
  <2> QED BY <2>1 DEF NobodyInLimbo
<1>8. ClimbInv'
  <2>1. ASSUME ~lifted, NEW e \in Desks, NEW x, x = work'[e] PROVE ~Climbs(x)'
    BY <1>1, <1>2, <1>3, <2>1 DEF ClimbInv, Climbs
  <2>2. ~lifted => \A e \in Desks : ~Climbs(work[e])'
    BY <2>1 DEF Climbs
  <2> QED BY <1>2, <2>2 DEF ClimbInv
<1> QED BY <1>4, <1>5, <1>6, <1>7, <1>8 DEF TeamInv

\* What touches no desk and no membership: an invitation's state, and the deletion's date.
LEMMA RestKeepsTeam ==
  ASSUME TeamTyped, TeamInv, ClimbInv,
         \/ ResendInvitation \/ RevokeInvitation
         \/ ScheduleDeletion \/ CancelDeletion \/ GraceElapses
         \/ UNCHANGED TeamVars
  PROVE  TeamTyped' /\ TeamInv' /\ ClimbInv'
<1>1. UNCHANGED <<account, orgRole, wsRole, home, exists, work, excused, raced, limbo, lifted>>
  BY DEF ResendInvitation, RevokeInvitation, ScheduleDeletion, CancelDeletion, GraceElapses, TeamVars
<1>2. /\ invites' \in Seq(Row) /\ Len(invites') = Len(invites) /\ DOMAIN invites' = DOMAIN invites
      /\ \A j \in DOMAIN invites : invites'[j].org = invites[j].org /\ invites'[j].ws = invites[j].ws
  <2>1. CASE ScheduleDeletion \/ CancelDeletion \/ GraceElapses \/ UNCHANGED TeamVars
    BY <2>1 DEF ScheduleDeletion, CancelDeletion, GraceElapses, TeamVars, TeamTyped
  <2>2. CASE ResendInvitation \/ RevokeInvitation
    <3>1. PICK i \in DOMAIN invites, b \in BOOLEAN : invites' = [invites EXCEPT ![i].open = b]
      BY <2>2 DEF ResendInvitation, RevokeInvitation
    <3>2. invites[i] \in Row /\ invites \in Seq(Row)
      BY DEF TeamTyped
    <3>3. PICK r : r = [invites[i] EXCEPT !.open = b]
      OBVIOUS
    <3>4. r \in Row /\ r.org = invites[i].org /\ r.ws = invites[i].ws
      BY <3>2, <3>3 DEF Row
    <3>5. invites' = [invites EXCEPT ![i] = r]
      BY <3>1, <3>3
    <3> QED BY <3>2, <3>4, <3>5
  <2> QED BY <2>1, <2>2
<1>3. purge' \in [requested : BOOLEAN, due : BOOLEAN, queued : BOOLEAN]
  <2>1. purge \in [requested : BOOLEAN, due : BOOLEAN, queued : BOOLEAN]
    BY DEF TeamTyped
  <2>2. CASE ResendInvitation \/ RevokeInvitation \/ UNCHANGED TeamVars
    BY <2>1, <2>2 DEF ResendInvitation, RevokeInvitation, TeamVars
  <2>3. CASE ScheduleDeletion \/ CancelDeletion
    <3>1. /\ NoPurge \in [requested : BOOLEAN, due : BOOLEAN, queued : BOOLEAN]
          /\ [requested |-> TRUE, due |-> FALSE, queued |-> TRUE]
               \in [requested : BOOLEAN, due : BOOLEAN, queued : BOOLEAN]
      BY DEF NoPurge
    <3>2. purge' = NoPurge \/ purge' = [requested |-> TRUE, due |-> FALSE, queued |-> TRUE]
      BY <2>3 DEF ScheduleDeletion, CancelDeletion
    <3> QED BY <3>1, <3>2
  <2>4. CASE GraceElapses
    BY <2>1, <2>4 DEF GraceElapses
  <2> QED BY <2>2, <2>3, <2>4
<1>4. TeamTyped'
  BY <1>1, <1>2, <1>3 DEF TeamTyped
<1>5. TeamInv'
  <2>1. WorkFits' /\ MeetingsAreExcused' /\ MembersFit'
    BY <1>1, <1>2 DEF TeamInv, WorkFits, Fits, HasAccount, MeetingsAreExcused, MembersFit
  <2>2. (~exists => invites = <<>>)'
    BY <1>1, <1>2 DEF TeamInv, TeamTyped
  <2>3. AnOwnerRemains' /\ WorkspaceMembersBelong' /\ NobodyInLimbo'
    BY <1>1 DEF TeamInv, AnOwnerRemains, Owners, WorkspaceMembersBelong, NobodyInLimbo, HasAccount
  <2> QED BY <2>1, <2>2, <2>3 DEF TeamInv
<1>6. ClimbInv'
  <2>1. \A i \in DOMAIN invites : Modest(invites[i]) => Modest(invites'[i])
    BY <1>2 DEF Modest
  <2> QED BY <1>1, <1>2, <2>1 DEF ClimbInv, Climbs
<1> QED BY <1>4, <1>5, <1>6

\* A process dies while it does something else.
LEMMA DyingKeepsTeam ==
  ASSUME TeamTyped, TeamInv, ClimbInv, NEW d \in Desks, Dies(d), work[d].pc # "settle"
  PROVE  TeamTyped' /\ TeamInv' /\ ClimbInv'
  BY DeskEnds DEF Dies, TeamTyped, TeamInv, ClimbInv

-----------------------------------------------------------------------------
(* The theorems                                                            *)

\* The organization at the start.
LEMMA TeamStart ==
  ASSUME TeamInit PROVE TeamTyped /\ TeamInv /\ ClimbInv
<1>1. \A u \in Users :
        /\ account[u] = IF u \in Founders \cup Staff THEN "open" ELSE "none"
        /\ orgRole[u] = IF u \in Founders THEN OWNER ELSE IF u \in Staff THEN ADMIN ELSE 0
        /\ wsRole[u] = IF u \in Founders THEN WS_OWNER ELSE IF u \in Staff THEN WS_MANAGER ELSE 0
  BY DEF TeamInit
<1>2. \A d \in Desks : work[d] = Free /\ work[d].pc = "free"
  BY DEF TeamInit, Free
<1>3. TeamTyped
  <2>1. Len(<<>>) <= MaxInvites /\ <<>> \in Seq(Row)
    BY TeamAssumption
  <2>2. /\ orgRole \in [Users -> 0 .. OWNER]
        /\ account \in [Users -> {"none", "open", "closed"}]
    BY DEF TeamInit, OWNER, ADMIN
  <2>3. wsRole \in [Users -> Seats]
    BY SeatLevels DEF TeamInit, WS_OWNER, WS_MANAGER
  <2> QED BY <2>1, <2>2, <2>3 DEF TeamInit, TeamTyped, NoPurge, Work
<1>4. WorkFits /\ MeetingsAreExcused
  BY <1>2 DEF WorkFits, Fits, MeetingsAreExcused, Admits, Removes
<1>5. MembersFit /\ exists
  BY <1>1 DEF MembersFit, TeamInit, OWNER, ADMIN
<1>6. AnOwnerRemains /\ WorkspaceMembersBelong /\ NobodyInLimbo
  <2>1. Owners # {}
    BY <1>1, TeamAssumption DEF Owners
  <2> QED BY <1>1, <2>1 DEF AnOwnerRemains, WorkspaceMembersBelong, NobodyInLimbo, HasAccount, OWNER, ADMIN
<1>7. ClimbInv
  <2>1. \A u \in Users : /\ orgRole[u] # OWNER => wsRole[u] <= WS_MANAGER
                         /\ orgRole[u] = ADMIN => u \in Staff
    BY <1>1 DEF OWNER, ADMIN, WS_MANAGER
  <2>2. invites = <<>> /\ \A d \in Desks : ~Climbs(work[d])
    BY <1>2 DEF TeamInit, Climbs
  <2> QED BY <2>1, <2>2 DEF ClimbInv
<1> QED BY <1>3, <1>4, <1>5, <1>6, <1>7 DEF TeamInv, TeamInit

\* The invariants are inductive.
LEMMA TeamInductive == TeamSpec => [](TeamTyped /\ TeamInv /\ ClimbInv)
<1>1. TeamInit => TeamTyped /\ TeamInv /\ ClimbInv
  BY TeamStart
<1>2. TeamTyped /\ TeamInv /\ ClimbInv /\ [TeamNext]_TeamVars => (TeamTyped /\ TeamInv /\ ClimbInv)'
  <2> SUFFICES ASSUME TeamTyped, TeamInv, ClimbInv, [TeamNext]_TeamVars
               PROVE  TeamTyped' /\ TeamInv' /\ ClimbInv'
    OBVIOUS
  <2>1. ASSUME NEW d \in Desks, Invitation(d) PROVE TeamTyped' /\ TeamInv' /\ ClimbInv'
    BY <2>1, InvitingKeepsTeam, AcceptingKeepsTeam, SignUpKeepsTeam, JoiningKeepsTeam,
       SeatingKeepsTeam, FinishingKeepsTeam DEF Invitation
  <2>2. ASSUME NEW d \in Desks, Membership(d) PROVE TeamTyped' /\ TeamInv' /\ ClimbInv'
    BY <2>2, RemovingKeepsTeam, SeatingKeepsTeam, LeavingKeepsTeam, RoleChangeKeepsTeam,
       SavingRoleKeepsTeam, AssigningKeepsTeam, DeletingKeepsTeam, ClosingKeepsTeam DEF Membership
  <2>3. ASSUME NEW d \in Desks, Deletion(d) PROVE TeamTyped' /\ TeamInv' /\ ClimbInv'
    <3>1. SettleMember(d) => work[d].pc = "settle"
      BY DEF SettleMember
    <3> QED BY <2>3, <3>1, DeletingKeepsTeam, HardDeleteKeepsTeam, SettlingKeepsTeam DEF Deletion
  <2>4. ASSUME NEW d \in Desks, Dies(d) PROVE TeamTyped' /\ TeamInv' /\ ClimbInv'
    BY <2>4, SettlingKeepsTeam, DyingKeepsTeam
  <2> QED BY <2>1, <2>2, <2>3, <2>4, ClientLeavesTeam, RestKeepsTeam DEF TeamNext
<1> QED BY <1>1, <1>2, PTL DEF TeamSpec

\* Whoever invites, accepts, removes, demotes, assigns, closes an account or deletes the
\* organization, and wherever a process dies: there is an owner while there is an
\* organization, unless two owners went at once; the workspace has only members, unless
\* an admission met a removal; and everybody with an account has somewhere to land.
THEOREM TeamNobodyIsLost == TeamSpec => []NobodyIsLost
<1>1. TeamTyped /\ TeamInv => NobodyIsLost
  <2>1. TeamTyped => TeamTypeOK
    BY DEF TeamTyped, TeamTypeOK, Seats
  <2> QED BY <2>1 DEF TeamInv, NobodyIsLost
<1> QED BY <1>1, TeamInductive, PTL

\* Until an owner gives somebody a role, no chain of invitations, acceptances, removals,
\* changes of roles and assignments among the others leads above what they had.
THEOREM TeamNobodyClimbs == TeamSpec => []NobodyClimbs
<1>1. TeamTyped /\ TeamInv /\ ClimbInv => NobodyClimbs
  <2>1. ASSUME TeamTyped, TeamInv, ClimbInv, ~lifted, NEW u \in Users \ Founders
        PROVE  wsRole[u] <= WS_MANAGER /\ (orgRole[u] >= ADMIN => u \in Staff)
    <3>1. orgRole[u] # OWNER /\ orgRole[u] \in 0 .. 3
      BY <2>1 DEF TeamInv, MembersFit, TeamTyped, OWNER
    <3>2. wsRole[u] <= WS_MANAGER /\ (orgRole[u] = ADMIN => u \in Staff)
      BY <2>1, <3>1 DEF ClimbInv
    <3> QED BY <3>1, <3>2 DEF ADMIN, OWNER
  <2> QED BY <2>1 DEF NobodyClimbs
<1> QED BY <1>1, TeamInductive, PTL
=============================================================================
