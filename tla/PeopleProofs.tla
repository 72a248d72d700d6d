----------------------------- MODULE PeopleProofs -----------------------------
(***************************************************************************)
(* What holds of the people around the studio for every number of them:    *)
(* the client portal, the API keys, connecting an account and the inbox.   *)
(* These components share no variable; each has its type invariant, its    *)
(* inductive invariant, and the theorem that its property always holds.    *)
(***************************************************************************)
EXTENDS Portal, ApiKeys, ConnectFlows, Inbox, Integers,
        FiniteSetTheorems, WellFoundedInduction, TLAPS

-----------------------------------------------------------------------------
(* The client portal                                                       *)

PortalTypeOK ==
  /\ link \in [Links -> {"none", "live", "expired"}]
  /\ consumed \in [Links -> BOOLEAN]
  /\ isClient \in BOOLEAN
  /\ manager \in [Managers -> {Absent} \cup [pc : {"withdraw", "send", "remove"},
                                             kind : {"send", "remove"}]]
  /\ browser \in [Browsers -> {Absent} \cup [pc : {"consume"}, link : Links, met : BOOLEAN]
                                       \cup [pc : {"decide"}, met : BOOLEAN]]
  /\ opened \in [Links -> Nat]
  /\ crowded \in BOOLEAN

\* A link that was opened is consumed, and is opened no more.
OpenedOnce == \A l \in Links : opened[l] <= 1 /\ (~consumed[l] => opened[l] = 0)

\* Unless managers met, one of them at most is at work, one link at most can be
\* used, and none between the withdrawal of the old one and what follows it.
OneManager == \A m, n \in Managers : manager[m] # Absent /\ manager[n] # Absent => m = n
OneLink == \A k, l \in Usable : k = l
NoLinkBetween == \A m \in Managers : manager[m].pc \in {"send", "remove"} => Usable = {}

\* A decision that was admitted is made for somebody who was a client then.
DecidersWereClients == \A b \in Browsers : browser[b].pc = "decide" => browser[b].met

PortalInv ==
  /\ OpenedOnce /\ DecidersWereClients /\ ~intruded
  /\ ~crowded => OneManager /\ OneLink /\ NoLinkBetween


\* One link at most is a set of one element at most.
LEMMA OneLinkIsOne ==
  ASSUME OneLink PROVE Cardinality(Usable) <= 1
<1>1. CASE Usable = {}
  BY <1>1, FS_EmptySet
<1>2. CASE Usable # {}
  <2>1. PICK l \in Usable : TRUE
    BY <1>2
  <2>2. Usable = {l}
    BY <2>1 DEF OneLink
  <2> QED BY <2>2, FS_Singleton
<1> QED BY <1>1, <1>2

\* The portal at the start.
LEMMA PortalStart ==
  ASSUME PortalInit PROVE PortalTypeOK /\ PortalInv
<1>1. PortalTypeOK
  BY DEF PortalInit, PortalTypeOK
<1>2. OpenedOnce /\ DecidersWereClients /\ ~intruded
  BY DEF PortalInit, OpenedOnce, DecidersWereClients, Absent
<1>3. Usable = {} /\ OneManager
  BY DEF PortalInit, Usable, OneManager, Absent
<1> QED BY <1>1, <1>2, <1>3 DEF PortalInv, OneLink, NoLinkBetween

\* The requests of managers: while one of them is at work alone, it withdraws the
\* link there is before it makes the next one.
LEMMA ManagersKeepPortal ==
  ASSUME PortalTypeOK, PortalInv, NEW m \in Managers,
         \/ ManagerBegins(m, "send") \/ ManagerBegins(m, "remove")
         \/ Withdraws(m) \/ Sends(m) \/ Removes(m) \/ ManagerDies(m)
  PROVE  PortalTypeOK' /\ PortalInv'
<1> USE DEF PortalTypeOK, PortalInv, Absent
<1>0. UNCHANGED <<consumed, browser, opened, intruded>>
  BY DEF ManagerBegins, Withdraws, Sends, Removes, ManagerDies
<1>1. OpenedOnce' /\ DecidersWereClients'
  BY <1>0 DEF OpenedOnce, DecidersWereClients
<1>2. ASSUME NEW kind \in {"send", "remove"}, ManagerBegins(m, kind)
      PROVE  PortalTypeOK' /\ PortalInv'
  <2>1. PortalTypeOK' /\ UNCHANGED link
    BY <1>2 DEF ManagerBegins
  <2>2. ASSUME ~crowded' PROVE OneManager' /\ OneLink' /\ NoLinkBetween'
    <3>1. /\ ~crowded /\ \A o \in Managers : manager[o] = Absent
          /\ manager' = [manager EXCEPT ![m] = [pc |-> "withdraw", kind |-> kind]]
      BY <1>2, <2>2 DEF ManagerBegins
    <3> QED BY <1>0, <2>1, <3>1 DEF OneManager, OneLink, NoLinkBetween, Usable
  <2> QED BY <1>0, <1>1, <2>1, <2>2
<1>3. CASE Withdraws(m)
  <2>1. PortalTypeOK' /\ crowded' = crowded
    BY <1>3 DEF Withdraws, Withdrawn
  <2>2. ASSUME ~crowded' PROVE OneManager' /\ OneLink' /\ NoLinkBetween'
    <3>1. Usable' = {}
      BY <1>0, <1>3 DEF Withdraws, Withdrawn, Usable
    <3>2. OneManager'
      BY <1>3, <2>1, <2>2 DEF OneManager, Withdraws
    <3> QED BY <3>1, <3>2 DEF OneLink, NoLinkBetween
  <2> QED BY <1>0, <1>1, <2>1, <2>2
<1>4. CASE Sends(m)
  <2>1. PortalTypeOK' /\ crowded' = crowded
    BY <1>4 DEF Sends
  <2>2. ASSUME ~crowded' PROVE OneManager' /\ OneLink' /\ NoLinkBetween'
    <3>1. /\ Usable = {} /\ manager' = [manager EXCEPT ![m] = Absent]
          /\ \A o \in Managers : manager'[o] = Absent
      BY <1>4, <2>1, <2>2 DEF Sends, OneManager, NoLinkBetween
    <3>2. PICK l \in Links : link' = [link EXCEPT ![l] = "live"]
      BY <1>4 DEF Sends
    <3>3. Usable' \subseteq {l}
      BY <1>0, <3>1, <3>2 DEF Usable
    <3> QED BY <3>1, <3>3 DEF OneManager, OneLink, NoLinkBetween
  <2> QED BY <1>0, <1>1, <2>1, <2>2
<1>5. CASE Removes(m) \/ ManagerDies(m)
  <2>1. PortalTypeOK' /\ UNCHANGED <<link, crowded>> /\ manager' = [manager EXCEPT ![m] = Absent]
    BY <1>5 DEF Removes, ManagerDies
  <2>2. ASSUME ~crowded PROVE OneManager' /\ OneLink' /\ NoLinkBetween'
    BY <1>0, <2>1, <2>2 DEF OneManager, OneLink, NoLinkBetween, Usable
  <2> QED BY <1>0, <1>1, <2>1, <2>2
<1> QED BY <1>2, <1>3, <1>4, <1>5

\* The requests of the client, and what happens of itself.
LEMMA VisitsKeepPortal ==
  ASSUME PortalTypeOK, PortalInv,
         \/ IsInvited \/ \E l \in Links : Expires(l)
         \/ \E b \in Browsers : \/ Consumes(b) \/ PortalRequest(b) \/ PortalApprove(b)
                                \/ \E l \in Links : OpensLink(b, l)
  PROVE  PortalTypeOK' /\ PortalInv'
<1> USE DEF PortalTypeOK, PortalInv, Absent
<1>1. /\ UNCHANGED <<manager, crowded>>
      /\ Usable' \subseteq Usable
  BY DEF IsInvited, Expires, Consumes, PortalRequest, PortalApprove, OpensLink, Usable
<1>2. ~crowded => OneManager' /\ OneLink' /\ NoLinkBetween'
  BY <1>1 DEF OneManager, OneLink, NoLinkBetween
<1>3. CASE IsInvited
  <2>1. /\ UNCHANGED <<link, consumed, manager, opened, crowded, intruded>> /\ isClient' = TRUE
        /\ browser' = [b \in Browsers |-> IF browser[b] = Absent THEN Absent
                                          ELSE [browser[b] EXCEPT !.met = TRUE]]
    BY <1>3 DEF IsInvited
  <2>2. \A b \in Browsers :
          /\ browser'[b] \in {Absent} \cup [pc : {"consume"}, link : Links, met : BOOLEAN]
                                      \cup [pc : {"decide"}, met : BOOLEAN]
          /\ browser'[b].pc = "decide" => browser'[b].met
    BY <2>1
  <2>3. PortalTypeOK' /\ DecidersWereClients'
    BY <2>1, <2>2 DEF DecidersWereClients
  <2> QED BY <1>2, <2>1, <2>3 DEF OpenedOnce
<1>4. ASSUME NEW l \in Links, Expires(l) PROVE PortalTypeOK' /\ PortalInv'
  BY <1>1, <1>2, <1>4 DEF Expires, OpenedOnce, DecidersWereClients
<1>5. ASSUME NEW b \in Browsers, Consumes(b) PROVE PortalTypeOK' /\ PortalInv'
  <2>1. browser[b].link \in Links
    BY <1>5 DEF Consumes
  <2>2. OpenedOnce' /\ opened' \in [Links -> Nat] /\ consumed' \in [Links -> BOOLEAN]
    BY <1>5, <2>1 DEF Consumes, Unused, OpenedOnce
  <2>3. UNCHANGED <<link, isClient, intruded>> /\ browser' = [browser EXCEPT ![b] = Absent]
    BY <1>5 DEF Consumes
  <2> QED BY <1>1, <1>2, <2>2, <2>3 DEF DecidersWereClients
<1>6. ASSUME NEW b \in Browsers, PortalRequest(b) PROVE PortalTypeOK' /\ PortalInv'
  <2>1. /\ UNCHANGED <<link, consumed, isClient, opened, intruded>>
        /\ \/ UNCHANGED browser
           \/ isClient /\ browser' = [browser EXCEPT ![b] = [pc |-> "decide", met |-> isClient]]
    BY <1>6 DEF PortalRequest, Admitted
  <2>2. /\ DecidersWereClients'
        /\ browser' \in [Browsers -> {Absent} \cup [pc : {"consume"}, link : Links, met : BOOLEAN]
                                              \cup [pc : {"decide"}, met : BOOLEAN]]
    BY <2>1 DEF DecidersWereClients
  <2>3. OpenedOnce' /\ ~intruded'
    BY <2>1 DEF OpenedOnce
  <2> QED BY <1>1, <1>2, <2>1, <2>2, <2>3
<1>7. ASSUME NEW b \in Browsers, PortalApprove(b) PROVE PortalTypeOK' /\ PortalInv'
  <2>1. /\ browser[b].pc = "decide" /\ browser' = [browser EXCEPT ![b] = Absent]
        /\ UNCHANGED <<link, consumed, isClient, opened>>
        /\ intruded' = (intruded \/ ~browser[b].met)
    BY <1>7 DEF PortalApprove
  <2>2. OpenedOnce' /\ DecidersWereClients'
    BY <2>1 DEF OpenedOnce, DecidersWereClients
  <2>3. ~intruded'
    BY <2>1 DEF DecidersWereClients
  <2> QED BY <1>1, <1>2, <2>1, <2>2, <2>3
<1>8. ASSUME NEW b \in Browsers, NEW l \in Links, OpensLink(b, l)
      PROVE  PortalTypeOK' /\ PortalInv'
  BY <1>1, <1>2, <1>8 DEF OpensLink, OpenedOnce, DecidersWereClients
<1> QED BY <1>3, <1>4, <1>5, <1>6, <1>7, <1>8

\* The portal's inductive invariant.
LEMMA PortalInductive == PortalSpec => [](PortalTypeOK /\ PortalInv)
<1>1. PortalTypeOK /\ PortalInv /\ [PortalNext]_PortalVars => (PortalTypeOK /\ PortalInv)'
  <2> SUFFICES ASSUME PortalTypeOK, PortalInv, [PortalNext]_PortalVars
               PROVE  PortalTypeOK' /\ PortalInv'
    OBVIOUS
  <2>1. CASE UNCHANGED PortalVars
    BY <2>1 DEF PortalVars, PortalTypeOK, PortalInv, OpenedOnce, OneManager, OneLink,
                Usable, NoLinkBetween, DecidersWereClients
  <2>2. CASE PortalNext
    BY <2>2, ManagersKeepPortal, VisitsKeepPortal DEF PortalNext
  <2> QED BY <2>1, <2>2
<1> QED BY <1>1, PortalStart, PTL DEF PortalSpec

\* However many managers, links and browsers there are: a link opens one session; a
\* client whom managers serve one at a time has one link to open; and who has been
\* removed decides nothing any more (PortalIsTheClients).
THEOREM PortalStaysTheClients == PortalSpec => []PortalIsTheClients
<1>1. PortalTypeOK /\ PortalInv => PortalIsTheClients
  BY OneLinkIsOne DEF PortalIsTheClients, OneWayIn, RemovedClientDecidesNothing, PortalInv,
                      OpenedOnce
<1> QED BY <1>1, PortalInductive, PTL

-----------------------------------------------------------------------------
(* API keys                                                                *)

KeyRow == [revoked : BOOLEAN, powers : SUBSET Powers, until : Nat]
WithKey == {"check", "miss", "store", "powers"}
KeyCall == [pc : WithKey, cache : Caches, row : KeyRow, late : BOOLEAN, age : Int,
            met : SUBSET Powers, met_member : BOOLEAN]
PersonCall == [pc : {"oauth", "served"}, powers : SUBSET Powers, met : SUBSET Powers,
               met_member : BOOLEAN]

KeysTypeOK ==
  /\ second \in Nat /\ frontier \in Nat
  /\ key \in KeyRow /\ holds \in SUBSET Powers /\ member \in BOOLEAN
  /\ entry \in [Caches -> [row : KeyRow, until : Nat]]
  /\ call \in [Calls -> {Waiting} \cup [pc : {"refused"}] \cup KeyCall \cup PersonCall]
  /\ admin \in {Waiting} \cup [pc : {"issue"}, row : KeyRow] \cup [pc : {"invalidate"}, cache : Caches]
  /\ elders \in SUBSET Calls

\* A key that was issued stays a key, and before that none is cached.
KeyIsIssued ==
  /\ admin.pc = "issue" => ~Issued /\ admin.row.until > 0
  /\ Issued => key.until > 0
  /\ ~Issued => \A x \in Caches : entry[x].until = 0

\* What is cached has not been for longer than the time to live; and what is not
\* the row any more will not be for longer than that after the row changed.
CachesForget ==
  /\ frontier <= second
  /\ \A x \in Caches :
       /\ entry[x].until <= second + CacheTtl
       /\ entry[x].row # key => entry[x].until <= frontier + CacheTtl

\* Only the requests that had read the row before it changed hold another; and a
\* request is late only if its cache was, and by less than the time to live.
KeyFits(c) ==
  /\ call[c].pc \in WithKey => Issued
  /\ call[c].pc = "store" /\ call[c].row # key => c \in elders
  /\ call[c].pc = "check" /\ call[c].late => call[c].age < CacheTtl
  /\ call[c].pc \in {"miss", "store"} => ~call[c].late

\* A request has met what its issuer is and holds now.
MeetsTheIssuer(c) ==
  /\ call[c].pc \in WithKey \cup {"oauth"} =>
       (member => call[c].met_member) /\ holds \subseteq call[c].met
  /\ call[c].pc \in {"powers", "oauth", "served"} => call[c].met_member
  /\ call[c].pc \in {"oauth", "served"} => call[c].powers \subseteq call[c].met

CallsFit == \A c \in Calls : KeyFits(c) /\ MeetsTheIssuer(c)

KeysInv == KeyIsIssued /\ CachesForget /\ CallsFit

\* What kind of request a request is.
LEMMA KindOfCall ==
  ASSUME KeysTypeOK, NEW c \in Calls
  PROVE  /\ call[c].pc \in WithKey => call[c] \in KeyCall
         /\ call[c].pc \in {"oauth", "served"} => call[c] \in PersonCall
  BY DEF KeysTypeOK, WithKey, KeyCall, PersonCall, Waiting

\* No key is a row like any other.
LEMMA NoKeyIsARow == NoKeyYet \in KeyRow /\ NoKeyYet.until = 0
  BY DEF NoKeyYet, KeyRow

\* The keys at the start.
LEMMA KeysStart ==
  ASSUME ApiKeysInit PROVE KeysTypeOK /\ KeysInv
<1>1. KeysTypeOK
  BY NoKeyIsARow DEF ApiKeysInit, KeysTypeOK, Nowhere
<1>2. KeyIsIssued /\ CachesForget
  BY ApiKeysAssumption DEF ApiKeysInit, KeyIsIssued, CachesForget, Issued, Nowhere, Waiting
<1>3. CallsFit
  BY DEF ApiKeysInit, CallsFit, KeyFits, MeetsTheIssuer, Waiting, WithKey
<1> QED BY <1>1, <1>2, <1>3 DEF KeysInv

\* A step of one request leaves the others as they are.
LEMMA OtherCallsFit ==
  ASSUME KeysInv, NEW c \in Calls, NEW w, call' = [call EXCEPT ![c] = w], KeysTypeOK,
         UNCHANGED <<key, holds, member>>, elders' = elders \/ elders' = elders \ {c},
         KeyFits(c)', MeetsTheIssuer(c)'
  PROVE  CallsFit'
<1> SUFFICES ASSUME NEW d \in Calls, d # c PROVE KeyFits(d)' /\ MeetsTheIssuer(d)'
  BY DEF CallsFit
<1>1. call'[d] = call[d] /\ (d \in elders => d \in elders')
  BY DEF KeysTypeOK
<1> QED BY <1>1 DEF KeysInv, CallsFit, KeyFits, MeetsTheIssuer, Issued

\* Time, and the administrators who issue a key.
LEMMA IssuingKeepsKeys ==
  ASSUME KeysTypeOK, KeysInv, Ticks \/ IssueChecks \/ IssueCreates \/ Archive \/ AdminDies
  PROVE  KeysTypeOK' /\ KeysInv'
<1>1. CASE Ticks
  <2>1. second' = second + 1 /\ UNCHANGED <<key, holds, member, entry, call, admin, elders, frontier>>
    BY <1>1 DEF Ticks
  <2>2. KeysTypeOK' /\ KeyIsIssued' /\ CallsFit'
    BY <2>1 DEF KeysTypeOK, KeysInv, KeyIsIssued, CallsFit, KeyFits, MeetsTheIssuer, Issued
  <2>3. CachesForget'
    BY <2>1, ApiKeysAssumption DEF KeysTypeOK, KeysInv, CachesForget
  <2> QED BY <2>2, <2>3 DEF KeysInv
<1>2. CASE IssueChecks
  <2>1. PICK asked \in SUBSET Powers, until \in {CacheTtl, LastSecond + 1} :
          /\ ~Issued
          /\ admin' = [pc |-> "issue", row |-> [revoked |-> FALSE, powers |-> asked, until |-> until]]
          /\ UNCHANGED <<second, key, holds, member, entry, call, elders, frontier>>
    BY <1>2 DEF IssueChecks
  <2>2. until \in Nat /\ until > 0
    BY ApiKeysAssumption
  <2>3. KeysTypeOK'
    BY <2>1, <2>2 DEF KeysTypeOK, KeyRow
  <2>4. KeyIsIssued'
    BY <2>1, <2>2 DEF KeysInv, KeyIsIssued, Issued
  <2>5. CachesForget' /\ CallsFit'
    BY <2>1 DEF KeysInv, CachesForget, CallsFit, KeyFits, MeetsTheIssuer, Issued
  <2> QED BY <2>3, <2>4, <2>5 DEF KeysInv
<1>3. CASE IssueCreates
  <2>1. /\ admin.pc = "issue" /\ key' = admin.row /\ admin' = Waiting
        /\ UNCHANGED <<second, holds, member, entry, call, elders, frontier>>
    BY <1>3 DEF IssueCreates
  <2>2. admin \in [pc : {"issue"}, row : KeyRow]
    BY <2>1 DEF KeysTypeOK, Waiting
  <2>3. ~Issued /\ key'.until > 0 /\ key' \in KeyRow
    BY <2>1, <2>2 DEF KeysInv, KeyIsIssued
  <2>4. KeysTypeOK'
    BY <2>1, <2>3 DEF KeysTypeOK
  <2>5. Issued'
    BY <2>3, NoKeyIsARow DEF Issued
  <2>6. KeyIsIssued'
    BY <2>1, <2>3, <2>5 DEF KeyIsIssued, Waiting
  <2>7. CachesForget'
    BY <2>1, <2>3, ApiKeysAssumption DEF KeysInv, KeyIsIssued, CachesForget, KeysTypeOK
  <2>8. CallsFit'
    BY <2>1, <2>3 DEF KeysInv, CallsFit, KeyFits, MeetsTheIssuer, WithKey
  <2> QED BY <2>4, <2>6, <2>7, <2>8 DEF KeysInv
<1>4. CASE Archive \/ AdminDies
  <2>1. /\ UNCHANGED <<second, key, holds, member, entry, call, elders, frontier>>
        /\ admin' = admin \/ admin' = Waiting
    BY <1>4 DEF Archive, AdminDies
  <2>2. KeysTypeOK' /\ KeyIsIssued'
    BY <2>1 DEF KeysTypeOK, KeysInv, KeyIsIssued, Issued, Waiting
  <2>3. CachesForget' /\ CallsFit'
    BY <2>1 DEF KeysInv, CachesForget, CallsFit, KeyFits, MeetsTheIssuer, Issued
  <2> QED BY <2>2, <2>3 DEF KeysInv
<1> QED BY <1>1, <1>2, <1>3, <1>4

\* The administrators who change the key: every request that holds the old row is
\* an elder from then on, and what is cached runs out soon enough.
LEMMA ChangingKeepsKeys ==
  ASSUME KeysTypeOK, KeysInv, RevokeKey \/ EditKey \/ Invalidate
  PROVE  KeysTypeOK' /\ KeysInv'
<1>1. ASSUME NEW r \in KeyRow, r.until = key.until, NEW x \in Caches, SaveKey(r, x)
      PROVE  KeysTypeOK' /\ KeysInv'
  <2>1. /\ Issued /\ key' = r /\ frontier' = second /\ elders' = HaveRead
        /\ admin' = [pc |-> "invalidate", cache |-> x]
        /\ UNCHANGED <<second, holds, member, entry, call>>
    BY <1>1 DEF SaveKey
  <2>2. KeysTypeOK'
    BY <1>1, <2>1 DEF KeysTypeOK, HaveRead
  <2>3. Issued' /\ KeyIsIssued'
    BY <1>1, <2>1, NoKeyIsARow DEF KeysInv, KeyIsIssued, Issued
  <2>4. CachesForget'
    BY <2>1 DEF KeysInv, CachesForget, KeysTypeOK
  <2>5. CallsFit'
    BY <2>1, <2>3 DEF KeysInv, CallsFit, KeyFits, MeetsTheIssuer, HaveRead
  <2> QED BY <2>2, <2>3, <2>4, <2>5 DEF KeysInv
<1>2. CASE RevokeKey \/ EditKey
  <2>1. /\ [key EXCEPT !.revoked = TRUE] \in KeyRow
        /\ [key EXCEPT !.revoked = TRUE].until = key.until
        /\ \A powers \in SUBSET Powers : /\ [key EXCEPT !.powers = powers] \in KeyRow
                                         /\ [key EXCEPT !.powers = powers].until = key.until
    BY DEF KeysTypeOK, KeyRow
  <2> QED BY <1>1, <1>2, <2>1 DEF RevokeKey, EditKey
<1>3. CASE Invalidate
  <2>1. /\ admin.pc = "invalidate" /\ admin' = Waiting
        /\ entry' = [entry EXCEPT ![admin.cache] = Nowhere]
        /\ UNCHANGED <<second, key, holds, member, call, elders, frontier>>
    BY <1>3 DEF Invalidate
  <2>2. admin.cache \in Caches
    BY <2>1 DEF KeysTypeOK, Waiting
  <2>3. \A x \in Caches : entry'[x] = entry[x] \/ entry'[x] = Nowhere
    BY <2>1, <2>2 DEF KeysTypeOK
  <2>4. KeysTypeOK'
    BY <2>1, <2>2, NoKeyIsARow DEF KeysTypeOK, Nowhere
  <2>5. KeyIsIssued' /\ CachesForget'
    BY <2>1, <2>3, ApiKeysAssumption
       DEF KeysInv, KeyIsIssued, CachesForget, Issued, Nowhere, Waiting, KeysTypeOK
  <2>6. CallsFit'
    BY <2>1 DEF KeysInv, CallsFit, KeyFits, MeetsTheIssuer, Issued
  <2> QED BY <2>4, <2>5, <2>6 DEF KeysInv
<1> QED BY <1>2, <1>3

\* What the issuer becomes is witnessed by the requests under way.
LEMMA IssuerKeepsKeys ==
  ASSUME KeysTypeOK, KeysInv, IssuerChanges
  PROVE  KeysTypeOK' /\ KeysInv'
<1>1. PICK is \in BOOLEAN, has \in SUBSET Powers :
        /\ member' = is /\ holds' = has /\ Witnessed(is, has)
        /\ UNCHANGED <<second, key, entry, admin, elders, frontier>>
  BY DEF IssuerChanges
<1>2. ASSUME NEW c \in Calls
      PROVE  /\ call'[c] \in {Waiting} \cup [pc : {"refused"}] \cup KeyCall \cup PersonCall
             /\ KeyFits(c)' /\ MeetsTheIssuer(c)'
  <2>1. CASE call[c].pc \in {"waiting", "served", "refused"}
    <3>1. call'[c] = call[c]
      BY <1>1, <2>1 DEF Witnessed
    <3> QED BY <1>1, <2>1, <3>1
            DEF KeysTypeOK, KeysInv, CallsFit, KeyFits, MeetsTheIssuer, WithKey, Issued
  <2>2. CASE call[c] \in KeyCall \cup PersonCall /\ call[c].pc # "served"
    <3>1. call'[c] = [call[c] EXCEPT !.met = @ \cup has, !.met_member = @ \/ is]
      BY <1>1, <2>2 DEF Witnessed, KeyCall, PersonCall, WithKey
    <3>2. /\ call'[c] \in KeyCall \cup PersonCall /\ call'[c].pc = call[c].pc
          /\ call'[c].met = call[c].met \cup has
          /\ call'[c].met_member = (call[c].met_member \/ is)
          /\ call[c] \in KeyCall => /\ call'[c].row = call[c].row /\ call'[c].age = call[c].age
                                    /\ call'[c].late = call[c].late
          /\ call[c] \in PersonCall => call'[c].powers = call[c].powers
      BY <2>2, <3>1 DEF KeyCall, PersonCall
    <3>3. KeyFits(c)'
      BY <1>1, <3>2, KindOfCall DEF KeysInv, CallsFit, KeyFits, Issued, WithKey
    <3>4. MeetsTheIssuer(c)'
      BY <1>1, <2>2, <3>2, KindOfCall DEF KeysInv, CallsFit, MeetsTheIssuer
    <3> QED BY <3>2, <3>3, <3>4
  <2> QED BY <2>1, <2>2 DEF KeysTypeOK, Waiting
<1>3. KeysTypeOK'
  <2>1. call' = [c \in Calls |-> call'[c]]
    BY <1>1 DEF Witnessed
  <2> QED BY <1>1, <1>2, <2>1 DEF KeysTypeOK
<1>4. KeyIsIssued' /\ CachesForget'
  BY <1>1 DEF KeysInv, KeyIsIssued, CachesForget, Issued
<1> QED BY <1>2, <1>3, <1>4 DEF KeysInv, CallsFit

\* A request looks into a cache. It is late only as long as the cache may be.
LEMMA VerifyingKeepsKeys ==
  ASSUME KeysTypeOK, KeysInv, NEW c \in Calls, VerifyToken(c)
  PROVE  KeysTypeOK' /\ KeysInv'
<1>1. /\ Issued /\ UNCHANGED <<second, key, holds, member, entry, admin, elders, frontier>>
      /\ \E x \in Caches :
           \/ Cached(x) /\ CallBegins(c, x, "check", entry[x].row)
           \/ CallBegins(c, x, "miss", NoKeyYet)
  BY DEF VerifyToken
<1>2. PICK w \in KeyCall :
        /\ call' = [call EXCEPT ![c] = w]
        /\ w.pc \in {"check", "miss"} /\ w.met = holds /\ w.met_member = member
        /\ w.pc = "check" /\ w.late => w.age < CacheTtl
        /\ w.pc = "miss" => ~w.late
  <2>1. ASSUME NEW x \in Caches, Cached(x), CallBegins(c, x, "check", entry[x].row)
        PROVE  \E w \in KeyCall :
                 /\ call' = [call EXCEPT ![c] = w]
                 /\ w.pc = "check" /\ w.met = holds /\ w.met_member = member
                 /\ w.late => w.age < CacheTtl
    <3> DEFINE w == [pc |-> "check", cache |-> x, row |-> entry[x].row,
                     late |-> entry[x].row # key, age |-> second - frontier,
                     met |-> holds, met_member |-> member]
    <3>1. call' = [call EXCEPT ![c] = w]
      BY <2>1 DEF CallBegins
    <3>2. w \in KeyCall
      BY DEF KeyCall, KeysTypeOK, WithKey
    <3>3. entry[x].row # key => second - frontier < CacheTtl
      BY <2>1, ApiKeysAssumption DEF Cached, KeysInv, CachesForget, KeysTypeOK
    <3>4. /\ w.pc = "check" /\ w.met = holds /\ w.met_member = member
          /\ w.late => w.age < CacheTtl
      BY <3>3
    <3> HIDE DEF w
    <3> QED BY <3>1, <3>2, <3>4
  <2>2. ASSUME NEW x \in Caches, CallBegins(c, x, "miss", NoKeyYet)
        PROVE  \E w \in KeyCall :
                 /\ call' = [call EXCEPT ![c] = w]
                 /\ w.pc = "miss" /\ w.met = holds /\ w.met_member = member /\ ~w.late
    <3> DEFINE w == [pc |-> "miss", cache |-> x, row |-> NoKeyYet, late |-> FALSE, age |-> 0,
                     met |-> holds, met_member |-> member]
    <3>1. call' = [call EXCEPT ![c] = w]
      BY <2>2 DEF CallBegins
    <3>2. w \in KeyCall
      BY NoKeyIsARow DEF KeyCall, KeysTypeOK, WithKey
    <3> QED BY <3>1, <3>2
  <2> QED BY <1>1, <2>1, <2>2
<1>3. call'[c] = w
  BY <1>2 DEF KeysTypeOK
<1>4. KeysTypeOK'
  BY <1>1, <1>2 DEF KeysTypeOK
<1>5. KeyIsIssued' /\ CachesForget'
  BY <1>1 DEF KeysInv, KeyIsIssued, CachesForget, Issued
<1>6. KeyFits(c)' /\ MeetsTheIssuer(c)'
  BY <1>1, <1>2, <1>3 DEF KeyFits, MeetsTheIssuer, Issued
<1>7. CallsFit'
  BY <1>1, <1>2, <1>6, OtherCallsFit
<1> QED BY <1>4, <1>5, <1>7 DEF KeysInv

\* The row is read, and cached: as it is, or by an elder, from whose answer on the
\* time is counted anew.
LEMMA CachingKeepsKeys ==
  ASSUME KeysTypeOK, KeysInv, NEW c \in Calls, ReadKey(c) \/ StoreRow(c)
  PROVE  KeysTypeOK' /\ KeysInv'
<1> DEFINE w == call[c]
<1>1. CASE ReadKey(c)
  <2> DEFINE u == [w EXCEPT !.pc = "store", !.row = key]
  <2>1. /\ w.pc = "miss" /\ call' = [call EXCEPT ![c] = u]
        /\ UNCHANGED <<second, key, holds, member, entry, admin, elders, frontier>>
    BY <1>1 DEF ReadKey, KeysTypeOK
  <2>2. w \in KeyCall
    BY <2>1, KindOfCall DEF WithKey
  <2>3. /\ u \in KeyCall /\ u.pc = "store" /\ u.row = key
        /\ u.met = w.met /\ u.met_member = w.met_member /\ u.late = w.late
    BY <2>2 DEF KeyCall, WithKey, KeysTypeOK
  <2>4. call'[c] = u
    BY <2>1 DEF KeysTypeOK
  <2> HIDE DEF u
  <2>5. KeysTypeOK'
    BY <2>1, <2>3 DEF KeysTypeOK
  <2>6. KeyFits(c)' /\ MeetsTheIssuer(c)'
    BY <2>1, <2>3, <2>4 DEF KeysInv, CallsFit, KeyFits, MeetsTheIssuer, Issued, WithKey
  <2>7. CallsFit'
    BY <2>1, <2>6, OtherCallsFit
  <2>8. KeyIsIssued' /\ CachesForget'
    BY <2>1 DEF KeysInv, KeyIsIssued, CachesForget, Issued
  <2> QED BY <2>5, <2>7, <2>8 DEF KeysInv
<1>2. CASE StoreRow(c)
  <2> DEFINE u == [w EXCEPT !.pc = "check"]
  <2>1. /\ w.pc = "store" /\ call' = [call EXCEPT ![c] = u] /\ elders' = elders \ {c}
        /\ frontier' = IF c \in elders THEN second ELSE frontier
        /\ \/ UNCHANGED entry
           \/ entry' = [entry EXCEPT ![w.cache] = EntryStored(w.row)]
        /\ UNCHANGED <<second, key, holds, member, admin>>
    BY <1>2 DEF StoreRow, KeysTypeOK
  <2>2. w \in KeyCall
    BY <2>1, KindOfCall DEF WithKey
  <2>3. /\ u \in KeyCall /\ u.pc = "check"
        /\ u.met = w.met /\ u.met_member = w.met_member /\ u.late = w.late
    BY <2>2 DEF KeyCall, WithKey
  <2>4. call'[c] = u
    BY <2>1 DEF KeysTypeOK
  <2>5. /\ Issued /\ ~w.late /\ (w.row # key => c \in elders)
        /\ (member => w.met_member) /\ holds \subseteq w.met
    BY <2>1 DEF KeysInv, CallsFit, KeyFits, MeetsTheIssuer, WithKey
  <2> HIDE DEF u
  <2>6. w.row \in KeyRow /\ w.cache \in Caches /\ second + CacheTtl \in Nat
    BY <2>2, ApiKeysAssumption DEF KeyCall, KeysTypeOK
  <2> HIDE DEF w
  <2>7. KeysTypeOK'
    <3>1. EntryStored(w.row) \in [row : KeyRow, until : Nat]
      BY <2>6 DEF EntryStored
    <3> QED BY <2>1, <2>3, <2>6, <3>1 DEF KeysTypeOK
  <2>8. KeyFits(c)' /\ MeetsTheIssuer(c)'
    BY <2>1, <2>3, <2>4, <2>5 DEF KeyFits, MeetsTheIssuer, Issued
  <2>9. CallsFit'
    BY <2>1, <2>8, OtherCallsFit
  <2>10. KeyIsIssued'
    BY <2>1, <2>5 DEF KeysInv, KeyIsIssued, Issued
  <2>11. ASSUME NEW x \in Caches
         PROVE  /\ entry'[x].until <= second' + CacheTtl
                /\ entry'[x].row # key' => entry'[x].until <= frontier' + CacheTtl
    <3>1. /\ entry[x].until \in Nat /\ second \in Nat /\ frontier \in Nat /\ CacheTtl \in Nat
          /\ entry[x].until <= second + CacheTtl /\ frontier <= second
          /\ entry[x].row # key => entry[x].until <= frontier + CacheTtl
      BY ApiKeysAssumption DEF KeysTypeOK, KeysInv, CachesForget
    <3>2. \/ entry'[x] = entry[x]
          \/ entry'[x].row = w.row /\ entry'[x].until = second + CacheTtl
      BY <2>1 DEF KeysTypeOK, EntryStored
    <3> QED BY <2>1, <2>5, <3>1, <3>2
  <2>12. CachesForget'
    BY <2>1, <2>11 DEF CachesForget, KeysInv, KeysTypeOK
  <2> QED BY <2>7, <2>9, <2>10, <2>12 DEF KeysInv
<1> QED BY <1>1, <1>2

\* The row is checked with the issuer: a request is refused unless it met a member.
LEMMA CheckingKeepsKeys ==
  ASSUME KeysTypeOK, KeysInv, NEW c \in Calls, CheckKey(c)
  PROVE  KeysTypeOK' /\ KeysInv'
<1> DEFINE w == call[c]
           u == [w EXCEPT !.pc = "powers", !.late = FALSE, !.age = 0]
<1>1. /\ w.pc = "check" /\ UNCHANGED <<second, key, holds, member, admin, elders, frontier>>
      /\ \/ Authorized(w.row) /\ UNCHANGED entry /\ call' = [call EXCEPT ![c] = u]
         \/ /\ entry' = [entry EXCEPT ![w.cache] = Nowhere]
            /\ call' = [call EXCEPT ![c] = [pc |-> "refused"]]
  BY DEF CheckKey, KeysTypeOK
<1>2. w \in KeyCall
  BY <1>1, KindOfCall DEF WithKey
<1>3. /\ u \in KeyCall /\ u.pc = "powers" /\ u.met = w.met /\ u.met_member = w.met_member
  <2> DEFINE t == [w EXCEPT !.pc = "powers", !.late = FALSE]
  <2>1. t \in KeyCall /\ t.pc = "powers" /\ t.met = w.met /\ t.met_member = w.met_member
    BY <1>2 DEF KeyCall, WithKey
  <2>2. u = [t EXCEPT !.age = 0]
    BY <1>2 DEF KeyCall
  <2> HIDE DEF t, u
  <2> QED BY <2>1, <2>2 DEF KeyCall, WithKey
<1>4. w.cache \in Caches /\ Issued /\ (member => w.met_member) /\ holds \subseteq w.met
  BY <1>1, <1>2 DEF KeyCall, KeysInv, CallsFit, KeyFits, MeetsTheIssuer, WithKey
<1> HIDE DEF u, w
<1>5. KeysTypeOK'
  BY <1>1, <1>3, <1>4, NoKeyIsARow DEF KeysTypeOK, Nowhere
<1>6. \A x \in Caches : entry'[x] = entry[x] \/ entry'[x] = Nowhere
  BY <1>1, <1>4 DEF KeysTypeOK
<1>7. KeyIsIssued' /\ CachesForget'
  BY <1>1, <1>6, ApiKeysAssumption
     DEF KeysInv, KeyIsIssued, CachesForget, Issued, Nowhere, KeysTypeOK
<1>8. CASE call' = [call EXCEPT ![c] = u] /\ member
  <2>1. call'[c] = u
    BY <1>8 DEF KeysTypeOK
  <2>2. KeyFits(c)' /\ MeetsTheIssuer(c)'
    BY <1>1, <1>3, <1>4, <1>8, <2>1 DEF KeyFits, MeetsTheIssuer, Issued
  <2> QED BY <1>1, <1>5, <1>7, <1>8, <2>2, OtherCallsFit DEF KeysInv
<1>9. CASE call' = [call EXCEPT ![c] = [pc |-> "refused"]]
  <2>1. call'[c] = [pc |-> "refused"]
    BY <1>9 DEF KeysTypeOK
  <2>2. KeyFits(c)' /\ MeetsTheIssuer(c)'
    BY <2>1 DEF KeyFits, MeetsTheIssuer, WithKey
  <2> QED BY <1>1, <1>5, <1>7, <1>9, <2>2, OtherCallsFit DEF KeysInv
<1> QED BY <1>1, <1>8, <1>9 DEF Authorized

\* A request is served with what its issuer holds, and ends.
LEMMA ServingKeepsKeys ==
  ASSUME KeysTypeOK, KeysInv, NEW c \in Calls,
         Authenticate(c) \/ OauthCall(c) \/ OauthServed(c) \/ Returns(c)
  PROVE  KeysTypeOK' /\ KeysInv'
<1>1. UNCHANGED <<second, key, holds, member, entry, admin, elders, frontier>>
  BY DEF Authenticate, OauthCall, OauthServed, Returns
<1>2. ASSUME NEW u \in {Waiting, [pc |-> "refused"]} \cup PersonCall,
             call' = [call EXCEPT ![c] = u],
             u.pc \in {"oauth", "served"} => u.met_member /\ u.powers \subseteq u.met,
             u.pc = "oauth" => holds \subseteq u.met
      PROVE  KeysTypeOK' /\ KeysInv'
  <2>1. call'[c] = u /\ u.pc \in {"waiting", "refused", "oauth", "served"}
    BY <1>2 DEF KeysTypeOK, PersonCall, Waiting
  <2>2. KeysTypeOK'
    BY <1>1, <1>2 DEF KeysTypeOK
  <2>3. KeyFits(c)' /\ MeetsTheIssuer(c)'
    BY <1>1, <1>2, <2>1 DEF KeyFits, MeetsTheIssuer, WithKey
  <2>4. CallsFit'
    BY <1>1, <1>2, <2>3, OtherCallsFit
  <2>5. KeyIsIssued' /\ CachesForget'
    BY <1>1 DEF KeysInv, KeyIsIssued, CachesForget, Issued
  <2> QED BY <2>2, <2>4, <2>5 DEF KeysInv
<1>3. CASE Authenticate(c)
  <2> DEFINE u == [pc |-> "served", powers |-> Effective(call[c].row), met |-> call[c].met,
                   met_member |-> call[c].met_member]
  <2>1. call[c].pc = "powers" /\ call' = [call EXCEPT ![c] = u]
    BY <1>3 DEF Authenticate, KeysTypeOK
  <2>2. call[c] \in KeyCall
    BY <2>1, KindOfCall DEF WithKey
  <2>3. u \in PersonCall
    BY <2>2 DEF KeyCall, PersonCall, KeyRow, Effective
  <2>4. u.met_member /\ u.powers \subseteq u.met /\ u.pc = "served"
    BY <2>1 DEF KeysInv, CallsFit, MeetsTheIssuer, WithKey, Effective
  <2> HIDE DEF u
  <2> QED BY <1>2, <2>1, <2>3, <2>4
<1>4. CASE OauthCall(c)
  <2> DEFINE u == [pc |-> "oauth", met |-> holds, met_member |-> TRUE, powers |-> holds]
  <2>1. call' = [call EXCEPT ![c] = u] \/ call' = [call EXCEPT ![c] = [pc |-> "refused"]]
    BY <1>4 DEF OauthCall
  <2>2. u \in PersonCall /\ u.met_member /\ u.powers \subseteq u.met /\ holds \subseteq u.met
    BY DEF PersonCall, KeysTypeOK
  <2> HIDE DEF u
  <2> QED BY <1>2, <2>1, <2>2
<1>5. CASE OauthServed(c)
  <2> DEFINE u == [call[c] EXCEPT !.pc = "served"]
  <2>1. call[c].pc = "oauth" /\ call' = [call EXCEPT ![c] = u]
    BY <1>5 DEF OauthServed, KeysTypeOK
  <2>2. call[c] \in PersonCall
    BY <2>1, KindOfCall
  <2>3. /\ u \in PersonCall /\ u.pc = "served" /\ u.met = call[c].met
        /\ u.met_member = call[c].met_member /\ u.powers = call[c].powers
    BY <2>2 DEF PersonCall
  <2>4. u.met_member /\ u.powers \subseteq u.met
    BY <2>1, <2>3 DEF KeysInv, CallsFit, MeetsTheIssuer
  <2> HIDE DEF u
  <2> QED BY <1>2, <2>1, <2>3, <2>4
<1>6. CASE Returns(c)
  BY <1>2, <1>6 DEF Returns, Waiting
<1> QED BY <1>3, <1>4, <1>5, <1>6

\* The inductive invariant of the keys.
LEMMA KeysInductive == ApiKeysSpec => [](KeysTypeOK /\ KeysInv)
<1>1. KeysTypeOK /\ KeysInv /\ [ApiKeysNext]_KeyVars => (KeysTypeOK /\ KeysInv)'
  <2> SUFFICES ASSUME KeysTypeOK, KeysInv, [ApiKeysNext]_KeyVars
               PROVE  KeysTypeOK' /\ KeysInv'
    OBVIOUS
  <2>1. CASE UNCHANGED KeyVars
    BY <2>1 DEF KeyVars, KeysTypeOK, KeysInv, KeyIsIssued, CachesForget, CallsFit, KeyFits,
                MeetsTheIssuer, Issued
  <2>2. CASE ApiKeysNext
    BY <2>2, IssuingKeepsKeys, ChangingKeepsKeys, IssuerKeepsKeys, VerifyingKeepsKeys,
       CachingKeepsKeys, CheckingKeepsKeys, ServingKeepsKeys DEF ApiKeysNext
  <2> QED BY <2>1, <2>2
<1> QED BY <1>1, KeysStart, PTL DEF ApiKeysSpec

\* However many workers, caches and requests there are: no request acts on a row
\* that changed longer ago than the time to live, and none does what its issuer
\* could not do while it lasted (KeysFollowTheirIssuer).
THEOREM KeysAlwaysFollow == ApiKeysSpec => []KeysFollowTheirIssuer
<1>1. KeysTypeOK /\ KeysInv => KeysFollowTheirIssuer
  BY DEF KeysFollowTheirIssuer, ChangesReachEveryWorker, NoMoreThanTheIssuer, KeysInv,
         CallsFit, KeyFits, MeetsTheIssuer
<1> QED BY <1>1, KeysInductive, PTL

-----------------------------------------------------------------------------
(* Connecting an account                                                   *)

Flow == [way : Ways, kind : {"single", "pages", "mastodon", "bluesky"},
         instance : Instances \cup {NoApp}, client : Requests \cup {NoApp}]
SessionRow == [Ways \cup {"pages"} -> Nonces]
Started == 1 .. Len(flows)

FlowsTyped ==
  /\ FlowsTypeOK
  /\ open \in [Ways -> BOOLEAN]
  /\ flows \in Seq(Flow) /\ Len(flows) <= MaxFlows
  /\ apps \in [Instances -> {NoApp} \cup [client : Requests, way : Ways]]
  /\ DOMAIN request = Requests
  /\ starts \in [passed : Int, overwritten : Int]
  /\ \A e \in exchanges : e.nonce \in Started

\* A flow at an instance has the client the instance is registered with, which is
\* never registered again; the others have none.
AppOfFlow(flow) ==
  IF flow.instance = NoApp THEN flow.client = NoApp
  ELSE apps[flow.instance] # NoApp /\ apps[flow.instance].client = flow.client

FlowsHaveApps == \A n \in Started : AppOfFlow(flows[n])

\* What a request holds, wherever it is: a session and a flow there is; a count
\* below the limit; the instance of its flow; and past the check of a way in that
\* has been closed, it is known to be inside.
RequestFits(r) ==
  LET q == request[r] IN
  /\ q.pc # "idle" => q.sess \in SessionRow
  /\ q.pc = "end" /\ "to" \in DOMAIN q => q.to \in Started
  /\ q.pc = "count" => /\ q.count \in Nat /\ q.count < MAX_OAUTH_INITIATIONS_PER_HOUR
                       /\ q.flow \in Flow /\ q.flow.instance = NoApp /\ q.flow.client = NoApp
  /\ q.pc = "register" => q.flow \in Flow /\ q.flow.instance \in Instances
  /\ q.pc \in {"exchange", "store"} =>
       q.nonce \in Started /\ (open[flows[q.nonce].way] \/ q.nonce \in inside)
  /\ q.pc = "exchange" => /\ q.instance = flows[q.nonce].instance
                          /\ DOMAIN q = {"pc", "sess", "nonce", "instance"}

RequestsFit == \A r \in Requests : RequestFits(r)

\* The counter is the initiations let through but those that were overwritten.
CountedOnce ==
  /\ rate = starts.passed - starts.overwritten
  /\ rate <= MAX_OAUTH_INITIATIONS_PER_HOUR

FlowsInv ==
  FlowsHaveApps /\ RequestsFit /\ CountedOnce /\ ExchangedWhereIssued /\ ClosedIsClosed

\* A flow that was started stays as it was.
FlowsStay == \A n \in Started : n \in Started' /\ flows'[n] = flows[n]

\* Connecting at the start.
LEMMA FlowsStart ==
  ASSUME FlowsInit PROVE FlowsTyped /\ FlowsInv
<1>1. FlowsTyped
  <2>1. 0 \in Nonces /\ Len(<<>>) = 0
    BY ConnectFlowsAssumption DEF Nonces
  <2>2. flows = <<>> /\ flows \in Seq(Flow) /\ Len(flows) <= MaxFlows
    BY <2>1, ConnectFlowsAssumption DEF FlowsInit
  <2>3. FlowsTypeOK
    BY <2>1 DEF FlowsInit, FlowsTypeOK
  <2> QED BY <2>2, <2>3 DEF FlowsInit, FlowsTyped
<1>2. FlowsInv
  BY ConnectFlowsAssumption
     DEF FlowsInit, FlowsInv, FlowsHaveApps, RequestsFit, RequestFits, CountedOnce, NoRequest,
         ExchangedWhereIssued, ClosedIsClosed, Started
<1> QED BY <1>1, <1>2

\* When a request becomes w, the others are what they were.
LEMMA RequestBecomes ==
  ASSUME FlowsTyped, RequestsFit, NEW r \in Requests, NEW w,
         request' = [request EXCEPT ![r] = w], FlowsStay, inside \subseteq inside', open' = open,
         w.pc # "idle" => w.sess \in SessionRow,
         w.pc = "end" /\ "to" \in DOMAIN w => w.to \in Started',
         w.pc = "count" => /\ w.count \in Nat /\ w.count < MAX_OAUTH_INITIATIONS_PER_HOUR
                           /\ w.flow \in Flow /\ w.flow.instance = NoApp /\ w.flow.client = NoApp,
         w.pc = "register" => w.flow \in Flow /\ w.flow.instance \in Instances,
         w.pc \in {"exchange", "store"} =>
           w.nonce \in Started' /\ (open[flows'[w.nonce].way] \/ w.nonce \in inside'),
         w.pc = "exchange" => /\ w.instance = flows'[w.nonce].instance
                              /\ DOMAIN w = {"pc", "sess", "nonce", "instance"}
  PROVE  RequestsFit' /\ DOMAIN request' = Requests
<1>1. DOMAIN request' = Requests /\ request'[r] = w
  BY DEF FlowsTyped
<1>2. RequestFits(r)'
  BY <1>1 DEF RequestFits
<1>3. ASSUME NEW q \in Requests, q # r PROVE RequestFits(q)'
  <2>1. request'[q] = request[q]
    BY <1>3 DEF FlowsTyped
  <2> QED BY <2>1 DEF RequestsFit, RequestFits, FlowsStay
<1> QED BY <1>1, <1>2, <1>3 DEF RequestsFit

\* A step that starts no flow, registers, exchanges and stores nothing.
LEMMA OnlyRequests ==
  ASSUME FlowsTyped, FlowsInv, FlowsTypeOK',
         UNCHANGED <<open, flows, apps, rate, starts, exchanges, inside, late>>,
         RequestsFit', DOMAIN request' = Requests
  PROVE  FlowsTyped' /\ FlowsInv'
<1>1. FlowsTyped'
  BY DEF FlowsTyped, Started
<1>2. FlowsHaveApps' /\ CountedOnce' /\ ExchangedWhereIssued' /\ ClosedIsClosed'
  BY DEF FlowsInv, FlowsHaveApps, AppOfFlow, CountedOnce, ExchangedWhereIssued, ClosedIsClosed, Started
<1> QED BY <1>1, <1>2 DEF FlowsInv

\* A response without a flow.
LEMMA LeavingKeepsFlows ==
  ASSUME FlowsTyped, FlowsInv, FlowsTypeOK', NEW r \in Requests, NEW sess \in SessionRow,
         request' = [request EXCEPT ![r] = [pc |-> "end", sess |-> sess]],
         UNCHANGED <<open, flows, apps, rate, starts, exchanges, inside, late>>
  PROVE  FlowsTyped' /\ FlowsInv'
<1>1. FlowsStay
  BY DEF FlowsStay, Started
<1> DEFINE w == [pc |-> "end", sess |-> sess]
<1>2. w.pc = "end" /\ w.sess = sess /\ "to" \notin DOMAIN w
  OBVIOUS
<1> HIDE DEF w
<1>3. request' = [request EXCEPT ![r] = w]
  BY DEF w
<1>4. RequestsFit' /\ DOMAIN request' = Requests
  BY <1>1, <1>2, <1>3, RequestBecomes DEF FlowsInv
<1> QED BY <1>4, OnlyRequests

\* What Append does to the flows.
LEMMA FlowsGrow ==
  ASSUME FlowsTyped, NEW flow \in Flow, flows' = Append(flows, flow), Len(flows) + 1 <= MaxFlows
  PROVE  /\ flows' \in Seq(Flow) /\ Len(flows') <= MaxFlows
         /\ Started' = Started \cup {Len(flows) + 1} /\ flows'[Len(flows) + 1] = flow
         /\ FlowsStay /\ Len(flows) + 1 \in Nonces
<1>1. /\ Len(flows) \in Nat /\ Len(flows') = Len(flows) + 1 /\ flows' \in Seq(Flow)
      /\ \A n \in 1 .. Len(flows) : flows'[n] = flows[n]
      /\ flows'[Len(flows) + 1] = flow
  BY DEF FlowsTyped
<1> QED BY <1>1 DEF Started, FlowsStay, Nonces

\* A step that starts a flow, which has the client of its instance; the request
\* that starts it leaves for the platform, or stores the account at once.
LEMMA StartingKeepsFlows ==
  ASSUME FlowsTyped, FlowsInv, NEW r \in Requests, NEW flow \in Flow, NEW w,
         flows' = Append(flows, flow), Len(flows) + 1 <= MaxFlows,
         request' = [request EXCEPT ![r] = w],
         w.sess \in SessionRow,
         \/ w.pc = "end" /\ ("to" \in DOMAIN w => w.to = Len(flows) + 1)
         \/ w.pc = "store" /\ w.nonce = Len(flows) + 1 /\ open[flow.way],
         AppOfFlow(flow)',
         apps' \in [Instances -> {NoApp} \cup [client : Requests, way : Ways]],
         \A i \in Instances : apps[i] # NoApp => apps'[i] = apps[i],
         CountedOnce', rate' \in Nat, starts' \in [passed : Int, overwritten : Int],
         UNCHANGED <<open, session, leaving, codes, spent, exchanges, inside, late>>
  PROVE  FlowsTyped' /\ FlowsInv'
<1>1. /\ flows' \in Seq(Flow) /\ Len(flows') <= MaxFlows
      /\ Started' = Started \cup {Len(flows) + 1} /\ flows'[Len(flows) + 1] = flow
      /\ FlowsStay
  BY FlowsGrow
<1>2. RequestsFit' /\ DOMAIN request' = Requests
  BY <1>1, RequestBecomes DEF FlowsInv
<1>3. FlowsTyped'
  <2>1. FlowsTypeOK'
    <3>1. Started \subseteq Started'
      BY <1>1
    <3> QED BY <3>1 DEF FlowsTyped, FlowsTypeOK, Started
  <2>2. \A e \in exchanges : e.nonce \in Started'
    BY <1>1 DEF FlowsTyped
  <2> QED BY <1>1, <1>2, <2>1, <2>2 DEF FlowsTyped
<1>4. FlowsHaveApps'
  <2>1. ASSUME NEW n \in Started PROVE AppOfFlow(flows[n])'
    <3>1. flows'[n] = flows[n] /\ flows[n] \in Flow
      BY <1>1 DEF FlowsStay, FlowsTyped, Started
    <3>2. AppOfFlow(flows[n])
      BY DEF FlowsInv, FlowsHaveApps
    <3> QED BY <3>1, <3>2 DEF AppOfFlow, Flow
  <2> QED BY <1>1, <2>1 DEF FlowsHaveApps
<1>5. ExchangedWhereIssued' /\ ClosedIsClosed'
  <2>1. ASSUME NEW e \in exchanges
        PROVE  e.with = [instance |-> flows'[e.nonce].instance, client |-> flows'[e.nonce].client]
    <3>1. flows'[e.nonce] = flows[e.nonce]
      BY <1>1 DEF FlowsStay, FlowsTyped
    <3> QED BY <3>1 DEF FlowsInv, ExchangedWhereIssued
  <2> QED BY <2>1 DEF FlowsInv, ExchangedWhereIssued, ClosedIsClosed
<1> QED BY <1>2, <1>3, <1>4, <1>5 DEF FlowsInv

\* Begins: a fresh nonce in the session.
LEMMA BeginsKeepsFlows ==
  ASSUME FlowsTyped, FlowsInv, NEW r \in Requests, NEW flow \in Flow, NEW sess \in SessionRow,
         Begins(r, flow, sess), AppOfFlow(flow)',
         apps' \in [Instances -> {NoApp} \cup [client : Requests, way : Ways]],
         \A i \in Instances : apps[i] # NoApp => apps'[i] = apps[i],
         CountedOnce', rate' \in Nat, starts' \in [passed : Int, overwritten : Int],
         UNCHANGED <<open, session, leaving, codes, spent, exchanges, inside, late>>
  PROVE  FlowsTyped' /\ FlowsInv'
<1> DEFINE n == Len(flows) + 1
           w == [pc |-> "end", sess |-> [sess EXCEPT ![flow.way] = n], to |-> n]
<1>1. n <= MaxFlows /\ flows' = Append(flows, flow) /\ request' = [request EXCEPT ![r] = w]
  BY DEF Begins
<1>2. n \in Nonces
  BY <1>1, FlowsGrow
<1>3. w.pc = "end" /\ w.to = Len(flows) + 1 /\ w.sess \in SessionRow
  BY <1>2 DEF SessionRow
<1> HIDE DEF w
<1> QED BY <1>1, <1>3, StartingKeepsFlows

\* The flows of platforms that are all alike.
LEMMA PlainFlow ==
  ASSUME NEW way \in Ways, NEW kind \in {"single", "pages", "mastodon", "bluesky"}
  PROVE  /\ FlowOf(way, kind) \in Flow /\ FlowOf(way, kind).way = way
         /\ FlowOf(way, kind).instance = NoApp /\ FlowOf(way, kind).client = NoApp
  BY DEF FlowOf, Flow

\* The session of a request that begins.
LEMMA SessionIsOne ==
  ASSUME FlowsTyped PROVE session \in SessionRow /\ 0 \in Nonces
  BY ConnectFlowsAssumption DEF FlowsTyped, FlowsTypeOK, SessionRow, Nonces

\* A member starts a flow; a link counts its initiation, and starts one.
LEMMA InitiatingKeepsFlows ==
  ASSUME FlowsTyped, FlowsInv, NEW r \in Requests,
         MemberStarts(r) \/ ConnectionOAuthStart(r) \/ CountInitiation(r)
  PROVE  FlowsTyped' /\ FlowsInv'
<1> USE SessionIsOne
<1>k. Redirecting \subseteq {"single", "pages", "mastodon", "bluesky"} /\ Ways = {"member", "link"}
  BY ConnectFlowsAssumption DEF Redirecting, Ways
<1>1. CASE MemberStarts(r)
  <2>1. PICK kind \in Redirecting : Begins(r, FlowOf("member", kind), session)
    BY <1>1 DEF MemberStarts
  <2>2. UNCHANGED <<open, session, leaving, codes, spent, apps, rate, starts, exchanges, inside, late>>
    BY <1>1 DEF MemberStarts
  <2>3. /\ FlowOf("member", kind) \in Flow /\ AppOfFlow(FlowOf("member", kind))'
        /\ CountedOnce' /\ rate' \in Nat /\ starts' \in [passed : Int, overwritten : Int]
        /\ apps' \in [Instances -> {NoApp} \cup [client : Requests, way : Ways]]
    BY <1>k, <2>2, PlainFlow DEF AppOfFlow, FlowsTyped, FlowsTypeOK, FlowsInv, CountedOnce
  <2> QED BY <2>1, <2>2, <2>3, BeginsKeepsFlows
<1>2. CASE ConnectionOAuthStart(r)
  <2>1. /\ UNCHANGED <<open, session, flows, leaving, codes, spent, apps, rate, starts,
                       exchanges, inside, late>>
        /\ \/ request' = [request EXCEPT ![r] = [pc |-> "end", sess |-> session]]
           \/ /\ UnderLimit
              /\ \E kind \in Redirecting :
                   request' = [request EXCEPT ![r] =
                     [pc |-> "count", sess |-> session, count |-> rate, flow |-> FlowOf("link", kind)]]
    BY <1>2 DEF ConnectionOAuthStart
  <2>2. FlowsTypeOK' /\ FlowsStay
    BY <2>1 DEF FlowsTyped, FlowsTypeOK, FlowsStay, Started
  <2>3. ASSUME NEW kind \in Redirecting, UnderLimit,
               request' = [request EXCEPT ![r] =
                 [pc |-> "count", sess |-> session, count |-> rate, flow |-> FlowOf("link", kind)]]
        PROVE  FlowsTyped' /\ FlowsInv'
    <3> DEFINE w == [pc |-> "count", sess |-> session, count |-> rate, flow |-> FlowOf("link", kind)]
    <3>1. /\ w.pc = "count" /\ w.sess \in SessionRow
          /\ w.count \in Nat /\ w.count < MAX_OAUTH_INITIATIONS_PER_HOUR
          /\ w.flow \in Flow /\ w.flow.instance = NoApp /\ w.flow.client = NoApp
      BY <1>k, <2>3, PlainFlow DEF UnderLimit, FlowsTyped, FlowsTypeOK
    <3> HIDE DEF w
    <3>2. request' = [request EXCEPT ![r] = w]
      BY <2>3 DEF w
    <3>3. RequestsFit' /\ DOMAIN request' = Requests
      BY <2>1, <2>2, <3>1, <3>2, RequestBecomes DEF FlowsInv
    <3> QED BY <2>1, <2>2, <3>3, OnlyRequests
  <2> QED BY <2>1, <2>2, <2>3, LeavingKeepsFlows
<1>3. CASE CountInitiation(r)
  <2> DEFINE q == request[r]
  <2>1. /\ q.pc = "count" /\ rate' = q.count + 1
        /\ starts' = [passed |-> starts.passed + 1,
                      overwritten |-> starts.overwritten + (rate - q.count)]
        /\ Begins(r, q.flow, q.sess)
        /\ UNCHANGED <<open, session, leaving, codes, spent, apps, exchanges, inside, late>>
    BY <1>3 DEF CountInitiation, Holds
  <2>2. /\ q.sess \in SessionRow /\ q.count \in Nat /\ q.count < MAX_OAUTH_INITIATIONS_PER_HOUR
        /\ q.flow \in Flow /\ q.flow.instance = NoApp /\ q.flow.client = NoApp
    BY <2>1 DEF FlowsInv, RequestsFit, RequestFits
  <2> HIDE DEF q
  <2>3. CountedOnce' /\ rate' \in Nat /\ starts' \in [passed : Int, overwritten : Int]
    <3>1. /\ starts.passed \in Int /\ starts.overwritten \in Int /\ rate \in Nat
          /\ rate = starts.passed - starts.overwritten
      BY DEF FlowsTyped, FlowsTypeOK, FlowsInv, CountedOnce
    <3>2. /\ starts'.passed = starts.passed + 1
          /\ starts'.overwritten = starts.overwritten + (rate - q.count)
      BY <2>1
    <3>3. MAX_OAUTH_INITIATIONS_PER_HOUR \in Nat
      BY ConnectFlowsAssumption
    <3>4. /\ rate' = starts'.passed - starts'.overwritten
          /\ rate' <= MAX_OAUTH_INITIATIONS_PER_HOUR /\ rate' \in Nat
      BY <2>1, <2>2, <3>1, <3>2, <3>3
    <3> QED BY <2>1, <2>2, <3>1, <3>4 DEF CountedOnce
  <2>4. PICK flow \in Flow, sess \in SessionRow : flow = q.flow /\ sess = q.sess
    BY <2>2
  <2>5. /\ AppOfFlow(flow)'
        /\ apps' \in [Instances -> {NoApp} \cup [client : Requests, way : Ways]]
    BY <2>1, <2>2, <2>4 DEF AppOfFlow, FlowsTyped
  <2>6. Begins(r, flow, sess)
    BY <2>1, <2>4
  <2> QED BY <2>1, <2>3, <2>5, <2>6, BeginsKeepsFlows
<1> QED BY <1>1, <1>2, <1>3

\* The flow at an instance.
AtInstance(way, i, client) == [FlowOf(way, "mastodon") EXCEPT !.instance = i, !.client = client]

\* It is a flow like any other.
LEMMA InstanceFlow ==
  ASSUME NEW way \in Ways, NEW i \in Instances, NEW client \in Requests \cup {NoApp}
  PROVE  /\ AtInstance(way, i, client) \in Flow /\ AtInstance(way, i, client).instance = i
         /\ AtInstance(way, i, client).client = client
<1> DEFINE plain == FlowOf(way, "mastodon")
           there == [plain EXCEPT !.instance = i]
           flow == [there EXCEPT !.client = client]
<1>1. plain \in Flow
  BY PlainFlow
<1> HIDE DEF plain
<1>2. there \in Flow /\ there.instance = i
  BY <1>1 DEF Flow
<1>3. flow = AtInstance(way, i, client)
  BY <1>1 DEF Flow, AtInstance, plain
<1> HIDE DEF there
<1>4. flow \in Flow /\ flow.instance = i /\ flow.client = client
  BY <1>2 DEF Flow
<1> HIDE DEF flow
<1> QED BY <1>3, <1>4

\* Mastodon: with the client of the instance, or with one registered for it now,
\* unless another request has registered it meanwhile.
LEMMA MastodonKeepsFlows ==
  ASSUME FlowsTyped, FlowsInv, NEW r \in Requests,
         (\E way \in Ways : MastodonStarts(r, way)) \/ RegisterApp(r)
  PROVE  FlowsTyped' /\ FlowsInv'
<1> USE SessionIsOne
<1>1. ASSUME NEW way \in Ways, MastodonStarts(r, way) PROVE FlowsTyped' /\ FlowsInv'
  <2>1. UNCHANGED <<open, session, leaving, codes, spent, apps, rate, starts, exchanges, inside, late>>
    BY <1>1 DEF MastodonStarts
  <2>2. PICK i \in Instances :
          \/ /\ apps[i] = NoApp /\ UNCHANGED flows
             /\ request' = [request EXCEPT ![r] =
                  [pc |-> "register", sess |-> session,
                   flow |-> AtInstance(way, i, NoApp)]]
          \/ /\ apps[i] # NoApp
             /\ Begins(r, AtInstance(way, i, apps[i].client), session)
    BY <1>1 DEF MastodonStarts, AtInstance
  <2>3. CASE apps[i] # NoApp
    <3>1. apps[i].client \in Requests
      BY <2>3 DEF FlowsTyped
    <3>2. PICK client \in Requests : client = apps[i].client
      BY <3>1
    <3> DEFINE flow == AtInstance(way, i, client)
    <3>3. flow \in Flow /\ flow.instance = i /\ flow.client = client
      BY InstanceFlow
    <3>4. Begins(r, flow, session)
      BY <2>2, <2>3, <3>2
    <3> HIDE DEF flow
    <3>5. i # NoApp
      BY ConnectFlowsAssumption
    <3>6. AppOfFlow(flow)'
      BY <2>1, <2>3, <3>2, <3>3, <3>5 DEF AppOfFlow
    <3>7. /\ CountedOnce' /\ rate' \in Nat /\ starts' \in [passed : Int, overwritten : Int]
          /\ apps' \in [Instances -> {NoApp} \cup [client : Requests, way : Ways]]
      BY <2>1 DEF FlowsTyped, FlowsTypeOK, FlowsInv, CountedOnce
    <3> QED BY <2>1, <3>3, <3>4, <3>6, <3>7, BeginsKeepsFlows
  <2>4. CASE apps[i] = NoApp
    <3> DEFINE flow == AtInstance(way, i, NoApp)
               w == [pc |-> "register", sess |-> session, flow |-> flow]
    <3>1. flow \in Flow /\ flow.instance = i
      BY InstanceFlow
    <3>2. request' = [request EXCEPT ![r] = w] /\ UNCHANGED flows
      BY <2>2, <2>4
    <3> HIDE DEF flow
    <3>3. w.pc = "register" /\ w.sess \in SessionRow /\ w.flow \in Flow /\ w.flow.instance \in Instances
      BY <3>1
    <3> HIDE DEF w
    <3>4. FlowsTypeOK' /\ FlowsStay
      BY <2>1, <3>2 DEF FlowsTyped, FlowsTypeOK, FlowsStay, Started
    <3>5. RequestsFit' /\ DOMAIN request' = Requests
      BY <2>1, <3>2, <3>3, <3>4, RequestBecomes DEF FlowsInv
    <3> QED BY <2>1, <3>2, <3>4, <3>5, OnlyRequests
  <2> QED BY <2>3, <2>4
<1>2. CASE RegisterApp(r)
  <2> DEFINE q == request[r]
  <2>1. /\ q.pc = "register"
        /\ UNCHANGED <<open, session, leaving, codes, spent, rate, starts, exchanges, inside, late>>
        /\ \/ /\ apps[q.flow.instance] = NoApp
              /\ apps' = [apps EXCEPT ![q.flow.instance] = [client |-> r, way |-> q.flow.way]]
              /\ Begins(r, [q.flow EXCEPT !.client = r], q.sess)
           \/ /\ request' = [request EXCEPT ![r] = [pc |-> "end", sess |-> q.sess]]
              /\ UNCHANGED <<apps, flows>>
    BY <1>2 DEF RegisterApp, BeginsAs, Leaves, Holds
  <2>2. PICK f \in Flow, sess \in SessionRow : f = q.flow /\ sess = q.sess /\ f.instance \in Instances
    BY <2>1 DEF FlowsInv, RequestsFit, RequestFits
  <2>3. CASE request' = [request EXCEPT ![r] = [pc |-> "end", sess |-> q.sess]] /\ UNCHANGED <<apps, flows>>
    <3>1. FlowsTypeOK'
      BY <2>1, <2>3 DEF FlowsTyped, FlowsTypeOK
    <3> QED BY <2>1, <2>2, <2>3, <3>1, LeavingKeepsFlows
  <2>4. CASE /\ apps[f.instance] = NoApp
             /\ apps' = [apps EXCEPT ![f.instance] = [client |-> r, way |-> f.way]]
             /\ Begins(r, [f EXCEPT !.client = r], sess)
    <3> DEFINE flow == [f EXCEPT !.client = r]
               app == [client |-> r, way |-> f.way]
    <3>1. flow \in Flow /\ flow.instance = f.instance /\ flow.client = r
      BY DEF Flow
    <3>2. app \in [client : Requests, way : Ways] /\ app.client = r
      BY DEF Flow
    <3>3. app # NoApp /\ f.instance # NoApp
      BY <2>2, <3>2, ConnectFlowsAssumption DEF Ways
    <3>4. apps' = [apps EXCEPT ![f.instance] = app] /\ Begins(r, flow, sess)
      BY <2>4
    <3> HIDE DEF app, flow
    <3>5. /\ apps' \in [Instances -> {NoApp} \cup [client : Requests, way : Ways]]
          /\ \A i \in Instances : apps[i] # NoApp => apps'[i] = apps[i]
          /\ apps'[f.instance] = app
      BY <2>2, <2>4, <3>2, <3>4 DEF FlowsTyped
    <3>6. AppOfFlow(flow)'
      BY <3>1, <3>2, <3>3, <3>5 DEF AppOfFlow
    <3>7. CountedOnce' /\ rate' \in Nat /\ starts' \in [passed : Int, overwritten : Int]
      BY <2>1 DEF FlowsTyped, FlowsTypeOK, FlowsInv, CountedOnce
    <3> QED BY <2>1, <3>1, <3>4, <3>5, <3>6, <3>7, BeginsKeepsFlows
  <2> QED BY <2>1, <2>2, <2>3, <2>4
<1> QED BY <1>1, <1>2

\* Bluesky: the account is stored in the request that starts the flow.
LEMMA BlueskyKeepsFlows ==
  ASSUME FlowsTyped, FlowsInv, NEW r \in Requests, NEW way \in Ways, BlueskyConnects(r, way)
  PROVE  FlowsTyped' /\ FlowsInv'
<1> DEFINE flow == FlowOf(way, "bluesky")
           stores == [pc |-> "store", sess |-> session, nonce |-> Len(flows) + 1]
           leaves == [pc |-> "end", sess |-> session]
<1>1. /\ open[way] /\ Len(flows) + 1 <= MaxFlows /\ flows' = Append(flows, flow)
      /\ UNCHANGED <<open, session, leaving, codes, spent, apps, rate, starts, exchanges, inside, late>>
      /\ \/ request' = [request EXCEPT ![r] = stores]
         \/ request' = [request EXCEPT ![r] = leaves]
  BY DEF BlueskyConnects, Leaves
<1>2. flow \in Flow /\ flow.way = way /\ flow.instance = NoApp /\ flow.client = NoApp
  BY PlainFlow
<1>3. /\ stores.pc = "store" /\ stores.nonce = Len(flows) + 1 /\ stores.sess \in SessionRow
      /\ leaves.pc = "end" /\ leaves.sess \in SessionRow /\ "to" \notin DOMAIN leaves
  BY SessionIsOne
<1> HIDE DEF flow, stores, leaves
<1>4. PICK w \in {stores, leaves} : request' = [request EXCEPT ![r] = w]
  BY <1>1
<1>5. /\ AppOfFlow(flow)' /\ CountedOnce'
      /\ rate' \in Nat /\ starts' \in [passed : Int, overwritten : Int]
      /\ apps' \in [Instances -> {NoApp} \cup [client : Requests, way : Ways]]
  BY <1>1, <1>2 DEF AppOfFlow, FlowsTyped, FlowsTypeOK, FlowsInv, CountedOnce
<1> QED BY <1>1, <1>2, <1>3, <1>4, <1>5, StartingKeepsFlows

\* Pages, the end of a request, and what the platform and its user do.
LEMMA ServingKeepsFlows ==
  ASSUME FlowsTyped, FlowsInv,
         \/ Authorize \/ Abandon
         \/ \E r \in Requests : ViewPage(r) \/ EndRequest(r) \/ Decline(r) \/ SelectAccount(r)
  PROVE  FlowsTyped' /\ FlowsInv'
<1> USE SessionIsOne
<1>1. UNCHANGED <<open, flows, apps, rate, starts, exchanges, inside, late>>
  BY DEF Authorize, Abandon, ViewPage, EndRequest, Decline, SelectAccount
<1>2. CASE Authorize \/ Abandon
  <2>1. /\ leaving' \cup codes' \subseteq leaving \cup codes
        /\ UNCHANGED <<session, spent, request>>
    BY <1>2 DEF Authorize, Abandon
  <2>2. FlowsTypeOK'
    BY <1>1, <2>1 DEF FlowsTyped, FlowsTypeOK
  <2>3. RequestsFit' /\ DOMAIN request' = Requests
    BY <1>1, <2>1 DEF FlowsTyped, FlowsInv, RequestsFit, RequestFits, Started
  <2> QED BY <1>1, <2>2, <2>3, OnlyRequests
<1>3. ASSUME NEW r \in Requests, ViewPage(r) PROVE FlowsTyped' /\ FlowsInv'
  <2>1. /\ request' = [request EXCEPT ![r] = [pc |-> "end", sess |-> session]]
        /\ UNCHANGED <<session, leaving, codes, spent>>
    BY <1>3 DEF ViewPage
  <2>2. FlowsTypeOK'
    BY <1>1, <2>1 DEF FlowsTyped, FlowsTypeOK
  <2> QED BY <1>1, <2>1, <2>2, LeavingKeepsFlows
<1>4. ASSUME NEW r \in Requests, EndRequest(r) PROVE FlowsTyped' /\ FlowsInv'
  <2>1. /\ request[r].pc = "end" /\ session' = request[r].sess
        /\ \/ leaving' = leaving
           \/ "to" \in DOMAIN request[r] /\ leaving' = leaving \cup {request[r].to}
        /\ request' = [request EXCEPT ![r] = NoRequest]
        /\ UNCHANGED <<codes, spent>>
    BY <1>4 DEF EndRequest, Holds
  <2>2. request[r].sess \in SessionRow /\ ("to" \in DOMAIN request[r] => request[r].to \in Started)
    BY <2>1 DEF FlowsInv, RequestsFit, RequestFits
  <2>3. FlowsTypeOK'
    BY <1>1, <2>1, <2>2 DEF FlowsTyped, FlowsTypeOK, SessionRow, Started
  <2>4. FlowsStay /\ NoRequest.pc = "idle"
    BY <1>1 DEF FlowsStay, Started, NoRequest
  <2>5. RequestsFit' /\ DOMAIN request' = Requests
    BY <1>1, <2>1, <2>4, RequestBecomes DEF FlowsInv
  <2> QED BY <1>1, <2>3, <2>5, OnlyRequests
<1>5. ASSUME NEW r \in Requests, Decline(r) PROVE FlowsTyped' /\ FlowsInv'
  <2>1. PICK n \in leaving : request' = [request EXCEPT ![r] =
          [pc |-> "end", sess |-> [session EXCEPT ![flows[n].way] = 0]]]
    BY <1>5 DEF Decline, Leaves
  <2>2. leaving' \subseteq leaving /\ UNCHANGED <<session, codes, spent>>
    BY <1>5 DEF Decline
  <2>3. [session EXCEPT ![flows[n].way] = 0] \in SessionRow
    BY DEF SessionRow
  <2>4. FlowsTypeOK'
    BY <1>1, <2>2 DEF FlowsTyped, FlowsTypeOK
  <2> QED BY <1>1, <2>1, <2>3, <2>4, LeavingKeepsFlows
<1>6. ASSUME NEW r \in Requests, SelectAccount(r) PROVE FlowsTyped' /\ FlowsInv'
  <2>1. /\ request' = [request EXCEPT ![r] = [pc |-> "end", sess |-> [session EXCEPT !.pages = 0]]]
        /\ UNCHANGED <<session, leaving, codes, spent>>
    BY <1>6 DEF SelectAccount
  <2>2. [session EXCEPT !.pages = 0] \in SessionRow
    BY DEF SessionRow
  <2>3. FlowsTypeOK'
    BY <1>1, <2>1 DEF FlowsTyped, FlowsTypeOK
  <2> QED BY <1>1, <2>1, <2>2, <2>3, LeavingKeepsFlows
<1> QED BY <1>2, <1>3, <1>4, <1>5, <1>6

\* Coming back: the nonce is the one that waited, the instance is its flow's, and
\* the way in is open.
LEMMA CallbackKeepsFlows ==
  ASSUME FlowsTyped, FlowsInv, NEW r \in Requests, NEW way \in Ways, Callback(r, way)
  PROVE  FlowsTyped' /\ FlowsInv'
<1>1. UNCHANGED <<open, session, flows, leaving, codes, spent, apps, rate, starts,
                  exchanges, inside, late>>
  BY DEF Callback
<1>2. PICK popped \in SessionRow : popped = [session EXCEPT ![way] = 0]
  BY SessionIsOne DEF SessionRow
<1>3. PICK n \in codes :
        /\ flows[n].way = way
        /\ \/ request' = [request EXCEPT ![r] = [pc |-> "end", sess |-> popped]]
           \/ /\ session[way] = n /\ open[way]
              /\ request' = [request EXCEPT ![r] = [pc |-> "exchange", sess |-> popped, nonce |-> n,
                                                    instance |-> flows[n].instance]]
  BY <1>2 DEF Callback, Matches, StillOpen
<1>4. FlowsTypeOK' /\ FlowsStay /\ n \in Started
  BY <1>1 DEF FlowsTyped, FlowsTypeOK, FlowsStay, Started
<1> DEFINE w == [pc |-> "exchange", sess |-> popped, nonce |-> n, instance |-> flows[n].instance]
<1>5. ASSUME open[way], request' = [request EXCEPT ![r] = w] PROVE FlowsTyped' /\ FlowsInv'
  <2>1. /\ w.pc = "exchange" /\ w.sess \in SessionRow /\ w.nonce = n
        /\ w.instance = flows[n].instance /\ DOMAIN w = {"pc", "sess", "nonce", "instance"}
    OBVIOUS
  <2> HIDE DEF w
  <2>2. RequestsFit' /\ DOMAIN request' = Requests
    <3>1. /\ w.nonce \in Started' /\ open[flows'[w.nonce].way]
          /\ w.instance = flows'[w.nonce].instance
          /\ open' = open /\ inside \subseteq inside'
      BY <1>1, <1>3, <1>4, <1>5, <2>1 DEF Started
    <3> QED BY <1>4, <1>5, <2>1, <3>1, RequestBecomes DEF FlowsInv
  <2> QED BY <1>1, <1>4, <2>2, OnlyRequests
<1>6. CASE request' = [request EXCEPT ![r] = [pc |-> "end", sess |-> popped]]
  BY <1>1, <1>4, <1>6, LeavingKeepsFlows
<1> QED BY <1>3, <1>5, <1>6

\* The client a code is exchanged with is the one its flow was started with.
LEMMA ExchangeKeepsFlows ==
  ASSUME FlowsTyped, FlowsInv, NEW r \in Requests, ExchangeCode(r)
  PROVE  FlowsTyped' /\ FlowsInv'
<1>1. PICK n \in Started, sess \in SessionRow :
        /\ n = request[r].nonce /\ sess = request[r].sess
        /\ request[r].instance = flows[n].instance
        /\ open[flows[n].way] \/ n \in inside
        /\ DOMAIN request[r] = {"pc", "sess", "nonce", "instance"}
  BY DEF ExchangeCode, FlowsInv, RequestsFit, RequestFits
<1>2. /\ request[r].pc = "exchange"
      /\ UNCHANGED <<open, session, flows, leaving, codes, apps, rate, starts, inside, late>>
      /\ exchanges' = exchanges \cup {[nonce |-> n, with |-> ExchangedWith(flows[n], flows[n].instance)]}
      /\ spent' \subseteq spent \cup {n}
      /\ \/ request' = [request EXCEPT ![r].pc = "store"]
         \/ request' = [request EXCEPT ![r] = [pc |-> "end", sess |-> sess]]
  BY <1>1 DEF ExchangeCode, Goes, Leaves, Holds
<1>3. /\ FlowsTypeOK' /\ FlowsStay
      /\ \A e \in exchanges' : e.nonce \in Started'
  BY <1>2 DEF FlowsTyped, FlowsTypeOK, FlowsStay, Started
<1>4. ExchangedWith(flows[n], flows[n].instance)
        = [instance |-> flows[n].instance, client |-> flows[n].client]
  <2>1. flows[n] \in Flow /\ AppOfFlow(flows[n])
    BY DEF FlowsTyped, FlowsInv, FlowsHaveApps, Started
  <2> QED BY <2>1 DEF AppOfFlow, ExchangedWith
<1>5. ExchangedWhereIssued'
  <2> SUFFICES ASSUME NEW e \in exchanges'
               PROVE  e.with = [instance |-> flows'[e.nonce].instance,
                                client |-> flows'[e.nonce].client]
    BY DEF ExchangedWhereIssued
  <2>1. CASE e \in exchanges
    BY <1>2, <2>1 DEF FlowsInv, ExchangedWhereIssued
  <2>2. CASE e = [nonce |-> n, with |-> ExchangedWith(flows[n], flows[n].instance)]
    BY <1>2, <1>4, <2>2
  <2> QED BY <1>2, <2>1, <2>2
<1>6. RequestsFit' /\ DOMAIN request' = Requests
  <2>1. CASE request' = [request EXCEPT ![r] = [pc |-> "end", sess |-> sess]]
    <3> DEFINE w == [pc |-> "end", sess |-> sess]
    <3>1. w.pc = "end" /\ w.sess \in SessionRow /\ "to" \notin DOMAIN w
      OBVIOUS
    <3>2. request' = [request EXCEPT ![r] = w]
      BY <2>1
    <3> HIDE DEF w
    <3> QED BY <1>2, <1>3, <3>1, <3>2, RequestBecomes DEF FlowsInv
  <2>2. CASE request' = [request EXCEPT ![r].pc = "store"]
    <3> DEFINE w == [request[r] EXCEPT !.pc = "store"]
    <3>1. request' = [request EXCEPT ![r] = w]
      BY <2>2
    <3>2. w.pc = "store" /\ w.nonce = n /\ w.sess = sess
      BY <1>1, <1>2
    <3> HIDE DEF w
    <3>3. /\ w.nonce \in Started' /\ (open[flows'[w.nonce].way] \/ w.nonce \in inside')
          /\ open' = open /\ inside \subseteq inside'
      BY <1>1, <1>2, <3>2 DEF Started
    <3> QED BY <1>3, <3>1, <3>2, <3>3, RequestBecomes DEF FlowsInv
  <2> QED BY <1>2, <2>1, <2>2
<1>7. FlowsTyped'
  BY <1>2, <1>3, <1>6 DEF FlowsTyped
<1>8. FlowsHaveApps' /\ CountedOnce' /\ ClosedIsClosed'
  BY <1>2 DEF FlowsInv, FlowsHaveApps, AppOfFlow, CountedOnce, ClosedIsClosed, Started
<1> QED BY <1>5, <1>6, <1>7, <1>8 DEF FlowsInv

\* The account is stored, or the pages wait in the session: after the way in has
\* been closed, by a request that was inside.
LEMMA StoringKeepsFlows ==
  ASSUME FlowsTyped, FlowsInv, NEW r \in Requests, StoreForMember(r) \/ StoreForLink(r)
  PROVE  FlowsTyped' /\ FlowsInv'
<1>1. PICK n \in Started, sess \in SessionRow :
        /\ n = request[r].nonce /\ sess = request[r].sess
        /\ open[flows[n].way] \/ n \in inside
  BY DEF StoreForMember, StoreForLink, FlowsInv, RequestsFit, RequestFits
<1>2. /\ UNCHANGED <<open, session, flows, leaving, codes, spent, apps, rate, starts, exchanges, inside>>
      /\ \/ late' = late /\ request' = [request EXCEPT ![r] = [pc |-> "end", sess |-> [sess EXCEPT !.pages = n]]]
         \/ /\ late' = IF open[flows[n].way] THEN late ELSE late \cup {n}
            /\ request' = [request EXCEPT ![r] = [pc |-> "end", sess |-> sess]]
  BY <1>1 DEF StoreForMember, StoreForLink, Stored, Leaves, Holds
<1>3. PICK last \in SessionRow : request' = [request EXCEPT ![r] = [pc |-> "end", sess |-> last]]
  <2>1. n \in Nonces
    <3>1. n \in 1 .. Len(flows) /\ Len(flows) <= MaxFlows /\ Len(flows) \in Nat /\ MaxFlows \in Nat
      BY ConnectFlowsAssumption DEF FlowsTyped, Started
    <3> QED BY <3>1 DEF Nonces
  <2>2. [sess EXCEPT !.pages = n] \in SessionRow
    BY <2>1 DEF SessionRow
  <2> QED BY <1>2, <2>2
<1>4. FlowsTypeOK' /\ FlowsStay
  BY <1>2 DEF FlowsTyped, FlowsTypeOK, FlowsStay, Started
<1>5. RequestsFit' /\ DOMAIN request' = Requests
  <2> DEFINE w == [pc |-> "end", sess |-> last]
  <2>1. w.pc = "end" /\ w.sess \in SessionRow /\ "to" \notin DOMAIN w
    OBVIOUS
  <2>2. request' = [request EXCEPT ![r] = w]
    BY <1>3
  <2> HIDE DEF w
  <2> QED BY <1>2, <1>4, <2>1, <2>2, RequestBecomes DEF FlowsInv
<1>6. FlowsTyped'
  BY <1>2, <1>4, <1>5 DEF FlowsTyped, Started
<1>7. FlowsHaveApps' /\ CountedOnce' /\ ExchangedWhereIssued'
  BY <1>2 DEF FlowsInv, FlowsHaveApps, AppOfFlow, CountedOnce, ExchangedWhereIssued, Started
<1>8. ClosedIsClosed'
  BY <1>1, <1>2 DEF FlowsInv, ClosedIsClosed
<1> QED BY <1>5, <1>6, <1>7, <1>8 DEF FlowsInv

\* A way in is closed: who is past the check is known to be inside.
LEMMA ClosingKeepsFlows ==
  ASSUME FlowsTyped, FlowsInv, Close
  PROVE  FlowsTyped' /\ FlowsInv'
<1> DEFINE Within(way) == {q \in Requests : /\ request[q].pc \in {"exchange", "store"}
                                            /\ flows[request[q].nonce].way = way}
<1>1. PICK way \in Ways :
        /\ open' = [open EXCEPT ![way] = FALSE]
        /\ inside' = inside \cup {request[r].nonce : r \in Within(way)}
        /\ UNCHANGED <<session, flows, leaving, codes, spent, apps, rate, request, starts,
                       exchanges, late>>
  BY DEF Close
<1>2. {request[r].nonce : r \in Within(way)} \subseteq Started
  BY DEF FlowsInv, RequestsFit, RequestFits
<1>3. FlowsTyped'
  BY <1>1, <1>2 DEF FlowsTyped, FlowsTypeOK, Started
<1>4. RequestsFit'
  <2> SUFFICES ASSUME NEW q \in Requests PROVE RequestFits(q)'
    BY DEF RequestsFit
  <2>1. RequestFits(q) /\ request'[q] = request[q] /\ Started' = Started
    BY <1>1 DEF FlowsInv, RequestsFit, Started
  <2>2. ASSUME request[q].pc \in {"exchange", "store"}
        PROVE  open'[flows'[request[q].nonce].way] \/ request[q].nonce \in inside'
    <3>1. CASE flows[request[q].nonce].way = way
      BY <1>1, <2>2, <3>1
    <3>2. CASE flows[request[q].nonce].way # way
      <4>1. flows[request[q].nonce].way \in Ways
        <5>1. request[q].nonce \in 1 .. Len(flows) /\ flows \in Seq(Flow)
          BY <2>1, <2>2 DEF RequestFits, FlowsTyped, Started
        <5>2. flows[request[q].nonce] \in Flow
          BY <5>1
        <5> QED BY <5>2 DEF Flow
      <4>2. open'[flows[request[q].nonce].way] = open[flows[request[q].nonce].way]
        BY <1>1, <3>2, <4>1 DEF FlowsTyped
      <4> QED BY <1>1, <2>1, <2>2, <4>2 DEF RequestFits
    <3> QED BY <3>1, <3>2
  <2> QED BY <1>1, <2>1, <2>2 DEF RequestFits
<1>5. FlowsHaveApps' /\ CountedOnce' /\ ExchangedWhereIssued' /\ ClosedIsClosed'
  BY <1>1 DEF FlowsInv, FlowsHaveApps, AppOfFlow, CountedOnce, ExchangedWhereIssued,
              ClosedIsClosed, Started
<1> QED BY <1>3, <1>4, <1>5 DEF FlowsInv

\* The inductive invariant of connecting an account.
LEMMA FlowsInductive == FlowsSpec => [](FlowsTyped /\ FlowsInv)
<1>1. FlowsTyped /\ FlowsInv /\ [FlowsNext]_FlowVars => (FlowsTyped /\ FlowsInv)'
  <2> SUFFICES ASSUME FlowsTyped, FlowsInv, [FlowsNext]_FlowVars
               PROVE  FlowsTyped' /\ FlowsInv'
    OBVIOUS
  <2>1. CASE UNCHANGED FlowVars
    BY <2>1 DEF FlowVars, FlowsTyped, FlowsTypeOK, FlowsInv, FlowsHaveApps, AppOfFlow, RequestsFit,
                RequestFits, CountedOnce, ExchangedWhereIssued, ClosedIsClosed, Started
  <2>2. CASE FlowsNext
    <3>1. "member" \in Ways /\ "link" \in Ways
      BY DEF Ways
    <3>2. CASE Authorize \/ Abandon \/ Close
      BY <3>2, ServingKeepsFlows, ClosingKeepsFlows
    <3>3. ASSUME NEW r \in Requests,
                 \/ ConnectPlatform(r) \/ Reconnect(r) \/ ConnectionOAuthStart(r) \/ CountInitiation(r)
                 \/ ConnectMastodon(r) \/ ConnectionMastodonStart(r) \/ RegisterApp(r)
                 \/ ConnectBluesky(r) \/ ConnectionBlueskyConnect(r)
          PROVE  FlowsTyped' /\ FlowsInv'
      BY <3>1, <3>3, InitiatingKeepsFlows, MastodonKeepsFlows, BlueskyKeepsFlows
         DEF ConnectPlatform, Reconnect, ConnectMastodon, ConnectionMastodonStart, ConnectBluesky,
             ConnectionBlueskyConnect
    <3>4. ASSUME NEW r \in Requests,
                 \/ ViewPage(r) \/ EndRequest(r) \/ Decline(r) \/ SelectAccount(r)
                 \/ OAuthCallback(r) \/ ConnectionOAuthCallback(r) \/ ExchangeCode(r)
                 \/ StoreForMember(r) \/ StoreForLink(r)
          PROVE  FlowsTyped' /\ FlowsInv'
      BY <3>1, <3>4, ServingKeepsFlows, CallbackKeepsFlows, ExchangeKeepsFlows, StoringKeepsFlows
         DEF OAuthCallback, ConnectionOAuthCallback
    <3> QED BY <2>2, <3>2, <3>3, <3>4 DEF FlowsNext
  <2> QED BY <2>1, <2>2
<1> QED BY <1>1, FlowsStart, PTL DEF FlowsSpec

\* However many requests, instances and flows there are, and whichever session ends
\* last: a flow ends with the client and the instance it was started with, by whom
\* it was allowed to, and within the limit (FlowsEndAsTheyBegan).
THEOREM FlowsAlwaysEndAsTheyBegan == FlowsSpec => []FlowsEndAsTheyBegan
<1>1. FlowsTyped /\ FlowsInv => FlowsEndAsTheyBegan
  <2> SUFFICES ASSUME FlowsTyped, FlowsInv PROVE InitiationsBounded
    BY DEF FlowsEndAsTheyBegan, FlowsTyped, FlowsInv
  <2>1. /\ starts.passed \in Int /\ starts.overwritten \in Int /\ rate \in Nat
        /\ rate = starts.passed - starts.overwritten
        /\ rate <= MAX_OAUTH_INITIATIONS_PER_HOUR /\ MAX_OAUTH_INITIATIONS_PER_HOUR \in Nat
    BY ConnectFlowsAssumption DEF FlowsTyped, FlowsTypeOK, FlowsInv, CountedOnce
  <2> QED BY <2>1 DEF InitiationsBounded
<1> QED BY <1>1, FlowsInductive, PTL

-----------------------------------------------------------------------------
(* The inbox                                                               *)

InboxStatus == {"unread", "open", "resolved", "archived"}
InboxRow == [status : InboxStatus, received : Nat, marked : BOOLEAN]

InboxTypeOK ==
  /\ now \in 0 .. LastNow
  /\ sentAt \in [Messages -> 0 .. LastNow + 1]
  /\ box \in [Messages -> {NoRow} \cup InboxRow]
  /\ hook \in {Quiet} \cup [pc : {"tell"}, message : Messages]
  /\ poll \in [pc : {"quiet", "upsert", "sla"}, list : SUBSET Messages, promised : SUBSET Messages]
         \cup [pc : {"mark"}, list : SUBSET Messages, promised : SUBSET Messages, message : Messages]
  /\ agent \in [Agents -> {Quiet} \cup [pc : {"detail", "reply"}, message : Messages, seen : InboxStatus]]
  /\ told \in [Messages -> [new : Nat, overdue : Nat]]
  /\ again \in [Messages -> BOOLEAN] /\ behind \in BOOLEAN

\* Whoever works on a message works on one that is stored.
WorkIsStored ==
  /\ hook # Quiet => MessageStored(hook.message)
  /\ \A a \in Agents : agent[a] # Quiet => MessageStored(agent[a].message)
  /\ poll.pc \in {"sla", "mark"} => \A m \in poll.list : MessageStored(m)
  /\ poll.pc = "mark" => MessageStored(poll.message)

\* A message is announced by the one that stores it.
AnnouncedOnce ==
  \A m \in Messages : /\ told[m].new <= 1
                      /\ ~MessageStored(m) \/ hook = [pc |-> "tell", message |-> m] => told[m].new = 0

\* A message found overdue is marked, or is about to be, and is not listed again.
OverdueIsMarked ==
  \A m \in Messages : ~again[m] =>
    /\ told[m].overdue <= 1
    /\ told[m].overdue > 0 =>
         \/ MessageStored(m) /\ box[m].marked
         \/ poll.pc = "mark" /\ poll.message = m
    /\ poll.pc \in {"sla", "mark"} /\ m \in poll.list => told[m].overdue = 0

\* Nothing comes from the future.
NothingIsNew ==
  /\ \A m \in Messages : MessageStored(m) => Sent(m) /\ box[m].received <= now
  /\ \A m \in Messages : Sent(m) => sentAt[m] <= now
  /\ poll.pc = "upsert" => \A m \in poll.list : Sent(m)

\* A message that has been sent and is missing is about to come, or will be asked
\* for: nothing that is stored, or about to be, is newer.
MissingIsNewest ==
  ~behind => \A m \in Messages : Sent(m) /\ ~MessageStored(m) =>
    \/ poll.pc = "upsert" /\ m \in poll.list
    \/ /\ \A n \in Messages : MessageStored(n) => box[n].received <= sentAt[m]
       /\ poll.pc = "upsert" => \A k \in poll.list : sentAt[k] <= sentAt[m]

\* What a cycle promised is stored, or still listed.
PromisesAreKept ==
  ~behind => /\ poll.pc = "upsert" => \A m \in poll.promised : MessageStored(m) \/ m \in poll.list
             /\ poll.pc \in {"sla", "mark"} => \A m \in poll.promised : MessageStored(m)

InboxInv ==
  /\ WorkIsStored /\ AnnouncedOnce /\ OverdueIsMarked
  /\ NothingIsNew /\ MissingIsNewest /\ PromisesAreKept

\* A set of times has a largest one: what the poll takes as the newest message.
LEMMA NewestIsOne ==
  ASSUME NEW S \in SUBSET (0 .. LastNow), S # {}
  PROVE  Max(S) \in S
<1>n. LastNow \in Nat
  BY InboxAssumption
<1> DEFINE D == {LastNow - s : s \in S}
<1>1. D \subseteq Nat /\ D # {}
  <2>1. \A s \in S : LastNow - s \in Nat
    BY <1>n
  <2> QED BY <2>1
<1>2. PICK d \in D : \A x \in D : ~(<<x, d>> \in OpToRel(<, Nat))
  BY <1>1, NatLessThanWellFounded, WFMin
<1>3. \A x \in D : d <= x
  <2> SUFFICES ASSUME NEW x \in D PROVE d <= x
    OBVIOUS
  <2>1. x \in Nat /\ d \in Nat
    BY <1>1
  <2>2. <<x, d>> \in Nat \X Nat /\ <<x, d>>[1] = x /\ <<x, d>>[2] = d
    BY <2>1
  <2>3. ~(x < d)
    BY <1>2, <2>2 DEF OpToRel
  <2> QED BY <2>1, <2>3
<1>4. PICK t \in S : d = LastNow - t
  OBVIOUS
<1>5. ASSUME NEW s \in S PROVE t >= s
  <2>1. LastNow - s \in D
    OBVIOUS
  <2>2. d <= LastNow - s
    BY <1>3, <2>1, Zenon
  <2>3. s \in Nat /\ t \in Nat
    BY <1>n
  <2> HIDE DEF D
  <2> QED BY <1>4, <1>n, <2>2, <2>3
<1> QED BY <1>5 DEF Max

\* The inbox at the start.
LEMMA InboxStart ==
  ASSUME InboxInit PROVE InboxTypeOK /\ InboxInv
<1>1. InboxTypeOK
  <2>1. now \in 0 .. LastNow /\ NotYet \in 0 .. LastNow + 1
    BY InboxAssumption DEF InboxInit, NotYet
  <2>2. poll \in [pc : {"quiet", "upsert", "sla"}, list : SUBSET Messages, promised : SUBSET Messages]
    BY DEF InboxInit
  <2>3. told \in [Messages -> [new : Nat, overdue : Nat]]
    BY DEF InboxInit
  <2> QED BY <2>1, <2>2, <2>3 DEF InboxInit, InboxTypeOK
<1>2. \A m \in Messages : ~MessageStored(m) /\ ~Sent(m) /\ told[m].new = 0 /\ told[m].overdue = 0
  BY DEF InboxInit, MessageStored, Sent
<1>3. hook = Quiet /\ poll.pc = "quiet" /\ \A a \in Agents : agent[a] = Quiet
  BY DEF InboxInit
<1> QED BY <1>1, <1>2, <1>3
        DEF InboxInv, WorkIsStored, AnnouncedOnce, OverdueIsMarked, NothingIsNew, MissingIsNewest,
            PromisesAreKept

\* A row is none, or one that was made.
LEMMA RowIsMade ==
  /\ NoRow \notin InboxRow
  /\ \A at \in Nat : NewRow(at) \in InboxRow /\ NewRow(at).received = at /\ ~NewRow(at).marked
  /\ \A r \in InboxRow, s \in InboxStatus :
       /\ [r EXCEPT !.status = s] \in InboxRow
       /\ [r EXCEPT !.status = s].received = r.received
       /\ [r EXCEPT !.status = s].marked = r.marked
  /\ \A r \in InboxRow :
       /\ [r EXCEPT !.marked = TRUE] \in InboxRow
       /\ [r EXCEPT !.marked = TRUE].received = r.received
       /\ [r EXCEPT !.marked = TRUE].marked
  BY DEF NoRow, NewRow, InboxRow, InboxStatus

\* A notification is counted where it belongs.
LEMMA TellingCounts ==
  ASSUME InboxTypeOK, NEW m \in Messages
  PROVE  /\ Tells(m, "new") =>
              /\ told' \in [Messages -> [new : Nat, overdue : Nat]]
              /\ told'[m].overdue = told[m].overdue /\ (told[m].new = 0 => told'[m].new = 1)
              /\ \A n \in Messages : n # m => told'[n] = told[n]
         /\ Tells(m, "overdue") =>
              /\ told' \in [Messages -> [new : Nat, overdue : Nat]]
              /\ told'[m].new = told[m].new /\ (told[m].overdue = 0 => told'[m].overdue = 1)
              /\ \A n \in Messages : n # m => told'[n] = told[n]
<1> DEFINE up(k) == IF k < 2 THEN k + 1 ELSE k
<1>1. /\ told[m] \in [new : Nat, overdue : Nat] /\ told \in [Messages -> [new : Nat, overdue : Nat]]
      /\ \A k \in Nat : up(k) \in Nat
      /\ up(0) = 1
  BY DEF InboxTypeOK
<1>2. /\ Tells(m, "new") => told' = [told EXCEPT ![m] = [told[m] EXCEPT !.new = up(told[m].new)]]
      /\ Tells(m, "overdue") => told' = [told EXCEPT ![m] = [told[m] EXCEPT !.overdue = up(told[m].overdue)]]
  BY <1>1 DEF Tells
<1> HIDE DEF up
<1>3. /\ [told[m] EXCEPT !.new = up(told[m].new)] \in [new : Nat, overdue : Nat]
      /\ [told[m] EXCEPT !.new = up(told[m].new)].overdue = told[m].overdue
      /\ [told[m] EXCEPT !.new = up(told[m].new)].new = up(told[m].new)
      /\ [told[m] EXCEPT !.overdue = up(told[m].overdue)] \in [new : Nat, overdue : Nat]
      /\ [told[m] EXCEPT !.overdue = up(told[m].overdue)].new = told[m].new
      /\ [told[m] EXCEPT !.overdue = up(told[m].overdue)].overdue = up(told[m].overdue)
  BY <1>1
<1> QED BY <1>1, <1>2, <1>3

\* Every row is one that was made, and what is stored is a row.
LEMMA StoredIsRow ==
  ASSUME InboxTypeOK, NEW m \in Messages
  PROVE  MessageStored(m) <=> box[m] \in InboxRow
  BY RowIsMade DEF InboxTypeOK, MessageStored

\* What users do changes the status of messages that are stored, and nothing else.
LEMMA StatusesKeepInbox ==
  ASSUME InboxTypeOK, InboxInv, InboxTypeOK',
         UNCHANGED <<now, sentAt, hook, poll, told, again, behind>>,
         \A m \in Messages : /\ MessageStored(m)' <=> MessageStored(m)
                             /\ MessageStored(m) => /\ box'[m].received = box[m].received
                                                    /\ box'[m].marked = box[m].marked,
         \A a \in Agents : agent'[a] = Quiet \/ MessageStored(agent'[a].message)
  PROVE  InboxInv'
<1>1. /\ hook # Quiet => hook.message \in Messages
      /\ poll.list \in SUBSET Messages /\ poll.promised \in SUBSET Messages
      /\ poll.pc = "mark" => poll.message \in Messages
      /\ \A a \in Agents : agent'[a] # Quiet => agent'[a].message \in Messages
  BY DEF InboxTypeOK
<1>2. \A m \in Messages : Sent(m)' <=> Sent(m)
  BY DEF Sent
<1>3. WorkIsStored' /\ AnnouncedOnce' /\ PromisesAreKept'
  BY <1>1 DEF InboxInv, WorkIsStored, AnnouncedOnce, PromisesAreKept
<1>4. OverdueIsMarked'
  BY <1>1 DEF InboxInv, OverdueIsMarked
<1>5. NothingIsNew' /\ MissingIsNewest'
  BY <1>1, <1>2 DEF InboxInv, NothingIsNew, MissingIsNewest
<1> QED BY <1>3, <1>4, <1>5 DEF InboxInv

\* Users read, answer and file.
LEMMA UsersKeepInbox ==
  ASSUME InboxTypeOK, InboxInv,
         \/ \E a \in Agents : MessageDetail(a) \/ SendReply(a) \/ Saves(a)
         \/ BulkAction \/ \E m \in Messages : ChangeStatus(m)
  PROVE  InboxTypeOK' /\ InboxInv'
<1>0. UNCHANGED <<now, sentAt, hook, poll, told, again, behind>>
  BY DEF MessageDetail, SendReply, Loads, Saves, BulkAction, ChangeStatus
<1>a. \A a \in Agents : agent[a] # Quiet => /\ MessageStored(agent[a].message)
                                            /\ agent[a].message \in Messages
                                            /\ agent[a].seen \in InboxStatus
  BY DEF InboxInv, WorkIsStored, InboxTypeOK
<1>1. ASSUME NEW m \in Messages, MessageStored(m), NEW s \in InboxStatus,
             box' = [box EXCEPT ![m].status = s],
             agent' \in [Agents -> {Quiet} \cup [pc : {"detail", "reply"}, message : Messages,
                                                 seen : InboxStatus]],
             \A a \in Agents : agent'[a] = agent[a] \/ agent'[a] = Quiet
      PROVE  InboxTypeOK' /\ InboxInv'
  <2>1. box[m] \in InboxRow
    BY <1>1, StoredIsRow
  <2>2. /\ box'[m] \in InboxRow /\ box'[m].received = box[m].received
        /\ box'[m].marked = box[m].marked /\ \A n \in Messages : n # m => box'[n] = box[n]
    BY <1>1, <2>1, RowIsMade DEF InboxTypeOK
  <2>3. InboxTypeOK'
    BY <1>0, <1>1, <2>1, <2>2 DEF InboxTypeOK
  <2>4. \A n \in Messages : MessageStored(n)' <=> MessageStored(n)
    BY <1>1, <2>2, RowIsMade DEF MessageStored
  <2>5. \A a \in Agents : agent'[a] = Quiet \/ MessageStored(agent'[a].message)
    BY <1>1, <1>a
  <2> QED BY <1>0, <1>1, <2>2, <2>3, <2>4, <2>5, StatusesKeepInbox
<1>2. ASSUME NEW a \in Agents, NEW pc \in {"detail", "reply"}, Loads(a, pc)
      PROVE  InboxTypeOK' /\ InboxInv'
  <2>1. PICK m \in Messages :
          /\ MessageStored(m) /\ UNCHANGED box
          /\ agent' = [agent EXCEPT ![a] = [pc |-> pc, message |-> m, seen |-> box[m].status]]
    BY <1>2 DEF Loads
  <2>2. box[m].status \in InboxStatus
    BY <2>1, StoredIsRow DEF InboxRow
  <2>3. InboxTypeOK'
    BY <1>0, <2>1, <2>2 DEF InboxTypeOK
  <2>4. \A b \in Agents : agent'[b] = Quiet \/ MessageStored(agent'[b].message)
    BY <1>a, <2>1 DEF InboxTypeOK
  <2>5. \A n \in Messages : MessageStored(n)' <=> MessageStored(n)
    BY <2>1 DEF MessageStored
  <2> QED BY <1>0, <2>1, <2>3, <2>4, <2>5, StatusesKeepInbox
<1>3. ASSUME NEW a \in Agents, Saves(a) PROVE InboxTypeOK' /\ InboxInv'
  <2> DEFINE w == agent[a]
             To(resolves) == IF w.pc = "reply" /\ resolves THEN "resolved"
                             ELSE IF w.seen = "unread" THEN "open" ELSE box[w.message].status
  <2>1. PICK resolves \in BOOLEAN :
          /\ w # Quiet /\ box' = [box EXCEPT ![w.message].status = To(resolves)]
          /\ agent' = [agent EXCEPT ![a] = Quiet]
    BY <1>3 DEF Saves
  <2>2. PICK m \in Messages : m = w.message /\ MessageStored(m)
    BY <1>a, <2>1
  <2>3. To(resolves) \in InboxStatus
    BY <2>2, StoredIsRow DEF InboxRow, InboxStatus
  <2> HIDE DEF To
  <2>4. PICK s \in InboxStatus : s = To(resolves)
    BY <2>3
  <2>5. /\ agent' \in [Agents -> {Quiet} \cup [pc : {"detail", "reply"}, message : Messages,
                                               seen : InboxStatus]]
        /\ \A b \in Agents : agent'[b] = agent[b] \/ agent'[b] = Quiet
    BY <2>1 DEF InboxTypeOK
  <2> QED BY <1>1, <2>1, <2>2, <2>4, <2>5
<1>4. ASSUME NEW m \in Messages, ChangeStatus(m) PROVE InboxTypeOK' /\ InboxInv'
  <2>1. MessageStored(m) /\ \E s \in InboxStatus : box' = [box EXCEPT ![m].status = s]
    BY <1>4 DEF ChangeStatus, InboxStatus
  <2>2. agent' = agent
    BY <1>4 DEF ChangeStatus
  <2> QED BY <1>1, <2>1, <2>2 DEF InboxTypeOK
<1>5. CASE BulkAction
  <2>1. UNCHANGED agent /\ box' = [m \in Messages |-> box'[m]]
    BY <1>5 DEF BulkAction
  <2>2. ASSUME NEW m \in Messages
        PROVE  \/ box'[m] = box[m]
               \/ MessageStored(m) /\ \E s \in InboxStatus : box'[m] = [box[m] EXCEPT !.status = s]
    <3>1. PICK picked \in SUBSET Messages, asked \in {"mark_read", "resolve", "archive"} :
            LET after(s) == CASE asked = "mark_read" -> IF s = "unread" THEN "open" ELSE s
                              [] asked = "resolve" -> IF s = "archived" THEN s ELSE "resolved"
                              [] asked = "archive" -> "archived"
            IN  box' = [n \in Messages |-> IF n \in picked /\ MessageStored(n)
                                           THEN [box[n] EXCEPT !.status = after(box[n].status)]
                                           ELSE box[n]]
      BY <1>5 DEF BulkAction
    <3>2. MessageStored(m) => box[m].status \in InboxStatus
      BY StoredIsRow DEF InboxRow
    <3> DEFINE s == box[m].status
    <3>3. CASE asked = "mark_read"
      <4>1. (IF s = "unread" THEN "open" ELSE s) \in InboxStatus \/ ~MessageStored(m)
        BY <3>2 DEF InboxStatus
      <4> QED BY <3>1, <3>3, <4>1
    <3>4. CASE asked = "resolve"
      <4>1. (IF s = "archived" THEN s ELSE "resolved") \in InboxStatus \/ ~MessageStored(m)
        BY <3>2 DEF InboxStatus
      <4> QED BY <3>1, <3>4, <4>1
    <3>5. CASE asked = "archive"
      <4>1. "archived" \in InboxStatus
        BY DEF InboxStatus
      <4> QED BY <3>1, <3>5, <4>1
    <3> QED BY <3>3, <3>4, <3>5
  <2>3. ASSUME NEW m \in Messages
        PROVE  /\ box'[m] \in {NoRow} \cup InboxRow /\ (MessageStored(m)' <=> MessageStored(m))
               /\ MessageStored(m) => box'[m].received = box[m].received /\ box'[m].marked = box[m].marked
    <3>1. CASE box'[m] = box[m]
      BY <3>1 DEF MessageStored, InboxTypeOK
    <3>2. ASSUME MessageStored(m), NEW s \in InboxStatus, box'[m] = [box[m] EXCEPT !.status = s]
          PROVE  /\ box'[m] \in InboxRow /\ box'[m] # NoRow
                 /\ box'[m].received = box[m].received /\ box'[m].marked = box[m].marked
      <4>1. box[m] \in InboxRow
        BY <3>2, StoredIsRow
      <4> QED BY <3>2, <4>1, RowIsMade
    <3> QED BY <2>2, <3>1, <3>2 DEF MessageStored
  <2>4. InboxTypeOK'
    BY <1>0, <2>1, <2>3 DEF InboxTypeOK
  <2>5. \A a \in Agents : agent'[a] = Quiet \/ MessageStored(agent'[a].message)
    BY <1>a, <2>1
  <2> QED BY <1>0, <2>3, <2>4, <2>5, StatusesKeepInbox
<1> QED BY <1>2, <1>3, <1>4, <1>5 DEF MessageDetail, SendReply

\* Time passes, and messages are sent.
LEMMA SendingKeepsInbox ==
  ASSUME InboxTypeOK, InboxInv, Passes \/ \E m \in Messages : IsSent(m)
  PROVE  InboxTypeOK' /\ InboxInv'
<1>1. UNCHANGED <<box, hook, poll, agent, told, again, behind>>
  BY DEF Passes, IsSent
<1>2. \A m \in Messages : MessageStored(m)' <=> MessageStored(m)
  BY <1>1 DEF MessageStored
<1>3. /\ hook # Quiet => hook.message \in Messages
      /\ poll.list \in SUBSET Messages /\ poll.promised \in SUBSET Messages
      /\ poll.pc = "mark" => poll.message \in Messages
      /\ \A a \in Agents : agent[a] # Quiet => agent[a].message \in Messages
  BY DEF InboxTypeOK
<1>4. WorkIsStored' /\ AnnouncedOnce' /\ OverdueIsMarked' /\ PromisesAreKept'
  BY <1>1, <1>2, <1>3
     DEF InboxInv, WorkIsStored, AnnouncedOnce, OverdueIsMarked, PromisesAreKept
<1>5. CASE Passes
  <2>1. now' = now + 1 /\ now < LastNow /\ UNCHANGED sentAt /\ now \in Nat /\ LastNow \in Nat
    BY <1>5, InboxAssumption DEF Passes, InboxTypeOK
  <2>2. InboxTypeOK'
    BY <1>1, <2>1 DEF InboxTypeOK
  <2>3. \A m \in Messages : (Sent(m)' <=> Sent(m)) /\ sentAt[m] \in Nat
    BY <2>1 DEF Sent, InboxTypeOK
  <2>4. \A m \in Messages : MessageStored(m) => box[m].received \in Nat
    BY StoredIsRow DEF InboxRow
  <2>5. NothingIsNew'
    BY <1>1, <1>2, <1>3, <2>1, <2>3, <2>4 DEF InboxInv, NothingIsNew
  <2>6. MissingIsNewest'
    BY <1>1, <1>2, <2>1, <2>3 DEF InboxInv, MissingIsNewest
  <2> QED BY <1>4, <2>2, <2>5, <2>6 DEF InboxInv
<1>6. ASSUME NEW m \in Messages, IsSent(m) PROVE InboxTypeOK' /\ InboxInv'
  <2>1. ~Sent(m) /\ sentAt' = [sentAt EXCEPT ![m] = now] /\ now' = now /\ now \in 0 .. LastNow
    BY <1>6 DEF IsSent, InboxTypeOK
  <2>2. /\ Sent(m)' /\ sentAt'[m] = now
        /\ \A n \in Messages : n # m => sentAt'[n] = sentAt[n] /\ (Sent(n)' <=> Sent(n))
    BY <2>1, InboxAssumption DEF Sent, NotYet, InboxTypeOK
  <2>3. InboxTypeOK'
    BY <1>1, <2>1, InboxAssumption DEF InboxTypeOK
  <2>4. NothingIsNew'
    BY <1>1, <1>2, <1>3, <2>1, <2>2 DEF InboxInv, NothingIsNew
  <2>5. MissingIsNewest'
    <3>1. poll.pc = "upsert" => \A k \in poll.list : k # m /\ sentAt[k] <= now /\ sentAt'[k] = sentAt[k]
      BY <1>3, <2>1, <2>2 DEF InboxInv, NothingIsNew
    <3>2. ASSUME ~behind, NEW n \in Messages, Sent(n)', ~MessageStored(n)
          PROVE  \/ poll.pc = "upsert" /\ n \in poll.list
                 \/ /\ \A o \in Messages : MessageStored(o) => box[o].received <= sentAt'[n]
                    /\ poll.pc = "upsert" => \A k \in poll.list : sentAt'[k] <= sentAt'[n]
      <4>1. CASE n = m
        BY <2>2, <3>1, <4>1 DEF InboxInv, NothingIsNew
      <4>2. CASE n # m
        BY <2>2, <3>1, <3>2, <4>2 DEF InboxInv, MissingIsNewest
      <4> QED BY <4>1, <4>2
    <3> QED BY <1>1, <1>2, <3>2 DEF MissingIsNewest
  <2> QED BY <1>4, <2>3, <2>4, <2>5 DEF InboxInv
<1> QED BY <1>5, <1>6

\* A delivery stores a message that is not there, and tells of it.
LEMMA DeliveryKeepsInbox ==
  ASSUME InboxTypeOK, InboxInv, NEW m \in Messages, Delivery(m)
  PROVE  InboxTypeOK' /\ InboxInv'
<1>1. /\ hook = Quiet /\ Sent(m) /\ UNCHANGED <<now, sentAt, poll, agent, told, again>>
      /\ hook' = IF ~MessageStored(m) THEN [pc |-> "tell", message |-> m] ELSE Quiet
      /\ box' = IF MessageStored(m) THEN box ELSE [box EXCEPT ![m] = NewRow(now)]
      /\ behind' = (behind \/ (~MessageStored(m) /\ Misses(m)))
  BY DEF Delivery, Created
<1>2. /\ poll.list \in SUBSET Messages /\ poll.promised \in SUBSET Messages
      /\ poll.pc = "mark" => poll.message \in Messages
      /\ \A a \in Agents : agent[a] # Quiet => agent[a].message \in Messages
      /\ now \in Nat
  BY InboxAssumption DEF InboxTypeOK
<1>3. CASE MessageStored(m)
  <2>1. UNCHANGED <<box, hook, behind>>
    BY <1>1, <1>3 DEF InboxTypeOK
  <2> QED BY <1>1, <2>1
          DEF InboxTypeOK, InboxInv, WorkIsStored, AnnouncedOnce, OverdueIsMarked, NothingIsNew,
              MissingIsNewest, PromisesAreKept, MessageStored, Sent
<1>4. CASE ~MessageStored(m)
  <2>1. /\ hook' = [pc |-> "tell", message |-> m] /\ box' = [box EXCEPT ![m] = NewRow(now)]
        /\ behind' = (behind \/ Misses(m))
    BY <1>1, <1>4
  <2>2. /\ NewRow(now) \in InboxRow /\ NewRow(now).received = now /\ NewRow(now) # NoRow
        /\ hook'.message = m
    BY <1>2, <2>1, RowIsMade
  <2>3. /\ MessageStored(m)' /\ box'[m].received = now
        /\ \A n \in Messages : n # m => box'[n] = box[n] /\ (MessageStored(n)' <=> MessageStored(n))
    BY <2>1, <2>2 DEF MessageStored, InboxTypeOK
  <2>4. InboxTypeOK'
    BY <1>1, <2>1, <2>2 DEF InboxTypeOK, Misses
  <2>5. WorkIsStored'
    BY <1>1, <1>2, <2>2, <2>3 DEF InboxInv, WorkIsStored
  <2>6. AnnouncedOnce'
    BY <1>1, <1>4, <2>2, <2>3 DEF InboxInv, AnnouncedOnce
  <2>7. OverdueIsMarked'
    <3>1. ~(poll.pc = "mark" /\ poll.message = m)
      BY <1>4 DEF InboxInv, WorkIsStored
    <3> QED BY <1>1, <1>2, <1>4, <2>3, <3>1 DEF InboxInv, OverdueIsMarked, InboxTypeOK
  <2>8. NothingIsNew'
    BY <1>1, <1>2, <2>3 DEF InboxInv, NothingIsNew, Sent
  <2>9. MissingIsNewest'
    BY <1>1, <2>1, <2>3 DEF MissingIsNewest, Misses, Sent
  <2>10. PromisesAreKept'
    BY <1>1, <1>2, <2>1, <2>3 DEF InboxInv, PromisesAreKept
  <2> QED BY <2>4, <2>5, <2>6, <2>7, <2>8, <2>9, <2>10 DEF InboxInv
<1> QED BY <1>3, <1>4

\* Who stored a message tells of it, or dies.
LEMMA HookKeepsInbox ==
  ASSUME InboxTypeOK, InboxInv, DeliveryTells \/ DeliveryDies
  PROVE  InboxTypeOK' /\ InboxInv'
<1>1. /\ hook' = Quiet /\ UNCHANGED <<now, sentAt, box, poll, agent, again, behind>>
      /\ told' = told \/ (hook.pc = "tell" /\ Tells(hook.message, "new"))
  BY DEF DeliveryTells, DeliveryDies
<1>2. told' \in [Messages -> [new : Nat, overdue : Nat]] /\ AnnouncedOnce'
      /\ \A n \in Messages : told'[n].overdue = told[n].overdue
  <2>1. CASE told' = told
    BY <1>1, <2>1 DEF InboxTypeOK, InboxInv, AnnouncedOnce, MessageStored, Quiet
  <2>2. CASE hook.pc = "tell" /\ Tells(hook.message, "new")
    <3>1. PICK m \in Messages : m = hook.message /\ hook = [pc |-> "tell", message |-> m]
      BY <2>2 DEF InboxTypeOK, Quiet
    <3>2. MessageStored(m) /\ told[m].new = 0
      BY <3>1 DEF InboxInv, WorkIsStored, AnnouncedOnce, Quiet
    <3>3. /\ told' \in [Messages -> [new : Nat, overdue : Nat]]
          /\ told'[m].overdue = told[m].overdue /\ told'[m].new = 1
          /\ \A n \in Messages : n # m => told'[n] = told[n]
      BY <2>2, <3>1, <3>2, TellingCounts
    <3> QED BY <1>1, <3>2, <3>3 DEF InboxInv, AnnouncedOnce, MessageStored, Quiet
  <2> QED BY <1>1, <2>1, <2>2
<1>3. InboxTypeOK'
  BY <1>1, <1>2 DEF InboxTypeOK
<1>4. WorkIsStored' /\ OverdueIsMarked' /\ NothingIsNew' /\ MissingIsNewest' /\ PromisesAreKept'
  <2>1. \A n \in Messages : (MessageStored(n)' <=> MessageStored(n)) /\ (Sent(n)' <=> Sent(n))
    BY <1>1 DEF MessageStored, Sent
  <2>2. /\ poll.list \in SUBSET Messages /\ poll.promised \in SUBSET Messages
        /\ poll.pc = "mark" => poll.message \in Messages
        /\ \A a \in Agents : agent[a] # Quiet => agent[a].message \in Messages
    BY DEF InboxTypeOK
  <2>3. WorkIsStored' /\ PromisesAreKept'
    BY <1>1, <2>1, <2>2 DEF InboxInv, WorkIsStored, PromisesAreKept
  <2>4. OverdueIsMarked'
    BY <1>1, <1>2, <2>1 DEF InboxInv, OverdueIsMarked
  <2>5. NothingIsNew' /\ MissingIsNewest'
    BY <1>1, <2>1, <2>2 DEF InboxInv, NothingIsNew, MissingIsNewest
  <2> QED BY <2>3, <2>4, <2>5
<1> QED BY <1>2, <1>3, <1>4 DEF InboxInv

\* Who works on what, whatever it is.
LEMMA WorkIsTyped ==
  ASSUME InboxTypeOK
  PROVE  /\ poll.list \in SUBSET Messages /\ poll.promised \in SUBSET Messages
         /\ poll.pc \in {"quiet", "upsert", "sla", "mark"}
         /\ poll.pc = "mark" => poll.message \in Messages
         /\ hook # Quiet => hook.message \in Messages /\ hook.pc = "tell"
         /\ \A a \in Agents : agent[a] # Quiet => agent[a].message \in Messages
         /\ \A m \in Messages : /\ sentAt[m] \in Nat /\ told[m].new \in Nat /\ told[m].overdue \in Nat
                                /\ MessageStored(m) => box[m].received \in Nat
         /\ now \in Nat
<1>1. \A m \in Messages : MessageStored(m) => box[m].received \in Nat
  BY StoredIsRow DEF InboxRow
<1> QED BY <1>1, InboxAssumption DEF InboxTypeOK

\* The poll lists what the platform has from the newest message on: that is all
\* that is missing, unless it is behind.
LEMMA ListingKeepsInbox ==
  ASSUME InboxTypeOK, InboxInv, PollLists
  PROVE  InboxTypeOK' /\ InboxInv'
<1> DEFINE S == {box[m].received : m \in {n \in Messages : MessageStored(n)}}
           list == {m \in Messages : IF S = {} THEN Sent(m) ELSE IsListed(m, IF S = {} THEN 0 ELSE Max(S))}
           all == {m \in Messages : Sent(m)}
<1>1. /\ poll.pc = "quiet" /\ poll' = [pc |-> "upsert", list |-> list, promised |-> all]
      /\ UNCHANGED <<now, sentAt, box, hook, agent, told, again, behind>>
  BY DEF PollLists
<1>2. /\ \A m \in Messages : (MessageStored(m)' <=> MessageStored(m)) /\ (Sent(m)' <=> Sent(m))
      /\ poll'.pc = "upsert" /\ poll'.list = list /\ poll'.promised = all
      /\ \A m \in list : m \in Messages /\ Sent(m)
  BY <1>1 DEF MessageStored, Sent, IsListed
<1>3. ASSUME ~behind, NEW m \in Messages, Sent(m), ~MessageStored(m)
      PROVE  m \in list
  <2>1. \A n \in Messages : MessageStored(n) => box[n].received <= sentAt[m]
    BY <1>1, <1>3 DEF InboxInv, MissingIsNewest
  <2>2. CASE S = {}
    BY <1>3, <2>2
  <2>3. CASE S # {}
    <3>1. S \in SUBSET (0 .. LastNow)
      <4>1. \A n \in Messages : MessageStored(n) => box[n].received \in Nat /\ box[n].received <= now
        BY WorkIsTyped DEF InboxInv, NothingIsNew
      <4>2. \A n \in Messages : MessageStored(n) => box[n].received \in 0 .. LastNow
        BY <4>1, InboxAssumption DEF InboxTypeOK
      <4> QED BY <4>2
    <3>2. Max(S) \in S
      BY <2>3, <3>1, NewestIsOne
    <3>3. Max(S) <= sentAt[m] /\ Max(S) \in 0 .. LastNow
      BY <2>1, <3>1, <3>2
    <3> HIDE DEF S
    <3>4. IsListed(m, Max(S))
      BY <1>3, <3>3, WorkIsTyped DEF IsListed
    <3> QED BY <2>3, <3>4
  <2> QED BY <2>2, <2>3
<1> HIDE DEF list
<1>4. InboxTypeOK'
  <2>1. poll' \in [pc : {"quiet", "upsert", "sla"}, list : SUBSET Messages, promised : SUBSET Messages]
    BY <1>1, <1>2
  <2> QED BY <1>1, <2>1 DEF InboxTypeOK
<1>5. WorkIsStored' /\ AnnouncedOnce' /\ OverdueIsMarked'
  BY <1>1, <1>2, WorkIsTyped DEF InboxInv, WorkIsStored, AnnouncedOnce, OverdueIsMarked
<1>6. NothingIsNew'
  BY <1>1, <1>2 DEF InboxInv, NothingIsNew
<1>7. MissingIsNewest' /\ PromisesAreKept'
  BY <1>1, <1>2, <1>3 DEF MissingIsNewest, PromisesAreKept
<1> QED BY <1>4, <1>5, <1>6, <1>7 DEF InboxInv

\* A message that is polled is stored, or its row is written anew.
LEMMA UpsertingKeepsInbox ==
  ASSUME InboxTypeOK, InboxInv, PollUpserts
  PROVE  InboxTypeOK' /\ InboxInv'
<1> DEFINE Anew(m) == [box[m] EXCEPT !.received = sentAt[m], !.marked = FALSE]
<1>1. PICK m \in poll.list :
        /\ poll.pc = "upsert"
        /\ box' = [box EXCEPT ![m] = IF ~MessageStored(m) THEN NewRow(sentAt[m]) ELSE Anew(m)]
        /\ again' = [again EXCEPT ![m] = again[m] \/ (MessageStored(m) /\ box[m].marked)]
        /\ IF ~MessageStored(m) THEN Tells(m, "new") ELSE UNCHANGED told
        /\ poll' = [poll EXCEPT !.list = poll.list \ {m}]
        /\ UNCHANGED <<now, sentAt, hook, agent, behind>>
  BY DEF PollUpserts
<1>2. /\ m \in Messages /\ sentAt[m] \in Nat
      /\ poll' \in [pc : {"quiet", "upsert", "sla"}, list : SUBSET Messages, promised : SUBSET Messages]
      /\ poll'.pc = "upsert" /\ poll'.list = poll.list \ {m} /\ poll'.promised = poll.promised
  BY <1>1, WorkIsTyped DEF InboxTypeOK
<1>3. /\ box'[m] \in InboxRow /\ box'[m].received = sentAt[m] /\ box'[m] # NoRow
      /\ \A n \in Messages : n # m => box'[n] = box[n]
  <2>1. CASE ~MessageStored(m)
    BY <1>1, <1>2, <2>1, RowIsMade DEF InboxTypeOK
  <2>2. CASE MessageStored(m)
    <3>1. box[m] \in InboxRow
      BY <1>2, <2>2, StoredIsRow
    <3>2. Anew(m) \in InboxRow /\ Anew(m).received = sentAt[m]
      BY <1>2, <3>1 DEF InboxRow
    <3> HIDE DEF Anew
    <3> QED BY <1>1, <1>2, <2>2, <3>2, RowIsMade DEF InboxTypeOK
  <2> QED BY <2>1, <2>2
<1>4. /\ MessageStored(m)'
      /\ \A n \in Messages : n # m => (MessageStored(n)' <=> MessageStored(n))
      /\ \A n \in Messages : Sent(n)' <=> Sent(n)
  BY <1>1, <1>3 DEF MessageStored, Sent
<1>5. /\ told' \in [Messages -> [new : Nat, overdue : Nat]]
      /\ \A n \in Messages : n # m => told'[n] = told[n]
      /\ told'[m].overdue = told[m].overdue
      /\ ~MessageStored(m) => told[m].new = 0 /\ told'[m].new = 1
      /\ MessageStored(m) => told'[m] = told[m]
  <2>1. ~MessageStored(m) => told[m].new = 0
    BY <1>2 DEF InboxInv, AnnouncedOnce
  <2> QED BY <1>1, <1>2, <2>1, TellingCounts DEF InboxTypeOK
<1>6. InboxTypeOK'
  BY <1>1, <1>2, <1>3, <1>5 DEF InboxTypeOK
<1>7. WorkIsStored'
  BY <1>1, <1>2, <1>4, WorkIsTyped DEF InboxInv, WorkIsStored
<1>8. AnnouncedOnce'
  <2>1. hook = [pc |-> "tell", message |-> m] => MessageStored(m)
    BY DEF InboxInv, WorkIsStored, Quiet
  <2> QED BY <1>1, <1>2, <1>4, <1>5, <2>1 DEF InboxInv, AnnouncedOnce
<1>9. OverdueIsMarked'
  <2> SUFFICES ASSUME NEW n \in Messages, ~again'[n]
               PROVE  /\ told'[n].overdue <= 1
                      /\ told'[n].overdue > 0 => MessageStored(n)' /\ box'[n].marked
    BY <1>2 DEF OverdueIsMarked
  <2>1. /\ ~again[n] /\ told'[n].overdue = told[n].overdue /\ told[n].overdue \in Nat
        /\ n = m => ~(MessageStored(m) /\ box[m].marked)
    BY <1>1, <1>2, <1>5, WorkIsTyped DEF InboxTypeOK
  <2>2. told[n].overdue <= 1 /\ (told[n].overdue > 0 => MessageStored(n) /\ box[n].marked)
    BY <1>1, <2>1 DEF InboxInv, OverdueIsMarked
  <2> QED BY <1>3, <1>4, <2>1, <2>2
<1>10. NothingIsNew'
  BY <1>1, <1>2, <1>3, <1>4, WorkIsTyped DEF InboxInv, NothingIsNew
<1>11. MissingIsNewest'
  <2> SUFFICES ASSUME ~behind, NEW n \in Messages, Sent(n), ~MessageStored(n)'
               PROVE  \/ n \in poll'.list
                      \/ /\ \A o \in Messages : MessageStored(o)' => box'[o].received <= sentAt[n]
                         /\ \A k \in poll'.list : sentAt[k] <= sentAt[n]
    BY <1>1, <1>2, <1>4 DEF MissingIsNewest
  <2>1. n # m /\ ~MessageStored(n)
    BY <1>4
  <2>2. CASE n \in poll.list
    BY <1>2, <2>1, <2>2
  <2>3. CASE n \notin poll.list
    <3>1. /\ \A o \in Messages : MessageStored(o) => box[o].received <= sentAt[n]
          /\ \A k \in poll.list : sentAt[k] <= sentAt[n]
      BY <1>1, <2>1, <2>3 DEF InboxInv, MissingIsNewest
    <3> QED BY <1>1, <1>2, <1>3, <1>4, <3>1
  <2> QED BY <2>2, <2>3
<1>12. PromisesAreKept'
  BY <1>1, <1>2, <1>4, WorkIsTyped DEF InboxInv, PromisesAreKept
<1> QED BY <1>6, <1>7, <1>8, <1>9, <1>10, <1>11, <1>12 DEF InboxInv

\* The messages that are overdue: each is told of, and marked before the next.
LEMMA OverdueKeepsInbox ==
  ASSUME InboxTypeOK, InboxInv, CheckSla \/ SlaTells \/ SlaMarks \/ SlaEnds
  PROVE  InboxTypeOK' /\ InboxInv'
<1>0. UNCHANGED <<now, sentAt, hook, agent, again, behind>>
  BY DEF CheckSla, SlaTells, SlaMarks, SlaEnds
<1>s. \A n \in Messages : Sent(n)' <=> Sent(n)
  BY <1>0 DEF Sent
<1>1. CASE CheckSla
  <2> DEFINE overdue == {m \in Messages : MessageStored(m) /\ box[m].status \in {"unread", "open"}
                                          /\ ~box[m].marked /\ box[m].received < now}
  <2>1. /\ poll.pc = "upsert" /\ poll.list = {} /\ UNCHANGED <<box, told>>
        /\ poll' = [pc |-> "sla", list |-> overdue, promised |-> poll.promised]
    BY <1>1 DEF CheckSla
  <2>2. /\ poll' \in [pc : {"quiet", "upsert", "sla"}, list : SUBSET Messages, promised : SUBSET Messages]
        /\ poll'.pc = "sla" /\ poll'.promised = poll.promised
        /\ \A m \in poll'.list : m \in Messages /\ MessageStored(m) /\ ~box[m].marked
    BY <2>1, WorkIsTyped
  <2> HIDE DEF overdue
  <2>3. \A n \in Messages : MessageStored(n)' <=> MessageStored(n)
    BY <2>1 DEF MessageStored
  <2>4. InboxTypeOK'
    BY <1>0, <2>1, <2>2 DEF InboxTypeOK
  <2>5. WorkIsStored' /\ AnnouncedOnce' /\ PromisesAreKept'
    BY <1>0, <2>1, <2>2, <2>3, WorkIsTyped DEF InboxInv, WorkIsStored, AnnouncedOnce, PromisesAreKept
  <2>6. OverdueIsMarked'
    BY <1>0, <2>1, <2>2, <2>3, WorkIsTyped DEF InboxInv, OverdueIsMarked
  <2>7. NothingIsNew' /\ MissingIsNewest'
    BY <1>0, <1>s, <2>1, <2>2, <2>3 DEF InboxInv, NothingIsNew, MissingIsNewest
  <2> QED BY <2>4, <2>5, <2>6, <2>7 DEF InboxInv
<1>2. CASE SlaTells
  <2>1. PICK m \in poll.list :
          /\ poll.pc = "sla" /\ Tells(m, "overdue") /\ UNCHANGED box
          /\ poll' = [pc |-> "mark", list |-> poll.list \ {m}, promised |-> poll.promised, message |-> m]
    BY <1>2 DEF SlaTells
  <2>2. /\ m \in Messages
        /\ poll' \in [pc : {"mark"}, list : SUBSET Messages, promised : SUBSET Messages,
                      message : Messages]
        /\ poll'.pc = "mark" /\ poll'.list = poll.list \ {m} /\ poll'.promised = poll.promised
        /\ poll'.message = m
    BY <2>1, WorkIsTyped
  <2>3. \A n \in Messages : MessageStored(n)' <=> MessageStored(n)
    BY <2>1 DEF MessageStored
  <2>4. /\ told' \in [Messages -> [new : Nat, overdue : Nat]]
        /\ told'[m].new = told[m].new /\ (told[m].overdue = 0 => told'[m].overdue = 1)
        /\ \A n \in Messages : n # m => told'[n] = told[n]
    BY <2>1, <2>2, TellingCounts
  <2>5. InboxTypeOK'
    BY <1>0, <2>1, <2>2, <2>4 DEF InboxTypeOK
  <2>6. WorkIsStored' /\ AnnouncedOnce' /\ PromisesAreKept'
    BY <1>0, <2>1, <2>2, <2>3, <2>4, WorkIsTyped
       DEF InboxInv, WorkIsStored, AnnouncedOnce, PromisesAreKept
  <2>7. OverdueIsMarked'
    <3>1. ~again[m] => told[m].overdue = 0
      BY <2>1, <2>2 DEF InboxInv, OverdueIsMarked
    <3>2. ASSUME NEW n \in Messages, n # m, ~again[n]
          PROVE  /\ told[n].overdue <= 1
                 /\ told[n].overdue > 0 => MessageStored(n) /\ box[n].marked
                 /\ n \in poll.list => told[n].overdue = 0
      BY <2>1, <3>2 DEF InboxInv, OverdueIsMarked
    <3> QED BY <1>0, <2>1, <2>2, <2>3, <2>4, <3>1, <3>2 DEF OverdueIsMarked
  <2>8. NothingIsNew' /\ MissingIsNewest'
    BY <1>0, <1>s, <2>1, <2>2, <2>3 DEF InboxInv, NothingIsNew, MissingIsNewest
  <2> QED BY <2>5, <2>6, <2>7, <2>8 DEF InboxInv
<1>3. CASE SlaMarks
  <2>1. PICK m \in Messages :
          /\ poll.pc = "mark" /\ m = poll.message /\ UNCHANGED told
          /\ box' = [box EXCEPT ![m] = [box[m] EXCEPT !.marked = TRUE]]
          /\ poll' = [pc |-> "sla", list |-> poll.list, promised |-> poll.promised]
    BY <1>3, WorkIsTyped DEF SlaMarks, Marked
  <2>2. /\ poll' \in [pc : {"quiet", "upsert", "sla"}, list : SUBSET Messages, promised : SUBSET Messages]
        /\ poll'.pc = "sla" /\ poll'.list = poll.list /\ poll'.promised = poll.promised
    BY <2>1, WorkIsTyped
  <2>3. MessageStored(m) /\ box[m] \in InboxRow
    BY <2>1, StoredIsRow DEF InboxInv, WorkIsStored
  <2>4. /\ box'[m] \in InboxRow /\ box'[m].marked /\ box'[m].received = box[m].received
        /\ \A n \in Messages : n # m => box'[n] = box[n]
        /\ \A n \in Messages : MessageStored(n)' <=> MessageStored(n)
    <3>1. /\ box'[m] \in InboxRow /\ box'[m].marked /\ box'[m].received = box[m].received
          /\ \A n \in Messages : n # m => box'[n] = box[n]
      BY <2>1, <2>3, RowIsMade DEF InboxTypeOK
    <3> QED BY <2>3, <3>1, RowIsMade DEF MessageStored
  <2>5. InboxTypeOK'
    BY <1>0, <2>1, <2>2, <2>4 DEF InboxTypeOK
  <2>6. WorkIsStored' /\ AnnouncedOnce' /\ PromisesAreKept'
    BY <1>0, <2>1, <2>2, <2>4, WorkIsTyped
       DEF InboxInv, WorkIsStored, AnnouncedOnce, PromisesAreKept
  <2>7. OverdueIsMarked'
    BY <1>0, <2>1, <2>2, <2>3, <2>4 DEF InboxInv, OverdueIsMarked
  <2>8. NothingIsNew' /\ MissingIsNewest'
    BY <1>0, <1>s, <2>1, <2>2, <2>4 DEF InboxInv, NothingIsNew, MissingIsNewest
  <2> QED BY <2>5, <2>6, <2>7, <2>8 DEF InboxInv
<1>4. CASE SlaEnds
  <2>1. /\ poll.pc = "sla" /\ UNCHANGED <<box, told>>
        /\ poll' = [pc |-> "quiet", list |-> {}, promised |-> poll.promised]
    BY <1>4 DEF SlaEnds
  <2>2. /\ poll' \in [pc : {"quiet", "upsert", "sla"}, list : SUBSET Messages, promised : SUBSET Messages]
        /\ poll'.pc = "quiet"
    BY <2>1, WorkIsTyped
  <2>3. \A n \in Messages : MessageStored(n)' <=> MessageStored(n)
    BY <2>1 DEF MessageStored
  <2>4. InboxTypeOK'
    BY <1>0, <2>1, <2>2 DEF InboxTypeOK
  <2>5. WorkIsStored' /\ AnnouncedOnce' /\ PromisesAreKept' /\ OverdueIsMarked'
    BY <1>0, <2>1, <2>2, <2>3, WorkIsTyped
       DEF InboxInv, WorkIsStored, AnnouncedOnce, PromisesAreKept, OverdueIsMarked
  <2>6. NothingIsNew' /\ MissingIsNewest'
    BY <1>0, <1>s, <2>1, <2>2, <2>3 DEF InboxInv, NothingIsNew, MissingIsNewest
  <2> QED BY <2>4, <2>5, <2>6 DEF InboxInv
<1> QED BY <1>1, <1>2, <1>3, <1>4

\* A cycle is cut: what was told is not marked, and what was listed is behind.
LEMMA CutKeepsInbox ==
  ASSUME InboxTypeOK, InboxInv, PollCut
  PROVE  InboxTypeOK' /\ InboxInv'
<1>1. /\ poll' = [pc |-> "quiet", list |-> {}, promised |-> {}]
      /\ behind' = (behind \/ (poll.pc = "upsert" /\ poll.list # {}))
      /\ again' = IF poll.pc = "mark" THEN [again EXCEPT ![poll.message] = TRUE] ELSE again
      /\ UNCHANGED <<now, sentAt, box, hook, agent, told>>
  BY DEF PollCut
<1>2. /\ poll' \in [pc : {"quiet", "upsert", "sla"}, list : SUBSET Messages, promised : SUBSET Messages]
      /\ poll'.pc = "quiet" /\ behind' \in BOOLEAN
  BY <1>1 DEF InboxTypeOK
<1>3. \A n \in Messages : (MessageStored(n)' <=> MessageStored(n)) /\ (Sent(n)' <=> Sent(n))
  BY <1>1 DEF MessageStored, Sent
<1>4. /\ again' \in [Messages -> BOOLEAN]
      /\ \A n \in Messages : ~again'[n] => ~again[n] /\ ~(poll.pc = "mark" /\ poll.message = n)
  BY <1>1, WorkIsTyped DEF InboxTypeOK
<1>5. InboxTypeOK'
  BY <1>1, <1>2, <1>4 DEF InboxTypeOK
<1>6. WorkIsStored' /\ AnnouncedOnce' /\ PromisesAreKept'
  BY <1>1, <1>2, <1>3, WorkIsTyped DEF InboxInv, WorkIsStored, AnnouncedOnce, PromisesAreKept
<1>7. OverdueIsMarked'
  BY <1>1, <1>2, <1>3, <1>4 DEF InboxInv, OverdueIsMarked
<1>8. NothingIsNew' /\ MissingIsNewest'
  BY <1>1, <1>2, <1>3 DEF InboxInv, NothingIsNew, MissingIsNewest
<1> QED BY <1>5, <1>6, <1>7, <1>8 DEF InboxInv

\* The inductive invariant of the inbox.
LEMMA InboxInductive == InboxSpec => [](InboxTypeOK /\ InboxInv)
<1>1. InboxTypeOK /\ InboxInv /\ [InboxNext]_InboxVars => (InboxTypeOK /\ InboxInv)'
  <2> SUFFICES ASSUME InboxTypeOK, InboxInv, [InboxNext]_InboxVars
               PROVE  InboxTypeOK' /\ InboxInv'
    OBVIOUS
  <2>1. CASE UNCHANGED InboxVars
    BY <2>1 DEF InboxVars, InboxTypeOK, InboxInv, WorkIsStored, AnnouncedOnce, OverdueIsMarked,
                NothingIsNew, MissingIsNewest, PromisesAreKept, MessageStored, Sent
  <2>2. CASE InboxNext
    BY <2>2, SendingKeepsInbox, DeliveryKeepsInbox, HookKeepsInbox, ListingKeepsInbox,
       UpsertingKeepsInbox, OverdueKeepsInbox, CutKeepsInbox, UsersKeepInbox DEF InboxNext
  <2> QED BY <2>1, <2>2
<1> QED BY <1>1, InboxStart, PTL DEF InboxSpec

\* However many messages and users there are, and however often a message is
\* delivered and polled: it is announced once, and found overdue once unless its
\* mark was lost (NobodyIsToldTwice).
THEOREM InboxNobodyIsToldTwice == InboxSpec => []NobodyIsToldTwice
<1>1. InboxTypeOK /\ InboxInv => NobodyIsToldTwice
  BY WorkIsTyped DEF InboxInv, AnnouncedOnce, OverdueIsMarked, NobodyIsToldTwice
<1> QED BY <1>1, InboxInductive, PTL

\* However many messages there are: a cycle has stored every message sent before it
\* began, unless the inbox was behind (PollMissesNothing).
THEOREM InboxPollMissesNothing == InboxSpec => []PollMissesNothing
<1>1. InboxTypeOK /\ InboxInv => PollMissesNothing
  BY DEF InboxInv, PromisesAreKept, PollMissesNothing
<1> QED BY <1>1, InboxInductive, PTL
=============================================================================
