----------------------------- MODULE Activation -----------------------------
(***************************************************************************)
(* How one organization pays for Intelligence and gets it activated: the   *)
(* checkout slot and its mirror of the remote session, discarding and      *)
(* recovering a checkout, the two-phase activation in a web request with   *)
(* its fallback in a background worker, and the reconciliation of the      *)
(* local subscription with the remote account.                             *)
(*                                                                         *)
(* Web requests, background tasks and the remote service run concurrently. *)
(* A step is one database statement or transaction, or one reply of the    *)
(* remote service together with the statement that follows it when nothing *)
(* else can come between to any effect.                                    *)
(*                                                                         *)
(* Bounds: the organization subscribes once, so that no session is sold    *)
(* after the account was canceled; MaxOutages calls fail, MaxCrashes       *)
(* processes die, and roles and the remote status change MaxChanges times. *)
(***************************************************************************)
EXTENDS FiniteSets, Integers

CONSTANTS Web,          \* request threads of the web server
          Workers,      \* background task workers
          Reconcilers,  \* running reconcile or refresh tasks
          Users,
          Attempts,     \* rows of StudioCheckoutAttempt; bound on those ever made
          Sessions,     \* Stripe checkout sessions; bound on those ever opened
          NoUser, NoCheckout, NoSession,
          WORKER_MAX_ATTEMPTS,
          MaxOutages, MaxKills, MaxChanges

ASSUME ActivationAssumption ==
  /\ NoUser \notin Users /\ NoCheckout \notin Attempts /\ NoSession \notin Sessions
  /\ Web \intersect Workers = {} /\ IsFiniteSet(Web \union Workers)
  /\ WORKER_MAX_ATTEMPTS \in Nat \ {0}
  /\ MaxOutages \in Nat /\ MaxKills \in Nat /\ MaxChanges \in Nat

VARIABLES checkout,      \* StudioCheckoutAttempt
          sub,      \* the IntelligenceSubscription of the organization, if any
          pend,     \* PendingActivation of each session
          runsQueued,    \* queued provisioning tasks of each session
          proc,     \* web requests and worker runs
          recon,    \* reconcile runs
          remote,   \* the remote service: its checkout sessions and
          subscriber,  \*   its account of the organization
          admins,   \* users who are OWNER or ADMIN of the organization
          bounded,    \* bounded events so far
          crossed \* history: a commit was answered while another's key was in flight

ActivationVars == <<checkout, sub, pend, runsQueued, proc, recon, remote, subscriber, admins, bounded, crossed>>

-----------------------------------------------------------------------------

Procs == Web \union Workers

\* The statuses under the partial unique constraint.  No code assigns "pending".
IN_PROGRESS == {"creating", "open"}
UNSETTLED == {"pending", "in_progress"}

CheckoutAttempt == [status : {"unused", "deleted", "activated", "expired", "canceled"} \union IN_PROGRESS,
            session : Sessions \union {NoSession}]

\* key 0 is the empty api key; the others number the keys in the order of their issue.
\* "provisioning" exists only inside the transaction of Finalize.
Subscription == [status : {"none", "active", "past_due", "canceled"}, key : Nat]

\* queued is a history count of the web requests that deferred to the worker.
Pending == [status : {"none", "rejected_unauthorized", "provisioning_failed", "completed"} \union UNSETTLED,
            user : Users \union {NoUser}, attempts : Nat, queued : Nat]

\* key: the key a commit minted, 0 if it minted none.  attempts: the worker's copy of
\* pending.attempts.  entitled is history: the user was an admin at some time of this run.
ActivationProcess == [pc : {"idle", "checkout", "promote", "discard", "flip", "preflight", "commit",
                  "finalize", "queue", "enqueue", "reschedule", "complete"},
            user : Users \union {NoUser}, row : Attempts \union {NoCheckout},
            session : Sessions \union {NoSession}, key : Nat, attempts : Nat, entitled : BOOLEAN]

Reconcile == [pc : {"idle", "loaded", "answered"}, seen : {"none", "active", "past_due", "canceled"},
              answer : {"none", "active", "past_due", "canceled"}]

\* Every row, process and reply has its type; a provisioning subscription is never seen.
ActivationTypeOK ==
  /\ checkout \in [Attempts -> CheckoutAttempt] /\ sub \in Subscription
  /\ pend \in [Sessions -> Pending] /\ runsQueued \in [Sessions -> Nat]
  /\ proc \in [Procs -> ActivationProcess] /\ recon \in [Reconcilers -> Reconcile]
  /\ remote \in [Sessions -> {"none", "open", "closed", "paid", "activated"}]
  /\ subscriber \in Subscription /\ admins \subseteq Users
  /\ bounded \in [{"outages", "crashes", "changes"} -> Nat] /\ crossed \in BOOLEAN

AtRest == [pc |-> "idle", user |-> NoUser, row |-> NoCheckout, session |-> NoSession,
         key |-> 0, attempts |-> 0, entitled |-> FALSE]

NotReconciling == [pc |-> "idle", seen |-> "none", answer |-> "none"]

ActivationInit ==
  /\ checkout = [a \in Attempts |-> [status |-> "unused", session |-> NoSession]]
  /\ sub = [status |-> "none", key |-> 0]
  /\ pend = [s \in Sessions |-> [status |-> "none", user |-> NoUser, attempts |-> 0, queued |-> 0]]
  /\ runsQueued = [s \in Sessions |-> 0]
  /\ proc = [p \in Procs |-> AtRest]
  /\ recon = [r \in Reconcilers |-> NotReconciling]
  /\ remote = [s \in Sessions |-> "none"]
  /\ subscriber = [status |-> "none", key |-> 0]
  /\ admins = Users
  /\ bounded = [e \in {"outages", "crashes", "changes"} |-> 0]
  /\ crossed = FALSE

-----------------------------------------------------------------------------

Limit == [outages |-> MaxOutages, crashes |-> MaxKills, changes |-> MaxChanges]
Spend(event) == /\ bounded[event] < Limit[event]
                /\ bounded' = [bounded EXCEPT ![event] = @ + 1]

Begin(p, pc, u, a, s) ==
  proc' = [proc EXCEPT ![p] = [pc |-> pc, user |-> u, row |-> a, session |-> s,
                               key |-> 0, attempts |-> 0, entitled |-> u \in admins]]
Proceed(p, pc) == proc' = [proc EXCEPT ![p].pc = pc]
Done(p) == proc' = [proc EXCEPT ![p] = AtRest]
SetStatus(a, status) == checkout' = [checkout EXCEPT ![a].status = status]

Unused == {a \in Attempts : checkout[a].status = "unused"}
InProgress == {a \in Attempts : checkout[a].status \in IN_PROGRESS}
RowsOf(s) == {a \in Attempts : checkout[a].session = s}

\* What the remote service tells of a new checkout; a session already sold, an account
\* already there or another open session is a Conflict.
Eligible == subscriber.status = "none" /\ \A s \in Sessions : remote[s] \notin {"open", "paid", "activated"}

UnusedSessions == {s \in Sessions : remote[s] = "none"}
Room == Cardinality(UnusedSessions) > Cardinality({p \in Procs : proc[p].pc = "checkout"})

\* checkout, TX1: the slot of the organization is reserved before the remote call.  A
\* second row in progress is an IntegrityError and changes nothing.
Checkout(p, u) ==
  /\ proc[p].pc = "idle" /\ u \in admins /\ Room
  /\ InProgress = {}
  /\ \E a \in Unused : SetStatus(a, "creating") /\ Begin(p, "checkout", u, a, NoSession)
  /\ UNCHANGED <<sub, pend, runsQueued, recon, remote, subscriber, admins, bounded, crossed>>

\* Mutant: a Conflict leaves the row in the slot.
CheckoutRepliesKeepsSlot(p) ==
  /\ proc[p].pc = "checkout"
  /\ \/ /\ Eligible
        /\ \E s \in UnusedSessions :
             /\ remote' = [remote EXCEPT ![s] = "open"]
             /\ proc' = [proc EXCEPT ![p] = [@ EXCEPT !.pc = "promote", !.session = s]]
        /\ UNCHANGED <<checkout, bounded>>
     \/ ~Eligible /\ Done(p) /\ UNCHANGED <<checkout, remote, bounded>>
  /\ UNCHANGED <<sub, pend, runsQueued, recon, subscriber, admins, crossed>>

\* The reply of /studio-checkout-session: a session, a Conflict, or none, in which case
\* the session may have been opened all the same.
CheckoutReplies(p) ==
  /\ proc[p].pc = "checkout"
  /\ \/ /\ Eligible
        /\ \E s \in UnusedSessions :
             /\ remote' = [remote EXCEPT ![s] = "open"]
             /\ proc' = [proc EXCEPT ![p] = [@ EXCEPT !.pc = "promote", !.session = s]]
        /\ UNCHANGED <<checkout, bounded>>
     \/ ~Eligible /\ SetStatus(proc[p].row, "expired") /\ Done(p) /\ UNCHANGED <<remote, bounded>>
     \/ /\ Spend("outages") /\ SetStatus(proc[p].row, "deleted") /\ Done(p)
        /\ \/ UNCHANGED remote
           \/ Eligible /\ \E s \in UnusedSessions : remote' = [remote EXCEPT ![s] = "open"]
  /\ UNCHANGED <<sub, pend, runsQueued, recon, subscriber, admins, crossed>>

\* checkout, TX2: whatever has become of the row, unless another one has its slot.
CheckoutPromotes(p) ==
  LET a == proc[p].row IN
  /\ proc[p].pc = "promote" /\ Done(p)
  /\ IF InProgress \subseteq {a}
     THEN checkout' = [checkout EXCEPT ![a] = [status |-> "open", session |-> proc[p].session]]
     ELSE UNCHANGED checkout
  /\ UNCHANGED <<sub, pend, runsQueued, recon, remote, subscriber, admins, bounded, crossed>>

\* discard_checkout finds the row in progress or, if there is none, the session that the
\* remote service still reports as open.
Discard(p, u) ==
  /\ proc[p].pc = "idle" /\ u \in admins
  /\ \/ \E a \in InProgress : Begin(p, "discard", u, a, checkout[a].session)
     \/ InProgress = {} /\ \E s \in Sessions : remote[s] = "open" /\ Begin(p, "discard", u, NoCheckout, s)
  /\ UNCHANGED <<checkout, sub, pend, runsQueued, recon, remote, subscriber, admins, bounded, crossed>>

\* The reply of /studio-checkout-session/cancel.  Without a session id it means the open
\* one of the organization; one that is closed, paid for or unknown is no error.
DiscardReplies(p) ==
  LET Meant == IF proc[p].session = NoSession THEN Sessions ELSE {proc[p].session}
      closed == [s \in Sessions |-> IF s \in Meant /\ remote[s] = "open" THEN "closed" ELSE remote[s]]
  IN
  /\ proc[p].pc = "discard"
  /\ \/ /\ remote' = closed
        /\ IF proc[p].row = NoCheckout THEN Done(p) ELSE Proceed(p, "flip")
        /\ UNCHANGED bounded
     \/ Spend("outages") /\ remote' \in {remote, closed} /\ Done(p)
  /\ UNCHANGED <<checkout, sub, pend, runsQueued, recon, subscriber, admins, crossed>>

\* The local row follows, whatever has become of it; a row deleted by its own checkout
\* stays away.
DiscardFlips(p) ==
  /\ proc[p].pc = "flip" /\ Done(p)
  /\ IF checkout[proc[p].row].status = "deleted" THEN UNCHANGED checkout ELSE SetStatus(proc[p].row, "canceled")
  /\ UNCHANGED <<sub, pend, runsQueued, recon, remote, subscriber, admins, bounded, crossed>>

-----------------------------------------------------------------------------

\* activate: the success URL names a session, which any row that carries it vouches for.
Activate(p, u, s) ==
  /\ proc[p].pc = "idle" /\ u \in admins
  /\ \E a \in RowsOf(s) : Begin(p, "preflight", u, a, s)
  /\ UNCHANGED <<checkout, sub, pend, runsQueued, recon, remote, subscriber, admins, bounded, crossed>>

\* recover: the session is one that the remote service holds as paid and not activated.
\* Its row is opened again, which fails if another has the slot, or made anew, in which
\* case another in the slot is expired.
Recover(p, u, s) ==
  /\ proc[p].pc = "idle" /\ u \in admins /\ remote[s] = "paid"
  /\ \/ \E a \in RowsOf(s) :
          /\ InProgress \subseteq {a}
          /\ SetStatus(a, "open") /\ Begin(p, "preflight", u, a, s)
     \/ /\ RowsOf(s) = {}
        /\ \E a \in Unused :
             /\ checkout' = [b \in Attempts |-> IF b = a THEN [status |-> "open", session |-> s]
                                           ELSE IF b \in InProgress THEN [checkout[b] EXCEPT !.status = "expired"]
                                           ELSE checkout[b]]
             /\ Begin(p, "preflight", u, a, s)
  /\ UNCHANGED <<sub, pend, runsQueued, recon, remote, subscriber, admins, bounded, crossed>>

\* A run ends; a worker's one with a status for its PendingActivation.
SettlePending(p, status) ==
  /\ Done(p)
  /\ pend' = IF p \in Workers THEN [pend EXCEPT ![proc[p].session].status = status] ELSE pend

\* A transient failure: a web request leaves the rest to the worker, a worker to its next run.
Defer(p) == Proceed(p, IF p \in Workers THEN "reschedule" ELSE "queue")

\* A failing call.  A client error that is not transient ends a web request, while the
\* worker tries again; a rejection ends both.
FailedCall(p) ==
  /\ Spend("outages")
  /\ \/ Defer(p) /\ UNCHANGED pend
     \/ p \in Web /\ Done(p) /\ UNCHANGED pend

\* Phase 1, and the second look at the membership after it.
Preflight(p) ==
  LET s == proc[p].session IN
  /\ proc[p].pc = "preflight"
  /\ \/ /\ remote[s] \in {"paid", "activated"} /\ UNCHANGED bounded
        /\ \/ proc[p].user \in admins /\ Proceed(p, "commit") /\ UNCHANGED pend
           \/ proc[p].user \notin admins /\ SettlePending(p, "rejected_unauthorized")
     \/ remote[s] \notin {"paid", "activated"} /\ SettlePending(p, "provisioning_failed") /\ UNCHANGED bounded
     \/ FailedCall(p)
  /\ UNCHANGED <<checkout, sub, runsQueued, recon, remote, subscriber, admins, crossed>>

\* Phase 2.  The first commit of a session mints a key, which only its reply carries; a
\* replay mints none.
Commit(p) ==
  LET s == proc[p].session
      minted == IF remote[s] = "paid" THEN subscriber.key + 1 ELSE 0
  IN
  /\ proc[p].pc = "commit"
  /\ \/ /\ remote' = [remote EXCEPT ![s] = "activated"]
        /\ subscriber' = IF minted = 0 THEN subscriber ELSE [status |-> "active", key |-> minted]
        /\ \/ /\ proc' = [proc EXCEPT ![p] = [@ EXCEPT !.pc = "finalize", !.key = minted]]
              /\ crossed' = (crossed \/ \E q \in Procs : proc[q].pc = "finalize")
              /\ UNCHANGED <<pend, bounded>>
           \/ FailedCall(p) /\ UNCHANGED crossed
     \/ FailedCall(p) /\ UNCHANGED <<remote, subscriber, crossed>>
     \/ Spend("outages") /\ SettlePending(p, "provisioning_failed") /\ UNCHANGED <<remote, subscriber, crossed>>
  /\ UNCHANGED <<checkout, sub, runsQueued, recon, admins>>

\* The transaction of _finalize_local_subscription.
Store(p, key) ==
  /\ sub' = [status |-> "active", key |-> key]
  /\ SetStatus(proc[p].row, "activated")
  /\ IF p \in Workers THEN Proceed(p, "complete") ELSE Done(p)

\* What it does about the key: it stores the one that the commit minted, keeps the one it
\* has, or, having none, rotates it, which may fail although the key was rotated.
StoreMinted(p) == proc[p].key # 0 /\ Store(p, proc[p].key) /\ UNCHANGED <<subscriber, bounded>>
KeepStored(p) == proc[p].key = 0 /\ sub.key # 0 /\ Store(p, sub.key) /\ UNCHANGED <<subscriber, bounded>>
Rotate(p) ==
  /\ proc[p].key = 0
  /\ \/ subscriber' = [subscriber EXCEPT !.key = @ + 1] /\ Store(p, subscriber.key + 1) /\ UNCHANGED bounded
     \/ /\ Spend("outages") /\ Defer(p) /\ UNCHANGED <<checkout, sub>>
        /\ subscriber' \in {subscriber, [subscriber EXCEPT !.key = @ + 1]}

\* Mutant: a commit that minted no key always rotates it.
FinalizeRotates(p) ==
  /\ proc[p].pc = "finalize" /\ (StoreMinted(p) \/ Rotate(p))
  /\ UNCHANGED <<pend, runsQueued, recon, remote, admins, crossed>>

\* The lock on the subscription is held through the rotation, so that no other process
\* comes between; if that fails, the transaction is rolled back.
Finalize(p) ==
  /\ proc[p].pc = "finalize"
  /\ StoreMinted(p) \/ KeepStored(p) \/ (sub.key = 0 /\ Rotate(p))
  /\ UNCHANGED <<pend, runsQueued, recon, remote, admins, crossed>>

-----------------------------------------------------------------------------

\* _queue_pending_activation, first statement: the row of the session is made or set to
\* PENDING again, its attempts kept.  One of another user is an IntegrityError.
Queue(p) ==
  LET s == proc[p].session
      u == proc[p].user
  IN
  /\ proc[p].pc = "queue"
  /\ IF pend[s].user \in {NoUser, u}
     THEN /\ pend' = [pend EXCEPT ![s].status = "pending", ![s].user = u, ![s].queued = @ + 1]
          /\ Proceed(p, "enqueue")
     ELSE UNCHANGED pend /\ Done(p)
  /\ UNCHANGED <<checkout, sub, runsQueued, recon, remote, subscriber, admins, bounded, crossed>>

\* Its second statement.
Enqueue(p) ==
  /\ proc[p].pc = "enqueue"
  /\ runsQueued' = [runsQueued EXCEPT ![proc[p].session] = @ + 1] /\ Done(p)
  /\ UNCHANGED <<checkout, sub, pend, recon, remote, subscriber, admins, bounded, crossed>>

\* Mutant: a run that died with the row IN_PROGRESS is not taken up again.
TakePending(k, s) ==
  /\ proc[k].pc = "idle" /\ runsQueued[s] > 0
  /\ runsQueued' = [runsQueued EXCEPT ![s] = @ - 1]
  /\ IF pend[s].status = "pending"
     THEN \E a \in RowsOf(s) :
            /\ pend' = [pend EXCEPT ![s].status = "in_progress", ![s].attempts = @ + 1]
            /\ proc' = [proc EXCEPT ![k] =
                          [pc |-> "preflight", user |-> pend[s].user, row |-> a, session |-> s, key |-> 0,
                           attempts |-> pend[s].attempts + 1, entitled |-> pend[s].user \in admins]]
     ELSE UNCHANGED <<pend, proc>>
  /\ UNCHANGED <<checkout, sub, recon, remote, subscriber, admins, bounded, crossed>>

\* A worker takes a task off the queue and claims the row, unless that is settled.
Take(k, s) ==
  /\ proc[k].pc = "idle" /\ runsQueued[s] > 0
  /\ runsQueued' = [runsQueued EXCEPT ![s] = @ - 1]
  /\ IF pend[s].status \in UNSETTLED
     THEN \E a \in RowsOf(s) :
            /\ pend' = [pend EXCEPT ![s].status = "in_progress", ![s].attempts = @ + 1]
            /\ proc' = [proc EXCEPT ![k] =
                          [pc |-> "preflight", user |-> pend[s].user, row |-> a, session |-> s, key |-> 0,
                           attempts |-> pend[s].attempts + 1, entitled |-> pend[s].user \in admins]]
     ELSE UNCHANGED <<pend, proc>>
  /\ UNCHANGED <<checkout, sub, recon, remote, subscriber, admins, bounded, crossed>>

Complete(k) ==
  /\ proc[k].pc = "complete" /\ SettlePending(k, "completed")
  /\ UNCHANGED <<checkout, sub, runsQueued, recon, remote, subscriber, admins, bounded, crossed>>

\* _reschedule_or_fail decides by the attempts that this run has read.
Reschedule(k) ==
  LET s == proc[k].session IN
  /\ proc[k].pc = "reschedule"
  /\ \/ proc[k].attempts >= WORKER_MAX_ATTEMPTS /\ SettlePending(k, "provisioning_failed") /\ UNCHANGED runsQueued
     \/ /\ proc[k].attempts < WORKER_MAX_ATTEMPTS
        /\ SettlePending(k, "pending") /\ runsQueued' = [runsQueued EXCEPT ![s] = @ + 1]
  /\ UNCHANGED <<checkout, sub, recon, remote, subscriber, admins, bounded, crossed>>

\* A process dies.  The task of a worker is run again when its lock has expired.
ProcessDies(p) ==
  /\ proc[p].pc # "idle" /\ Spend("crashes") /\ Done(p)
  /\ runsQueued' = IF p \in Workers THEN [runsQueued EXCEPT ![proc[p].session] = @ + 1] ELSE runsQueued
  /\ UNCHANGED <<checkout, sub, pend, recon, remote, subscriber, admins, crossed>>

-----------------------------------------------------------------------------

\* reconcile_intelligence_subscriptions and _refresh_one_subscription load a subscription
\* that is not canceled,
ReconcileLoads(r) ==
  /\ recon[r].pc = "idle" /\ sub.status \notin {"none", "canceled"}
  /\ recon' = [recon EXCEPT ![r] = [@ EXCEPT !.pc = "loaded", !.seen = sub.status]]
  /\ UNCHANGED <<checkout, sub, pend, runsQueued, proc, remote, subscriber, admins, bounded, crossed>>

\* get its account, or skip it,
ReconcileAsks(r) ==
  /\ recon[r].pc = "loaded"
  /\ \/ recon' = [recon EXCEPT ![r] = [@ EXCEPT !.pc = "answered", !.answer = subscriber.status]] /\ UNCHANGED bounded
     \/ recon' = [recon EXCEPT ![r] = NotReconciling] /\ Spend("outages")
  /\ UNCHANGED <<checkout, sub, pend, runsQueued, proc, remote, subscriber, admins, crossed>>

\* and save the answer if it differs from what was loaded.
ReconcileSaves(r) ==
  /\ recon[r].pc = "answered"
  /\ recon' = [recon EXCEPT ![r] = NotReconciling]
  /\ sub' = IF recon[r].answer = recon[r].seen THEN sub ELSE [sub EXCEPT !.status = recon[r].answer]
  /\ UNCHANGED <<checkout, pend, runsQueued, proc, remote, subscriber, admins, bounded, crossed>>

\* The customer pays, or the session expires.
Pay(s) ==
  /\ remote[s] = "open"
  /\ \E outcome \in {"paid", "closed"} : remote' = [remote EXCEPT ![s] = outcome]
  /\ UNCHANGED <<checkout, sub, pend, runsQueued, proc, recon, subscriber, admins, bounded, crossed>>

\* The provider charges or cancels the subscription.
Bill ==
  /\ subscriber.status \in {"active", "past_due"} /\ Spend("changes")
  /\ \E status \in {"active", "past_due", "canceled"} \ {subscriber.status} :
       subscriber' = [subscriber EXCEPT !.status = status]
  /\ UNCHANGED <<checkout, sub, pend, runsQueued, proc, recon, remote, admins, crossed>>

\* A member is demoted or promoted.
ChangeRole(u) ==
  /\ Spend("changes")
  /\ \/ u \in admins /\ admins' = admins \ {u} /\ UNCHANGED proc
     \/ /\ u \notin admins /\ admins' = admins \union {u}
        /\ proc' = [p \in Procs |-> IF proc[p].user = u THEN [proc[p] EXCEPT !.entitled = TRUE] ELSE proc[p]]
  /\ UNCHANGED <<checkout, sub, pend, runsQueued, recon, remote, subscriber, crossed>>

\* What a request or a run does once it has begun.
Call(p) == Preflight(p) \/ Commit(p) \/ Finalize(p)
Request(p) == \/ CheckoutReplies(p) \/ CheckoutPromotes(p) \/ DiscardReplies(p) \/ DiscardFlips(p)
              \/ Call(p) \/ Queue(p) \/ Enqueue(p)
Run(k) == Call(k) \/ Complete(k) \/ Reschedule(k) \/ \E s \in Sessions : Take(k, s)
ReconcileStep(r) == ReconcileLoads(r) \/ ReconcileAsks(r) \/ ReconcileSaves(r)

ActivationNext ==
  \/ \E p \in Web : \/ Request(p)
                    \/ \E u \in Users : Checkout(p, u) \/ Discard(p, u)
                    \/ \E u \in Users, s \in Sessions : Activate(p, u, s) \/ Recover(p, u, s)
  \/ \E k \in Workers : Run(k)
  \/ \E p \in Procs : ProcessDies(p)
  \/ \E r \in Reconcilers : ReconcileStep(r)
  \/ \E s \in Sessions : Pay(s)
  \/ Bill
  \/ \E u \in Users : ChangeRole(u)

ActivationSpec == ActivationInit /\ [][ActivationNext]_ActivationVars

\* Threads and workers go on, calls return within their timeout, and the reconcile task
\* recurs.  Customers, administrators and the provider owe nothing.
ActivationFairness == /\ \A p \in Web : WF_ActivationVars(Request(p))
            /\ \A k \in Workers : WF_ActivationVars(Run(k))
            /\ \A r \in Reconcilers : WF_ActivationVars(ReconcileStep(r))

ActivationLiveSpec == ActivationSpec /\ ActivationFairness

-----------------------------------------------------------------------------

\* A subscription has an api key: the rotation that stands in for a lost one may fail, be
\* lost or be cut short by a crash, but then the worker tries again instead of leaving a
\* subscription that no tool can be called with.
ActiveHasKey == sub.status # "none" => sub.key # 0

\* And the remote service accepts that key, however often the session is activated from the
\* web and by workers, unless a commit was answered while another run still held a key it
\* had not stored: then that run may store its key over the one rotated meanwhile.
StoredKeyWorks == sub.key \notin {0, subscriber.key} => crossed

\* Nobody commits a session who was not an administrator of the organization at any time of
\* the request, or of the worker's run: having been one when the checkout was begun, or when
\* the request was deferred, is not enough.
CommittersWereAdmins == \A p \in Procs : proc[p].pc = "finalize" => proc[p].entitled

\* However many requests defer one session and however their tasks interleave, the worker
\* runs it WORKER_MAX_ATTEMPTS times, once more for each further request that deferred it,
\* whose task may be in the middle of a run, and once more for each crash.
WorkerRunsBounded ==
  \A s \in Sessions : pend[s].attempts > 0 =>
     pend[s].attempts <= WORKER_MAX_ATTEMPTS + (pend[s].queued - 1) + bounded.crashes

\* When no request is in flight, what keeps a session that was paid for from being recovered
\* through its own row is at most a row that was promoted after it had been discarded and
\* whose session is closed: no other race between checkouts, discards, expiries and payments
\* leaves a row in the slot.  A crash may leave one creating.
PaidIsRecoverable ==
  \A s \in Sessions : /\ remote[s] = "paid" /\ bounded.crashes = 0
                      /\ \A p \in Web : proc[p].pc = "idle"
                      => \A a \in InProgress : \/ RowsOf(s) = {} \/ checkout[a].session = s
                                               \/ checkout[a].status = "open" /\ remote[checkout[a].session] = "closed"

\* A deferred activation whose task is queued, or that a worker has begun, is settled in the
\* end, although workers crash in the middle of it and the service fails.
DeferredIsSettled ==
  \A s \in Sessions : (runsQueued[s] > 0 \/ pend[s].status = "in_progress") ~> pend[s].status \notin UNSETTLED

\* The local status catches up with the account's again and again, whatever late
\* activations and stale reconcile runs write over it.
MirrorCatchesUp == []<>(sub.status \in {"none", subscriber.status})

\* What the activations leave behind: a key that works, commits by administrators, and no
\* more runs than were asked for.
ActivationIsSound ==
  /\ ActivationTypeOK
  /\ ActiveHasKey /\ StoredKeyWorks /\ CommittersWereAdmins /\ WorkerRunsBounded

\* What was deferred, and what the account says, arrives in the end.
ActivationSettles == DeferredIsSettled /\ MirrorCatchesUp
=============================================================================
