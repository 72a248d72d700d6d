-------------------------- MODULE ActivationProofs --------------------------
(***************************************************************************)
(* What holds of the activation of Intelligence for every number of        *)
(* requests, workers, rows and sessions.                                   *)
(***************************************************************************)
EXTENDS Activation, FiniteSetTheorems, TLAPS

\* The sessions that have been opened and not closed; there is one at most.
Sold == {"open", "paid", "activated"}
OneSold == \A s, t \in Sessions : remote[s] \in Sold /\ remote[t] \in Sold => s = t

\* What a request or run knows of its session and user.
ProcessFits(p) ==
  LET w == proc[p] IN
  /\ w.pc = "promote" => w.session \in Sessions /\ remote[w.session] # "none"
  /\ w.pc = "finalize" => /\ w.session \in Sessions /\ remote[w.session] = "activated"
                          /\ w.key # 0 => subscriber.key # 0
  /\ w.user \in admins => w.entitled
  /\ w.pc \in {"commit", "finalize"} => w.entitled
  /\ w.pc \in {"preflight", "commit"} => w.session \in Sessions
  /\ w.pc = "commit" => remote[w.session] \in {"paid", "activated"}

\* There are keys once a session was activated, and the subscription keeps the one it has.
KeysFit ==
  /\ subscriber.key # 0 => \E s \in Sessions : remote[s] = "activated"
  /\ sub.key # 0 => subscriber.key # 0
  /\ sub.status # "none" => sub.key # 0
  /\ \A r \in Reconcilers : recon[r].pc # "idle" => sub.key # 0

\* Unless commits crossed, one run at most holds a key, and all keys are the account's.
NotCrossed ==
  ~crossed =>
    /\ \A p, q \in Procs : proc[p].pc = "finalize" /\ proc[q].pc = "finalize" => p = q
    /\ \A p \in Procs : proc[p].pc = "finalize" => proc[p].key \in {0, subscriber.key}
    /\ sub.key \in {0, subscriber.key}

\* One row has the slot; while it is creating, a request is about to open or free it.
RowsFit ==
  /\ \A a, b \in InProgress : a = b
  /\ \A a \in Attempts : /\ checkout[a].status = "open" => checkout[a].session \in Sessions
                         /\ checkout[a].session \in Sessions => remote[checkout[a].session] # "none"
                         /\ checkout[a].status = "creating" /\ bounded.crashes = 0 =>
                              \E p \in Web : proc[p].pc \in {"checkout", "promote"} /\ proc[p].row = a

\* Requests and runs that may still put a task of a session into the queue.
Holds(w, worker, s) ==
  /\ w.session = s
  /\ IF worker THEN w.pc # "idle" /\ w.attempts < WORKER_MAX_ATTEMPTS ELSE w.pc = "enqueue"
Holders(s) == {p \in Procs : Holds(proc[p], p \in Workers, s)}

\* The runs there have been and the tasks there can still be: until the last regular run,
\* there is a task for each deferral and crash at most; each run after it used one up.
RunsFit(s) ==
  LET tasks == runsQueued[s] + Cardinality(Holders(s))
  IN IF pend[s].attempts < WORKER_MAX_ATTEMPTS
     THEN tasks <= pend[s].queued + bounded.crashes
     ELSE pend[s].attempts + tasks <= WORKER_MAX_ATTEMPTS + pend[s].queued - 1 + bounded.crashes

ActivationInv ==
  /\ OneSold /\ KeysFit /\ NotCrossed /\ RowsFit
  /\ \A p \in Procs : ProcessFits(p)
  /\ \A s \in Sessions : RunsFit(s)

-----------------------------------------------------------------------------
(* Types *)

\* Where a request or run can be.
PCS == {"idle", "checkout", "promote", "discard", "flip", "preflight", "commit",
        "finalize", "queue", "enqueue", "reschedule", "complete"}

\* What a step may put in the place of a request or run.
LEMMA ProcessTypes ==
  /\ AtRest \in ActivationProcess
  /\ \A w \in ActivationProcess, pc \in PCS :
         /\ [w EXCEPT !.pc = pc] \in ActivationProcess
         /\ \A s \in Sessions : [w EXCEPT !.pc = pc, !.session = s] \in ActivationProcess
         /\ \A k \in Nat : [w EXCEPT !.pc = pc, !.key = k] \in ActivationProcess
<1>1. AtRest \in ActivationProcess
  BY DEF AtRest, ActivationProcess
<1>2. ASSUME NEW w \in ActivationProcess, NEW pc \in PCS
      PROVE  /\ [w EXCEPT !.pc = pc] \in ActivationProcess
             /\ \A s \in Sessions : [w EXCEPT !.pc = pc, !.session = s] \in ActivationProcess
             /\ \A k \in Nat : [w EXCEPT !.pc = pc, !.key = k] \in ActivationProcess
  BY DEF ActivationProcess, PCS
<1>. QED
  BY <1>1, <1>2

\* Rows, counters and subscriptions.
LEMMA RowTypes ==
  ASSUME ActivationTypeOK
  PROVE  /\ \A a, status : status \in {"unused", "deleted", "activated", "expired", "canceled"} \union IN_PROGRESS
                             /\ SetStatus(a, status) => checkout' \in [Attempts -> CheckoutAttempt]
         /\ \A e \in {"outages", "crashes", "changes"} : Spend(e) =>
                             /\ bounded' \in [{"outages", "crashes", "changes"} -> Nat]
                             /\ bounded'[e] = bounded[e] + 1
                             /\ \A f \in {"outages", "crashes", "changes"} \ {e} : bounded'[f] = bounded[f]
<1>1. ASSUME NEW a, NEW status \in {"unused", "deleted", "activated", "expired", "canceled"} \union IN_PROGRESS,
             SetStatus(a, status)
      PROVE  checkout' \in [Attempts -> CheckoutAttempt]
  BY <1>1 DEF ActivationTypeOK, CheckoutAttempt, SetStatus
<1>2. ASSUME NEW e \in {"outages", "crashes", "changes"}, Spend(e)
      PROVE  /\ bounded' \in [{"outages", "crashes", "changes"} -> Nat]
             /\ bounded'[e] = bounded[e] + 1
             /\ \A f \in {"outages", "crashes", "changes"} \ {e} : bounded'[f] = bounded[f]
  BY <1>2 DEF ActivationTypeOK, Spend
<1>. QED
  BY <1>1, <1>2

\* What the others do while one process moves.
Others(p) == \A q \in Procs \ {p} : proc'[q] = proc[q]

\* A process that is given a new state.
LEMMA Moved ==
  ASSUME ActivationTypeOK, NEW p \in Procs, NEW w \in ActivationProcess,
         proc' = [proc EXCEPT ![p] = w]
  PROVE  proc' \in [Procs -> ActivationProcess] /\ proc'[p] = w /\ Others(p)
BY DEF ActivationTypeOK, Others

\* A process that ends.
LEMMA Ended ==
  ASSUME ActivationTypeOK, NEW p \in Procs, Done(p)
  PROVE  /\ proc' \in [Procs -> ActivationProcess] /\ Others(p)
         /\ proc'[p] = AtRest /\ proc'[p].pc = "idle" /\ proc'[p].user = NoUser
<1>1. AtRest \in ActivationProcess /\ AtRest.pc = "idle" /\ AtRest.user = NoUser
  BY ProcessTypes DEF AtRest
<1>. QED
  BY <1>1, Moved DEF Done

\* A process that goes on.
LEMMA Proceeded ==
  ASSUME ActivationTypeOK, NEW p \in Procs, NEW pc \in PCS, Proceed(p, pc)
  PROVE  /\ proc' \in [Procs -> ActivationProcess] /\ Others(p)
         /\ proc'[p].pc = pc /\ proc'[p].user = proc[p].user /\ proc'[p].row = proc[p].row
         /\ proc'[p].session = proc[p].session /\ proc'[p].key = proc[p].key
         /\ proc'[p].attempts = proc[p].attempts /\ proc'[p].entitled = proc[p].entitled
<1>0. proc[p] \in ActivationProcess
  BY DEF ActivationTypeOK
<1>1. PICK w : w = [proc[p] EXCEPT !.pc = pc]
  OBVIOUS
<1>2. w \in ActivationProcess
  BY <1>0, <1>1, ProcessTypes DEF PCS
<1>3. proc' = [proc EXCEPT ![p] = w]
  BY <1>1 DEF Proceed, ActivationTypeOK
<1>4. /\ w.pc = pc /\ w.user = proc[p].user /\ w.row = proc[p].row
      /\ w.session = proc[p].session /\ w.key = proc[p].key
      /\ w.attempts = proc[p].attempts /\ w.entitled = proc[p].entitled
  BY <1>0, <1>1 DEF ActivationProcess
<1>5. proc' \in [Procs -> ActivationProcess] /\ proc'[p] = w /\ Others(p)
  BY <1>2, <1>3, Moved
<1>. QED
  BY <1>4, <1>5

\* A request that begins.
LEMMA Begun ==
  ASSUME ActivationTypeOK, NEW p \in Procs, NEW pc \in PCS, NEW u \in Users, NEW a \in Attempts \union {NoCheckout},
         NEW s \in Sessions \union {NoSession}, Begin(p, pc, u, a, s)
  PROVE  /\ proc' \in [Procs -> ActivationProcess] /\ Others(p)
         /\ proc'[p].pc = pc /\ proc'[p].user = u /\ proc'[p].row = a /\ proc'[p].session = s
         /\ proc'[p].key = 0 /\ proc'[p].attempts = 0 /\ proc'[p].entitled = (u \in admins)
<1>1. (u \in admins) \in BOOLEAN
  OBVIOUS
<1>2. PICK w : w = [pc |-> pc, user |-> u, row |-> a, session |-> s,
                    key |-> 0, attempts |-> 0, entitled |-> u \in admins]
  OBVIOUS
<1>3. \A e \in BOOLEAN : [pc |-> pc, user |-> u, row |-> a, session |-> s,
                          key |-> 0, attempts |-> 0, entitled |-> e] \in ActivationProcess
  BY DEF ActivationProcess, PCS
<1>4. /\ w \in ActivationProcess
      /\ w.pc = pc /\ w.user = u /\ w.row = a /\ w.session = s
      /\ w.key = 0 /\ w.attempts = 0 /\ w.entitled = (u \in admins)
  BY <1>1, <1>2, <1>3
<1>5. proc' = [proc EXCEPT ![p] = w]
  BY <1>2 DEF Begin
<1>6. proc' \in [Procs -> ActivationProcess] /\ proc'[p] = w /\ Others(p)
  BY <1>4, <1>5, Moved
<1>. QED
  BY <1>4, <1>6

\* A checkout whose session was opened.
LEMMA Opened ==
  ASSUME ActivationTypeOK, NEW p \in Procs, NEW s \in Sessions,
         proc' = [proc EXCEPT ![p] = [@ EXCEPT !.pc = "promote", !.session = s]]
  PROVE  /\ proc' \in [Procs -> ActivationProcess] /\ Others(p)
         /\ proc'[p].pc = "promote" /\ proc'[p].user = proc[p].user /\ proc'[p].row = proc[p].row
         /\ proc'[p].session = s /\ proc'[p].entitled = proc[p].entitled
<1>0. proc[p] \in ActivationProcess
  BY DEF ActivationTypeOK
<1>1. PICK v : v = [proc[p] EXCEPT !.pc = "promote"]
  OBVIOUS
<1>2. /\ v \in ActivationProcess /\ v.pc = "promote" /\ v.user = proc[p].user /\ v.row = proc[p].row
      /\ v.entitled = proc[p].entitled
  BY <1>0, <1>1 DEF ActivationProcess
<1>3. PICK w : w = [v EXCEPT !.session = s]
  OBVIOUS
<1>4. /\ w \in ActivationProcess /\ w.pc = "promote" /\ w.user = proc[p].user /\ w.row = proc[p].row
      /\ w.session = s /\ w.entitled = proc[p].entitled
  BY <1>2, <1>3 DEF ActivationProcess
<1>5. proc' = [proc EXCEPT ![p] = w]
  BY <1>1, <1>3 DEF ActivationTypeOK
<1>. QED
  BY <1>4, <1>5, Moved

\* A run whose commit was answered.
LEMMA Committed ==
  ASSUME ActivationTypeOK, NEW p \in Procs, NEW k \in Nat,
         proc' = [proc EXCEPT ![p] = [@ EXCEPT !.pc = "finalize", !.key = k]]
  PROVE  /\ proc' \in [Procs -> ActivationProcess] /\ Others(p)
         /\ proc'[p].pc = "finalize" /\ proc'[p].user = proc[p].user
         /\ proc'[p].session = proc[p].session /\ proc'[p].key = k
         /\ proc'[p].attempts = proc[p].attempts /\ proc'[p].entitled = proc[p].entitled
<1>0. proc[p] \in ActivationProcess
  BY DEF ActivationTypeOK
<1>1. PICK v : v = [proc[p] EXCEPT !.pc = "finalize"]
  OBVIOUS
<1>2. /\ v \in ActivationProcess /\ v.pc = "finalize" /\ v.user = proc[p].user /\ v.session = proc[p].session
      /\ v.attempts = proc[p].attempts /\ v.entitled = proc[p].entitled
  BY <1>0, <1>1 DEF ActivationProcess
<1>3. PICK w : w = [v EXCEPT !.key = k]
  OBVIOUS
<1>4. /\ w \in ActivationProcess /\ w.pc = "finalize" /\ w.user = proc[p].user /\ w.session = proc[p].session
      /\ w.key = k /\ w.attempts = proc[p].attempts /\ w.entitled = proc[p].entitled
  BY <1>2, <1>3 DEF ActivationProcess
<1>5. proc' = [proc EXCEPT ![p] = w]
  BY <1>1, <1>3 DEF ActivationTypeOK
<1>. QED
  BY <1>4, <1>5, Moved

\* A run that a worker takes up.
LEMMA Taken ==
  ASSUME ActivationTypeOK, NEW k \in Procs, NEW s \in Sessions, NEW a \in Attempts,
         proc' = [proc EXCEPT ![k] =
                    [pc |-> "preflight", user |-> pend[s].user, row |-> a, session |-> s, key |-> 0,
                     attempts |-> pend[s].attempts + 1, entitled |-> pend[s].user \in admins]]
  PROVE  /\ proc' \in [Procs -> ActivationProcess] /\ Others(k)
         /\ proc'[k].pc = "preflight" /\ proc'[k].user = pend[s].user /\ proc'[k].session = s
         /\ proc'[k].key = 0 /\ proc'[k].attempts = pend[s].attempts + 1
         /\ proc'[k].entitled = (pend[s].user \in admins)
<1>1. (pend[s].user \in admins) \in BOOLEAN
  OBVIOUS
<1>2. PICK w : w = [pc |-> "preflight", user |-> pend[s].user, row |-> a, session |-> s, key |-> 0,
                    attempts |-> pend[s].attempts + 1, entitled |-> pend[s].user \in admins]
  OBVIOUS
<1>3. pend[s].user \in Users \union {NoUser} /\ pend[s].attempts \in Nat
  BY DEF ActivationTypeOK, Pending
<1>4. \A e \in BOOLEAN : [pc |-> "preflight", user |-> pend[s].user, row |-> a, session |-> s, key |-> 0,
                          attempts |-> pend[s].attempts + 1, entitled |-> e] \in ActivationProcess
  BY <1>3 DEF ActivationProcess
<1>5. /\ w \in ActivationProcess
      /\ w.pc = "preflight" /\ w.user = pend[s].user /\ w.session = s
      /\ w.key = 0 /\ w.attempts = pend[s].attempts + 1 /\ w.entitled = (pend[s].user \in admins)
  BY <1>1, <1>2, <1>4
<1>6. proc' = [proc EXCEPT ![k] = w]
  BY <1>2
<1>. QED
  BY <1>5, <1>6, Moved

\* A row whose status is set.
LEMMA StatusSet ==
  ASSUME ActivationTypeOK, NEW a, NEW status, SetStatus(a, status)
  PROVE  /\ \A b \in Attempts : checkout'[b].session = checkout[b].session
         /\ \A b \in Attempts \ {a} : checkout'[b].status = checkout[b].status
         /\ a \in Attempts => checkout'[a].status = status
BY DEF ActivationTypeOK, SetStatus, CheckoutAttempt

\* What is deferred, and what is taken up again.
LEMMA PendingQueued ==
  ASSUME ActivationTypeOK, NEW s, NEW u \in Users \union {NoUser},
         pend' = [pend EXCEPT ![s].status = "pending", ![s].user = u, ![s].queued = @ + 1]
  PROVE  /\ pend' \in [Sessions -> Pending]
         /\ \A t \in Sessions : /\ pend'[t].attempts = pend[t].attempts
                                /\ pend'[t].queued = IF t = s THEN pend[t].queued + 1 ELSE pend[t].queued
<1>0. pend \in [Sessions -> Pending]
  BY DEF ActivationTypeOK
<1>1. PICK f : f = [pend EXCEPT ![s].status = "pending"]
  OBVIOUS
<1>2. f \in [Sessions -> Pending] /\ \A t \in Sessions : f[t].attempts = pend[t].attempts /\ f[t].queued = pend[t].queued
  BY <1>0, <1>1 DEF Pending, UNSETTLED
<1>3. PICK g : g = [f EXCEPT ![s].user = u]
  OBVIOUS
<1>4. g \in [Sessions -> Pending] /\ \A t \in Sessions : g[t].attempts = pend[t].attempts /\ g[t].queued = pend[t].queued
  BY <1>2, <1>3 DEF Pending
<1>5. pend' = [g EXCEPT ![s].queued = @ + 1]
  BY <1>1, <1>3
<1>6. CASE s \in Sessions
  BY <1>4, <1>5, <1>6 DEF Pending
<1>7. CASE s \notin Sessions
  <2>1. pend' = g
    BY <1>4, <1>5, <1>7
  <2>. QED
    BY <1>4, <1>7, <2>1
<1>. QED
  BY <1>6, <1>7

\* A worker takes up what was deferred: one run more.
LEMMA PendingTaken ==
  ASSUME ActivationTypeOK, NEW s \in Sessions,
         pend' = [pend EXCEPT ![s].status = "in_progress", ![s].attempts = @ + 1]
  PROVE  /\ pend' \in [Sessions -> Pending]
         /\ \A t \in Sessions : /\ pend'[t].attempts = IF t = s THEN pend[t].attempts + 1 ELSE pend[t].attempts
                                /\ pend'[t].queued = pend[t].queued
<1>0. pend \in [Sessions -> Pending]
  BY DEF ActivationTypeOK
<1>1. PICK f : f = [pend EXCEPT ![s].status = "in_progress"]
  OBVIOUS
<1>2. f \in [Sessions -> Pending] /\ \A t \in Sessions : f[t].attempts = pend[t].attempts /\ f[t].queued = pend[t].queued
  BY <1>0, <1>1 DEF Pending, UNSETTLED
<1>3. pend' = [f EXCEPT ![s].attempts = @ + 1]
  BY <1>1
<1>. QED
  BY <1>2, <1>3 DEF Pending

\* A task that is queued.
LEMMA TaskQueued ==
  ASSUME ActivationTypeOK, NEW s, runsQueued' = [runsQueued EXCEPT ![s] = @ + 1]
  PROVE  /\ runsQueued' \in [Sessions -> Nat]
         /\ \A t \in Sessions : runsQueued'[t] = IF t = s THEN runsQueued[t] + 1 ELSE runsQueued[t]
<1>1. runsQueued \in [Sessions -> Nat]
  BY DEF ActivationTypeOK
<1>2. CASE s \in Sessions
  BY <1>1, <1>2
<1>3. CASE s \notin Sessions
  <2>1. runsQueued' = runsQueued
    BY <1>1, <1>3
  <2>. QED
    BY <1>1, <1>3, <2>1
<1>. QED
  BY <1>2, <1>3

\* A run that ends, and what it leaves of what was deferred.
LEMMA Settled ==
  ASSUME ActivationTypeOK, NEW p \in Procs, NEW status \in {"rejected_unauthorized", "provisioning_failed", "completed", "pending"},
         SettlePending(p, status)
  PROVE  /\ pend' \in [Sessions -> Pending]
         /\ \A s \in Sessions : /\ pend'[s].attempts = pend[s].attempts /\ pend'[s].queued = pend[s].queued
                                /\ pend'[s].user = pend[s].user
         /\ Done(p)
<1>1. PICK x : x = proc[p].session
  OBVIOUS
<1>2. pend' = IF p \in Workers THEN [pend EXCEPT ![x].status = status] ELSE pend
  BY <1>1 DEF SettlePending
<1>3. pend \in [Sessions -> Pending]
  BY DEF ActivationTypeOK
<1>4. /\ pend' \in [Sessions -> Pending]
      /\ \A s \in Sessions : /\ pend'[s].attempts = pend[s].attempts /\ pend'[s].queued = pend[s].queued
                             /\ pend'[s].user = pend[s].user
  BY <1>2, <1>3 DEF Pending, UNSETTLED
<1>. QED
  BY <1>4 DEF SettlePending

\* A run that is deferred.
LEMMA Deferred ==
  ASSUME ActivationTypeOK, NEW p \in Procs, Defer(p)
  PROVE  /\ proc' \in [Procs -> ActivationProcess] /\ Others(p)
         /\ proc'[p].pc = (IF p \in Workers THEN "reschedule" ELSE "queue") /\ proc'[p].user = proc[p].user
         /\ proc'[p].session = proc[p].session
         /\ proc'[p].attempts = proc[p].attempts /\ proc'[p].entitled = proc[p].entitled
<1>1. PICK pc : pc = IF p \in Workers THEN "reschedule" ELSE "queue"
  OBVIOUS
<1>2. pc \in PCS
  BY <1>1 DEF PCS
<1>3. Proceed(p, pc)
  BY <1>1 DEF Defer
<1>. QED
  BY <1>1, <1>2, <1>3, Proceeded

\* A call that fails.
LEMMA Failed ==
  ASSUME ActivationTypeOK, NEW p \in Procs, FailedCall(p)
  PROVE  /\ proc' \in [Procs -> ActivationProcess] /\ Others(p) /\ pend' = pend
         /\ bounded' \in [{"outages", "crashes", "changes"} -> Nat] /\ bounded'["crashes"] = bounded["crashes"]
         /\ Defer(p) \/ (p \in Web /\ Done(p))
<1>1. /\ bounded' \in [{"outages", "crashes", "changes"} -> Nat]
      /\ bounded'["crashes"] = bounded["crashes"]
  BY RowTypes DEF FailedCall
<1>2. pend' = pend /\ (Defer(p) \/ (p \in Web /\ Done(p)))
  BY DEF FailedCall
<1>3. proc' \in [Procs -> ActivationProcess] /\ Others(p)
  BY <1>2, Deferred, Ended
<1>. QED
  BY <1>1, <1>2, <1>3

\* An activation that is stored.
LEMMA Stored ==
  ASSUME ActivationTypeOK, NEW p \in Procs, NEW k \in Nat, Store(p, k)
  PROVE  /\ sub' = [status |-> "active", key |-> k] /\ sub' \in Subscription
         /\ checkout' \in [Attempts -> CheckoutAttempt]
         /\ SetStatus(proc[p].row, "activated")
         /\ proc' \in [Procs -> ActivationProcess] /\ Others(p)
         /\ \/ p \in Workers /\ Proceed(p, "complete")
            \/ p \notin Workers /\ Done(p)
<1>1. /\ sub' = [status |-> "active", key |-> k] /\ SetStatus(proc[p].row, "activated")
      /\ \/ p \in Workers /\ Proceed(p, "complete")
         \/ p \notin Workers /\ Done(p)
  BY DEF Store
<1>2. sub' \in Subscription
  BY <1>1 DEF Subscription
<1>3. checkout' \in [Attempts -> CheckoutAttempt]
  BY <1>1, RowTypes
<1>4. "complete" \in PCS
  BY DEF PCS
<1>5. proc' \in [Procs -> ActivationProcess] /\ Others(p)
  BY <1>1, <1>4, Proceeded, Ended
<1>. QED
  BY <1>1, <1>2, <1>3, <1>5

-----------------------------------------------------------------------------
(* Every step keeps the types. *)

\* Rows, requests, runs and replies keep their types.
LEMMA ActivationTypesKept ==
  ASSUME ActivationTypeOK, [ActivationNext]_ActivationVars
  PROVE  ActivationTypeOK'
<1>. DEFINE Rows == checkout' \in [Attempts -> CheckoutAttempt]
            Runs == proc' \in [Procs -> ActivationProcess]
            Events == bounded' \in [{"outages", "crashes", "changes"} -> Nat]
<1>0. PCS = {"idle", "checkout", "promote", "discard", "flip", "preflight", "commit",
             "finalize", "queue", "enqueue", "reschedule", "complete"}
  BY DEF PCS
<1>. USE <1>0
<1>1. ASSUME NEW p \in Web, NEW u \in Users, Checkout(p, u)
      PROVE  ActivationTypeOK'
  <2>0. p \in Procs
    BY DEF Procs
  <2>1. PICK a \in Attempts : SetStatus(a, "creating") /\ Begin(p, "checkout", u, a, NoSession)
    BY <1>1 DEF Checkout, Unused
  <2>2. Rows
    BY <2>1, RowTypes DEF IN_PROGRESS
  <2>3. Runs
    BY <2>0, <2>1, Begun
  <2>. QED
    BY <1>1, <2>2, <2>3 DEF Checkout, ActivationTypeOK
<1>2. ASSUME NEW p \in Web, CheckoutReplies(p)
      PROVE  ActivationTypeOK'
  <2>0. p \in Procs
    BY DEF Procs
  <2>1. Rows
    BY <1>2, RowTypes DEF CheckoutReplies, ActivationTypeOK
  <2>2. Runs
    BY <1>2, <2>0, Opened, Ended DEF CheckoutReplies, UnusedSessions
  <2>3. Events
    BY <1>2, RowTypes DEF CheckoutReplies, ActivationTypeOK
  <2>4. remote' \in [Sessions -> {"none", "open", "closed", "paid", "activated"}]
    BY <1>2 DEF CheckoutReplies, ActivationTypeOK
  <2>. QED
    BY <1>2, <2>1, <2>2, <2>3, <2>4 DEF CheckoutReplies, ActivationTypeOK
<1>3. ASSUME NEW p \in Web, CheckoutPromotes(p)
      PROVE  ActivationTypeOK'
  <2>0. p \in Procs
    BY DEF Procs
  <2>1. proc[p] \in ActivationProcess
    BY <2>0 DEF ActivationTypeOK
  <2>2. PICK row : row = [status |-> "open", session |-> proc[p].session]
    OBVIOUS
  <2>3. row \in CheckoutAttempt
    BY <2>1, <2>2 DEF CheckoutAttempt, ActivationProcess, IN_PROGRESS
  <2>4. checkout' = [checkout EXCEPT ![proc[p].row] = row] \/ checkout' = checkout
    BY <1>3, <2>2 DEF CheckoutPromotes
  <2>5. Rows
    BY <2>3, <2>4 DEF ActivationTypeOK
  <2>6. Runs
    BY <1>3, <2>0, Ended DEF CheckoutPromotes
  <2>. QED
    BY <1>3, <2>5, <2>6 DEF CheckoutPromotes, ActivationTypeOK
<1>4. ASSUME NEW p \in Web, NEW u \in Users, Discard(p, u)
      PROVE  ActivationTypeOK'
  <2>0. p \in Procs
    BY DEF Procs
  <2>1. PICK a \in Attempts \union {NoCheckout}, s \in Sessions \union {NoSession} : Begin(p, "discard", u, a, s)
    BY <1>4 DEF Discard, InProgress, ActivationTypeOK, CheckoutAttempt
  <2>2. Runs
    BY <2>0, <2>1, Begun
  <2>. QED
    BY <1>4, <2>2 DEF Discard, ActivationTypeOK
<1>5. ASSUME NEW p \in Web, DiscardReplies(p)
      PROVE  ActivationTypeOK'
  <2>0. p \in Procs
    BY DEF Procs
  <2>1. Runs
    BY <1>5, <2>0, Proceeded, Ended DEF DiscardReplies
  <2>2. Events
    BY <1>5, RowTypes DEF DiscardReplies, ActivationTypeOK
  <2>3. remote' \in [Sessions -> {"none", "open", "closed", "paid", "activated"}]
    BY <1>5 DEF DiscardReplies, ActivationTypeOK
  <2>. QED
    BY <1>5, <2>1, <2>2, <2>3 DEF DiscardReplies, ActivationTypeOK
<1>6. ASSUME NEW p \in Web, DiscardFlips(p)
      PROVE  ActivationTypeOK'
  <2>0. p \in Procs
    BY DEF Procs
  <2>1. Rows
    BY <1>6, RowTypes DEF DiscardFlips, ActivationTypeOK
  <2>2. Runs
    BY <1>6, <2>0, Ended DEF DiscardFlips
  <2>. QED
    BY <1>6, <2>1, <2>2 DEF DiscardFlips, ActivationTypeOK

<1>7. ASSUME NEW p \in Web, NEW u \in Users, NEW s \in Sessions, Activate(p, u, s)
      PROVE  ActivationTypeOK'
  <2>0. p \in Procs
    BY DEF Procs
  <2>1. PICK a \in Attempts : Begin(p, "preflight", u, a, s)
    BY <1>7 DEF Activate, RowsOf
  <2>2. Runs
    BY <2>0, <2>1, Begun
  <2>. QED
    BY <1>7, <2>2 DEF Activate, ActivationTypeOK
<1>8. ASSUME NEW p \in Web, NEW u \in Users, NEW s \in Sessions, Recover(p, u, s)
      PROVE  ActivationTypeOK'
  <2>0. p \in Procs
    BY DEF Procs
  <2>1. PICK a \in Attempts : Begin(p, "preflight", u, a, s)
    BY <1>8 DEF Recover, RowsOf, Unused
  <2>2. Runs
    BY <2>0, <2>1, Begun
  <2>3. Rows
    <3>1. CASE \E b \in RowsOf(s) : SetStatus(b, "open")
      BY <3>1, RowTypes DEF IN_PROGRESS
    <3>2. CASE \E b \in Unused :
                 checkout' = [c \in Attempts |-> IF c = b THEN [status |-> "open", session |-> s]
                                                 ELSE IF c \in InProgress THEN [checkout[c] EXCEPT !.status = "expired"]
                                                 ELSE checkout[c]]
      <4>1. [status |-> "open", session |-> s] \in CheckoutAttempt
        BY DEF CheckoutAttempt, IN_PROGRESS
      <4>2. \A c \in Attempts : [checkout[c] EXCEPT !.status = "expired"] \in CheckoutAttempt
        BY DEF ActivationTypeOK, CheckoutAttempt
      <4>3. \A c \in Attempts : checkout[c] \in CheckoutAttempt
        BY DEF ActivationTypeOK
      <4>. QED
        BY <3>2, <4>1, <4>2, <4>3
    <3>. QED
      BY <1>8, <3>1, <3>2 DEF Recover
  <2>. QED
    BY <1>8, <2>2, <2>3 DEF Recover, ActivationTypeOK
<1>9. ASSUME NEW p \in Procs, Preflight(p)
      PROVE  ActivationTypeOK'
  <2>1. Runs
    BY <1>9, Proceeded, Settled, Ended, Failed DEF Preflight
  <2>2. pend' \in [Sessions -> Pending]
    BY <1>9, Settled, Failed DEF Preflight, ActivationTypeOK
  <2>3. Events
    BY <1>9, Failed DEF Preflight, ActivationTypeOK
  <2>. QED
    BY <1>9, <2>1, <2>2, <2>3 DEF Preflight, ActivationTypeOK
<1>10. ASSUME NEW p \in Procs, Commit(p)
      PROVE  ActivationTypeOK'
  <2>1. PICK s : s = proc[p].session
    OBVIOUS
  <2>2. PICK minted : minted = IF remote[s] = "paid" THEN subscriber.key + 1 ELSE 0
    OBVIOUS
  <2>3. minted \in Nat
    BY <2>2 DEF ActivationTypeOK, Subscription
  <2>4. /\ remote' = [remote EXCEPT ![s] = "activated"] \/ remote' = remote
        /\ subscriber' = (IF minted = 0 THEN subscriber ELSE [status |-> "active", key |-> minted]) \/ subscriber' = subscriber
        /\ \/ proc' = [proc EXCEPT ![p] = [@ EXCEPT !.pc = "finalize", !.key = minted]] /\ UNCHANGED <<pend, bounded>>
           \/ FailedCall(p)
           \/ Spend("outages") /\ SettlePending(p, "provisioning_failed")
    BY <1>10, <2>1, <2>2 DEF Commit
  <2>5. remote' \in [Sessions -> {"none", "open", "closed", "paid", "activated"}]
    BY <2>4 DEF ActivationTypeOK
  <2>6. subscriber' \in Subscription
    BY <2>3, <2>4 DEF ActivationTypeOK, Subscription
  <2>7. Runs
    BY <2>3, <2>4, Committed, Failed, Settled, Ended
  <2>8. pend' \in [Sessions -> Pending]
    BY <2>4, Failed, Settled DEF ActivationTypeOK
  <2>9. Events
    BY <2>4, Failed, RowTypes DEF ActivationTypeOK
  <2>10. crossed' \in BOOLEAN
    BY <1>10 DEF Commit, ActivationTypeOK
  <2>. QED
    BY <1>10, <2>5, <2>6, <2>7, <2>8, <2>9, <2>10 DEF Commit, ActivationTypeOK
<1>11. ASSUME NEW p \in Procs, Finalize(p)
      PROVE  ActivationTypeOK'
  <2>1. /\ proc[p].key \in Nat /\ sub.key \in Nat /\ subscriber.key + 1 \in Nat
        /\ [subscriber EXCEPT !.key = @ + 1] \in Subscription
    BY DEF ActivationTypeOK, ActivationProcess, Subscription
  <2>2. CASE StoreMinted(p) \/ KeepStored(p)
    <3>1. sub' \in Subscription /\ Rows /\ Runs
      BY <2>1, <2>2, Stored DEF StoreMinted, KeepStored
    <3>. QED
      BY <1>11, <2>2, <3>1 DEF Finalize, StoreMinted, KeepStored, ActivationTypeOK
  <2>3. CASE Rotate(p)
    <3>1. sub' \in Subscription /\ Rows /\ Runs
      BY <2>1, <2>3, Stored, Deferred DEF Rotate, ActivationTypeOK
    <3>2. subscriber' \in Subscription
      BY <2>1, <2>3 DEF Rotate, ActivationTypeOK
    <3>3. Events
      BY <2>3, RowTypes DEF Rotate, ActivationTypeOK
    <3>. QED
      BY <1>11, <3>1, <3>2, <3>3 DEF Finalize, ActivationTypeOK
  <2>. QED
    BY <1>11, <2>2, <2>3 DEF Finalize
<1>12. ASSUME NEW p \in Web, Queue(p)
      PROVE  ActivationTypeOK'
  <2>0. p \in Procs
    BY DEF Procs
  <2>1. PICK s : s = proc[p].session
    OBVIOUS
  <2>2. PICK u \in Users \union {NoUser} : u = proc[p].user
    BY <2>0 DEF ActivationTypeOK, ActivationProcess
  <2>3. \/ pend' = [pend EXCEPT ![s].status = "pending", ![s].user = u, ![s].queued = @ + 1]
        \/ pend' = pend
    BY <1>12, <2>1, <2>2 DEF Queue
  <2>5. pend' \in [Sessions -> Pending]
    BY <2>3, PendingQueued DEF ActivationTypeOK
  <2>6. Runs
    BY <1>12, <2>0, Proceeded, Ended DEF Queue
  <2>. QED
    BY <1>12, <2>5, <2>6 DEF Queue, ActivationTypeOK
<1>13. ASSUME NEW p \in Web, Enqueue(p)
      PROVE  ActivationTypeOK'
  <2>0. p \in Procs
    BY DEF Procs
  <2>1. Runs
    BY <1>13, <2>0, Ended DEF Enqueue
  <2>2. PICK s : s = proc[p].session
    OBVIOUS
  <2>3. runsQueued' = [runsQueued EXCEPT ![s] = @ + 1]
    BY <1>13, <2>2 DEF Enqueue
  <2>4. runsQueued' \in [Sessions -> Nat]
    BY <2>3, TaskQueued DEF ActivationTypeOK
  <2>. QED
    BY <1>13, <2>1, <2>4 DEF Enqueue, ActivationTypeOK
<1>14. ASSUME NEW k \in Workers, NEW s \in Sessions, Take(k, s)
      PROVE  ActivationTypeOK'
  <2>0. k \in Procs
    BY DEF Procs
  <2>1. Runs
    BY <1>14, <2>0, Taken DEF Take, RowsOf, ActivationTypeOK
  <2>2. runsQueued' \in [Sessions -> Nat]
    BY <1>14 DEF Take, ActivationTypeOK
  <2>4. pend' \in [Sessions -> Pending]
    BY <1>14, PendingTaken DEF Take, ActivationTypeOK
  <2>. QED
    BY <1>14, <2>1, <2>2, <2>4 DEF Take, ActivationTypeOK
<1>15. ASSUME NEW k \in Workers, Complete(k)
      PROVE  ActivationTypeOK'
  <2>0. k \in Procs
    BY DEF Procs
  <2>1. Runs /\ pend' \in [Sessions -> Pending]
    BY <1>15, <2>0, Settled, Ended DEF Complete
  <2>. QED
    BY <1>15, <2>1 DEF Complete, ActivationTypeOK
<1>16. ASSUME NEW k \in Workers, Reschedule(k)
      PROVE  ActivationTypeOK'
  <2>0. k \in Procs
    BY DEF Procs
  <2>1. Runs /\ pend' \in [Sessions -> Pending]
    BY <1>16, <2>0, Settled, Ended DEF Reschedule
  <2>2. runsQueued' \in [Sessions -> Nat]
    BY <1>16 DEF Reschedule, ActivationTypeOK
  <2>. QED
    BY <1>16, <2>1, <2>2 DEF Reschedule, ActivationTypeOK
<1>17. ASSUME NEW p \in Procs, ProcessDies(p)
      PROVE  ActivationTypeOK'
  <2>1. Runs
    BY <1>17, Ended DEF ProcessDies
  <2>2. PICK s : s = proc[p].session
    OBVIOUS
  <2>3. runsQueued' = IF p \in Workers THEN [runsQueued EXCEPT ![s] = @ + 1] ELSE runsQueued
    BY <1>17, <2>2 DEF ProcessDies
  <2>4. runsQueued' \in [Sessions -> Nat]
    BY <2>3, TaskQueued DEF ActivationTypeOK
  <2>5. Events
    BY <1>17, RowTypes DEF ProcessDies
  <2>. QED
    BY <1>17, <2>1, <2>4, <2>5 DEF ProcessDies, ActivationTypeOK
<1>18. ASSUME NEW r \in Reconcilers, ReconcileStep(r)
      PROVE  ActivationTypeOK'
  <2>1. CASE ReconcileLoads(r)
    BY <2>1 DEF ReconcileLoads, ActivationTypeOK, Reconcile, Subscription
  <2>2. CASE ReconcileAsks(r)
    <3>1. recon' \in [Reconcilers -> Reconcile]
      <4>1. PICK x : x = [recon[r] EXCEPT !.pc = "answered"]
        OBVIOUS
      <4>2. x \in Reconcile
        BY <4>1 DEF Reconcile, ActivationTypeOK
      <4>3. PICK y : y = [x EXCEPT !.answer = subscriber.status]
        OBVIOUS
      <4>4. y \in Reconcile
        BY <4>2, <4>3 DEF Reconcile, ActivationTypeOK, Subscription
      <4>5. NotReconciling \in Reconcile
        BY DEF NotReconciling, Reconcile
      <4>6. recon' = [recon EXCEPT ![r] = y] \/ recon' = [recon EXCEPT ![r] = NotReconciling]
        BY <2>2, <4>1, <4>3 DEF ReconcileAsks
      <4>. QED
        BY <4>4, <4>5, <4>6 DEF ActivationTypeOK
    <3>2. Events
      BY <2>2, RowTypes DEF ReconcileAsks, ActivationTypeOK
    <3>. QED
      BY <2>2, <3>1, <3>2 DEF ReconcileAsks, ActivationTypeOK
  <2>3. CASE ReconcileSaves(r)
    <3>1. recon' \in [Reconcilers -> Reconcile]
      BY <2>3 DEF ReconcileSaves, ActivationTypeOK, Reconcile, NotReconciling
    <3>2. sub' \in Subscription
      BY <2>3 DEF ReconcileSaves, ActivationTypeOK, Reconcile, Subscription
    <3>. QED
      BY <2>3, <3>1, <3>2 DEF ReconcileSaves, ActivationTypeOK
  <2>. QED
    BY <1>18, <2>1, <2>2, <2>3 DEF ReconcileStep
<1>19. ASSUME NEW s \in Sessions, Pay(s)
      PROVE  ActivationTypeOK'
  BY <1>19 DEF Pay, ActivationTypeOK
<1>20. ASSUME Bill
      PROVE  ActivationTypeOK'
  <2>1. subscriber' \in Subscription
    BY <1>20 DEF Bill, ActivationTypeOK, Subscription
  <2>2. Events
    BY <1>20, RowTypes DEF Bill
  <2>. QED
    BY <1>20, <2>1, <2>2 DEF Bill, ActivationTypeOK
<1>21. ASSUME NEW u \in Users, ChangeRole(u)
      PROVE  ActivationTypeOK'
  <2>1. \A w \in ActivationProcess : [w EXCEPT !.entitled = TRUE] \in ActivationProcess
    BY DEF ActivationProcess
  <2>2. Runs
    BY <1>21, <2>1 DEF ChangeRole, ActivationTypeOK
  <2>3. Events
    BY <1>21, RowTypes DEF ChangeRole
  <2>4. admins' \subseteq Users
    BY <1>21 DEF ChangeRole, ActivationTypeOK
  <2>. QED
    BY <1>21, <2>2, <2>3, <2>4 DEF ChangeRole, ActivationTypeOK
<1>22. CASE UNCHANGED ActivationVars
  BY <1>22 DEF ActivationVars, ActivationTypeOK
<1>. HIDE <1>0
<1>. QED
  BY <1>1, <1>2, <1>3, <1>4, <1>5, <1>6, <1>7, <1>8, <1>9, <1>10, <1>11, <1>12, <1>13, <1>14, <1>15, <1>16,
     <1>17, <1>18, <1>19, <1>20, <1>21, <1>22 DEF ActivationNext, Request, Run, Call, Procs

-----------------------------------------------------------------------------
(* The remote service *)

\* The steps that reach the remote service.
LEMMA RemoteSteps ==
  ASSUME [ActivationNext]_ActivationVars
  PROVE  \/ UNCHANGED <<remote, subscriber>>
         \/ \E p \in Web : CheckoutReplies(p) \/ DiscardReplies(p)
         \/ \E p \in Procs : Commit(p) \/ Finalize(p)
         \/ \E s \in Sessions : Pay(s)
         \/ Bill
BY ZenonT(60) DEF ActivationNext, ActivationVars, Request, Run, Call, ReconcileStep, Procs,
       CheckoutPromotes, DiscardFlips, Preflight, Queue, Enqueue, Checkout, Discard, Activate, Recover,
       Complete, Reschedule, Take, ProcessDies, ReconcileLoads, ReconcileAsks, ReconcileSaves, ChangeRole

\* A session is opened once, and one that was paid for stays so; keys do not go.
RemoteGoesOn ==
  /\ OneSold'
  /\ \A s \in Sessions : /\ remote[s] # "none" => remote'[s] # "none"
                         /\ remote[s] = "activated" => remote'[s] = "activated"
                         /\ remote[s] \in {"paid", "activated"} => remote'[s] \in {"paid", "activated"}
  /\ subscriber.key # 0 => subscriber'.key # 0

\* The service sells one session: it opens one only if none is open or sold.
LEMMA RemoteStepsGoOn ==
  ASSUME ActivationTypeOK, ActivationInv, [ActivationNext]_ActivationVars
  PROVE  RemoteGoesOn
<1>. USE DEF RemoteGoesOn, OneSold, Sold
<1>0. OneSold /\ remote \in [Sessions -> {"none", "open", "closed", "paid", "activated"}]
  BY DEF ActivationInv, ActivationTypeOK
<1>1. CASE UNCHANGED <<remote, subscriber>>
  BY <1>0, <1>1
<1>2. ASSUME NEW p \in Web, CheckoutReplies(p)
      PROVE  RemoteGoesOn
  <2>1. \/ remote' = remote
        \/ Eligible /\ \E s \in Sessions : remote[s] = "none" /\ remote' = [remote EXCEPT ![s] = "open"]
    BY <1>2 DEF CheckoutReplies, UnusedSessions
  <2>2. subscriber' = subscriber
    BY <1>2 DEF CheckoutReplies
  <2>. QED
    BY <1>0, <2>1, <2>2 DEF Eligible
<1>3. ASSUME NEW p \in Web, DiscardReplies(p)
      PROVE  RemoteGoesOn
  <2>1. \/ remote' = remote
        \/ \E Meant \in SUBSET Sessions :
             remote' = [s \in Sessions |-> IF s \in Meant /\ remote[s] = "open" THEN "closed" ELSE remote[s]]
    <3>1. PICK Meant : Meant = IF proc[p].session = NoSession THEN Sessions ELSE {proc[p].session}
      OBVIOUS
    <3>2. \/ remote' = remote
          \/ remote' = [s \in Sessions |-> IF s \in Meant /\ remote[s] = "open" THEN "closed" ELSE remote[s]]
      BY <1>3, <3>1 DEF DiscardReplies
    <3>3. remote' = [s \in Sessions |-> IF s \in Meant /\ remote[s] = "open" THEN "closed" ELSE remote[s]]
          => remote' = [s \in Sessions |-> IF s \in Meant \intersect Sessions /\ remote[s] = "open" THEN "closed" ELSE remote[s]]
      OBVIOUS
    <3>4. Meant \intersect Sessions \in SUBSET Sessions
      OBVIOUS
    <3>. QED
      BY <3>2, <3>3, <3>4
  <2>2. subscriber' = subscriber
    BY <1>3 DEF DiscardReplies
  <2>. QED
    BY <1>0, <2>1, <2>2
<1>4. ASSUME NEW p \in Procs, Commit(p)
      PROVE  RemoteGoesOn
  <2>1. PICK s \in Sessions : s = proc[p].session /\ remote[s] \in {"paid", "activated"}
    BY <1>4 DEF ActivationInv, ProcessFits, Commit
  <2>2. remote' = [remote EXCEPT ![s] = "activated"] \/ remote' = remote
    BY <1>4, <2>1 DEF Commit
  <2>3. subscriber' = subscriber \/ subscriber' = [status |-> "active", key |-> subscriber.key + 1]
    BY <1>4 DEF Commit
  <2>4. subscriber.key \in Nat
    BY DEF ActivationTypeOK, Subscription
  <2>. QED
    BY <1>0, <2>1, <2>2, <2>3, <2>4
<1>5. ASSUME NEW p \in Procs, Finalize(p)
      PROVE  RemoteGoesOn
  <2>1. remote' = remote
    BY <1>5 DEF Finalize
  <2>2. subscriber' = subscriber \/ subscriber' = [subscriber EXCEPT !.key = @ + 1]
    BY <1>5 DEF Finalize, StoreMinted, KeepStored, Rotate
  <2>. QED
    BY <1>0, <2>1, <2>2 DEF ActivationTypeOK, Subscription
<1>6. ASSUME NEW s \in Sessions, Pay(s)
      PROVE  RemoteGoesOn
  BY <1>0, <1>6 DEF Pay
<1>7. ASSUME Bill
      PROVE  RemoteGoesOn
  BY <1>0, <1>7 DEF Bill, ActivationTypeOK, Subscription
<1>. HIDE DEF RemoteGoesOn
<1>. QED
  BY <1>1, <1>2, <1>3, <1>4, <1>5, <1>6, <1>7, RemoteSteps

-----------------------------------------------------------------------------
(* Requests, runs and keys *)

\* A process that does not move.
LEMMA StayingFits ==
  ASSUME ActivationTypeOK, RemoteGoesOn, NEW q \in Procs, ProcessFits(q), proc'[q] = proc[q], admins' \subseteq admins
  PROVE  ProcessFits(q)'
BY DEF ProcessFits, RemoteGoesOn

\* One that ends.
LEMMA EndingFits ==
  ASSUME ActivationTypeOK, ActivationTypeOK', NEW p \in Procs, Done(p)
  PROVE  ProcessFits(p)'
<1>1. proc'[p].pc = "idle" /\ proc'[p].user = NoUser
  BY Ended
<1>2. NoUser \notin admins'
  BY ActivationAssumption DEF ActivationTypeOK
<1>. QED
  BY <1>1, <1>2 DEF ProcessFits

\* One that goes on without a call to make.
LEMMA GoingOnFits ==
  ASSUME NEW p \in Procs, ProcessFits(p), admins' = admins,
         proc'[p].pc \notin {"promote", "preflight", "commit", "finalize"},
         proc'[p].user = proc[p].user, proc'[p].entitled = proc[p].entitled
  PROVE  ProcessFits(p)'
BY DEF ProcessFits

\* The process that moves is the one to look at.
LEMMA MovingFits ==
  ASSUME ActivationTypeOK, ActivationInv, RemoteGoesOn, admins' = admins, NEW p \in Procs, Others(p), ProcessFits(p)'
  PROVE  \A q \in Procs : ProcessFits(q)'
<1>1. ASSUME NEW q \in Procs, q # p
      PROVE  ProcessFits(q)'
  <2>1. ProcessFits(q) /\ proc'[q] = proc[q]
    BY <1>1 DEF ActivationInv, Others
  <2>. QED
    BY <2>1, StayingFits
<1>. QED
  BY <1>1

\* Every step leaves the processes with what they need to know.
LEMMA ProcessesKept ==
  ASSUME ActivationTypeOK, ActivationInv, [ActivationNext]_ActivationVars, ActivationTypeOK', RemoteGoesOn
  PROVE  \A p \in Procs : ProcessFits(p)'
<1>. DEFINE Fit == \A q \in Procs : ProcessFits(q)'
<1>0. \A p \in Procs : ProcessFits(p)
  BY DEF ActivationInv
<1>. HIDE DEF Fit
<1>1. ASSUME NEW p \in Procs, Others(p), ProcessFits(p)', admins' = admins
      PROVE  Fit
  BY <1>1, MovingFits DEF Fit
<1>2. ASSUME NEW p \in Procs, Done(p), admins' = admins
      PROVE  Fit
  BY <1>1, <1>2, Ended, EndingFits
<1>3. ASSUME NEW p \in Procs, NEW pc \in PCS, Proceed(p, pc), pc \notin {"promote", "preflight", "commit", "finalize"},
             admins' = admins
      PROVE  Fit
  BY <1>0, <1>1, <1>3, Proceeded, GoingOnFits
<1>4. ASSUME NEW p \in Procs, NEW pc \in PCS, NEW u \in Users, NEW a \in Attempts \union {NoCheckout},
             NEW s \in Sessions \union {NoSession}, Begin(p, pc, u, a, s), admins' = admins,
             pc \notin {"promote", "commit", "finalize"}, pc = "preflight" => s \in Sessions
      PROVE  Fit
  <2>1. /\ Others(p) /\ proc'[p].pc = pc /\ proc'[p].user = u /\ proc'[p].session = s
        /\ proc'[p].entitled = (u \in admins)
    BY <1>4, Begun
  <2>2. ProcessFits(p)'
    BY <1>4, <2>1 DEF ProcessFits
  <2>. QED
    BY <1>1, <1>4, <2>1, <2>2
<1>5. ASSUME NEW p \in Procs, Defer(p), admins' = admins
      PROVE  Fit
  BY <1>0, <1>1, <1>5, Deferred, GoingOnFits
<1>6. ASSUME NEW p \in Procs, FailedCall(p), admins' = admins
      PROVE  Fit
  BY <1>2, <1>5, <1>6, Failed
<1>7. ASSUME NEW p \in Procs, NEW status, SettlePending(p, status), admins' = admins
      PROVE  Fit
  BY <1>2, <1>7 DEF SettlePending
<1>8. ASSUME NEW p \in Procs, NEW k \in Nat, Store(p, k), admins' = admins
      PROVE  Fit
  BY <1>2, <1>3, <1>8, Stored DEF PCS
<1>9. ASSUME UNCHANGED <<proc, admins>>
      PROVE  Fit
  BY <1>0, <1>9, StayingFits DEF Fit
<1>10. Procs = Web \union Workers
  BY DEF Procs
<1>11. ASSUME NEW p \in Web, NEW u \in Users, Checkout(p, u)
      PROVE  Fit
  BY <1>4, <1>10, <1>11 DEF Checkout, Unused, PCS
<1>12. ASSUME NEW p \in Web, CheckoutReplies(p)
      PROVE  Fit
  <2>1. CASE Done(p)
    BY <1>2, <1>10, <1>12, <2>1 DEF CheckoutReplies
  <2>2. ASSUME NEW s \in UnusedSessions, remote' = [remote EXCEPT ![s] = "open"],
               proc' = [proc EXCEPT ![p] = [@ EXCEPT !.pc = "promote", !.session = s]]
        PROVE  Fit
    <3>1. s \in Sessions /\ remote'[s] = "open"
      BY <2>2 DEF UnusedSessions, ActivationTypeOK
    <3>2. /\ Others(p) /\ proc'[p].pc = "promote" /\ proc'[p].session = s
          /\ proc'[p].user = proc[p].user /\ proc'[p].entitled = proc[p].entitled
      BY <1>10, <2>2, <3>1, Opened
    <3>3. admins' = admins
      BY <1>12 DEF CheckoutReplies
    <3>4. ProcessFits(p)'
      BY <1>0, <1>10, <3>1, <3>2, <3>3 DEF ProcessFits
    <3>. QED
      BY <1>1, <1>10, <3>2, <3>3, <3>4
  <2>. QED
    BY <1>12, <2>1, <2>2 DEF CheckoutReplies
<1>13. ASSUME NEW p \in Web, CheckoutPromotes(p)
      PROVE  Fit
  BY <1>2, <1>10, <1>13 DEF CheckoutPromotes
<1>14. ASSUME NEW p \in Web, NEW u \in Users, Discard(p, u)
      PROVE  Fit
  <2>1. PICK a \in Attempts \union {NoCheckout}, s \in Sessions \union {NoSession} : Begin(p, "discard", u, a, s)
    BY <1>14 DEF Discard, InProgress, ActivationTypeOK, CheckoutAttempt
  <2>. QED
    BY <1>4, <1>10, <1>14, <2>1 DEF Discard, PCS
<1>15. ASSUME NEW p \in Web, DiscardReplies(p)
      PROVE  Fit
  BY <1>2, <1>3, <1>10, <1>15 DEF DiscardReplies, PCS
<1>16. ASSUME NEW p \in Web, DiscardFlips(p)
      PROVE  Fit
  BY <1>2, <1>10, <1>16 DEF DiscardFlips
<1>17. ASSUME NEW p \in Web, NEW u \in Users, NEW s \in Sessions, Activate(p, u, s)
      PROVE  Fit
  BY <1>4, <1>10, <1>17 DEF Activate, RowsOf, PCS
<1>18. ASSUME NEW p \in Web, NEW u \in Users, NEW s \in Sessions, Recover(p, u, s)
      PROVE  Fit
  <2>1. PICK a \in Attempts : Begin(p, "preflight", u, a, s)
    BY <1>18 DEF Recover, RowsOf, Unused
  <2>. QED
    BY <1>4, <1>10, <1>18, <2>1 DEF Recover, PCS
<1>19. ASSUME NEW p \in Procs, Preflight(p)
      PROVE  Fit
  <2>0. admins' = admins
    BY <1>19 DEF Preflight
  <2>1. CASE FailedCall(p) \/ SettlePending(p, "rejected_unauthorized") \/ SettlePending(p, "provisioning_failed")
    BY <1>6, <1>7, <2>0, <2>1
  <2>2. CASE /\ remote[proc[p].session] \in {"paid", "activated"} /\ proc[p].user \in admins /\ Proceed(p, "commit")
    <3>1. /\ Others(p) /\ proc'[p].pc = "commit" /\ proc'[p].session = proc[p].session
          /\ proc'[p].user = proc[p].user /\ proc'[p].entitled = proc[p].entitled
      BY <2>2, Proceeded DEF PCS
    <3>2. proc[p].session \in Sessions /\ proc[p].entitled
      BY <1>0, <1>19, <2>2 DEF Preflight, ProcessFits
    <3>3. remote'[proc[p].session] \in {"paid", "activated"}
      BY <2>2, <3>2 DEF RemoteGoesOn
    <3>4. ProcessFits(p)'
      BY <3>1, <3>2, <3>3 DEF ProcessFits
    <3>. QED
      BY <1>1, <2>0, <3>1, <3>4
  <2>. QED
    BY <1>19, <2>1, <2>2 DEF Preflight
<1>20. ASSUME NEW p \in Procs, Commit(p)
      PROVE  Fit
  <2>0. admins' = admins
    BY <1>20 DEF Commit
  <2>1. CASE FailedCall(p) \/ SettlePending(p, "provisioning_failed")
    BY <1>6, <1>7, <2>0, <2>1
  <2>2. PICK s \in Sessions : s = proc[p].session /\ proc[p].entitled
    BY <1>0, <1>20 DEF Commit, ProcessFits
  <2>3. PICK minted : minted = IF remote[s] = "paid" THEN subscriber.key + 1 ELSE 0
    OBVIOUS
  <2>4. minted \in Nat
    BY <2>3 DEF ActivationTypeOK, Subscription
  <2>5. CASE /\ remote' = [remote EXCEPT ![s] = "activated"]
             /\ subscriber' = IF minted = 0 THEN subscriber ELSE [status |-> "active", key |-> minted]
             /\ proc' = [proc EXCEPT ![p] = [@ EXCEPT !.pc = "finalize", !.key = minted]]
    <3>1. /\ Others(p) /\ proc'[p].pc = "finalize" /\ proc'[p].session = s /\ proc'[p].key = minted
          /\ proc'[p].user = proc[p].user /\ proc'[p].entitled
      BY <2>2, <2>4, <2>5, Committed
    <3>2. remote'[s] = "activated" /\ (minted # 0 => subscriber'.key # 0)
      BY <2>4, <2>5 DEF ActivationTypeOK
    <3>3. ProcessFits(p)'
      BY <3>1, <3>2 DEF ProcessFits
    <3>. QED
      BY <1>1, <2>0, <3>1, <3>3
  <2>. QED
    BY <1>20, <2>1, <2>2, <2>3, <2>5 DEF Commit
<1>21. ASSUME NEW p \in Procs, Finalize(p)
      PROVE  Fit
  <2>1. /\ proc[p].key \in Nat /\ sub.key \in Nat /\ subscriber.key + 1 \in Nat
    BY DEF ActivationTypeOK, ActivationProcess, Subscription
  <2>. QED
    BY <1>5, <1>8, <1>21, <2>1 DEF Finalize, StoreMinted, KeepStored, Rotate
<1>22. ASSUME NEW p \in Web, Queue(p)
      PROVE  Fit
  BY <1>2, <1>3, <1>10, <1>22 DEF Queue, PCS
<1>23. ASSUME NEW p \in Web, Enqueue(p)
      PROVE  Fit
  BY <1>2, <1>10, <1>23 DEF Enqueue
<1>24. ASSUME NEW k \in Workers, NEW s \in Sessions, Take(k, s)
      PROVE  Fit
  <2>0. admins' = admins
    BY <1>24 DEF Take
  <2>1. CASE proc' = proc
    BY <1>9, <2>0, <2>1
  <2>2. ASSUME NEW a \in Attempts,
               proc' = [proc EXCEPT ![k] =
                          [pc |-> "preflight", user |-> pend[s].user, row |-> a, session |-> s, key |-> 0,
                           attempts |-> pend[s].attempts + 1, entitled |-> pend[s].user \in admins]]
        PROVE  Fit
    <3>1. /\ Others(k) /\ proc'[k].pc = "preflight" /\ proc'[k].session = s
          /\ proc'[k].user = pend[s].user /\ proc'[k].entitled = (pend[s].user \in admins)
      BY <1>10, <2>2, Taken
    <3>2. ProcessFits(k)'
      BY <2>0, <3>1 DEF ProcessFits
    <3>. QED
      BY <1>1, <1>10, <2>0, <3>1, <3>2
  <2>. QED
    BY <1>24, <2>1, <2>2 DEF Take, RowsOf
<1>25. ASSUME NEW k \in Workers, Complete(k)
      PROVE  Fit
  BY <1>7, <1>10, <1>25 DEF Complete
<1>26. ASSUME NEW k \in Workers, Reschedule(k)
      PROVE  Fit
  BY <1>7, <1>10, <1>26 DEF Reschedule
<1>27. ASSUME NEW p \in Procs, ProcessDies(p)
      PROVE  Fit
  BY <1>2, <1>27 DEF ProcessDies
<1>28. ASSUME NEW u \in Users, ChangeRole(u)
      PROVE  Fit
  <2>1. CASE admins' = admins \ {u} /\ UNCHANGED proc
    BY <1>0, <2>1, StayingFits DEF Fit
  <2>2. CASE /\ admins' = admins \union {u}
             /\ proc' = [q \in Procs |-> IF proc[q].user = u THEN [proc[q] EXCEPT !.entitled = TRUE] ELSE proc[q]]
    <3>1. ASSUME NEW q \in Procs
          PROVE  ProcessFits(q)'
      <4>1. /\ proc'[q].pc = proc[q].pc /\ proc'[q].session = proc[q].session /\ proc'[q].key = proc[q].key
            /\ proc'[q].user = proc[q].user /\ (proc[q].entitled => proc'[q].entitled)
            /\ proc[q].user = u => proc'[q].entitled
        BY <2>2 DEF ActivationTypeOK, ActivationProcess
      <4>2. ProcessFits(q)
        BY <1>0
      <4>. QED
        BY <2>2, <4>1, <4>2 DEF ProcessFits, RemoteGoesOn
    <3>. QED
      BY <3>1 DEF Fit
  <2>. QED
    BY <1>28, <2>1, <2>2 DEF ChangeRole
<1>29. UNCHANGED <<proc, admins>> \/ ~(\/ \E r \in Reconcilers : ReconcileStep(r)
                                       \/ \E s \in Sessions : Pay(s)
                                       \/ Bill
                                       \/ UNCHANGED ActivationVars)
  BY DEF ReconcileStep, ReconcileLoads, ReconcileAsks, ReconcileSaves, Pay, Bill, ActivationVars
<1>30. Fit
  BY <1>9, <1>10, <1>11, <1>12, <1>13, <1>14, <1>15, <1>16, <1>17, <1>18, <1>19, <1>20, <1>21, <1>22, <1>23, <1>24,
     <1>25, <1>26, <1>27, <1>28, <1>29 DEF ActivationNext, Request, Run, Call
<1>. QED
  BY <1>30 DEF Fit

\* The steps that touch a key or the subscription.
LEMMA KeySteps ==
  ASSUME ActivationTypeOK, [ActivationNext]_ActivationVars
  PROVE  \/ \E p \in Procs : Commit(p) \/ Finalize(p)
         \/ (\E r \in Reconcilers : ReconcileStep(r)) /\ subscriber' = subscriber
         \/ UNCHANGED <<sub, recon>> /\ subscriber'.key = subscriber.key
<1>. DEFINE Untouched == UNCHANGED <<sub, recon>> /\ subscriber'.key = subscriber.key
<1>1. Bill => Untouched
  BY DEF Bill, ActivationTypeOK, Subscription
<1>2. \A p \in Procs, u \in Users : /\ Checkout(p, u) \/ Discard(p, u) => Untouched
                                    /\ \A s \in Sessions : Activate(p, u, s) \/ Recover(p, u, s) => Untouched
  BY DEF Checkout, Discard, Activate, Recover
<1>3. \A p \in Procs : CheckoutReplies(p) \/ CheckoutPromotes(p) \/ DiscardReplies(p) \/ DiscardFlips(p)
                       \/ Preflight(p) \/ Queue(p) \/ Enqueue(p) => Untouched
  BY DEF CheckoutReplies, CheckoutPromotes, DiscardReplies, DiscardFlips, Preflight, Queue, Enqueue
<1>4. \A p \in Procs : /\ Complete(p) \/ Reschedule(p) \/ ProcessDies(p) => Untouched
                      /\ \A s \in Sessions : Take(p, s) => Untouched
  BY DEF Complete, Reschedule, ProcessDies, Take
<1>5. (\E s \in Sessions : Pay(s)) \/ (\E u \in Users : ChangeRole(u)) \/ UNCHANGED ActivationVars => Untouched
  BY DEF Pay, ChangeRole, ActivationVars
<1>6. \A r \in Reconcilers : ReconcileStep(r) => subscriber' = subscriber
  BY DEF ReconcileStep, ReconcileLoads, ReconcileAsks, ReconcileSaves
<1>7. Procs = Web \union Workers
  BY DEF Procs
<1>. HIDE DEF Untouched
<1>8. \/ \E p \in Procs : Commit(p) \/ Finalize(p)
      \/ (\E r \in Reconcilers : ReconcileStep(r)) /\ subscriber' = subscriber
      \/ Untouched
  BY <1>1, <1>2, <1>3, <1>4, <1>5, <1>6, <1>7 DEF ActivationNext, Request, Run, Call
<1>. QED
  BY <1>8 DEF Untouched

\* What the commit of a process does.
LEMMA CommitDoes ==
  ASSUME ActivationTypeOK, ActivationInv, NEW p \in Procs, Commit(p)
  PROVE  \E s \in Sessions, k \in Nat :
           /\ s = proc[p].session /\ proc[p].pc = "commit"
           /\ k = (IF remote[s] = "paid" THEN subscriber.key + 1 ELSE 0)
           /\ remote[s] \in {"paid", "activated"}
           /\ UNCHANGED <<checkout, sub, runsQueued, recon, admins>>
           /\ \/ /\ remote'[s] = "activated"
                 /\ subscriber'.key = (IF k = 0 THEN subscriber.key ELSE k)
              \/ UNCHANGED <<remote, subscriber>>
           /\ \/ /\ proc' = [proc EXCEPT ![p] = [@ EXCEPT !.pc = "finalize", !.key = k]]
                 /\ crossed' = (crossed \/ \E q \in Procs : proc[q].pc = "finalize")
                 /\ remote'[s] = "activated"
                 /\ subscriber'.key = (IF k = 0 THEN subscriber.key ELSE k)
                 /\ UNCHANGED <<pend, bounded>>
              \/ UNCHANGED crossed /\ FailedCall(p)
              \/ UNCHANGED crossed /\ Spend("outages") /\ SettlePending(p, "provisioning_failed")
<1>1. PICK s \in Sessions : s = proc[p].session /\ remote[s] \in {"paid", "activated"} /\ proc[p].pc = "commit"
  BY DEF ActivationInv, ProcessFits, Commit
<1>2. PICK k : k = IF remote[s] = "paid" THEN subscriber.key + 1 ELSE 0
  OBVIOUS
<1>3. k \in Nat
  BY <1>2 DEF ActivationTypeOK, Subscription
<1>4. UNCHANGED <<checkout, sub, runsQueued, recon, admins>>
  BY DEF Commit
<1>5. \/ /\ remote' = [remote EXCEPT ![s] = "activated"]
         /\ subscriber' = IF k = 0 THEN subscriber ELSE [status |-> "active", key |-> k]
         /\ \/ /\ proc' = [proc EXCEPT ![p] = [@ EXCEPT !.pc = "finalize", !.key = k]]
               /\ crossed' = (crossed \/ \E q \in Procs : proc[q].pc = "finalize")
               /\ UNCHANGED <<pend, bounded>>
            \/ FailedCall(p) /\ UNCHANGED crossed
      \/ FailedCall(p) /\ UNCHANGED <<remote, subscriber, crossed>>
      \/ Spend("outages") /\ SettlePending(p, "provisioning_failed") /\ UNCHANGED <<remote, subscriber, crossed>>
  BY <1>1, <1>2 DEF Commit
<1>6. remote' = [remote EXCEPT ![s] = "activated"] => remote'[s] = "activated"
  BY DEF ActivationTypeOK
<1>7. subscriber' = (IF k = 0 THEN subscriber ELSE [status |-> "active", key |-> k])
        => subscriber'.key = (IF k = 0 THEN subscriber.key ELSE k)
  OBVIOUS
<1>. QED
  BY <1>1, <1>2, <1>3, <1>4, <1>5, <1>6, <1>7

\* What a transaction that stores an activation does, or fails to do.
LEMMA FinalizeDoes ==
  ASSUME ActivationTypeOK, NEW p \in Procs, Finalize(p)
  PROVE  /\ UNCHANGED <<pend, runsQueued, recon, remote, admins, crossed>>
         /\ proc[p].pc = "finalize"
         /\ \/ \E k \in Nat :
                 /\ Store(p, k) /\ UNCHANGED bounded
                 /\ \/ k = proc[p].key /\ k # 0 /\ subscriber' = subscriber
                    \/ k = sub.key /\ k # 0 /\ subscriber' = subscriber
                    \/ k = subscriber.key + 1 /\ k # 0 /\ subscriber'.key = k
            \/ /\ Defer(p) /\ Spend("outages") /\ sub.key = 0 /\ UNCHANGED <<checkout, sub>>
               /\ subscriber'.key \in {subscriber.key, subscriber.key + 1}
<1>1. /\ proc[p].key \in Nat /\ sub.key \in Nat /\ subscriber.key \in Nat /\ subscriber.key + 1 \in Nat
      /\ subscriber.key + 1 # 0
      /\ [subscriber EXCEPT !.key = @ + 1].key = subscriber.key + 1
  BY DEF ActivationTypeOK, ActivationProcess, Subscription
<1>2. /\ UNCHANGED <<pend, runsQueued, recon, remote, admins, crossed>>
      /\ proc[p].pc = "finalize"
  BY DEF Finalize
<1>3. CASE StoreMinted(p)
  BY <1>1, <1>2, <1>3 DEF StoreMinted
<1>4. CASE KeepStored(p)
  BY <1>1, <1>2, <1>4 DEF KeepStored
<1>5. CASE sub.key = 0 /\ Rotate(p)
  BY <1>1, <1>2, <1>5 DEF Rotate
<1>. QED
  BY <1>3, <1>4, <1>5 DEF Finalize

\* Keys are where they should be after every step.
LEMMA KeysKept ==
  ASSUME ActivationTypeOK, ActivationInv, [ActivationNext]_ActivationVars, ActivationTypeOK', RemoteGoesOn
  PROVE  KeysFit'
<1>0. KeysFit /\ \A p \in Procs : ProcessFits(p)
  BY DEF ActivationInv
<1>1. (\E s \in Sessions : remote[s] = "activated") => \E s \in Sessions : remote'[s] = "activated"
  BY DEF RemoteGoesOn
<1>2. ASSUME NEW p \in Procs, Commit(p)
      PROVE  KeysFit'
  <2>1. PICK s \in Sessions, k \in Nat :
          /\ UNCHANGED <<sub, recon>>
          /\ \/ remote'[s] = "activated"
             \/ UNCHANGED <<remote, subscriber>>
    BY <1>2, CommitDoes
  <2>. QED
    BY <1>0, <1>1, <2>1 DEF KeysFit, RemoteGoesOn
<1>3. ASSUME NEW p \in Procs, Finalize(p)
      PROVE  KeysFit'
  <2>1. /\ UNCHANGED <<recon, remote>> /\ proc[p].pc = "finalize"
    BY <1>3, FinalizeDoes
  <2>2. \E s \in Sessions : remote'[s] = "activated"
    BY <1>0, <2>1 DEF ProcessFits
  <2>3. CASE UNCHANGED sub
    BY <1>0, <2>1, <2>2, <2>3 DEF KeysFit, RemoteGoesOn
  <2>4. ASSUME NEW k \in Nat, Store(p, k), k # 0, subscriber'.key # 0
        PROVE  KeysFit'
    <3>1. sub'.key = k /\ sub'.key # 0
      BY <2>4, Stored
    <3>. QED
      BY <1>0, <2>1, <2>2, <2>4, <3>1 DEF KeysFit
  <2>5. ASSUME NEW k \in Nat, Store(p, k), k # 0,
               \/ k = proc[p].key /\ subscriber' = subscriber
               \/ k = sub.key /\ subscriber' = subscriber
               \/ subscriber'.key = k
        PROVE  subscriber'.key # 0
    BY <1>0, <2>1, <2>5 DEF KeysFit, ProcessFits
  <2>. QED
    BY <1>3, <2>3, <2>4, <2>5, FinalizeDoes
<1>4. ASSUME NEW r \in Reconcilers, ReconcileStep(r), subscriber' = subscriber
      PROVE  KeysFit'
  <2>1. remote' = remote
    BY <1>4 DEF ReconcileStep, ReconcileLoads, ReconcileAsks, ReconcileSaves
  <2>2. CASE ReconcileLoads(r)
    <3>1. sub' = sub /\ sub.key # 0
      BY <1>0, <2>2 DEF ReconcileLoads, KeysFit
    <3>. QED
      BY <1>0, <1>4, <2>1, <3>1 DEF KeysFit
  <2>3. CASE ReconcileAsks(r)
    <3>1. sub' = sub /\ sub.key # 0
      BY <1>0, <2>3 DEF ReconcileAsks, KeysFit
    <3>. QED
      BY <1>0, <1>4, <2>1, <3>1 DEF KeysFit
  <2>4. CASE ReconcileSaves(r)
    <3>1. sub'.key = sub.key /\ sub.key # 0
      BY <1>0, <2>4 DEF ReconcileSaves, KeysFit, ActivationTypeOK, Subscription
    <3>. QED
      BY <1>0, <1>4, <2>1, <3>1 DEF KeysFit
  <2>. QED
    BY <1>4, <2>2, <2>3, <2>4 DEF ReconcileStep
<1>5. CASE UNCHANGED <<sub, recon>> /\ subscriber'.key = subscriber.key
  BY <1>0, <1>1, <1>5 DEF KeysFit
<1>. QED
  BY <1>2, <1>3, <1>4, <1>5, KeySteps

\* A process that begins, ends or goes on without a commit does not get to finalize.
LEMMA FinalizersStay ==
  ASSUME ActivationTypeOK, [ActivationNext]_ActivationVars, \A p \in Procs : ~Commit(p) /\ ~Finalize(p)
  PROVE  \A q \in Procs : proc'[q].pc = "finalize" => proc[q].pc = "finalize" /\ proc'[q].key = proc[q].key
<1>. DEFINE Stay == \A q \in Procs : proc'[q].pc = "finalize" => proc[q].pc = "finalize" /\ proc'[q].key = proc[q].key
<1>1. ASSUME NEW p \in Procs, Others(p), proc'[p].pc # "finalize"
      PROVE  Stay
  BY <1>1 DEF Others
<1>2. ASSUME UNCHANGED proc
      PROVE  Stay
  BY <1>2
<1>. HIDE DEF Stay
<1>3. ASSUME NEW p \in Procs, Done(p)
      PROVE  Stay
  BY <1>1, <1>3, Ended
<1>4. ASSUME NEW p \in Procs, NEW pc \in PCS \ {"finalize"}, Proceed(p, pc)
      PROVE  Stay
  BY <1>1, <1>4, Proceeded
<1>5. ASSUME NEW p \in Procs, NEW pc \in PCS \ {"finalize"}, NEW u \in Users, NEW a \in Attempts \union {NoCheckout},
             NEW s \in Sessions \union {NoSession}, Begin(p, pc, u, a, s)
      PROVE  Stay
  BY <1>1, <1>5, Begun
<1>6. ASSUME NEW p \in Procs, FailedCall(p)
      PROVE  Stay
  BY <1>1, <1>3, <1>6, Failed, Deferred
<1>7. ASSUME NEW p \in Procs, NEW status, SettlePending(p, status)
      PROVE  Stay
  BY <1>3, <1>7 DEF SettlePending
<1>8. Procs = Web \union Workers
  BY DEF Procs
<1>9. ASSUME NEW p \in Web, NEW u \in Users, Checkout(p, u) \/ Discard(p, u)
      PROVE  Stay
  <2>1. PICK pc \in {"checkout", "discard"}, a \in Attempts \union {NoCheckout}, s \in Sessions \union {NoSession} :
          Begin(p, pc, u, a, s)
    BY <1>9 DEF Checkout, Unused, Discard, InProgress, ActivationTypeOK, CheckoutAttempt
  <2>. QED
    BY <1>5, <1>8, <2>1 DEF PCS
<1>10. ASSUME NEW p \in Web, NEW u \in Users, NEW s \in Sessions, Activate(p, u, s) \/ Recover(p, u, s)
      PROVE  Stay
  <2>1. PICK a \in Attempts : Begin(p, "preflight", u, a, s)
    BY <1>10 DEF Activate, Recover, RowsOf, Unused
  <2>. QED
    BY <1>5, <1>8, <2>1 DEF PCS
<1>11. ASSUME NEW p \in Web, CheckoutReplies(p)
      PROVE  Stay
  BY <1>1, <1>3, <1>8, <1>11, Opened DEF CheckoutReplies, UnusedSessions
<1>12. ASSUME NEW p \in Web, CheckoutPromotes(p) \/ DiscardReplies(p) \/ DiscardFlips(p) \/ Queue(p) \/ Enqueue(p)
      PROVE  Stay
  BY <1>3, <1>4, <1>8, <1>12 DEF CheckoutPromotes, DiscardReplies, DiscardFlips, Queue, Enqueue, PCS
<1>13. ASSUME NEW p \in Procs, Preflight(p)
      PROVE  Stay
  BY <1>4, <1>6, <1>7, <1>13 DEF Preflight, PCS
<1>14. ASSUME NEW k \in Workers, Complete(k) \/ Reschedule(k)
      PROVE  Stay
  BY <1>7, <1>8, <1>14 DEF Complete, Reschedule
<1>15. ASSUME NEW k \in Workers, NEW s \in Sessions, Take(k, s)
      PROVE  Stay
  BY <1>1, <1>2, <1>8, <1>15, Taken DEF Take, RowsOf
<1>16. ASSUME NEW p \in Procs, ProcessDies(p)
      PROVE  Stay
  BY <1>3, <1>16 DEF ProcessDies
<1>17. ASSUME NEW u \in Users, ChangeRole(u)
      PROVE  Stay
  BY <1>17 DEF ChangeRole, ActivationTypeOK, ActivationProcess, Stay
<1>18. ASSUME \/ \E r \in Reconcilers : ReconcileStep(r)
              \/ \E s \in Sessions : Pay(s)
              \/ Bill
              \/ UNCHANGED ActivationVars
       PROVE  Stay
  BY <1>2, <1>18 DEF ReconcileStep, ReconcileLoads, ReconcileAsks, ReconcileSaves, Pay, Bill, ActivationVars
<1>19. ASSUME NEW p \in Web, Request(p)
       PROVE  Stay
  BY <1>8, <1>11, <1>12, <1>13, <1>19 DEF Request, Call
<1>20. ASSUME NEW k \in Workers, Run(k)
       PROVE  Stay
  BY <1>8, <1>13, <1>14, <1>15, <1>20 DEF Run, Call
<1>21. Stay
  BY <1>9, <1>10, <1>16, <1>17, <1>18, <1>19, <1>20 DEF ActivationNext
<1>. QED
  BY <1>21 DEF Stay

\* Other steps do not touch crossed.
LEMMA CrossedStays ==
  ASSUME [ActivationNext]_ActivationVars, \A p \in Procs : ~Commit(p)
  PROVE  crossed' = crossed
BY DEF ActivationNext, ActivationVars, Request, Run, Call, ReconcileStep, Procs, CheckoutReplies,
       CheckoutPromotes, DiscardReplies, DiscardFlips, Preflight, Finalize, Queue, Enqueue, Checkout, Discard, Activate,
       Recover, Complete, Reschedule, Take, ProcessDies, ReconcileLoads, ReconcileAsks, ReconcileSaves, Pay, Bill, ChangeRole

\* Without crossing commits no run holds a key that is not the account's.
LEMMA NotCrossedKept ==
  ASSUME ActivationTypeOK, ActivationInv, [ActivationNext]_ActivationVars, ActivationTypeOK'
  PROVE  NotCrossed'
<1>0. NotCrossed /\ KeysFit /\ OneSold /\ \A p \in Procs : ProcessFits(p)
  BY DEF ActivationInv
<1>1. ASSUME NEW p \in Procs, Commit(p)
      PROVE  NotCrossed'
  <2>1. PICK s \in Sessions, k \in Nat :
           /\ k = (IF remote[s] = "paid" THEN subscriber.key + 1 ELSE 0)
           /\ remote[s] \in {"paid", "activated"}
           /\ sub' = sub
           /\ \/ subscriber'.key = (IF k = 0 THEN subscriber.key ELSE k)
              \/ subscriber' = subscriber
           /\ \/ /\ proc' = [proc EXCEPT ![p] = [@ EXCEPT !.pc = "finalize", !.key = k]]
                 /\ crossed' = (crossed \/ \E q \in Procs : proc[q].pc = "finalize")
                 /\ subscriber'.key = (IF k = 0 THEN subscriber.key ELSE k)
              \/ UNCHANGED crossed /\ FailedCall(p)
              \/ UNCHANGED crossed /\ SettlePending(p, "provisioning_failed")
    BY <1>1, CommitDoes
  <2>2. k # 0 => /\ sub.key = 0
                 /\ \A q \in Procs : proc[q].pc # "finalize"
    <3>1. SUFFICES ASSUME remote[s] = "paid"
                   PROVE  sub.key = 0 /\ \A q \in Procs : proc[q].pc # "finalize"
      BY <2>1
    <3>2. \A t \in Sessions : remote[t] # "activated"
      BY <1>0, <3>1 DEF OneSold, Sold
    <3>. QED
      BY <1>0, <3>2 DEF KeysFit, ProcessFits
  <2>3. k = 0 => subscriber'.key = subscriber.key
    BY <2>1
  <2>4. CASE crossed' = crossed /\ (FailedCall(p) \/ SettlePending(p, "provisioning_failed"))
    <3>1. Others(p) /\ proc'[p].pc # "finalize"
      BY <2>4, Failed, Deferred, Ended DEF SettlePending
    <3>2. CASE k = 0
      BY <1>0, <2>1, <2>3, <2>4, <3>1, <3>2 DEF NotCrossed, Others
    <3>3. CASE k # 0
      BY <2>1, <2>2, <3>1, <3>3 DEF NotCrossed, Others
    <3>. QED
      BY <3>2, <3>3
  <2>5. CASE /\ proc' = [proc EXCEPT ![p] = [@ EXCEPT !.pc = "finalize", !.key = k]]
             /\ crossed' = (crossed \/ \E q \in Procs : proc[q].pc = "finalize")
             /\ subscriber'.key = (IF k = 0 THEN subscriber.key ELSE k)
    <3>1. Others(p) /\ proc'[p].key = k
      BY <2>5, Committed
    <3>2. SUFFICES ASSUME ~crossed, \A q \in Procs : proc[q].pc # "finalize"
                   PROVE  /\ \A q, r \in Procs : proc'[q].pc = "finalize" /\ proc'[r].pc = "finalize" => q = r
                          /\ \A q \in Procs : proc'[q].pc = "finalize" => proc'[q].key \in {0, subscriber'.key}
                          /\ sub'.key \in {0, subscriber'.key}
      BY <2>5 DEF NotCrossed
    <3>3. \A q \in Procs : proc'[q].pc = "finalize" => q = p
      BY <3>1, <3>2 DEF Others
    <3>4. k \in {0, subscriber'.key}
      BY <2>5
    <3>5. sub'.key \in {0, subscriber'.key}
      BY <1>0, <2>1, <2>2, <2>3, <3>2 DEF NotCrossed
    <3>. QED
      BY <3>1, <3>3, <3>4, <3>5
  <2>. QED
    BY <2>1, <2>4, <2>5
<1>2. ASSUME NEW p \in Procs, Finalize(p)
      PROVE  NotCrossed'
  <2>1. SUFFICES ASSUME ~crossed
                 PROVE  /\ \A q \in Procs : proc'[q].pc # "finalize"
                        /\ sub'.key \in {0, subscriber'.key}
    BY <1>2, FinalizeDoes DEF NotCrossed
  <2>2. proc[p].pc = "finalize" /\ \A q \in Procs \ {p} : proc[q].pc # "finalize"
    BY <1>0, <1>2, <2>1, FinalizeDoes DEF NotCrossed
  <2>3. proc[p].key \in {0, subscriber.key} /\ sub.key \in {0, subscriber.key}
    BY <1>0, <2>1, <2>2 DEF NotCrossed
  <2>4. ASSUME NEW k \in Nat, Store(p, k),
               \/ k = proc[p].key /\ k # 0 /\ subscriber' = subscriber
               \/ k = sub.key /\ k # 0 /\ subscriber' = subscriber
               \/ subscriber'.key = k
        PROVE  /\ \A q \in Procs : proc'[q].pc # "finalize"
               /\ sub'.key \in {0, subscriber'.key}
    <3>1. Others(p) /\ sub'.key = k /\ (Proceed(p, "complete") \/ Done(p))
      BY <2>4, Stored
    <3>2. proc'[p].pc # "finalize"
      BY <3>1, Proceeded, Ended DEF PCS
    <3>. QED
      BY <2>2, <2>3, <2>4, <3>1, <3>2 DEF Others
  <2>5. CASE Defer(p) /\ sub.key = 0 /\ sub' = sub
    <3>1. Others(p) /\ proc'[p].pc # "finalize"
      BY <2>5, Deferred
    <3>. QED
      BY <2>2, <2>5, <3>1 DEF Others
  <2>. QED
    BY <1>2, <2>4, <2>5, FinalizeDoes
<1>3. ASSUME \A p \in Procs : ~Commit(p) /\ ~Finalize(p)
      PROVE  NotCrossed'
  <2>1. sub'.key = sub.key /\ subscriber'.key = subscriber.key
    <3>1. ASSUME NEW r \in Reconcilers, ReconcileStep(r)
          PROVE  sub'.key = sub.key
      BY <3>1 DEF ReconcileStep, ReconcileLoads, ReconcileAsks, ReconcileSaves, ActivationTypeOK, Subscription
    <3>. QED
      BY <1>3, <3>1, KeySteps
  <2>2. crossed' = crossed
    BY <1>3, CrossedStays
  <2>. QED
    BY <1>0, <1>3, <2>1, <2>2, FinalizersStay DEF NotCrossed
<1>. QED
  BY <1>1, <1>2, <1>3

-----------------------------------------------------------------------------
(* The slot *)

\* Crashes are counted by crashes alone.
LEMMA CrashesStay ==
  ASSUME ActivationTypeOK, [ActivationNext]_ActivationVars, \A p \in Procs : ~ProcessDies(p)
  PROVE  bounded'.crashes = bounded.crashes
<1>. DEFINE Same == bounded'.crashes = bounded.crashes
<1>1. Spend("outages") \/ Spend("changes") => Same
  BY RowTypes
<1>2. bounded' = bounded => Same
  OBVIOUS
<1>. HIDE DEF Same
<1>3. \A p \in Procs, u \in Users : /\ Checkout(p, u) \/ Discard(p, u) => Same
                                    /\ \A s \in Sessions : Activate(p, u, s) \/ Recover(p, u, s) => Same
  BY <1>2 DEF Checkout, Discard, Activate, Recover
<1>4. \A p \in Procs : CheckoutReplies(p) \/ CheckoutPromotes(p) \/ DiscardReplies(p) \/ DiscardFlips(p)
                       \/ Queue(p) \/ Enqueue(p) => Same
  BY <1>1, <1>2 DEF CheckoutReplies, CheckoutPromotes, DiscardReplies, DiscardFlips, Queue, Enqueue
<1>5. \A p \in Procs : Preflight(p) \/ Commit(p) \/ Finalize(p) => Same
  BY <1>1, <1>2 DEF Preflight, Commit, Finalize, FailedCall, StoreMinted, KeepStored, Rotate
<1>6. \A p \in Procs : /\ Complete(p) \/ Reschedule(p) => Same
                      /\ \A s \in Sessions : Take(p, s) => Same
  BY <1>2 DEF Complete, Reschedule, Take
<1>7. \A r \in Reconcilers : ReconcileStep(r) => Same
  BY <1>1, <1>2 DEF ReconcileStep, ReconcileLoads, ReconcileAsks, ReconcileSaves
<1>8. (\E s \in Sessions : Pay(s)) \/ Bill \/ (\E u \in Users : ChangeRole(u)) \/ UNCHANGED ActivationVars => Same
  BY <1>1, <1>2 DEF Pay, Bill, ChangeRole, ActivationVars
<1>9. Procs = Web \union Workers
  BY DEF Procs
<1>10. Same
  BY <1>3, <1>4, <1>5, <1>6, <1>7, <1>8, <1>9 DEF ActivationNext, Request, Run, Call
<1>. QED
  BY <1>10 DEF Same

\* A step that at most takes rows out of the slot.
RowsCalm == \A a \in Attempts : /\ checkout'[a].session = checkout[a].session
                                /\ checkout'[a].status = checkout[a].status \/ checkout'[a].status \notin IN_PROGRESS

\* A request with a row goes on to promote it, or has settled it.
OwnersStay == \A p \in Web : proc[p].pc \in {"checkout", "promote"} /\ proc[p].row \in Attempts =>
                \/ proc'[p].pc \in {"checkout", "promote"} /\ proc'[p].row = proc[p].row
                \/ checkout'[proc[p].row].status # "creating"

\* Such a step keeps the slot in order.
LEMMA CalmRowsFit ==
  ASSUME ActivationTypeOK, RowsFit, RemoteGoesOn, RowsCalm,
         (OwnersStay /\ bounded'.crashes = bounded.crashes) \/ bounded'.crashes # 0
  PROVE  RowsFit'
<1>1. \A a \in InProgress' : a \in InProgress
  BY DEF InProgress, RowsCalm
<1>2. \A a, b \in InProgress' : a = b
  BY <1>1 DEF RowsFit
<1>3. ASSUME NEW a \in Attempts
      PROVE  /\ checkout'[a].status = "open" => checkout'[a].session \in Sessions
             /\ checkout'[a].session \in Sessions => remote'[checkout'[a].session] # "none"
  BY <1>3 DEF RowsFit, RowsCalm, RemoteGoesOn, IN_PROGRESS
<1>4. ASSUME NEW a \in Attempts, checkout'[a].status = "creating", bounded'.crashes = 0
      PROVE  \E p \in Web : proc'[p].pc \in {"checkout", "promote"} /\ proc'[p].row = a
  <2>1. checkout[a].status = "creating" /\ bounded.crashes = 0
    BY <1>4 DEF RowsCalm, IN_PROGRESS
  <2>2. PICK p \in Web : proc[p].pc \in {"checkout", "promote"} /\ proc[p].row = a
    BY <2>1 DEF RowsFit
  <2>. QED
    BY <1>4, <2>2 DEF OwnersStay
<1>. QED
  BY <1>2, <1>3, <1>4 DEF RowsFit

\* The slot has one row, whatever requests and runs make of the others.
LEMMA RowsKept ==
  ASSUME ActivationTypeOK, ActivationInv, [ActivationNext]_ActivationVars, ActivationTypeOK', RemoteGoesOn
  PROVE  RowsFit'
<1>0. RowsFit /\ \A p \in Procs : ProcessFits(p)
  BY DEF ActivationInv
<1>1. Procs = Web \union Workers
  BY DEF Procs
<1>2. ASSUME checkout' = checkout
      PROVE  RowsCalm
  BY <1>2 DEF RowsCalm
<1>3. ASSUME NEW a, NEW status, status \notin IN_PROGRESS, SetStatus(a, status)
      PROVE  RowsCalm
  BY <1>3, StatusSet DEF RowsCalm
<1>4. ASSUME NEW p \in Procs, proc[p].pc \notin {"checkout", "promote"}, Others(p)
      PROVE  OwnersStay
  BY <1>1, <1>4 DEF OwnersStay, Others
<1>5. ASSUME proc' = proc
      PROVE  OwnersStay
  BY <1>5 DEF OwnersStay
<1>6. CASE \E p \in Procs : ProcessDies(p)
  <2>1. checkout' = checkout /\ bounded'.crashes # 0
    <3>1. checkout' = checkout /\ Spend("crashes")
      BY <1>6 DEF ProcessDies
    <3>2. bounded'["crashes"] = bounded["crashes"] + 1 /\ bounded["crashes"] \in Nat
      BY <3>1, RowTypes DEF ActivationTypeOK
    <3>. QED
      BY <3>1, <3>2
  <2>. QED
    BY <1>0, <1>2, <2>1, CalmRowsFit
<1>7. CASE \A p \in Procs : ~ProcessDies(p)
  <2>1. ASSUME RowsCalm, OwnersStay
        PROVE  RowsFit'
    BY <1>0, <1>7, <2>1, CalmRowsFit, CrashesStay
  <2>2. ASSUME NEW p \in Procs, proc[p].pc \notin {"checkout", "promote"}, Others(p), checkout' = checkout
        PROVE  RowsFit'
    BY <1>2, <1>4, <2>1, <2>2
  <2>3. ASSUME NEW p \in Web, NEW u \in Users, Checkout(p, u)
        PROVE  RowsFit'
    <3>1. PICK a \in Attempts : SetStatus(a, "creating") /\ Begin(p, "checkout", u, a, NoSession)
      BY <2>3 DEF Checkout, Unused
    <3>2. proc'[p].pc = "checkout" /\ proc'[p].row = a
      BY <1>1, <3>1, Begun DEF PCS
    <3>3. InProgress = {} /\ remote' = remote
      BY <2>3 DEF Checkout
    <3>4. /\ \A b \in Attempts : checkout'[b].session = checkout[b].session
          /\ \A b \in Attempts \ {a} : checkout'[b].status = checkout[b].status /\ checkout[b].status \notin IN_PROGRESS
          /\ checkout'[a].status = "creating"
      BY <3>1, <3>3, StatusSet DEF InProgress
    <3>5. \A b, c \in InProgress' : b = c
      BY <3>4 DEF InProgress
    <3>6. \A b \in Attempts : checkout'[b].status \notin {"open"} /\ (checkout'[b].status = "creating" => b = a)
      BY <3>4 DEF IN_PROGRESS
    <3>7. \A b \in Attempts : checkout'[b].session \in Sessions => remote'[checkout'[b].session] # "none"
      BY <1>0, <3>3, <3>4 DEF RowsFit
    <3>. QED
      BY <3>2, <3>5, <3>6, <3>7 DEF RowsFit
  <2>4. ASSUME NEW p \in Web, CheckoutReplies(p)
        PROVE  RowsFit'
    <3>1. CASE checkout' = checkout /\ \E s \in UnusedSessions :
                 proc' = [proc EXCEPT ![p] = [@ EXCEPT !.pc = "promote", !.session = s]]
      <4>1. Others(p) /\ proc'[p].pc = "promote" /\ proc'[p].row = proc[p].row
        BY <1>1, <3>1, Opened DEF UnusedSessions
      <4>2. OwnersStay
        BY <1>1, <4>1 DEF OwnersStay, Others
      <4>. QED
        BY <1>2, <2>1, <3>1, <4>2
    <3>2. CASE Done(p) /\ (SetStatus(proc[p].row, "expired") \/ SetStatus(proc[p].row, "deleted"))
      <4>1. Others(p)
        BY <1>1, <3>2, Ended
      <4>2. proc[p].row \in Attempts => checkout'[proc[p].row].status # "creating"
        BY <3>2, StatusSet
      <4>3. OwnersStay
        BY <1>1, <4>1, <4>2 DEF OwnersStay, Others
      <4>4. RowsCalm
        BY <1>3, <3>2 DEF IN_PROGRESS
      <4>. QED
        BY <2>1, <4>3, <4>4
    <3>. QED
      BY <2>4, <3>1, <3>2 DEF CheckoutReplies
  <2>5. ASSUME NEW p \in Web, CheckoutPromotes(p)
        PROVE  RowsFit'
    <3>0. PICK a : a = proc[p].row
      OBVIOUS
    <3>1. Others(p) /\ proc[p].pc = "promote" /\ proc[p].session \in Sessions /\ remote[proc[p].session] # "none"
      BY <1>0, <1>1, <2>5, Ended DEF CheckoutPromotes, ProcessFits
    <3>2. CASE InProgress \subseteq {a} /\ a \in Attempts
                 /\ checkout' = [checkout EXCEPT ![a] = [status |-> "open", session |-> proc[p].session]]
      <4>1. /\ checkout'[a].status = "open" /\ checkout'[a].session = proc[p].session
            /\ \A b \in Attempts \ {a} : checkout'[b] = checkout[b] /\ checkout[b].status \notin IN_PROGRESS
        BY <3>2 DEF ActivationTypeOK, InProgress
      <4>2. \A b, c \in InProgress' : b = c
        BY <4>1 DEF InProgress
      <4>3. \A b \in Attempts : checkout'[b].status # "creating"
        BY <4>1 DEF IN_PROGRESS
      <4>4. \A b \in Attempts : checkout'[b].status = "open" => b = a
        BY <4>1 DEF IN_PROGRESS
      <4>5. \A b \in Attempts : checkout'[b].session \in Sessions => remote'[checkout'[b].session] # "none"
        BY <1>0, <3>1, <4>1 DEF RowsFit, RemoteGoesOn
      <4>. QED
        BY <3>1, <4>1, <4>2, <4>3, <4>4, <4>5 DEF RowsFit
    <3>3. CASE a \notin Attempts \/ ~(InProgress \subseteq {a})
      <4>1. checkout' = checkout
        BY <2>5, <3>0, <3>3 DEF CheckoutPromotes, ActivationTypeOK
      <4>2. a \in Attempts => checkout[a].status # "creating"
        BY <1>0, <3>3 DEF RowsFit, InProgress, IN_PROGRESS
      <4>3. OwnersStay
        BY <1>1, <3>0, <3>1, <4>1, <4>2 DEF OwnersStay, Others
      <4>. QED
        BY <1>2, <2>1, <4>1, <4>3
    <3>. QED
      BY <2>5, <3>0, <3>2, <3>3 DEF CheckoutPromotes
  <2>6. ASSUME NEW p \in Web, NEW u \in Users, Discard(p, u)
        PROVE  RowsFit'
    <3>1. PICK a \in Attempts \union {NoCheckout}, s \in Sessions \union {NoSession} : Begin(p, "discard", u, a, s)
      BY <2>6 DEF Discard, InProgress, ActivationTypeOK, CheckoutAttempt
    <3>2. Others(p)
      BY <1>1, <3>1, Begun DEF PCS
    <3>. QED
      BY <1>1, <2>2, <2>6, <3>2 DEF Discard
  <2>7. ASSUME NEW p \in Web, DiscardReplies(p)
        PROVE  RowsFit'
    <3>1. Others(p) /\ checkout' = checkout /\ proc[p].pc = "discard"
      BY <1>1, <2>7, Proceeded, Ended DEF DiscardReplies, PCS
    <3>. QED
      BY <1>1, <2>2, <3>1
  <2>8. ASSUME NEW p \in Web, DiscardFlips(p)
        PROVE  RowsFit'
    <3>1. Others(p) /\ proc[p].pc = "flip"
      BY <1>1, <2>8, Ended DEF DiscardFlips
    <3>2. RowsCalm
      BY <1>2, <1>3, <2>8 DEF DiscardFlips, IN_PROGRESS
    <3>. QED
      BY <1>1, <1>4, <2>1, <3>1, <3>2
  <2>9. ASSUME NEW p \in Web, NEW u \in Users, NEW s \in Sessions, Activate(p, u, s)
        PROVE  RowsFit'
    <3>1. Others(p) /\ checkout' = checkout /\ proc[p].pc = "idle"
      BY <1>1, <2>9, Begun DEF Activate, RowsOf, PCS
    <3>. QED
      BY <1>1, <2>2, <3>1
  <2>10. ASSUME NEW p \in Web, NEW u \in Users, NEW s \in Sessions, Recover(p, u, s)
        PROVE  RowsFit'
    <3>1. PICK a \in Attempts :
            \/ /\ checkout[a].session = s /\ InProgress \subseteq {a} /\ SetStatus(a, "open")
            \/ checkout' = [b \in Attempts |-> IF b = a THEN [status |-> "open", session |-> s]
                                               ELSE IF b \in InProgress THEN [checkout[b] EXCEPT !.status = "expired"]
                                               ELSE checkout[b]]
      BY <2>10 DEF Recover, RowsOf, Unused
    <3>2. remote[s] = "paid" /\ remote' = remote
      BY <2>10 DEF Recover
    <3>3. /\ checkout'[a].status = "open" /\ checkout'[a].session = s
          /\ \A b \in Attempts \ {a} : checkout'[b].status \notin IN_PROGRESS /\ checkout'[b].session = checkout[b].session
      <4>1. CASE checkout[a].session = s /\ InProgress \subseteq {a} /\ SetStatus(a, "open")
        BY <4>1, StatusSet DEF InProgress
      <4>2. CASE checkout' = [b \in Attempts |-> IF b = a THEN [status |-> "open", session |-> s]
                                               ELSE IF b \in InProgress THEN [checkout[b] EXCEPT !.status = "expired"]
                                               ELSE checkout[b]]
        BY <4>2 DEF InProgress, IN_PROGRESS, ActivationTypeOK, CheckoutAttempt
      <4>. QED
        BY <3>1, <4>1, <4>2
    <3>4. \A b, c \in InProgress' : b = c
      BY <3>3 DEF InProgress
    <3>5. \A b \in Attempts : checkout'[b].status # "creating" /\ (checkout'[b].status = "open" => b = a)
      BY <3>3 DEF IN_PROGRESS
    <3>6. \A b \in Attempts : checkout'[b].session \in Sessions => remote'[checkout'[b].session] # "none"
      BY <1>0, <3>2, <3>3 DEF RowsFit
    <3>. QED
      BY <3>3, <3>4, <3>5, <3>6 DEF RowsFit
  <2>11. ASSUME NEW p \in Procs, Preflight(p)
         PROVE  RowsFit'
    <3>1. Others(p) /\ checkout' = checkout /\ proc[p].pc = "preflight"
      BY <2>11, Proceeded, Failed, Ended DEF Preflight, SettlePending, PCS
    <3>. QED
      BY <2>2, <3>1
  <2>12. ASSUME NEW p \in Procs, Commit(p)
         PROVE  RowsFit'
    <3>1. Others(p) /\ checkout' = checkout /\ proc[p].pc = "commit"
      <4>1. PICK k \in Nat : /\ checkout' = checkout /\ proc[p].pc = "commit"
                             /\ \/ proc' = [proc EXCEPT ![p] = [@ EXCEPT !.pc = "finalize", !.key = k]]
                                \/ FailedCall(p)
                                \/ SettlePending(p, "provisioning_failed")
        BY <2>12, CommitDoes
      <4>. QED
        BY <4>1, Committed, Failed, Ended DEF SettlePending
    <3>. QED
      BY <2>2, <3>1
  <2>13. ASSUME NEW p \in Procs, Finalize(p)
         PROVE  RowsFit'
    <3>1. Others(p) /\ RowsCalm
      BY <1>2, <1>3, <2>13, FinalizeDoes, Stored, Deferred DEF IN_PROGRESS
    <3>2. proc[p].pc = "finalize"
      BY <2>13, FinalizeDoes
    <3>. QED
      BY <1>4, <2>1, <3>1, <3>2
  <2>14. ASSUME NEW p \in Web, Queue(p) \/ Enqueue(p)
         PROVE  RowsFit'
    <3>1. Others(p) /\ checkout' = checkout /\ proc[p].pc \in {"queue", "enqueue"}
      BY <1>1, <2>14, Proceeded, Ended DEF Queue, Enqueue, PCS
    <3>. QED
      BY <1>1, <2>2, <3>1
  <2>15. ASSUME NEW k \in Workers, Complete(k) \/ Reschedule(k)
         PROVE  RowsFit'
    <3>1. Others(k) /\ checkout' = checkout /\ proc[k].pc \in {"complete", "reschedule"}
      BY <1>1, <2>15, Ended DEF Complete, Reschedule, SettlePending
    <3>. QED
      BY <1>1, <2>2, <3>1
  <2>16. ASSUME NEW k \in Workers, NEW s \in Sessions, Take(k, s)
         PROVE  RowsFit'
    <3>1. (Others(k) \/ proc' = proc) /\ checkout' = checkout /\ proc[k].pc = "idle"
      BY <1>1, <2>16, Taken DEF Take, RowsOf
    <3>. QED
      BY <1>1, <1>2, <1>5, <2>1, <2>2, <3>1
  <2>17. ASSUME NEW u \in Users, ChangeRole(u)
         PROVE  RowsFit'
    <3>1. checkout' = checkout
      BY <2>17 DEF ChangeRole
    <3>2. \A p \in Procs : proc'[p].pc = proc[p].pc /\ proc'[p].row = proc[p].row
      BY <2>17 DEF ChangeRole, ActivationTypeOK, ActivationProcess
    <3>3. OwnersStay
      BY <1>1, <3>2 DEF OwnersStay
    <3>. QED
      BY <1>2, <2>1, <3>1, <3>3
  <2>18. ASSUME \/ \E r \in Reconcilers : ReconcileStep(r)
                \/ \E s \in Sessions : Pay(s)
                \/ Bill
                \/ UNCHANGED ActivationVars
         PROVE  RowsFit'
    <3>1. UNCHANGED <<proc, checkout>>
      BY <2>18 DEF ReconcileStep, ReconcileLoads, ReconcileAsks, ReconcileSaves, Pay, Bill, ActivationVars
    <3>. QED
      BY <1>2, <1>5, <2>1, <3>1
  <2>19. ASSUME NEW p \in Web, Request(p)
         PROVE  RowsFit'
    BY <1>1, <2>4, <2>5, <2>7, <2>8, <2>11, <2>12, <2>13, <2>14, <2>19 DEF Request, Call
  <2>20. ASSUME NEW k \in Workers, Run(k)
         PROVE  RowsFit'
    BY <1>1, <2>11, <2>12, <2>13, <2>15, <2>16, <2>20 DEF Run, Call
  <2>. QED
    BY <1>7, <2>3, <2>6, <2>9, <2>10, <2>17, <2>18, <2>19, <2>20 DEF ActivationNext
<1>. QED
  BY <1>6, <1>7

-----------------------------------------------------------------------------
(* Tasks and runs *)

\* One process more or less that may still queue a task.
LEMMA HoldersCount ==
  ASSUME ActivationTypeOK, NEW p \in Procs, Others(p), NEW s
  PROVE  /\ Cardinality(Holders(s)) \in Nat /\ Cardinality(Holders(s)') \in Nat
         /\ Holds(proc[p], p \in Workers, s) = Holds(proc'[p], p \in Workers, s)
              => Cardinality(Holders(s)') = Cardinality(Holders(s))
         /\ ~Holds(proc[p], p \in Workers, s) /\ Holds(proc'[p], p \in Workers, s)
              => Cardinality(Holders(s)') = Cardinality(Holders(s)) + 1
         /\ Holds(proc[p], p \in Workers, s) /\ ~Holds(proc'[p], p \in Workers, s)
              => Cardinality(Holders(s)') = Cardinality(Holders(s)) - 1
<1>. DEFINE before == Holds(proc[p], p \in Workers, s)
            after == Holds(proc'[p], p \in Workers, s)
<1>1. PICK H, J : H = Holders(s) /\ J = Holders(s)'
  OBVIOUS
<1>2. H \subseteq Procs /\ J \subseteq Procs
  BY <1>1 DEF Holders
<1>3. IsFiniteSet(Procs)
  BY ActivationAssumption DEF Procs
<1>4. IsFiniteSet(H) /\ IsFiniteSet(J)
  BY <1>2, <1>3, FS_Subset
<1>5. Cardinality(H) \in Nat /\ Cardinality(J) \in Nat
  BY <1>4, FS_CardinalityType
<1>6. /\ p \in H <=> before
      /\ p \in J <=> after
      /\ \A q \in Procs \ {p} : q \in H <=> q \in J
  BY <1>1 DEF Holders, Others
<1>. HIDE DEF before, after
<1>7. before = after => J = H
  BY <1>2, <1>6
<1>8. ASSUME ~before, after
      PROVE  Cardinality(J) = Cardinality(H) + 1
  <2>1. J = H \union {p} /\ p \notin H
    BY <1>2, <1>6, <1>8
  <2>. QED
    BY <1>4, <2>1, FS_AddElement
<1>9. ASSUME before, ~after
      PROVE  Cardinality(J) = Cardinality(H) - 1
  <2>1. J = H \ {p} /\ p \in H
    BY <1>2, <1>6, <1>9
  <2>. QED
    BY <1>4, <2>1, FS_RemoveElement
<1>10. /\ Cardinality(H) \in Nat /\ Cardinality(J) \in Nat
       /\ before = after => Cardinality(J) = Cardinality(H)
       /\ ~before /\ after => Cardinality(J) = Cardinality(H) + 1
       /\ before /\ ~after => Cardinality(J) = Cardinality(H) - 1
  BY <1>5, <1>7, <1>8, <1>9
<1>. QED
  BY <1>1, <1>10 DEF before, after

\* The numbers that RunsFit relates.
LEMMA RunNumbers ==
  ASSUME ActivationTypeOK, NEW s \in Sessions
  PROVE  /\ pend[s].attempts \in Nat /\ pend[s].queued \in Nat /\ runsQueued[s] \in Nat
         /\ bounded.crashes \in Nat /\ WORKER_MAX_ATTEMPTS \in Nat /\ WORKER_MAX_ATTEMPTS > 0
<1>1. pend[s] \in Pending /\ runsQueued[s] \in Nat /\ bounded["crashes"] \in Nat
  BY DEF ActivationTypeOK
<1>. QED
  BY <1>1, ActivationAssumption DEF Pending

\* A step that neither queues nor takes nor defers.
RunsCalm == \A s \in Sessions : /\ pend'[s].attempts = pend[s].attempts /\ pend'[s].queued = pend[s].queued
                                /\ runsQueued'[s] = runsQueued[s]

HoldsNoMore(p) == \A s \in Sessions : Holds(proc'[p], p \in Workers, s) => Holds(proc[p], p \in Workers, s)

\* Such a step keeps the count of runs.
LEMMA CalmRunsFit ==
  ASSUME ActivationTypeOK, \A s \in Sessions : RunsFit(s), NEW p \in Procs, Others(p), RunsCalm, HoldsNoMore(p),
         bounded'.crashes = bounded.crashes
  PROVE  \A s \in Sessions : RunsFit(s)'
<1>1. SUFFICES ASSUME NEW s \in Sessions
               PROVE  RunsFit(s)'
  OBVIOUS
<1>2. PICK h, j : h = Cardinality(Holders(s)) /\ j = Cardinality(Holders(s)')
  OBVIOUS
<1>3. h \in Nat /\ j \in Nat /\ j <= h
  <2>1. Holds(proc[p], p \in Workers, s) \/ ~Holds(proc'[p], p \in Workers, s)
    BY DEF HoldsNoMore
  <2>2. \/ Holds(proc[p], p \in Workers, s) = Holds(proc'[p], p \in Workers, s)
        \/ Holds(proc[p], p \in Workers, s) /\ ~Holds(proc'[p], p \in Workers, s)
    BY <2>1 DEF Holds
  <2>3. h \in Nat /\ j \in Nat /\ (j = h \/ j = h - 1)
    BY <1>2, <2>2, HoldersCount
  <2>. QED
    BY <2>3
<1>4. RunsFit(s)
  OBVIOUS
<1>5. IF pend[s].attempts < WORKER_MAX_ATTEMPTS
      THEN runsQueued[s] + h <= pend[s].queued + bounded.crashes
      ELSE pend[s].attempts + (runsQueued[s] + h) <= WORKER_MAX_ATTEMPTS + pend[s].queued - 1 + bounded.crashes
  BY <1>2, <1>4 DEF RunsFit
<1>6. IF pend'[s].attempts < WORKER_MAX_ATTEMPTS
      THEN runsQueued'[s] + j <= pend'[s].queued + bounded'.crashes
      ELSE pend'[s].attempts + (runsQueued'[s] + j) <= WORKER_MAX_ATTEMPTS + pend'[s].queued - 1 + bounded'.crashes
  BY <1>3, <1>5, RunNumbers DEF RunsCalm
<1>. QED
  BY <1>2, <1>6 DEF RunsFit

\* What does not move a process past a task leaves the numbers alone.
LEMMA StillRunsFit ==
  ASSUME ActivationTypeOK, \A s \in Sessions : RunsFit(s), RunsCalm, bounded'.crashes = bounded.crashes,
         \A p \in Procs : proc'[p].pc = proc[p].pc /\ proc'[p].session = proc[p].session /\ proc'[p].attempts = proc[p].attempts
  PROVE  \A s \in Sessions : RunsFit(s)'
<1>1. SUFFICES ASSUME NEW s \in Sessions
               PROVE  RunsFit(s)'
  OBVIOUS
<1>2. Holders(s)' = Holders(s)
  BY DEF Holders, Holds
<1>3. RunsFit(s)
  OBVIOUS
<1>. QED
  BY <1>2, <1>3 DEF RunsFit, RunsCalm

\* What a process that ends, begins or goes on may still queue.
LEMMA EndedHoldsNoMore ==
  ASSUME ActivationTypeOK, NEW p \in Procs, Done(p)
  PROVE  HoldsNoMore(p) /\ \A s \in Sessions : ~Holds(proc'[p], p \in Workers, s)
<1>1. proc'[p].session = NoSession
  BY Ended DEF AtRest
<1>2. \A s \in Sessions : s # NoSession
  BY ActivationAssumption
<1>. QED
  BY <1>1, <1>2 DEF HoldsNoMore, Holds

\* A request may queue a task only where it is about to enqueue.
LEMMA WebHoldsNoMore ==
  ASSUME NEW p \in Web, proc'[p].pc # "enqueue"
  PROVE  HoldsNoMore(p)
BY ActivationAssumption DEF HoldsNoMore, Holds

\* A run may queue one until it ends.
LEMMA WorkerHoldsNoMore ==
  ASSUME NEW p \in Workers, proc[p].pc # "idle", proc'[p].session = proc[p].session, proc'[p].attempts = proc[p].attempts
  PROVE  HoldsNoMore(p)
BY DEF HoldsNoMore, Holds

\* Either, going on.
LEMMA GoingOnHoldsNoMore ==
  ASSUME ActivationTypeOK, NEW p \in Procs, proc[p].pc # "idle", proc'[p].pc # "enqueue",
         proc'[p].session = proc[p].session, proc'[p].attempts = proc[p].attempts
  PROVE  HoldsNoMore(p)
BY WebHoldsNoMore, WorkerHoldsNoMore DEF Procs

\* Every task that runs are counted by was deferred, rescheduled or left by a crash.
LEMMA RunsKept ==
  ASSUME ActivationTypeOK, ActivationInv, [ActivationNext]_ActivationVars, ActivationTypeOK'
  PROVE  \A s \in Sessions : RunsFit(s)'
<1>. DEFINE Fit == \A s \in Sessions : RunsFit(s)'
<1>0. \A s \in Sessions : RunsFit(s)
  BY DEF ActivationInv
<1>1. Procs = Web \union Workers /\ Web \intersect Workers = {}
  BY ActivationAssumption DEF Procs
<1>2. ASSUME \A s \in Sessions : pend'[s].attempts = pend[s].attempts /\ pend'[s].queued = pend[s].queued,
             runsQueued' = runsQueued
      PROVE  RunsCalm
  BY <1>2 DEF RunsCalm
<1>3. ASSUME UNCHANGED <<pend, runsQueued>>
      PROVE  RunsCalm
  BY <1>3 DEF RunsCalm
<1>. HIDE DEF Fit
<1>4. ASSUME NEW p \in Procs, Others(p), RunsCalm, HoldsNoMore(p), \A q \in Procs : ~ProcessDies(q)
      PROVE  Fit
  BY <1>0, <1>4, CalmRunsFit, CrashesStay DEF Fit
<1>5. ASSUME NEW p \in Procs, ProcessDies(p)
      PROVE  Fit
  <2>1. Others(p) /\ \A s \in Sessions : ~Holds(proc'[p], p \in Workers, s)
    BY <1>5, Ended, EndedHoldsNoMore DEF ProcessDies
  <2>2. bounded'.crashes = bounded.crashes + 1
    BY <1>5, RowTypes DEF ProcessDies
  <2>3. pend' = pend
    BY <1>5 DEF ProcessDies
  <2>4. \A s \in Sessions : runsQueued'[s] \in {runsQueued[s], runsQueued[s] + 1}
    <3>1. PICK x : x = proc[p].session
      OBVIOUS
    <3>2. \/ runsQueued' = runsQueued
          \/ runsQueued' = [runsQueued EXCEPT ![x] = @ + 1]
      BY <1>5, <3>1 DEF ProcessDies
    <3>. QED
      BY <3>2, TaskQueued
  <2>5. ASSUME NEW s \in Sessions
        PROVE  RunsFit(s)'
    <3>1. PICK h, j : h = Cardinality(Holders(s)) /\ j = Cardinality(Holders(s)')
      OBVIOUS
    <3>2. h \in Nat /\ j \in Nat /\ (j = h \/ j = h - 1)
      <4>1. \/ Holds(proc[p], p \in Workers, s) = Holds(proc'[p], p \in Workers, s)
            \/ Holds(proc[p], p \in Workers, s) /\ ~Holds(proc'[p], p \in Workers, s)
        BY <2>1 DEF Holds
      <4>. QED
        BY <2>1, <3>1, <4>1, HoldersCount
    <3>3. RunsFit(s)
      BY <1>0
    <3>4. IF pend[s].attempts < WORKER_MAX_ATTEMPTS
          THEN runsQueued[s] + h <= pend[s].queued + bounded.crashes
          ELSE pend[s].attempts + (runsQueued[s] + h) <= WORKER_MAX_ATTEMPTS + pend[s].queued - 1 + bounded.crashes
      BY <3>1, <3>3 DEF RunsFit
    <3>5. IF pend[s].attempts < WORKER_MAX_ATTEMPTS
          THEN runsQueued'[s] + j <= pend[s].queued + bounded'.crashes
          ELSE pend[s].attempts + (runsQueued'[s] + j) <= WORKER_MAX_ATTEMPTS + pend[s].queued - 1 + bounded'.crashes
      BY <2>2, <2>4, <3>2, <3>4, RunNumbers
    <3>. QED
      BY <2>3, <3>1, <3>5 DEF RunsFit
  <2>. QED
    BY <2>5 DEF Fit
<1>6. ASSUME \A p \in Procs : ~ProcessDies(p)
      PROVE  Fit
  <2>1. ASSUME NEW p \in Procs, Others(p), UNCHANGED <<pend, runsQueued>>, HoldsNoMore(p)
        PROVE  Fit
    BY <1>3, <1>4, <1>6, <2>1
  <2>2. ASSUME NEW p \in Procs, Done(p), UNCHANGED <<pend, runsQueued>>
        PROVE  Fit
    BY <2>1, <2>2, Ended, EndedHoldsNoMore
  <2>3. ASSUME NEW p \in Procs, NEW status \in {"rejected_unauthorized", "provisioning_failed", "completed", "pending"},
               SettlePending(p, status), runsQueued' = runsQueued
        PROVE  Fit
    BY <1>2, <1>4, <1>6, <2>3, Settled, Ended, EndedHoldsNoMore
  <2>4. ASSUME NEW p \in Procs, FailedCall(p), proc[p].pc # "idle", runsQueued' = runsQueued
        PROVE  Fit
    <3>1. pend' = pend /\ Others(p) /\ (Defer(p) \/ Done(p))
      BY <2>4, Failed
    <3>2. CASE Done(p)
      BY <2>2, <2>4, <3>1, <3>2
    <3>3. CASE Defer(p)
      <4>1. HoldsNoMore(p)
        BY <2>4, <3>3, Deferred, GoingOnHoldsNoMore
      <4>. QED
        BY <2>1, <2>4, <3>1, <4>1
    <3>. QED
      BY <3>1, <3>2, <3>3
  <2>5. ASSUME NEW p \in Procs, NEW pc \in PCS \ {"enqueue"}, Proceed(p, pc), proc[p].pc # "idle",
               UNCHANGED <<pend, runsQueued>>
        PROVE  Fit
    <3>1. Others(p) /\ HoldsNoMore(p)
      BY <2>5, Proceeded, GoingOnHoldsNoMore
    <3>. QED
      BY <2>1, <2>5, <3>1
  <2>6. ASSUME NEW p \in Web, NEW pc \in PCS \ {"enqueue"}, NEW u \in Users, NEW a \in Attempts \union {NoCheckout},
               NEW s \in Sessions \union {NoSession}, Begin(p, pc, u, a, s), UNCHANGED <<pend, runsQueued>>
        PROVE  Fit
    <3>1. Others(p) /\ proc'[p].pc # "enqueue"
      BY <1>1, <2>6, Begun
    <3>. QED
      BY <1>1, <2>1, <2>6, <3>1, WebHoldsNoMore
  <2>7. ASSUME NEW p \in Web, NEW u \in Users, Checkout(p, u) \/ Discard(p, u)
        PROVE  Fit
    <3>1. PICK pc \in {"checkout", "discard"}, a \in Attempts \union {NoCheckout}, s \in Sessions \union {NoSession} :
            Begin(p, pc, u, a, s)
      BY <2>7 DEF Checkout, Unused, Discard, InProgress, ActivationTypeOK, CheckoutAttempt
    <3>2. UNCHANGED <<pend, runsQueued>>
      BY <2>7 DEF Checkout, Discard
    <3>. QED
      BY <2>6, <3>1, <3>2 DEF PCS
  <2>8. ASSUME NEW p \in Web, NEW u \in Users, NEW s \in Sessions, Activate(p, u, s) \/ Recover(p, u, s)
        PROVE  Fit
    <3>1. PICK a \in Attempts : Begin(p, "preflight", u, a, s)
      BY <2>8 DEF Activate, Recover, RowsOf, Unused
    <3>2. UNCHANGED <<pend, runsQueued>>
      BY <2>8 DEF Activate, Recover
    <3>. QED
      BY <2>6, <3>1, <3>2 DEF PCS
  <2>9. ASSUME NEW p \in Web, CheckoutReplies(p)
        PROVE  Fit
    <3>1. UNCHANGED <<pend, runsQueued>>
      BY <2>9 DEF CheckoutReplies
    <3>2. CASE Done(p)
      BY <1>1, <2>2, <3>1, <3>2
    <3>3. CASE \E s \in UnusedSessions : proc' = [proc EXCEPT ![p] = [@ EXCEPT !.pc = "promote", !.session = s]]
      <4>1. Others(p) /\ proc'[p].pc = "promote"
        BY <1>1, <3>3, Opened DEF UnusedSessions
      <4>. QED
        BY <1>1, <2>1, <3>1, <4>1, WebHoldsNoMore
    <3>. QED
      BY <2>9, <3>2, <3>3 DEF CheckoutReplies
  <2>10. ASSUME NEW p \in Web, CheckoutPromotes(p) \/ DiscardReplies(p) \/ DiscardFlips(p)
         PROVE  Fit
    BY <1>1, <2>2, <2>5, <2>10 DEF CheckoutPromotes, DiscardReplies, DiscardFlips, PCS
  <2>11. ASSUME NEW p \in Procs, Preflight(p)
         PROVE  Fit
    BY <2>3, <2>4, <2>5, <2>11 DEF Preflight, PCS
  <2>12. ASSUME NEW p \in Procs, Commit(p)
         PROVE  Fit
    <3>1. PICK k \in Nat : /\ runsQueued' = runsQueued /\ proc[p].pc = "commit"
                           /\ \/ /\ proc' = [proc EXCEPT ![p] = [@ EXCEPT !.pc = "finalize", !.key = k]]
                                 /\ pend' = pend
                              \/ FailedCall(p)
                              \/ SettlePending(p, "provisioning_failed")
      BY <2>12, CommitDoes
    <3>2. CASE proc' = [proc EXCEPT ![p] = [@ EXCEPT !.pc = "finalize", !.key = k]] /\ pend' = pend
      <4>1. Others(p) /\ HoldsNoMore(p)
        BY <3>1, <3>2, Committed, GoingOnHoldsNoMore
      <4>. QED
        BY <2>1, <3>1, <3>2, <4>1
    <3>. QED
      BY <2>3, <2>4, <3>1, <3>2
  <2>13. ASSUME NEW p \in Procs, Finalize(p)
         PROVE  Fit
    <3>1. /\ UNCHANGED <<pend, runsQueued>> /\ proc[p].pc = "finalize"
          /\ Defer(p) \/ Proceed(p, "complete") \/ Done(p)
      BY <2>13, FinalizeDoes, Stored
    <3>2. CASE Defer(p)
      <4>1. Others(p) /\ HoldsNoMore(p)
        BY <3>1, <3>2, Deferred, GoingOnHoldsNoMore
      <4>. QED
        BY <2>1, <3>1, <4>1
    <3>. QED
      BY <2>2, <2>5, <3>1, <3>2 DEF PCS
  <2>14. ASSUME NEW p \in Web, Queue(p)
         PROVE  Fit
    <3>0. p \in Procs /\ p \notin Workers
      BY <1>1
    <3>1. CASE Done(p) /\ pend' = pend
      BY <2>2, <2>14, <3>0, <3>1 DEF Queue
    <3>2. PICK x : x = proc[p].session
      OBVIOUS
    <3>3. PICK u \in Users \union {NoUser} : u = proc[p].user
      BY <3>0 DEF ActivationTypeOK, ActivationProcess
    <3>4. CASE /\ pend' = [pend EXCEPT ![x].status = "pending", ![x].user = u, ![x].queued = @ + 1]
               /\ Proceed(p, "enqueue")
      <4>1. \A s \in Sessions : /\ pend'[s].attempts = pend[s].attempts
                                /\ pend'[s].queued = IF s = x THEN pend[s].queued + 1 ELSE pend[s].queued
        BY <3>4, PendingQueued
      <4>2. runsQueued' = runsQueued /\ bounded'.crashes = bounded.crashes /\ proc[p].pc = "queue"
        BY <2>14 DEF Queue
      <4>3. Others(p) /\ proc'[p].pc = "enqueue" /\ proc'[p].session = x
        BY <3>0, <3>2, <3>4, Proceeded DEF PCS
      <4>4. ASSUME NEW s \in Sessions
            PROVE  RunsFit(s)'
        <5>1. PICK h, j : h = Cardinality(Holders(s)) /\ j = Cardinality(Holders(s)')
          OBVIOUS
        <5>2. ~Holds(proc[p], p \in Workers, s) /\ (Holds(proc'[p], p \in Workers, s) <=> s = x)
          BY <3>0, <4>2, <4>3 DEF Holds
        <5>3. h \in Nat /\ j \in Nat /\ j = IF s = x THEN h + 1 ELSE h
          <6>1. CASE s = x
            BY <3>0, <4>3, <5>1, <5>2, <6>1, HoldersCount
          <6>2. CASE s # x
            <7>1. Holds(proc[p], p \in Workers, s) = Holds(proc'[p], p \in Workers, s)
              BY <5>2, <6>2 DEF Holds
            <7>. QED
              BY <3>0, <4>3, <5>1, <6>2, <7>1, HoldersCount
          <6>. QED
            BY <6>1, <6>2
        <5>4. RunsFit(s)
          BY <1>0
        <5>5. IF pend[s].attempts < WORKER_MAX_ATTEMPTS
              THEN runsQueued[s] + h <= pend[s].queued + bounded.crashes
              ELSE pend[s].attempts + (runsQueued[s] + h) <= WORKER_MAX_ATTEMPTS + pend[s].queued - 1 + bounded.crashes
          BY <5>1, <5>4 DEF RunsFit
        <5>6. IF pend'[s].attempts < WORKER_MAX_ATTEMPTS
              THEN runsQueued[s] + j <= pend'[s].queued + bounded.crashes
              ELSE pend'[s].attempts + (runsQueued[s] + j) <= WORKER_MAX_ATTEMPTS + pend'[s].queued - 1 + bounded.crashes
          BY <4>1, <5>3, <5>5, RunNumbers
        <5>. QED
          BY <4>2, <5>1, <5>6 DEF RunsFit
      <4>. QED
        BY <4>4 DEF Fit
    <3>. QED
      BY <2>14, <3>1, <3>2, <3>3, <3>4 DEF Queue
  <2>15. ASSUME NEW p \in Web, Enqueue(p)
         PROVE  Fit
    <3>0. p \in Procs /\ p \notin Workers
      BY <1>1
    <3>1. PICK x : x = proc[p].session
      OBVIOUS
    <3>2. runsQueued' = [runsQueued EXCEPT ![x] = @ + 1] /\ Done(p)
      BY <2>15, <3>1 DEF Enqueue
    <3>3. \A s \in Sessions : runsQueued'[s] = IF s = x THEN runsQueued[s] + 1 ELSE runsQueued[s]
      BY <3>2, TaskQueued
    <3>4. pend' = pend /\ bounded'.crashes = bounded.crashes /\ proc[p].pc = "enqueue"
      BY <2>15 DEF Enqueue
    <3>5. ASSUME NEW s \in Sessions
          PROVE  RunsFit(s)'
      <4>1. PICK h, j : h = Cardinality(Holders(s)) /\ j = Cardinality(Holders(s)')
        OBVIOUS
      <4>2. ~Holds(proc'[p], p \in Workers, s) /\ (Holds(proc[p], p \in Workers, s) <=> s = x)
        BY <3>0, <3>1, <3>2, <3>4, EndedHoldsNoMore DEF Holds
      <4>3. Others(p)
        BY <3>0, <3>2, Ended
      <4>4. h \in Nat /\ j \in Nat /\ j = IF s = x THEN h - 1 ELSE h
        <5>1. CASE s = x
          BY <3>0, <4>1, <4>2, <4>3, <5>1, HoldersCount
        <5>2. CASE s # x
          <6>1. Holds(proc[p], p \in Workers, s) = Holds(proc'[p], p \in Workers, s)
            BY <4>2, <5>2 DEF Holds
          <6>. QED
            BY <3>0, <4>1, <4>3, <5>2, <6>1, HoldersCount
        <5>. QED
          BY <5>1, <5>2
      <4>5. RunsFit(s)
        BY <1>0
      <4>6. runsQueued'[s] + j = runsQueued[s] + h
        BY <3>3, <4>4, RunNumbers
      <4>7. runsQueued'[s] + Cardinality(Holders(s)') = runsQueued[s] + Cardinality(Holders(s))
        BY <4>1, <4>6
      <4>. QED
        BY <3>4, <4>5, <4>7 DEF RunsFit
    <3>. QED
      BY <3>5 DEF Fit
  <2>16. ASSUME NEW k \in Workers, Complete(k)
         PROVE  Fit
    BY <1>1, <2>3, <2>16 DEF Complete
  <2>17. ASSUME NEW k \in Workers, Reschedule(k)
         PROVE  Fit
    <3>0. k \in Procs
      BY <1>1
    <3>1. PICK x : x = proc[k].session
      OBVIOUS
    <3>2. CASE SettlePending(k, "provisioning_failed") /\ runsQueued' = runsQueued
      BY <2>3, <3>0, <3>2
    <3>3. CASE /\ proc[k].attempts < WORKER_MAX_ATTEMPTS /\ SettlePending(k, "pending")
               /\ runsQueued' = [runsQueued EXCEPT ![x] = @ + 1]
      <4>1. \A s \in Sessions : runsQueued'[s] = IF s = x THEN runsQueued[s] + 1 ELSE runsQueued[s]
        BY <3>3, TaskQueued
      <4>2. /\ Done(k) /\ Others(k)
            /\ \A s \in Sessions : pend'[s].attempts = pend[s].attempts /\ pend'[s].queued = pend[s].queued
        BY <3>0, <3>3, Settled, Ended
      <4>3. bounded'.crashes = bounded.crashes /\ proc[k].pc = "reschedule"
        BY <2>17 DEF Reschedule
      <4>4. ASSUME NEW s \in Sessions
            PROVE  RunsFit(s)'
        <5>1. PICK h, j : h = Cardinality(Holders(s)) /\ j = Cardinality(Holders(s)')
          OBVIOUS
        <5>2. ~Holds(proc'[k], k \in Workers, s) /\ (Holds(proc[k], k \in Workers, s) <=> s = x)
          BY <3>0, <3>1, <3>3, <4>2, <4>3, EndedHoldsNoMore DEF Holds
        <5>3. h \in Nat /\ j \in Nat /\ j = IF s = x THEN h - 1 ELSE h
          <6>1. CASE s = x
            BY <3>0, <4>2, <5>1, <5>2, <6>1, HoldersCount
          <6>2. CASE s # x
            <7>1. Holds(proc[k], k \in Workers, s) = Holds(proc'[k], k \in Workers, s)
              BY <5>2, <6>2 DEF Holds
            <7>. QED
              BY <3>0, <4>2, <5>1, <6>2, <7>1, HoldersCount
          <6>. QED
            BY <6>1, <6>2
        <5>4. RunsFit(s)
          BY <1>0
        <5>5. runsQueued'[s] + j = runsQueued[s] + h
          BY <4>1, <5>3, RunNumbers
        <5>6. runsQueued'[s] + Cardinality(Holders(s)') = runsQueued[s] + Cardinality(Holders(s))
          BY <5>1, <5>5
        <5>. QED
          BY <4>2, <4>3, <5>4, <5>6 DEF RunsFit
      <4>. QED
        BY <4>4 DEF Fit
    <3>. QED
      BY <2>17, <3>1, <3>2, <3>3 DEF Reschedule
  <2>18. ASSUME NEW k \in Workers, NEW s \in Sessions, Take(k, s)
         PROVE  Fit
    <3>0. k \in Procs
      BY <1>1
    <3>1. /\ proc[k].pc = "idle" /\ bounded'.crashes = bounded.crashes
          /\ \A t \in Sessions : runsQueued'[t] = IF t = s THEN runsQueued[t] - 1 ELSE runsQueued[t]
      BY <2>18 DEF Take, ActivationTypeOK
    <3>2. \A t \in Sessions : ~Holds(proc[k], k \in Workers, t)
      BY <3>1 DEF Holds
    <3>3. CASE UNCHANGED <<pend, proc>>
      <4>1. ASSUME NEW t \in Sessions
            PROVE  RunsFit(t)'
        <5>1. Holders(t)' = Holders(t)
          BY <3>3 DEF Holders
        <5>2. PICK h : h = Cardinality(Holders(t))
          OBVIOUS
        <5>3. h \in Nat
          BY <3>0, <3>3, <5>2, HoldersCount DEF Others
        <5>4. RunsFit(t)
          BY <1>0
        <5>5. IF pend[t].attempts < WORKER_MAX_ATTEMPTS
              THEN runsQueued[t] + h <= pend[t].queued + bounded.crashes
              ELSE pend[t].attempts + (runsQueued[t] + h) <= WORKER_MAX_ATTEMPTS + pend[t].queued - 1 + bounded.crashes
          BY <5>2, <5>4 DEF RunsFit
        <5>6. IF pend[t].attempts < WORKER_MAX_ATTEMPTS
              THEN runsQueued'[t] + h <= pend[t].queued + bounded.crashes
              ELSE pend[t].attempts + (runsQueued'[t] + h) <= WORKER_MAX_ATTEMPTS + pend[t].queued - 1 + bounded.crashes
          BY <3>1, <5>3, <5>5, RunNumbers
        <5>. QED
          BY <3>1, <3>3, <5>1, <5>2, <5>6 DEF RunsFit
      <4>. QED
        BY <4>1 DEF Fit
    <3>4. ASSUME NEW a \in Attempts,
                 pend' = [pend EXCEPT ![s].status = "in_progress", ![s].attempts = @ + 1],
                 proc' = [proc EXCEPT ![k] =
                          [pc |-> "preflight", user |-> pend[s].user, row |-> a, session |-> s, key |-> 0,
                           attempts |-> pend[s].attempts + 1, entitled |-> pend[s].user \in admins]]
          PROVE  Fit
      <4>1. \A t \in Sessions : /\ pend'[t].attempts = IF t = s THEN pend[t].attempts + 1 ELSE pend[t].attempts
                                /\ pend'[t].queued = pend[t].queued
        BY <3>4, PendingTaken
      <4>2. /\ Others(k) /\ proc'[k].pc = "preflight" /\ proc'[k].session = s
            /\ proc'[k].attempts = pend[s].attempts + 1
        BY <3>0, <3>4, Taken
      <4>3. ASSUME NEW t \in Sessions
            PROVE  RunsFit(t)'
        <5>1. PICK h, j : h = Cardinality(Holders(t)) /\ j = Cardinality(Holders(t)')
          OBVIOUS
        <5>2. Holds(proc'[k], k \in Workers, t) <=> t = s /\ pend[t].attempts + 1 < WORKER_MAX_ATTEMPTS
          BY <4>2 DEF Holds
        <5>3. h \in Nat /\ j \in Nat /\ j = IF t = s /\ pend[t].attempts + 1 < WORKER_MAX_ATTEMPTS THEN h + 1 ELSE h
          <6>1. CASE Holds(proc'[k], k \in Workers, t)
            BY <3>0, <3>2, <4>2, <5>1, <5>2, <6>1, HoldersCount
          <6>2. CASE ~Holds(proc'[k], k \in Workers, t)
            <7>1. Holds(proc[k], k \in Workers, t) = Holds(proc'[k], k \in Workers, t)
              BY <3>2, <6>2 DEF Holds
            <7>2. h \in Nat /\ j \in Nat /\ j = h
              BY <3>0, <4>2, <5>1, <7>1, HoldersCount
            <7>. QED
              BY <5>2, <6>2, <7>2
          <6>. QED
            BY <6>1, <6>2
        <5>4. RunsFit(t)
          BY <1>0
        <5>5. IF pend[t].attempts < WORKER_MAX_ATTEMPTS
              THEN runsQueued[t] + h <= pend[t].queued + bounded.crashes
              ELSE pend[t].attempts + (runsQueued[t] + h) <= WORKER_MAX_ATTEMPTS + pend[t].queued - 1 + bounded.crashes
          BY <5>1, <5>4 DEF RunsFit
        <5>6. IF pend'[t].attempts < WORKER_MAX_ATTEMPTS
              THEN runsQueued'[t] + j <= pend'[t].queued + bounded.crashes
              ELSE pend'[t].attempts + (runsQueued'[t] + j) <= WORKER_MAX_ATTEMPTS + pend'[t].queued - 1 + bounded.crashes
          BY <3>1, <4>1, <5>3, <5>5, RunNumbers
        <5>. QED
          BY <3>1, <5>1, <5>6 DEF RunsFit
      <4>. QED
        BY <4>3 DEF Fit
    <3>. QED
      BY <2>18, <3>3, <3>4 DEF Take, RowsOf
  <2>19. ASSUME \/ \E u \in Users : ChangeRole(u)
                \/ \E r \in Reconcilers : ReconcileStep(r)
                \/ \E s \in Sessions : Pay(s)
                \/ Bill
                \/ UNCHANGED ActivationVars
         PROVE  Fit
    <3>1. UNCHANGED <<pend, runsQueued>>
      BY <2>19 DEF ChangeRole, ReconcileStep, ReconcileLoads, ReconcileAsks, ReconcileSaves, Pay, Bill, ActivationVars
    <3>2. \A p \in Procs : /\ proc'[p].pc = proc[p].pc /\ proc'[p].session = proc[p].session
                           /\ proc'[p].attempts = proc[p].attempts
      <4>1. CASE proc' = proc
        BY <4>1
      <4>2. CASE \E u \in Users : ChangeRole(u)
        BY <4>2 DEF ChangeRole, ActivationTypeOK, ActivationProcess
      <4>. QED
        BY <2>19, <4>1, <4>2 DEF ReconcileStep, ReconcileLoads, ReconcileAsks, ReconcileSaves, Pay, Bill, ActivationVars
    <3>. QED
      BY <1>0, <1>3, <1>6, <3>1, <3>2, StillRunsFit, CrashesStay DEF Fit
  <2>20. ASSUME NEW p \in Web, Request(p)
         PROVE  Fit
    BY <1>1, <2>9, <2>10, <2>11, <2>12, <2>13, <2>14, <2>15, <2>20 DEF Request, Call
  <2>21. ASSUME NEW k \in Workers, Run(k)
         PROVE  Fit
    BY <1>1, <2>11, <2>12, <2>13, <2>16, <2>17, <2>18, <2>21 DEF Run, Call
  <2>. QED
    BY <1>6, <2>7, <2>8, <2>19, <2>20, <2>21 DEF ActivationNext
<1>. QED
  BY <1>5, <1>6 DEF Fit

-----------------------------------------------------------------------------
(* The theorems *)

\* The invariant holds at first,
LEMMA ActivationStarts ==
  ASSUME ActivationInit
  PROVE  ActivationTypeOK /\ ActivationInv
<1>1. AtRest \in ActivationProcess /\ AtRest.pc = "idle" /\ AtRest.user = NoUser
  BY ProcessTypes DEF AtRest
<1>2. ActivationTypeOK
  <2>1. checkout \in [Attempts -> CheckoutAttempt]
    BY DEF ActivationInit, CheckoutAttempt
  <2>2. pend \in [Sessions -> Pending]
    BY DEF ActivationInit, Pending
  <2>3. proc \in [Procs -> ActivationProcess]
    BY <1>1 DEF ActivationInit
  <2>4. recon \in [Reconcilers -> Reconcile]
    BY DEF ActivationInit, Reconcile, NotReconciling
  <2>. QED
    BY <2>1, <2>2, <2>3, <2>4 DEF ActivationInit, ActivationTypeOK, Subscription
<1>3. OneSold /\ KeysFit /\ RowsFit
  <2>1. OneSold /\ KeysFit
    BY DEF ActivationInit, OneSold, Sold, KeysFit, NotReconciling
  <2>2. \A a \in Attempts : checkout[a].status = "unused" /\ checkout[a].session = NoSession
    BY DEF ActivationInit
  <2>3. RowsFit
    BY <2>2, ActivationAssumption DEF RowsFit, InProgress, IN_PROGRESS
  <2>. QED
    BY <2>1, <2>3
<1>4. \A p \in Procs : proc[p] = AtRest
  BY DEF ActivationInit
<1>5. NotCrossed /\ \A p \in Procs : ProcessFits(p)
  <2>1. NoUser \notin admins
    BY ActivationAssumption DEF ActivationInit
  <2>2. sub.key = 0
    BY DEF ActivationInit
  <2>. QED
    BY <1>1, <1>4, <2>1, <2>2 DEF NotCrossed, ProcessFits
<1>6. ASSUME NEW s \in Sessions
      PROVE  RunsFit(s)
  <2>1. Holders(s) = {}
    BY <1>4, ActivationAssumption DEF Holders, Holds, AtRest
  <2>2. Cardinality(Holders(s)) = 0
    BY <2>1, FS_EmptySet
  <2>3. pend[s].attempts = 0 /\ pend[s].queued = 0 /\ runsQueued[s] = 0 /\ bounded.crashes = 0
    BY DEF ActivationInit
  <2>. QED
    BY <2>2, <2>3, ActivationAssumption DEF RunsFit
<1>. QED
  BY <1>2, <1>3, <1>5, <1>6 DEF ActivationInv

\* and every step keeps it.
LEMMA ActivationGoesOn ==
  ASSUME ActivationTypeOK, ActivationInv, [ActivationNext]_ActivationVars
  PROVE  ActivationTypeOK' /\ ActivationInv'
<1>1. ActivationTypeOK' /\ RemoteGoesOn
  BY ActivationTypesKept, RemoteStepsGoOn
<1>2. OneSold'
  BY <1>1 DEF RemoteGoesOn
<1>3. KeysFit' /\ NotCrossed' /\ RowsFit'
  BY <1>1, KeysKept, NotCrossedKept, RowsKept
<1>4. (\A p \in Procs : ProcessFits(p)') /\ \A s \in Sessions : RunsFit(s)'
  BY <1>1, ProcessesKept, RunsKept
<1>. QED
  BY <1>1, <1>2, <1>3, <1>4 DEF ActivationInv, Procs

\* Together:
LEMMA ActivationAlwaysFits == ActivationSpec => [](ActivationTypeOK /\ ActivationInv)
<1>1. ActivationInit => ActivationTypeOK /\ ActivationInv
  BY ActivationStarts
<1>2. ActivationTypeOK /\ ActivationInv /\ [ActivationNext]_ActivationVars => (ActivationTypeOK /\ ActivationInv)'
  BY ActivationGoesOn
<1>. QED
  BY <1>1, <1>2, PTL DEF ActivationSpec

\* A subscription has a key that the service accepts, only administrators commit, and a
\* worker runs a session no more often than it was asked to, for every number of web
\* requests, workers, rows, sessions and failures.
THEOREM ActivationAlwaysSound == ActivationSpec => []ActivationIsSound
<1>1. ActivationTypeOK /\ ActivationInv => ActivationIsSound
  <2>. SUFFICES ASSUME ActivationTypeOK, ActivationInv
                 PROVE  ActivationIsSound
    OBVIOUS
  <2>2. ActiveHasKey
    BY DEF ActiveHasKey, ActivationInv, KeysFit
  <2>3. StoredKeyWorks
    BY DEF StoredKeyWorks, ActivationInv, NotCrossed, ActivationTypeOK
  <2>4. CommittersWereAdmins
    BY DEF CommittersWereAdmins, ActivationInv, ProcessFits
  <2>5. ASSUME NEW s \in Sessions
        PROVE  pend[s].attempts <= WORKER_MAX_ATTEMPTS + (pend[s].queued - 1) + bounded.crashes
    <3>1. PICK h : h = Cardinality(Holders(s))
      OBVIOUS
    <3>2. h \in Nat
      <4>1. IsFiniteSet(Holders(s))
        BY ActivationAssumption, FS_Subset DEF Holders, Procs
      <4>. QED
        BY <3>1, <4>1, FS_CardinalityType
    <3>3. RunsFit(s)
      BY DEF ActivationInv
    <3>4. IF pend[s].attempts < WORKER_MAX_ATTEMPTS
          THEN runsQueued[s] + h <= pend[s].queued + bounded.crashes
          ELSE pend[s].attempts + (runsQueued[s] + h) <= WORKER_MAX_ATTEMPTS + pend[s].queued - 1 + bounded.crashes
      BY <3>1, <3>3 DEF RunsFit
    <3>. QED
      BY <3>2, <3>4, RunNumbers
  <2>6. WorkerRunsBounded
    BY <2>5 DEF WorkerRunsBounded
  <2>. QED
    BY <2>2, <2>3, <2>4, <2>6 DEF ActivationIsSound
<1>. QED
  BY <1>1, ActivationAlwaysFits, PTL

\* What blocks the recovery of a paid session while no request is in flight is a row
\* promoted after its session had been closed, and nothing else.
THEOREM PaidAlwaysRecoverable == ActivationSpec => []PaidIsRecoverable
<1>1. ActivationTypeOK /\ ActivationInv => PaidIsRecoverable
  <2>. SUFFICES ASSUME ActivationTypeOK, ActivationInv, NEW s \in Sessions, remote[s] = "paid", bounded.crashes = 0,
                        \A p \in Web : proc[p].pc = "idle", NEW a \in InProgress
                 PROVE  \/ RowsOf(s) = {} \/ checkout[a].session = s
                        \/ checkout[a].status = "open" /\ remote[checkout[a].session] = "closed"
    BY DEF PaidIsRecoverable
  <2>2. RowsFit /\ OneSold
    BY DEF ActivationInv
  <2>3. checkout[a].status = "open"
    BY <2>2 DEF RowsFit, InProgress, IN_PROGRESS
  <2>4. PICK t \in Sessions : t = checkout[a].session /\ remote[t] # "none"
    BY <2>2, <2>3 DEF RowsFit, InProgress
  <2>5. remote[t] \in {"none", "open", "closed", "paid", "activated"}
    BY DEF ActivationTypeOK
  <2>6. t = s \/ remote[t] = "closed"
    BY <2>2, <2>4, <2>5 DEF OneSold, Sold
  <2>. QED
    BY <2>3, <2>4, <2>6
<1>. QED
  BY <1>1, ActivationAlwaysFits, PTL
=============================================================================
